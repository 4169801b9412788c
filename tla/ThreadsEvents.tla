--------------------------- MODULE ThreadsEvents ---------------------------
(***************************************************************************)
(* Proofs about what the threads of Threads do to one another: events are  *)
(* run in order, each once; a thread asleep on a mutex is in its queue;    *)
(* and an exit lets go of everything.                                      *)
(***************************************************************************)
EXTENDS ThreadsProofs

\* Zenon finds most of the steps; those that need more are marked SMT.
USE Zenon

-----------------------------------------------------------------------------
(* Stacks                                                                  *)

\* Thread t is in the queue of mutex m or has been given it.
Holds(t, m) == m \in Mutex /\ (owner[m] = t \/ t \in Range(waiters[m]))

\* The activations a step of thread t may begin: the stages of a signal to
\* itself only where such a signal is used, and a "lock" once it is queued.
Fresh(t) ==
  {f \in Frame : /\ f.op \in SelfOps => "self" \in Ops \/ OpOf(stack[t]) \in SelfOps
                 /\ f.op = "lock" => Holds(t, f.mutex)'}

\* All that a step can do to the stacks: nothing, or to that of one thread a
\* call, a return, a jump to another activation, an event that is called, or a
\* fresh start.  %suspend-current-thread calls events only, and is called by
\* %lock-thread-mutex only until the mutex is handed over.
StackStep(t) ==
  \/ stack' = stack
  \/ /\ OpOf(stack[t]) # "suspend"
     /\ \E f \in Fresh(t) :
          /\ f.op = "suspend" /\ OpOf(stack[t]) = "lock" => owner'[Top(t).mutex] # t
          /\ stack' = [stack EXCEPT ![t] = <<f>> \o stack[t]]
  \/ stack[t] # << >> /\ stack' = [stack EXCEPT ![t] = Tail(stack[t])]
  \/ /\ stack[t] # << >>
     /\ \E f \in Fresh(t) :
          /\ f.op = "suspend" => f.any
          /\ stack' = [stack EXCEPT ![t] = <<f>> \o Tail(stack[t])]
  \/ /\ stack[t] # << >>
     /\ \E c, f \in Fresh(t) :
          /\ c.op # "suspend" /\ f.any
          /\ stack' = [stack EXCEPT ![t] = <<c>> \o (<<f>> \o Tail(stack[t]))]
  \/ \E f \in Fresh(t) : stack' = [stack EXCEPT ![t] = <<f>>]

\* The frames that the actions make, by what is known of them.
LEMMA FreshFrames ==
  ASSUME NEW t \in Thread
  PROVE  /\ \A o \in MaskedOps \cup {"closure"}, b \in Block :
               o # "lock" => MkFrame(o, b) \in Fresh(t)
         /\ \A m \in Mutex : Holds(t, m)' => LockFrame(m) \in Fresh(t)
         /\ \A f \in Frame : f.op \in MaskedOps \ {"lock"} =>
               [f EXCEPT !.any = TRUE] \in Fresh(t)
<1>1. \A o \in MaskedOps \cup {"closure"} : o \notin SelfOps /\ o \in OpenOps \cup MaskedOps
  BY DEF MaskedOps, SelfOps, OpenOps
<1>2. ASSUME NEW o \in MaskedOps \cup {"closure"}, NEW b \in Block, o # "lock"
      PROVE  MkFrame(o, b) \in Fresh(t)
  <2>1. MkFrame(o, b) \in Frame /\ MkFrame(o, b).op = o
    BY <1>1, FrameTypes DEF MkFrame
  <2>2. QED BY <1>1, <1>2, <2>1 DEF Fresh
<1>3. ASSUME NEW m \in Mutex, Holds(t, m)' PROVE LockFrame(m) \in Fresh(t)
  <2>1. LockFrame(m) \in Frame /\ LockFrame(m).op = "lock" /\ LockFrame(m).mutex = m
    BY FrameTypes DEF LockFrame, MkFrame
  <2>2. QED BY <1>3, <2>1 DEF Fresh, SelfOps
<1>4. ASSUME NEW f \in Frame, f.op \in MaskedOps \ {"lock"}
      PROVE  [f EXCEPT !.any = TRUE] \in Fresh(t)
  <2>1. [f EXCEPT !.any = TRUE] \in Frame /\ [f EXCEPT !.any = TRUE].op = f.op
    BY FrameTypes DEF Frame
  <2>2. QED BY <1>1, <1>4, <2>1 DEF Fresh
<1>5. QED BY <1>2, <1>3, <1>4

\* The thread that a lock operation queues holds a place in the queue.
LEMMA LockHolds ==
  ASSUME TypeOK, NEW t \in Thread, NEW m \in Mutex, LockThreadMutex(t, m)
  PROVE  Holds(t, m)'
<1>1. CASE owner[m] = NoThread
  BY <1>1 DEF LockThreadMutex, Holds, TypeOK
<1>2. CASE owner[m] # NoThread
  <2>1. waiters'[m] = Append(waiters[m], t)
    BY <1>2 DEF LockThreadMutex, TypeOK
  <2>2. t \in Range(waiters'[m])
    BY <2>1, RangeOfAppend, SMT DEF TypeOK
  <2>3. QED BY <2>2 DEF Holds
<1>3. QED BY <1>1, <1>2

\* Every step does no more than that to the stacks.
LEMMA StackNext ==
  ASSUME TypeOK, ControlInv, Next
  PROVE  \E t \in Thread : StackStep(t)
<1> USE DEF kernel
<1>u. ASSUME stack' = stack PROVE \E t \in Thread : StackStep(t)
  BY <1>u, ConstantsAssumption DEF StackStep
<1>b. \A t \in Thread : block[t] \in Block
  BY DEF TypeOK
<1>c. "no" \in Block /\ "yes" \in Block
  BY DEF Block
<1>m. {"lock", "suspend", "resume", "unblock", "allow", "release", "exit", "die"}
        = MaskedOps
  BY DEF MaskedOps
<1>r. \A o, b : MkFrame(o, b).op = o
  BY DEF MkFrame
<1>p. ASSUME NEW t \in Thread, OpOf(stack[t]) # "program"
      PROVE  stack[t] # << >> /\ Top(t) \in Frame /\ Top(t).op = OpOf(stack[t])
  BY <1>p, StackTypes DEF TypeOK, OpOf, Top
<1>1. ASSUME NEW t \in Thread, ProgramStep(t) PROVE \E u \in Thread : StackStep(u)
  <2>s. OpOf(stack[t]) \notin {"suspend", "lock"}
    BY <1>1 DEF Program, ProgramStep, CreateThread, YieldCurrentThread, StopCurrentThread,
             SuspendCurrentThread, SetPreempt, RestartThread, BlockThreadEvents,
             UnblockThreadEvents, AllowThreadEventDelivery, SignalThreadEvent, JoinThread,
             JoinExited, SignalSelf, RegisterTimerEvent, DeregisterAllEvents, DetachThread,
             LockThreadMutex, TryLockThreadMutex, ExitCurrentThread
  <2>1. ASSUME NEW o \in MaskedOps \ {"lock"}, NEW b \in Block, Push(t, MkFrame(o, b))
        PROVE  \E u \in Thread : StackStep(u)
    BY <2>1, <2>s, FreshFrames DEF Push, StackStep
  <2>2. ASSUME NEW u \in Thread, CreateThread(t, u) PROVE \E v \in Thread : StackStep(v)
    <3>1. MkFrame("resume", "no") \in Fresh(u)
      BY FreshFrames, <1>c, <1>m
    <3>2. QED BY <2>2, <3>1 DEF CreateThread, StackStep
  <2>3. CASE YieldCurrentThread(t) \/ StopCurrentThread(t)
    BY <2>3, <2>1, <1>c, <1>m DEF YieldCurrentThread, StopCurrentThread
  <2>4. CASE SuspendCurrentThread(t)
    BY <2>4, <2>1, <1>b, <1>m DEF SuspendCurrentThread, EnterSuspend
  <2>5. CASE UnblockThreadEvents(t)
    BY <2>5, <2>1, <1>c, <1>m DEF UnblockThreadEvents
  <2>6. CASE AllowThreadEventDelivery(t)
    BY <2>6, <2>1, <1>b, <1>m DEF AllowThreadEventDelivery
  <2>7. ASSUME NEW u \in Thread, NEW e \in Event, JoinExited(t, u, e)
        PROVE  \E v \in Thread : StackStep(v)
    <3>1. stack' = stack \/ Push(t, MkFrame("unblock", "no"))
      BY <2>7 DEF JoinExited
    <3>2. QED BY <3>1, <2>1, <1>c, <1>m, <1>u
  <2>8. ASSUME NEW u \in Thread, DetachThread(t, u) PROVE \E v \in Thread : StackStep(v)
    BY <2>8, <2>1, <1>c, <1>m DEF DetachThread
  <2>9. ASSUME NEW e \in Event, SignalSelf(t, e) PROVE \E v \in Thread : StackStep(v)
    <3> DEFINE f == [MkFrame("self", block[t]) EXCEPT !.event = e]
    <3>1. f \in Frame /\ f.op = "self"
      BY <1>b, FrameTypes DEF MkFrame
    <3>2. "self" \in Ops /\ stack' = [stack EXCEPT ![t] = <<f>> \o stack[t]]
      BY <2>9 DEF SignalSelf, Push
    <3> HIDE DEF f
    <3>3. f \in Fresh(t)
      BY <3>1, <3>2 DEF Fresh
    <3>4. QED BY <2>s, <3>2, <3>3 DEF StackStep
  <2>10. ASSUME NEW m \in Mutex, LockThreadMutex(t, m)
         PROVE  \E v \in Thread : StackStep(v)
    <3>1. LockFrame(m) \in Fresh(t)
      BY <2>10, LockHolds, FreshFrames
    <3>2. stack' = stack \/ Push(t, LockFrame(m))
      BY <2>10 DEF LockThreadMutex
    <3>3. QED BY <2>s, <3>1, <3>2, <1>u DEF Push, StackStep
  <2>11. CASE ExitCurrentThread(t)
    <3>1. MkFrame("exit", "yes") \in Fresh(t)
      BY FreshFrames, <1>c, <1>m
    <3>2. QED BY <2>11, <3>1 DEF ExitCurrentThread, StackStep
  <2>12. QED
    BY <1>1, <2>2, <2>3, <2>4, <2>5, <2>6, <2>7, <2>8, <2>9, <2>10, <2>11, <1>u
       DEF ProgramStep, SetPreempt, RestartThread, BlockThreadEvents, SignalThreadEvent,
           JoinThread, RegisterTimerEvent, DeregisterAllEvents, TryLockThreadMutex
<1>2. ASSUME NEW t \in Thread, Unlock(t) PROVE \E v \in Thread : StackStep(v)
  BY <1>2, <1>u DEF Unlock, UnlockThreadMutex
<1>3. ASSUME NEW t \in Thread, EventEnd(t) PROVE \E v \in Thread : StackStep(v)
  <2>1. CASE ClosureReturn(t)
    BY <2>1, <1>p DEF ClosureReturn, Pop, StackStep
  <2>2. CASE Escape(t)
    <3>1. MkFrame("unblock", "no") \in Fresh(t)
      BY FreshFrames, <1>c, <1>m
    <3>2. QED BY <2>2, <3>1 DEF Escape, StackStep
  <2>3. QED BY <1>3, <2>1, <2>2 DEF EventEnd
<1>4. ASSUME NEW t \in Thread, SelfStep(t) PROVE \E v \in Thread : StackStep(v)
  <2>1. CASE SelfLook(t)
    <3>1. PICK o \in SelfOps :
            stack' = [stack EXCEPT ![t] = <<[Top(t) EXCEPT !.op = o]>> \o Tail(stack[t])]
      BY <2>1 DEF SelfLook, SelfOps
    <3> DEFINE f == [Top(t) EXCEPT !.op = o]
    <3>2. OpOf(stack[t]) \in SelfOps /\ stack[t] # << >> /\ Top(t) \in Frame
      BY <2>1, <1>p DEF SelfLook, SelfOps
    <3>3. f \in Frame /\ f.op = o
      BY <3>2, FrameTypes DEF OpenOps, Frame
    <3>4. stack' = [stack EXCEPT ![t] = <<f>> \o Tail(stack[t])]
      BY <3>1
    <3> HIDE DEF f
    <3>5. f \in Fresh(t)
      BY <3>2, <3>3 DEF Fresh, SelfOps
    <3>6. QED BY <3>2, <3>3, <3>4, <3>5 DEF StackStep, SelfOps
  <2>2. CASE SelfAdd(t)
    <3>1. stack[t] # << >>
      BY <2>2, <1>p DEF SelfAdd
    <3>2. MkFrame("unblock", "no") \in Fresh(t)
      BY FreshFrames, <1>c, <1>m
    <3>o. MkFrame("unblock", "no").op # "suspend"
      BY DEF MkFrame
    <3>3. \/ stack' = [stack EXCEPT ![t] = <<MkFrame("unblock", "no")>> \o Tail(stack[t])]
          \/ Pop(t)
      BY <2>2 DEF SelfAdd
    <3>4. QED BY <3>1, <3>2, <3>3, <3>o DEF Pop, StackStep
  <2>3. QED BY <1>4, <2>1, <2>2 DEF SelfStep
<1>5. ASSUME NEW t \in Thread, MaskedStep(t) PROVE \E v \in Thread : StackStep(v)
  <2>p. ASSUME Pop(t), OpOf(stack[t]) # "program" PROVE \E v \in Thread : StackStep(v)
    BY <2>p, <1>p DEF Pop, StackStep
  <2>1. CASE HandleEvent(t)
    <3> DEFINE f == [Top(t) EXCEPT !.any = TRUE]
               c == MkFrame("closure", block[t])
    <3>1. OpOf(stack[t]) \in {"suspend", "unblock", "allow", "resume"}
      BY <2>1 DEF HandleEvent, Handling, In
    <3>2. stack[t] # << >> /\ Top(t) \in Frame /\ Top(t).op \in MaskedOps \ {"lock"}
      BY <3>1, <1>p DEF MaskedOps
    <3>3. f \in Fresh(t) /\ c \in Fresh(t) /\ f.any /\ c.op # "suspend"
      BY <3>2, <1>b, <1>r, FreshFrames DEF Frame
    <3>4. \/ stack' = [stack EXCEPT ![t] = <<f>> \o Tail(stack[t])]
          \/ stack' = [stack EXCEPT ![t] = <<c>> \o (<<f>> \o Tail(stack[t]))]
      BY <2>1 DEF HandleEvent
    <3> HIDE DEF f, c
    <3>5. QED BY <3>2, <3>3, <3>4 DEF StackStep
  <2>2. CASE SuspendReturn(t)
    <3>1. stack[t] # << >> /\ OpOf(stack[t]) # "program"
      BY <2>2, <1>p DEF SuspendReturn, In
    <3>2. MkFrame("resume", "no") \in Fresh(t)
      BY FreshFrames, <1>c, <1>m
    <3>o. MkFrame("resume", "no").op # "suspend"
      BY DEF MkFrame
    <3>3. Pop(t) \/ stack' = [stack EXCEPT ![t] = <<MkFrame("resume", "no")>> \o Tail(stack[t])]
      BY <2>2 DEF SuspendReturn
    <3>4. QED BY <2>p, <3>1, <3>2, <3>3, <3>o DEF StackStep
  <2>3. CASE ResumeReturn(t) \/ UnblockReturn(t) \/ ReleaseReturn(t) \/ Die(t)
    BY <2>3, <2>p DEF ResumeReturn, UnblockReturn, ReleaseReturn, Die, In
  <2>4. CASE LockLoop(t)
    <3>1. MkFrame("suspend", block[t]) \in Fresh(t)
      BY FreshFrames, <1>b, <1>m
    <3>2. CASE owner[Top(t).mutex] = t
      BY <2>4, <3>2, <2>p DEF LockLoop, In
    <3>3. CASE owner[Top(t).mutex] # t
      <4>1. OpOf(stack[t]) # "suspend" /\ owner' = owner
        BY <2>4 DEF LockLoop, In, locks
      <4>2. Push(t, MkFrame("suspend", block[t]))
        BY <2>4, <3>3 DEF LockLoop, EnterSuspend
      <4>3. QED BY <3>1, <3>3, <4>1, <4>2 DEF Push, StackStep
    <3>4. QED BY <3>2, <3>3
  <2>5. CASE ReleaseJoined(t)
    <3>1. MkFrame("die", "yes") \in Fresh(t)
      BY FreshFrames, <1>c, <1>m
    <3>2. QED BY <2>5, <3>1 DEF ReleaseJoined, StackStep
  <2>6. CASE Release(t) \/ DisassociateMutex(t)
    BY <2>6, <1>u DEF Release, DisassociateMutex
  <2>7. QED BY <1>5, <2>1, <2>2, <2>3, <2>4, <2>5, <2>6 DEF MaskedStep
<1>6. CASE Interrupt
  <2>1. CASE TimerEnd
    <3>1. CASE stack' = stack
      BY <3>1, <1>u
    <3>2. CASE stack' # stack
      <4>1. runq # << >> /\ Push(current, MkFrame("resume", "no"))
        BY <2>1, <3>2 DEF TimerEnd
      <4>2. current \in Thread
        BY <4>1, QueueTypes
      <4>3. MkFrame("resume", "no") \in Fresh(current)
        BY <4>2, FreshFrames, <1>c, <1>m
      <4>4. OpOf(stack[current]) # "suspend"
        BY <2>1, <4>1 DEF TimerEnd, ControlInv, MaskedExactly, OpsOf, OpenOps, SelfOps
      <4>5. MkFrame("resume", "no").op # "suspend"
        BY DEF MkFrame
      <4>6. StackStep(current)
        BY <4>1, <4>3, <4>4, <4>5 DEF Push, StackStep
      <4>7. QED BY <4>2, <4>6
    <3>3. QED BY <3>1, <3>2
  <2>2. QED BY <1>6, <2>1, <1>u DEF Interrupt, TimerInterrupt, DeliverTimerEvent, AllowEnd
<1>7. CASE Idle
  BY <1>7, <1>u DEF Idle, SignalFromIdle
<1>8. QED BY <1>1, <1>2, <1>3, <1>4, <1>5, <1>6, <1>7 DEF Next

\* Such a step keeps a stack made of frames of some set, if the frames that it
\* pushes are in the set.
LEMMA StackKeeps ==
  ASSUME TypeOK, NEW t \in Thread, StackStep(t), NEW u \in Thread, NEW S,
         stack[u] \in Seq(S), u = t => Fresh(t) \subseteq S
  PROVE  stack'[u] \in Seq(S)
<1>1. ASSUME NEW f \in S, NEW s \in Seq(S) PROVE <<f>> \o s \in Seq(S)
  BY <1>1, SMT
<1>2. ASSUME NEW f \in S PROVE <<f>> \in Seq(S)
  BY <1>2, SMT
<1>3. ASSUME NEW s \in Seq(S), s # << >> PROVE Tail(s) \in Seq(S)
  BY <1>3, HeadTailProperties
<1>4. CASE u # t
  BY <1>4 DEF StackStep, TypeOK
<1>5. CASE u = t
  <2>1. t \in DOMAIN stack
    BY DEF TypeOK
  <2>2. CASE stack' = stack
    BY <2>2
  <2>3. ASSUME NEW f \in Fresh(t), stack' = [stack EXCEPT ![t] = <<f>> \o stack[t]]
        PROVE  stack'[u] \in Seq(S)
    BY <2>3, <2>1, <1>1, <1>5
  <2>4. CASE stack[t] # << >> /\ stack' = [stack EXCEPT ![t] = Tail(stack[t])]
    BY <2>4, <2>1, <1>3, <1>5
  <2>5. ASSUME NEW f \in Fresh(t), stack[t] # << >>,
               stack' = [stack EXCEPT ![t] = <<f>> \o Tail(stack[t])]
        PROVE  stack'[u] \in Seq(S)
    BY <2>5, <2>1, <1>1, <1>3, <1>5
  <2>6. ASSUME NEW c \in Fresh(t), NEW f \in Fresh(t), stack[t] # << >>,
               stack' = [stack EXCEPT ![t] = <<c>> \o (<<f>> \o Tail(stack[t]))]
        PROVE  stack'[u] \in Seq(S)
    <3>1. <<f>> \o Tail(stack[t]) \in Seq(S)
      BY <2>6, <1>1, <1>3, <1>5
    <3>2. QED BY <2>6, <3>1, <2>1, <1>1, <1>5
  <2>7. ASSUME NEW f \in Fresh(t), stack' = [stack EXCEPT ![t] = <<f>>]
        PROVE  stack'[u] \in Seq(S)
    BY <2>7, <2>1, <1>2, <1>5
  <2>8. QED BY <2>2, <2>3, <2>4, <2>5, <2>6, <2>7 DEF StackStep
<1>6. QED BY <1>4, <1>5

-----------------------------------------------------------------------------
(* Events                                                                  *)

\* The frames of a program that does not signal itself.
PlainFrame == {f \in Frame : f.op \notin SelfOps}
PlainStacks == \A t \in Thread : stack[t] \in Seq(PlainFrame)

\* The operation of a stack of such frames is no stage of a signal to oneself.
LEMMA PlainOp ==
  ASSUME PlainStacks, NEW t \in Thread
  PROVE  OpOf(stack[t]) \notin SelfOps
<1>1. stack[t] \in Seq(PlainFrame)
  BY DEF PlainStacks
<1>2. stack[t] # << >> => Head(stack[t]) \in PlainFrame
  BY <1>1, HeadTailProperties
<1>3. QED BY <1>2 DEF OpOf, PlainFrame, SelfOps

\* No step begins such a signal.
LEMMA PlainNext ==
  ASSUME "self" \notin Ops, TypeOK, ControlInv, PlainStacks, Next
  PROVE  PlainStacks'
<1> SUFFICES ASSUME NEW u \in Thread PROVE stack'[u] \in Seq(PlainFrame)
  BY DEF PlainStacks
<1>1. PICK t \in Thread : StackStep(t)
  BY StackNext
<1>2. Fresh(t) \subseteq PlainFrame
  BY PlainOp DEF Fresh, PlainFrame
<1>3. stack[u] \in Seq(PlainFrame)
  BY DEF PlainStacks
<1>4. QED BY <1>1, <1>2, <1>3, StackKeeps

\* What is true of the ring q of a thread, the closures s sent to it and the
\* closures r that it ran: PendingStates and EventsInOrder, for one thread.
Delivered(q, s, r) ==
  /\ q = <<NoEvent>> \/ q \in Seq(Closure)
  /\ s = r \o ClosuresOf(q)

EventsInv == \A t \in Thread : Delivered(pending[t], sent[t], ran[t])

\* The two event invariants, taken thread by thread.
LEMMA EventsSplit == EventsInv <=> EventsSound
BY DEF EventsInv, EventsSound, PendingStates, EventsInOrder, Delivered

\* The history of what is sent grows by a closure.
SentAlso(s, e) == IF e = NoEvent THEN s ELSE Append(s, e)

\* A ring of closures is not the ring of one #f.
LEMMA ClosureRing ==
  ASSUME NEW q \in Seq(Closure)
  PROVE  q # <<NoEvent>> /\ ClosuresOf(q) = q
<1>1. Len(<<NoEvent>>) = 1 /\ <<NoEvent>>[1] = NoEvent
  BY SMT
<1>2. Len(q) = 1 => q[1] \in Closure
  BY SMT
<1>3. QED BY <1>1, <1>2, ConstantsAssumption DEF ClosuresOf

\* Sequences: what is appended to the second part of a concatenation, and what
\* moves from its second part to its first.
LEMMA ConcatAppend ==
  ASSUME NEW S, NEW r \in Seq(S), NEW q \in Seq(S), NEW e \in S
  PROVE  /\ Append(r \o q, e) = r \o Append(q, e)
         /\ r \o << >> = r
         /\ r \o <<e>> = Append(r, e)
         /\ q # << >> => Append(r, Head(q)) \o Tail(q) = r \o q
<1>1. \A x \in S : <<x>> \in Seq(S)
  BY SingletonSeq
<1>2. /\ Append(r, e) = r \o <<e>> /\ Append(q, e) = q \o <<e>>
      /\ Append(r \o q, e) = (r \o q) \o <<e>>
  BY AppendIsConcat, ConcatProperties
<1>a. \A x, y, z \in Seq(S) : (x \o y) \o z = x \o (y \o z)
  BY ConcatAssociative, SMT
<1>3. (r \o q) \o <<e>> = r \o (q \o <<e>>)
  BY <1>1, <1>a
<1>4. ASSUME q # << >> PROVE Append(r, Head(q)) \o Tail(q) = r \o q
  <2>1. ASSUME NEW h \in S, NEW w \in Seq(S), q = <<h>> \o w PROVE Append(r, h) \o w = r \o q
    <3>1. Append(r, h) = r \o <<h>>
      BY AppendIsConcat
    <3>2. <<h>> \in Seq(S)
      BY <1>1
    <3>3. (r \o <<h>>) \o w = r \o (<<h>> \o w)
      BY <3>2, <1>a, SMT
    <3>4. QED BY <2>1, <3>1, <3>3
  <2>2. Head(q) \in S /\ Tail(q) \in Seq(S)
    BY <1>4, HeadTailProperties
  <2>3. q = <<Head(q)>> \o Tail(q)
    BY <1>4, SMT
  <2>4. QED BY <2>1, <2>2, <2>3
<1>5. QED BY <1>2, <1>3, <1>4, ConcatEmptySeq

\* %add-pending-event keeps the order, whichever state the ring is in.
LEMMA DeliveredAdd ==
  ASSUME NEW q, NEW s, NEW r \in Seq(Closure), NEW e \in Event, Delivered(q, s, r)
  PROVE  Delivered(AddEvent(q, e), SentAlso(s, e), r)
<1>1. CASE q = <<NoEvent>>
  <2>1. s = r /\ << >> \in Seq(Closure) /\ q # << >>
    <3>1. s = r \o << >> /\ << >> \in Seq(Closure) /\ <<NoEvent>> # << >>
      BY <1>1, EmptySeq, SMT DEF Delivered, ClosuresOf
    <3>2. r \o << >> = r
      BY SMT
    <3>3. QED BY <1>1, <3>1, <3>2
  <2>2. CASE e = NoEvent
    BY <1>1, <2>1, <2>2 DEF AddEvent, SentAlso, Delivered
  <2>3. CASE e # NoEvent
    <3>1. e \in Closure /\ <<e>> \in Seq(Closure)
      BY <2>3, SingletonSeq DEF Event
    <3>2. ClosuresOf(<<e>>) = <<e>> /\ r \o <<e>> = Append(r, e)
      BY <2>1, <3>1, ClosureRing, ConcatAppend
    <3>3. AddEvent(q, e) = <<e>> /\ SentAlso(s, e) = Append(r, e)
      BY <1>1, <2>1, <2>3 DEF AddEvent, SentAlso
    <3>4. QED BY <3>1, <3>2, <3>3 DEF Delivered
  <2>4. QED BY <2>2, <2>3
<1>2. CASE q \in Seq(Closure)
  <2>1. q # <<NoEvent>> /\ s = r \o q
    BY <1>2, ClosureRing DEF Delivered
  <2>2. CASE e = NoEvent
    <3>1. SentAlso(s, e) = s
      BY <2>2 DEF SentAlso
    <3>2. CASE q = << >>
      <4>1. r \o << >> = r
        BY SMT
      <4>2. ClosuresOf(<<NoEvent>>) = << >> /\ AddEvent(q, e) = <<NoEvent>>
        BY <2>2, <3>2 DEF ClosuresOf, AddEvent
      <4>3. QED BY <2>1, <3>1, <3>2, <4>1, <4>2 DEF Delivered
    <3>3. CASE q # << >>
      BY <2>2, <3>1, <3>3 DEF AddEvent
    <3>4. QED BY <3>2, <3>3
  <2>3. CASE e # NoEvent
    <3>1. e \in Closure /\ Append(q, e) \in Seq(Closure)
      BY <1>2, <2>3, AppendProperties DEF Event
    <3>2. /\ ClosuresOf(Append(q, e)) = Append(q, e)
          /\ Append(r \o q, e) = r \o Append(q, e)
      <4>1. \A x \in Seq(Closure), y \in Closure : Append(r \o x, y) = r \o Append(x, y)
        BY ConcatAppend, SMT
      <4>2. QED BY <1>2, <3>1, <4>1, ClosureRing
    <3>3. AddEvent(q, e) = Append(q, e) /\ SentAlso(s, e) = Append(r \o q, e)
      BY <2>1, <2>3 DEF AddEvent, SentAlso
    <3>4. QED BY <3>1, <3>2, <3>3 DEF Delivered
  <2>4. QED BY <2>2, <2>3
<1>3. QED BY <1>1, <1>2 DEF Delivered

\* An empty ring, when what was not run has been discarded.
LEMMA DeliveredNone ==
  ASSUME NEW r \in Seq(Closure)
  PROVE  Delivered(<< >>, r, r)
<1>1. << >> \in Seq(Closure) /\ r \o << >> = r
  BY EmptySeq, SMT
<1>2. ClosuresOf(<< >>) = << >>
  BY <1>1, ClosureRing
<1>3. QED BY <1>1, <1>2 DEF Delivered

\* The first event of the ring is taken, and run if it is a closure.
LEMMA DeliveredHead ==
  ASSUME NEW q \in Seq(Event), NEW s, NEW r \in Seq(Closure), Delivered(q, s, r), q # << >>
  PROVE  Delivered(Tail(q), s, SentAlso(r, Head(q)))
<1>1. CASE q = <<NoEvent>>
  <2>1. Head(q) = NoEvent /\ Tail(q) = << >>
    BY <1>1, SMT
  <2>2. s = r \o << >> /\ r \o << >> = r
    BY <1>1, SMT DEF Delivered, ClosuresOf
  <2>3. QED BY <2>1, <2>2, DeliveredNone DEF SentAlso
<1>2. CASE q \in Seq(Closure)
  <2>1. s = r \o q
    BY <1>2, ClosureRing DEF Delivered
  <2>2. Head(q) \in Closure /\ Tail(q) \in Seq(Closure)
    BY <1>2, HeadTailProperties
  <2>3. Head(q) # NoEvent
    BY <2>2, ConstantsAssumption
  <2>4. Append(r, Head(q)) \o Tail(q) = r \o q
    BY <1>2, <2>2, ConcatAppend
  <2>5. QED BY <2>1, <2>2, <2>3, <2>4, ClosureRing DEF Delivered, SentAlso
<1>3. QED BY <1>1, <1>2 DEF Delivered

\* A step that leaves the events of all threads but one alone.
LEMMA EventsOne ==
  ASSUME EventsInv, NEW u \in Thread, Delivered(pending'[u], sent'[u], ran'[u]),
         \A v \in Thread \ {u} :
            pending'[v] = pending[v] /\ sent'[v] = sent[v] /\ ran'[v] = ran[v]
  PROVE  EventsInv'
BY DEF EventsInv

\* An event is added to the ring of a thread.
LEMMA EventsAdd ==
  ASSUME TypeOK, EventsInv, NEW u \in Thread, NEW e \in Event,
         pending' = [pending EXCEPT ![u] = AddEvent(pending[u], e)],
         sent' = [sent EXCEPT ![u] = SentAlso(sent[u], e)], ran' = ran
  PROVE  EventsInv'
<1>1. pending'[u] = AddEvent(pending[u], e) /\ sent'[u] = SentAlso(sent[u], e)
  BY DEF TypeOK
<1>2. Delivered(pending[u], sent[u], ran[u]) /\ ran[u] \in Seq(Closure)
  BY DEF EventsInv, TypeOK
<1>3. Delivered(pending'[u], sent'[u], ran'[u])
  <2>1. Delivered(AddEvent(pending[u], e), SentAlso(sent[u], e), ran[u])
    BY <1>2, DeliveredAdd
  <2>2. ran'[u] = ran[u]
    OBVIOUS
  <2>3. QED BY <1>1, <2>1, <2>2
<1>4. \A v \in Thread \ {u} : pending'[v] = pending[v] /\ sent'[v] = sent[v] /\ ran'[v] = ran[v]
  <2>1. DOMAIN pending = Thread /\ DOMAIN sent = Thread
    BY DEF TypeOK
  <2>2. QED BY <2>1
<1>5. QED BY <1>3, <1>4, EventsOne

\* So does a hand-over of a mutex: it adds #f at most.
LEMMA EventsHandOff ==
  ASSUME TypeOK, EventsInv, NEW m \in Mutex, HandOff(m), sent' = sent, ran' = ran
  PROVE  EventsInv'
<1>1. CASE waiters[m] = << >>
  BY <1>1 DEF HandOff, EventsInv
<1>2. CASE waiters[m] # << >>
  <2> DEFINE u == Head(waiters[m])
  <2>1. u \in Thread /\ pending' = [pending EXCEPT ![u] = AddEvent(pending[u], NoEvent)]
    BY <1>2, HeadTailProperties DEF TypeOK, HandOff, SignalNone
  <2> HIDE DEF u
  <2>2. sent' = [sent EXCEPT ![u] = SentAlso(sent[u], NoEvent)]
    BY <2>1 DEF SentAlso, TypeOK
  <2>3. NoEvent \in Event
    BY DEF Event
  <2>4. QED BY <2>1, <2>2, <2>3, EventsAdd
<1>3. QED BY <1>1, <1>2

\* The events of a thread are discarded.
LEMMA EventsDiscard ==
  ASSUME TypeOK, EventsInv, NEW u \in Thread, pending' = [pending EXCEPT ![u] = << >>],
         sent' = [sent EXCEPT ![u] = ran[u]], ran' = ran
  PROVE  EventsInv'
<1>1. pending'[u] = << >> /\ sent'[u] = ran[u] /\ ran[u] \in Seq(Closure)
  BY DEF TypeOK
<1>2. Delivered(pending'[u], sent'[u], ran'[u])
  BY <1>1, DeliveredNone
<1>3. QED BY <1>2, EventsOne DEF TypeOK

\* Every step of a program that does not signal itself keeps the events in order.
LEMMA EventsNext ==
  ASSUME TypeOK, PlainStacks, "self" \notin Ops, EventsInv, Next
  PROVE  EventsInv'
<1>u. ASSUME UNCHANGED <<pending, sent, ran>> PROVE EventsInv'
  BY <1>u DEF EventsInv
<1>e. NoEvent \in Event /\ Closure \subseteq Event
  BY DEF Event
<1>s. \A u \in Thread, e \in Event : Sent(u, e) =>
         sent' = [sent EXCEPT ![u] = SentAlso(sent[u], e)]
  BY DEF Sent, SentAlso
<1>1. ASSUME NEW t \in Thread, ProgramStep(t) PROVE EventsInv'
  <2>1. ASSUME NEW u \in Thread, NEW d \in BOOLEAN, NEW e \in Event,
               RestartThread(t, u, d, e)
        PROVE  EventsInv'
    <3> DEFINE q == IF d THEN << >> ELSE pending[u]
               s == IF d THEN ran[u] ELSE sent[u]
    <3>1. /\ ran' = ran
          /\ IF e = NoEvent
             THEN /\ pending' = [pending EXCEPT ![u] = q]
                  /\ sent' = [sent EXCEPT ![u] = s]
             ELSE /\ pending' = [pending EXCEPT ![u] = AddEvent(q, e)]
                  /\ sent' = [sent EXCEPT ![u] = Append(s, e)]
      BY <2>1 DEF RestartThread
    <3>2. Delivered(pending[u], sent[u], ran[u]) /\ ran[u] \in Seq(Closure)
      BY DEF EventsInv, TypeOK
    <3>3. Delivered(q, s, ran[u])
      BY <3>2, DeliveredNone
    <3> HIDE DEF q, s
    <3>4. Delivered(AddEvent(q, e), SentAlso(s, e), ran[u])
      BY <3>2, <3>3, DeliveredAdd
    <3>5. /\ pending'[u] = IF e = NoEvent THEN q ELSE AddEvent(q, e)
          /\ sent'[u] = SentAlso(s, e)
          /\ \A v \in Thread \ {u} : pending'[v] = pending[v] /\ sent'[v] = sent[v]
      BY <3>1 DEF TypeOK, SentAlso
    <3>6. Delivered(pending'[u], sent'[u], ran'[u])
      BY <3>1, <3>3, <3>4, <3>5 DEF SentAlso
    <3>7. QED BY <3>1, <3>5, <3>6, EventsOne
  <2>2. ASSUME NEW u \in Thread, NEW e \in Event, SignalThreadEvent(t, u, e)
        PROVE  EventsInv'
    BY <2>2, <1>s, EventsAdd DEF SignalThreadEvent, SignalEvent
  <2>3. ASSUME NEW u \in Thread, NEW e \in Event, JoinExited(t, u, e) PROVE EventsInv'
    BY <2>3, <1>s, EventsAdd DEF JoinExited
  <2>4. CASE DeregisterAllEvents(t) \/ ExitCurrentThread(t)
    BY <2>4, EventsDiscard DEF DeregisterAllEvents, ExitCurrentThread
  <2>5. ~\E e \in Event : SignalSelf(t, e)
    BY DEF SignalSelf
  <2>6. QED
    BY <1>1, <2>1, <2>2, <2>3, <2>4, <2>5, <1>u
       DEF events, ProgramStep, CreateThread, DetachThread, YieldCurrentThread, StopCurrentThread,
           SuspendCurrentThread, SetPreempt, BlockThreadEvents, UnblockThreadEvents,
           AllowThreadEventDelivery, JoinThread, RegisterTimerEvent, LockThreadMutex,
           TryLockThreadMutex
<1>2. ASSUME NEW t \in Thread, Unlock(t) PROVE EventsInv'
  BY <1>2, EventsHandOff DEF Unlock, UnlockThreadMutex
<1>3. ASSUME NEW t \in Thread, EventEnd(t) PROVE EventsInv'
  BY <1>3, <1>u DEF EventEnd, ClosureReturn, Escape, events
<1>4. ASSUME NEW t \in Thread, SelfStep(t) PROVE EventsInv'
  BY <1>4, PlainOp DEF SelfStep, SelfLook, SelfAdd, SelfOps
<1>5. ASSUME NEW t \in Thread, MaskedStep(t) PROVE EventsInv'
  <2>1. CASE HandleEvent(t)
    <3>1. /\ pending[t] # << >> /\ pending'[t] = Tail(pending[t]) /\ sent' = sent
          /\ ran'[t] = SentAlso(ran[t], Head(pending[t]))
          /\ \A v \in Thread \ {t} : pending'[v] = pending[v] /\ ran'[v] = ran[v]
      BY <2>1 DEF HandleEvent, SentAlso, TypeOK
    <3>2. /\ Delivered(pending[t], sent[t], ran[t]) /\ ran[t] \in Seq(Closure)
          /\ pending[t] \in Seq(Event)
      BY DEF EventsInv, TypeOK
    <3>3. Delivered(pending'[t], sent'[t], ran'[t])
      BY <3>1, <3>2, DeliveredHead
    <3>4. QED BY <3>1, <3>3, EventsOne
  <2>2. CASE Release(t)
    <3>1. PICK r \in Thread \X Thread \X Event :
             /\ pending' = [pending EXCEPT ![r[2]] = AddEvent(pending[r[2]], r[3])]
             /\ sent' = [sent EXCEPT ![r[2]] = SentAlso(sent[r[2]], r[3])]
             /\ ran' = ran
      BY <2>2 DEF Release, TypeOK, SentAlso
    <3>2. QED BY <3>1, EventsAdd
  <2>3. CASE DisassociateMutex(t)
    <3>1. PICK m \in Mutex : HandOff(m) \/ pending' = pending
      BY <2>3 DEF DisassociateMutex
    <3>2. sent' = sent /\ ran' = ran
      BY <2>3 DEF DisassociateMutex
    <3>3. QED BY <3>1, <3>2, <1>u, EventsHandOff
  <2>4. QED
    BY <1>5, <2>1, <2>2, <2>3, <1>u
       DEF MaskedStep, SuspendReturn, ResumeReturn, UnblockReturn, LockLoop, ReleaseReturn,
           ReleaseJoined, Die, events
<1>6. CASE Interrupt
  <2>1. CASE DeliverTimerEvent
    <3>1. PICK r \in Thread \X Closure :
             /\ pending' = [pending EXCEPT ![r[1]] = AddEvent(pending[r[1]], r[2])]
             /\ sent' = [sent EXCEPT ![r[1]] = Append(sent[r[1]], r[2])]
             /\ ran' = ran
      BY <2>1 DEF DeliverTimerEvent, TypeOK
    <3>2. r[2] # NoEvent /\ r[2] \in Event /\ r[1] \in Thread
      BY <1>e, ConstantsAssumption
    <3>3. sent' = [sent EXCEPT ![r[1]] = SentAlso(sent[r[1]], r[2])]
      BY <3>1, <3>2 DEF SentAlso
    <3>4. QED BY <3>1, <3>2, <3>3, EventsAdd
  <2>2. QED BY <1>6, <2>1, <1>u DEF Interrupt, TimerInterrupt, TimerEnd, AllowEnd, events
<1>7. CASE Idle
  BY <1>7, <1>s, EventsAdd DEF Idle, SignalFromIdle, SignalEvent
<1>8. QED BY <1>1, <1>2, <1>3, <1>4, <1>5, <1>6, <1>7 DEF Next

\* As long as no thread signals itself, %add-pending-event keeps its promise for
\* any number of threads and events: the closures signalled to a thread, by
\* other threads, timers, joins and restarts, are run in that order, each once,
\* none is lost unless its thread discards it, and a #f is in the ring only
\* alone.
THEOREM EventsCorrect ==
  ASSUME "self" \notin Ops
  PROVE  Spec => []EventsSound
<1>1. Init => EventsInv /\ PlainStacks
  <2> SUFFICES ASSUME Init PROVE EventsInv /\ PlainStacks
    OBVIOUS
  <2>1. << >> \in Seq(Closure) /\ << >> \in Seq(PlainFrame)
    BY EmptySeq
  <2>2. Delivered(<< >>, << >>, << >>)
    BY <2>1, DeliveredNone
  <2>3. QED BY <2>1, <2>2 DEF Init, EventsInv, PlainStacks
<1>2. TypeOK /\ ControlInv /\ EventsInv /\ PlainStacks /\ [Next]_vars
        => EventsInv' /\ PlainStacks'
  <2> SUFFICES ASSUME TypeOK, ControlInv, EventsInv, PlainStacks, [Next]_vars
               PROVE  EventsInv' /\ PlainStacks'
    OBVIOUS
  <2>1. CASE UNCHANGED vars
    BY <2>1 DEF vars, kernel, events, EventsInv, PlainStacks
  <2>2. CASE Next
    BY <2>2, EventsNext, PlainNext
  <2>3. QED BY <2>1, <2>2
<1>3. EventsInv => EventsSound
  BY EventsSplit
<1>4. ControlSound => ControlInv
  BY DEF ControlInv, ControlSound
<1>5. QED BY <1>1, <1>2, <1>3, <1>4, TypeCorrect, ControlCorrect, PTL DEF Spec

-----------------------------------------------------------------------------
(* Exits: joins                                                            *)

\* While release-joined-threads has signals to send, its caller has the
\* processor, masked.
ReleaseInv == todo # {} => runq # << >> /\ OpOf(stack[current]) \in {"release", "die"}

\* A joiner is listed once with the thread that it joined; the signals to be
\* sent are those of a thread that has an exit value.
ListedOnce ==
  /\ \A u \in Thread : \A p, q \in joined[u] : p[1] = q[1] => p = q
  /\ \A p, q \in todo : p[1] = q[1] /\ p[2] = q[2] => p = q
  /\ \A p \in todo : exitValue[p[1]] # "none"

JoinInv == ReleaseInv /\ ListedOnce /\ JoinsPaired

\* Nothing is left to release when a thread runs program code, or any other
\* operation.
LEMMA NothingToDo ==
  ASSUME ReleaseInv, runq = << >> \/ OpOf(stack[current]) \notin {"release", "die"}
  PROVE  todo = {}
BY DEF ReleaseInv

\* A step that leaves the joins alone.
LEMMA JoinSame ==
  ASSUME JoinInv, UNCHANGED joins, ReleaseInv'
  PROVE  JoinInv'
BY DEF JoinInv, ListedOnce, JoinsPaired, joins

\* A step with nothing to release keeps it so.
LEMMA JoinIdle ==
  ASSUME JoinInv, UNCHANGED joins, todo = {}
  PROVE  JoinInv'
BY JoinSame DEF ReleaseInv, joins

\* join-thread lists the joiner on both sides.
LEMMA JoinJoins ==
  ASSUME TypeOK, JoinInv, NEW t \in Thread, NEW u \in Thread, NEW e \in Event,
         JoinThread(t, u, e), todo = {}
  PROVE  JoinInv'
<1>1. /\ exitValue[u] = "none" /\ u \notin joinedTo[t] /\ exitValue' = exitValue
      /\ todo' = {}
      /\ \A v \in Thread : joined'[v] = IF v = u THEN joined[u] \cup {<<t, e>>} ELSE joined[v]
      /\ \A v \in Thread : joinedTo'[v] = IF v = t THEN joinedTo[t] \cup {u} ELSE joinedTo[v]
  BY DEF JoinThread, TypeOK
<1>2. \A x \in Event : <<t, x>> \notin joined[u]
  BY <1>1 DEF JoinInv, JoinsPaired
<1>3. \A p \in joined[u] : p \in Thread \X Event /\ p = <<p[1], p[2]>>
  BY SMT DEF TypeOK
<1>4. \A p \in joined[u] : p[1] # t
  BY <1>2, <1>3, SMT
<1>5. <<t, e>>[1] = t
  BY SMT
<1>6. ListedOnce'
  <2>1. ASSUME NEW v \in Thread, NEW p \in joined'[v], NEW q \in joined'[v], p[1] = q[1]
        PROVE  p = q
    <3>1. CASE v # u
      BY <1>1, <2>1, <3>1 DEF JoinInv, ListedOnce
    <3>2. CASE v = u
      <4>1. p \in joined[u] \/ p = <<t, e>>
        BY <1>1, <2>1, <3>2
      <4>2. q \in joined[u] \/ q = <<t, e>>
        BY <1>1, <2>1, <3>2
      <4>3. CASE p \in joined[u] /\ q \in joined[u]
        BY <2>1, <4>3 DEF JoinInv, ListedOnce
      <4>4. QED BY <1>4, <1>5, <2>1, <4>1, <4>2, <4>3
    <3>3. QED BY <3>1, <3>2
  <2>2. QED BY <1>1, <2>1 DEF ListedOnce
<1>7. ASSUME NEW v \in Thread, NEW j \in Thread
      PROVE  v \in joinedTo'[j] <=>
               \E x \in Event : \/ exitValue'[v] = "none" /\ <<j, x>> \in joined'[v]
                                \/ <<v, j, x>> \in todo'
  <2>1. v \in joinedTo[j] <=> \E x \in Event : exitValue[v] = "none" /\ <<j, x>> \in joined[v]
    BY DEF JoinInv, JoinsPaired
  <2>2. CASE v = u /\ j = t
    BY <1>1, <2>2
  <2>3. CASE v = u /\ j # t
    <3>1. \A x \in Event : <<j, x>> # <<t, e>>
      BY <2>3
    <3>2. QED BY <1>1, <2>1, <2>3, <3>1
  <2>4. CASE v # u
    BY <1>1, <2>1, <2>4
  <2>5. QED BY <2>2, <2>3, <2>4
<1>8. JoinsPaired'
  BY <1>7 DEF JoinsPaired
<1>9. QED BY <1>1, <1>6, <1>8 DEF JoinInv, ReleaseInv

\* Detaching a thread, or its exit, turns its joiners into signals to be sent.
LEMMA JoinReleases ==
  ASSUME TypeOK, JoinInv, NEW u \in Thread, NEW x, x # "none", exitValue[u] = "none",
         exitValue' = [exitValue EXCEPT ![u] = x], todo = {}, todo' = Releases(u),
         UNCHANGED <<joined, joinedTo>>, ReleaseInv'
  PROVE  JoinInv'
<1>1. \A v \in Thread : exitValue'[v] = IF v = u THEN x ELSE exitValue[v]
  BY DEF TypeOK
<1>2. \A p \in joined[u] : p = <<p[1], p[2]>> /\ p[1] \in Thread /\ p[2] \in Event
  BY SMT DEF TypeOK
<1>3. \A v \in Thread, j \in Thread, e \in Event :
         <<v, j, e>> \in todo' <=> v = u /\ <<j, e>> \in joined[u]
  BY <1>2, SMT DEF Releases
<1>4. \A p \in todo' : \E q \in joined[u] : p[1] = u /\ p[2] = q[1] /\ p[3] = q[2]
                                             /\ p = <<u, q[1], q[2]>>
  BY SMT DEF Releases
<1>5. ListedOnce'
  <2>1. \A p, q \in todo' : p[1] = q[1] /\ p[2] = q[2] => p = q
    <3> SUFFICES ASSUME NEW p \in todo', NEW q \in todo', p[1] = q[1], p[2] = q[2]
                 PROVE  p = q
      OBVIOUS
    <3>1. PICK a \in joined[u] : p[2] = a[1] /\ p = <<u, a[1], a[2]>>
      BY <1>4
    <3>2. PICK b \in joined[u] : q[2] = b[1] /\ q = <<u, b[1], b[2]>>
      BY <1>4
    <3>3. a = b
      BY <3>1, <3>2 DEF JoinInv, ListedOnce
    <3>4. QED BY <3>1, <3>2, <3>3
  <2>2. \A p \in todo' : exitValue'[p[1]] # "none"
    BY <1>1, <1>4
  <2>3. QED BY <2>1, <2>2 DEF JoinInv, ListedOnce
<1>6. JoinsPaired'
  <2> SUFFICES ASSUME NEW v \in Thread, NEW j \in Thread
               PROVE  v \in joinedTo'[j] <=>
                        \E e \in Event : \/ exitValue'[v] = "none" /\ <<j, e>> \in joined'[v]
                                         \/ <<v, j, e>> \in todo'
    BY DEF JoinsPaired
  <2>1. v \in joinedTo[j] <=> \E e \in Event : exitValue[v] = "none" /\ <<j, e>> \in joined[v]
    BY DEF JoinInv, JoinsPaired
  <2>2. CASE v = u
    BY <1>1, <1>3, <2>1, <2>2
  <2>3. CASE v # u
    BY <1>1, <1>3, <2>1, <2>3
  <2>4. QED BY <2>2, <2>3
<1>7. QED BY <1>5, <1>6 DEF JoinInv

\* A signal is sent to a joiner, which is then no longer joined.
LEMMA JoinRelease ==
  ASSUME TypeOK, JoinInv, NEW r \in todo, todo' = todo \ {r},
         joinedTo' = [joinedTo EXCEPT ![r[2]] = joinedTo[r[2]] \ {r[1]}],
         UNCHANGED <<exitValue, joined>>, ReleaseInv'
  PROVE  JoinInv'
<1>1. r[1] \in Thread /\ r[2] \in Thread /\ r[3] \in Event /\ r = <<r[1], r[2], r[3]>>
  BY SMT DEF TypeOK
<1>2. ListedOnce'
  BY DEF JoinInv, ListedOnce
<1>3. exitValue[r[1]] # "none"
  BY DEF JoinInv, ListedOnce
<1>4. \A e \in Event : <<r[1], r[2], e>> \in todo => <<r[1], r[2], e>> = r
  <2>1. \A e : <<r[1], r[2], e>>[1] = r[1] /\ <<r[1], r[2], e>>[2] = r[2]
    BY SMT
  <2>2. QED BY <2>1 DEF JoinInv, ListedOnce
<1>5. /\ joinedTo'[r[2]] = joinedTo[r[2]] \ {r[1]}
      /\ \A j \in Thread : j # r[2] => joinedTo'[j] = joinedTo[j]
  BY <1>1 DEF TypeOK
<1>6. JoinsPaired'
  <2> SUFFICES ASSUME NEW v \in Thread, NEW j \in Thread
               PROVE  v \in joinedTo'[j] <=>
                        \E e \in Event : \/ exitValue'[v] = "none" /\ <<j, e>> \in joined'[v]
                                         \/ <<v, j, e>> \in todo'
    BY DEF JoinsPaired
  <2>1. v \in joinedTo[j] <=> \E e \in Event : \/ exitValue[v] = "none" /\ <<j, e>> \in joined[v]
                                               \/ <<v, j, e>> \in todo
    BY DEF JoinInv, JoinsPaired
  <2>2. CASE v = r[1] /\ j = r[2]
    <3>1. v \notin joinedTo'[j] /\ exitValue'[v] # "none"
      BY <1>3, <1>5, <2>2
    <3>2. \A e \in Event : <<v, j, e>> \notin todo'
      BY <1>4, <2>2
    <3>3. QED BY <3>1, <3>2
  <2>3. CASE v # r[1] \/ j # r[2]
    <3>1. \A e \in Event : <<v, j, e>> # r
      BY <1>1, <2>3, SMT
    <3>2. v \in joinedTo'[j] <=> v \in joinedTo[j]
      BY <1>5, <2>3
    <3>3. QED BY <2>1, <3>1, <3>2
  <2>4. QED BY <2>2, <2>3
<1>7. QED BY <1>2, <1>6 DEF JoinInv

\* A thread that exits is no longer joined to any thread.
LEMMA JoinExits ==
  ASSUME TypeOK, JoinInv, NEW t \in Thread, ExitCurrentThread(t), todo = {}
  PROVE  JoinInv'
<1>1. /\ exitValue' = exitValue /\ todo' = {}
      /\ \A v \in Thread : joined'[v] = IF v \in joinedTo[t]
                                        THEN {p \in joined[v] : p[1] # t} ELSE joined[v]
      /\ \A v \in Thread : joinedTo'[v] = IF v = t THEN {} ELSE joinedTo[v]
  BY DEF ExitCurrentThread, TypeOK
<1>2. ListedOnce'
  BY <1>1 DEF JoinInv, ListedOnce
<1>3. JoinsPaired'
  <2> SUFFICES ASSUME NEW v \in Thread, NEW j \in Thread
               PROVE  v \in joinedTo'[j] <=>
                        \E e \in Event : exitValue'[v] = "none" /\ <<j, e>> \in joined'[v]
    BY <1>1 DEF JoinsPaired
  <2>1. v \in joinedTo[j] <=> \E e \in Event : exitValue[v] = "none" /\ <<j, e>> \in joined[v]
    BY DEF JoinInv, JoinsPaired
  <2>2. \A e : <<j, e>>[1] = j
    BY SMT
  <2>3. CASE j = t
    <3>1. v \notin joinedTo'[j]
      BY <1>1, <2>3
    <3>2. ASSUME NEW e \in Event, exitValue'[v] = "none" PROVE <<j, e>> \notin joined'[v]
      <4>1. CASE v \in joinedTo[t]
        <5>1. joined'[v] = {p \in joined[v] : p[1] # t}
          BY <1>1, <4>1
        <5>2. QED BY <2>2, <2>3, <5>1
      <4>2. CASE v \notin joinedTo[t]
        BY <1>1, <2>1, <2>3, <3>2, <4>2
      <4>3. QED BY <4>1, <4>2
    <3>3. QED BY <3>1, <3>2
  <2>4. CASE j # t
    BY <1>1, <2>1, <2>2, <2>4
  <2>5. QED BY <2>3, <2>4
<1>4. QED BY <1>1, <1>2, <1>3 DEF JoinInv, ReleaseInv

\* Every step keeps the joins paired, when no thread is detached after its exit.
LEMMA JoinNext ==
  ASSUME "late-detach" \notin Ops, TypeOK, RunQueueExact, ControlInv, JoinInv, Next
  PROVE  JoinInv'
<1> USE DEF kernel
<1>j. JoinInv /\ ReleaseInv
  BY DEF JoinInv
<1>p. ASSUME NEW t \in Thread, Program(t) PROVE todo = {}
  BY <1>p, <1>j, NothingToDo DEF Program, Open
<1>o. ASSUME mode # "masked" PROVE todo = {}
  <2>1. runq # << >> => OpOf(stack[current]) \in OpsOf(mode) /\ mode \in {"open", "timer", "allow"}
    BY <1>o DEF ControlInv, MaskedExactly, TypeOK
  <2>2. runq # << >> => OpOf(stack[current]) \notin {"release", "die"}
    BY <2>1 DEF OpsOf, OpenOps, SelfOps
  <2>3. QED BY <1>j, <2>2, NothingToDo
<1>1. ASSUME NEW t \in Thread, ProgramStep(t) PROVE JoinInv'
  <2>1. ASSUME NEW u \in Thread, NEW e \in Event, JoinThread(t, u, e) PROVE JoinInv'
    <3>1. todo = {}
      BY <2>1, <1>p DEF JoinThread
    <3>2. QED BY <2>1, <3>1, <1>j, JoinJoins
  <2>2. ASSUME NEW u \in Thread, DetachThread(t, u) PROVE JoinInv'
    <3>1. /\ Program(t) /\ exitValue[u] = "none" /\ todo' = Releases(u)
          /\ exitValue' = [exitValue EXCEPT ![u] = "detached"] /\ runq' = runq
          /\ Push(t, MkFrame("release", "no")) /\ UNCHANGED <<joined, joinedTo>>
      BY <2>2 DEF DetachThread, TypeOK
    <3>2. todo = {} /\ runq # << >> /\ t = current /\ current' = current
      BY <3>1, <1>p DEF Program, Open, current
    <3>3. OpOf(stack'[t]) = "release"
      <4>1. stack'[t] = <<MkFrame("release", "no")>> \o stack[t] /\ stack[t] \in Seq(Frame)
        BY <3>1 DEF Push, TypeOK
      <4>2. MkFrame("release", "no") \in Frame /\ MkFrame("release", "no").op = "release"
        BY FrameTypes DEF MkFrame, MaskedOps, Block
      <4>3. QED BY <4>1, <4>2, Pushed
    <3>4. ReleaseInv'
      BY <3>1, <3>2, <3>3 DEF ReleaseInv
    <3>5. QED BY <3>1, <3>2, <3>4, <1>j, JoinReleases
  <2>3. CASE ExitCurrentThread(t)
    <3>1. todo = {}
      BY <2>3, <1>p DEF ExitCurrentThread
    <3>2. QED BY <2>3, <3>1, <1>j, JoinExits
  <2>4. CASE UNCHANGED joins /\ Program(t)
    BY <2>4, <1>p, <1>j, JoinIdle
  <2>5. QED
    BY <1>1, <2>1, <2>2, <2>3, <2>4
       DEF ProgramStep, CreateThread, YieldCurrentThread, StopCurrentThread,
           SuspendCurrentThread, SetPreempt, RestartThread, BlockThreadEvents,
           UnblockThreadEvents, AllowThreadEventDelivery, SignalThreadEvent,
           JoinExited, SignalSelf, RegisterTimerEvent, DeregisterAllEvents,
           LockThreadMutex, TryLockThreadMutex
<1>2. ASSUME NEW t \in Thread, Unlock(t) PROVE JoinInv'
  BY <1>2, <1>p, <1>j, JoinIdle DEF Unlock, UnlockThreadMutex
<1>3. ASSUME NEW t \in Thread, EventEnd(t) \/ SelfStep(t) PROVE JoinInv'
  <2>1. UNCHANGED joins /\ mode # "masked"
    BY <1>3 DEF EventEnd, SelfStep, ClosureReturn, Escape, SelfLook, SelfAdd, Open
  <2>2. QED BY <2>1, <1>o, <1>j, JoinIdle
<1>4. ASSUME NEW t \in Thread, MaskedStep(t) PROVE JoinInv'
  <2>i. ASSUME NEW ops, In(t, ops), ops \cap {"release", "die"} = {} PROVE todo = {}
    BY <2>i, <1>j, NothingToDo DEF In
  <2>1. CASE HandleEvent(t) \/ SuspendReturn(t) \/ ResumeReturn(t) \/ UnblockReturn(t)
             \/ LockLoop(t) \/ DisassociateMutex(t)
    <3>1. UNCHANGED joins
      BY <2>1 DEF HandleEvent, SuspendReturn, ResumeReturn, UnblockReturn, LockLoop,
                  DisassociateMutex
    <3>2. In(t, {"suspend", "resume", "unblock", "allow", "lock", "exit"})
      BY <2>1 DEF HandleEvent, Handling, SuspendReturn, ResumeReturn, UnblockReturn, LockLoop,
                  DisassociateMutex, In
    <3>3. todo = {}
      BY <3>2, <2>i
    <3>4. QED BY <3>1, <3>3, <1>j, JoinIdle
  <2>2. CASE ReleaseReturn(t) \/ Die(t)
    BY <2>2, <1>j, JoinIdle DEF ReleaseReturn, Die
  <2>3. CASE Release(t)
    <3>1. PICK r \in todo :
             /\ todo' = todo \ {r}
             /\ joinedTo' = [joinedTo EXCEPT ![r[2]] = joinedTo[r[2]] \ {r[1]}]
             /\ Wake(r[2])
      BY <2>3 DEF Release
    <3>2. /\ UNCHANGED <<stack, exitValue, joined>> /\ runq # << >>
          /\ OpOf(stack[current]) \in {"release", "die"} /\ r[2] \in Thread
      BY <2>3 DEF Release, In, TypeOK
    <3>3. runq' # << >> /\ current' = current
      <4>1. Append(runq, r[2]) # << >> /\ Head(Append(runq, r[2])) = Head(runq)
        BY <3>2, HeadAppend DEF TypeOK
      <4>2. QED BY <3>1, <3>2, <4>1 DEF Wake, current
    <3>4. ReleaseInv'
      BY <3>2, <3>3 DEF ReleaseInv
    <3>5. QED BY <3>1, <3>2, <3>4, <1>j, JoinRelease
  <2>4. CASE ReleaseJoined(t)
    <3>1. In(t, {"exit"}) /\ t = current /\ runq # << >> /\ runq' = runq /\ current' = current
      BY <2>4 DEF ReleaseJoined, In, current
    <3>2. todo = {} /\ UNCHANGED <<joined, joinedTo>>
      BY <2>4, <3>1, <2>i DEF ReleaseJoined
    <3>3. OpOf(stack'[t]) = "die"
      <4>1. stack'[t] = <<MkFrame("die", "yes")>>
        BY <2>4 DEF ReleaseJoined, TypeOK
      <4>2. MkFrame("die", "yes") \in Frame /\ MkFrame("die", "yes").op = "die"
        BY FrameTypes DEF MkFrame, MaskedOps, Block
      <4>3. QED BY <4>1, <4>2, NestSingle
    <3>4. ReleaseInv'
      BY <3>1, <3>3 DEF ReleaseInv
    <3>5. CASE exitValue[t] = "none"
      <4>1. exitValue' = [exitValue EXCEPT ![t] = "exited"] /\ todo' = Releases(t)
        BY <2>4, <3>5 DEF ReleaseJoined
      <4>2. QED BY <3>2, <3>4, <3>5, <4>1, <1>j, JoinReleases
    <3>6. CASE exitValue[t] # "none"
      <4>1. UNCHANGED joins
        BY <2>4, <3>6 DEF ReleaseJoined, joins
      <4>2. QED BY <3>4, <4>1, <1>j, JoinSame
    <3>7. QED BY <3>5, <3>6
  <2>5. QED BY <1>4, <2>1, <2>2, <2>3, <2>4 DEF MaskedStep
<1>5. CASE Interrupt
  <2>1. UNCHANGED joins /\ mode # "masked"
    BY <1>5 DEF Interrupt, TimerInterrupt, DeliverTimerEvent, TimerEnd, AllowEnd
  <2>2. QED BY <2>1, <1>o, <1>j, JoinIdle
<1>6. CASE Idle
  <2>1. UNCHANGED joins /\ runq = << >>
    BY <1>6 DEF Idle, SignalFromIdle
  <2>2. QED BY <2>1, <1>j, NothingToDo, JoinIdle
<1>7. QED BY <1>1, <1>2, <1>3, <1>4, <1>5, <1>6 DEF Next

-----------------------------------------------------------------------------
(* Exits: what a thread lets go of                                         *)

\* A thread in exit-current-thread past its first step, or dead; and one past
\* %disassociate-thread-mutexes.
Leaving(t) == exec[t] = "dead" \/ OpOf(stack[t]) \in {"exit", "die"}
Released(t) == exec[t] = "dead" \/ OpOf(stack[t]) = "die"

LeaveInv ==
  \A t \in Thread :
    /\ Leaving(t) => joinedTo[t] = {} /\ \A e \in Closure : <<t, e>> \notin timers
    /\ Released(t) => \A m \in Mutex : owner[m] # t /\ t \notin Range(waiters[m])

\* Only exit-current-thread enters its own activations, and they call nothing.
LEMMA LeavingOps ==
  ASSUME TypeOK, ControlInv, RunQueueExact, Next, NEW u \in Thread,
         ~ExitCurrentThread(u), ~ReleaseJoined(u), OpOf(stack'[u]) \in {"exit", "die"}
  PROVE  stack'[u] = stack[u]
<1> USE DEF kernel
<1> SUFFICES ASSUME stack'[u] # stack[u] PROVE FALSE
  OBVIOUS
<1>n. StacksNested /\ \A t \in Thread : stack[t] \in Seq(Frame)
  BY DEF ControlInv, TypeOK
<1>f. \A o \in OpenOps \cup MaskedOps, b \in Block :
         MkFrame(o, b) \in Frame /\ MkFrame(o, b).op = o
  BY FrameTypes DEF MkFrame
<1>b. /\ \A t \in Thread : block[t] \in Block /\ "no" \in Block /\ "yes" \in Block
      /\ {"suspend", "resume", "unblock", "allow", "release"} \subseteq OpenOps \cup MaskedOps
      /\ "closure" \in OpenOps
  BY DEF TypeOK, Block, MaskedOps, OpenOps
<1>1. ASSUME NEW f \in Frame, f.op \notin {"exit", "die"}, Push(u, f) PROVE FALSE
  <2>1. stack'[u] = <<f>> \o stack[u]
    BY <1>1 DEF Push, TypeOK
  <2>2. stack[u] \in Seq(Frame)
    BY <1>n
  <2>3. OpOf(<<f>> \o stack[u]) = f.op
    BY <2>2, Pushed
  <2>4. QED BY <1>1, <2>1, <2>3
<1>2. ASSUME Pop(u), OpOf(stack[u]) # "program" PROVE FALSE
  BY <1>2, <1>n, PopFacts DEF OpenOps, SelfOps
<1>3. ASSUME NEW f \in Frame, f.op \notin {"exit", "die"}, NEW s \in Seq(Frame),
             stack' = [stack EXCEPT ![u] = <<f>> \o s]
      PROVE  FALSE
  <2>1. stack'[u] = <<f>> \o s
    BY <1>3 DEF TypeOK
  <2>2. QED BY <1>3, <2>1, Pushed
<1>4. ASSUME NEW f \in Frame, f.op \notin {"exit", "die", "closure"},
             stack' = [stack EXCEPT ![u] = <<f>>]
      PROVE  FALSE
  <2>1. stack'[u] = <<f>>
    BY <1>4 DEF TypeOK
  <2>2. QED BY <1>4, <2>1, NestSingle
<1>t. ASSUME OpOf(stack[u]) # "program"
      PROVE  /\ stack[u] # << >> /\ Top(u) \in Frame /\ Top(u).op = OpOf(stack[u])
             /\ Tail(stack[u]) \in Seq(Frame)
  BY <1>t, <1>n, StackTypes DEF OpOf, Top
<1>5. ASSUME NEW t \in Thread, ProgramStep(t) PROVE FALSE
  <2>1. ASSUME NEW v \in Thread, CreateThread(t, v) PROVE FALSE
    <3>1. u = v
      BY <2>1 DEF CreateThread, TypeOK
    <3>2. QED BY <2>1, <3>1, <1>4, <1>f, <1>b DEF CreateThread
  <2>2. CASE u # t
    <3>1. stack' = stack \/ \E q : stack' = [stack EXCEPT ![t] = q]
      BY <1>5, <2>1
         DEF Push, ProgramStep, YieldCurrentThread, StopCurrentThread, EnterSuspend,
             SuspendCurrentThread, SetPreempt, RestartThread, BlockThreadEvents,
             UnblockThreadEvents, AllowThreadEventDelivery, SignalThreadEvent, JoinThread,
             JoinExited, SignalSelf, RegisterTimerEvent, DeregisterAllEvents, DetachThread,
             LockThreadMutex, TryLockThreadMutex, ExitCurrentThread
    <3>2. QED BY <2>2, <3>1 DEF TypeOK
  <2>3. CASE u = t
    <3>1. ASSUME NEW o \in {"suspend", "resume", "unblock", "allow", "release"}, NEW b \in Block,
                 Push(t, MkFrame(o, b))
          PROVE  FALSE
      BY <2>3, <3>1, <1>1, <1>f, <1>b
    <3>2. ~\E e \in Event : SignalSelf(t, e)
      <4>1. \A e \in Event : /\ [MkFrame("self", block[t]) EXCEPT !.event = e] \in Frame
                             /\ [MkFrame("self", block[t]) EXCEPT !.event = e].op = "self"
        BY <1>b, FrameTypes DEF MkFrame
      <4>2. QED BY <2>3, <4>1, <1>1 DEF SignalSelf
    <3>3. ~\E m \in Mutex : LockThreadMutex(t, m)
      <4>1. \A m \in Mutex : LockFrame(m) \in Frame /\ LockFrame(m).op = "lock"
        BY FrameTypes DEF LockFrame, MkFrame
      <4>2. QED BY <2>3, <4>1, <1>1 DEF LockThreadMutex
    <3>4. ~(\E e \in Event, v \in Thread : JoinExited(t, v, e))
      BY <2>3, <3>1, <1>b DEF JoinExited
    <3>5. QED
      BY <1>5, <2>1, <2>3, <3>1, <3>2, <3>3, <3>4, <1>b
         DEF ProgramStep, YieldCurrentThread, StopCurrentThread, EnterSuspend,
             SuspendCurrentThread, SetPreempt, RestartThread, BlockThreadEvents,
             UnblockThreadEvents, AllowThreadEventDelivery, SignalThreadEvent, JoinThread,
             RegisterTimerEvent, DeregisterAllEvents, DetachThread, TryLockThreadMutex
  <2>4. QED BY <2>2, <2>3
<1>6. ASSUME NEW t \in Thread, Unlock(t) PROVE FALSE
  BY <1>6 DEF Unlock, UnlockThreadMutex
<1>7. ASSUME NEW t \in Thread, EventEnd(t) \/ SelfStep(t) PROVE FALSE
  <2>1. u = t
    BY <1>7 DEF EventEnd, SelfStep, ClosureReturn, Escape, SelfLook, SelfAdd, Pop, TypeOK
  <2>2. CASE ClosureReturn(t)
    BY <2>1, <2>2, <1>2 DEF ClosureReturn
  <2>3. CASE Escape(t)
    BY <2>1, <2>3, <1>4, <1>f, <1>b DEF Escape
  <2>4. CASE SelfLook(t)
    <3>1. PICK o \in SelfOps :
            stack' = [stack EXCEPT ![t] = <<[Top(t) EXCEPT !.op = o]>> \o Tail(stack[t])]
      BY <2>4 DEF SelfLook, SelfOps
    <3>2. OpOf(stack[t]) # "program"
      BY <2>4 DEF SelfLook
    <3>3. [Top(t) EXCEPT !.op = o] \in Frame /\ [Top(t) EXCEPT !.op = o].op = o
      BY <2>1, <3>2, <1>t, FrameTypes DEF OpenOps, Frame
    <3>4. o \notin {"exit", "die"}
      BY DEF SelfOps
    <3>5. QED BY <2>1, <3>1, <3>2, <3>3, <3>4, <1>3, <1>t
  <2>5. CASE SelfAdd(t)
    <3>1. OpOf(stack[t]) # "program"
      BY <2>5 DEF SelfAdd
    <3>2. \/ stack' = [stack EXCEPT ![t] = <<MkFrame("unblock", "no")>> \o Tail(stack[t])]
          \/ Pop(t)
      BY <2>5 DEF SelfAdd
    <3>3. MkFrame("unblock", "no") \in Frame /\ MkFrame("unblock", "no").op = "unblock"
      BY <1>f, <1>b
    <3>4. ~Pop(t) /\ Tail(stack[t]) \in Seq(Frame)
      BY <2>1, <3>1, <1>2, <1>t
    <3>5. QED BY <2>1, <3>2, <3>3, <3>4, <1>3
  <2>6. QED BY <1>7, <2>2, <2>3, <2>4, <2>5 DEF EventEnd, SelfStep
<1>8. ASSUME NEW t \in Thread, MaskedStep(t) PROVE FALSE
  <2>1. CASE HandleEvent(t)
    <3>1. u = t
      BY <2>1 DEF HandleEvent, TypeOK
    <3>2. OpOf(stack[t]) \in {"suspend", "unblock", "allow", "resume"}
      BY <2>1 DEF HandleEvent, Handling, In
    <3> DEFINE f == [Top(t) EXCEPT !.any = TRUE]
               c == MkFrame("closure", block[t])
    <3>3. f \in Frame /\ f.op \notin {"exit", "die"} /\ c \in Frame /\ c.op = "closure"
      <4>1. Top(t) \in Frame /\ Top(t).op \notin {"exit", "die"}
        BY <3>1, <3>2, <1>t
      <4>2. f \in Frame /\ f.op = Top(t).op
        BY <4>1, FrameTypes DEF Frame
      <4>3. c \in Frame /\ c.op = "closure"
        BY <1>f, <1>b
      <4>4. QED BY <4>1, <4>2, <4>3
    <3>4. <<f>> \o Tail(stack[t]) \in Seq(Frame) /\ Tail(stack[t]) \in Seq(Frame)
      BY <3>1, <3>2, <3>3, <1>t, StackTypes
    <3>5. \/ stack' = [stack EXCEPT ![t] = <<f>> \o Tail(stack[t])]
          \/ stack' = [stack EXCEPT ![t] = <<c>> \o (<<f>> \o Tail(stack[t]))]
      BY <2>1 DEF HandleEvent
    <3> HIDE DEF f, c
    <3>6. QED BY <3>1, <3>3, <3>4, <3>5, <1>3
  <2>2. CASE SuspendReturn(t)
    <3>1. u = t /\ OpOf(stack[t]) # "program"
      BY <2>2 DEF SuspendReturn, In, Pop, TypeOK
    <3>2. Pop(t) \/ stack' = [stack EXCEPT ![t] = <<MkFrame("resume", "no")>> \o Tail(stack[t])]
      BY <2>2 DEF SuspendReturn
    <3>3. MkFrame("resume", "no") \in Frame /\ MkFrame("resume", "no").op = "resume"
      BY <1>f, <1>b
    <3>4. ~Pop(t) /\ Tail(stack[t]) \in Seq(Frame)
      BY <3>1, <1>2, <1>t
    <3>5. QED BY <3>1, <3>2, <3>3, <3>4, <1>3
  <2>3. CASE ResumeReturn(t) \/ UnblockReturn(t) \/ ReleaseReturn(t) \/ Die(t)
    <3>1. Pop(t) /\ OpOf(stack[t]) # "program"
      BY <2>3 DEF ResumeReturn, UnblockReturn, ReleaseReturn, Die, In
    <3>2. u = t
      BY <3>1 DEF Pop, TypeOK
    <3>3. QED BY <3>1, <3>2, <1>2
  <2>4. CASE LockLoop(t)
    <3>1. u = t /\ OpOf(stack[t]) # "program"
      BY <2>4 DEF LockLoop, In, Pop, EnterSuspend, Push, TypeOK
    <3>2. Pop(t) \/ Push(t, MkFrame("suspend", block[t]))
      BY <2>4 DEF LockLoop, EnterSuspend
    <3>3. QED BY <3>1, <3>2, <1>1, <1>2, <1>f, <1>b
  <2>5. CASE ReleaseJoined(t)
    BY <2>5 DEF ReleaseJoined, TypeOK
  <2>6. QED BY <1>8, <2>1, <2>2, <2>3, <2>4, <2>5 DEF MaskedStep, Release, DisassociateMutex
<1>9. CASE Interrupt
  <2>1. runq # << >> /\ Push(current, MkFrame("resume", "no"))
    BY <1>9 DEF Interrupt, TimerInterrupt, DeliverTimerEvent, TimerEnd, AllowEnd
  <2>2. u = current
    BY <2>1 DEF Push, TypeOK
  <2>3. QED BY <2>1, <2>2, <1>1, <1>f, <1>b
<1>10. CASE Idle
  BY <1>10 DEF Idle, SignalFromIdle
<1>11. QED BY <1>5, <1>6, <1>7, <1>8, <1>9, <1>10 DEF Next

\* A thread that runs program code is not leaving.
LEMMA ProgramStays ==
  ASSUME TypeOK, RunQueueExact, NEW t \in Thread, Program(t)
  PROVE  ~Leaving(t) /\ ~Released(t)
<1>1. exec[t] \in Running /\ OpOf(stack[t]) \in {"program", "closure"}
  BY CurrentRunning DEF Program, Open
<1>2. QED BY <1>1 DEF Leaving, Released, Running

\* A thread dies only in the last step of exit-current-thread.
LEMMA DiesLast ==
  ASSUME TypeOK, RunQueueExact, Next, NEW u \in Thread, exec'[u] = "dead"
  PROVE  Released(u)
<1> USE DEF kernel
<1>1. CASE \E t \in Thread : Die(t)
  <2>1. PICK t \in Thread : Die(t)
    BY <1>1
  <2>2. u = t => OpOf(stack[u]) = "die"
    BY <2>1 DEF Die, In
  <2>3. u # t => exec[u] = "dead"
    BY <2>1 DEF Die, NotRunning, TypeOK
  <2>4. QED BY <2>2, <2>3 DEF Released
<1>2. CASE ~\E t \in Thread : Die(t)
  <2>w. ASSUME NEW v \in Thread, Wake(v) PROVE exec[u] = "dead"
    BY <2>w DEF Wake, TypeOK
  <2>h. ASSUME NEW m \in Mutex, HandOff(m) PROVE exec[u] = "dead"
    <3>1. exec' = exec \/ \E v \in Thread : Wake(v)
      BY <2>h, HeadTailProperties DEF HandOff, SignalNone, TypeOK
    <3>2. QED BY <3>1, <2>w
  <2>x. ASSUME NEW v \in Thread, NEW state \in Running \cup {"waiting", "stopped"},
               exec' = [exec EXCEPT ![v] = state]
        PROVE  exec[u] = "dead"
    BY <2>x DEF TypeOK, Running
  <2>r. "running" \in Running
    BY DEF Running
  <2>1. ASSUME NEW t \in Thread, ProgramStep(t) PROVE exec[u] = "dead"
    BY <2>1, <2>w, <2>x, <2>r
       DEF ProgramStep, CreateThread, YieldCurrentThread, StopCurrentThread, NotRunning,
           SuspendCurrentThread, SetPreempt, RestartThread, BlockThreadEvents,
           UnblockThreadEvents, AllowThreadEventDelivery, SignalThreadEvent, SignalEvent,
           JoinThread, JoinExited, SignalSelf, RegisterTimerEvent, DeregisterAllEvents,
           DetachThread, LockThreadMutex, TryLockThreadMutex, ExitCurrentThread
  <2>2. ASSUME NEW t \in Thread, Unlock(t) \/ EventEnd(t) \/ SelfStep(t)
        PROVE  exec[u] = "dead"
    BY <2>2, <2>h DEF Unlock, UnlockThreadMutex, EventEnd, SelfStep, ClosureReturn, Escape,
                      SelfLook, SelfAdd
  <2>3. ASSUME NEW t \in Thread, MaskedStep(t) PROVE exec[u] = "dead"
    <3>1. CASE Release(t)
      <4>1. PICK r \in Thread \X Thread \X Event : Wake(r[2])
        BY <3>1 DEF Release, TypeOK
      <4>2. QED BY <4>1, <2>w
    <3>2. QED BY <1>2, <2>3, <2>h, <2>x, <3>1
       DEF MaskedStep, HandleEvent, SuspendReturn, NotRunning, ResumeReturn, UnblockReturn,
           LockLoop, ReleaseReturn, DisassociateMutex, ReleaseJoined
  <2>4. ASSUME Interrupt PROVE exec[u] = "dead"
    <3>1. CASE DeliverTimerEvent
      <4>1. PICK r \in Thread \X Closure : Wake(r[1])
        BY <3>1 DEF DeliverTimerEvent, TypeOK
      <4>2. QED BY <4>1, <2>w
    <3>2. QED BY <2>4, <3>1 DEF Interrupt, TimerInterrupt, TimerEnd, AllowEnd
  <2>5. ASSUME Idle PROVE exec[u] = "dead"
    BY <2>5, <2>w DEF Idle, SignalFromIdle, SignalEvent
  <2>6. QED BY <2>1, <2>2, <2>3, <2>4, <2>5 DEF Next, Released
<1>3. QED BY <1>1, <1>2

\* A thread that leaves is joined to nobody and has no timer records, and stays so.
LEMMA LeavingGone ==
  ASSUME TypeOK, RunQueueExact, Next, NEW u \in Thread, Leaving(u), joinedTo[u] = {},
         \A e \in Closure : <<u, e>> \notin timers
  PROVE  joinedTo'[u] = {} /\ \A e \in Closure : <<u, e>> \notin timers'
<1> USE DEF joins
<1>p. \A t \in Thread : Program(t) => t # u
  BY ProgramStays
<1>s. ASSUME joinedTo' = joinedTo, timers' \subseteq timers
      PROVE  joinedTo'[u] = {} /\ \A e \in Closure : <<u, e>> \notin timers'
  BY <1>s
<1>1. ASSUME NEW t \in Thread, ProgramStep(t)
      PROVE  joinedTo'[u] = {} /\ \A e \in Closure : <<u, e>> \notin timers'
  <2>1. ASSUME NEW v \in Thread, NEW e \in Event, JoinThread(t, v, e)
        PROVE  joinedTo'[u] = {} /\ timers' = timers
    BY <2>1, <1>p DEF JoinThread, TypeOK
  <2>2. ASSUME NEW e \in Event, RegisterTimerEvent(t, e)
        PROVE  joinedTo' = joinedTo /\ \A x \in Closure : <<u, x>> \notin timers'
    <3>1. t # u /\ timers' = timers \cup {<<t, e>>} /\ joinedTo' = joinedTo
      BY <2>2, <1>p DEF RegisterTimerEvent
    <3>2. \A x : <<u, x>> # <<t, e>>
      BY <3>1
    <3>3. QED BY <3>1, <3>2
  <2>3. CASE ExitCurrentThread(t)
    BY <2>3 DEF ExitCurrentThread, TypeOK
  <2>4. CASE DeregisterAllEvents(t)
    BY <2>4, <1>s DEF DeregisterAllEvents
  <2>5. QED
    BY <1>1, <1>s, <2>1, <2>2, <2>3, <2>4
       DEF ProgramStep, CreateThread, YieldCurrentThread, StopCurrentThread,
           SuspendCurrentThread, SetPreempt, RestartThread, BlockThreadEvents,
           UnblockThreadEvents, AllowThreadEventDelivery, SignalThreadEvent,
           JoinExited, SignalSelf, DetachThread, LockThreadMutex, TryLockThreadMutex
<1>2. ASSUME NEW t \in Thread, Unlock(t) \/ EventEnd(t) \/ SelfStep(t)
      PROVE  joinedTo' = joinedTo /\ timers' = timers
  BY <1>2 DEF Unlock, UnlockThreadMutex, EventEnd, SelfStep, ClosureReturn, Escape,
              SelfLook, SelfAdd
<1>3. ASSUME NEW t \in Thread, MaskedStep(t)
      PROVE  joinedTo'[u] = {} /\ timers' = timers
  <2>1. CASE Release(t)
    <3>1. PICK r \in Thread \X Thread \X Event :
             joinedTo' = [joinedTo EXCEPT ![r[2]] = joinedTo[r[2]] \ {r[1]}]
      BY <2>1 DEF Release, TypeOK
    <3>2. timers' = timers
      BY <2>1 DEF Release
    <3>3. joinedTo'[u] \subseteq joinedTo[u]
      BY <3>1 DEF TypeOK
    <3>4. QED BY <3>2, <3>3
  <2>2. QED BY <1>3, <2>1
     DEF MaskedStep, HandleEvent, SuspendReturn, ResumeReturn, UnblockReturn,
         LockLoop, ReleaseReturn, DisassociateMutex, ReleaseJoined, Die
<1>4. CASE Interrupt \/ Idle
  <2>1. joinedTo' = joinedTo /\ timers' \subseteq timers
    BY <1>4 DEF Interrupt, TimerInterrupt, DeliverTimerEvent, TimerEnd, AllowEnd, Idle,
                SignalFromIdle
  <2>2. QED BY <2>1, <1>s
<1>5. QED BY <1>s, <1>1, <1>2, <1>3, <1>4 DEF Next

\* A thread that has let go of its mutexes is not given one again.
LEMMA ReleasedFree ==
  ASSUME TypeOK, RunQueueExact, Next, NEW u \in Thread, Released(u), NEW m \in Mutex,
         owner[m] # u, u \notin Range(waiters[m])
  PROVE  owner'[m] # u /\ u \notin Range(waiters'[m])
<1> USE DEF locks
<1>p. \A t \in Thread : Program(t) => t # u
  BY ProgramStays
<1>n. NoThread # u
  BY ConstantsAssumption
<1>h. ASSUME NEW k \in Mutex, HandOff(k)
      PROVE  owner'[m] # u /\ u \notin Range(waiters'[m])
  <2>1. CASE k # m \/ waiters[k] = << >>
    BY <1>h, <1>n, <2>1 DEF HandOff, TypeOK
  <2>2. CASE k = m /\ waiters[m] # << >>
    <3>1. owner'[m] = Head(waiters[m]) /\ waiters'[m] = Tail(waiters[m])
      BY <1>h, <2>2 DEF HandOff, TypeOK
    <3>2. Range(waiters[m]) = Range(Tail(waiters[m])) \cup {Head(waiters[m])}
      BY <2>2, RangeOfTail, SMT DEF TypeOK
    <3>3. QED BY <3>1, <3>2
  <2>3. QED BY <2>1, <2>2
<1>1. ASSUME NEW t \in Thread, ProgramStep(t)
      PROVE  owner'[m] # u /\ u \notin Range(waiters'[m])
  <2>1. ASSUME NEW k \in Mutex, LockThreadMutex(t, k)
        PROVE  owner'[m] # u /\ u \notin Range(waiters'[m])
    <3>1. t # u
      BY <2>1, <1>p DEF LockThreadMutex
    <3>2. owner'[m] # u
      BY <2>1, <3>1 DEF LockThreadMutex, TypeOK
    <3>3. waiters'[m] = waiters[m] \/ waiters'[m] = Append(waiters[m], t)
      BY <2>1 DEF LockThreadMutex, TypeOK
    <3>4. Range(Append(waiters[m], t)) = Range(waiters[m]) \cup {t}
      BY RangeOfAppend, SMT DEF TypeOK
    <3>5. QED BY <3>1, <3>2, <3>3, <3>4
  <2>2. ASSUME NEW k \in Mutex, TryLockThreadMutex(t, k)
        PROVE  owner'[m] # u /\ u \notin Range(waiters'[m])
    BY <2>2, <1>p DEF TryLockThreadMutex, TypeOK
  <2>3. QED
    BY <1>1, <2>1, <2>2
       DEF ProgramStep, CreateThread, YieldCurrentThread, StopCurrentThread,
           SuspendCurrentThread, SetPreempt, RestartThread, BlockThreadEvents,
           UnblockThreadEvents, AllowThreadEventDelivery, SignalThreadEvent, JoinThread,
           JoinExited, SignalSelf, RegisterTimerEvent, DeregisterAllEvents, DetachThread,
           ExitCurrentThread
<1>2. ASSUME NEW t \in Thread, Unlock(t) \/ EventEnd(t) \/ SelfStep(t)
      PROVE  owner'[m] # u /\ u \notin Range(waiters'[m])
  BY <1>2, <1>h DEF Unlock, UnlockThreadMutex, EventEnd, SelfStep, ClosureReturn, Escape,
                    SelfLook, SelfAdd
<1>3. ASSUME NEW t \in Thread, MaskedStep(t)
      PROVE  owner'[m] # u /\ u \notin Range(waiters'[m])
  <2>1. CASE DisassociateMutex(t)
    <3>1. PICK k \in Mutex : \/ HandOff(k)
                             \/ /\ waiters' = [waiters EXCEPT ![k] = RemoveFirst(waiters[k], t)]
                                /\ owner' = owner
      BY <2>1 DEF DisassociateMutex
    <3>2. Range(RemoveFirst(waiters[m], t)) \subseteq Range(waiters[m])
      BY RangeOfRemove, SMT DEF TypeOK
    <3>3. QED BY <3>1, <3>2, <1>h DEF TypeOK
  <2>2. QED BY <1>3, <2>1
     DEF MaskedStep, HandleEvent, SuspendReturn, ResumeReturn, UnblockReturn,
         LockLoop, ReleaseReturn, Release, ReleaseJoined, Die
<1>4. CASE Interrupt \/ Idle
  BY <1>4 DEF Interrupt, TimerInterrupt, DeliverTimerEvent, TimerEnd, AllowEnd, Idle,
              SignalFromIdle
<1>5. QED BY <1>1, <1>2, <1>3, <1>4 DEF Next

\* Every step keeps what leaving threads have let go of.
LEMMA LeaveNext ==
  ASSUME TypeOK, RunQueueExact, ControlInv, MutexesSound, LeaveInv, Next
  PROVE  LeaveInv'
<1> SUFFICES ASSUME NEW u \in Thread
             PROVE  /\ Leaving(u)' => /\ joinedTo'[u] = {}
                                      /\ \A e \in Closure : <<u, e>> \notin timers'
                    /\ Released(u)' => \A m \in Mutex : /\ owner'[m] # u
                                                        /\ u \notin Range(waiters'[m])
  BY DEF LeaveInv
<1>l. /\ Leaving(u) => joinedTo[u] = {} /\ \A e \in Closure : <<u, e>> \notin timers
      /\ Released(u) => \A m \in Mutex : owner[m] # u /\ u \notin Range(waiters[m])
      /\ Released(u) => Leaving(u)
  BY DEF LeaveInv, Leaving, Released
<1>1. CASE ExitCurrentThread(u)
  <2>1. joinedTo'[u] = {} /\ \A e \in Closure : <<u, e>> \notin timers'
    <3>1. timers' = {r \in timers : r[1] # u} /\ joinedTo'[u] = {}
      BY <1>1 DEF ExitCurrentThread, TypeOK
    <3>2. \A e : <<u, e>>[1] = u
      BY SMT
    <3>3. QED BY <3>1, <3>2
  <2>2. ~Released(u)'
    <3>1. stack'[u] = <<MkFrame("exit", "yes")>> /\ exec'[u] = exec[u]
      BY <1>1 DEF ExitCurrentThread, TypeOK
    <3>2. OpOf(stack'[u]) = "exit"
      <4>1. MkFrame("exit", "yes") \in Frame /\ MkFrame("exit", "yes").op = "exit"
        BY FrameTypes DEF MkFrame, MaskedOps, Block
      <4>2. QED BY <3>1, <4>1, NestSingle
    <3>3. exec[u] # "dead"
      BY <1>1, ProgramStays DEF ExitCurrentThread, Leaving
    <3>4. QED BY <3>1, <3>2, <3>3 DEF Released
  <2>3. QED BY <2>1, <2>2
<1>2. CASE ReleaseJoined(u)
  <2>1. Leaving(u) /\ UNCHANGED <<joinedTo, timers, owner, waiters>>
    BY <1>2 DEF ReleaseJoined, In, Leaving, locks
  <2>2. ASSUME NEW m \in Mutex PROVE owner[m] # u /\ u \notin Range(waiters[m])
    <3>1. ~(mutexes[u][m] > 0)
      BY <1>2, SMT DEF ReleaseJoined
    <3>2. QED BY <3>1 DEF MutexesSound, MutexesListed
  <2>3. QED BY <2>1, <2>2, <1>l
<1>3. CASE ~ExitCurrentThread(u) /\ ~ReleaseJoined(u)
  <2>1. Leaving(u)' => Leaving(u)
    BY <1>3, LeavingOps, DiesLast DEF Leaving, Released
  <2>2. Released(u)' => Released(u)
    BY <1>3, LeavingOps, DiesLast DEF Released
  <2>3. QED BY <2>1, <2>2, <1>l, LeavingGone, ReleasedFree
<1>4. QED BY <1>1, <1>2, <1>3

\* As long as no event locks a mutex that its thread is waiting for, and no
\* thread is detached after its exit, exit-current-thread lets go of everything
\* for any number of threads, mutexes and joins: nothing points at a dead
\* thread, and a joiner is listed as joined exactly while it is still to be
\* signalled, so that nobody is signalled twice or forgotten.
THEOREM ExitsCorrect ==
  ASSUME "relock" \notin Ops, "late-detach" \notin Ops
  PROVE  Spec => []ExitsClean
<1>1. Init => LeaveInv /\ JoinInv
  <2> SUFFICES ASSUME Init PROVE LeaveInv /\ JoinInv
    OBVIOUS
  <2>1. \A t \in Thread : OpOf(stack[t]) = "program" /\ exec[t] # "dead"
    BY DEF Init, OpOf
  <2>2. LeaveInv
    BY <2>1 DEF LeaveInv, Leaving, Released
  <2>3. JoinInv
    BY DEF Init, JoinInv, ReleaseInv, ListedOnce, JoinsPaired
  <2>4. QED BY <2>2, <2>3
<1>2. TypeOK /\ RunQueueExact /\ ControlInv /\ MutexesSound /\ LeaveInv /\ JoinInv /\ [Next]_vars
        => LeaveInv' /\ JoinInv'
  <2> SUFFICES ASSUME TypeOK, RunQueueExact, ControlInv, MutexesSound, LeaveInv, JoinInv,
                      [Next]_vars
               PROVE  LeaveInv' /\ JoinInv'
    OBVIOUS
  <2>1. CASE UNCHANGED vars
    <3> USE <2>1 DEF vars, kernel, locks, joins
    <3>1. LeaveInv'
      BY DEF LeaveInv, Leaving, Released
    <3>2. JoinInv'
      BY DEF JoinInv, ReleaseInv, ListedOnce, JoinsPaired, current
    <3>3. QED BY <3>1, <3>2
  <2>2. CASE Next
    BY <2>2, LeaveNext, JoinNext
  <2>3. QED BY <2>1, <2>2
<1>3. TypeOK /\ LeaveInv /\ JoinInv => ExitsClean
  <2> SUFFICES ASSUME TypeOK, LeaveInv, JoinInv PROVE DeadLetGo
    BY DEF ExitsClean, JoinInv
  <2> SUFFICES ASSUME NEW t \in Thread, exec[t] = "dead"
               PROVE  /\ \A m \in Mutex : owner[m] # t /\ t \notin Range(waiters[m])
                      /\ \A e \in Closure : <<t, e>> \notin timers
                      /\ \A u \in Thread : exitValue[u] = "none" =>
                            ~\E e \in Event : <<t, e>> \in joined[u]
    BY DEF DeadLetGo
  <2>1. Leaving(t) /\ Released(t)
    BY DEF Leaving, Released
  <2>2. joinedTo[t] = {}
    BY <2>1 DEF LeaveInv
  <2>3. \A u \in Thread : exitValue[u] = "none" => ~\E e \in Event : <<t, e>> \in joined[u]
    BY <2>2 DEF JoinInv, JoinsPaired
  <2>4. QED BY <2>1, <2>3 DEF LeaveInv
<1>4. ControlSound => ControlInv
  BY DEF ControlInv, ControlSound
<1>5. QED BY <1>1, <1>2, <1>3, <1>4, TypeCorrect, RunQueueCorrect, ControlCorrect,
             MutexesCorrect, PTL DEF Spec

-----------------------------------------------------------------------------
(* Sleeping on a mutex                                                     *)

\* The activations of a "lock" are those of a thread in the mutex's queue, or
\* its owner; the activations of %suspend-current-thread that are not innermost
\* have run an event; and exit-current-thread has abandoned all others.
HeldFrame(t) == {f \in Frame : f.op = "lock" => Holds(t, f.mutex)}
RanFrame == {f \in Frame : f.op = "suspend" => f.any}
FramesInv ==
  \A t \in Thread :
    /\ stack[t] \in Seq(HeldFrame(t))
    /\ stack[t] # << >> => Tail(stack[t]) \in Seq(RanFrame)
    /\ OpOf(stack[t]) \in {"exit", "die"} => Tail(stack[t]) = << >>

\* The innermost activation of thread t was called from the loop of
\* %lock-thread-mutex, for the mutex that t now owns.
Granted(t) == /\ stack[t] # << >> /\ OpOf(Tail(stack[t])) = "lock"
              /\ owner[Head(Tail(stack[t])).mutex] = t

\* A thread that was given the mutex will not fall asleep on it: it has run an
\* event or has one pending; and none that sleeps was given it.
SleepInv ==
  \A t \in Thread :
    /\ OpOf(stack[t]) = "suspend" /\ Granted(t) => Top(t).any \/ pending[t] # << >>
    /\ exec[t] = "waiting" => ~Granted(t)

\* A sequence over one set whose elements are in another.
LEMMA SeqRetype ==
  ASSUME NEW S, NEW T, NEW s \in Seq(S), \A i \in DOMAIN s : s[i] \in T
  PROVE  s \in Seq(T)
BY SMT

\* A sequence with no tail has one element.
LEMMA SeqSingle ==
  ASSUME NEW S, NEW s \in Seq(S), s # << >>, Tail(s) = << >>, NEW i \in DOMAIN s
  PROVE  s[i] = Head(s)
<1>1. Len(Tail(s)) = Len(s) - 1
  BY HeadTailProperties
<1>2. Len(s) = 1
  BY <1>1, SMT
<1>3. QED BY <1>2, SMT

\* A thread in the queue of a mutex, or its owner, remains so while it is in
\* %lock-thread-mutex.
LEMMA HoldsNext ==
  ASSUME "relock" \notin Ops, TypeOK, MutexesSound, Next, NEW u \in Thread, NEW m \in Locking(u),
         Holds(u, m), OpOf(stack[u]) # "exit"
  PROVE  Holds(u, m)'
<1> USE DEF locks
<1>m. m \in Mutex /\ (owner[m] = u \/ u \in Range(waiters[m]))
  BY DEF Holds
<1>t. waiters[m] \in Seq(Thread)
  BY <1>m DEF TypeOK
<1>u. ASSUME UNCHANGED <<owner, waiters>> PROVE Holds(u, m)'
  BY <1>u DEF Holds
<1>f. ASSUME owner[m] = NoThread PROVE FALSE
  <2>1. waiters[m] = << >> /\ NoThread # u
    BY <1>f, <1>m, ConstantsAssumption DEF MutexesSound, MutexQueue
  <2>2. Range(waiters[m]) = {}
    BY <1>t, <2>1, RangeOfEmpty
  <2>3. QED BY <1>f, <1>m, <2>1, <2>2
<1>h. ASSUME NEW k \in Mutex, HandOff(k), k = m => owner[m] # u PROVE Holds(u, m)'
  <2>1. CASE k # m
    BY <1>h, <1>m, <2>1 DEF HandOff, TypeOK, Holds
  <2>2. CASE k = m
    <3>1. u \in Range(waiters[m])
      BY <1>h, <1>m, <2>2
    <3>2. waiters[m] # << >>
      BY <1>t, <3>1, RangeOfEmpty
    <3>3. owner'[m] = Head(waiters[m]) /\ waiters'[m] = Tail(waiters[m])
      BY <1>h, <1>m, <2>2, <3>2 DEF HandOff, TypeOK
    <3>4. Range(waiters[m]) = Range(Tail(waiters[m])) \cup {Head(waiters[m])}
      BY <1>t, <3>2, RangeOfTail, SMT
    <3>5. QED BY <1>m, <3>1, <3>3, <3>4 DEF Holds
  <2>3. QED BY <2>1, <2>2
<1>1. ASSUME NEW t \in Thread, ProgramStep(t) PROVE Holds(u, m)'
  <2>1. ASSUME NEW k \in Mutex, LockThreadMutex(t, k) PROVE Holds(u, m)'
    <3>1. owner'[m] = owner[m]
      BY <2>1, <1>f, <1>m DEF LockThreadMutex, TypeOK
    <3>2. waiters'[m] = waiters[m] \/ waiters'[m] = Append(waiters[m], t)
      BY <2>1, <1>m DEF LockThreadMutex, TypeOK
    <3>3. Range(Append(waiters[m], t)) = Range(waiters[m]) \cup {t}
      BY <1>t, RangeOfAppend, SMT
    <3>4. QED BY <1>m, <3>1, <3>2, <3>3 DEF Holds
  <2>2. ASSUME NEW k \in Mutex, TryLockThreadMutex(t, k) PROVE Holds(u, m)'
    BY <2>2, <1>f, <1>m DEF TryLockThreadMutex, TypeOK, Holds
  <2>3. QED
    BY <1>1, <2>1, <2>2, <1>u
       DEF ProgramStep, CreateThread, YieldCurrentThread, StopCurrentThread,
           SuspendCurrentThread, SetPreempt, RestartThread, BlockThreadEvents,
           UnblockThreadEvents, AllowThreadEventDelivery, SignalThreadEvent, JoinThread,
           JoinExited, SignalSelf, RegisterTimerEvent, DeregisterAllEvents, DetachThread,
           ExitCurrentThread
<1>2. ASSUME NEW t \in Thread, Unlock(t) PROVE Holds(u, m)'
  <2>1. PICK k \in Mutex : UnlockThreadMutex(t, k)
    BY <1>2 DEF Unlock
  <2>2. HandOff(k) /\ owner[k] = t /\ k \notin Locking(t)
    BY <2>1 DEF UnlockThreadMutex
  <2>3. QED BY <2>2, <1>h
<1>3. ASSUME NEW t \in Thread, EventEnd(t) \/ SelfStep(t) PROVE Holds(u, m)'
  BY <1>3, <1>u DEF EventEnd, SelfStep, ClosureReturn, Escape, SelfLook, SelfAdd
<1>4. ASSUME NEW t \in Thread, MaskedStep(t) PROVE Holds(u, m)'
  <2>1. CASE DisassociateMutex(t)
    <3>1. u # t
      BY <2>1 DEF DisassociateMutex, In
    <3>2. PICK k \in Mutex :
             IF owner[k] = t
             THEN HandOff(k)
             ELSE waiters' = [waiters EXCEPT ![k] = RemoveFirst(waiters[k], t)] /\ owner' = owner
      BY <2>1 DEF DisassociateMutex
    <3>3. CASE owner[k] = t
      BY <1>h, <3>1, <3>2, <3>3
    <3>4. CASE owner[k] # t
      <4>1. u \in Range(waiters[m]) => u \in Range(RemoveFirst(waiters[m], t))
        BY <1>t, <3>1, RangeOfRemove, SMT
      <4>2. waiters'[m] = waiters[m] \/ waiters'[m] = RemoveFirst(waiters[m], t)
        BY <1>m, <3>2, <3>4 DEF TypeOK
      <4>3. QED BY <1>m, <3>2, <3>4, <4>1, <4>2 DEF Holds
    <3>5. QED BY <3>3, <3>4
  <2>2. QED BY <1>4, <1>u, <2>1
     DEF MaskedStep, HandleEvent, SuspendReturn, ResumeReturn, UnblockReturn,
         LockLoop, ReleaseReturn, Release, ReleaseJoined, Die
<1>5. CASE Interrupt \/ Idle
  BY <1>5, <1>u DEF Interrupt, TimerInterrupt, DeliverTimerEvent, TimerEnd, AllowEnd, Idle,
                    SignalFromIdle
<1>6. QED BY <1>1, <1>2, <1>3, <1>4, <1>5 DEF Next

\* No step of thread.scm, nor the timer, disturbs the activations so.
LEMMA FramesNext ==
  ASSUME "relock" \notin Ops, TypeOK, ControlInv, RunQueueExact, MutexesSound, FramesInv, Next
  PROVE  FramesInv'
<1>s. PICK t \in Thread : StackStep(t)
  BY StackNext
<1>n. \A u \in Thread : stack[u] \in Seq(Frame)
  BY DEF TypeOK
<1>1. ASSUME NEW u \in Thread PROVE stack'[u] \in Seq(HeldFrame(u)')
  <2> DEFINE S == HeldFrame(u)'
  <2>1. stack[u] \in Seq(HeldFrame(u))
    BY DEF FramesInv
  <2>2. ASSUME NEW i \in DOMAIN stack[u], NEW f, f = stack[u][i] PROVE f \in S
    <3>1. f \in HeldFrame(u)
      BY <2>1, <2>2, SMT
    <3>2. ASSUME f.op = "lock" PROVE Holds(u, f.mutex)'
      <4>1. Holds(u, f.mutex)
        BY <3>1, <3>2 DEF HeldFrame
      <4>2. f.mutex \in Locking(u)
        BY <4>1, <2>2, ConstantsAssumption DEF Locking, Holds
      <4>3. OpOf(stack[u]) # "exit"
        <5>1. SUFFICES ASSUME OpOf(stack[u]) = "exit" PROVE FALSE
          OBVIOUS
        <5>2. Tail(stack[u]) = << >> /\ stack[u] # << >> /\ Head(stack[u]).op = "exit"
          BY <5>1 DEF FramesInv, OpOf
        <5>3. f = Head(stack[u])
          BY <5>2, <2>2, <1>n, SeqSingle
        <5>4. QED BY <3>2, <5>2, <5>3
      <4>4. QED BY <4>1, <4>2, <4>3, HoldsNext
    <3>3. f \in Frame
      BY <3>1 DEF HeldFrame
    <3>4. QED BY <3>2, <3>3 DEF HeldFrame
  <2>3. stack[u] \in Seq(S)
    <3> HIDE DEF S
    <3>1. QED BY <2>1, <2>2, SeqRetype
  <2>4. u = t => Fresh(t) \subseteq S
    BY DEF Fresh, HeldFrame
  <2> HIDE DEF S
  <2>5. stack'[u] \in Seq(S)
    BY <1>s, <2>3, <2>4, StackKeeps
  <2>6. QED BY <2>5 DEF S
<1>2. ASSUME NEW u \in Thread, stack'[u] # << >> PROVE Tail(stack'[u]) \in Seq(RanFrame)
  <2>i. stack[u] # << >> => Tail(stack[u]) \in Seq(RanFrame)
    BY DEF FramesInv
  <2>1. CASE u # t
    BY <1>2, <1>s, <2>1, <2>i DEF StackStep, TypeOK
  <2>2. CASE u = t
    <3>d. u \in DOMAIN stack /\ stack[u] \in Seq(Frame)
      BY <1>n DEF TypeOK
    <3>t. ASSUME NEW f, NEW s \in Seq(Frame) PROVE Tail(<<f>> \o s) = s
      BY <3>t, SMT
    <3>r. ASSUME NEW f \in RanFrame, NEW s \in Seq(RanFrame) PROVE <<f>> \o s \in Seq(RanFrame)
      BY <3>r, SMT
    <3>p. ASSUME stack[u] # << >>
          PROVE  /\ Tail(stack[u]) \in Seq(Frame) /\ Head(stack[u]) \in Frame
                 /\ stack[u] = <<Head(stack[u])>> \o Tail(stack[u])
                 /\ Head(stack[u]).op = OpOf(stack[u])
      <4>1. Tail(stack[u]) \in Seq(Frame) /\ Head(stack[u]) \in Frame
        BY <3>p, <3>d, HeadTailProperties
      <4>2. stack[u] = <<Head(stack[u])>> \o Tail(stack[u])
        BY <3>p, <3>d, SMT
      <4>3. QED BY <3>p, <4>1, <4>2 DEF OpOf
    <3>1. CASE stack' = stack
      BY <1>2, <2>i, <3>1
    <3>2. ASSUME OpOf(stack[t]) # "suspend", NEW f \in Fresh(t),
                 stack' = [stack EXCEPT ![t] = <<f>> \o stack[t]]
          PROVE  Tail(stack'[u]) \in Seq(RanFrame)
      <4>1. Tail(stack'[u]) = stack[u]
        BY <2>2, <3>2, <3>d, <3>t
      <4>2. CASE stack[u] = << >>
        <5>1. << >> \in Seq(RanFrame)
          BY SMT
        <5>2. QED BY <4>1, <4>2, <5>1
      <4>3. CASE stack[u] # << >>
        <5>1. Head(stack[u]) \in RanFrame
          BY <2>2, <3>2, <4>3, <3>p DEF RanFrame
        <5>2. <<Head(stack[u])>> \o Tail(stack[u]) \in Seq(RanFrame)
          BY <4>3, <5>1, <2>i, <3>r
        <5>3. QED BY <4>1, <4>3, <5>2, <3>p
      <4>4. QED BY <4>2, <4>3
    <3>3. CASE stack[t] # << >> /\ stack' = [stack EXCEPT ![t] = Tail(stack[t])]
      <4>1. stack'[u] = Tail(stack[u]) /\ Tail(stack[u]) \in Seq(RanFrame)
        BY <2>2, <3>3, <3>d, <2>i
      <4>2. QED BY <1>2, <4>1, HeadTailProperties
    <3>4. ASSUME NEW f \in Fresh(t), stack[t] # << >>,
                 stack' = [stack EXCEPT ![t] = <<f>> \o Tail(stack[t])]
          PROVE  Tail(stack'[u]) \in Seq(RanFrame)
      <4>1. Tail(stack'[u]) = Tail(stack[u])
        BY <2>2, <3>4, <3>d, <3>p, <3>t
      <4>2. QED BY <2>2, <3>4, <4>1, <2>i
    <3>5. ASSUME NEW c \in Fresh(t), NEW f \in Fresh(t), f.any, stack[t] # << >>,
                 stack' = [stack EXCEPT ![t] = <<c>> \o (<<f>> \o Tail(stack[t]))]
          PROVE  Tail(stack'[u]) \in Seq(RanFrame)
      <4>1. f \in RanFrame
        BY <3>5 DEF Fresh, RanFrame
      <4>2. <<f>> \o Tail(stack[u]) \in Seq(RanFrame)
        BY <2>2, <3>5, <4>1, <2>i, <3>r
      <4>3. <<f>> \o Tail(stack[u]) \in Seq(Frame)
        BY <2>2, <3>5, <3>p, StackTypes DEF Fresh
      <4>4. stack'[u] = <<c>> \o (<<f>> \o Tail(stack[u]))
        BY <2>2, <3>5, <3>d
      <4>5. QED BY <4>2, <4>3, <4>4, <3>t
    <3>6. ASSUME NEW f \in Fresh(t), stack' = [stack EXCEPT ![t] = <<f>>]
          PROVE  Tail(stack'[u]) \in Seq(RanFrame)
      <4>1. stack'[u] = <<f>>
        BY <2>2, <3>6, <3>d
      <4>2. QED BY <4>1, SMT
    <3>7. QED BY <1>s, <3>1, <3>2, <3>3, <3>4, <3>5, <3>6 DEF StackStep
  <2>3. QED BY <2>1, <2>2
<1>3. ASSUME NEW u \in Thread, OpOf(stack'[u]) \in {"exit", "die"} PROVE Tail(stack'[u]) = << >>
  <2>1. CASE ExitCurrentThread(u)
    BY <2>1, SMT DEF ExitCurrentThread, TypeOK
  <2>2. CASE ReleaseJoined(u)
    BY <2>2, SMT DEF ReleaseJoined, TypeOK
  <2>3. CASE ~ExitCurrentThread(u) /\ ~ReleaseJoined(u)
    <3>1. stack'[u] = stack[u]
      BY <1>3, <2>3, LeavingOps
    <3>2. QED BY <1>3, <3>1 DEF FramesInv
  <2>4. QED BY <2>1, <2>2, <2>3
<1>4. QED BY <1>1, <1>2, <1>3 DEF FramesInv

\* A ring with an event added to it is not empty.
LEMMA AddedSome ==
  ASSUME NEW q \in Seq(Event), NEW e \in Event
  PROVE  AddEvent(q, e) # << >>
<1>1. Append(q, e) # << >>
  BY AppendProperties
<1>2. <<e>> # << >> /\ <<NoEvent>> # << >>
  BY SMT
<1>3. QED BY <1>1, <1>2 DEF AddEvent

\* Who is given a mutex without asking is woken, with an event in its ring.
LEMMA OwnerGiven ==
  ASSUME TypeOK, NoLostWakeup, Next, NEW u \in Thread, NEW m \in Mutex, owner'[m] = u
  PROVE  \/ owner[m] = u \/ Program(u)
         \/ pending'[u] # << >> /\ exec'[u] # "waiting"
<1> USE DEF locks
<1> SUFFICES ASSUME owner[m] # u, ~Program(u) PROVE pending'[u] # << >> /\ exec'[u] # "waiting"
  OBVIOUS
<1>u. ASSUME owner' = owner PROVE FALSE
  BY <1>u
<1>h. ASSUME NEW k \in Mutex, HandOff(k) PROVE pending'[u] # << >> /\ exec'[u] # "waiting"
  <2>1. k = m
    BY <1>h DEF HandOff, TypeOK
  <2>2. waiters[m] # << >>
    BY <1>h, <2>1, ConstantsAssumption DEF HandOff, TypeOK
  <2>3. SignalNone(u)
    BY <1>h, <2>1, <2>2 DEF HandOff, TypeOK
  <2>4. pending'[u] = AddEvent(pending[u], NoEvent) /\ pending[u] \in Seq(Event)
    BY <2>3 DEF SignalNone, TypeOK
  <2>5. exec'[u] # "waiting"
    BY <2>3 DEF SignalNone, Wake, Wakes, TypeOK, NoLostWakeup
  <2>6. QED BY <2>4, <2>5, AddedSome DEF Event
<1>1. ASSUME NEW t \in Thread, ProgramStep(t) PROVE FALSE
  <2>1. ASSUME NEW k \in Mutex, LockThreadMutex(t, k) \/ TryLockThreadMutex(t, k) PROVE FALSE
    BY <2>1 DEF LockThreadMutex, TryLockThreadMutex, TypeOK
  <2>2. QED
    BY <1>1, <2>1, <1>u
       DEF ProgramStep, CreateThread, YieldCurrentThread, StopCurrentThread,
           SuspendCurrentThread, SetPreempt, RestartThread, BlockThreadEvents,
           UnblockThreadEvents, AllowThreadEventDelivery, SignalThreadEvent, JoinThread,
           JoinExited, SignalSelf, RegisterTimerEvent, DeregisterAllEvents, DetachThread,
           ExitCurrentThread
<1>2. ASSUME NEW t \in Thread, Unlock(t) PROVE pending'[u] # << >> /\ exec'[u] # "waiting"
  BY <1>2, <1>h DEF Unlock, UnlockThreadMutex
<1>3. ASSUME NEW t \in Thread, EventEnd(t) \/ SelfStep(t) PROVE FALSE
  BY <1>3, <1>u DEF EventEnd, SelfStep, ClosureReturn, Escape, SelfLook, SelfAdd
<1>4. ASSUME NEW t \in Thread, MaskedStep(t) PROVE pending'[u] # << >> /\ exec'[u] # "waiting"
  BY <1>4, <1>u, <1>h
     DEF MaskedStep, HandleEvent, SuspendReturn, ResumeReturn, UnblockReturn,
         LockLoop, ReleaseReturn, Release, ReleaseJoined, Die, DisassociateMutex
<1>5. CASE Interrupt \/ Idle
  BY <1>5, <1>u DEF Interrupt, TimerInterrupt, DeliverTimerEvent, TimerEnd, AllowEnd, Idle,
                    SignalFromIdle
<1>6. QED BY <1>1, <1>2, <1>3, <1>4, <1>5 DEF Next

\* Only its own steps take the events of a thread in %suspend-current-thread.
LEMMA PendingKept ==
  ASSUME TypeOK, ControlInv, RunQueueExact, Next, NEW u \in Thread,
         OpOf(stack[u]) = "suspend", ~HandleEvent(u), pending[u] # << >>
  PROVE  pending'[u] # << >>
<1> USE DEF events
<1>u. ASSUME pending' = pending PROVE pending'[u] # << >>
  BY <1>u
<1>o. ASSUME NEW t \in Thread, t # u, NEW q, pending' = [pending EXCEPT ![t] = q]
      PROVE  pending'[u] # << >>
  BY <1>o DEF TypeOK
<1>a. ASSUME NEW v \in Thread, NEW e \in Event,
             pending' = [pending EXCEPT ![v] = AddEvent(pending[v], e)]
      PROVE  pending'[u] # << >>
  <2>1. CASE v # u
    BY <1>a, <2>1, <1>o
  <2>2. CASE v = u
    BY <1>a, <2>2, AddedSome DEF TypeOK
  <2>3. QED BY <2>1, <2>2
<1>h. ASSUME NEW k \in Mutex, HandOff(k) PROVE pending'[u] # << >>
  <2>1. CASE waiters[k] = << >>
    BY <1>h, <2>1 DEF HandOff
  <2>2. CASE waiters[k] # << >>
    <3>1. Head(waiters[k]) \in Thread
      BY <2>2, HeadTailProperties DEF TypeOK
    <3>2. NoEvent \in Event
      BY DEF Event
    <3>3. QED BY <1>h, <2>2, <3>1, <3>2, <1>a DEF HandOff, SignalNone
  <2>3. QED BY <2>1, <2>2
<1>1. ASSUME NEW t \in Thread, ProgramStep(t) PROVE pending'[u] # << >>
  <2>p. ASSUME Program(t) PROVE t # u
    BY <2>p DEF Program
  <2>1. ASSUME NEW v \in Thread, NEW d \in BOOLEAN, NEW e \in Event, RestartThread(t, v, d, e)
        PROVE  pending'[u] # << >>
    <3>1. Program(t) /\ exec[v] = "stopped" /\ \E q : pending' = [pending EXCEPT ![v] = q]
      BY <2>1 DEF RestartThread
    <3>2. v # u
      <4>1. runq # << >> => current \in Thread /\ exec[current] # "stopped"
        BY CurrentRunning DEF Running
      <4>2. ASSUME v = u PROVE OpOf(stack[v]) = "resume"
        BY <3>1, <4>1, <4>2 DEF ControlInv, SwitchedOut, Program, Open
      <4>3. QED BY <4>2
    <3>3. QED BY <3>1, <3>2, <1>o
  <2>2. CASE ExitCurrentThread(t)
    BY <2>2, <2>p, <1>o DEF ExitCurrentThread
  <2>3. ASSUME NEW v \in Thread, NEW e \in Event, SignalThreadEvent(t, v, e) \/ JoinExited(t, v, e)
        PROVE  pending'[u] # << >>
    BY <2>3, <1>a DEF SignalThreadEvent, SignalEvent, JoinExited
  <2>4. CASE DeregisterAllEvents(t)
    BY <2>4, <2>p, <1>o DEF DeregisterAllEvents
  <2>5. QED
    BY <1>1, <2>1, <2>2, <2>3, <2>4, <1>u
       DEF ProgramStep, CreateThread, YieldCurrentThread, StopCurrentThread,
           SuspendCurrentThread, SetPreempt, BlockThreadEvents,
           UnblockThreadEvents, AllowThreadEventDelivery, JoinThread,
           SignalSelf, RegisterTimerEvent, DetachThread, LockThreadMutex, TryLockThreadMutex
<1>2. ASSUME NEW t \in Thread, Unlock(t) PROVE pending'[u] # << >>
  BY <1>2, <1>h DEF Unlock, UnlockThreadMutex
<1>3. ASSUME NEW t \in Thread, EventEnd(t) \/ SelfStep(t) PROVE pending'[u] # << >>
  <2>1. CASE SelfAdd(t)
    <3>1. t # u /\ \E q : pending' = [pending EXCEPT ![t] = q]
      BY <2>1 DEF SelfAdd
    <3>2. QED BY <3>1, <1>o
  <2>2. QED BY <1>3, <2>1, <1>u DEF EventEnd, SelfStep, ClosureReturn, Escape, SelfLook
<1>4. ASSUME NEW t \in Thread, MaskedStep(t) PROVE pending'[u] # << >>
  <2>1. CASE HandleEvent(t)
    BY <2>1, <1>o DEF HandleEvent
  <2>2. CASE Release(t)
    <3>1. PICK r \in todo : pending' = [pending EXCEPT ![r[2]] = AddEvent(pending[r[2]], r[3])]
      BY <2>2 DEF Release
    <3>t. todo \subseteq Thread \X Thread \X Event
      BY DEF TypeOK
    <3>2. r[2] \in Thread /\ r[3] \in Event
      BY <3>t, SMT
    <3>3. QED BY <3>1, <3>2, <1>a
  <2>3. CASE DisassociateMutex(t)
    BY <2>3, <1>h, <1>u DEF DisassociateMutex
  <2>4. QED BY <1>4, <1>u, <2>1, <2>2, <2>3
     DEF MaskedStep, SuspendReturn, ResumeReturn, UnblockReturn,
         LockLoop, ReleaseReturn, ReleaseJoined, Die
<1>5. CASE Interrupt
  <2>1. CASE DeliverTimerEvent
    <3>1. PICK r \in Thread \X Closure :
             pending' = [pending EXCEPT ![r[1]] = AddEvent(pending[r[1]], r[2])]
      BY <2>1 DEF DeliverTimerEvent, TypeOK
    <3>2. r[1] \in Thread /\ r[2] \in Event
      BY DEF Event
    <3>3. QED BY <3>1, <3>2, <1>a
  <2>2. QED BY <1>5, <2>1, <1>u DEF Interrupt, TimerInterrupt, TimerEnd, AllowEnd
<1>6. CASE Idle
  BY <1>6, <1>a DEF Idle, SignalFromIdle, SignalEvent
<1>7. QED BY <1>1, <1>2, <1>3, <1>4, <1>5, <1>6 DEF Next

\* Who comes to be in %suspend-current-thread, called from %lock-thread-mutex
\* for a mutex it was given, has run an event.
LEMMA SuspendTops ==
  ASSUME TypeOK, ControlInv, FramesInv, Next, NEW u \in Thread,
         OpOf(stack'[u]) = "suspend", stack'[u] # stack[u], Granted(u)'
  PROVE  Top(u)'.any
<1>s. PICK t \in Thread : StackStep(t)
  BY StackNext
<1>d. u \in DOMAIN stack /\ stack[u] \in Seq(Frame)
  BY DEF TypeOK
<1>t. u = t
  BY <1>s DEF StackStep, TypeOK
<1>g. OpOf(Tail(stack'[u])) = "lock" /\ owner'[Head(Tail(stack'[u])).mutex] = u
  BY DEF Granted
<1>h. ASSUME NEW f \in Frame, NEW q \in Seq(Frame)
      PROVE  /\ Head(<<f>> \o q) = f /\ Tail(<<f>> \o q) = q /\ OpOf(<<f>> \o q) = f.op
  <2>1. Head(<<f>> \o q) = f /\ Tail(<<f>> \o q) = q /\ <<f>> \o q # << >>
    BY <1>h, SMT
  <2>2. QED BY <2>1 DEF OpOf
<1>1. ASSUME NEW f \in Fresh(t), stack' = [stack EXCEPT ![t] = <<f>> \o stack[t]],
             f.op = "suspend" /\ OpOf(stack[t]) = "lock" => owner'[Top(t).mutex] # t
      PROVE  Top(u)'.any
  <2>1. stack'[u] = <<f>> \o stack[u] /\ f \in Frame
    BY <1>1, <1>t, <1>d DEF Fresh
  <2>2. f.op = "suspend" /\ OpOf(stack[u]) = "lock" /\ owner'[Head(stack[u]).mutex] = u
    BY <2>1, <1>h, <1>d, <1>g
  <2>3. QED BY <1>1, <1>t, <2>2 DEF Top
<1>2. CASE stack[t] # << >> /\ stack' = [stack EXCEPT ![t] = Tail(stack[t])]
  <2>1. stack'[u] = Tail(stack[u]) /\ Tail(stack[u]) \in Seq(RanFrame)
    BY <1>2, <1>t, <1>d DEF FramesInv
  <2>2. stack'[u] # << >> /\ Head(stack'[u]).op = "suspend"
    BY DEF OpOf
  <2>3. Head(stack'[u]) \in RanFrame
    BY <2>1, <2>2, HeadTailProperties
  <2>4. QED BY <2>2, <2>3 DEF RanFrame, Top
<1>3. ASSUME NEW f \in Fresh(t), stack[t] # << >>, f.op = "suspend" => f.any,
             stack' = [stack EXCEPT ![t] = <<f>> \o Tail(stack[t])]
      PROVE  Top(u)'.any
  <2>1. stack'[u] = <<f>> \o Tail(stack[u]) /\ f \in Frame /\ Tail(stack[u]) \in Seq(Frame)
    BY <1>3, <1>t, <1>d, HeadTailProperties DEF Fresh
  <2>2. QED BY <1>3, <2>1, <1>h DEF Top
<1>4. ASSUME NEW c \in Fresh(t), NEW f \in Fresh(t), stack[t] # << >>, c.op # "suspend",
             stack' = [stack EXCEPT ![t] = <<c>> \o (<<f>> \o Tail(stack[t]))]
      PROVE  FALSE
  <2>1. Tail(stack[u]) \in Seq(Frame) /\ f \in Frame /\ c \in Frame
    BY <1>4, <1>t, <1>d, HeadTailProperties DEF Fresh
  <2>2. <<f>> \o Tail(stack[u]) \in Seq(Frame)
    BY <2>1, StackTypes
  <2>3. stack'[u] = <<c>> \o (<<f>> \o Tail(stack[u]))
    BY <1>4, <1>t, <1>d
  <2>4. QED BY <1>4, <2>1, <2>2, <2>3, <1>h
<1>5. ASSUME NEW f \in Fresh(t), stack' = [stack EXCEPT ![t] = <<f>>] PROVE FALSE
  <2>1. stack'[u] = <<f>>
    BY <1>5, <1>t, <1>d
  <2>2. Tail(<<f>>) = << >>
    BY SMT
  <2>3. OpOf(Tail(stack'[u])) = "program"
    BY <2>1, <2>2 DEF OpOf
  <2>4. QED BY <2>3, <1>g
<1>6. QED BY <1>s, <1>1, <1>2, <1>3, <1>4, <1>5 DEF StackStep

\* A thread that waits is left where it is, and none begins to wait but by
\* %suspend-current-thread with no event.
LEMMA WaitingNext ==
  ASSUME TypeOK, RunQueueExact, Next, NEW u \in Thread
  PROVE  /\ exec[u] = "waiting" => stack'[u] = stack[u]
         /\ exec'[u] = "waiting" => \/ exec[u] = "waiting"
                                    \/ SuspendReturn(u) /\ ~Top(u).any
<1> USE DEF kernel
<1> DEFINE Same(t) == stack' = stack \/ \E q : stack' = [stack EXCEPT ![t] = q]
           Goal == /\ exec[u] = "waiting" => stack'[u] = stack[u]
                   /\ exec'[u] = "waiting" => \/ exec[u] = "waiting"
                                              \/ SuspendReturn(u) /\ ~Top(u).any
<1>c. runq # << >> => exec[current] # "waiting" /\ current \in Thread
  BY CurrentRunning DEF Running
<1>s. ASSUME NEW t \in Thread, exec[t] # "waiting", Same(t)
      PROVE  exec[u] = "waiting" => stack'[u] = stack[u]
  BY <1>s DEF TypeOK
<1>e. ASSUME \/ exec' = exec
             \/ \E t \in Thread : \E x : x # "waiting" /\ exec' = [exec EXCEPT ![t] = x]
      PROVE  exec'[u] = "waiting" => exec[u] = "waiting"
  BY <1>e DEF TypeOK
<1>w. ASSUME NEW v \in Thread, Wake(v) PROVE exec'[u] = "waiting" => exec[u] = "waiting"
  BY <1>w, <1>e DEF Wake
<1>h. ASSUME NEW k \in Mutex, HandOff(k) PROVE exec'[u] = "waiting" => exec[u] = "waiting"
  <2>1. CASE waiters[k] = << >>
    BY <1>h, <2>1 DEF HandOff
  <2>2. CASE waiters[k] # << >>
    <3>1. Head(waiters[k]) \in Thread
      BY <2>2, HeadTailProperties DEF TypeOK
    <3>2. QED BY <1>h, <2>2, <3>1, <1>w DEF HandOff, SignalNone
  <2>3. QED BY <2>1, <2>2
<1>1. ASSUME NEW t \in Thread, ProgramStep(t) PROVE Goal
  <2>1. CASE \E v \in Thread : CreateThread(t, v)
    <3>1. PICK v \in Thread : CreateThread(t, v)
      BY <2>1
    <3>2. exec[v] # "waiting" /\ Same(v) /\ exec' = [exec EXCEPT ![v] = "running"]
      BY <3>1 DEF CreateThread
    <3>3. QED BY <3>2, <1>s, <1>e
  <2>2. CASE ~\E v \in Thread : CreateThread(t, v)
    <3>1. Program(t) /\ Same(t)
      BY <1>1, <2>2
         DEF Push, ProgramStep, YieldCurrentThread, StopCurrentThread, EnterSuspend,
             SuspendCurrentThread, SetPreempt, RestartThread, BlockThreadEvents,
             UnblockThreadEvents, AllowThreadEventDelivery, SignalThreadEvent, JoinThread,
             JoinExited, SignalSelf, RegisterTimerEvent, DeregisterAllEvents, DetachThread,
             LockThreadMutex, TryLockThreadMutex, ExitCurrentThread
    <3>2. exec'[u] = "waiting" => exec[u] = "waiting"
      <4>1. ASSUME NEW v \in Thread, NEW e \in Event, SignalThreadEvent(t, v, e)
            PROVE  exec'[u] = "waiting" => exec[u] = "waiting"
        BY <4>1, <1>w DEF SignalThreadEvent, SignalEvent
      <4>2. ASSUME NEW v \in Thread, NEW d \in BOOLEAN, NEW e \in Event, RestartThread(t, v, d, e)
            PROVE  exec'[u] = "waiting" => exec[u] = "waiting"
        BY <4>2, <1>e DEF RestartThread
      <4>3. ASSUME NEW x \in Running, SetPreempt(t, x)
            PROVE  exec'[u] = "waiting" => exec[u] = "waiting"
        BY <4>3, <1>e DEF SetPreempt, Running
      <4>4. CASE YieldCurrentThread(t) \/ StopCurrentThread(t)
        BY <4>4, <1>e DEF YieldCurrentThread, StopCurrentThread, NotRunning
      <4>5. QED
        BY <1>1, <2>2, <4>1, <4>2, <4>3, <4>4, <1>e
           DEF ProgramStep, SuspendCurrentThread, BlockThreadEvents,
               UnblockThreadEvents, AllowThreadEventDelivery, JoinThread,
               JoinExited, SignalSelf, RegisterTimerEvent, DeregisterAllEvents, DetachThread,
               LockThreadMutex, TryLockThreadMutex, ExitCurrentThread
    <3>3. exec[t] # "waiting"
      BY <3>1, <1>c DEF Program, Open
    <3>4. QED BY <3>1, <3>2, <3>3, <1>s
  <2>3. QED BY <2>1, <2>2
<1>2. ASSUME NEW t \in Thread, Unlock(t) PROVE Goal
  BY <1>2, <1>h DEF Unlock, UnlockThreadMutex
<1>3. ASSUME NEW t \in Thread, EventEnd(t) \/ SelfStep(t) PROVE Goal
  <2>1. Open(t) /\ Same(t) /\ exec' = exec
    BY <1>3 DEF EventEnd, SelfStep, ClosureReturn, Escape, SelfLook, SelfAdd, Pop
  <2>2. QED BY <2>1, <1>c, <1>s DEF Open
<1>4. ASSUME NEW t \in Thread, MaskedStep(t) PROVE Goal
  <2>1. runq # << >> /\ t = current /\ Same(t)
    BY <1>4 DEF MaskedStep, HandleEvent, Handling, In, SuspendReturn, ResumeReturn, UnblockReturn,
                LockLoop, EnterSuspend, ReleaseReturn, Release, ReleaseJoined, Die,
                DisassociateMutex, Push, Pop
  <2>2. exec[u] = "waiting" => stack'[u] = stack[u]
    BY <2>1, <1>c, <1>s
  <2>3. CASE SuspendReturn(t)
    <3>1. CASE Top(t).any
      BY <2>2, <2>3, <3>1 DEF SuspendReturn
    <3>2. CASE ~Top(t).any
      <4>1. exec' = [exec EXCEPT ![t] = "waiting"]
        BY <2>3, <3>2 DEF SuspendReturn, NotRunning
      <4>2. u # t => exec'[u] = exec[u]
        BY <4>1 DEF TypeOK
      <4>3. QED BY <2>2, <2>3, <3>2, <4>2
    <3>3. QED BY <3>1, <3>2
  <2>4. CASE Release(t)
    <3>1. PICK r \in todo : Wake(r[2])
      BY <2>4 DEF Release
    <3>t. todo \subseteq Thread \X Thread \X Event
      BY DEF TypeOK
    <3>2. r[2] \in Thread
      BY <3>t, SMT
    <3>3. QED BY <2>2, <3>1, <3>2, <1>w
  <2>5. CASE DisassociateMutex(t)
    BY <2>2, <2>5, <1>h, <1>e DEF DisassociateMutex
  <2>6. CASE Die(t)
    BY <2>2, <2>6, <1>e DEF Die, NotRunning
  <2>7. QED BY <1>4, <2>2, <2>3, <2>4, <2>5, <2>6, <1>e
     DEF MaskedStep, HandleEvent, ResumeReturn, UnblockReturn, LockLoop, ReleaseReturn,
         ReleaseJoined
<1>5. ASSUME Interrupt PROVE Goal
  <2>1. CASE DeliverTimerEvent
    <3>1. PICK r \in Thread \X Closure : Wake(r[1]) /\ stack' = stack
      BY <2>1 DEF DeliverTimerEvent, TypeOK
    <3>2. r[1] \in Thread
      OBVIOUS
    <3>3. QED BY <3>1, <3>2, <1>w
  <2>2. CASE TimerEnd
    <3>1. exec' = exec /\ (stack' = stack \/ (runq # << >> /\ Same(current)))
      BY <2>2 DEF TimerEnd, Push
    <3>2. QED BY <3>1, <1>c, <1>s
  <2>3. QED BY <1>5, <2>1, <2>2 DEF Interrupt, TimerInterrupt, AllowEnd
<1>6. ASSUME Idle PROVE Goal
  BY <1>6, <1>w DEF Idle, SignalFromIdle, SignalEvent
<1>7. QED BY <1>1, <1>2, <1>3, <1>4, <1>5, <1>6 DEF Next

\* No step of thread.scm, nor the timer, lets a thread sleep on its own mutex.
LEMMA SleepNext ==
  ASSUME TypeOK, ControlInv, RunQueueExact, NoLostWakeup, FramesInv, SleepInv, Next
  PROVE  SleepInv'
<1> SUFFICES ASSUME NEW u \in Thread
             PROVE  /\ OpOf(stack'[u]) = "suspend" /\ Granted(u)'
                         => Top(u)'.any \/ pending'[u] # << >>
                    /\ exec'[u] = "waiting" => ~Granted(u)'
  BY DEF SleepInv
<1>i. /\ OpOf(stack[u]) = "suspend" /\ Granted(u) => Top(u).any \/ pending[u] # << >>
      /\ exec[u] = "waiting" => ~Granted(u)
  BY DEF SleepInv
<1>g. ASSUME stack'[u] = stack[u], Granted(u)'
      PROVE  \/ Granted(u) \/ Program(u)
             \/ pending'[u] # << >> /\ exec'[u] # "waiting"
  <2> DEFINE m == Head(Tail(stack[u])).mutex
  <2>1. stack[u] # << >> /\ OpOf(Tail(stack[u])) = "lock" /\ owner'[m] = u
    BY <1>g DEF Granted
  <2>2. m \in Mutex
    <3>1. Tail(stack[u]) \in Seq(HeldFrame(u)) /\ Tail(stack[u]) # << >>
      <4>1. stack[u] \in Seq(HeldFrame(u))
        BY DEF FramesInv
      <4>2. QED BY <2>1, <4>1, HeadTailProperties DEF OpOf
    <3>2. Head(Tail(stack[u])) \in HeldFrame(u) /\ Head(Tail(stack[u])).op = "lock"
      BY <2>1, <3>1, HeadTailProperties DEF OpOf
    <3>3. QED BY <3>2 DEF HeldFrame, Holds
  <2>3. PICK k \in Mutex : k = m
    BY <2>2
  <2> HIDE DEF m
  <2>4. \/ owner[k] = u \/ Program(u)
        \/ pending'[u] # << >> /\ exec'[u] # "waiting"
    BY <2>1, <2>3, OwnerGiven
  <2>5. QED BY <2>1, <2>3, <2>4 DEF Granted, m
<1>1. ASSUME OpOf(stack'[u]) = "suspend", Granted(u)' PROVE Top(u)'.any \/ pending'[u] # << >>
  <2>1. CASE stack'[u] # stack[u]
    BY <1>1, <2>1, SuspendTops
  <2>2. CASE stack'[u] = stack[u]
    <3>1. OpOf(stack[u]) = "suspend" /\ Top(u)' = Top(u) /\ ~Program(u)
      BY <1>1, <2>2 DEF Program, Top
    <3>2. CASE ~Granted(u)
      BY <1>1, <1>g, <2>2, <3>1, <3>2
    <3>3. CASE Top(u).any
      BY <3>1, <3>3
    <3>4. CASE Granted(u) /\ ~Top(u).any
      <4>1. pending[u] # << >>
        BY <1>i, <3>1, <3>4
      <4>2. ASSUME HandleEvent(u) PROVE Top(u)'.any \/ OpOf(stack'[u]) = "closure"
        <5> DEFINE f == [Top(u) EXCEPT !.any = TRUE]
                   c == MkFrame("closure", block[u])
        <5>1. /\ stack[u] # << >> /\ Top(u) \in Frame /\ Tail(stack[u]) \in Seq(Frame)
          BY <3>1, StackTypes DEF TypeOK, Top
        <5>2. f \in Frame /\ f.any /\ c \in Frame /\ c.op = "closure"
          <6>1. f \in Frame /\ f.any
            BY <5>1, FrameTypes DEF Frame
          <6>2. block[u] \in Block /\ "closure" \in OpenOps
            BY DEF TypeOK, OpenOps
          <6>3. c \in Frame /\ c.op = "closure"
            BY <6>2, FrameTypes DEF MkFrame
          <6>4. QED BY <6>1, <6>3
        <5>3. \/ stack' = [stack EXCEPT ![u] = <<f>> \o Tail(stack[u])]
              \/ stack' = [stack EXCEPT ![u] = <<c>> \o (<<f>> \o Tail(stack[u]))]
          BY <4>2 DEF HandleEvent
        <5> HIDE DEF f, c
        <5>4. <<f>> \o Tail(stack[u]) \in Seq(Frame)
          BY <5>1, <5>2, StackTypes
        <5>5. /\ \/ stack'[u] = <<f>> \o Tail(stack[u])
                 \/ stack'[u] = <<c>> \o (<<f>> \o Tail(stack[u]))
              /\ Head(<<f>> \o Tail(stack[u])) = f
              /\ OpOf(<<c>> \o (<<f>> \o Tail(stack[u]))) = c.op
          BY <5>1, <5>2, <5>3, <5>4, Pushed DEF TypeOK
        <5>6. QED BY <5>2, <5>5 DEF Top
      <4>3. QED BY <1>1, <3>1, <4>1, <4>2, PendingKept
    <3>5. QED BY <3>2, <3>3, <3>4
  <2>3. QED BY <2>1, <2>2
<1>2. ASSUME exec'[u] = "waiting", Granted(u)' PROVE FALSE
  <2>1. CASE exec[u] = "waiting"
    <3>1. stack'[u] = stack[u]
      BY <2>1, WaitingNext
    <3>2. ~Program(u)
      BY <2>1, CurrentRunning DEF Program, Open, Running
    <3>3. QED BY <1>2, <1>i, <1>g, <2>1, <3>1, <3>2
  <2>2. CASE exec[u] # "waiting"
    <3>1. SuspendReturn(u) /\ ~Top(u).any
      BY <1>2, <2>2, WaitingNext
    <3>2. /\ OpOf(stack[u]) = "suspend" /\ pending[u] = << >> /\ owner' = owner
          /\ stack' = [stack EXCEPT ![u] = <<MkFrame("resume", "no")>> \o Tail(stack[u])]
      BY <3>1 DEF SuspendReturn, In, locks
    <3>3. stack[u] # << >> /\ Tail(stack[u]) \in Seq(Frame)
      BY <3>2, StackTypes DEF TypeOK
    <3>4. Tail(stack'[u]) = Tail(stack[u])
      <4>1. stack'[u] = <<MkFrame("resume", "no")>> \o Tail(stack[u])
        BY <3>2 DEF TypeOK
      <4>2. \A f, q : q \in Seq(Frame) => Tail(<<f>> \o q) = q
        BY SMT
      <4>3. QED BY <3>3, <4>1, <4>2
    <3>5. Granted(u)
      BY <1>2, <3>2, <3>3, <3>4 DEF Granted
    <3>6. QED BY <1>i, <3>1, <3>2, <3>5
  <2>3. QED BY <2>1, <2>2
<1>3. QED BY <1>1, <1>2

\* A thread asleep in %lock-thread-mutex is in the mutex's queue, so that the
\* hand-over that makes it the owner is still to come and will wake it, unless
\* an event locks the mutex that the thread it interrupts waits for.
THEOREM SleepersCorrect ==
  ASSUME "relock" \notin Ops
  PROVE  Spec => []SleepersQueued
<1>1. Init => FramesInv /\ SleepInv
  <2>1. ASSUME Init, NEW t \in Thread PROVE stack[t] = << >> /\ exec[t] # "waiting"
    BY <2>1 DEF Init
  <2>2. \A S : << >> \in Seq(S)
    BY SMT
  <2>3. OpOf(<< >>) = "program"
    BY DEF OpOf
  <2>4. QED BY <2>1, <2>2, <2>3 DEF FramesInv, SleepInv
<1>2. TypeOK /\ ControlInv /\ RunQueueExact /\ MutexesSound /\ NoLostWakeup /\ FramesInv
        /\ SleepInv /\ [Next]_vars => FramesInv' /\ SleepInv'
  <2> SUFFICES ASSUME TypeOK, ControlInv, RunQueueExact, MutexesSound, NoLostWakeup, FramesInv,
                      SleepInv, [Next]_vars
               PROVE  FramesInv' /\ SleepInv'
    OBVIOUS
  <2>1. CASE Next
    BY <2>1, FramesNext, SleepNext
  <2>2. CASE UNCHANGED vars
    BY <2>2 DEF vars, kernel, events, locks, FramesInv, SleepInv, HeldFrame, Holds, Granted, Top
  <2>3. QED BY <2>1, <2>2
<1>3. FramesInv /\ SleepInv => SleepersQueued
  <2> SUFFICES ASSUME FramesInv, SleepInv, NEW t \in Thread, NEW m \in Mutex, exec[t] = "waiting",
                      Len(stack[t]) > 1, stack[t][2] = LockFrame(m)
               PROVE  t \in Range(waiters[m])
    BY DEF SleepersQueued
  <2>1. stack[t] \in Seq(HeldFrame(t)) /\ ~Granted(t)
    BY DEF FramesInv, SleepInv
  <2>2. /\ stack[t] # << >> /\ Tail(stack[t]) # << >> /\ Head(Tail(stack[t])) = stack[t][2]
        /\ 2 \in DOMAIN stack[t]
    BY <2>1, SMT
  <2>3. stack[t][2] \in HeldFrame(t)
    BY <2>1, <2>2, SMT
  <2>4. stack[t][2].op = "lock" /\ stack[t][2].mutex = m
    BY DEF LockFrame, MkFrame
  <2>5. Holds(t, m) /\ owner[m] # t
    BY <2>1, <2>2, <2>3, <2>4 DEF HeldFrame, Granted, OpOf
  <2>6. QED BY <2>5 DEF Holds
<1>4. ControlSound => ControlInv
  BY DEF ControlInv, ControlSound
<1>5. QED BY <1>1, <1>2, <1>3, <1>4, TypeCorrect, ControlCorrect, RunQueueCorrect, MutexesCorrect,
             WakeupCorrect, PTL DEF Spec

=============================================================================
