--------------------------- MODULE ThreadsProofs ---------------------------
(***************************************************************************)
(* Proofs about Threads: type correctness, the run queue and the mutexes;  *)
(* and the control state: a masked section is never interrupted,           *)
(* activations nest as the code's calls do, a thread that lost the         *)
(* processor has a continuation, and none sleeps on an event.              *)
(***************************************************************************)
EXTENDS Threads, QueueLemmas

\* Zenon finds most of the steps; those that need more are marked SMT.
USE Zenon

-----------------------------------------------------------------------------
(* Type correctness                                                        *)

\* Stacks stay stacks: pushing a frame, popping one, replacing the top.
LEMMA StackTypes ==
  ASSUME NEW s \in Seq(Frame)
  PROVE  /\ \A f \in Frame : <<f>> \o s \in Seq(Frame)
         /\ OpOf(s) # "program" => /\ s # << >>
                                   /\ Head(s) \in Frame
                                   /\ Tail(s) \in Seq(Frame)
                                   /\ \A f \in Frame : <<f>> \o Tail(s) \in Seq(Frame)
<1>1. \A q \in Seq(Frame), f \in Frame : <<f>> \o q \in Seq(Frame)
  BY ConcatProperties, SMT
<1>2. s # << >> => Head(s) \in Frame /\ Tail(s) \in Seq(Frame)
  BY HeadTailProperties
<1>3. QED BY <1>1, <1>2 DEF OpOf

\* The frames the actions push are frames.
LEMMA FrameTypes ==
  /\ \A o \in OpenOps \cup MaskedOps, b \in Block : MkFrame(o, b) \in Frame
  /\ \A m \in Mutex : LockFrame(m) \in Frame
  /\ \A b \in Block, e \in Event : [MkFrame("self", b) EXCEPT !.event = e] \in Frame
  /\ \A f \in Frame : [f EXCEPT !.any = TRUE] \in Frame
  /\ \A f \in Frame, o \in OpenOps : [f EXCEPT !.op = o] \in Frame
BY DEF MkFrame, LockFrame, Frame, Event, Block, OpenOps, SelfOps, MaskedOps

\* Queues of one element.
LEMMA SingletonSeq ==
  ASSUME NEW S, NEW e \in S
  PROVE  <<e>> \in Seq(S)
BY SMT

\* The ring of pending events.
LEMMA AddEventType ==
  ASSUME NEW q \in Seq(Event), NEW e \in Event
  PROVE  AddEvent(q, e) \in Seq(Event)
<1>1. <<e>> \in Seq(Event) /\ Append(q, e) \in Seq(Event)
  BY SingletonSeq, AppendProperties
<1>2. QED BY <1>1 DEF AddEvent

\* The state after initialize-package! has its type.
LEMMA TypeInit == Init => TypeOK
<1> SUFFICES ASSUME Init PROVE TypeOK
  OBVIOUS
<1>1. runq \in Seq(Thread)
  BY SingletonSeq, ConstantsAssumption DEF Init
<1>2. \A S : << >> \in Seq(S)
  BY EmptySeq
<1>3. QED BY <1>1, <1>2, ConstantsAssumption DEF Init, TypeOK, Running, Block

\* What the helpers of the actions do to the types.
LEMMA PushType ==
  ASSUME TypeOK, NEW t \in Thread, NEW f \in Frame, Push(t, f)
  PROVE  stack' \in [Thread -> Seq(Frame)]
<1>1. <<f>> \o stack[t] \in Seq(Frame)
  BY StackTypes DEF TypeOK
<1>2. QED BY <1>1 DEF TypeOK, Push

\* An operation returns.
LEMMA PopType ==
  ASSUME TypeOK, NEW t \in Thread, OpOf(stack[t]) # "program", Pop(t)
  PROVE  stack' \in [Thread -> Seq(Frame)]
<1>1. Tail(stack[t]) \in Seq(Frame)
  BY StackTypes DEF TypeOK
<1>2. QED BY <1>1 DEF TypeOK, Pop

\* An operation goes on to its next step.
LEMMA ReplaceType ==
  ASSUME TypeOK, NEW t \in Thread, NEW f \in Frame, OpOf(stack[t]) # "program",
         stack' = [stack EXCEPT ![t] = <<f>> \o Tail(stack[t])]
  PROVE  stack' \in [Thread -> Seq(Frame)]
<1>1. <<f>> \o Tail(stack[t]) \in Seq(Frame)
  BY StackTypes DEF TypeOK
<1>2. QED BY <1>1 DEF TypeOK

\* A signalled thread is put at the end of the run queue.
LEMMA WakeType ==
  ASSUME TypeOK, NEW u \in Thread, Wake(u)
  PROVE  /\ exec' \in [Thread -> Running \cup {"unborn", "waiting", "stopped", "dead"}]
         /\ runq' \in Seq(Thread)
<1>1. Append(runq, u) \in Seq(Thread)
  BY AppendProperties DEF TypeOK
<1>2. QED BY <1>1 DEF TypeOK, Wake, Running

\* An event is added to the ring of a thread.
LEMMA PendingType ==
  ASSUME TypeOK, NEW u \in Thread, NEW e \in Event,
         pending' = [pending EXCEPT ![u] = AddEvent(pending[u], e)]
  PROVE  pending' \in [Thread -> Seq(Event)]
<1>1. AddEvent(pending[u], e) \in Seq(Event)
  BY AddEventType DEF TypeOK
<1>2. QED BY <1>1 DEF TypeOK

\* The history of the closures sent to a thread grows by one.
LEMMA SentType ==
  ASSUME TypeOK, NEW u \in Thread, NEW e \in Event,
         sent' = [sent EXCEPT ![u] = IF e = NoEvent THEN sent[u] ELSE Append(sent[u], e)]
  PROVE  sent' \in [Thread -> Seq(Closure)]
<1>1. e # NoEvent => Append(sent[u], e) \in Seq(Closure)
  BY AppendProperties DEF TypeOK, Event
<1>2. QED BY <1>1 DEF TypeOK

\* add-thread-mutex! and remove-thread-mutex! change the number of entries by one.
LEMMA CountType ==
  ASSUME TypeOK, NEW t \in Thread, NEW m \in Mutex,
         \/ mutexes' = [mutexes EXCEPT ![t][m] = mutexes[t][m] + 1]
         \/ mutexes[t][m] > 0 /\ mutexes' = [mutexes EXCEPT ![t][m] = mutexes[t][m] - 1]
  PROVE  mutexes' \in [Thread -> [Mutex -> Nat]]
<1>1. mutexes[t] \in [Mutex -> Nat] /\ mutexes[t][m] \in Nat
  BY SMT DEF TypeOK
<1>2. PICK n \in Nat : mutexes' = [mutexes EXCEPT ![t][m] = n]
  BY <1>1, SMT
<1>3. QED BY <1>1, <1>2 DEF TypeOK

\* What thread-not-running and yield-thread take from the run queue.
LEMMA QueueTypes ==
  ASSUME TypeOK, runq # << >>
  PROVE  /\ current \in Thread
         /\ Tail(runq) \in Seq(Thread)
         /\ Append(Tail(runq), Head(runq)) \in Seq(Thread)
<1>1. Head(runq) \in Thread /\ Tail(runq) \in Seq(Thread)
  BY HeadTailProperties DEF TypeOK
<1>2. QED BY <1>1, AppendProperties DEF current

\* %%unlock-thread-mutex hands a mutex over to its first waiter.
LEMMA HandOffType ==
  ASSUME TypeOK, NEW m \in Mutex, HandOff(m)
  PROVE  /\ exec' \in [Thread -> Running \cup {"unborn", "waiting", "stopped", "dead"}]
         /\ runq' \in Seq(Thread)
         /\ pending' \in [Thread -> Seq(Event)]
         /\ owner' \in [Mutex -> Thread \cup {NoThread}]
         /\ waiters' \in [Mutex -> Seq(Thread)]
<1>1. CASE waiters[m] = << >>
  BY <1>1 DEF TypeOK, HandOff
<1>2. CASE waiters[m] # << >>
  <2>1. Head(waiters[m]) \in Thread /\ Tail(waiters[m]) \in Seq(Thread)
    BY <1>2, HeadTailProperties DEF TypeOK
  <2>2. NoEvent \in Event
    BY DEF Event
  <2>3. SignalNone(Head(waiters[m]))
    BY <1>2 DEF HandOff
  <2>4. /\ exec' \in [Thread -> Running \cup {"unborn", "waiting", "stopped", "dead"}]
        /\ runq' \in Seq(Thread)
    BY <2>1, <2>3, WakeType DEF SignalNone
  <2>5. pending' \in [Thread -> Seq(Event)]
    BY <2>1, <2>2, <2>3, PendingType DEF SignalNone
  <2>6. QED BY <1>2, <2>1, <2>4, <2>5 DEF TypeOK, HandOff
<1>3. QED BY <1>1, <1>2

\* Every operation of the program preserves the types.
LEMMA TypeProgram ==
  ASSUME TypeOK, NEW t \in Thread, ProgramStep(t) \/ Unlock(t)
  PROVE  TypeOK'
<1> USE DEF kernel, events, locks, joins
<1>f. /\ MkFrame("resume", "no") \in Frame /\ MkFrame("unblock", "no") \in Frame
      /\ MkFrame("release", "no") \in Frame /\ MkFrame("exit", "yes") \in Frame
      /\ MkFrame("suspend", block[t]) \in Frame /\ MkFrame("allow", block[t]) \in Frame
      /\ block[t] \in Block
  BY FrameTypes DEF TypeOK, MaskedOps, Block
<1>1. ASSUME NEW u \in Thread, CreateThread(t, u) PROVE TypeOK'
  <2>1. stack' \in [Thread -> Seq(Frame)]
    BY <1>1, <1>f, SingletonSeq DEF TypeOK, CreateThread
  <2>2. runq' \in Seq(Thread)
    BY <1>1, AppendProperties DEF TypeOK, CreateThread
  <2>3. QED BY <1>1, <2>1, <2>2 DEF TypeOK, CreateThread, Running
<1>2. ASSUME NEW u \in Thread, DetachThread(t, u) PROVE TypeOK'
  <2>1. stack' \in [Thread -> Seq(Frame)]
    BY <1>2, <1>f, PushType DEF DetachThread
  <2>2. todo' \subseteq Thread \X Thread \X Event
    BY <1>2, SMT DEF TypeOK, DetachThread, Releases
  <2>3. QED BY <1>2, <2>1, <2>2 DEF TypeOK, DetachThread
<1>3. CASE YieldCurrentThread(t)
  <2>1. stack' \in [Thread -> Seq(Frame)]
    BY <1>3, <1>f, PushType DEF YieldCurrentThread
  <2>2. runq' \in Seq(Thread)
    BY <1>3, QueueTypes DEF YieldCurrentThread, Rotate, Program, Open
  <2>3. QED BY <1>3, <2>1, <2>2 DEF TypeOK, YieldCurrentThread, Running
<1>4. CASE StopCurrentThread(t)
  <2>1. stack' \in [Thread -> Seq(Frame)]
    BY <1>4, <1>f, PushType DEF StopCurrentThread
  <2>2. runq' \in Seq(Thread)
    BY <1>4, QueueTypes DEF StopCurrentThread, NotRunning, Program, Open
  <2>3. QED BY <1>4, <2>1, <2>2 DEF TypeOK, StopCurrentThread, NotRunning, Running
<1>5. CASE SuspendCurrentThread(t)
  <2>1. stack' \in [Thread -> Seq(Frame)]
    BY <1>5, <1>f, PushType DEF SuspendCurrentThread, EnterSuspend
  <2>2. QED BY <1>5, <2>1 DEF TypeOK, SuspendCurrentThread, EnterSuspend, Block
<1>6. ASSUME NEW state \in Running, SetPreempt(t, state) PROVE TypeOK'
  BY <1>6 DEF TypeOK, SetPreempt
<1>7. ASSUME NEW u \in Thread, NEW d \in BOOLEAN, NEW e \in Event,
             RestartThread(t, u, d, e)
      PROVE  TypeOK'
  <2> DEFINE kept == IF d THEN << >> ELSE pending[u]
             sentKept == IF d THEN ran[u] ELSE sent[u]
  <2>1. kept \in Seq(Event) /\ sentKept \in Seq(Closure)
    BY EmptySeq DEF TypeOK
  <2>2. AddEvent(kept, e) \in Seq(Event)
    BY <2>1, AddEventType
  <2>3. e # NoEvent => Append(sentKept, e) \in Seq(Closure)
    BY <2>1, AppendProperties DEF Event
  <2>4. \/ /\ pending' = [pending EXCEPT ![u] = kept]
           /\ sent' = [sent EXCEPT ![u] = sentKept]
           /\ unused' = unused
        \/ /\ pending' = [pending EXCEPT ![u] = AddEvent(kept, e)]
           /\ sent' = [sent EXCEPT ![u] = Append(sentKept, e)]
           /\ unused' = unused \ {e} /\ e # NoEvent
    BY <1>7 DEF RestartThread
  <2> HIDE DEF kept, sentKept
  <2>5. /\ pending' \in [Thread -> Seq(Event)] /\ sent' \in [Thread -> Seq(Closure)]
        /\ unused' \subseteq Closure
    <3>1. pending' \in [Thread -> Seq(Event)]
      <4>1. pending \in [Thread -> Seq(Event)]
        BY DEF TypeOK
      <4>2. \E q \in Seq(Event) : pending' = [pending EXCEPT ![u] = q]
        BY <2>1, <2>2, <2>4
      <4>3. QED BY <4>1, <4>2
    <3>2. sent' \in [Thread -> Seq(Closure)]
      BY <2>1, <2>3, <2>4 DEF TypeOK
    <3>3. unused' \subseteq Closure
      BY <2>4 DEF TypeOK
    <3>4. QED BY <3>1, <3>2, <3>3
  <2>6. runq' \in Seq(Thread)
    BY <1>7, AppendProperties DEF TypeOK, RestartThread
  <2>7. QED BY <1>7, <2>5, <2>6 DEF TypeOK, RestartThread, Running
<1>8. CASE BlockThreadEvents(t)
  BY <1>8 DEF TypeOK, BlockThreadEvents, Block
<1>9. CASE UnblockThreadEvents(t)
  <2>1. stack' \in [Thread -> Seq(Frame)]
    BY <1>9, <1>f, PushType DEF UnblockThreadEvents
  <2>2. QED BY <1>9, <2>1 DEF TypeOK, UnblockThreadEvents
<1>10. CASE AllowThreadEventDelivery(t)
  <2>1. stack' \in [Thread -> Seq(Frame)]
    BY <1>10, <1>f, PushType DEF AllowThreadEventDelivery
  <2>2. QED BY <1>10, <2>1 DEF TypeOK, AllowThreadEventDelivery, Block
<1>11. ASSUME NEW u \in Thread, NEW e \in Event, SignalThreadEvent(t, u, e)
       PROVE  TypeOK'
  <2>1. /\ exec' \in [Thread -> Running \cup {"unborn", "waiting", "stopped", "dead"}]
        /\ runq' \in Seq(Thread)
    BY <1>11, WakeType DEF SignalThreadEvent, SignalEvent
  <2>2. pending' \in [Thread -> Seq(Event)] /\ sent' \in [Thread -> Seq(Closure)]
    BY <1>11, PendingType, SentType DEF SignalThreadEvent, SignalEvent, Sent
  <2>3. QED BY <1>11, <2>1, <2>2 DEF TypeOK, SignalThreadEvent, SignalEvent, Sent
<1>12. ASSUME NEW u \in Thread, NEW e \in Event, JoinThread(t, u, e)
       PROVE  TypeOK'
  BY <1>12, SMT DEF TypeOK, JoinThread
<1>13. ASSUME NEW u \in Thread, NEW e \in Event, JoinExited(t, u, e)
       PROVE  TypeOK'
  <2>1. pending' \in [Thread -> Seq(Event)] /\ sent' \in [Thread -> Seq(Closure)]
    BY <1>13, PendingType, SentType DEF JoinExited, Sent
  <2>2. stack' \in [Thread -> Seq(Frame)]
    BY <1>13, <1>f, PushType DEF TypeOK, JoinExited
  <2>3. QED BY <1>13, <2>1, <2>2 DEF TypeOK, JoinExited, Sent, Block
<1>14. ASSUME NEW e \in Event, SignalSelf(t, e) PROVE TypeOK'
  <2>1. stack' \in [Thread -> Seq(Frame)]
    BY <1>14, <1>f, FrameTypes, PushType DEF SignalSelf
  <2>2. QED BY <1>14, <2>1 DEF TypeOK, SignalSelf, Block
<1>15. ASSUME NEW e \in Event, RegisterTimerEvent(t, e) PROVE TypeOK'
  <2>1. e \in Closure /\ timers' = timers \cup {<<t, e>>}
    BY <1>15 DEF TypeOK, RegisterTimerEvent
  <2>2. timers' \subseteq Thread \X Closure
    BY <2>1, SMT DEF TypeOK
  <2>3. QED BY <1>15, <2>2 DEF TypeOK, RegisterTimerEvent
<1>16. CASE DeregisterAllEvents(t)
  <2>1. pending' \in [Thread -> Seq(Event)] /\ sent' \in [Thread -> Seq(Closure)]
    BY <1>16, EmptySeq DEF TypeOK, DeregisterAllEvents
  <2>2. QED BY <1>16, <2>1 DEF TypeOK, DeregisterAllEvents
<1>17. ASSUME NEW m \in Mutex, LockThreadMutex(t, m) PROVE TypeOK'
  <2>1. LockFrame(m) \in Frame
    BY FrameTypes
  <2>2. stack' \in [Thread -> Seq(Frame)]
    BY <1>17, <2>1, PushType DEF TypeOK, LockThreadMutex
  <2>3. Append(waiters[m], t) \in Seq(Thread)
    BY AppendProperties DEF TypeOK
  <2>4. waiters' \in [Mutex -> Seq(Thread)]
    BY <1>17, <2>3 DEF TypeOK, LockThreadMutex
  <2>5. mutexes' \in [Thread -> [Mutex -> Nat]]
    BY <1>17, CountType DEF LockThreadMutex
  <2>6. owner' \in [Mutex -> Thread \cup {NoThread}] /\ mode' \in {"open", "masked", "timer", "allow"}
    BY <1>17 DEF TypeOK, LockThreadMutex
  <2>7. UNCHANGED <<exec, runq, events, joins, timers>>
    BY <1>17 DEF LockThreadMutex
  <2>8. QED BY <2>2, <2>4, <2>5, <2>6, <2>7 DEF TypeOK, events, joins
<1>18. ASSUME NEW m \in Mutex, TryLockThreadMutex(t, m) PROVE TypeOK'
  <2>1. mutexes' \in [Thread -> [Mutex -> Nat]]
    BY <1>18, CountType DEF TryLockThreadMutex
  <2>2. QED BY <1>18, <2>1 DEF TypeOK, TryLockThreadMutex
<1>19. CASE ExitCurrentThread(t)
  <2>1. stack' \in [Thread -> Seq(Frame)]
    BY <1>19, <1>f, SingletonSeq DEF TypeOK, ExitCurrentThread
  <2>2. pending' \in [Thread -> Seq(Event)] /\ sent' \in [Thread -> Seq(Closure)]
    BY <1>19, EmptySeq DEF TypeOK, ExitCurrentThread
  <2>3. joined' \in [Thread -> SUBSET (Thread \X Event)]
    BY <1>19 DEF TypeOK, ExitCurrentThread
  <2>4. QED BY <1>19, <2>1, <2>2, <2>3 DEF TypeOK, ExitCurrentThread, Block
<1>20. ASSUME NEW m \in Mutex, UnlockThreadMutex(t, m) PROVE TypeOK'
  <2>1. HandOff(m) /\ mutexes' = [mutexes EXCEPT ![t][m] = 0]
    BY <1>20 DEF UnlockThreadMutex
  <2>2. mutexes' \in [Thread -> [Mutex -> Nat]]
    BY <2>1 DEF TypeOK
  <2>3. QED BY <1>20, <2>1, <2>2, HandOffType DEF TypeOK, UnlockThreadMutex
<1>21. QED
  BY <1>1, <1>2, <1>3, <1>4, <1>5, <1>6, <1>7, <1>8, <1>9, <1>10, <1>11, <1>12,
     <1>13, <1>14, <1>15, <1>16, <1>17, <1>18, <1>19, <1>20
     DEF ProgramStep, Unlock

\* Every masked step, and the end of an event or a self signal, preserves the
\* types.
LEMMA TypeMasked ==
  ASSUME TypeOK, NEW t \in Thread, MaskedStep(t) \/ EventEnd(t) \/ SelfStep(t)
  PROVE  TypeOK'
<1> USE DEF kernel, events, locks, joins
<1>f. /\ MkFrame("resume", "no") \in Frame /\ MkFrame("unblock", "no") \in Frame
      /\ MkFrame("die", "yes") \in Frame
      /\ MkFrame("suspend", block[t]) \in Frame /\ MkFrame("closure", block[t]) \in Frame
      /\ block[t] \in Block
  BY FrameTypes DEF TypeOK, MaskedOps, OpenOps, Block
<1>m. ModeBelow(t) \in {"open", "masked"}
  BY DEF ModeBelow
<1>t. OpOf(stack[t]) # "program" =>
        /\ Top(t) \in Frame /\ Top(t).saved \in Block /\ Top(t).event \in Event
        /\ [Top(t) EXCEPT !.any = TRUE] \in Frame
        /\ \A o \in OpenOps : [Top(t) EXCEPT !.op = o] \in Frame
  <2>1. OpOf(stack[t]) # "program" => Top(t) \in Frame
    BY StackTypes DEF TypeOK, Top
  <2>2. \A f \in Frame : f.saved \in Block /\ f.event \in Event
    BY DEF Frame
  <2>3. QED BY <2>1, <2>2, FrameTypes
<1>1. CASE HandleEvent(t)
  <2> DEFINE top == [Top(t) EXCEPT !.any = TRUE]
             rest == <<top>> \o Tail(stack[t])
             c == MkFrame("closure", block[t])
  <2>1. OpOf(stack[t]) # "program"
    BY <1>1 DEF HandleEvent, Handling, In
  <2>2. top \in Frame
    BY <2>1, <1>t
  <2>3. rest \in Seq(Frame)
    BY <2>1, <2>2, StackTypes DEF TypeOK
  <2>4. <<c>> \o rest \in Seq(Frame)
    BY <2>3, <1>f, StackTypes
  <2>5. \/ stack' = [stack EXCEPT ![t] = rest]
        \/ stack' = [stack EXCEPT ![t] = <<c>> \o rest]
    BY <1>1 DEF HandleEvent
  <2> HIDE DEF rest, c
  <2>6. stack' \in [Thread -> Seq(Frame)]
    BY <2>3, <2>4, <2>5 DEF TypeOK
  <2>7. Head(pending[t]) \in Event /\ Tail(pending[t]) \in Seq(Event)
    BY <1>1, HeadTailProperties DEF TypeOK, HandleEvent
  <2>8. pending' \in [Thread -> Seq(Event)]
    BY <1>1, <2>7 DEF TypeOK, HandleEvent
  <2>9. Head(pending[t]) # NoEvent => Append(ran[t], Head(pending[t])) \in Seq(Closure)
    BY <2>7, AppendProperties DEF TypeOK, Event
  <2>10. ran' \in [Thread -> Seq(Closure)]
    BY <1>1, <2>9 DEF TypeOK, HandleEvent
  <2>11. block' \in [Thread -> Block] /\ mode' \in {"open", "masked", "timer", "allow"}
    BY <1>1 DEF TypeOK, HandleEvent, Block
  <2>12. QED BY <1>1, <2>6, <2>8, <2>10, <2>11 DEF TypeOK, HandleEvent
<1>2. CASE SuspendReturn(t)
  <2>1. OpOf(stack[t]) # "program" /\ runq # << >>
    BY <1>2 DEF SuspendReturn, In
  <2>2. stack' \in [Thread -> Seq(Frame)]
    BY <1>2, <2>1, <1>f, PopType, ReplaceType DEF SuspendReturn
  <2>3. runq' \in Seq(Thread)
    BY <1>2, <2>1, QueueTypes DEF TypeOK, SuspendReturn, NotRunning
  <2>4. QED BY <1>2, <2>1, <2>2, <2>3, <1>m, <1>t DEF TypeOK, SuspendReturn, NotRunning
<1>3. CASE ResumeReturn(t)
  <2>1. OpOf(stack[t]) # "program"
    BY <1>3 DEF ResumeReturn, In
  <2>2. stack' \in [Thread -> Seq(Frame)]
    BY <1>3, <2>1, PopType DEF ResumeReturn
  <2>3. QED BY <1>3, <2>2, <1>m DEF TypeOK, ResumeReturn, Block
<1>4. CASE UnblockReturn(t)
  <2>1. OpOf(stack[t]) # "program"
    BY <1>4 DEF UnblockReturn, In
  <2>2. stack' \in [Thread -> Seq(Frame)]
    BY <1>4, <2>1, PopType DEF UnblockReturn
  <2>3. QED BY <1>4, <2>1, <2>2, <1>m, <1>t DEF TypeOK, UnblockReturn
<1>5. CASE LockLoop(t)
  <2>1. OpOf(stack[t]) # "program"
    BY <1>5 DEF LockLoop, In
  <2>2. stack' \in [Thread -> Seq(Frame)]
    BY <1>5, <2>1, <1>f, PopType, PushType DEF LockLoop, EnterSuspend
  <2>3. QED BY <1>5, <2>2, <1>m DEF TypeOK, LockLoop, EnterSuspend, Block
<1>6. CASE Release(t)
  <2>1. PICK u \in Thread, j \in Thread, e \in Event :
           /\ joinedTo' = [joinedTo EXCEPT ![j] = joinedTo[j] \ {u}]
           /\ pending' = [pending EXCEPT ![j] = AddEvent(pending[j], e)]
           /\ sent' = [sent EXCEPT ![j] = IF e = NoEvent THEN sent[j] ELSE Append(sent[j], e)]
           /\ Wake(j)
    BY <1>6 DEF TypeOK, Release
  <2>2. todo' \subseteq Thread \X Thread \X Event
    BY <1>6 DEF TypeOK, Release
  <2>3. pending' \in [Thread -> Seq(Event)] /\ sent' \in [Thread -> Seq(Closure)]
    BY <2>1, PendingType, SentType
  <2>4. /\ exec' \in [Thread -> Running \cup {"unborn", "waiting", "stopped", "dead"}]
        /\ runq' \in Seq(Thread)
    BY <2>1, WakeType
  <2>5. joinedTo' \in [Thread -> SUBSET Thread]
    BY <2>1 DEF TypeOK
  <2>6. QED BY <1>6, <2>2, <2>3, <2>4, <2>5 DEF TypeOK, Release
<1>7. CASE ReleaseReturn(t)
  <2>1. stack' \in [Thread -> Seq(Frame)]
    BY <1>7, PopType DEF ReleaseReturn, In
  <2>2. QED BY <1>7, <2>1, <1>m DEF TypeOK, ReleaseReturn
<1>8. CASE DisassociateMutex(t)
  <2>1. PICK m \in Mutex :
          /\ mutexes[t][m] > 0
          /\ mutexes' = [mutexes EXCEPT ![t][m] = mutexes[t][m] - 1]
          /\ IF owner[m] = t
             THEN HandOff(m)
             ELSE /\ waiters' = [waiters EXCEPT ![m] = RemoveFirst(waiters[m], t)]
                  /\ UNCHANGED <<owner, pending, exec, runq>>
    BY <1>8 DEF DisassociateMutex
  <2>2. mutexes' \in [Thread -> [Mutex -> Nat]]
    BY <2>1, CountType
  <2>3. CASE owner[m] = t
    BY <1>8, <2>1, <2>2, <2>3, HandOffType DEF TypeOK, DisassociateMutex
  <2>4. CASE owner[m] # t
    <3>1. RemoveFirst(waiters[m], t) \in Seq(Thread)
      BY RangeOfRemove DEF TypeOK
    <3>2. waiters' \in [Mutex -> Seq(Thread)]
      BY <2>1, <2>4, <3>1 DEF TypeOK
    <3>3. QED BY <1>8, <2>1, <2>2, <2>4, <3>2 DEF TypeOK, DisassociateMutex
  <2>5. QED BY <2>3, <2>4
<1>9. CASE ReleaseJoined(t)
  <2>1. stack' \in [Thread -> Seq(Frame)]
    BY <1>9, <1>f, SingletonSeq DEF TypeOK, ReleaseJoined
  <2>2. todo' \subseteq Thread \X Thread \X Event
    BY <1>9, SMT DEF TypeOK, ReleaseJoined, Releases
  <2>3. QED BY <1>9, <2>1, <2>2 DEF TypeOK, ReleaseJoined
<1>10. CASE Die(t)
  <2>1. stack' \in [Thread -> Seq(Frame)]
    BY <1>10, PopType DEF Die, In
  <2>2. runq' \in Seq(Thread)
    BY <1>10, QueueTypes DEF Die, In, NotRunning
  <2>3. QED BY <1>10, <2>1, <2>2 DEF TypeOK, Die, NotRunning
<1>11. CASE ClosureReturn(t)
  <2>1. OpOf(stack[t]) # "program"
    BY <1>11 DEF ClosureReturn
  <2>2. stack' \in [Thread -> Seq(Frame)]
    BY <1>11, <2>1, PopType DEF ClosureReturn
  <2>3. QED BY <1>11, <2>1, <2>2, <1>t DEF TypeOK, ClosureReturn
<1>12. CASE Escape(t)
  <2>1. stack' \in [Thread -> Seq(Frame)]
    BY <1>12, <1>f, SingletonSeq DEF TypeOK, Escape
  <2>2. QED BY <1>12, <2>1 DEF TypeOK, Escape
<1>13. CASE SelfLook(t)
  <2>1. OpOf(stack[t]) # "program"
    BY <1>13 DEF SelfLook
  <2>2. PICK o \in OpenOps :
          stack' = [stack EXCEPT ![t] = <<[Top(t) EXCEPT !.op = o]>> \o Tail(stack[t])]
    BY <1>13 DEF SelfLook, OpenOps, SelfOps
  <2>3. stack' \in [Thread -> Seq(Frame)]
    BY <2>1, <2>2, <1>t, ReplaceType
  <2>4. QED BY <1>13, <2>3 DEF TypeOK, SelfLook
<1>14. CASE SelfAdd(t)
  <2> DEFINE e == Top(t).event
  <2>1. OpOf(stack[t]) # "program"
    BY <1>14 DEF SelfAdd
  <2>2. e \in Event
    BY <2>1, <1>t
  <2>3. stack' \in [Thread -> Seq(Frame)]
    BY <1>14, <2>1, <1>f, PopType, ReplaceType DEF SelfAdd
  <2>4. /\ Append(pending[t], e) \in Seq(Event)
        /\ pending[t] # << >> => <<e>> \o Tail(pending[t]) \in Seq(Event)
    <3>1. pending[t] \in Seq(Event) /\ <<e>> \in Seq(Event)
      BY <2>2, SingletonSeq DEF TypeOK
    <3>2. pending[t] # << >> => Tail(pending[t]) \in Seq(Event)
      BY <3>1, HeadTailProperties
    <3> HIDE DEF e
    <3>3. QED BY <3>1, <3>2, <2>2, AppendProperties, ConcatProperties
  <2>5. pending' \in [Thread -> Seq(Event)]
    <3>1. CASE Top(t).op = "enqueue"
      BY <1>14, <2>4, <3>1 DEF TypeOK, SelfAdd
    <3>2. CASE Top(t).op = "replace" /\ pending[t] # << >>
      BY <1>14, <2>4, <3>2 DEF TypeOK, SelfAdd
    <3>3. CASE /\ Top(t).op # "enqueue"
               /\ ~ (Top(t).op = "replace" /\ pending[t] # << >>)
      BY <1>14, <3>3 DEF TypeOK, SelfAdd
    <3>4. QED BY <3>1, <3>2, <3>3
  <2>6. sent' \in [Thread -> Seq(Closure)]
    BY <1>14, <2>2, SentType DEF SelfAdd
  <2>7. QED BY <1>14, <1>m, <2>3, <2>5, <2>6 DEF TypeOK, SelfAdd
<1>15. QED
  BY <1>1, <1>2, <1>3, <1>4, <1>5, <1>6, <1>7, <1>8, <1>9, <1>10, <1>11, <1>12,
     <1>13, <1>14 DEF MaskedStep, EventEnd, SelfStep

\* The interrupt handler and a signal that ends a wait for i/o preserve the
\* types.
LEMMA TypeInterrupt ==
  ASSUME TypeOK, Interrupt \/ Idle
  PROVE  TypeOK'
<1> USE DEF kernel, events, locks, joins
<1>1. CASE TimerInterrupt
  BY <1>1 DEF TypeOK, TimerInterrupt
<1>2. CASE DeliverTimerEvent
  <2>1. PICK r \in Thread \X Closure :
           /\ timers' = timers \ {r}
           /\ pending' = [pending EXCEPT ![r[1]] = AddEvent(pending[r[1]], r[2])]
           /\ sent' = [sent EXCEPT ![r[1]] = Append(sent[r[1]], r[2])]
           /\ Wake(r[1])
    BY <1>2 DEF TypeOK, DeliverTimerEvent
  <2>2. /\ r[1] \in Thread /\ r[2] \in Closure /\ r[2] \in Event
        /\ r[2] # NoEvent
    BY ConstantsAssumption DEF Event
  <2>3. pending' \in [Thread -> Seq(Event)] /\ sent' \in [Thread -> Seq(Closure)]
    BY <2>1, <2>2, PendingType, SentType
  <2>4. /\ exec' \in [Thread -> Running \cup {"unborn", "waiting", "stopped", "dead"}]
        /\ runq' \in Seq(Thread)
    BY <2>1, <2>2, WakeType
  <2>5. QED BY <1>2, <2>1, <2>3, <2>4 DEF TypeOK, DeliverTimerEvent
<1>3. CASE TimerEnd
  <2>1. CASE runq = << >> \/ OpOf(stack[current]) = "resume"
    BY <1>3, <2>1 DEF TypeOK, TimerEnd
  <2>2. CASE ~ (runq = << >> \/ OpOf(stack[current]) = "resume")
    <3>1. MkFrame("resume", "no") \in Frame
      BY FrameTypes DEF MaskedOps, Block
    <3>2. stack' \in [Thread -> Seq(Frame)]
      BY <1>3, <2>2, <3>1, PushType, QueueTypes DEF TimerEnd
    <3>3. runq' \in Seq(Thread)
      BY <1>3, <2>2, QueueTypes DEF TypeOK, TimerEnd, Rotate
    <3>4. QED BY <1>3, <3>2, <3>3 DEF TypeOK, TimerEnd
  <2>3. QED BY <2>1, <2>2
<1>4. CASE AllowEnd
  BY <1>4 DEF TypeOK, AllowEnd
<1>5. CASE Idle
  <2>1. PICK u \in Thread, e \in Event : SignalFromIdle(u, e)
    BY <1>5 DEF Idle
  <2>2. /\ pending' = [pending EXCEPT ![u] = AddEvent(pending[u], e)]
        /\ sent' = [sent EXCEPT ![u] = IF e = NoEvent THEN sent[u] ELSE Append(sent[u], e)]
        /\ unused' = unused \ {e}
        /\ Wake(u)
    BY <2>1 DEF SignalFromIdle, SignalEvent, Sent
  <2>3. pending' \in [Thread -> Seq(Event)] /\ sent' \in [Thread -> Seq(Closure)]
    BY <2>2, PendingType, SentType
  <2>4. /\ exec' \in [Thread -> Running \cup {"unborn", "waiting", "stopped", "dead"}]
        /\ runq' \in Seq(Thread)
    BY <2>2, WakeType
  <2>5. QED BY <2>1, <2>2, <2>3, <2>4 DEF TypeOK, SignalFromIdle
<1>6. QED BY <1>1, <1>2, <1>3, <1>4, <1>5 DEF Interrupt

\* Every step of thread.scm, and the timer, keeps the types.
LEMMA TypeNext == TypeOK /\ [Next]_vars => TypeOK'
<1> SUFFICES ASSUME TypeOK, [Next]_vars PROVE TypeOK'
  OBVIOUS
<1>1. CASE UNCHANGED vars
  BY <1>1 DEF TypeOK, vars, kernel, events, locks, joins
<1>2. CASE Next
  BY <1>2, TypeProgram, TypeMasked, TypeInterrupt DEF Next
<1>3. QED BY <1>1, <1>2

\* Every reachable state of the thread system is well typed, for any number of
\* threads, mutexes and events and whatever operations the program uses.
THEOREM TypeCorrect == Spec => []TypeOK
<1>1. QED BY TypeInit, TypeNext, PTL DEF Spec

-----------------------------------------------------------------------------
(* The run queue                                                           *)

SameRunning == \A t \in Thread : exec'[t] \in Running <=> exec[t] \in Running

\* All that a step can do to the run queue: nothing, put at its end a thread
\* that was not running, drop the current thread, or move it to the end.
QueueStep ==
  \/ runq' = runq /\ SameRunning
  \/ \E u \in Thread : /\ exec[u] \notin Running
                       /\ exec' = [exec EXCEPT ![u] = "running"]
                       /\ runq' = Append(runq, u)
  \/ \E state \in {"waiting", "stopped", "dead"} :
       runq # << >> /\ NotRunning(current, state)
  \/ runq # << >> /\ Rotate /\ SameRunning

\* Waking a thread queues it only if it was waiting.
LEMMA WakeQueueStep ==
  ASSUME TypeOK, NEW u \in Thread, Wake(u)
  PROVE  QueueStep
<1>1. CASE Wakes(u)
  BY <1>1 DEF Wake, Wakes, QueueStep, Running
<1>2. CASE ~Wakes(u)
  BY <1>2 DEF Wake, QueueStep, SameRunning
<1>3. QED BY <1>1, <1>2

\* Handing a mutex over queues the first waiter at most.
LEMMA HandOffQueueStep ==
  ASSUME TypeOK, NEW m \in Mutex, HandOff(m)
  PROVE  QueueStep
<1>1. CASE waiters[m] = << >>
  BY <1>1 DEF HandOff, QueueStep, SameRunning
<1>2. CASE waiters[m] # << >>
  <2>1. Head(waiters[m]) \in Thread
    BY <1>2, HeadTailProperties DEF TypeOK
  <2>2. QED BY <1>2, <2>1, WakeQueueStep DEF HandOff, SignalNone
<1>3. QED BY <1>1, <1>2

\* A thread that has the processor is running.
LEMMA CurrentRunning ==
  ASSUME TypeOK, RunQueueExact, runq # << >>
  PROVE  current \in Thread /\ exec[current] \in Running
<1>1. current \in Thread
  BY QueueTypes
<1>2. current \in Range(runq)
  BY RangeOfTail, SMT DEF TypeOK, current
<1>3. QED BY <1>1, <1>2 DEF RunQueueExact

\* Every step of the thread system is such a step.
LEMMA NextQueueStep ==
  ASSUME TypeOK, RunQueueExact, Next
  PROVE  QueueStep
<1> USE DEF kernel
<1>1. CASE UNCHANGED <<exec, runq>>
  BY <1>1 DEF QueueStep, SameRunning
<1>2. ASSUME NEW t \in Thread, ProgramStep(t) \/ Unlock(t) PROVE QueueStep
  <2>1. ASSUME NEW u \in Thread, CreateThread(t, u) PROVE QueueStep
    BY <2>1 DEF CreateThread, QueueStep, Running
  <2>2. CASE YieldCurrentThread(t)
    <3>1. runq # << >> /\ t = current /\ exec[t] \in Running
      BY <2>2, CurrentRunning DEF YieldCurrentThread, Program, Open
    <3>2. SameRunning
      BY <2>2, <3>1 DEF YieldCurrentThread, SameRunning, TypeOK, Running
    <3>3. QED BY <2>2, <3>1, <3>2 DEF YieldCurrentThread, QueueStep
  <2>3. ASSUME NEW state \in Running, SetPreempt(t, state) PROVE QueueStep
    <3>1. runq # << >> /\ t = current /\ exec[t] \in Running
      BY <2>3, CurrentRunning DEF SetPreempt, Program, Open
    <3>2. SameRunning
      BY <2>3, <3>1 DEF SetPreempt, SameRunning, TypeOK
    <3>3. QED BY <2>3, <3>2 DEF SetPreempt, QueueStep
  <2>4. CASE StopCurrentThread(t)
    BY <2>4 DEF StopCurrentThread, Program, Open, QueueStep
  <2>5. ASSUME NEW u \in Thread, NEW d \in BOOLEAN, NEW e \in Event,
               RestartThread(t, u, d, e)
        PROVE  QueueStep
    BY <2>5 DEF RestartThread, QueueStep, Running
  <2>6. ASSUME NEW u \in Thread, NEW e \in Event, SignalThreadEvent(t, u, e)
        PROVE  QueueStep
    BY <2>6, WakeQueueStep DEF SignalThreadEvent, SignalEvent
  <2>7. ASSUME NEW m \in Mutex, UnlockThreadMutex(t, m) PROVE QueueStep
    BY <2>7, HandOffQueueStep DEF UnlockThreadMutex
  <2>8. CASE \/ SuspendCurrentThread(t) \/ BlockThreadEvents(t)
             \/ UnblockThreadEvents(t) \/ AllowThreadEventDelivery(t)
             \/ DeregisterAllEvents(t) \/ ExitCurrentThread(t)
    BY <1>1, <2>8 DEF SuspendCurrentThread, BlockThreadEvents, UnblockThreadEvents,
                      AllowThreadEventDelivery, DeregisterAllEvents, ExitCurrentThread
  <2>9. ASSUME NEW u \in Thread, NEW e \in Event,
               \/ JoinThread(t, u, e) \/ JoinExited(t, u, e) \/ DetachThread(t, u)
               \/ SignalSelf(t, e) \/ RegisterTimerEvent(t, e)
        PROVE  QueueStep
    BY <1>1, <2>9 DEF JoinThread, JoinExited, DetachThread, SignalSelf,
                      RegisterTimerEvent
  <2>10. ASSUME NEW m \in Mutex, LockThreadMutex(t, m) \/ TryLockThreadMutex(t, m)
         PROVE  QueueStep
    BY <1>1, <2>10 DEF LockThreadMutex, TryLockThreadMutex
  <2>11. QED
    <3>1. NoEvent \in Event
      BY DEF Event
    <3>2. QED BY <1>2, <2>1, <2>2, <2>3, <2>4, <2>5, <2>6, <2>7, <2>8, <2>9, <2>10, <3>1
              DEF ProgramStep, Unlock
<1>3. ASSUME NEW t \in Thread, EventEnd(t) \/ SelfStep(t) PROVE QueueStep
  BY <1>1, <1>3 DEF EventEnd, SelfStep, ClosureReturn, Escape, SelfLook, SelfAdd
<1>4. ASSUME NEW t \in Thread, MaskedStep(t) PROVE QueueStep
  <2>1. CASE \/ HandleEvent(t) \/ ResumeReturn(t) \/ UnblockReturn(t) \/ LockLoop(t)
             \/ ReleaseReturn(t) \/ ReleaseJoined(t)
    BY <1>1, <2>1 DEF HandleEvent, ResumeReturn, UnblockReturn, LockLoop,
                      ReleaseReturn, ReleaseJoined
  <2>2. CASE SuspendReturn(t)
    <3>1. CASE Top(t).any
      BY <1>1, <2>2, <3>1 DEF SuspendReturn
    <3>2. CASE ~Top(t).any
      BY <2>2, <3>2 DEF SuspendReturn, QueueStep, In
    <3>3. QED BY <3>1, <3>2
  <2>3. CASE Die(t)
    BY <2>3 DEF Die, QueueStep, In
  <2>4. CASE Release(t)
    <3>1. PICK r \in Thread \X Thread \X Event : Wake(r[2])
      BY <2>4 DEF Release, TypeOK
    <3>2. QED BY <3>1, WakeQueueStep
  <2>5. CASE DisassociateMutex(t)
    BY <1>1, <2>5, HandOffQueueStep DEF DisassociateMutex
  <2>6. QED BY <1>4, <2>1, <2>2, <2>3, <2>4, <2>5 DEF MaskedStep
<1>5. CASE Interrupt
  <2>1. CASE TimerInterrupt \/ AllowEnd
    BY <1>1, <2>1 DEF TimerInterrupt, AllowEnd
  <2>2. CASE DeliverTimerEvent
    <3>1. PICK r \in Thread \X Closure : Wake(r[1])
      BY <2>2 DEF DeliverTimerEvent, TypeOK
    <3>2. QED BY <3>1, WakeQueueStep
  <2>3. CASE TimerEnd
    BY <2>3 DEF TimerEnd, QueueStep, SameRunning
  <2>4. QED BY <1>5, <2>1, <2>2, <2>3 DEF Interrupt
<1>6. CASE Idle
  BY <1>6, WakeQueueStep DEF Idle, SignalFromIdle, SignalEvent
<1>7. QED BY <1>2, <1>3, <1>4, <1>5, <1>6 DEF Next

\* Such steps keep the run queue exact.
LEMMA QueueStepExact ==
  ASSUME TypeOK, RunQueueExact, QueueStep
  PROVE  RunQueueExact'
<1>1. CASE runq' = runq /\ SameRunning
  BY <1>1 DEF RunQueueExact, SameRunning
<1>2. ASSUME NEW u \in Thread, exec[u] \notin Running,
             exec' = [exec EXCEPT ![u] = "running"], runq' = Append(runq, u)
      PROVE  RunQueueExact'
  <2>1. u \notin Range(runq)
    BY <1>2 DEF RunQueueExact
  <2>2. IsInjective(runq') /\ Range(runq') = Range(runq) \cup {u}
    BY <1>2, <2>1, RangeOfAppend, SMT DEF TypeOK, RunQueueExact
  <2>3. \A t \in Thread : exec'[t] \in Running <=> t = u \/ exec[t] \in Running
    BY <1>2 DEF TypeOK, Running
  <2>4. QED BY <2>2, <2>3 DEF RunQueueExact
<1>3. ASSUME NEW state \in {"waiting", "stopped", "dead"}, runq # << >>,
             NotRunning(current, state)
      PROVE  RunQueueExact'
  <2>1. current \in Thread
    BY <1>3, QueueTypes
  <2>2. /\ IsInjective(runq') /\ current \notin Range(runq')
        /\ Range(runq) = Range(runq') \cup {current}
    BY <1>3, RangeOfTail DEF TypeOK, RunQueueExact, NotRunning, current
  <2>3. \A t \in Thread : exec'[t] \in Running <=> t # current /\ exec[t] \in Running
    BY <1>3, <2>1 DEF TypeOK, Running, NotRunning
  <2>4. QED BY <2>2, <2>3 DEF RunQueueExact
<1>4. CASE runq # << >> /\ Rotate /\ SameRunning
  <2>1. Head(runq) \in Thread /\ Tail(runq) \in Seq(Thread)
    BY <1>4, QueueTypes DEF current
  <2>2. /\ IsInjective(Tail(runq)) /\ Head(runq) \notin Range(Tail(runq))
        /\ Range(runq) = Range(Tail(runq)) \cup {Head(runq)}
    BY <1>4, RangeOfTail DEF TypeOK, RunQueueExact
  <2>3. IsInjective(runq') /\ Range(runq') = Range(runq)
    <3> DEFINE q == Tail(runq)
               h == Head(runq)
    <3>1. q \in Seq(Thread) /\ h \in Thread /\ runq' = Append(q, h)
      BY <1>4, <2>1 DEF Rotate
    <3>2. IsInjective(q) /\ h \notin Range(q) /\ Range(runq) = Range(q) \cup {h}
      BY <2>2
    <3> HIDE DEF q, h
    <3>3. Range(Append(q, h)) = Range(q) \cup {h} /\ IsInjective(Append(q, h))
      BY <3>1, <3>2, RangeOfAppend, SMT
    <3>4. QED BY <3>1, <3>2, <3>3
  <2>4. QED BY <1>4, <2>3 DEF RunQueueExact, SameRunning
<1>5. QED BY <1>1, <1>2, <1>3, <1>4 DEF QueueStep

\* At the start the run queue holds the one thread there is.
LEMMA QueueInit == Init => RunQueueExact
<1> SUFFICES ASSUME Init PROVE RunQueueExact
  OBVIOUS
<1>1. runq \in Seq(Thread) /\ runq = <<Initial>> /\ Initial \in Thread
  BY ConstantsAssumption, SingletonSeq DEF Init
<1>2. DOMAIN runq = {1} /\ runq[1] = Initial
  BY <1>1, SMT
<1>3. Range(runq) = {Initial} /\ IsInjective(runq)
  BY <1>2 DEF Range, IsInjective
<1>4. QED BY <1>3, ConstantsAssumption DEF Init, RunQueueExact, Running

\* The run queue holds exactly the running threads, each once, in every
\* reachable state: no wake-up, yield, preemption, stop or exit in thread.scm
\* loses a thread or queues it twice.
THEOREM RunQueueCorrect == Spec => []RunQueueExact
<1>1. TypeOK /\ RunQueueExact /\ [Next]_vars => RunQueueExact'
  <2> SUFFICES ASSUME TypeOK, RunQueueExact, [Next]_vars PROVE RunQueueExact'
    OBVIOUS
  <2>1. CASE UNCHANGED vars
    BY <2>1 DEF RunQueueExact, vars, kernel
  <2>2. CASE Next
    BY <2>2, NextQueueStep, QueueStepExact
  <2>3. QED BY <2>1, <2>2
<1>2. QED BY <1>1, QueueInit, TypeCorrect, PTL DEF Spec

-----------------------------------------------------------------------------
(* Mutexes                                                                 *)

\* What is true of one mutex: MutexQueue and MutexesListed, taken together.
MutexInv(m) ==
  /\ owner[m] = NoThread => waiters[m] = << >>
  /\ IsInjective(waiters[m])
  /\ owner[m] \notin Range(waiters[m])
  /\ \A t \in Thread : owner[m] = t \/ t \in Range(waiters[m]) => mutexes[t][m] > 0

\* The two mutex invariants, taken mutex by mutex.
LEMMA MutexInvSplit ==
  (\A m \in Mutex : MutexInv(m)) <=> MutexQueue /\ MutexesListed
BY DEF MutexInv, MutexQueue, MutexesListed

\* A mutex no step touches stays as it was.
LEMMA MutexSame ==
  ASSUME NEW m \in Mutex, MutexInv(m), owner'[m] = owner[m], waiters'[m] = waiters[m],
         \A t \in Thread : mutexes'[t][m] = mutexes[t][m]
  PROVE  MutexInv(m)'
BY DEF MutexInv

\* An empty queue has no elements, and only it.
LEMMA RangeOfEmpty ==
  ASSUME NEW S, NEW s \in Seq(S)
  PROVE  s = << >> <=> Range(s) = {}
<1>1. Len(s) \in Nat /\ DOMAIN s = 1..Len(s) /\ (s = << >> <=> Len(s) = 0)
  BY LenProperties, EmptySeq
<1>2. ASSUME Len(s) # 0 PROVE s[1] \in Range(s)
  BY <1>1, <1>2, SMT DEF Range
<1>3. ASSUME Len(s) = 0 PROVE Range(s) = {}
  <2>1. DOMAIN s = {}
    BY <1>1, <1>3, SMT
  <2>2. QED BY <2>1 DEF Range
<1>4. QED BY <1>1, <1>2, <1>3

\* The current thread lets go of a mutex it owns, and the first waiter gets it.
LEMMA MutexHandOff ==
  ASSUME TypeOK, NEW t \in Thread, NEW m \in Mutex, NEW n \in Nat,
         MutexInv(m), owner[m] = t, HandOff(m),
         mutexes' = [mutexes EXCEPT ![t][m] = n]
  PROVE  MutexInv(m)'
<1>1. \A u \in Thread : u # t => mutexes'[u][m] = mutexes[u][m]
  BY DEF TypeOK
<1>2. CASE waiters[m] = << >>
  <2>1. owner'[m] = NoThread /\ waiters'[m] = << >>
    BY <1>2 DEF HandOff, TypeOK
  <2>2. Range(waiters'[m]) = {} /\ Range(waiters[m]) = {} /\ waiters'[m] = waiters[m]
    BY <1>2, <2>1, RangeOfEmpty DEF TypeOK
  <2>3. QED BY <2>1, <2>2, ConstantsAssumption DEF MutexInv
<1>3. CASE waiters[m] # << >>
  <2>1. /\ owner'[m] = Head(waiters[m]) /\ waiters'[m] = Tail(waiters[m])
        /\ Head(waiters[m]) \in Thread
    BY <1>3, HeadTailProperties DEF HandOff, TypeOK
  <2>2. /\ Range(waiters[m]) = Range(waiters'[m]) \cup {owner'[m]}
        /\ IsInjective(waiters'[m]) /\ owner'[m] \notin Range(waiters'[m])
    BY <1>3, <2>1, RangeOfTail, SMT DEF TypeOK, MutexInv
  <2>3. t \notin Range(waiters[m])
    BY DEF MutexInv
  <2>4. owner'[m] # NoThread
    BY <2>1, ConstantsAssumption
  <2>5. ASSUME NEW u \in Thread, owner'[m] = u \/ u \in Range(waiters'[m])
        PROVE  mutexes'[u][m] > 0
    BY <1>1, <2>2, <2>3, <2>5 DEF MutexInv
  <2>6. QED BY <2>2, <2>4, <2>5 DEF MutexInv
<1>4. QED BY <1>2, <1>3

\* The steps that change a mutex, when no event locks a mutex that the thread
\* it interrupts is waiting for.
LEMMA MutexNext ==
  ASSUME "relock" \notin Ops, TypeOK, \A m \in Mutex : MutexInv(m), [Next]_vars
  PROVE  \A m \in Mutex : MutexInv(m)'
<1> USE DEF locks
<1>s. ASSUME UNCHANGED locks PROVE \A m \in Mutex : MutexInv(m)'
  BY <1>s, MutexSame
<1>o. ASSUME NEW t \in Thread, NEW m \in Mutex, NEW n \in Nat,
             mutexes' = [mutexes EXCEPT ![t][m] = n],
             \A k \in Mutex \ {m} : owner'[k] = owner[k] /\ waiters'[k] = waiters[k],
             MutexInv(m)'
      PROVE  \A k \in Mutex : MutexInv(k)'
  <2>1. \A k \in Mutex \ {m}, u \in Thread : mutexes'[u][k] = mutexes[u][k]
    BY <1>o DEF TypeOK
  <2>2. QED BY <1>o, <2>1, MutexSame
<1>1. ASSUME NEW t \in Thread, NEW m \in Mutex, LockThreadMutex(t, m)
      PROVE  \A k \in Mutex : MutexInv(k)'
  <2> DEFINE n == mutexes[t][m] + 1
  <2>1. n \in Nat /\ n > 0 /\ mutexes' = [mutexes EXCEPT ![t][m] = n]
    BY <1>1, SMT DEF TypeOK, LockThreadMutex
  <2> HIDE DEF n
  <2>2. \A u \in Thread : mutexes'[u][m] = IF u = t THEN n ELSE mutexes[u][m]
    BY <2>1 DEF TypeOK
  <2>3. owner[m] # t /\ t \notin Range(waiters[m])
    BY <1>1 DEF LockThreadMutex
  <2>4. CASE owner[m] = NoThread
    <3>1. /\ owner' = [owner EXCEPT ![m] = t] /\ waiters' = waiters
      BY <1>1, <2>4 DEF LockThreadMutex
    <3>2. MutexInv(m)'
      BY <2>1, <2>2, <2>3, <2>4, <3>1, ConstantsAssumption DEF TypeOK, MutexInv
    <3>3. QED BY <1>o, <2>1, <3>1, <3>2 DEF TypeOK
  <2>5. CASE owner[m] # NoThread
    <3>1. /\ waiters' = [waiters EXCEPT ![m] = Append(waiters[m], t)] /\ owner' = owner
      BY <1>1, <2>5 DEF LockThreadMutex
    <3>2. waiters'[m] = Append(waiters[m], t)
      BY <3>1 DEF TypeOK
    <3>3. Range(waiters'[m]) = Range(waiters[m]) \cup {t} /\ IsInjective(waiters'[m])
      BY <2>3, <3>2, RangeOfAppend, SMT DEF TypeOK, MutexInv
    <3>4. MutexInv(m)'
      BY <2>1, <2>2, <2>3, <2>5, <3>1, <3>3 DEF MutexInv
    <3>5. QED BY <1>o, <2>1, <3>1, <3>4 DEF TypeOK
  <2>6. QED BY <2>4, <2>5
<1>2. ASSUME NEW t \in Thread, NEW m \in Mutex, TryLockThreadMutex(t, m)
      PROVE  \A k \in Mutex : MutexInv(k)'
  <2> DEFINE n == mutexes[t][m] + 1
  <2>1. n \in Nat /\ n > 0 /\ mutexes' = [mutexes EXCEPT ![t][m] = n]
    BY <1>2, SMT DEF TypeOK, TryLockThreadMutex
  <2> HIDE DEF n
  <2>2. \A u \in Thread : mutexes'[u][m] = IF u = t THEN n ELSE mutexes[u][m]
    BY <2>1 DEF TypeOK
  <2>3. owner[m] = NoThread /\ owner' = [owner EXCEPT ![m] = t] /\ waiters' = waiters
    BY <1>2 DEF TryLockThreadMutex
  <2>4. Range(waiters[m]) = {}
    BY <2>3, RangeOfEmpty DEF MutexInv, TypeOK
  <2>5. MutexInv(m)'
    BY <2>1, <2>2, <2>3, <2>4, ConstantsAssumption, SMT DEF TypeOK, MutexInv
  <2>6. QED BY <1>o, <2>1, <2>3, <2>5 DEF TypeOK
<1>3. ASSUME NEW t \in Thread, NEW m \in Mutex, UnlockThreadMutex(t, m)
      PROVE  \A k \in Mutex : MutexInv(k)'
  <2>1. mutexes' = [mutexes EXCEPT ![t][m] = 0] /\ owner[m] = t /\ HandOff(m)
    BY <1>3 DEF UnlockThreadMutex
  <2>2. MutexInv(m)'
    BY <2>1, MutexHandOff
  <2>3. \A k \in Mutex \ {m} : owner'[k] = owner[k] /\ waiters'[k] = waiters[k]
    BY <2>1 DEF HandOff, TypeOK
  <2>4. QED BY <1>o, <2>1, <2>2, <2>3
<1>4. ASSUME NEW t \in Thread, DisassociateMutex(t)
      PROVE  \A k \in Mutex : MutexInv(k)'
  <2>1. PICK m \in Mutex :
          /\ mutexes[t][m] > 0
          /\ mutexes' = [mutexes EXCEPT ![t][m] = mutexes[t][m] - 1]
          /\ IF owner[m] = t
             THEN HandOff(m)
             ELSE /\ waiters' = [waiters EXCEPT ![m] = RemoveFirst(waiters[m], t)]
                  /\ UNCHANGED <<owner, pending, exec, runq>>
    BY <1>4 DEF DisassociateMutex
  <2> DEFINE n == mutexes[t][m] - 1
  <2>2. n \in Nat /\ mutexes' = [mutexes EXCEPT ![t][m] = n]
    BY <2>1, SMT DEF TypeOK
  <2> HIDE DEF n
  <2>3. \A k \in Mutex \ {m} : owner'[k] = owner[k] /\ waiters'[k] = waiters[k]
    BY <2>1 DEF HandOff, TypeOK
  <2>4. CASE owner[m] = t
    <3>1. MutexInv(m)'
      BY <2>1, <2>2, <2>4, MutexHandOff
    <3>2. QED BY <1>o, <2>2, <2>3, <3>1
  <2>5. CASE owner[m] # t
    <3>1. waiters'[m] = RemoveFirst(waiters[m], t) /\ owner' = owner
      BY <2>1, <2>5 DEF TypeOK
    <3>2. /\ waiters'[m] \in Seq(Thread) /\ IsInjective(waiters'[m])
          /\ Range(waiters'[m]) \subseteq Range(waiters[m]) /\ t \notin Range(waiters'[m])
      BY <3>1, RangeOfRemove, SMT DEF TypeOK, MutexInv
    <3>3. waiters[m] = << >> => waiters'[m] = << >>
      BY <3>2, RangeOfEmpty, SMT DEF TypeOK
    <3>4. \A u \in Thread : u # t => mutexes'[u][m] = mutexes[u][m]
      BY <2>2 DEF TypeOK
    <3>5. MutexInv(m)'
      BY <2>5, <3>1, <3>2, <3>3, <3>4 DEF MutexInv
    <3>6. QED BY <1>o, <2>2, <2>3, <3>5
  <2>6. QED BY <2>4, <2>5
<1>5. CASE UNCHANGED vars
  BY <1>5, <1>s DEF vars
<1>6. ASSUME NEW t \in Thread, ProgramStep(t) PROVE \A k \in Mutex : MutexInv(k)'
  BY <1>1, <1>2, <1>6, <1>s
     DEF ProgramStep, CreateThread, DetachThread, YieldCurrentThread, StopCurrentThread,
         SuspendCurrentThread, SetPreempt, RestartThread, BlockThreadEvents,
         UnblockThreadEvents, AllowThreadEventDelivery, SignalThreadEvent, JoinThread,
         JoinExited, SignalSelf, RegisterTimerEvent, DeregisterAllEvents,
         ExitCurrentThread
<1>7. ASSUME NEW t \in Thread, EventEnd(t) \/ SelfStep(t) \/ MaskedStep(t)
      PROVE  \A k \in Mutex : MutexInv(k)'
  BY <1>4, <1>7, <1>s
     DEF EventEnd, SelfStep, MaskedStep, ClosureReturn, Escape, SelfLook, SelfAdd,
         HandleEvent, SuspendReturn, ResumeReturn, UnblockReturn, LockLoop, Release,
         ReleaseReturn, ReleaseJoined, Die
<1>8. CASE Interrupt \/ Idle
  BY <1>8, <1>s DEF Interrupt, Idle, TimerInterrupt, DeliverTimerEvent, TimerEnd,
                   AllowEnd, SignalFromIdle
<1>9. QED BY <1>3, <1>5, <1>6, <1>7, <1>8 DEF Next, Unlock

\* As long as no event locks a mutex that the thread it interrupts is waiting
\* for, every mutex is handed over soundly, for any number of threads: its
\* queue has no repetition and is empty when the mutex is free, no thread waits
\* for what it owns, and thread/mutexes lists all that the thread owns or waits
\* for, so that exit-current-thread lets go of all of it.
THEOREM MutexesCorrect ==
  ASSUME "relock" \notin Ops
  PROVE  Spec => []MutexesSound
<1> DEFINE Inv == \A m \in Mutex : MutexInv(m)
<1>1. Init => Inv
  <2> SUFFICES ASSUME Init, NEW m \in Mutex PROVE MutexInv(m)
    OBVIOUS
  <2>1. owner[m] = NoThread /\ waiters[m] = << >>
    BY DEF Init
  <2>2. << >> \in Seq(Thread) /\ DOMAIN << >> = {}
    BY EmptySeq, SMT
  <2>3. Range(<< >>) = {} /\ IsInjective(<< >>)
    BY <2>2 DEF Range, IsInjective
  <2>4. QED BY <2>1, <2>3, ConstantsAssumption DEF MutexInv
<1>2. TypeOK /\ Inv /\ [Next]_vars => Inv'
  BY MutexNext
<1>3. Inv => MutexesSound
  BY MutexInvSplit DEF MutexesSound
<1> HIDE DEF Inv
<1>4. QED BY <1>1, <1>2, <1>3, TypeCorrect, PTL DEF Spec

-----------------------------------------------------------------------------
(* The control state                                                       *)

ControlInv == MaskedExactly /\ StacksNested /\ SwitchedOut

AllOps == {"program"} \cup OpenOps \cup MaskedOps

-----------------------------------------------------------------------------
(* Stacks                                                                  *)

\* What is on top after a push, and what was below it.
LEMMA Pushed ==
  ASSUME NEW s \in Seq(Frame), NEW f \in Frame
  PROVE  /\ <<f>> \o s \in Seq(Frame) /\ <<f>> \o s # << >>
         /\ Head(<<f>> \o s) = f /\ Tail(<<f>> \o s) = s
         /\ OpOf(<<f>> \o s) = f.op
<1>1. /\ Head(<<f>> \o s) = f /\ Tail(<<f>> \o s) = s /\ <<f>> \o s # << >>
  BY SMT
<1>2. QED BY <1>1, StackTypes DEF OpOf

\* Calling from an activation that may make the call keeps a stack nested.
LEMMA NestPush ==
  ASSUME NEW s \in Seq(Frame), NEW f \in Frame, WellNested(s),
         IF s = << >> THEN f.op # "closure" ELSE Calls(f, Head(s))
  PROVE  WellNested(<<f>> \o s)
<1> DEFINE r == <<f>> \o s
<1>1. /\ Len(s) \in Nat /\ Len(r) = Len(s) + 1 /\ r[1] = f
      /\ \A i \in 1 .. Len(s) : r[i + 1] = s[i]
  BY SMT
<1>2. s # << >> => Head(s) = s[1] /\ Len(s) > 0
  BY SMT
<1>3. s = << >> => Len(s) = 0
  BY SMT
<1> HIDE DEF r
<1>4. ASSUME NEW i \in 1 .. Len(r) - 1 PROVE Calls(r[i], r[i + 1])
  <2>1. CASE i = 1
    <3>1. s # << >> /\ r[i] = f /\ r[i + 1] = s[1]
      BY <1>1, <1>3, <2>1, SMT
    <3>2. QED BY <1>2, <3>1
  <2>2. CASE i # 1
    <3>1. i - 1 \in 1 .. Len(s) - 1 /\ r[i] = s[i - 1] /\ r[i + 1] = s[i]
      <4>1. i - 1 \in 1 .. Len(s) /\ i \in 1 .. Len(s) /\ i - 1 \in 1 .. Len(s) - 1
        BY <1>1, <2>2, SMT
      <4>2. r[(i - 1) + 1] = s[i - 1] /\ (i - 1) + 1 = i
        BY <1>1, <4>1, SMT
      <4>3. QED BY <1>1, <4>1, <4>2
    <3>2. (i - 1) + 1 = i
      BY <1>1, SMT
    <3>3. Calls(s[i - 1], s[(i - 1) + 1])
      BY <3>1 DEF WellNested
    <3>4. QED BY <3>1, <3>2, <3>3
  <2>3. QED BY <2>1, <2>2
<1>5. r[Len(r)].op # "closure"
  <2>1. CASE s = << >>
    BY <1>1, <1>3, <2>1, SMT
  <2>2. CASE s # << >>
    <3>1. Len(s) \in 1 .. Len(s) /\ r[Len(r)] = s[Len(s)]
      BY <1>1, <1>2, <2>2, SMT
    <3>2. QED BY <2>2, <3>1 DEF WellNested
  <2>3. QED BY <2>1, <2>2
<1>6. QED BY <1>4, <1>5 DEF WellNested, r

\* So does returning; and what is returned to may have made the call.
LEMMA NestPop ==
  ASSUME NEW s \in Seq(Frame), s # << >>, WellNested(s)
  PROVE  /\ WellNested(Tail(s))
         /\ IF Tail(s) = << >> THEN Head(s).op # "closure"
            ELSE Calls(Head(s), Head(Tail(s)))
<1> DEFINE r == Tail(s)
<1>1. /\ Len(s) \in Nat /\ Len(s) > 0 /\ Len(r) = Len(s) - 1 /\ r \in Seq(Frame)
      /\ \A i \in 1 .. Len(s) - 1 : r[i] = s[i + 1]
      /\ Head(s) = s[1]
  BY SMT
<1> HIDE DEF r
<1>2. r # << >> => Head(r) = r[1] /\ Len(r) > 0
  BY <1>1, SMT
<1>3. r = << >> => Len(r) = 0
  BY <1>1, SMT
<1>4. ASSUME NEW i \in 1 .. Len(r) - 1 PROVE Calls(r[i], r[i + 1])
  <2>1. /\ i \in 1 .. Len(s) - 1 /\ i + 1 \in 1 .. Len(s) - 1
    BY <1>1, SMT
  <2>2. r[i] = s[i + 1] /\ r[i + 1] = s[(i + 1) + 1]
    BY <1>1, <2>1
  <2>3. QED BY <2>1, <2>2 DEF WellNested
<1>5. r # << >> => r[Len(r)].op # "closure"
  <2> SUFFICES ASSUME r # << >> PROVE r[Len(r)].op # "closure"
    OBVIOUS
  <2>1. Len(r) \in 1 .. Len(s) - 1 /\ Len(r) + 1 = Len(s)
    BY <1>1, <1>2, SMT
  <2>2. r[Len(r)] = s[Len(s)]
    BY <1>1, <2>1
  <2>3. QED BY <2>2 DEF WellNested
<1>6. CASE r = << >>
  <2>1. Len(s) = 1
    BY <1>1, <1>3, <1>6, SMT
  <2>2. Head(s).op # "closure"
    BY <1>1, <2>1 DEF WellNested
  <2>3. QED BY <1>4, <1>5, <1>6, <2>2 DEF WellNested, r
<1>7. CASE r # << >>
  <2>1. 1 \in 1 .. Len(s) - 1 /\ r[1] = s[1 + 1]
    BY <1>1, <1>2, <1>7, SMT
  <2>2. Calls(s[1], s[1 + 1])
    BY <2>1 DEF WellNested
  <2>3. Calls(Head(s), Head(r))
    BY <1>1, <1>2, <1>7, <2>1, <2>2
  <2>4. QED BY <1>4, <1>5, <1>7, <2>3 DEF WellNested, r
<1>8. QED BY <1>6, <1>7

\* A stack of one activation that is not an event.
LEMMA NestSingle ==
  ASSUME NEW f \in Frame, f.op # "closure"
  PROVE  WellNested(<<f>>) /\ OpOf(<<f>>) = f.op
<1>1. <<f>> # << >> /\ Len(<<f>>) = 1 /\ <<f>>[1] = f /\ Head(<<f>>) = f
  BY SMT
<1>2. QED BY <1>1, SMT DEF WellNested, OpOf

\* Every activation is an operation of thread.scm or program code.
LEMMA OpTypes ==
  ASSUME NEW s \in Seq(Frame)
  PROVE  OpOf(s) \in AllOps
<1>1. \A f \in Frame : f.op \in OpenOps \cup MaskedOps
  BY DEF Frame
<1>2. QED BY <1>1, StackTypes DEF OpOf, AllOps

\* The operations of the model fall into those that run with interrupts enabled
\* and those that run with them masked.
LEMMA OpsDisjoint ==
  /\ \A o \in OpenOps : o \notin MaskedOps /\ o # "program"
  /\ "program" \notin MaskedOps
  /\ "closure" \in OpenOps /\ SelfOps \subseteq OpenOps
BY DEF OpenOps, SelfOps, MaskedOps

\* The current thread makes a call.
LEMMA PushFacts ==
  ASSUME TypeOK, StacksNested, NEW t \in Thread, NEW f \in Frame, Push(t, f),
         f.op # "closure",
         \/ OpOf(stack[t]) \in OpenOps \cup {"program"}
         \/ f.op \in {"suspend", "resume"} /\ OpOf(stack[t]) = "lock"
  PROVE  /\ WellNested(stack'[t]) /\ OpOf(stack'[t]) = f.op
         /\ \A u \in Thread : u # t => stack'[u] = stack[u]
<1>1. stack[t] \in Seq(Frame) /\ WellNested(stack[t])
  BY DEF TypeOK, StacksNested
<1>2. stack'[t] = <<f>> \o stack[t] /\ \A u \in Thread : u # t => stack'[u] = stack[u]
  BY DEF Push, TypeOK
<1>3. stack[t] # << >> => Calls(f, Head(stack[t]))
  <2>1. stack[t] # << >> => Head(stack[t]) \in Frame
    BY <1>1, HeadTailProperties
  <2>2. \A g \in Frame : g.op # "program"
    BY DEF Frame, OpenOps, SelfOps, MaskedOps
  <2>3. QED BY <2>1, <2>2 DEF Calls, OpOf
<1>4. QED BY <1>1, <1>2, <1>3, NestPush, Pushed

\* The current thread returns from a call.
LEMMA PopFacts ==
  ASSUME TypeOK, StacksNested, NEW t \in Thread, OpOf(stack[t]) # "program", Pop(t)
  PROVE  /\ WellNested(stack'[t])
         /\ \A u \in Thread : u # t => stack'[u] = stack[u]
         /\ OpOf(stack'[t]) \in OpsOf(ModeBelow(t))
         /\ IF OpOf(stack[t]) = "closure"
            THEN /\ OpOf(stack'[t]) \in {"suspend", "unblock", "allow", "resume"}
                 /\ OpOf(stack'[t]) = "suspend" => Top(t).saved # "yes"
            ELSE OpOf(stack'[t]) \in OpenOps \cup {"program", "lock"}
<1>1. stack[t] \in Seq(Frame) /\ WellNested(stack[t]) /\ stack[t] # << >>
  BY StackTypes DEF TypeOK, StacksNested
<1>2. stack'[t] = Tail(stack[t]) /\ \A u \in Thread : u # t => stack'[u] = stack[u]
  BY DEF Pop, TypeOK
<1>3. Tail(stack[t]) \in Seq(Frame) /\ OpOf(Tail(stack[t])) \in AllOps
  BY <1>1, HeadTailProperties, OpTypes
<1>4. OpOf(stack'[t]) \in OpsOf(ModeBelow(t))
  BY <1>2, <1>3 DEF ModeBelow, OpsOf, AllOps
<1>5. /\ WellNested(Tail(stack[t]))
      /\ IF Tail(stack[t]) = << >> THEN Head(stack[t]).op # "closure"
         ELSE Calls(Head(stack[t]), Head(Tail(stack[t])))
  BY <1>1, NestPop
<1>6. OpOf(stack[t]) = Head(stack[t]).op
  BY <1>1 DEF OpOf
<1>7. IF OpOf(stack[t]) = "closure"
      THEN /\ OpOf(stack'[t]) \in {"suspend", "unblock", "allow", "resume"}
           /\ OpOf(stack'[t]) = "suspend" => Top(t).saved # "yes"
      ELSE OpOf(stack'[t]) \in OpenOps \cup {"program", "lock"}
  <2>1. CASE Tail(stack[t]) = << >>
    BY <1>2, <1>5, <1>6, <2>1 DEF OpOf
  <2>2. CASE Tail(stack[t]) # << >>
    <3>1. /\ OpOf(stack'[t]) = Head(Tail(stack[t])).op
          /\ Calls(Head(stack[t]), Head(Tail(stack[t])))
      BY <1>2, <1>5, <2>2 DEF OpOf
    <3>2. QED BY <1>6, <3>1 DEF Calls, Top
  <2>3. QED BY <2>1, <2>2
<1>8. QED BY <1>2, <1>4, <1>5, <1>7

\* The current activation goes on as another one, called from the same place.
LEMMA ReplaceFacts ==
  ASSUME TypeOK, StacksNested, NEW t \in Thread, NEW f \in Frame,
         OpOf(stack[t]) \notin {"program", "closure"}, f.op # "closure",
         OpOf(stack[t]) \in {"suspend", "resume"} => f.op \in {"suspend", "resume"}
  PROVE  /\ <<f>> \o Tail(stack[t]) \in Seq(Frame)
         /\ WellNested(<<f>> \o Tail(stack[t]))
         /\ OpOf(<<f>> \o Tail(stack[t])) = f.op
<1>1. /\ stack[t] \in Seq(Frame) /\ WellNested(stack[t]) /\ stack[t] # << >>
      /\ Tail(stack[t]) \in Seq(Frame)
  BY StackTypes DEF TypeOK, StacksNested
<1>2. OpOf(stack[t]) = Head(stack[t]).op
  BY <1>1 DEF OpOf
<1>3. /\ WellNested(Tail(stack[t]))
      /\ Tail(stack[t]) # << >> => Calls(Head(stack[t]), Head(Tail(stack[t])))
  BY <1>1, NestPop
<1>4. Tail(stack[t]) # << >> => Calls(f, Head(Tail(stack[t])))
  BY <1>2, <1>3 DEF Calls
<1>5. QED BY <1>1, <1>3, <1>4, NestPush, Pushed

-----------------------------------------------------------------------------
(* Control                                                                 *)

\* A step of the current thread after which it is still current.
LEMMA OwnStep ==
  ASSUME ControlInv, runq # << >>, NEW t \in Thread, t = current,
         runq' # << >>, Head(runq') = Head(runq),
         \A u \in Thread \ {t} :
            /\ stack'[u] = stack[u] /\ block'[u] = block[u]
            /\ exec[u] \in {"unborn", "dead"} => exec'[u] \in {"unborn", "dead"},
         WellNested(stack'[t]), OpOf(stack'[t]) = "suspend" => block'[t] # "yes",
         OpOf(stack'[t]) \in OpsOf(mode')
  PROVE  ControlInv'
<1>1. current' = t
  BY DEF current
<1>2. MaskedExactly'
  BY <1>1 DEF MaskedExactly
<1>3. StacksNested'
  BY DEF ControlInv, StacksNested
<1>4. SwitchedOut'
  BY <1>1 DEF ControlInv, SwitchedOut
<1>5. QED BY <1>2, <1>3, <1>4 DEF ControlInv

\* A step by which the current thread loses the processor.
LEMMA SwitchStep ==
  ASSUME ControlInv, TypeOK', RunQueueExact', runq # << >>, NEW t \in Thread, t = current,
         mode' = IF runq' = << >> THEN "open" ELSE "masked",
         \A u \in Thread \ {t} :
            /\ stack'[u] = stack[u] /\ block'[u] = block[u] /\ exec'[u] = exec[u],
         WellNested(stack'[t]), OpOf(stack'[t]) # "suspend",
         OpOf(stack'[t]) = "resume" \/ exec'[t] = "dead"
  PROVE  ControlInv'
<1>1. SwitchedOut'
  BY DEF ControlInv, SwitchedOut
<1>2. StacksNested'
  BY DEF ControlInv, StacksNested
<1>3. MaskedExactly'
  <2>1. CASE runq' = << >>
    BY <2>1 DEF MaskedExactly
  <2>2. CASE runq' # << >>
    <3>1. current' \in Thread /\ exec'[current'] \in Running
      <4>1. current' \in Thread
        BY <2>2, HeadTailProperties DEF TypeOK, current
      <4>2. current' \in Range(runq')
        BY <2>2, RangeOfTail, SMT DEF TypeOK, current
      <4>3. QED BY <4>1, <4>2 DEF RunQueueExact
    <3>2. OpOf(stack'[current']) = "resume"
      <4>1. exec'[current'] \notin {"unborn", "dead"}
        BY <3>1 DEF Running
      <4>2. CASE current' = t
        BY <4>1, <4>2
      <4>3. CASE current' # t
        BY <3>1, <4>1, <4>3 DEF ControlInv, SwitchedOut
      <4>4. QED BY <4>2, <4>3
    <3>3. QED BY <2>2, <3>2 DEF MaskedExactly, OpsOf, MaskedOps
  <2>3. QED BY <2>1, <2>2
<1>4. QED BY <1>1, <1>2, <1>3 DEF ControlInv

\* What the steps of the program do to the control state.
LEMMA ControlProgram ==
  ASSUME TypeOK, ControlInv, RunQueueExact, TypeOK', RunQueueExact',
         NEW t \in Thread, ProgramStep(t) \/ Unlock(t)
  PROVE  ControlInv'
<1> USE DEF kernel, events, locks, joins
<1>t. StacksNested /\ WellNested(stack[t]) /\ stack[t] \in Seq(Frame)
  BY DEF ControlInv, StacksNested, TypeOK
<1>p. ASSUME Program(t)
      PROVE  /\ runq # << >> /\ t = current /\ t = Head(runq)
             /\ OpOf(stack[t]) \in OpenOps \cup {"program"}
             /\ OpOf(stack[t]) \in OpsOf("open")
             /\ OpOf(stack[t]) # "suspend"
             /\ mode = "open"
  BY <1>p DEF Program, Open, current, OpsOf, OpenOps
<1>f. /\ \A o \in OpenOps \cup MaskedOps, b \in Block :
             MkFrame(o, b) \in Frame /\ MkFrame(o, b).op = o
      /\ \A m \in Mutex : LockFrame(m) \in Frame /\ LockFrame(m).op = "lock"
      /\ \A b \in Block, e \in Event :
            /\ [MkFrame("self", b) EXCEPT !.event = e] \in Frame
            /\ [MkFrame("self", b) EXCEPT !.event = e].op = "self"
      /\ block[t] \in Block /\ "no" \in Block /\ "yes" \in Block
  BY FrameTypes DEF MkFrame, LockFrame, TypeOK, Block
<1>a. \A u \in Thread : /\ Append(runq, u) # << >>
                        /\ runq # << >> => Head(Append(runq, u)) = Head(runq)
  BY HeadAppend DEF TypeOK
\* Steps that leave the stacks alone, and the current thread where it is.
<1>s. ASSUME Program(t), UNCHANGED <<stack, mode>>, runq' # << >>, Head(runq') = Head(runq),
             \A u \in Thread \ {t} :
                /\ block'[u] = block[u]
                /\ exec[u] \in {"unborn", "dead"} => exec'[u] \in {"unborn", "dead"}
      PROVE  ControlInv'
  BY <1>s, <1>p, <1>t, OwnStep
\* Steps that enter a masked section, or a signal to oneself.
<1>e. ASSUME Program(t), NEW f \in Frame, Push(t, f), f.op # "closure",
             UNCHANGED <<exec, runq>>, f.op \in OpsOf(mode'),
             \A u \in Thread \ {t} : block'[u] = block[u],
             f.op = "suspend" => block'[t] # "yes"
      PROVE  ControlInv'
  <2>1. /\ WellNested(stack'[t]) /\ OpOf(stack'[t]) = f.op
        /\ \A u \in Thread : u # t => stack'[u] = stack[u]
    BY <1>e, <1>p, <1>t, PushFacts
  <2>2. QED BY <1>e, <1>p, <2>1, OwnStep
\* Steps by which the current thread loses the processor.
<1>w. ASSUME Program(t), Push(t, MkFrame("resume", "no")), UNCHANGED block,
             mode' = IF runq' = << >> THEN "open" ELSE "masked",
             \A u \in Thread \ {t} : exec'[u] = exec[u]
      PROVE  ControlInv'
  <2>1. MkFrame("resume", "no") \in Frame /\ MkFrame("resume", "no").op = "resume"
    BY <1>f DEF MaskedOps
  <2>2. /\ WellNested(stack'[t]) /\ OpOf(stack'[t]) = "resume"
        /\ \A u \in Thread : u # t => stack'[u] = stack[u]
    BY <1>w, <1>p, <1>t, <2>1, PushFacts
  <2>3. QED BY <1>w, <1>p, <2>2, SwitchStep
<1>k. ASSUME NEW u \in Thread, Wake(u), runq # << >>
      PROVE  /\ runq' # << >> /\ Head(runq') = Head(runq)
             /\ \A v \in Thread : exec[v] \in {"unborn", "dead"} => exec'[v] = exec[v]
  BY <1>k, <1>a DEF Wake, Wakes, TypeOK
<1>1. ASSUME NEW u \in Thread, CreateThread(t, u) PROVE ControlInv'
  <2> DEFINE f == MkFrame("resume", "no")
  <2>1. /\ Program(t) /\ exec[u] = "unborn" /\ runq' = Append(runq, u)
        /\ exec' = [exec EXCEPT ![u] = "running"] /\ UNCHANGED <<mode, block>>
    BY <1>1 DEF CreateThread
  <2>2. u # t
    BY <1>p, <2>1, CurrentRunning DEF Running
  <2>3. f \in Frame /\ f.op = "resume"
    BY <1>f DEF MaskedOps
  <2>4. stack'[u] = <<f>> /\ \A v \in Thread : v # u => stack'[v] = stack[v]
    BY <1>1 DEF CreateThread, TypeOK
  <2> HIDE DEF f
  <2>5. current' = current /\ runq' # << >>
    BY <1>a, <1>p, <2>1 DEF current
  <2>6. MaskedExactly'
    BY <1>p, <2>1, <2>2, <2>4, <2>5 DEF MaskedExactly
  <2>7. OpOf(stack'[u]) = "resume" /\ WellNested(stack'[u])
    BY <2>3, <2>4, NestSingle
  <2>8. SwitchedOut'
    BY <2>1, <2>4, <2>5, <2>7 DEF SwitchedOut, ControlInv, TypeOK
  <2>10. StacksNested'
    BY <2>1, <2>4, <2>7, <1>t DEF StacksNested
  <2>11. QED BY <2>6, <2>8, <2>10 DEF ControlInv
<1>2. CASE YieldCurrentThread(t)
  <2>1. runq' # << >>
    BY <1>2, <1>p, QueueTypes, SMT DEF YieldCurrentThread, Rotate
  <2>2. QED BY <1>2, <2>1, <1>w DEF YieldCurrentThread, TypeOK
<1>3. ASSUME NEW state \in Running, SetPreempt(t, state) PROVE ControlInv'
  BY <1>3, <1>s, <1>p DEF SetPreempt, TypeOK
<1>4. CASE StopCurrentThread(t)
  BY <1>4, <1>w DEF StopCurrentThread, NotRunning, TypeOK
<1>5. ASSUME NEW u \in Thread, NEW d \in BOOLEAN, NEW e \in Event, RestartThread(t, u, d, e)
      PROVE  ControlInv'
  <2>1. /\ Program(t) /\ exec[u] = "stopped" /\ runq' = Append(runq, u)
        /\ exec' = [exec EXCEPT ![u] = "running"] /\ UNCHANGED <<mode, stack, block>>
    BY <1>5 DEF RestartThread
  <2>2. QED BY <2>1, <1>s, <1>p, <1>a DEF TypeOK
<1>6. CASE SuspendCurrentThread(t)
  <2>1. /\ MkFrame("suspend", block[t]) \in Frame
        /\ MkFrame("suspend", block[t]).op = "suspend"
    BY <1>f DEF MaskedOps
  <2>2. block'[t] # "yes" /\ \A u \in Thread \ {t} : block'[u] = block[u]
    BY <1>6 DEF SuspendCurrentThread, EnterSuspend, TypeOK
  <2>3. QED BY <1>6, <2>1, <2>2, <1>e DEF SuspendCurrentThread, EnterSuspend, OpsOf, MaskedOps
<1>7. CASE BlockThreadEvents(t)
  BY <1>7, <1>s, <1>p DEF BlockThreadEvents, TypeOK
<1>8. CASE UnblockThreadEvents(t)
  <2>1. MkFrame("unblock", "no") \in Frame /\ MkFrame("unblock", "no").op = "unblock"
    BY <1>f DEF MaskedOps
  <2>2. QED BY <1>8, <2>1, <1>e DEF UnblockThreadEvents, OpsOf, MaskedOps
<1>9. CASE AllowThreadEventDelivery(t)
  <2>1. MkFrame("allow", block[t]) \in Frame /\ MkFrame("allow", block[t]).op = "allow"
    BY <1>f DEF MaskedOps
  <2>2. QED BY <1>9, <2>1, <1>e DEF AllowThreadEventDelivery, OpsOf, TypeOK
<1>10. ASSUME NEW u \in Thread, NEW e \in Event, SignalThreadEvent(t, u, e)
       PROVE  ControlInv'
  BY <1>10, <1>s, <1>p, <1>k DEF SignalThreadEvent, SignalEvent
<1>11. ASSUME NEW u \in Thread, NEW e \in Event, JoinThread(t, u, e) PROVE ControlInv'
  BY <1>11, <1>s, <1>p DEF JoinThread
<1>12. ASSUME NEW u \in Thread, NEW e \in Event, JoinExited(t, u, e) PROVE ControlInv'
  <2>1. MkFrame("unblock", "no") \in Frame /\ MkFrame("unblock", "no").op = "unblock"
    BY <1>f DEF MaskedOps
  <2>2. CASE block[t] = "no"
    BY <1>12, <2>1, <2>2, <1>e DEF JoinExited, OpsOf, MaskedOps, TypeOK
  <2>3. CASE block[t] # "no"
    BY <1>12, <2>3, <1>s, <1>p DEF JoinExited
  <2>4. QED BY <2>2, <2>3
<1>13. ASSUME NEW u \in Thread, DetachThread(t, u) PROVE ControlInv'
  <2>1. MkFrame("release", "no") \in Frame /\ MkFrame("release", "no").op = "release"
    BY <1>f DEF MaskedOps
  <2>2. QED BY <1>13, <2>1, <1>e DEF DetachThread, OpsOf, MaskedOps
<1>14. ASSUME NEW e \in Event, SignalSelf(t, e) PROVE ControlInv'
  <2> DEFINE f == [MkFrame("self", block[t]) EXCEPT !.event = e]
  <2>1. f \in Frame /\ f.op = "self"
    BY <1>f
  <2>2. /\ Program(t) /\ Push(t, f) /\ UNCHANGED <<exec, runq, mode>>
        /\ \A u \in Thread \ {t} : block'[u] = block[u]
    BY <1>14 DEF SignalSelf, TypeOK
  <2> HIDE DEF f
  <2>3. f.op \in OpsOf(mode')
    BY <1>p, <2>1, <2>2 DEF OpsOf, OpenOps, SelfOps
  <2>4. QED BY <2>1, <2>2, <2>3, <1>e
<1>15. ASSUME NEW e \in Event, RegisterTimerEvent(t, e) PROVE ControlInv'
  BY <1>15, <1>s, <1>p DEF RegisterTimerEvent
<1>16. CASE DeregisterAllEvents(t)
  BY <1>16, <1>s, <1>p DEF DeregisterAllEvents
<1>17. ASSUME NEW m \in Mutex, LockThreadMutex(t, m) PROVE ControlInv'
  <2>1. CASE owner[m] = NoThread
    BY <1>17, <2>1, <1>s, <1>p DEF LockThreadMutex
  <2>2. CASE owner[m] # NoThread
    <3>1. LockFrame(m) \in Frame /\ LockFrame(m).op = "lock"
      BY <1>f
    <3>2. QED BY <1>17, <2>2, <3>1, <1>e DEF LockThreadMutex, OpsOf, MaskedOps
  <2>3. QED BY <2>1, <2>2
<1>18. ASSUME NEW m \in Mutex, TryLockThreadMutex(t, m) PROVE ControlInv'
  BY <1>18, <1>s, <1>p DEF TryLockThreadMutex
<1>19. CASE ExitCurrentThread(t)
  <2> DEFINE f == MkFrame("exit", "yes")
  <2>1. f \in Frame /\ f.op = "exit"
    BY <1>f DEF MaskedOps
  <2>2. /\ Program(t) /\ stack'[t] = <<f>> /\ UNCHANGED <<exec, runq>> /\ mode' = "masked"
        /\ \A u \in Thread \ {t} : stack'[u] = stack[u] /\ block'[u] = block[u]
    BY <1>19, SMT DEF ExitCurrentThread, TypeOK
  <2> HIDE DEF f
  <2>3. WellNested(stack'[t]) /\ OpOf(stack'[t]) = "exit"
    BY <2>1, <2>2, NestSingle
  <2>4. QED BY <2>2, <2>3, <1>p, OwnStep DEF OpsOf, MaskedOps
<1>20. ASSUME NEW m \in Mutex, UnlockThreadMutex(t, m) PROVE ControlInv'
  <2>1. Program(t) /\ UNCHANGED <<mode, stack, block>> /\ HandOff(m)
    BY <1>20 DEF UnlockThreadMutex
  <2>2. CASE waiters[m] = << >>
    BY <2>1, <2>2, <1>s, <1>p DEF HandOff
  <2>3. CASE waiters[m] # << >>
    <3>1. Head(waiters[m]) \in Thread /\ Wake(Head(waiters[m]))
      BY <2>1, <2>3, HeadTailProperties DEF HandOff, SignalNone, TypeOK
    <3>2. QED BY <2>1, <3>1, <1>s, <1>p, <1>k
  <2>4. QED BY <2>2, <2>3
<1>21. QED
  BY <1>1, <1>2, <1>3, <1>4, <1>5, <1>6, <1>7, <1>8, <1>9, <1>10, <1>11, <1>12, <1>13,
     <1>14, <1>15, <1>16, <1>17, <1>18, <1>19, <1>20 DEF ProgramStep, Unlock

\* What the steps of thread.scm in a masked section do to the control state,
\* and the ends of events and of signals to oneself.
LEMMA ControlMasked ==
  ASSUME TypeOK, ControlInv, RunQueueExact, TypeOK', RunQueueExact',
         NEW t \in Thread, MaskedStep(t) \/ EventEnd(t) \/ SelfStep(t)
  PROVE  ControlInv'
<1> USE DEF kernel, events, locks, joins
<1>t. StacksNested /\ WellNested(stack[t]) /\ stack[t] \in Seq(Frame) /\ block[t] \in Block
  BY DEF ControlInv, StacksNested, TypeOK
<1>f. \A o \in OpenOps \cup MaskedOps, b \in Block :
         MkFrame(o, b) \in Frame /\ MkFrame(o, b).op = o
  BY FrameTypes DEF MkFrame
<1>c. /\ MkFrame("resume", "no") \in Frame /\ MkFrame("resume", "no").op = "resume"
      /\ MkFrame("unblock", "no") \in Frame /\ MkFrame("unblock", "no").op = "unblock"
      /\ MkFrame("die", "yes") \in Frame /\ MkFrame("die", "yes").op = "die"
      /\ MkFrame("suspend", block[t]) \in Frame
      /\ MkFrame("suspend", block[t]).op = "suspend"
      /\ MkFrame("closure", block[t]) \in Frame
      /\ MkFrame("closure", block[t]).op = "closure"
      /\ MkFrame("closure", block[t]).saved = block[t]
  <2>1. /\ {"resume", "unblock", "die", "suspend", "closure"} \subseteq OpenOps \cup MaskedOps
        /\ "no" \in Block /\ "yes" \in Block
    BY DEF OpenOps, MaskedOps, Block
  <2>2. MkFrame("closure", block[t]).saved = block[t]
    BY DEF MkFrame
  <2>3. QED BY <2>1, <2>2, <1>f, <1>t
<1>i. ASSUME NEW ops, In(t, ops), ops \subseteq MaskedOps
      PROVE  /\ runq # << >> /\ t = current /\ OpOf(stack[t]) \in ops
             /\ OpOf(stack[t]) \notin {"program", "closure"}
             /\ stack[t] # << >> /\ Top(t).op = OpOf(stack[t]) /\ Top(t) \in Frame
             /\ mode = "masked"
  <2>1. /\ runq # << >> /\ t = current /\ OpOf(stack[t]) \in ops /\ mode = "masked"
        /\ OpOf(stack[t]) \notin {"program", "closure"}
    BY <1>i DEF In, MaskedOps
  <2>2. stack[t] # << >>
    BY <2>1 DEF OpOf
  <2>3. Top(t).op = OpOf(stack[t]) /\ Top(t) \in Frame
    BY <2>2, <1>t, HeadTailProperties DEF Top, OpOf
  <2>4. QED BY <2>1, <2>2, <2>3
<1>o. ASSUME Open(t), OpOf(stack[t]) # "program"
      PROVE  /\ runq # << >> /\ t = current /\ mode = "open"
             /\ stack[t] # << >> /\ Top(t).op = OpOf(stack[t]) /\ Top(t) \in Frame
  <2>1. stack[t] # << >>
    BY <1>o DEF OpOf
  <2>2. QED BY <1>o, <2>1, <1>t, HeadTailProperties DEF Open, Top, OpOf
\* The current thread returns and keeps the processor.
<1>r. ASSUME runq # << >>, t = current, OpOf(stack[t]) # "program", Pop(t),
             OpOf(stack[t]) # "closure",
             UNCHANGED <<exec, runq>>, mode' = ModeBelow(t),
             \A u \in Thread \ {t} : block'[u] = block[u]
      PROVE  ControlInv'
  <2>1. /\ WellNested(stack'[t]) /\ \A u \in Thread : u # t => stack'[u] = stack[u]
        /\ OpOf(stack'[t]) \in OpsOf(ModeBelow(t)) /\ OpOf(stack'[t]) # "suspend"
    <3>1. "suspend" \notin OpenOps \cup {"program", "lock"}
      BY DEF OpenOps, SelfOps
    <3>2. QED BY <1>r, <1>t, <3>1, PopFacts
  <2>2. QED BY <1>r, <2>1, OwnStep
<1>1. CASE HandleEvent(t)
  <2> DEFINE ops == {"suspend", "unblock", "allow", "resume"}
             f == [Top(t) EXCEPT !.any = TRUE]
             c == MkFrame("closure", block[t])
             rest == <<f>> \o Tail(stack[t])
  <2>1. In(t, ops) /\ ops \subseteq MaskedOps
    BY <1>1 DEF HandleEvent, Handling, MaskedOps
  <2>2. f \in Frame /\ f.op = OpOf(stack[t])
    BY <2>1, <1>i, FrameTypes, SMT DEF Frame
  <2>3. /\ rest \in Seq(Frame) /\ WellNested(rest) /\ OpOf(rest) = OpOf(stack[t])
        /\ rest # << >> /\ Head(rest) = f
    <3>1. Tail(stack[t]) \in Seq(Frame)
      BY <2>1, <1>i, <1>t, HeadTailProperties, SMT
    <3>2. /\ OpOf(stack[t]) \notin {"program", "closure"} /\ f.op # "closure"
          /\ OpOf(stack[t]) \in {"suspend", "resume"} => f.op \in {"suspend", "resume"}
      BY <2>1, <2>2, <1>i
    <3> HIDE DEF f
    <3>3. /\ rest \in Seq(Frame) /\ WellNested(rest) /\ OpOf(rest) = f.op
      BY <2>2, <3>2, <1>t, ReplaceFacts
    <3>4. rest # << >> /\ Head(rest) = f
      BY <2>2, <3>1, Pushed
    <3>5. QED BY <2>2, <3>3, <3>4
  <2>4. /\ UNCHANGED <<exec, runq>>
        /\ \A u \in Thread \ {t} : stack'[u] = stack[u] /\ block'[u] = block[u]
    <3>1. /\ \E s : stack' = [stack EXCEPT ![t] = s]
          /\ block' = block \/ block' = [block EXCEPT ![t] = "yes"]
          /\ UNCHANGED <<exec, runq>>
      BY <1>1 DEF HandleEvent
    <3>2. QED BY <3>1, SMT DEF TypeOK
  <2>5. CASE Head(pending[t]) = NoEvent
    <3>1. stack'[t] = rest /\ UNCHANGED <<mode, block>>
      BY <1>1, <2>5 DEF HandleEvent, TypeOK
    <3> HIDE DEF rest, f
    <3>2. OpOf(stack'[t]) = "suspend" => block'[t] # "yes"
      BY <2>3, <3>1, <1>t DEF StacksNested
    <3>3. OpOf(stack'[t]) \in OpsOf(mode')
      BY <2>1, <2>3, <3>1, <1>i DEF OpsOf
    <3>4. QED BY <2>1, <2>3, <2>4, <3>1, <3>2, <3>3, <1>i, OwnStep
  <2>6. CASE Head(pending[t]) # NoEvent
    <3>1. stack'[t] = <<c>> \o rest /\ mode' = "open"
      BY <1>1, <2>6 DEF HandleEvent, TypeOK
    <3>2. c \in Frame /\ c.op = "closure" /\ c.saved = block[t]
      BY <1>c
    <3> HIDE DEF rest, f, c
    <3>3. Calls(c, Head(rest))
      BY <2>1, <2>2, <2>3, <3>2, <1>i, <1>t DEF Calls, StacksNested
    <3>4. WellNested(stack'[t]) /\ OpOf(stack'[t]) = "closure"
      BY <2>3, <3>1, <3>2, <3>3, NestPush, Pushed
    <3>5. OpOf(stack'[t]) \in OpsOf(mode')
      BY <3>1, <3>4 DEF OpsOf, OpenOps
    <3>6. runq # << >> /\ t = current
      BY <2>1 DEF In
    <3>7. QED BY <2>4, <3>4, <3>5, <3>6, OwnStep
  <2>7. QED BY <2>5, <2>6
<1>2. CASE SuspendReturn(t)
  <2>1. In(t, {"suspend"}) /\ {"suspend"} \subseteq MaskedOps
    BY <1>2 DEF SuspendReturn, MaskedOps
  <2>2. CASE Top(t).any
    <3>1. Pop(t) /\ mode' = ModeBelow(t) /\ UNCHANGED <<exec, runq>>
          /\ \A u \in Thread \ {t} : block'[u] = block[u]
      BY <1>2, <2>2 DEF SuspendReturn, TypeOK
    <3>2. QED BY <2>1, <3>1, <1>i, <1>r, SMT
  <2>3. CASE ~Top(t).any
    <3> DEFINE f == MkFrame("resume", "no")
    <3>1. /\ stack'[t] = <<f>> \o Tail(stack[t])
          /\ \A u \in Thread \ {t} : stack'[u] = stack[u] /\ exec'[u] = exec[u]
          /\ UNCHANGED block
          /\ mode' = IF runq' = << >> THEN "open" ELSE "masked"
      BY <1>2, <2>3 DEF SuspendReturn, NotRunning, TypeOK
    <3>2. f \in Frame /\ f.op = "resume"
      BY <1>c
    <3> HIDE DEF f
    <3>3. WellNested(stack'[t]) /\ OpOf(stack'[t]) = "resume"
      BY <2>1, <3>1, <3>2, <1>i, <1>t, ReplaceFacts
    <3>4. runq # << >> /\ t = current
      BY <2>1 DEF In
    <3>5. QED BY <3>1, <3>3, <3>4, SwitchStep
  <2>4. QED BY <2>2, <2>3
<1>3. CASE ResumeReturn(t)
  <2>1. In(t, {"resume"}) /\ {"resume"} \subseteq MaskedOps
    BY <1>3 DEF ResumeReturn, MaskedOps
  <2>2. /\ runq # << >> /\ t = current /\ OpOf(stack[t]) # "program"
        /\ OpOf(stack[t]) # "closure"
    BY <2>1 DEF In
  <2>3. /\ Pop(t) /\ UNCHANGED <<exec, runq>> /\ mode' = ModeBelow(t)
        /\ \A u \in Thread \ {t} : block'[u] = block[u]
    BY <1>3 DEF ResumeReturn, TypeOK
  <2>4. QED BY <2>2, <2>3, <1>r
<1>4. CASE UnblockReturn(t)
  <2>1. In(t, {"unblock", "allow"}) /\ {"unblock", "allow"} \subseteq MaskedOps
    BY <1>4 DEF UnblockReturn, MaskedOps
  <2>2. /\ runq # << >> /\ t = current /\ OpOf(stack[t]) # "program"
        /\ OpOf(stack[t]) # "closure"
    BY <2>1 DEF In
  <2>3. /\ Pop(t) /\ UNCHANGED <<exec, runq>> /\ mode' = ModeBelow(t)
        /\ \A u \in Thread \ {t} : block'[u] = block[u]
    BY <1>4 DEF UnblockReturn, TypeOK
  <2>4. QED BY <2>2, <2>3, <1>r
<1>5. CASE LockLoop(t)
  <2>1. In(t, {"lock"}) /\ {"lock"} \subseteq MaskedOps
    BY <1>5 DEF LockLoop, MaskedOps
  <2>i. /\ runq # << >> /\ t = current /\ OpOf(stack[t]) # "program"
        /\ OpOf(stack[t]) # "closure" /\ OpOf(stack[t]) = "lock" /\ mode = "masked"
    BY <2>1 DEF In
  <2>2. CASE owner[Top(t).mutex] = t
    <3>1. Pop(t) /\ UNCHANGED <<exec, runq, block>> /\ mode' = ModeBelow(t)
      BY <1>5, <2>2 DEF LockLoop
    <3>2. QED BY <2>i, <3>1, <1>r
  <2>3. CASE owner[Top(t).mutex] # t
    <3>1. /\ Push(t, MkFrame("suspend", block[t])) /\ UNCHANGED <<exec, runq, mode>>
          /\ block'[t] # "yes" /\ \A u \in Thread \ {t} : block'[u] = block[u]
      BY <1>5, <2>3 DEF LockLoop, EnterSuspend, TypeOK
    <3>2. /\ WellNested(stack'[t]) /\ OpOf(stack'[t]) = "suspend"
          /\ \A u \in Thread : u # t => stack'[u] = stack[u]
      BY <2>i, <3>1, <1>c, <1>t, PushFacts
    <3>3. OpOf(stack'[t]) \in OpsOf(mode')
      BY <2>i, <3>1, <3>2 DEF OpsOf, MaskedOps
    <3>4. QED BY <2>i, <3>1, <3>2, <3>3, OwnStep
  <2>4. QED BY <2>2, <2>3
<1>k. ASSUME NEW u \in Thread, Wake(u), runq # << >>
      PROVE  /\ runq' # << >> /\ Head(runq') = Head(runq)
             /\ \A v \in Thread : exec[v] \in {"unborn", "dead"} => exec'[v] = exec[v]
  <2>1. Append(runq, u) # << >> /\ Head(Append(runq, u)) = Head(runq)
    BY <1>k, HeadAppend DEF TypeOK
  <2>2. QED BY <1>k, <2>1 DEF Wake, Wakes, TypeOK
\* The current thread goes on with its loop and may wake another thread.
<1>l. ASSUME NEW ops, In(t, ops), ops \subseteq MaskedOps, ops \cap {"suspend"} = {},
             UNCHANGED <<stack, block, mode>>, runq' # << >>, Head(runq') = Head(runq),
             \A v \in Thread : exec[v] \in {"unborn", "dead"} => exec'[v] = exec[v]
      PROVE  ControlInv'
  <2>1. OpOf(stack'[t]) \in OpsOf(mode') /\ OpOf(stack'[t]) # "suspend"
    BY <1>l, <1>i DEF OpsOf
  <2>2. QED BY <1>l, <2>1, <1>i, <1>t, OwnStep
<1>6. CASE Release(t)
  <2>1. PICK r \in Thread \X Thread \X Event : Wake(r[2])
    BY <1>6 DEF Release, TypeOK
  <2>2. /\ In(t, {"release", "die"}) /\ {"release", "die"} \subseteq MaskedOps
        /\ UNCHANGED <<stack, block, mode>>
    BY <1>6 DEF Release, MaskedOps
  <2>3. QED BY <2>1, <2>2, <1>i, <1>k, <1>l
<1>7. CASE ReleaseReturn(t)
  <2>1. In(t, {"release"}) /\ {"release"} \subseteq MaskedOps
    BY <1>7 DEF ReleaseReturn, MaskedOps
  <2>2. QED BY <1>7, <2>1, <1>i, <1>r, SMT DEF ReleaseReturn
<1>8. CASE DisassociateMutex(t)
  <2>1. /\ In(t, {"exit"}) /\ {"exit"} \subseteq MaskedOps /\ UNCHANGED <<stack, block, mode>>
    BY <1>8 DEF DisassociateMutex, MaskedOps
  <2>2. PICK m \in Mutex : HandOff(m) \/ UNCHANGED <<exec, runq>>
    BY <1>8 DEF DisassociateMutex
  <2>3. UNCHANGED <<exec, runq>> \/ \E u \in Thread : Wake(u)
    BY <2>2, HeadTailProperties DEF HandOff, SignalNone, TypeOK
  <2>4. QED BY <2>1, <2>3, <1>i, <1>k, <1>l, SMT
<1>9. CASE ReleaseJoined(t)
  <2>1. In(t, {"exit"}) /\ {"exit"} \subseteq MaskedOps
    BY <1>9 DEF ReleaseJoined, MaskedOps
  <2>2. /\ stack'[t] = <<MkFrame("die", "yes")>> /\ UNCHANGED <<exec, runq, mode, block>>
        /\ \A u \in Thread \ {t} : stack'[u] = stack[u]
    BY <1>9 DEF ReleaseJoined, TypeOK
  <2>3. WellNested(stack'[t]) /\ OpOf(stack'[t]) = "die"
    BY <2>2, <1>c, NestSingle
  <2>4. QED BY <2>1, <2>2, <2>3, <1>i, OwnStep DEF OpsOf, MaskedOps
<1>10. CASE Die(t)
  <2>1. In(t, {"die"}) /\ {"die"} \subseteq MaskedOps
    BY <1>10 DEF Die, MaskedOps
  <2>2. /\ Pop(t) /\ UNCHANGED block /\ exec'[t] = "dead"
        /\ \A u \in Thread \ {t} : exec'[u] = exec[u]
        /\ mode' = IF runq' = << >> THEN "open" ELSE "masked"
    BY <1>10 DEF Die, NotRunning, TypeOK
  <2>3. /\ WellNested(stack'[t]) /\ \A u \in Thread : u # t => stack'[u] = stack[u]
        /\ OpOf(stack'[t]) # "suspend"
    <3>1. "suspend" \notin OpenOps \cup {"program", "lock"}
      BY DEF OpenOps, SelfOps
    <3>2. QED BY <2>1, <2>2, <3>1, <1>i, <1>t, PopFacts
  <2>4. QED BY <2>1, <2>2, <2>3, <1>i, SwitchStep, SMT
<1>11. CASE ClosureReturn(t)
  <2>1. /\ Open(t) /\ OpOf(stack[t]) = "closure" /\ Pop(t) /\ mode' = "masked"
        /\ UNCHANGED <<exec, runq>> /\ block'[t] = Top(t).saved
        /\ \A u \in Thread \ {t} : block'[u] = block[u]
    BY <1>11 DEF ClosureReturn, TypeOK
  <2>2. /\ WellNested(stack'[t]) /\ \A u \in Thread : u # t => stack'[u] = stack[u]
        /\ OpOf(stack'[t]) \in {"suspend", "unblock", "allow", "resume"}
        /\ OpOf(stack'[t]) = "suspend" => Top(t).saved # "yes"
    BY <2>1, <1>t, PopFacts
  <2>3. OpOf(stack'[t]) \in OpsOf(mode')
    BY <2>1, <2>2 DEF OpsOf, MaskedOps
  <2>4. QED BY <2>1, <2>2, <2>3, <1>o, OwnStep
<1>12. CASE Escape(t)
  <2>1. /\ Open(t) /\ OpOf(stack[t]) = "closure" /\ mode' = "masked"
        /\ UNCHANGED <<exec, runq, block>> /\ stack'[t] = <<MkFrame("unblock", "no")>>
        /\ \A u \in Thread \ {t} : stack'[u] = stack[u]
    BY <1>12 DEF Escape, TypeOK
  <2>2. WellNested(stack'[t]) /\ OpOf(stack'[t]) = "unblock"
    BY <2>1, <1>c, NestSingle
  <2>3. QED BY <2>1, <2>2, <1>o, OwnStep DEF OpsOf, MaskedOps
<1>13. CASE SelfLook(t)
  <2>1. Open(t) /\ OpOf(stack[t]) = "self"
    BY <1>13 DEF SelfLook
  <2>2. PICK o \in SelfOps :
          stack' = [stack EXCEPT ![t] = <<[Top(t) EXCEPT !.op = o]>> \o Tail(stack[t])]
    BY <1>13 DEF SelfLook, SelfOps
  <2> DEFINE f == [Top(t) EXCEPT !.op = o]
  <2>3. f \in Frame /\ f.op = o /\ o \in OpenOps /\ o # "closure" /\ o # "suspend"
    BY <2>1, <1>o, FrameTypes DEF Frame, SelfOps, OpenOps
  <2>4. stack'[t] = <<f>> \o Tail(stack[t]) /\ \A u \in Thread \ {t} : stack'[u] = stack[u]
    BY <2>2 DEF TypeOK
  <2> HIDE DEF f
  <2>5. WellNested(stack'[t]) /\ OpOf(stack'[t]) = o
    BY <2>1, <2>3, <2>4, <1>t, ReplaceFacts
  <2>6. QED BY <1>13, <2>1, <2>3, <2>4, <2>5, <1>o, OwnStep, SMT DEF SelfLook, OpsOf
<1>14. CASE SelfAdd(t)
  <2>1. /\ Open(t) /\ OpOf(stack[t]) \in {"enqueue", "replace", "skip"}
        /\ UNCHANGED <<exec, runq, block>>
    BY <1>14 DEF SelfAdd
  <2>2. OpOf(stack[t]) \notin {"program", "closure", "suspend", "resume"}
    BY <2>1
  <2>3. CASE Top(t).saved = "no"
    <3> DEFINE f == MkFrame("unblock", "no")
    <3>1. /\ stack'[t] = <<f>> \o Tail(stack[t]) /\ mode' = "masked"
          /\ \A u \in Thread \ {t} : stack'[u] = stack[u]
      BY <1>14, <2>3, SMT DEF SelfAdd, TypeOK
    <3>2. f \in Frame /\ f.op = "unblock"
      BY <1>c
    <3> HIDE DEF f
    <3>3. WellNested(stack'[t]) /\ OpOf(stack'[t]) = "unblock"
      BY <2>2, <3>1, <3>2, <1>t, ReplaceFacts
    <3>4. QED BY <2>1, <2>2, <3>1, <3>3, <1>o, OwnStep DEF OpsOf, MaskedOps
  <2>4. CASE Top(t).saved # "no"
    BY <1>14, <2>1, <2>2, <2>4, <1>o, <1>r DEF SelfAdd
  <2>5. QED BY <2>3, <2>4
<1>15. QED
  BY <1>1, <1>2, <1>3, <1>4, <1>5, <1>6, <1>7, <1>8, <1>9, <1>10, <1>11, <1>12,
     <1>13, <1>14 DEF MaskedStep, EventEnd, SelfStep

\* What the interrupt handler does to the control state, and a signal that
\* ends a wait for i/o.
LEMMA ControlInterrupt ==
  ASSUME TypeOK, ControlInv, RunQueueExact, TypeOK', RunQueueExact', Interrupt \/ Idle
  PROVE  ControlInv'
<1> USE DEF kernel, events, locks, joins
\* The stacks stay, and the queue loses no thread.
<1>s. ASSUME UNCHANGED <<stack, block>>,
             \A u \in Thread : exec[u] \in {"unborn", "dead"} => exec'[u] = exec[u],
             runq # << >> => runq' # << >> /\ Head(runq') = Head(runq)
      PROVE  StacksNested' /\ SwitchedOut' /\ (runq # << >> => current' = current)
  <2>1. StacksNested'
    BY <1>s DEF ControlInv, StacksNested
  <2>2. runq # << >> => current' = current
    BY <1>s DEF current
  <2>3. SwitchedOut'
    BY <1>s, <2>2 DEF ControlInv, SwitchedOut
  <2>4. QED BY <2>1, <2>2, <2>3
<1>k. ASSUME NEW u \in Thread, Wake(u)
      PROVE  /\ \A v \in Thread : exec[v] \in {"unborn", "dead"} => exec'[v] = exec[v]
             /\ runq # << >> => runq' # << >> /\ Head(runq') = Head(runq)
             /\ runq = << >> => IF Wakes(u) THEN runq' # << >> /\ Head(runq') = u
                                            ELSE runq' = << >>
  <2>1. /\ Append(runq, u) # << >>
        /\ runq # << >> => Head(Append(runq, u)) = Head(runq)
    BY HeadAppend DEF TypeOK
  <2>2. Append(<< >>, u) # << >> /\ Head(Append(<< >>, u)) = u
    BY SMT
  <2>3. \A v \in Thread : exec[v] \in {"unborn", "dead"} => exec'[v] = exec[v]
    BY <1>k DEF Wake, Wakes, TypeOK
  <2>4. CASE Wakes(u)
    BY <1>k, <2>1, <2>2, <2>3, <2>4 DEF Wake
  <2>5. CASE ~Wakes(u)
    BY <1>k, <2>3, <2>5 DEF Wake
  <2>6. QED BY <2>4, <2>5
\* A thread that is woken has a continuation.
<1>w. ASSUME NEW u \in Thread, Wakes(u), runq = << >> PROVE OpOf(stack[u]) = "resume"
  BY <1>w DEF Wakes, ControlInv, SwitchedOut
<1>1. CASE TimerInterrupt
  <2>1. UNCHANGED <<exec, runq, stack, block>> /\ mode = "open" /\ mode' = "timer"
    BY <1>1 DEF TimerInterrupt
  <2>2. MaskedExactly'
    BY <2>1 DEF ControlInv, MaskedExactly, OpsOf, current
  <2>3. QED BY <2>1, <2>2, <1>s DEF ControlInv
<1>2. CASE DeliverTimerEvent
  <2>1. PICK r \in Thread \X Closure : Wake(r[1])
    BY <1>2 DEF DeliverTimerEvent, TypeOK
  <2>2. UNCHANGED <<stack, block, mode>> /\ mode \in {"timer", "allow"}
    BY <1>2 DEF DeliverTimerEvent
  <2>3. StacksNested' /\ SwitchedOut' /\ (runq # << >> => current' = current)
    BY <2>1, <2>2, <1>k, <1>s
  <2>4. CASE runq # << >>
    <3>1. runq' # << >> /\ current' = current
      BY <2>1, <2>3, <2>4, <1>k
    <3>2. QED BY <2>2, <2>3, <2>4, <3>1 DEF ControlInv, MaskedExactly
  <2>5. CASE runq = << >>
    <3>1. mode' = "timer"
      BY <2>2, <2>5 DEF ControlInv, MaskedExactly
    <3>2. CASE Wakes(r[1])
      <4>1. runq' # << >> /\ current' = r[1] /\ OpOf(stack'[r[1]]) = "resume"
        BY <2>1, <2>2, <2>5, <3>2, <1>k, <1>w DEF current
      <4>2. QED BY <2>3, <3>1, <4>1 DEF ControlInv, MaskedExactly, OpsOf
    <3>3. CASE ~Wakes(r[1])
      <4>1. runq' = << >>
        BY <2>1, <2>5, <3>3, <1>k
      <4>2. QED BY <2>3, <3>1, <4>1 DEF ControlInv, MaskedExactly
    <3>4. QED BY <3>2, <3>3
  <2>6. QED BY <2>4, <2>5
<1>3. CASE TimerEnd
  <2>1. CASE runq = << >>
    <3>1. UNCHANGED <<stack, runq, exec, block>> /\ mode' = "open"
      BY <1>3, <2>1 DEF TimerEnd
    <3>2. QED BY <2>1, <3>1, <1>s DEF ControlInv, MaskedExactly
  <2>2. CASE runq # << >> /\ OpOf(stack[current]) = "resume"
    <3>1. UNCHANGED <<stack, runq, exec, block>> /\ mode' = "masked"
      BY <1>3, <2>2 DEF TimerEnd
    <3>2. QED BY <2>2, <3>1, <1>s DEF ControlInv, MaskedExactly, OpsOf, MaskedOps
  <2>3. CASE runq # << >> /\ OpOf(stack[current]) # "resume"
    <3> DEFINE f == MkFrame("resume", "no")
    <3>1. f \in Frame /\ f.op = "resume"
      BY FrameTypes DEF MkFrame, MaskedOps, Block
    <3>2. /\ Push(current, f) /\ UNCHANGED <<exec, block>>
          /\ mode = "timer" /\ mode' = "masked"
      BY <1>3, <2>3 DEF TimerEnd
    <3> HIDE DEF f
    <3>3. current \in Thread /\ OpOf(stack[current]) \in OpenOps \cup {"program"}
      BY <2>3, <3>2, QueueTypes DEF ControlInv, MaskedExactly, OpsOf
    <3>4. /\ WellNested(stack'[current]) /\ OpOf(stack'[current]) = "resume"
          /\ \A u \in Thread : u # current => stack'[u] = stack[u]
      BY <3>1, <3>2, <3>3, PushFacts DEF ControlInv
    <3>5. runq' # << >>
      BY <1>3, <2>3, QueueTypes, SMT DEF TimerEnd, Rotate
    <3>6. QED
      <4> DEFINE t == current
      <4>1. t \in Thread /\ t = current
        BY <3>3
      <4> HIDE DEF t
      <4>2. QED BY <2>3, <3>2, <3>4, <3>5, <4>1, SwitchStep
  <2>4. QED BY <2>1, <2>2, <2>3
<1>4. CASE AllowEnd
  <2>1. UNCHANGED <<exec, runq, stack, block>> /\ mode = "allow" /\ mode' = "masked"
    BY <1>4 DEF AllowEnd
  <2>2. MaskedExactly'
    BY <2>1 DEF ControlInv, MaskedExactly, OpsOf, MaskedOps, current
  <2>3. QED BY <2>1, <2>2, <1>s DEF ControlInv
<1>5. CASE Idle
  <2>1. PICK u \in Thread :
          /\ Wake(u) /\ UNCHANGED <<stack, block>> /\ runq = << >>
          /\ mode' = IF Wakes(u) THEN "masked" ELSE "open"
    BY <1>5 DEF Idle, SignalFromIdle, SignalEvent
  <2>2. StacksNested' /\ SwitchedOut'
    BY <2>1, <1>k, <1>s
  <2>3. CASE Wakes(u)
    <3>1. runq' # << >> /\ current' = u /\ OpOf(stack'[u]) = "resume" /\ mode' = "masked"
      BY <2>1, <2>3, <1>k, <1>w DEF current
    <3>2. QED BY <2>2, <3>1 DEF ControlInv, MaskedExactly, OpsOf, MaskedOps
  <2>4. CASE ~Wakes(u)
    <3>1. runq' = << >> /\ mode' = "open"
      BY <2>1, <2>4, <1>k
    <3>2. QED BY <2>2, <3>1 DEF ControlInv, MaskedExactly
  <2>5. QED BY <2>3, <2>4
<1>6. QED BY <1>1, <1>2, <1>3, <1>4, <1>5 DEF Interrupt

\* At the start one thread runs and nobody is inside an operation.
LEMMA ControlInit == Init => ControlInv
<1> SUFFICES ASSUME Init PROVE ControlInv
  OBVIOUS
<1>1. runq # << >> /\ current = Initial /\ Initial \in Thread
  BY ConstantsAssumption, SMT DEF Init, current
<1>2. \A t \in Thread : stack[t] = << >> /\ OpOf(stack[t]) = "program"
  BY DEF Init, OpOf
<1>3. MaskedExactly
  BY <1>1, <1>2 DEF MaskedExactly, OpsOf, Init
<1>4. WellNested(<< >>)
  BY EmptySeq, SMT DEF WellNested
<1>5. StacksNested
  BY <1>2, <1>4 DEF StacksNested
<1>6. SwitchedOut
  BY <1>1 DEF SwitchedOut, Init
<1>7. QED BY <1>3, <1>5, <1>6 DEF ControlInv

\* Every step of thread.scm, and the timer, keeps the masks and the stacks in order.
LEMMA ControlNext ==
  ASSUME TypeOK, ControlInv, RunQueueExact, TypeOK', RunQueueExact', [Next]_vars
  PROVE  ControlInv'
<1>1. CASE UNCHANGED vars
  <2>1. UNCHANGED <<exec, runq, mode, stack, block>>
    BY <1>1 DEF vars, kernel, events
  <2>2. QED BY <2>1 DEF ControlInv, MaskedExactly, StacksNested, SwitchedOut, current
<1>2. CASE Next
  BY <1>2, ControlProgram, ControlMasked, ControlInterrupt DEF Next
<1>3. QED BY <1>1, <1>2

\* Whatever the program does and wherever the timer interrupt comes, a section
\* that thread.scm runs without interrupts is left by returning from it and is
\* never interrupted, the activations of a thread nest as the code's calls
\* do, and a thread that is alive and not current has the continuation that
\* run-thread asserts it to have.
THEOREM ControlCorrect == Spec => []ControlSound
<1>1. TypeOK /\ RunQueueExact /\ ControlInv /\ TypeOK' /\ RunQueueExact' /\ [Next]_vars
        => ControlInv'
  BY ControlNext
<1>2. ControlInv => ControlSound
  BY DEF ControlInv, ControlSound
<1>3. QED BY <1>1, <1>2, ControlInit, TypeCorrect, RunQueueCorrect, PTL DEF Spec


-----------------------------------------------------------------------------
\* A step that changes only what belongs to the current thread, and does not
\* put it to sleep.
LEMMA AwakeOwn ==
  ASSUME NoLostWakeup, NEW t \in Thread, exec'[t] # "waiting",
         \A u \in Thread \ {t} :
            exec'[u] = exec[u] /\ pending'[u] = pending[u] /\ block'[u] = block[u]
  PROVE  NoLostWakeup'
BY DEF NoLostWakeup

\* A signal to a thread: one that waits is woken.
LEMMA AwakeSignal ==
  ASSUME TypeOK, NoLostWakeup, NEW u \in Thread, NEW q,
         pending' = [pending EXCEPT ![u] = q], Wake(u), UNCHANGED block
  PROVE  NoLostWakeup'
<1>1. \A v \in Thread \ {u} :
         exec'[v] = exec[v] /\ pending'[v] = pending[v] /\ block'[v] = block[v]
  BY DEF Wake, TypeOK
<1>2. exec'[u] # "waiting"
  BY DEF Wake, Wakes, TypeOK, NoLostWakeup
<1>3. QED BY <1>1, <1>2, AwakeOwn

\* A mutex handed over leaves nobody asleep with an event.
LEMMA AwakeHandOff ==
  ASSUME TypeOK, NoLostWakeup, NEW m \in Mutex, HandOff(m), UNCHANGED block
  PROVE  NoLostWakeup'
<1>1. CASE waiters[m] = << >>
  BY <1>1 DEF HandOff, NoLostWakeup
<1>2. CASE waiters[m] # << >>
  <2>1. Head(waiters[m]) \in Thread
    BY <1>2, HeadTailProperties DEF TypeOK
  <2>2. QED BY <1>2, <2>1, AwakeSignal DEF HandOff, SignalNone
<1>3. QED BY <1>1, <1>2

\* No step of thread.scm, nor the timer, leaves a thread asleep with an event.
LEMMA AwakeNext ==
  ASSUME TypeOK, RunQueueExact, ControlInv, NoLostWakeup, Next
  PROVE  NoLostWakeup'
<1> USE DEF kernel, events
<1>c. runq # << >> => exec[current] # "waiting" /\ current \in Thread
  BY CurrentRunning DEF Running
<1>1. ASSUME NEW t \in Thread, ProgramStep(t) PROVE NoLostWakeup'
  <2>p. ASSUME Program(t) PROVE exec[t] # "waiting"
    BY <2>p, <1>c DEF Program, Open
  <2>1. CASE \E u \in Thread : CreateThread(t, u)
    <3>1. PICK u \in Thread : CreateThread(t, u)
      BY <2>1
    <3>2. QED BY <3>1, AwakeOwn DEF CreateThread, TypeOK
  <2>2. CASE \E u \in Thread, d \in BOOLEAN, e \in Event : RestartThread(t, u, d, e)
    <3>1. PICK u \in Thread, d \in BOOLEAN, e \in Event : RestartThread(t, u, d, e)
      BY <2>2
    <3>2. /\ exec' = [exec EXCEPT ![u] = "running"] /\ UNCHANGED block
          /\ \E q : pending' = [pending EXCEPT ![u] = q]
      BY <3>1 DEF RestartThread
    <3>3. QED BY <3>2, AwakeOwn DEF TypeOK
  <2>3. CASE \E u \in Thread, e \in Event : SignalThreadEvent(t, u, e)
    BY <2>3, AwakeSignal DEF SignalThreadEvent, SignalEvent
  <2>4. CASE StopCurrentThread(t)
    BY <2>4, AwakeOwn DEF StopCurrentThread, NotRunning, TypeOK
  <2>5. CASE YieldCurrentThread(t)
    BY <2>5, AwakeOwn DEF YieldCurrentThread, TypeOK
  <2>6. CASE \E state \in Running : SetPreempt(t, state)
    <3>1. PICK state \in Running : SetPreempt(t, state)
      BY <2>6
    <3>2. exec'[t] # "waiting"
      BY <3>1 DEF SetPreempt, Running, TypeOK
    <3>3. QED BY <3>1, <3>2, AwakeOwn DEF SetPreempt, TypeOK
  <2>7. CASE \/ \E u \in Thread, e \in Event : JoinExited(t, u, e)
             \/ SuspendCurrentThread(t) \/ BlockThreadEvents(t)
             \/ AllowThreadEventDelivery(t) \/ \E e \in Event : SignalSelf(t, e)
             \/ DeregisterAllEvents(t) \/ ExitCurrentThread(t)
    <3>1. /\ Program(t) /\ UNCHANGED exec
          /\ \A u \in Thread \ {t} : pending'[u] = pending[u] /\ block'[u] = block[u]
      BY <2>7 DEF TypeOK, JoinExited, SuspendCurrentThread, EnterSuspend, BlockThreadEvents,
                  AllowThreadEventDelivery, SignalSelf, DeregisterAllEvents,
                  ExitCurrentThread
    <3>2. QED BY <3>1, <2>p, AwakeOwn
  <2>8. CASE \/ \E u \in Thread : DetachThread(t, u)
             \/ \E u \in Thread, e \in Event : JoinThread(t, u, e)
             \/ \E e \in Event : RegisterTimerEvent(t, e)
             \/ \E m \in Mutex : LockThreadMutex(t, m) \/ TryLockThreadMutex(t, m)
             \/ UnblockThreadEvents(t)
    <3>1. UNCHANGED <<exec, pending, block>>
      BY <2>8 DEF DetachThread, JoinThread, RegisterTimerEvent, LockThreadMutex,
                  TryLockThreadMutex, UnblockThreadEvents
    <3>2. QED BY <3>1 DEF NoLostWakeup
  <2>9. QED BY <1>1, <2>1, <2>2, <2>3, <2>4, <2>5, <2>6, <2>7, <2>8 DEF ProgramStep
<1>2. ASSUME NEW t \in Thread, Unlock(t) PROVE NoLostWakeup'
  BY <1>2, AwakeHandOff DEF Unlock, UnlockThreadMutex
<1>3. ASSUME NEW t \in Thread, EventEnd(t) \/ SelfStep(t) PROVE NoLostWakeup'
  <2>1. /\ Open(t) /\ UNCHANGED exec
        /\ \A u \in Thread \ {t} : pending'[u] = pending[u] /\ block'[u] = block[u]
    BY <1>3 DEF EventEnd, SelfStep, ClosureReturn, Escape, SelfLook, SelfAdd, TypeOK
  <2>2. QED BY <2>1, <1>c, AwakeOwn DEF Open
<1>4. ASSUME NEW t \in Thread, MaskedStep(t) PROVE NoLostWakeup'
  <2>1. CASE \/ HandleEvent(t) \/ ResumeReturn(t) \/ UnblockReturn(t) \/ LockLoop(t)
             \/ ReleaseReturn(t) \/ ReleaseJoined(t)
    <3>1. /\ runq # << >> /\ t = current /\ UNCHANGED exec
          /\ \A u \in Thread \ {t} : pending'[u] = pending[u] /\ block'[u] = block[u]
      <4>1. runq # << >> /\ t = current /\ UNCHANGED exec
        BY <2>1 DEF HandleEvent, Handling, ResumeReturn, UnblockReturn, LockLoop, ReleaseReturn,
                    ReleaseJoined, In
      <4>2. pending' = pending \/ \E q : pending' = [pending EXCEPT ![t] = q]
        BY <2>1 DEF HandleEvent, ResumeReturn, UnblockReturn, LockLoop, ReleaseReturn,
                    ReleaseJoined
      <4>3. block' = block \/ \E b : block' = [block EXCEPT ![t] = b]
        BY <2>1 DEF HandleEvent, ResumeReturn, UnblockReturn, LockLoop, EnterSuspend,
                    ReleaseReturn, ReleaseJoined
      <4>4. QED BY <4>1, <4>2, <4>3 DEF TypeOK
    <3>2. QED BY <3>1, <1>c, AwakeOwn
  <2>2. CASE SuspendReturn(t)
    <3>1. runq # << >> /\ t = current /\ OpOf(stack[t]) = "suspend" /\ pending[t] = << >>
          /\ UNCHANGED pending
      BY <2>2 DEF SuspendReturn, In
    <3>2. CASE Top(t).any
      BY <2>2, <3>1, <3>2, <1>c, AwakeOwn DEF SuspendReturn, TypeOK
    <3>3. CASE ~Top(t).any
      <4>1. block[t] # "yes"
        BY <3>1 DEF ControlInv, StacksNested
      <4>2. UNCHANGED block /\ \A u \in Thread \ {t} : exec'[u] = exec[u]
        BY <2>2, <3>3 DEF SuspendReturn, NotRunning, TypeOK
      <4>3. QED BY <3>1, <4>1, <4>2 DEF NoLostWakeup
    <3>4. QED BY <3>2, <3>3
  <2>3. CASE Die(t)
    BY <2>3, AwakeOwn DEF Die, NotRunning, TypeOK
  <2>4. CASE Release(t)
    <3>1. PICK r \in Thread \X Thread \X Event :
             /\ pending' = [pending EXCEPT ![r[2]] = AddEvent(pending[r[2]], r[3])]
             /\ Wake(r[2])
      BY <2>4 DEF Release, TypeOK
    <3>2. QED BY <2>4, <3>1, AwakeSignal DEF Release
  <2>5. CASE DisassociateMutex(t)
    <3>1. PICK m \in Mutex : HandOff(m) \/ UNCHANGED <<exec, pending>>
      BY <2>5 DEF DisassociateMutex
    <3>2. UNCHANGED block
      BY <2>5 DEF DisassociateMutex
    <3>3. CASE UNCHANGED <<exec, pending>>
      BY <3>2, <3>3 DEF NoLostWakeup
    <3>4. QED BY <3>1, <3>2, <3>3, AwakeHandOff
  <2>6. QED BY <1>4, <2>1, <2>2, <2>3, <2>4, <2>5 DEF MaskedStep
<1>5. CASE Interrupt
  <2>1. CASE TimerInterrupt \/ TimerEnd \/ AllowEnd
    <3>1. UNCHANGED <<exec, pending, block>>
      BY <2>1 DEF TimerInterrupt, TimerEnd, AllowEnd
    <3>2. QED BY <3>1 DEF NoLostWakeup
  <2>2. CASE DeliverTimerEvent
    <3>1. PICK r \in Thread \X Closure :
             /\ pending' = [pending EXCEPT ![r[1]] = AddEvent(pending[r[1]], r[2])]
             /\ Wake(r[1])
      BY <2>2 DEF DeliverTimerEvent, TypeOK
    <3>2. QED BY <2>2, <3>1, AwakeSignal DEF DeliverTimerEvent
  <2>3. QED BY <1>5, <2>1, <2>2 DEF Interrupt
<1>6. CASE Idle
  BY <1>6, AwakeSignal DEF Idle, SignalFromIdle, SignalEvent
<1>7. QED BY <1>1, <1>2, <1>3, <1>4, <1>5, <1>6 DEF Next

\* No wake-up is lost: a thread that waits has no pending event and has left
\* its events unblocked, so that the next signal-thread-event makes it run.
\* This holds for any number of threads and of events, however the signals,
\* the timer and the thread's own blocking and unblocking of events interleave.
THEOREM WakeupCorrect == Spec => []NoLostWakeup
<1>1. Init => NoLostWakeup
  BY DEF Init, NoLostWakeup
<1>2. TypeOK /\ RunQueueExact /\ ControlInv /\ NoLostWakeup /\ [Next]_vars => NoLostWakeup'
  <2> SUFFICES ASSUME TypeOK, RunQueueExact, ControlInv, NoLostWakeup, [Next]_vars
               PROVE  NoLostWakeup'
    OBVIOUS
  <2>1. CASE UNCHANGED vars
    BY <2>1 DEF NoLostWakeup, vars, kernel, events
  <2>2. QED BY <2>1, AwakeNext
<1>3. ControlSound => ControlInv
  BY DEF ControlInv, ControlSound
<1>4. QED BY <1>1, <1>2, <1>3, TypeCorrect, RunQueueCorrect, ControlCorrect, PTL DEF Spec

=============================================================================
