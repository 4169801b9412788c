------------------------------ MODULE Threads ------------------------------
(***************************************************************************)
(* The green threads of the runtime (src/runtime/thread.scm): the run      *)
(* queue, the event protocol (block-events?, pending-events, suspension),  *)
(* thread mutexes, joining, stopping and exiting, and preemption by the    *)
(* timer interrupt.                                                        *)
(*                                                                         *)
(* There is one processor.  The current thread is the head of the run      *)
(* queue and only it takes steps.  In mode "masked" interrupts are limited *)
(* to gc-ok (without-interrupts): then the next step is determined by the  *)
(* current thread's control stack, so that a section the code runs without *)
(* interrupts is a chain of steps nothing else can come between.           *)
(* The stack holds the activations of thread.scm's own procedures that     *)
(* may lose the processor or call out to an event; its head is the         *)
(* innermost one.  The thread runs program code when its stack is empty or *)
(* begins with a "closure" (an event being run).                           *)
(***************************************************************************)
EXTENDS Naturals, Rings

CONSTANTS Thread,      \* threads that exist or may be created
          Mutex,       \* thread mutexes
          Closure,     \* events that are procedures; each is signalled once
          NoThread,    \* #f as a mutex's owner
          NoMutex,     \* the mutex field of a frame that has none
          NoEvent,     \* the event #f: wake the thread, run nothing
          Initial,     \* the thread made by initialize-low!
          Ops          \* the operations the program uses (a bound of a run)

ASSUME ConstantsAssumption ==
  /\ Initial \in Thread
  /\ NoThread \notin Thread
  /\ NoMutex \notin Mutex
  /\ NoEvent \notin Closure

VARIABLES
  exec,       \* thread/execution-state ("unborn": not created yet)
  runq,       \* first-running-thread ... last-running-thread
  mode,       \* "open" to interrupts, "masked", or masked and in
              \* deliver-timer-events, called from the "timer" interrupt or
              \* to "allow" event delivery
  stack,      \* control stack of each thread
  block,      \* thread/block-events?: "no" #f, "yes" #t, or "suspended"
  pending,    \* thread/pending-events
  owner,      \* thread-mutex/owner
  waiters,    \* thread-mutex/waiting-threads
  mutexes,    \* thread/mutexes: how often each mutex is on the list
  exitValue,  \* thread/exit-value: "none", "exited" or "detached"
  joined,     \* thread/joined-threads: (thread, event) pairs
  joinedTo,   \* thread/joined-to
  todo,       \* the signals release-joined-threads has still to send:
              \* (thread joined, joiner, event)
  timers,     \* timer-records, without their times
  unused,     \* the closures no one has signalled yet
  sent,       \* history: the closures queued for a thread and not discarded
  ran         \* history: the closures a thread began to run

kernel == <<exec, runq, mode, stack>>
events == <<block, pending, unused, sent, ran>>
locks  == <<owner, waiters, mutexes>>
joins  == <<exitValue, joined, joinedTo, todo>>
vars   == <<kernel, events, locks, joins, timers>>

-----------------------------------------------------------------------------
Event == Closure \cup {NoEvent}
Block == {"no", "yes", "suspended"}
Running == {"running", "running-without-preemption"}

\* Activations during which interrupts are enabled: an event, and the
\* stages of a thread's signal to itself.
SelfOps == {"self", "enqueue", "replace", "skip"}
OpenOps == SelfOps \cup {"closure"}
MaskedOps == {"lock", "suspend", "resume", "unblock", "allow", "release",
              "exit", "die"}

Frame == [op    : OpenOps \cup MaskedOps,
          saved : Block,                   \* block-events? to restore
          any   : BOOLEAN,                 \* any-events?
          mutex : Mutex \cup {NoMutex},    \* the mutex of a "lock"
          event : Event]                   \* the event of a self signal

MkFrame(o, b) ==
  [op |-> o, saved |-> b, any |-> FALSE, mutex |-> NoMutex, event |-> NoEvent]
LockFrame(m) == [MkFrame("lock", "no") EXCEPT !.mutex = m]

current == Head(runq)
Top(t) == Head(stack[t])
OpOf(s) == IF s = << >> THEN "program" ELSE Head(s).op
Push(t, f) == stack' = [stack EXCEPT ![t] = <<f>> \o @]
Pop(t) == stack' = [stack EXCEPT ![t] = Tail(@)]

\* The rest of the stack runs masked unless it is open to interrupts.
ModeBelow(t) == IF OpOf(Tail(stack[t])) \in MaskedOps THEN "masked" ELSE "open"

\* Thread t runs with interrupts enabled.
Open(t) == runq # << >> /\ t = current /\ mode = "open"

\* Thread t runs program code: its own, or an event's.
Program(t) == Open(t) /\ OpOf(stack[t]) \in {"program", "closure"}

\* Thread t is in a masked section, in an activation of one of ops.
In(t, ops) == /\ runq # << >> /\ t = current /\ mode = "masked"
              /\ OpOf(stack[t]) \in ops

\* The mutexes a thread is in %lock-thread-mutex for.
Locking(t) == {stack[t][i].mutex : i \in DOMAIN stack[t]} \ {NoMutex}

-----------------------------------------------------------------------------
(* Signalling                                                              *)

\* Mutant: an event is added to an empty ring only.
AddEventOnce(q, e) == IF q = << >> THEN <<e>> ELSE q

\* The three states of the ring: empty, one #f, or closures only.
AddEvent(q, e) ==
  IF e = NoEvent THEN IF q = << >> THEN <<NoEvent>> ELSE q
  ELSE IF q = <<NoEvent>> THEN <<e>> ELSE Append(q, e)

\* History of %add-pending-event.
Sent(u, e) ==
  /\ e # NoEvent => e \in unused
  /\ unused' = unused \ {e}
  /\ sent' = [sent EXCEPT ![u] = IF e = NoEvent THEN @ ELSE Append(@, e)]

\* Mutants of Wakes: a thread is queued whatever its state; a thread that
\* blocked its events before it suspended is not woken.
WakesAny(u) == block[u] # "yes"
WakesUnblocked(u) == block[u] = "no" /\ exec[u] = "waiting"

\* The event's thread runs again if it is waiting and lets events wake it.
Wakes(u) == block[u] # "yes" /\ exec[u] = "waiting"

Wake(u) ==
  /\ exec' = IF Wakes(u) THEN [exec EXCEPT ![u] = "running"] ELSE exec
  /\ runq' = IF Wakes(u) THEN Append(runq, u) ELSE runq

SignalEvent(u, e) ==
  /\ pending' = [pending EXCEPT ![u] = AddEvent(@, e)]
  /\ Sent(u, e)
  /\ Wake(u)

\* Signal #f: no closure is used.
SignalNone(u) ==
  /\ pending' = [pending EXCEPT ![u] = AddEvent(@, NoEvent)]
  /\ Wake(u)

-----------------------------------------------------------------------------
(* The run queue                                                           *)

\* thread-not-running, for the current thread: the next one, which has a
\* continuation, resumes; with none the processor waits for i/o unmasked.
NotRunning(t, state) ==
  /\ exec' = [exec EXCEPT ![t] = state]
  /\ runq' = Tail(runq)
  /\ mode' = IF Tail(runq) = << >> THEN "open" ELSE "masked"

\* yield-thread: to the end of the queue.
Rotate == runq' = Append(Tail(runq), Head(runq))

CreateThread(t, u) ==
  /\ "create" \in Ops /\ Program(t) /\ exec[u] = "unborn"
  /\ exec' = [exec EXCEPT ![u] = "running"]
  /\ runq' = Append(runq, u)
  /\ stack' = [stack EXCEPT ![u] = <<MkFrame("resume", "no")>>]
  /\ UNCHANGED <<mode, events, locks, joins, timers>>

YieldCurrentThread(t) ==
  /\ "yield" \in Ops /\ Program(t)
  /\ exec' = [exec EXCEPT ![t] = "running"]
  /\ Rotate
  /\ Push(t, MkFrame("resume", "no"))
  /\ mode' = "masked"
  /\ UNCHANGED <<events, locks, joins, timers>>

\* disallow-preempt-current-thread and allow-preempt-current-thread
SetPreempt(t, state) ==
  /\ "preempt" \in Ops /\ Program(t) /\ state \in Running
  /\ exec' = [exec EXCEPT ![t] = state]
  /\ UNCHANGED <<runq, mode, stack, events, locks, joins, timers>>

StopCurrentThread(t) ==
  /\ "stop" \in Ops /\ Program(t)
  /\ NotRunning(t, "stopped")
  /\ Push(t, MkFrame("resume", "no"))
  /\ UNCHANGED <<events, locks, joins, timers>>

\* Restart u, discarding its events or not, with an event or none (e = #f).
RestartThread(t, u, discard, e) ==
  /\ "stop" \in Ops /\ Program(t) /\ exec[u] = "stopped"
  /\ LET kept == IF discard THEN << >> ELSE pending[u]
         sentKept == IF discard THEN ran[u] ELSE sent[u]
     IN IF e = NoEvent
        THEN /\ pending' = [pending EXCEPT ![u] = kept]
             /\ sent' = [sent EXCEPT ![u] = sentKept]
             /\ UNCHANGED unused
        ELSE /\ pending' = [pending EXCEPT ![u] = AddEvent(kept, e)]
             /\ e \in unused /\ unused' = unused \ {e}
             /\ sent' = [sent EXCEPT ![u] = Append(sentKept, e)]
  /\ exec' = [exec EXCEPT ![u] = "running"]
  /\ runq' = Append(runq, u)
  /\ UNCHANGED <<mode, stack, block, ran, locks, joins, timers>>

-----------------------------------------------------------------------------
(* Suspending, resuming and running events                                 *)

\* Entry to %suspend-current-thread, with program code or a lock below.
EnterSuspend(t) ==
  /\ Push(t, MkFrame("suspend", block[t]))
  /\ block' = [block EXCEPT ![t] = IF @ = "no" THEN "no" ELSE "suspended"]

SuspendCurrentThread(t) ==
  /\ "suspend" \in Ops /\ Program(t)
  /\ EnterSuspend(t)
  /\ mode' = "masked"
  /\ UNCHANGED <<exec, runq, pending, unused, sent, ran, locks, joins, timers>>

\* The activations that call handle-thread-events.  %resume-current-thread
\* does so only when events are not blocked.
Handling(t) == /\ In(t, {"suspend", "unblock", "allow", "resume"})
               /\ Top(t).op = "resume" => block[t] # "yes"

\* One round of the loop of handle-thread-events.  A closure is run with
\* events blocked; as it may enable interrupts it counts as program code.
HandleEvent(t) ==
  /\ Handling(t) /\ pending[t] # << >>
  /\ pending' = [pending EXCEPT ![t] = Tail(@)]
  /\ LET e == Head(pending[t])
         rest == <<[Top(t) EXCEPT !.any = TRUE]>> \o Tail(stack[t])
     IN IF e = NoEvent
        THEN /\ stack' = [stack EXCEPT ![t] = rest]
             /\ UNCHANGED <<mode, block, ran>>
        ELSE /\ stack' = [stack EXCEPT ![t] =
                                <<MkFrame("closure", block[t])>> \o rest]
             /\ block' = [block EXCEPT ![t] = "yes"]
             /\ mode' = "open"
             /\ ran' = [ran EXCEPT ![t] = Append(@, e)]
  /\ UNCHANGED <<exec, runq, unused, sent, locks, joins, timers>>

\* The event returns to handle-thread-events.
ClosureReturn(t) ==
  /\ Open(t) /\ OpOf(stack[t]) = "closure"
  /\ block' = [block EXCEPT ![t] = Top(t).saved]
  /\ Pop(t)
  /\ mode' = "masked"
  /\ UNCHANGED <<exec, runq, pending, unused, sent, ran, locks, joins, timers>>

\* No event is left: %suspend-current-thread returns if there were any,
\* and otherwise the thread waits.
SuspendReturn(t) ==
  /\ In(t, {"suspend"}) /\ pending[t] = << >>
  /\ IF Top(t).any
     THEN /\ block' = [block EXCEPT ![t] = Top(t).saved]
          /\ Pop(t)
          /\ mode' = ModeBelow(t)
          /\ UNCHANGED <<exec, runq>>
     ELSE /\ NotRunning(t, "waiting")
          /\ stack' = [stack EXCEPT ![t] = <<MkFrame("resume", "no")>> \o Tail(@)]
          /\ UNCHANGED block
  /\ UNCHANGED <<pending, unused, sent, ran, locks, joins, timers>>

\* %resume-current-thread returns to whatever lost the processor.
ResumeReturn(t) ==
  /\ In(t, {"resume"}) /\ (pending[t] = << >> \/ block[t] = "yes")
  /\ block' = [block EXCEPT ![t] = IF @ = "suspended" THEN "yes" ELSE @]
  /\ Pop(t)
  /\ mode' = ModeBelow(t)
  /\ UNCHANGED <<exec, runq, pending, unused, sent, ran, locks, joins, timers>>

BlockThreadEvents(t) ==
  /\ "block" \in Ops /\ Program(t)
  /\ block' = [block EXCEPT ![t] = "yes"]
  /\ UNCHANGED <<kernel, pending, unused, sent, ran, locks, joins, timers>>

UnblockThreadEvents(t) ==
  /\ "block" \in Ops /\ Program(t)
  /\ Push(t, MkFrame("unblock", "no"))
  /\ mode' = "masked"
  /\ UNCHANGED <<exec, runq, events, locks, joins, timers>>

\* allow-thread-event-delivery: deliver the timer events that are due, then
\* run the thread's events even if it had blocked them.
AllowThreadEventDelivery(t) ==
  /\ "allow" \in Ops /\ Program(t)
  /\ Push(t, MkFrame("allow", block[t]))
  /\ block' = [block EXCEPT ![t] = "no"]
  /\ mode' = "allow"
  /\ UNCHANGED <<exec, runq, pending, unused, sent, ran, locks, joins, timers>>

\* The last assignment of unblock-thread-events (to #f) and of
\* allow-thread-event-delivery (to the saved value).
UnblockReturn(t) ==
  /\ In(t, {"unblock", "allow"})
  /\ pending[t] = << >>
  /\ block' = [block EXCEPT ![t] = Top(t).saved]
  /\ Pop(t)
  /\ mode' = ModeBelow(t)
  /\ UNCHANGED <<exec, runq, pending, unused, sent, ran, locks, joins, timers>>

\* signal-thread-event from thread t to another live thread.
SignalThreadEvent(t, u, e) ==
  /\ "signal" \in Ops /\ Program(t)
  /\ u # t /\ exec[u] \notin {"unborn", "dead"}
  /\ SignalEvent(u, e)
  /\ UNCHANGED <<mode, stack, block, ran, locks, joins, timers>>

\* signal-thread-event to oneself: block-thread-events, %add-pending-event and
\* unblock-thread-events are three calls made with interrupts enabled, and
\* %add-pending-event looks at the ring in one call and changes it in another.
SignalSelf(t, e) ==
  /\ "self" \in Ops /\ Program(t)
  /\ e # NoEvent => e \in unused
  /\ unused' = unused \ {e}
  /\ Push(t, [MkFrame("self", block[t]) EXCEPT !.event = e])
  /\ block' = [block EXCEPT ![t] = "yes"]
  /\ UNCHANGED <<exec, runq, mode, pending, sent, ran, locks, joins,
                 timers>>

SelfLook(t) ==
  /\ Open(t) /\ OpOf(stack[t]) = "self"
  /\ LET decision == IF Top(t).event # NoEvent
                     THEN IF pending[t] = <<NoEvent>> THEN "replace" ELSE "enqueue"
                     ELSE IF pending[t] = << >> THEN "enqueue" ELSE "skip"
     IN stack' = [stack EXCEPT ![t] = <<[Top(t) EXCEPT !.op = decision]>> \o Tail(@)]
  /\ UNCHANGED <<exec, runq, mode, events, locks, joins, timers>>

SelfAdd(t) ==
  /\ Open(t) /\ OpOf(stack[t]) \in {"enqueue", "replace", "skip"}
  /\ LET e == Top(t).event
     IN /\ pending' = [pending EXCEPT ![t] =
                          CASE Top(t).op = "enqueue" -> Append(@, e)
                            [] Top(t).op = "replace" /\ @ # << >> -> <<e>> \o Tail(@)
                            [] OTHER -> @]
        /\ sent' = [sent EXCEPT ![t] = IF e = NoEvent THEN @ ELSE Append(@, e)]
  /\ IF Top(t).saved = "no"
     THEN /\ stack' = [stack EXCEPT ![t] = <<MkFrame("unblock", "no")>> \o Tail(@)]
          /\ mode' = "masked"
     ELSE /\ Pop(t)
          /\ mode' = ModeBelow(t)
  /\ UNCHANGED <<exec, runq, block, unused, ran, locks, joins, timers>>

\* signal-thread-event with no current thread (a keyboard interrupt while
\* the processor waits for i/o): the thread it wakes runs at once.
SignalFromIdle(u, e) ==
  /\ "signal" \in Ops /\ runq = << >> /\ mode = "open"
  /\ exec[u] \notin {"unborn", "dead"}
  /\ SignalEvent(u, e)
  /\ mode' = IF Wakes(u) THEN "masked" ELSE "open"
  /\ UNCHANGED <<stack, block, ran, locks, joins, timers>>

-----------------------------------------------------------------------------
(* Mutexes                                                                 *)

\* Mutants of HandOff: the new owner stays in the queue; it is not woken.
HandOffQueued(m) ==
  IF waiters[m] = << >>
  THEN /\ owner' = [owner EXCEPT ![m] = NoThread]
       /\ UNCHANGED <<waiters, pending, exec, runq>>
  ELSE /\ owner' = [owner EXCEPT ![m] = Head(waiters[m])]
       /\ UNCHANGED waiters
       /\ SignalNone(Head(waiters[m]))
HandOffSilent(m) ==
  /\ owner' = [owner EXCEPT ![m] =
                 IF waiters[m] = << >> THEN NoThread ELSE Head(waiters[m])]
  /\ waiters' = [waiters EXCEPT ![m] = IF @ = << >> THEN @ ELSE Tail(@)]
  /\ UNCHANGED <<pending, exec, runq>>

\* %%unlock-thread-mutex: hand the mutex to the first waiter and wake it.
HandOff(m) ==
  IF waiters[m] = << >>
  THEN /\ owner' = [owner EXCEPT ![m] = NoThread]
       /\ UNCHANGED <<waiters, pending, exec, runq>>
  ELSE /\ owner' = [owner EXCEPT ![m] = Head(waiters[m])]
       /\ waiters' = [waiters EXCEPT ![m] = Tail(@)]
       /\ SignalNone(Head(waiters[m]))

\* lock-thread-mutex: locking a mutex one owns is an error (no step).  Unless
\* "relock" is among the operations, an event leaves alone the mutexes that
\* the thread it interrupts is waiting for.
LockThreadMutex(t, m) ==
  /\ "lock" \in Ops /\ Program(t) /\ owner[m] # t
  /\ t \in Range(waiters[m]) => "relock" \in Ops
  /\ mutexes' = [mutexes EXCEPT ![t][m] = @ + 1]
  /\ IF owner[m] = NoThread
     THEN /\ owner' = [owner EXCEPT ![m] = t]
          /\ UNCHANGED <<waiters, stack, mode>>
     ELSE /\ waiters' = [waiters EXCEPT ![m] = Append(@, t)]
          /\ Push(t, LockFrame(m))
          /\ mode' = "masked"
          /\ UNCHANGED owner
  /\ UNCHANGED <<exec, runq, events, joins, timers>>

\* The loop of %lock-thread-mutex: suspend until the mutex has been handed
\* over.
LockLoop(t) ==
  /\ In(t, {"lock"})
  /\ IF owner[Top(t).mutex] = t
     THEN /\ Pop(t)
          /\ mode' = ModeBelow(t)
          /\ UNCHANGED block
     ELSE /\ EnterSuspend(t)
          /\ UNCHANGED mode
  /\ UNCHANGED <<exec, runq, pending, unused, sent, ran, locks, joins, timers>>

TryLockThreadMutex(t, m) ==
  /\ "lock" \in Ops /\ Program(t) /\ owner[m] = NoThread
  /\ owner' = [owner EXCEPT ![m] = t]
  /\ mutexes' = [mutexes EXCEPT ![t][m] = @ + 1]
  /\ UNCHANGED <<kernel, events, waiters, joins, timers>>

\* unlock-thread-mutex: unlocking a mutex one does not own is an error.
UnlockThreadMutex(t, m) ==
  /\ "lock" \in Ops /\ Program(t) /\ owner[m] = t
  /\ m \in Locking(t) => "relock" \in Ops
  /\ mutexes' = [mutexes EXCEPT ![t][m] = 0]
  /\ HandOff(m)
  /\ UNCHANGED <<mode, stack, block, unused, sent, ran, joins, timers>>

-----------------------------------------------------------------------------
(* Joining, detaching and exiting                                          *)

\* join-thread to a live thread; joining oneself or a detached thread is an
\* error.  A thread joins another once (a bound).
JoinThread(t, u, e) ==
  /\ "join" \in Ops /\ Program(t) /\ u # t /\ exec[u] # "unborn"
  /\ exitValue[u] = "none" /\ u \notin joinedTo[t]
  /\ e # NoEvent => e \in unused
  /\ unused' = unused \ {e}
  /\ joined' = [joined EXCEPT ![u] = @ \cup {<<t, e>>}]
  /\ joinedTo' = [joinedTo EXCEPT ![t] = @ \cup {u}]
  /\ UNCHANGED <<kernel, block, pending, sent, ran, locks, exitValue, todo,
                 timers>>

\* join-thread to a thread that has exited: a signal to oneself, masked.
JoinExited(t, u, e) ==
  /\ "join" \in Ops /\ Program(t) /\ u # t /\ exitValue[u] = "exited"
  /\ pending' = [pending EXCEPT ![t] = AddEvent(@, e)]
  /\ Sent(t, e)
  /\ IF block[t] = "no"
     THEN /\ block' = [block EXCEPT ![t] = "yes"]
          /\ Push(t, MkFrame("unblock", "no"))
          /\ mode' = "masked"
     ELSE UNCHANGED <<block, stack, mode>>
  /\ UNCHANGED <<exec, runq, ran, locks, joins, timers>>

\* What release-joined-threads has to do for thread u.
Releases(u) == {<<u, p[1], p[2]>> : p \in joined[u]}

\* detach-thread: detaching twice is an error.  A thread that has exited can
\* be detached ("late-detach"), which signals its joiners a second time.
DetachThread(t, u) ==
  /\ "join" \in Ops /\ Program(t) /\ exec[u] # "unborn"
  /\ exitValue[u] # "detached"
  /\ exitValue[u] = "exited" => "late-detach" \in Ops
  /\ exitValue' = [exitValue EXCEPT ![u] = "detached"]
  /\ todo' = Releases(u)
  /\ Push(t, MkFrame("release", "no"))
  /\ mode' = "masked"
  /\ UNCHANGED <<exec, runq, events, locks, joined, joinedTo, timers>>

\* One round of the loop of release-joined-threads: signal joiner j.
Release(t) ==
  /\ In(t, {"release", "die"})
  /\ \E r \in todo :
       LET u == r[1]  j == r[2]  e == r[3]
       IN /\ todo' = todo \ {r}
          /\ joinedTo' = [joinedTo EXCEPT ![j] = @ \ {u}]
          /\ pending' = [pending EXCEPT ![j] = AddEvent(@, e)]
          /\ sent' = [sent EXCEPT ![j] = IF e = NoEvent THEN @ ELSE Append(@, e)]
          /\ Wake(j)
  /\ UNCHANGED <<mode, stack, block, unused, ran, locks, exitValue,
                 joined, timers>>

ReleaseReturn(t) ==
  /\ In(t, {"release"}) /\ todo = {}
  /\ Pop(t)
  /\ mode' = ModeBelow(t)
  /\ UNCHANGED <<exec, runq, events, locks, joins, timers>>

\* Mutants of ExitCurrentThread: the timer records are kept; the thread stays
\* among those joined to others; its mutexes are not let go of.
ExitKeepingTimers(t) ==
  /\ "exit" \in Ops /\ Program(t)
  /\ mode' = "masked"
  /\ block' = [block EXCEPT ![t] = "yes"]
  /\ pending' = [pending EXCEPT ![t] = << >>]
  /\ sent' = [sent EXCEPT ![t] = ran[t]]
  /\ joined' = [u \in Thread |-> {p \in joined[u] : p[1] # t \/ u \notin joinedTo[t]}]
  /\ joinedTo' = [joinedTo EXCEPT ![t] = {}]
  /\ stack' = [stack EXCEPT ![t] = <<MkFrame("exit", "yes")>>]
  /\ UNCHANGED <<exec, runq, unused, ran, locks, exitValue, todo, timers>>
ExitKeepingJoins(t) ==
  /\ "exit" \in Ops /\ Program(t)
  /\ mode' = "masked"
  /\ block' = [block EXCEPT ![t] = "yes"]
  /\ pending' = [pending EXCEPT ![t] = << >>]
  /\ sent' = [sent EXCEPT ![t] = ran[t]]
  /\ timers' = {r \in timers : r[1] # t}
  /\ joinedTo' = [joinedTo EXCEPT ![t] = {}]
  /\ stack' = [stack EXCEPT ![t] = <<MkFrame("exit", "yes")>>]
  /\ UNCHANGED <<exec, runq, unused, ran, locks, exitValue, joined, todo>>
ExitKeepingMutexes(t) ==
  /\ "exit" \in Ops /\ Program(t)
  /\ mode' = "masked"
  /\ block' = [block EXCEPT ![t] = "yes"]
  /\ pending' = [pending EXCEPT ![t] = << >>]
  /\ sent' = [sent EXCEPT ![t] = ran[t]]
  /\ timers' = {r \in timers : r[1] # t}
  /\ stack' = [stack EXCEPT ![t] = <<MkFrame("die", "yes")>>]
  /\ UNCHANGED <<exec, runq, unused, ran, locks, joins>>

\* exit-current-thread, up to %disassociate-thread-mutexes: the events, the
\* timer records and the joins of the thread are dropped.
ExitCurrentThread(t) ==
  /\ "exit" \in Ops /\ Program(t)
  /\ mode' = "masked"
  /\ block' = [block EXCEPT ![t] = "yes"]
  /\ pending' = [pending EXCEPT ![t] = << >>]
  /\ sent' = [sent EXCEPT ![t] = ran[t]]
  /\ timers' = {r \in timers : r[1] # t}
  /\ joined' = [u \in Thread |-> IF u \in joinedTo[t]
                                 THEN {p \in joined[u] : p[1] # t}
                                 ELSE joined[u]]
  /\ joinedTo' = [joinedTo EXCEPT ![t] = {}]
  /\ stack' = [stack EXCEPT ![t] = <<MkFrame("exit", "yes")>>]
  /\ UNCHANGED <<exec, runq, unused, ran, locks, exitValue, todo>>

\* One round of the loop of %disassociate-thread-mutexes.
DisassociateMutex(t) ==
  /\ In(t, {"exit"})
  /\ \E m \in Mutex :
       /\ mutexes[t][m] > 0
       /\ mutexes' = [mutexes EXCEPT ![t][m] = @ - 1]
       /\ IF owner[m] = t
          THEN HandOff(m)
          ELSE /\ waiters' = [waiters EXCEPT ![m] = RemoveFirst(@, t)]
               /\ UNCHANGED <<owner, pending, exec, runq>>
  /\ UNCHANGED <<mode, stack, block, unused, sent, ran, joins, timers>>

\* The exit value is set and the joiners released, unless the thread is
\* detached.
ReleaseJoined(t) ==
  /\ In(t, {"exit"}) /\ \A m \in Mutex : mutexes[t][m] = 0
  /\ stack' = [stack EXCEPT ![t] = <<MkFrame("die", "yes")>>]
  /\ IF exitValue[t] = "none"
     THEN /\ exitValue' = [exitValue EXCEPT ![t] = "exited"]
          /\ todo' = Releases(t)
     ELSE UNCHANGED <<exitValue, todo>>
  /\ UNCHANGED <<exec, runq, mode, events, locks, joined, joinedTo,
                 timers>>

Die(t) ==
  /\ In(t, {"die"}) /\ todo = {}
  /\ NotRunning(t, "dead")
  /\ Pop(t)
  /\ UNCHANGED <<events, locks, joins, timers>>

\* An event escapes to the thread's top level (within-continuation): the
\* activations below it are abandoned and events unblocked.
Escape(t) ==
  /\ "escape" \in Ops /\ Open(t) /\ OpOf(stack[t]) = "closure"
  /\ stack' = [stack EXCEPT ![t] = <<MkFrame("unblock", "no")>>]
  /\ mode' = "masked"
  /\ UNCHANGED <<exec, runq, events, locks, joins, timers>>

-----------------------------------------------------------------------------
(* Timers and preemption.  Times are left out: any record may be due.      *)

RegisterTimerEvent(t, e) ==
  /\ "timer" \in Ops /\ Program(t) /\ e \in unused
  /\ unused' = unused \ {e}
  /\ timers' = timers \cup {<<t, e>>}
  /\ UNCHANGED <<kernel, block, pending, sent, ran, locks, joins>>

\* deregister-all-events
DeregisterAllEvents(t) ==
  /\ "timer" \in Ops /\ Program(t)
  /\ pending' = [pending EXCEPT ![t] = << >>]
  /\ sent' = [sent EXCEPT ![t] = ran[t]]
  /\ timers' = {r \in timers : r[1] # t}
  /\ UNCHANGED <<kernel, block, unused, ran, locks, joins>>

\* thread-timer-interrupt-handler begins, in a thread or in wait-for-io.
TimerInterrupt ==
  /\ mode = "open"
  /\ mode' = "timer"
  /\ UNCHANGED <<exec, runq, stack, events, locks, joins, timers>>

\* One round of the loop of deliver-timer-events.
DeliverTimerEvent ==
  /\ mode \in {"timer", "allow"}
  /\ \E r \in timers :
       /\ timers' = timers \ {r}
       /\ pending' = [pending EXCEPT ![r[1]] = AddEvent(@, r[2])]
       /\ sent' = [sent EXCEPT ![r[1]] = Append(@, r[2])]
       /\ Wake(r[1])
  /\ UNCHANGED <<mode, stack, block, unused, ran, locks, joins>>

\* Mutant: the handler returns to a thread that it woke as if the thread had
\* been running.
TimerEndOpen ==
  /\ mode = "timer"
  /\ mode' = "open"
  /\ UNCHANGED <<exec, runq, stack, events, locks, joins, timers>>

\* The rest of the handler: with no thread to run, go on waiting; if waiting
\* was ended by an event, run the thread; otherwise yield, unless the thread
\* is running without preemption.
TimerEnd ==
  /\ mode = "timer"
  /\ mode' = IF runq = << >> THEN "open" ELSE "masked"
  /\ IF runq = << >> \/ OpOf(stack[current]) = "resume"
     THEN UNCHANGED <<stack, runq>>
     ELSE /\ Push(current, MkFrame("resume", "no"))
          /\ IF exec[current] = "running" THEN Rotate ELSE UNCHANGED runq
  /\ UNCHANGED <<exec, events, locks, joins, timers>>

AllowEnd ==
  /\ mode = "allow"
  /\ mode' = "masked"
  /\ UNCHANGED <<exec, runq, stack, events, locks, joins, timers>>

-----------------------------------------------------------------------------
Init ==
  /\ exec = [t \in Thread |-> IF t = Initial THEN "running" ELSE "unborn"]
  /\ runq = <<Initial>>
  /\ mode = "open"
  /\ stack = [t \in Thread |-> << >>]
  /\ block = [t \in Thread |-> "no"]
  /\ pending = [t \in Thread |-> << >>]
  /\ owner = [m \in Mutex |-> NoThread]
  /\ waiters = [m \in Mutex |-> << >>]
  /\ mutexes = [t \in Thread |-> [m \in Mutex |-> 0]]
  /\ exitValue = [t \in Thread |-> IF t = Initial THEN "detached" ELSE "none"]
  /\ joined = [t \in Thread |-> {}]
  /\ joinedTo = [t \in Thread |-> {}]
  /\ todo = {} /\ timers = {}
  /\ unused = Closure
  /\ sent = [t \in Thread |-> << >>]
  /\ ran = [t \in Thread |-> << >>]

\* What the program does with its turn.
ProgramStep(t) ==
  \/ \E u \in Thread : CreateThread(t, u) \/ DetachThread(t, u)
  \/ YieldCurrentThread(t) \/ StopCurrentThread(t) \/ SuspendCurrentThread(t)
  \/ \E state \in Running : SetPreempt(t, state)
  \/ \E u \in Thread, d \in BOOLEAN, e \in Event : RestartThread(t, u, d, e)
  \/ BlockThreadEvents(t) \/ UnblockThreadEvents(t) \/ AllowThreadEventDelivery(t)
  \/ \E u \in Thread, e \in Event :
       SignalThreadEvent(t, u, e) \/ JoinThread(t, u, e) \/ JoinExited(t, u, e)
  \/ \E e \in Event : SignalSelf(t, e) \/ RegisterTimerEvent(t, e)
  \/ DeregisterAllEvents(t)
  \/ \E m \in Mutex : LockThreadMutex(t, m) \/ TryLockThreadMutex(t, m)
  \/ ExitCurrentThread(t)

\* What thread.scm then does by itself, or the program must do in the end.
Unlock(t) == \E m \in Mutex : UnlockThreadMutex(t, m)
EventEnd(t) == ClosureReturn(t) \/ Escape(t)
SelfStep(t) == SelfLook(t) \/ SelfAdd(t)
MaskedStep(t) ==
  \/ HandleEvent(t) \/ SuspendReturn(t) \/ ResumeReturn(t) \/ UnblockReturn(t)
  \/ LockLoop(t) \/ Release(t) \/ ReleaseReturn(t)
  \/ DisassociateMutex(t) \/ ReleaseJoined(t) \/ Die(t)
Interrupt == TimerInterrupt \/ DeliverTimerEvent \/ TimerEnd \/ AllowEnd
Idle == \E u \in Thread, e \in Event : SignalFromIdle(u, e)

Next ==
  \/ \E t \in Thread : \/ ProgramStep(t) \/ Unlock(t) \/ EventEnd(t)
                       \/ SelfStep(t) \/ MaskedStep(t)
  \/ Interrupt
  \/ Idle

Spec == Init /\ [][Next]_vars

\* A masked section runs to its end; the timer interrupt, once due, is taken
\* at some point where it is enabled; and a thread that gets the processor
\* again and again ends its events and its critical sections.
Fairness ==
  /\ WF_vars((\E t \in Thread : MaskedStep(t)) \/ TimerEnd \/ AllowEnd)
  /\ SF_vars(TimerInterrupt)
  /\ \A t \in Thread : SF_vars(EventEnd(t) \/ SelfStep(t)) /\ SF_vars(Unlock(t))

FairSpec == Spec /\ Fairness

-----------------------------------------------------------------------------
(* Properties                                                              *)

\* Every variable has its type.
TypeOK ==
  /\ exec \in [Thread -> Running \cup {"unborn", "waiting", "stopped", "dead"}]
  /\ runq \in Seq(Thread)
  /\ mode \in {"open", "masked", "timer", "allow"}
  /\ stack \in [Thread -> Seq(Frame)]
  /\ block \in [Thread -> Block]
  /\ pending \in [Thread -> Seq(Event)]
  /\ owner \in [Mutex -> Thread \cup {NoThread}]
  /\ waiters \in [Mutex -> Seq(Thread)]
  /\ mutexes \in [Thread -> [Mutex -> Nat]]
  /\ exitValue \in [Thread -> {"none", "exited", "detached"}]
  /\ joined \in [Thread -> SUBSET (Thread \X Event)]
  /\ joinedTo \in [Thread -> SUBSET Thread]
  /\ todo \subseteq Thread \X Thread \X Event
  /\ timers \subseteq Thread \X Closure
  /\ unused \subseteq Closure
  /\ sent \in [Thread -> Seq(Closure)]
  /\ ran \in [Thread -> Seq(Closure)]

\* The run queue holds each running thread once and no other thread: no
\* wake-up, exit, yield or preemption loses a thread or queues it twice.
RunQueueExact ==
  /\ IsInjective(runq)
  /\ \A t \in Thread : t \in Range(runq) <=> exec[t] \in Running

\* A thread that lost the processor has a continuation to resume (the field
\* comment "#F if current thread or exited, else continuation for thread",
\* and the assertion of run-thread), and the current one does not unless it
\* is about to be run.
SwitchedOut ==
  \A t \in Thread :
    \/ exec[t] \in {"unborn", "dead"}
    \/ runq # << >> /\ t = current
    \/ OpOf(stack[t]) = "resume"

\* The activations that run in each mode.
OpsOf(md) ==
  CASE md = "open" -> OpenOps \cup {"program"}
    [] md = "timer" -> OpenOps \cup {"program", "resume"}
    [] md = "allow" -> {"allow"}
    [] OTHER -> MaskedOps

\* Interrupts are masked exactly in the activations that the code runs under
\* without-interrupts, whatever activation the last one returned to.
MaskedExactly ==
  IF runq = << >> THEN mode \in {"open", "timer"}
  ELSE OpOf(stack[current]) \in OpsOf(mode)

\* The activations on a stack nest as the code's calls do: an event is run by
\* one of the callers of handle-thread-events, and one that is run by
\* %suspend-current-thread goes back to a thread that events can wake; only
\* an activation that is open to interrupts is interrupted or calls out.
Calls(f, g) ==
  IF f.op = "closure"
  THEN /\ g.op \in {"suspend", "unblock", "allow", "resume"}
       /\ g.op = "suspend" => f.saved # "yes"
  ELSE g.op \in IF f.op \in {"suspend", "resume"} THEN OpenOps \cup {"lock"} ELSE OpenOps
WellNested(s) ==
  /\ \A i \in 1 .. Len(s) - 1 : Calls(s[i], s[i + 1])
  /\ s # << >> => s[Len(s)].op # "closure"
StacksNested ==
  \A t \in Thread : /\ WellNested(stack[t])
                    /\ OpOf(stack[t]) = "suspend" => block[t] # "yes"

\* The control state is sound: masked sections are not interrupted, activations
\* nest as the calls of thread.scm do, and a thread without the processor has a
\* continuation, wherever the timer interrupt comes.
ControlSound == MaskedExactly /\ StacksNested /\ SwitchedOut

\* A thread never sleeps on an event: one that waits has none pending and
\* lets the next one wake it.
NoLostWakeup ==
  \A t \in Thread : exec[t] = "waiting" => pending[t] = << >> /\ block[t] # "yes"

\* "PENDING-EVENTS has three states: (1) empty; (2) one #F event; or (3) any
\* number of non-#F events" (%add-pending-event).
PendingStates ==
  \A t \in Thread : pending[t] = <<NoEvent>> \/ pending[t] \in Seq(Closure)

\* "This optimizes #F events away" (%add-pending-event), and no others: the
\* closures signalled to a thread are run in that order, each once, and none is
\* lost; those an exiting thread discards do not count.
ClosuresOf(q) == IF q = <<NoEvent>> THEN << >> ELSE q
EventsInOrder ==
  \A t \in Thread : sent[t] = ran[t] \o ClosuresOf(pending[t])

\* Events that others signal are kept as %add-pending-event says: none is lost,
\* run twice or overtaken, and a #f is there only alone.
EventsSound == PendingStates /\ EventsInOrder

\* A mutex with waiters is owned; nobody waits twice or for what it owns.
MutexQueue ==
  \A m \in Mutex :
    /\ owner[m] = NoThread => waiters[m] = << >>
    /\ IsInjective(waiters[m])
    /\ owner[m] \notin Range(waiters[m])

\* thread/mutexes is the "list of mutexes that this thread owns or is waiting
\* to own", which is what an exiting thread relies on to let go of them.
MutexesListed ==
  \A t \in Thread, m \in Mutex :
    owner[m] = t \/ t \in Range(waiters[m]) => mutexes[t][m] > 0

\* The queue of a mutex is sound, and each thread knows the mutexes it owns or
\* waits for, however unlocks hand a mutex over to threads that wait, run an
\* event or exit.
MutexesSound == MutexQueue /\ MutexesListed

\* A dead thread owns no mutex, waits for none, and gets no timer event.
DeadLetGo ==
  \A t \in Thread : exec[t] = "dead" =>
    /\ \A m \in Mutex : owner[m] # t /\ t \notin Range(waiters[m])
    /\ \A e \in Closure : <<t, e>> \notin timers
    /\ \A u \in Thread : exitValue[u] = "none" => ~\E e \in Event : <<t, e>> \in joined[u]

\* A thread asleep in %lock-thread-mutex is in the mutex's queue, so that the
\* hand-over that makes it the owner is still to come and will wake it.
SleepersQueued ==
  \A t \in Thread, m \in Mutex :
    (exec[t] = "waiting" /\ Len(stack[t]) > 1 /\ stack[t][2] = LockFrame(m))
      => t \in Range(waiters[m])

\* A thread is on a joiner's joined-to list exactly while the joiner is still
\* to be signalled.
JoinsPaired ==
  \A u, j \in Thread :
    u \in joinedTo[j] <=>
      \E e \in Event : \/ exitValue[u] = "none" /\ <<j, e>> \in joined[u]
                       \/ <<u, j, e>> \in todo

\* An exit lets go: nothing still points at a dead thread (release-joined-threads,
\* disassociation of mutexes, discarded timer records), and joins are paired.
ExitsClean == DeadLetGo /\ JoinsPaired

\* A thread in the queue of a mutex is served: the hand-over in FIFO order and
\* the release at exit reach every waiter.
LockGranted ==
  \A t \in Thread, m \in Mutex :
    t \in Range(waiters[m]) ~> t \notin Range(waiters[m])

\* Pending events are all run, or dropped with their thread: neither waiting for a
\* mutex nor losing the processor keeps events from a thread.
EventDelivered ==
  \A t \in Thread : pending[t] # << >> ~> pending[t] = << >>

=============================================================================
