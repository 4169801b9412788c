------------------------------ MODULE Condvar -------------------------------
(***************************************************************************)
(* Condition variables (src/runtime/condvar.scm): one condition variable   *)
(* and the mutex "m" its waiters hold.  "c" is the condition variable's    *)
(* own lock.                                                               *)
(*                                                                         *)
(* A waiter and a signaller are taken step by step, as neither masks       *)
(* interrupts: the timer may switch threads between any two steps.  The    *)
(* doubly linked list of waiters, whose links change in one go             *)
(* (without-interruption), is a sequence.  A thread has one waiter record  *)
(* at a time, and stands for it.                                           *)
(*                                                                         *)
(* Threads and mutexes are seen as in ThreadQueue: a pending event #f is a *)
(* token, which suspend-current-thread takes or waits for, as does each    *)
(* round of the wait for a mutex.  A thread whose events are not blocked   *)
(* runs them before it does anything else, so that it has no token.        *)
(***************************************************************************)
EXTENDS Naturals, Rings

CONSTANTS Thread, NoThread,
          Ops     \* what the program does: a subset of AllOps

AllOps == {"wait", "unlock-and-wait", "timeout", "signal", "broadcast", "abort", "stray"}

ASSUME CondvarAssumption == NoThread \notin Thread /\ Ops \subseteq AllOps

VARIABLES
  owner, lockq,  \* the owner and the waiting threads of each mutex
  pc,            \* where each thread is
  then,          \* where a thread in "lock" goes, and for which mutex it waits
  call,          \* the operation each thread is in
  waiters,       \* the list of waiters
  done,          \* those marked done
  token,         \* the threads with a pending event #f
  clock,         \* the time, against the timeout of each thread
  timer          \* the threads with a timer record

mutexes == <<owner, lockq>>
timing == <<clock, timer>>
vars == <<mutexes, pc, then, call, waiters, done, token, timing>>

Mutex == {"m", "c"}
Waits == {"wait", "unlock-and-wait"}
Signals == {"signal", "broadcast"}

\* Events are blocked from the start of a wait to its end; a thread in "lock" is
\* in suspend-current-thread.
KeepsToken(t) == pc[t] \in {"lock", "enqueue", "release", "test", "sleep", "clean"}
Signalled(t) == IF KeepsToken(t) THEN {t} ELSE {}

-----------------------------------------------------------------------------
(* Threads and mutexes                                                     *)

Nowhere == [mutex |-> "m", pc |-> "run"]

Goto(t, where) == pc' = [pc EXCEPT ![t] = where]

\* lock-thread-mutex
Lock(t, m, where) ==
  /\ IF owner[m] = NoThread
     THEN /\ owner' = [owner EXCEPT ![m] = t]
          /\ Goto(t, where)
          /\ UNCHANGED <<lockq, then>>
     ELSE /\ lockq' = [lockq EXCEPT ![m] = Append(@, t)]
          /\ then' = [then EXCEPT ![t] = [mutex |-> m, pc |-> where]]
          /\ Goto(t, "lock")
          /\ UNCHANGED owner

\* unlock-thread-mutex
Unlock(m) ==
  IF lockq[m] = << >>
  THEN /\ owner' = [owner EXCEPT ![m] = NoThread]
       /\ UNCHANGED <<lockq, token>>
  ELSE /\ owner' = [owner EXCEPT ![m] = Head(lockq[m])]
       /\ lockq' = [lockq EXCEPT ![m] = Tail(@)]
       /\ token' = token \cup {Head(lockq[m])}

\* A round of the wait for a mutex.
Locked(t) ==
  /\ pc[t] = "lock" /\ t \in token
  /\ token' = token \ {t}
  /\ IF owner[then[t].mutex] = t
     THEN Goto(t, then[t].pc) /\ then' = [then EXCEPT ![t] = Nowhere]
     ELSE UNCHANGED <<pc, then>>
  /\ UNCHANGED <<mutexes, call, waiters, done, timing>>

-----------------------------------------------------------------------------
(* Waiting                                                                 *)

\* condition-variable-wait! or unlock-thread-mutex-and-wait, up to the lock
WaitCall(t, k, time) ==
  /\ pc[t] = "run" /\ k \in Ops \cap Waits /\ owner["m"] = t
  /\ time = "none" \/ "timeout" \in Ops
  /\ call' = [call EXCEPT ![t] = k]
  /\ clock' = [clock EXCEPT ![t] = time]
  /\ Lock(t, "c", "enqueue")
  /\ UNCHANGED <<waiters, done, token, timer>>

\* enqueue-waiter!
Enqueue(t) ==
  /\ pc[t] = "enqueue"
  /\ waiters' = Append(waiters, t)
  /\ Unlock("c")
  /\ Goto(t, "release")
  /\ UNCHANGED <<then, call, done, timing>>

\* Mutant: the caller's mutex stays locked during the wait.
ReleaseNothing(t) ==
  /\ pc[t] = "release"
  /\ timer' = IF clock[t] = "none" THEN timer ELSE timer \cup {t}
  /\ Goto(t, "test")
  /\ UNCHANGED <<mutexes, then, call, waiters, done, token, clock>>

\* The caller's mutex is unlocked, and the timer set.
Release(t) ==
  /\ pc[t] = "release"
  /\ Unlock("m")
  /\ timer' = IF clock[t] = "none" THEN timer ELSE timer \cup {t}
  /\ Goto(t, "test")
  /\ UNCHANGED <<then, call, waiters, done, clock>>

\* The loop is left: the timer record is deregistered and the lock taken.
LeaveLoop(t) ==
  /\ timer' = timer \ {t}
  /\ Lock(t, "c", "clean")
  /\ UNCHANGED <<call, waiters, done, token, clock>>

\* The loop's test: (<= (real-time-clock) timeout), or the waiter is done.
Test(t) ==
  /\ pc[t] = "test"
  /\ IF clock[t] \in {"before", "at"} \/ t \in done
     THEN LeaveLoop(t)
     ELSE Goto(t, "sleep")
          /\ UNCHANGED <<mutexes, then, call, waiters, done, token, timing>>

\* suspend-current-thread
Sleep(t) ==
  /\ pc[t] = "sleep" /\ t \in token
  /\ token' = token \ {t}
  /\ Goto(t, "test")
  /\ UNCHANGED <<mutexes, then, call, waiters, done, timing>>

\* Mutants: the waiter is left on the list; the lock is kept.
CleanLocked(t) ==
  /\ pc[t] = "clean"
  /\ waiters' = RemoveFirst(waiters, t)
  /\ Goto(t, "return")
  /\ UNCHANGED <<mutexes, then, call, done, token, timing>>
CleanNothing(t) ==
  /\ pc[t] = "clean"
  /\ Unlock("c")
  /\ Goto(t, "return")
  /\ UNCHANGED <<then, call, waiters, done, timing>>

\* The waiter is removed, if a signaller has not done so.
Clean(t) ==
  /\ pc[t] = "clean"
  /\ waiters' = RemoveFirst(waiters, t)
  /\ Unlock("c")
  /\ Goto(t, "return")
  /\ UNCHANGED <<then, call, done, timing>>

\* Events are unblocked, and condition-variable-wait! locks the mutex again.
Return(t) ==
  /\ pc[t] = "return"
  /\ IF call[t] = "wait"
     THEN Lock(t, "m", "run")
     ELSE Goto(t, "run") /\ UNCHANGED <<mutexes, then>>
  /\ call' = [call EXCEPT ![t] = "none"]
  /\ clock' = [clock EXCEPT ![t] = "none"]
  /\ done' = done \ {t} /\ token' = token \ {t}
  /\ UNCHANGED <<waiters, timer>>

-----------------------------------------------------------------------------
(* Signalling                                                              *)

\* condition-variable-signal! or condition-variable-broadcast!, up to the lock
SignalCall(t, k) ==
  /\ pc[t] = "run" /\ k \in Ops \cap Signals
  /\ call' = [call EXCEPT ![t] = k]
  /\ Lock(t, "c", "scan")
  /\ UNCHANGED <<waiters, done, token, timing>>

\* The operation is over, or given up.
EndSignal(t) ==
  /\ Unlock("c")
  /\ Goto(t, "run")
  /\ call' = [call EXCEPT ![t] = "none"]
  /\ UNCHANGED <<then, timing>>

\* The loop looks at the first waiter: one that is done is removed, another
\* one is signalled.
Scan(t) ==
  /\ pc[t] = "scan"
  /\ CASE waiters = << >> -> EndSignal(t) /\ UNCHANGED <<waiters, done>>
       [] waiters # << >> /\ Head(waiters) \in done ->
            /\ waiters' = Tail(waiters)
            /\ UNCHANGED <<mutexes, pc, then, call, done, token, timing>>
       [] OTHER ->
            /\ token' = token \cup Signalled(Head(waiters))
            /\ Goto(t, "mark")
            /\ UNCHANGED <<mutexes, then, call, waiters, done, timing>>

Mark(t) ==
  /\ pc[t] = "mark"
  /\ done' = done \cup {Head(waiters)}
  /\ Goto(t, "unlink")
  /\ UNCHANGED <<mutexes, then, call, waiters, token, timing>>

\* remove-waiter!, after which a broadcast goes on.
Unlink(t) ==
  /\ pc[t] = "unlink"
  /\ waiters' = Tail(waiters)
  /\ IF call[t] = "signal"
     THEN EndSignal(t) /\ UNCHANGED done
     ELSE Goto(t, "scan") /\ UNCHANGED <<mutexes, then, call, done, token, timing>>

\* An event of the signaller leaves it by a continuation.
Abort(t) ==
  /\ "abort" \in Ops /\ pc[t] \in {"scan", "mark", "unlink"}
  /\ EndSignal(t)
  /\ UNCHANGED <<waiters, done>>

-----------------------------------------------------------------------------
(* The program around it, and time                                         *)

LockMutex(t) ==
  /\ pc[t] = "run" /\ owner["m"] # t
  /\ Lock(t, "m", "run")
  /\ UNCHANGED <<call, waiters, done, token, timing>>

UnlockMutex(t) ==
  /\ pc[t] = "run" /\ owner["m"] = t
  /\ Unlock("m")
  /\ UNCHANGED <<pc, then, call, waiters, done, timing>>

\* Someone else wakes the thread.
Stray(t) ==
  /\ "stray" \in Ops /\ KeepsToken(t) /\ t \notin token
  /\ token' = token \cup {t}
  /\ UNCHANGED <<mutexes, pc, then, call, waiters, done, timing>>

Tick(t) ==
  /\ clock[t] \in {"before", "at"}
  /\ clock' = [clock EXCEPT ![t] = IF @ = "before" THEN "at" ELSE "after"]
  /\ UNCHANGED <<mutexes, pc, then, call, waiters, done, token, timer>>

Alarm(t) ==
  /\ t \in timer /\ clock[t] \in {"at", "after"}
  /\ timer' = timer \ {t}
  /\ token' = token \cup Signalled(t)
  /\ UNCHANGED <<mutexes, pc, then, call, waiters, done, clock>>

-----------------------------------------------------------------------------
Init ==
  /\ owner = [m \in Mutex |-> NoThread] /\ lockq = [m \in Mutex |-> << >>]
  /\ pc = [t \in Thread |-> "run"]
  /\ then = [t \in Thread |-> Nowhere]
  /\ call = [t \in Thread |-> "none"]
  /\ waiters = << >> /\ done = {} /\ token = {}
  /\ clock = [t \in Thread |-> "none"] /\ timer = {}

\* What a thread in an operation does next.
Work(t) == \/ Locked(t) \/ Enqueue(t) \/ Release(t) \/ Test(t) \/ Sleep(t)
           \/ Clean(t) \/ Return(t) \/ Scan(t) \/ Mark(t) \/ Unlink(t)

Program(t) == \/ LockMutex(t) \/ UnlockMutex(t)
              \/ \E k \in Waits, time \in {"none", "before", "after"} : WaitCall(t, k, time)
              \/ \E k \in Signals : SignalCall(t, k)

Environment(t) == Abort(t) \/ Stray(t) \/ Tick(t) \/ Alarm(t)

Next == \E t \in Thread : Work(t) \/ Program(t) \/ Environment(t)
Spec == Init /\ [][Next]_vars

\* Every thread gets the processor, and a critical section of the program ends.
FairSpec == Spec /\ \A t \in Thread : WF_vars(Work(t)) /\ WF_vars(UnlockMutex(t))

-----------------------------------------------------------------------------
(* Properties                                                              *)

\* Every variable has its type.
PC == {"run", "lock", "enqueue", "release", "test", "sleep", "clean", "return",
       "scan", "mark", "unlink"}
TypeOK ==
  /\ owner \in [Mutex -> Thread \cup {NoThread}]
  /\ lockq \in [Mutex -> Seq(Thread)]
  /\ pc \in [Thread -> PC]
  /\ then \in [Thread -> [mutex : Mutex, pc : PC \ {"lock"}]]
  /\ call \in [Thread -> Waits \cup Signals \cup {"none"}]
  /\ waiters \in Seq(Thread) /\ done \subseteq Thread /\ token \subseteq Thread
  /\ clock \in [Thread -> {"none", "before", "at", "after"}]
  /\ timer \subseteq Thread

\* A thread of a wait that has given up the mutex and is not marked done is on
\* the list: whoever signals after it got the mutex cannot miss it.
WaitersListed ==
  \A t \in Thread : pc[t] \in {"release", "test", "sleep"} /\ t \notin done
                      => t \in Range(waiters)

\* A thread is on the list at most once, and never after its wait: no signal is
\* spent on a wait that is over.
ListedWaiting ==
  /\ IsInjective(waiters)
  /\ \A t \in Range(waiters) : call[t] \in Waits /\ pc[t] \notin {"enqueue", "return"}

\* The list of waiters is exact: nobody is missing from it whom a signal is due,
\* and no signal is spent on a wait that is over.
ListExact == WaitersListed /\ ListedWaiting

\* The lock of the condition variable guards the list: those that are at work on
\* it own it, and a thread asleep for a mutex is still to be given it.
Exclusive ==
  \A t \in Thread :
    /\ pc[t] \in {"enqueue", "clean", "scan", "mark", "unlink"} => owner["c"] = t
    /\ pc[t] = "lock" /\ t \notin token => t \in Range(lockq[then[t].mutex])

\* "Order of modifications matters for robustness against interruption.  If we
\* mark it done before we've scheduled a wakeup, the thread may never be woken":
\* a waiter that is marked done is awake.
DoneAwake == \A t \in Thread : pc[t] = "sleep" /\ t \in done => t \in token

\* "Signaller got interrupted or we timed out.  Clean up.": without
\* interruptions, a waiter that is still on the list at its end has timed out.
ListedTimedOut ==
  \A t \in Thread : pc[t] = "clean" /\ t \in Range(waiters) => clock[t] = "after"

\* A signal or a broadcast comes to its end.
SignalEnds == \A t \in Thread : call[t] \in Signals ~> call[t] = "none"
=============================================================================
