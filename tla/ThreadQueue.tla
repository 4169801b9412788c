---------------------------- MODULE ThreadQueue -----------------------------
(***************************************************************************)
(* Thread-blocking queues (src/runtime/thread-queue.scm) on top of the     *)
(* threads' mutexes and events.                                            *)
(*                                                                         *)
(* The queue is the chain of pairs the code keeps (first-pair, last-pair,  *)
(* element-count).  An operation is a thread's walk through "lock" (waiting *)
(* for the queue's mutex), "in" (it owns the mutex, events blocked) and    *)
(* "parked" (the mutex released, in suspend-current-thread).  What a       *)
(* thread does between locking and unlocking is one step, as nothing of it *)
(* is visible to a thread without the mutex.                               *)
(*                                                                         *)
(* Of thread.scm only this much is seen here: a pending event #f is a      *)
(* token, of which a thread has at most one; suspend-current-thread takes  *)
(* it, or waits for it; so does every round of the wait for a mutex; and   *)
(* outside of with-queue-locked the thread may lose it at any moment.      *)
(***************************************************************************)
EXTENDS Naturals, Sequences, Functions

CONSTANTS Thread, Item,
          Cell,        \* the pairs of the chain: its size bounds the queue
          MaxElements,         \* max-elements, or NoMax
          NoMax, Nil, False, NoThread,
          Broken,      \* the result of an operation that signalled an error
          Ops          \* the operations the program uses

ASSUME QueueAssumption ==
  /\ MaxElements \in Nat \cup {NoMax}
  /\ NoMax \notin Nat /\ NoThread \notin Thread
  /\ Nil \notin Cell /\ False \notin Cell \cup Item \cup {Nil} /\ Broken \notin Item

VARIABLES
  first, last,   \* first-pair, last-pair: a pair or #f
  pairs,         \* the car and cdr of every pair
  count,         \* element-count
  queuers,       \* waiting-queuers
  dequeuers,     \* waiting-dequeuers
  owner, lockq,  \* the owner and the waiting threads of the mutex
  pc,            \* where each thread is in its operation
  call,          \* the operation and its item
  token,         \* the threads with a pending event #f
  late,          \* the threads whose deadline has passed
  alarm,         \* the timer records of a thread: of this call, of old ones
  result         \* what each thread's last operation returned

chain == <<first, last, pairs, count>>
lists == <<queuers, dequeuers>>
mutex == <<owner, lockq>>
clock == <<late, alarm>>
vars  == <<chain, lists, mutex, pc, call, token, clock, result>>

Timed == {"dequeue-until", "peek-until"}
Taking == {"dequeue", "peek"} \cup Timed
Adding == {"queue", "queue-no-hang", "push"}
NoCall == [kind |-> "none", item |-> False]
Pointer == Cell \cup {Nil, False}

-----------------------------------------------------------------------------
(* The chain                                                               *)

\* A pair that nothing points to any more: what it held is of no account.
Unused == [car |-> False, cdr |-> Nil]

\* A new pair is none that anything points to.
Free == Cell \ ({first, last} \cup {pairs[c].cdr : c \in Cell})
New == CHOOSE c \in Free : TRUE

Full == MaxElements # NoMax /\ count >= MaxElements

\* %queue!
AddLast(x) ==
  /\ Free # {}
  /\ pairs' = [c \in Cell |-> IF c = New THEN [car |-> x, cdr |-> Nil]
                              ELSE IF c = last THEN [pairs[c] EXCEPT !.cdr = New]
                              ELSE pairs[c]]
  /\ last' = New
  /\ first' = IF first = False THEN New ELSE first
  /\ count' = count + 1

\* Mutant: last-pair keeps its pair when the queue gets empty.
TakeFirstKeepLast ==
  /\ first' = IF first = last THEN False ELSE pairs[first].cdr
  /\ count' = count - 1
  /\ pairs' = [pairs EXCEPT ![first] = Unused]
  /\ UNCHANGED last

\* %dequeue!
TakeFirst ==
  /\ IF first = last
     THEN first' = False /\ last' = False
     ELSE first' = pairs[first].cdr /\ UNCHANGED last
  /\ count' = count - 1
  /\ pairs' = [pairs EXCEPT ![first] = Unused]

\* %push!
AddFirst(x) ==
  /\ Free # {}
  /\ pairs' = [pairs EXCEPT ![New] = [car |-> x, cdr |-> first]]
  /\ first' = New
  /\ last' = IF last = False THEN New ELSE last
  /\ count' = count + 1

\* The pairs at which the loop before-last of thread-queue/push! can stop.
BeforeLast == {c \in Cell : pairs[c].cdr = last}

\* Mutant: the oldest item is lost.
ClobberFirst(x) ==
  /\ pairs' = [pairs EXCEPT ![first].car = x]
  /\ UNCHANGED <<first, last, count>>

\* thread-queue/push! to a full queue: the last pair becomes the first.
Clobber(x) ==
  /\ \E newLast \in BeforeLast :
       /\ pairs' = [pairs EXCEPT ![newLast].cdr = Nil,
                                 ![last] = [car |-> x, cdr |-> first]]
       /\ last' = newLast
  /\ first' = last
  /\ UNCHANGED count

-----------------------------------------------------------------------------
(* Waking                                                                  *)

Dead == {t \in Thread : pc[t] = "dead"}

\* Mutant: only the first thread of the list is signalled.
SignalledFirst(list) == IF list = << >> THEN {} ELSE {Head(list)} \ Dead

\* The threads that the loop of %resume-queuers or %resume-dequeuers signals:
\* signal-thread-event to a dead thread is an error that ends the loop.
Signalled(list) ==
  {list[i] : i \in {k \in DOMAIN list : \A j \in 1 .. k : list[j] \notin Dead}}
Breaks(list) == Range(list) \cap Dead # {}
Cleared(list) == IF Breaks(list) THEN list ELSE << >>

\* A thread is put at the end of a list.  That it may be there already makes no
\* difference to the loops, as a second #f changes nothing: the list is kept
\* without the repetition.
Enlist(list, t) == IF t \in Range(list) THEN list ELSE Append(list, t)

\* unlock-thread-mutex, after the events in signalled.
Unlock(signalled) ==
  /\ owner' = IF lockq = << >> THEN NoThread ELSE Head(lockq)
  /\ lockq' = IF lockq = << >> THEN << >> ELSE Tail(lockq)
  /\ token' = token \cup signalled \cup (IF lockq = << >> THEN {} ELSE {Head(lockq)})

\* lock-thread-mutex
Lock(t) ==
  IF owner = NoThread
  THEN /\ owner' = t /\ pc' = [pc EXCEPT ![t] = "in"] /\ UNCHANGED lockq
  ELSE /\ lockq' = Append(lockq, t) /\ pc' = [pc EXCEPT ![t] = "lock"]
       /\ UNCHANGED owner

\* The operation of t ends, having signalled a list of waiting threads.  Its
\* timer records, which nothing deregisters, become those of an old call.
Finish(t, value, list) ==
  /\ Unlock(Signalled(list))
  /\ pc' = [pc EXCEPT ![t] = "idle"]
  /\ result' = [result EXCEPT ![t] = IF Breaks(list) THEN Broken ELSE value]
  /\ call' = [call EXCEPT ![t] = NoCall]
  /\ late' = late \ {t}
  /\ alarm' = [alarm EXCEPT ![t] = IF @ = {} THEN {} ELSE {"old"}]

\* with-queue-unlocked: t, on its waiting list, unlocks and suspends.
Park(t) ==
  /\ Unlock({})
  /\ pc' = [pc EXCEPT ![t] = "parked"]
  /\ UNCHANGED <<chain, call, late, result>>

-----------------------------------------------------------------------------
(* The operations                                                          *)

In(t, kinds) == pc[t] = "in" /\ call[t].kind \in kinds

\* A call: with-queue-locked.
Call(t, k, x) ==
  /\ pc[t] = "idle" /\ k \in Ops
  /\ call' = [call EXCEPT ![t] = [kind |-> k, item |-> x]]
  /\ Lock(t)
  /\ result' = [result EXCEPT ![t] = False]
  /\ UNCHANGED <<chain, lists, token, clock>>

\* thread-queue/queue! and thread-queue/queue-no-hang!, when there is room
QueueItem(t) ==
  /\ In(t, {"queue", "queue-no-hang"}) /\ ~Full
  /\ AddLast(call[t].item)
  /\ dequeuers' = Cleared(dequeuers)
  /\ Finish(t, call[t].item, dequeuers)
  /\ UNCHANGED queuers

QueueRefused(t) ==
  /\ In(t, {"queue-no-hang"}) /\ Full
  /\ Finish(t, False, << >>)
  /\ UNCHANGED <<chain, lists>>

\* Mutant: the thread is not put on the list when it is to wait.
QueueWaitUnlisted(t) ==
  /\ In(t, {"queue"}) /\ Full
  /\ Park(t)
  /\ UNCHANGED <<queuers, dequeuers, alarm>>

QueueWait(t) ==
  /\ In(t, {"queue"}) /\ Full
  /\ queuers' = Enlist(queuers, t)
  /\ Park(t)
  /\ UNCHANGED <<dequeuers, alarm>>

\* thread-queue/dequeue! and thread-queue/dequeue-until!, on a queue that has
\* an item
DequeueItem(t) ==
  /\ In(t, {"dequeue", "dequeue-until"}) /\ count # 0
  /\ TakeFirst
  /\ queuers' = Cleared(queuers)
  /\ Finish(t, pairs[first].car, queuers)
  /\ UNCHANGED dequeuers

\* thread-queue/peek and thread-queue/peek-until, likewise
PeekItem(t) ==
  /\ In(t, {"peek", "peek-until"}) /\ count # 0
  /\ Finish(t, pairs[first].car, << >>)
  /\ UNCHANGED <<chain, lists>>

DequeueWait(t) ==
  /\ In(t, {"dequeue", "peek"}) /\ count = 0
  /\ dequeuers' = Enlist(dequeuers, t)
  /\ Park(t)
  /\ UNCHANGED <<queuers, alarm>>

\* Mutant: no timer is set.
WaitUntilUntimed(t) ==
  /\ In(t, Timed) /\ count = 0 /\ t \notin late
  /\ dequeuers' = Enlist(dequeuers, t)
  /\ Park(t)
  /\ UNCHANGED <<queuers, alarm>>

\* when-non-empty-before: before the deadline, wait with a timer set to it.
WaitUntil(t) ==
  /\ In(t, Timed) /\ count = 0 /\ t \notin late
  /\ dequeuers' = Enlist(dequeuers, t)
  /\ alarm' = [alarm EXCEPT ![t] = @ \cup {"now"}]
  /\ Park(t)
  /\ UNCHANGED queuers

\* when-non-empty-before: after the deadline.
TimeOut(t) ==
  /\ In(t, Timed) /\ count = 0 /\ t \in late
  /\ Finish(t, False, << >>)
  /\ UNCHANGED <<chain, lists>>

\* Mutant: the waiting threads are not signalled.
PushItemQuiet(t) ==
  /\ In(t, {"push"}) /\ ~Full
  /\ AddFirst(call[t].item)
  /\ Finish(t, call[t].item, << >>)
  /\ UNCHANGED lists

PushItem(t) ==
  /\ In(t, {"push"}) /\ ~Full
  /\ AddFirst(call[t].item)
  /\ dequeuers' = Cleared(dequeuers)
  /\ Finish(t, call[t].item, dequeuers)
  /\ UNCHANGED queuers

PushFull(t) ==
  /\ In(t, {"push"}) /\ Full /\ BeforeLast # {}
  /\ Clobber(call[t].item)
  /\ Finish(t, call[t].item, << >>)
  /\ UNCHANGED lists

\* The loop before-last runs off the chain: cdr of what is not a pair.
PushFails(t) ==
  /\ In(t, {"push"}) /\ Full /\ BeforeLast = {}
  /\ Finish(t, Broken, << >>)
  /\ UNCHANGED <<chain, lists>>

\* thread-queue/empty!
EmptyQueue(t) ==
  /\ In(t, {"empty"})
  /\ IF count = 0
     THEN /\ Finish(t, result[t], << >>)
          /\ UNCHANGED <<chain, lists>>
     ELSE /\ first' = False /\ last' = False /\ count' = 0
          /\ queuers' = Cleared(queuers)
          /\ Finish(t, result[t], queuers)
          /\ pairs' = [c \in Cell |-> Unused]
          /\ UNCHANGED dequeuers

\* A round of the wait for the mutex.
Locked(t) ==
  /\ pc[t] = "lock" /\ t \in token
  /\ token' = token \ {t}
  /\ pc' = [pc EXCEPT ![t] = IF owner = t THEN "in" ELSE "lock"]
  /\ UNCHANGED <<chain, lists, mutex, call, clock, result>>

\* suspend-current-thread returns and the mutex is locked again.
Resume(t) ==
  /\ pc[t] = "parked" /\ t \in token
  /\ token' = token \ {t}
  /\ Lock(t)
  /\ UNCHANGED <<chain, lists, call, clock, result>>

-----------------------------------------------------------------------------
(* The rest of the program, and time                                       *)

\* Outside of the queue the thread runs its events.
DropToken(t) ==
  /\ pc[t] = "idle" /\ t \in token
  /\ token' = token \ {t}
  /\ UNCHANGED <<chain, lists, mutex, pc, call, clock, result>>

\* Someone else wakes the thread.
Stray(t) ==
  /\ "stray" \in Ops /\ pc[t] # "dead" /\ t \notin token
  /\ token' = token \cup {t}
  /\ UNCHANGED <<chain, lists, mutex, pc, call, clock, result>>

\* The deadline of a timed call passes.
Deadline(t) ==
  /\ pc[t] \notin {"idle", "dead"} /\ call[t].kind \in Timed /\ t \notin late
  /\ late' = late \cup {t}
  /\ UNCHANGED <<chain, lists, mutex, pc, call, token, alarm, result>>

\* A timer record is due.  No call deregisters its records, so that those of
\* earlier calls, of which there may be several, still signal the thread.
Alarm(t) ==
  /\ \/ "now" \in alarm[t] /\ t \in late /\ alarm' = [alarm EXCEPT ![t] = @ \ {"now"}]
     \/ "old" \in alarm[t] /\ alarm' = [alarm EXCEPT ![t] = @ \ {"old"}]
     \/ "old" \in alarm[t] /\ UNCHANGED alarm
  /\ token' = token \cup {t}
  /\ UNCHANGED <<chain, lists, mutex, pc, call, late, result>>

\* exit-current-thread, which also drops the thread's timer records.
Exit(t) ==
  /\ "exit" \in Ops /\ pc[t] = "idle"
  /\ pc' = [pc EXCEPT ![t] = "dead"]
  /\ token' = token \ {t}
  /\ alarm' = [alarm EXCEPT ![t] = {}]
  /\ UNCHANGED <<chain, lists, mutex, call, late, result>>

-----------------------------------------------------------------------------
\* make-thread-queue
Init ==
  /\ first = False /\ last = False /\ count = 0
  /\ pairs = [c \in Cell |-> Unused]
  /\ queuers = << >> /\ dequeuers = << >>
  /\ owner = NoThread /\ lockq = << >>
  /\ pc = [t \in Thread |-> "idle"]
  /\ call = [t \in Thread |-> NoCall]
  /\ token = {} /\ late = {}
  /\ alarm = [t \in Thread |-> {}]
  /\ result = [t \in Thread |-> False]

Calls(t) ==
  \/ \E k \in Adding, x \in Item : Call(t, k, x)
  \/ \E k \in Taking \cup {"empty"} : Call(t, k, False)

\* What a thread that is in an operation does next.
Work(t) ==
  \/ QueueItem(t) \/ QueueRefused(t) \/ QueueWait(t)
  \/ DequeueItem(t) \/ PeekItem(t) \/ DequeueWait(t)
  \/ WaitUntil(t) \/ TimeOut(t)
  \/ PushItem(t) \/ PushFull(t) \/ PushFails(t) \/ EmptyQueue(t)
  \/ Locked(t) \/ Resume(t)

Environment(t) == DropToken(t) \/ Stray(t) \/ Exit(t)

Next == \E t \in Thread :
          Calls(t) \/ Work(t) \/ Environment(t) \/ Deadline(t) \/ Alarm(t)

Spec == Init /\ [][Next]_vars

\* Threads are preempted and so all get the processor; time passes.
Fairness == \A t \in Thread : /\ WF_vars(Work(t))
                              /\ WF_vars(Deadline(t)) /\ WF_vars(Alarm(t))
FairSpec == Spec /\ Fairness

-----------------------------------------------------------------------------
(* Properties                                                              *)

\* Every variable has its type.
TypeOK ==
  /\ first \in Cell \cup {False} /\ last \in Cell \cup {False}
  /\ pairs \in [Cell -> [car : Item \cup {False}, cdr : Pointer]]
  /\ count \in Nat
  /\ queuers \in Seq(Thread) /\ dequeuers \in Seq(Thread)
  /\ owner \in Thread \cup {NoThread} /\ lockq \in Seq(Thread)
  /\ pc \in [Thread -> {"idle", "lock", "in", "parked", "dead"}]
  /\ call \in [Thread -> [kind : Adding \cup Taking \cup {"empty", "none"},
                          item : Item \cup {False}]]
  /\ token \subseteq Thread /\ late \subseteq Thread
  /\ alarm \in [Thread -> SUBSET {"now", "old"}]
  /\ result \in [Thread -> Item \cup {False, Broken}]

\* s has element-count pairs, from first-pair on, each the cdr of the one before.
IsChain(s) ==
  /\ s \in [1 .. count -> Cell]
  /\ count # 0 => s[1] = first
  /\ \A i \in 1 .. count - 1 : pairs[s[i]].cdr = s[i + 1]

\* The pairs hold the queue: element-count of them from first-pair to
\* last-pair, where the chain ends, and none twice.
ChainSound ==
  /\ count = 0 <=> first = False
  /\ count = 0 <=> last = False
  /\ count # 0 => /\ \E s \in [1 .. count -> Cell] :
                       IsChain(s) /\ IsInjective(s) /\ s[count] = last
                  /\ pairs[last].cdr \in {Nil, False}

\* The fields of a queue have their types and hold one chain of pairs, whatever
\* mix of the operations changed them.
QueueSound == TypeOK /\ ChainSound

\* The refinement: an operation is one step of a sequence of items, whatever
\* the interleaving, the spurious wake-ups and the passing of deadlines.
Chain == CHOOSE s \in [1 .. count -> Cell] : IsChain(s)
Items == LET s == Chain IN [i \in 1 .. count |-> pairs[s[i]].car]
Abstract == INSTANCE BoundedQueue WITH items <- Items, Nothing <- False
RefinesBoundedQueue == Abstract!Spec

\* "They are ALL restarted whenever an item becomes available": a thread that
\* sleeps in an operation that takes an item is on waiting-dequeuers, and the
\* queue is empty.
DequeuersRestarted ==
  \A t \in Thread :
    pc[t] = "parked" /\ call[t].kind \in Taking /\ t \notin token
      => count = 0 /\ t \in Range(dequeuers)

\* A thread that sleeps in thread-queue/queue! is on waiting-queuers, and the
\* queue is full.
QueuersRestarted ==
  \A t \in Thread :
    pc[t] = "parked" /\ call[t].kind = "queue" /\ t \notin token
      => Full /\ t \in Range(queuers)

\* Nobody is forgotten: a thread asleep in an operation of either kind is listed to
\* be restarted, and what it waits for is not there.
NobodyForgotten == DequeuersRestarted /\ QueuersRestarted

\* A thread is in the queue's critical section only as the owner of its
\* mutex, and a thread asleep for the mutex is still to be given it.
Exclusive ==
  \A t \in Thread : /\ pc[t] = "in" => owner = t
                    /\ pc[t] = "lock" /\ t \notin token => t \in Range(lockq)

\* "Assume LIST is always a pair, thus that max > 0, and LAST is in FIRST"
\* (thread-queue/push!): with max-elements positive the search for the pair
\* before the last one succeeds.
PushFindsLast ==
  \A t \in Thread : MaxElements # 0 /\ In(t, {"push"}) /\ Full => BeforeLast # {}

\* A thread in thread-queue/dequeue! does not stay there while the queue has
\* an item, nor one in thread-queue/queue! while it has room: each returns, or
\* others have emptied (filled) the queue before it.
TakersServed ==
  \A t \in Thread : (call[t].kind = "dequeue" /\ count # 0)
                      ~> (call[t].kind # "dequeue" \/ count = 0)
AddersServed ==
  \A t \in Thread : (call[t].kind = "queue" /\ ~Full)
                      ~> (call[t].kind # "queue" \/ Full)

\* A call with a deadline returns, whatever the others do.
TimedReturns ==
  \A t \in Thread : call[t].kind \in Timed ~> call[t].kind \notin Timed
=============================================================================
