---------------------------- MODULE BoundedQueue ----------------------------
(***************************************************************************)
(* What a thread-blocking queue promises (src/runtime/thread-queue.scm): a *)
(* sequence of items which every operation reads and changes in one step.  *)
(* A call that may not block answers #f only when the queue is full (or    *)
(* empty) at that step.                                                    *)
(***************************************************************************)
EXTENDS Naturals, Sequences

CONSTANTS Thread, Item, MaxElements, NoMax, Nothing

VARIABLES items,    \* the queue
          result    \* the value each thread's last operation returned

Full == MaxElements # NoMax /\ Len(items) >= MaxElements

Returns(t, v) == result' = [result EXCEPT ![t] = v]

\* thread-queue/queue! and thread-queue/queue-no-hang!
Put(t, x) == ~Full /\ items' = Append(items, x) /\ Returns(t, x)
Refuse(t) == Full /\ Returns(t, Nothing) /\ UNCHANGED items

\* thread-queue/dequeue! and thread-queue/dequeue-until!
Take(t) == items # << >> /\ items' = Tail(items) /\ Returns(t, Head(items))
TimeOut(t) == items = << >> /\ Returns(t, Nothing) /\ UNCHANGED items

\* thread-queue/peek and thread-queue/peek-until
Look(t) == items # << >> /\ Returns(t, Head(items)) /\ UNCHANGED items

\* thread-queue/push!: a full queue loses its most recently queued item.
Push(t, x) ==
  /\ items' = <<x>> \o (IF Full THEN SubSeq(items, 1, Len(items) - 1) ELSE items)
  /\ Returns(t, x)

\* A thread begins its next operation.
Begin(t) == Returns(t, Nothing) /\ UNCHANGED items

\* thread-queue/empty!
Clear(t) == items' = << >> /\ UNCHANGED result

Init == items = << >> /\ result = [t \in Thread |-> Nothing]

Next == \E t \in Thread :
  \/ Begin(t)
  \/ \E x \in Item : Put(t, x) \/ Push(t, x)
  \/ Refuse(t) \/ Take(t) \/ TimeOut(t) \/ Look(t) \/ Clear(t)

Spec == Init /\ [][Next]_<<items, result>>
=============================================================================
