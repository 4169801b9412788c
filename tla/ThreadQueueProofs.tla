------------------------- MODULE ThreadQueueProofs --------------------------
(***************************************************************************)
(* Proofs about thread queues, for any sets of threads and items and any   *)
(* max-elements: no thread is forgotten - one asleep in a queue operation  *)
(* is on the list of those to be signalled and what it waits for is not    *)
(* there (QueueWakeups); the fields hold one chain of pairs                *)
(* (QueueCorrect); and the queue is a bounded sequence of items that every *)
(* operation reads and changes in one step (QueueRefines).                 *)
(***************************************************************************)
EXTENDS ThreadQueue, QueueLemmas, TLAPS

\* Zenon finds most of the steps; those that need more are marked SMT.
USE Zenon

\* The types that matter here; those of the chain of pairs do not.
QueueTypes ==
  /\ count \in Nat
  /\ queuers \in Seq(Thread) /\ dequeuers \in Seq(Thread)
  /\ owner \in Thread \cup {NoThread} /\ lockq \in Seq(Thread)
  /\ pc \in [Thread -> {"idle", "lock", "in", "parked", "dead"}]
  /\ call \in [Thread -> [kind : Adding \cup Taking \cup {"empty", "none"},
                          item : Item \cup {False}]]
  /\ token \subseteq Thread

\* The mutex of the queue: those in its queue wait for it, its owner is in the
\* critical section or about to learn that it may enter, and has a token then.
LockInv ==
  /\ IsInjective(lockq) /\ owner \notin Range(lockq)
  /\ \A t \in Thread :
       /\ t \in Range(lockq) => pc[t] = "lock"
       /\ owner = t => pc[t] \in {"in", "lock"}
       /\ pc[t] = "in" => owner = t
       /\ pc[t] = "lock" => IF owner = t THEN t \in token ELSE t \in Range(lockq)

\* No thread exits.
NobodyDead == \A t \in Thread : pc[t] # "dead"

WaitInv == /\ QueueTypes /\ LockInv /\ NobodyDead
           /\ DequeuersRestarted /\ QueuersRestarted

-----------------------------------------------------------------------------
\* With no dead thread the loops of %resume-queuers and %resume-dequeuers
\* signal every thread of the list and the list is cleared.
LEMMA AllSignalled ==
  ASSUME NobodyDead, NEW list \in Seq(Thread)
  PROVE  /\ Signalled(list) = Range(list)
         /\ ~Breaks(list)
         /\ Cleared(list) = << >>
<1>1. Dead = {}
  BY DEF Dead, NobodyDead
<1>2. QED BY <1>1 DEF Signalled, Breaks, Cleared, Range

\* unlock-thread-mutex by the thread in the critical section.
LEMMA UnlockStep ==
  ASSUME QueueTypes, LockInv, NEW t \in Thread, pc[t] = "in",
         NEW S \in SUBSET Thread, Unlock(S),
         NEW p \in {"idle", "parked"}, pc' = [pc EXCEPT ![t] = p]
  PROVE  /\ LockInv'
         /\ owner' \in Thread \cup {NoThread} /\ lockq' \in Seq(Thread)
         /\ token' \subseteq Thread /\ token \cup S \subseteq token'
         /\ pc' \in [Thread -> {"idle", "lock", "in", "parked", "dead"}]
<1>1. owner = t /\ lockq \in Seq(Thread) /\ t \notin Range(lockq)
  BY DEF QueueTypes, LockInv
<1>2. pc' \in [Thread -> {"idle", "lock", "in", "parked", "dead"}]
      /\ pc'[t] = p /\ \A u \in Thread \ {t} : pc'[u] = pc[u]
  BY DEF QueueTypes
<1>3. CASE lockq = << >>
  <2>1. owner' = NoThread /\ lockq' = << >> /\ token' = token \cup S
    BY <1>3 DEF Unlock
  <2>2. NoThread \notin Thread /\ Range(lockq) = {}
    BY <1>3, QueueAssumption, SMT DEF Range
  <2>3. LockInv'
    BY <1>1, <1>2, <1>3, <2>1, <2>2 DEF LockInv, QueueTypes
  <2>4. QED BY <1>2, <2>1, <2>3, SMT DEF QueueTypes
<1>4. CASE lockq # << >>
  <2> DEFINE h == Head(lockq)
  <2>1. owner' = h /\ lockq' = Tail(lockq) /\ token' = token \cup S \cup {h}
    BY <1>4 DEF Unlock
  <2>2. /\ Range(lockq) = Range(lockq') \cup {h}
        /\ lockq' \in Seq(Thread) /\ h \in Thread
        /\ IsInjective(lockq') /\ h \notin Range(lockq')
    BY <1>1, <1>4, <2>1, RangeOfTail, SMT DEF LockInv
  <2> HIDE DEF h
  <2>3. ASSUME NEW u \in Thread
        PROVE  /\ u \in Range(lockq') => pc'[u] = "lock"
               /\ owner' = u => pc'[u] \in {"in", "lock"}
               /\ pc'[u] = "in" => owner' = u
               /\ pc'[u] = "lock" => IF owner' = u THEN u \in token'
                                     ELSE u \in Range(lockq')
    BY <1>1, <1>2, <2>1, <2>2 DEF LockInv, QueueTypes
  <2>4. LockInv'
    BY <2>1, <2>2, <2>3 DEF LockInv
  <2>5. QED BY <1>2, <2>1, <2>2, <2>4 DEF QueueTypes
<1>5. QED BY <1>3, <1>4

\* lock-thread-mutex by a thread that is not using the mutex.
LEMMA LockStep ==
  ASSUME QueueTypes, LockInv, NEW t \in Thread, pc[t] \in {"idle", "parked"},
         Lock(t), token' = token \/ token' = token \ {t}
  PROVE  /\ LockInv'
         /\ owner' \in Thread \cup {NoThread} /\ lockq' \in Seq(Thread)
         /\ token' \subseteq Thread
         /\ pc' \in [Thread -> {"idle", "lock", "in", "parked", "dead"}]
         /\ pc'[t] \in {"in", "lock"} /\ \A u \in Thread \ {t} : pc'[u] = pc[u]
<1>1. owner # t /\ lockq \in Seq(Thread) /\ t \notin Range(lockq)
  BY DEF QueueTypes, LockInv
<1>2. CASE owner = NoThread
  <2>1. owner' = t /\ lockq' = lockq /\ pc' = [pc EXCEPT ![t] = "in"]
    BY <1>2 DEF Lock
  <2>2. /\ pc' \in [Thread -> {"idle", "lock", "in", "parked", "dead"}]
        /\ pc'[t] = "in" /\ \A u \in Thread \ {t} : pc'[u] = pc[u]
    BY <2>1 DEF QueueTypes
  <2>3. NoThread \notin Thread
    BY QueueAssumption
  <2>4. LockInv'
    BY <1>1, <1>2, <2>1, <2>2, <2>3 DEF LockInv, QueueTypes
  <2>5. QED BY <2>1, <2>2, <2>4 DEF QueueTypes
<1>3. CASE owner # NoThread
  <2>1. owner' = owner /\ lockq' = Append(lockq, t) /\ pc' = [pc EXCEPT ![t] = "lock"]
    BY <1>3 DEF Lock
  <2>2. /\ pc' \in [Thread -> {"idle", "lock", "in", "parked", "dead"}]
        /\ pc'[t] = "lock" /\ \A u \in Thread \ {t} : pc'[u] = pc[u]
    BY <2>1 DEF QueueTypes
  <2>3. Range(lockq') = Range(lockq) \cup {t} /\ IsInjective(lockq') /\ lockq' \in Seq(Thread)
    BY <1>1, <2>1, RangeOfAppend, SMT DEF LockInv
  <2>4. LockInv'
    BY <1>1, <1>3, <2>1, <2>2, <2>3 DEF LockInv, QueueTypes
  <2>5. QED BY <2>1, <2>2, <2>3, <2>4 DEF QueueTypes
<1>4. QED BY <1>2, <1>3

\* The end of an operation, whatever list of waiting threads it signals.
LEMMA FinishStep ==
  ASSUME WaitInv, NEW t \in Thread, pc[t] = "in", NEW v,
         NEW list \in Seq(Thread), Finish(t, v, list)
  PROVE  /\ LockInv' /\ NobodyDead'
         /\ owner' \in Thread \cup {NoThread} /\ lockq' \in Seq(Thread)
         /\ token' \subseteq Thread /\ token \cup Range(list) \subseteq token'
         /\ pc' \in [Thread -> {"idle", "lock", "in", "parked", "dead"}]
         /\ call' \in [Thread -> [kind : Adding \cup Taking \cup {"empty", "none"},
                                  item : Item \cup {False}]]
         /\ pc'[t] = "idle"
         /\ \A u \in Thread \ {t} : pc'[u] = pc[u] /\ call'[u] = call[u]
<1>1. QueueTypes /\ LockInv /\ NobodyDead
  BY DEF WaitInv
<1>2. Signalled(list) = Range(list)
  BY <1>1, AllSignalled
<1>3. Range(list) \subseteq Thread
  BY SMT DEF Range
<1>4. Unlock(Range(list)) /\ pc' = [pc EXCEPT ![t] = "idle"]
      /\ call' = [call EXCEPT ![t] = NoCall]
  BY <1>2 DEF Finish
<1>5. NoCall \in [kind : Adding \cup Taking \cup {"empty", "none"}, item : Item \cup {False}]
  BY DEF NoCall
<1>6. /\ call' \in [Thread -> [kind : Adding \cup Taking \cup {"empty", "none"},
                                item : Item \cup {False}]]
      /\ \A u \in Thread \ {t} : call'[u] = call[u]
  BY <1>1, <1>4, <1>5 DEF QueueTypes
<1>7. /\ pc'[t] = "idle" /\ \A u \in Thread \ {t} : pc'[u] = pc[u]
      /\ NobodyDead'
  BY <1>1, <1>4 DEF QueueTypes, NobodyDead
<1>8. QED BY <1>1, <1>3, <1>4, <1>6, <1>7, UnlockStep

\* A thread that has put itself on a waiting list unlocks and suspends.
LEMMA ParkStep ==
  ASSUME WaitInv, NEW t \in Thread, pc[t] = "in", Park(t)
  PROVE  /\ LockInv' /\ NobodyDead'
         /\ owner' \in Thread \cup {NoThread} /\ lockq' \in Seq(Thread)
         /\ token' \subseteq Thread /\ token \subseteq token'
         /\ pc' \in [Thread -> {"idle", "lock", "in", "parked", "dead"}]
         /\ count' = count /\ call' = call
         /\ \A u \in Thread \ {t} : pc'[u] = pc[u]
<1>1. QueueTypes /\ LockInv /\ NobodyDead
  BY DEF WaitInv
<1>2. Unlock({}) /\ pc' = [pc EXCEPT ![t] = "parked"] /\ count' = count /\ call' = call
  BY DEF Park, chain
<1>3. NobodyDead' /\ \A u \in Thread \ {t} : pc'[u] = pc[u]
  BY <1>1, <1>2 DEF QueueTypes, NobodyDead
<1>4. QED BY <1>1, <1>2, <1>3, UnlockStep

\* A thread is on the list it has been put on, and so are those that were.
LEMMA Enlisted ==
  ASSUME NEW list \in Seq(Thread), NEW t \in Thread
  PROVE  /\ Enlist(list, t) \in Seq(Thread)
         /\ Range(Enlist(list, t)) = Range(list) \cup {t}
<1>1. CASE t \in Range(list)
  BY <1>1 DEF Enlist
<1>2. CASE t \notin Range(list)
  BY <1>2, RangeOfAppend, SMT DEF Enlist
<1>3. QED BY <1>1, <1>2

-----------------------------------------------------------------------------
\* The operations that end: an item is added or taken, or nothing is done.
LEMMA EndingStep ==
  ASSUME WaitInv, NEW t \in Thread,
         \/ QueueItem(t) \/ QueueRefused(t) \/ DequeueItem(t) \/ PeekItem(t)
         \/ TimeOut(t) \/ PushItem(t) \/ PushFull(t) \/ PushFails(t) \/ EmptyQueue(t)
  PROVE  WaitInv'
<1> USE DEF WaitInv
<1>t. /\ count \in Nat /\ MaxElements \in Nat \cup {NoMax} /\ NoMax \notin Nat
      /\ queuers \in Seq(Thread) /\ dequeuers \in Seq(Thread) /\ << >> \in Seq(Thread)
  BY QueueAssumption, SMT DEF QueueTypes
<1>c. /\ Cleared(queuers) = << >> /\ Cleared(dequeuers) = << >>
  BY <1>t, AllSignalled
<1>1. CASE QueueItem(t) \/ PushItem(t)
  <2>1. /\ pc[t] = "in" /\ ~Full /\ count' = count + 1
        /\ dequeuers' = << >> /\ queuers' = queuers
        /\ \E v : Finish(t, v, dequeuers)
    BY <1>1, <1>c DEF QueueItem, PushItem, In, AddLast, AddFirst
  <2>2. PICK v : Finish(t, v, dequeuers)
    BY <2>1
  <2>3. QueueTypes' /\ LockInv' /\ NobodyDead'
    BY <1>t, <2>1, <2>2, FinishStep, SMT DEF QueueTypes
  <2>4. \A u \in Thread : pc'[u] = "parked" /\ u \notin token' =>
          /\ u # t /\ pc[u] = "parked" /\ call'[u] = call[u]
          /\ u \notin token /\ u \notin Range(dequeuers)
    BY <1>t, <2>1, <2>2, FinishStep
  <2>5. DequeuersRestarted' /\ QueuersRestarted'
    BY <2>1, <2>4 DEF DequeuersRestarted, QueuersRestarted
  <2>6. QED BY <2>3, <2>5
<1>2. CASE DequeueItem(t)
  <2>1. /\ pc[t] = "in" /\ count # 0 /\ count' = count - 1
        /\ queuers' = << >> /\ dequeuers' = dequeuers
        /\ \E v : Finish(t, v, queuers)
    BY <1>2, <1>c DEF DequeueItem, In, TakeFirst
  <2>2. PICK v : Finish(t, v, queuers)
    BY <2>1
  <2>3. QueueTypes' /\ LockInv' /\ NobodyDead'
    BY <1>t, <2>1, <2>2, FinishStep, SMT DEF QueueTypes
  <2>4. \A u \in Thread : pc'[u] = "parked" /\ u \notin token' =>
          /\ u # t /\ pc[u] = "parked" /\ call'[u] = call[u]
          /\ u \notin token /\ u \notin Range(queuers)
    BY <1>t, <2>1, <2>2, FinishStep
  <2>5. DequeuersRestarted' /\ QueuersRestarted'
    BY <2>1, <2>4 DEF DequeuersRestarted, QueuersRestarted
  <2>6. QED BY <2>3, <2>5
<1>3. CASE EmptyQueue(t) /\ count # 0
  <2>1. /\ pc[t] = "in" /\ count' = 0
        /\ queuers' = << >> /\ dequeuers' = dequeuers
        /\ \E v : Finish(t, v, queuers)
    BY <1>3, <1>c DEF EmptyQueue, In
  <2>2. PICK v : Finish(t, v, queuers)
    BY <2>1
  <2>3. QueueTypes' /\ LockInv' /\ NobodyDead'
    BY <1>t, <2>1, <2>2, FinishStep DEF QueueTypes
  <2>4. \A u \in Thread : pc'[u] = "parked" /\ u \notin token' =>
          /\ u # t /\ pc[u] = "parked" /\ call'[u] = call[u]
          /\ u \notin token /\ u \notin Range(queuers)
    BY <1>t, <2>1, <2>2, FinishStep
  <2>5. DequeuersRestarted' /\ QueuersRestarted'
    BY <2>1, <2>4 DEF DequeuersRestarted, QueuersRestarted
  <2>6. QED BY <2>3, <2>5
<1>4. CASE \/ QueueRefused(t) \/ PeekItem(t) \/ TimeOut(t) \/ PushFull(t)
           \/ PushFails(t) \/ (EmptyQueue(t) /\ count = 0)
  <2>1. /\ pc[t] = "in" /\ count' = count
        /\ queuers' = queuers /\ dequeuers' = dequeuers
        /\ \E v : Finish(t, v, << >>)
    BY <1>4 DEF QueueRefused, PeekItem, TimeOut, PushFull, PushFails, EmptyQueue,
                In, Clobber, lists, chain
  <2>2. PICK v : Finish(t, v, << >>)
    BY <2>1
  <2>3. QueueTypes' /\ LockInv' /\ NobodyDead'
    BY <1>t, <2>1, <2>2, FinishStep DEF QueueTypes
  <2>4. \A u \in Thread : pc'[u] = "parked" /\ u \notin token' =>
          u # t /\ pc[u] = "parked" /\ call'[u] = call[u] /\ u \notin token
    BY <1>t, <2>1, <2>2, FinishStep
  <2>5. Full' = Full
    BY <2>1 DEF Full
  <2>6. DequeuersRestarted' /\ QueuersRestarted'
    BY <2>1, <2>4, <2>5 DEF DequeuersRestarted, QueuersRestarted
  <2>7. QED BY <2>3, <2>6
<1>5. QED BY <1>1, <1>2, <1>3, <1>4

\* The operations that have to wait.
LEMMA WaitingStep ==
  ASSUME WaitInv, NEW t \in Thread,
         QueueWait(t) \/ DequeueWait(t) \/ WaitUntil(t)
  PROVE  WaitInv'
<1> USE DEF WaitInv
<1>t. queuers \in Seq(Thread) /\ dequeuers \in Seq(Thread) /\ count \in Nat
  BY DEF QueueTypes
<1>1. /\ pc[t] = "in" /\ Park(t)
      /\ \/ /\ call[t].kind = "queue" /\ Full
            /\ queuers' = Enlist(queuers, t) /\ dequeuers' = dequeuers
         \/ /\ call[t].kind \in Taking /\ count = 0
            /\ dequeuers' = Enlist(dequeuers, t) /\ queuers' = queuers
  BY DEF QueueWait, DequeueWait, WaitUntil, In, Taking, Timed
<1>2. /\ queuers' \in Seq(Thread) /\ Range(queuers) \subseteq Range(queuers')
      /\ dequeuers' \in Seq(Thread) /\ Range(dequeuers) \subseteq Range(dequeuers')
      /\ t \in Range(queuers') \/ t \in Range(dequeuers')
      /\ call[t].kind = "queue" => t \in Range(queuers')
      /\ call[t].kind \in Taking => t \in Range(dequeuers')
  BY <1>t, <1>1, Enlisted, SMT DEF Taking, Timed
<1>3. QueueTypes' /\ LockInv' /\ NobodyDead'
  BY <1>t, <1>1, <1>2, ParkStep DEF QueueTypes
<1>4. /\ count' = count /\ call' = call
      /\ \A u \in Thread \ {t} : pc'[u] = pc[u]
      /\ token \subseteq token'
  BY <1>1, ParkStep
<1>5. Full' = Full
  BY <1>4 DEF Full
<1>6. call[t].kind = "queue" => Full
  BY <1>1 DEF Taking, Timed
<1>7. call[t].kind \in Taking => count = 0
  BY <1>1 DEF Taking, Timed
<1>8. DequeuersRestarted'
  BY <1>2, <1>4, <1>7 DEF DequeuersRestarted
<1>9. QueuersRestarted'
  BY <1>2, <1>4, <1>5, <1>6 DEF QueuersRestarted
<1>10. QED BY <1>3, <1>8, <1>9

\* Steps that leave the queue, its lists and the calls alone, and in which the
\* only thread that may lose its token, or change its place, is one that is not
\* parked afterwards.
LEMMA OtherStep ==
  ASSUME WaitInv, NEW t \in Thread, LockInv',
         count' = count, queuers' = queuers, dequeuers' = dequeuers,
         \A u \in Thread \ {t} : pc'[u] = pc[u] /\ call'[u] = call[u],
         token \ {t} \subseteq token',
         pc'[t] = "parked" => /\ pc[t] = "parked" /\ call'[t] = call[t]
                              /\ t \in token => t \in token'
  PROVE  DequeuersRestarted' /\ QueuersRestarted'
<1>1. Full' = Full
  BY DEF Full
<1>2. \A u \in Thread : pc'[u] = "parked" /\ u \notin token' =>
        pc[u] = "parked" /\ call'[u] = call[u] /\ u \notin token
  OBVIOUS
<1>3. QED BY <1>1, <1>2 DEF WaitInv, DequeuersRestarted, QueuersRestarted

\* Calls, and what happens to a thread's token and to the mutex.
LEMMA TokenStep ==
  ASSUME WaitInv, NEW t \in Thread, "exit" \notin Ops,
         Calls(t) \/ Locked(t) \/ Resume(t) \/ Environment(t) \/ Deadline(t) \/ Alarm(t)
  PROVE  WaitInv'
<1>w. QueueTypes /\ LockInv /\ NobodyDead
  BY DEF WaitInv
<1>1. CASE Calls(t)
  <2>1. PICK k \in Adding \cup Taking \cup {"empty"}, x \in Item \cup {False} : Call(t, k, x)
    BY <1>1 DEF Calls
  <2>2. /\ pc[t] = "idle" /\ Lock(t) /\ token' = token
        /\ count' = count /\ queuers' = queuers /\ dequeuers' = dequeuers
        /\ call' = [call EXCEPT ![t] = [kind |-> k, item |-> x]]
    BY <2>1 DEF Call, chain, lists
  <2>3. /\ LockInv'
        /\ owner' \in Thread \cup {NoThread} /\ lockq' \in Seq(Thread)
        /\ token' \subseteq Thread
        /\ pc' \in [Thread -> {"idle", "lock", "in", "parked", "dead"}]
        /\ pc'[t] \in {"in", "lock"} /\ \A u \in Thread \ {t} : pc'[u] = pc[u]
    BY <1>w, <2>2, LockStep
  <2>4. /\ call' \in [Thread -> [kind : Adding \cup Taking \cup {"empty", "none"},
                                 item : Item \cup {False}]]
        /\ \A u \in Thread \ {t} : call'[u] = call[u]
    BY <1>w, <2>2 DEF QueueTypes
  <2>5. QueueTypes' /\ NobodyDead'
    BY <1>w, <2>2, <2>3, <2>4, SMT DEF QueueTypes, NobodyDead
  <2>6. DequeuersRestarted' /\ QueuersRestarted'
    BY <2>2, <2>3, <2>4, OtherStep
  <2>7. QED BY <2>3, <2>5, <2>6 DEF WaitInv
<1>2. CASE Resume(t)
  <2>1. /\ pc[t] = "parked" /\ Lock(t) /\ token' = token \ {t}
        /\ count' = count /\ queuers' = queuers /\ dequeuers' = dequeuers
        /\ call' = call
    BY <1>2 DEF Resume, chain, lists
  <2>2. /\ LockInv'
        /\ owner' \in Thread \cup {NoThread} /\ lockq' \in Seq(Thread)
        /\ token' \subseteq Thread
        /\ pc' \in [Thread -> {"idle", "lock", "in", "parked", "dead"}]
        /\ pc'[t] \in {"in", "lock"} /\ \A u \in Thread \ {t} : pc'[u] = pc[u]
    BY <1>w, <2>1, LockStep
  <2>3. QueueTypes' /\ NobodyDead'
    BY <1>w, <2>1, <2>2 DEF QueueTypes, NobodyDead
  <2>4. DequeuersRestarted' /\ QueuersRestarted'
    BY <2>1, <2>2, OtherStep
  <2>5. QED BY <2>2, <2>3, <2>4 DEF WaitInv
<1>3. CASE Locked(t)
  <2>1. /\ pc[t] = "lock" /\ token' = token \ {t}
        /\ pc' = [pc EXCEPT ![t] = IF owner = t THEN "in" ELSE "lock"]
        /\ count' = count /\ queuers' = queuers /\ dequeuers' = dequeuers
        /\ call' = call /\ owner' = owner /\ lockq' = lockq
    BY <1>3 DEF Locked, chain, lists, mutex
  <2>2. /\ pc' \in [Thread -> {"idle", "lock", "in", "parked", "dead"}]
        /\ pc'[t] = (IF owner = t THEN "in" ELSE "lock")
        /\ \A u \in Thread \ {t} : pc'[u] = pc[u]
    BY <1>w, <2>1 DEF QueueTypes
  <2>3. LockInv'
    BY <1>w, <2>1, <2>2 DEF LockInv
  <2>4. QueueTypes' /\ NobodyDead'
    BY <1>w, <2>1, <2>2 DEF QueueTypes, NobodyDead
  <2>5. DequeuersRestarted' /\ QueuersRestarted'
    BY <2>1, <2>2, <2>3, OtherStep
  <2>6. QED BY <2>3, <2>4, <2>5 DEF WaitInv
<1>4. CASE Environment(t) \/ Deadline(t) \/ Alarm(t)
  <2>1. /\ count' = count /\ queuers' = queuers /\ dequeuers' = dequeuers
        /\ call' = call /\ owner' = owner /\ lockq' = lockq /\ pc' = pc
        /\ \/ token' \in {token, token \cup {t}}
           \/ pc[t] = "idle" /\ token' = token \ {t}
    BY <1>4 DEF Environment, DropToken, Stray, Exit, Deadline, Alarm, chain, lists, mutex
  <2>2. LockInv'
    BY <1>w, <2>1 DEF LockInv
  <2>3. QueueTypes' /\ NobodyDead'
    BY <1>w, <2>1 DEF QueueTypes, NobodyDead
  <2>4. DequeuersRestarted' /\ QueuersRestarted'
    BY <2>1, <2>2, OtherStep
  <2>5. QED BY <2>2, <2>3, <2>4 DEF WaitInv
<1>5. QED BY <1>1, <1>2, <1>3, <1>4

-----------------------------------------------------------------------------
\* No thread is forgotten.  As long as no thread exits - one that has timed out
\* of thread-queue/dequeue-until! leaves its entry on the list, and the loop
\* over the list stops at a thread that has exited since - a thread asleep in
\* a queue operation is still to be signalled, the queue is empty (or full, for
\* one that has an item to add), and only the owner of the mutex is in the
\* critical section.
THEOREM QueueWakeups ==
  ASSUME "exit" \notin Ops
  PROVE  Spec => [](NobodyForgotten /\ Exclusive)
<1>1. Init => WaitInv
  <2>1. NoThread \notin Thread /\ Range(<< >>) = {} /\ IsInjective(<< >>)
    BY QueueAssumption, SMT DEF Range, IsInjective
  <2>2. SUFFICES ASSUME Init PROVE WaitInv
    OBVIOUS
  <2>3. QueueTypes
    BY <2>2, SMT DEF Init, QueueTypes, NoCall
  <2>4. LockInv /\ NobodyDead
    BY <2>1, <2>2 DEF Init, LockInv, NobodyDead
  <2>5. DequeuersRestarted /\ QueuersRestarted
    BY <2>2 DEF Init, DequeuersRestarted, QueuersRestarted
  <2>6. QED BY <2>3, <2>4, <2>5 DEF WaitInv
<1>2. WaitInv /\ [Next]_vars => WaitInv'
  <2>1. SUFFICES ASSUME WaitInv, [Next]_vars PROVE WaitInv'
    OBVIOUS
  <2>2. CASE Next
    <3>1. PICK t \in Thread : \/ Calls(t) \/ Work(t) \/ Environment(t)
                              \/ Deadline(t) \/ Alarm(t)
      BY <2>2 DEF Next
    <3>2. QED BY <2>1, <3>1, EndingStep, WaitingStep, TokenStep DEF Work
  <2>3. CASE UNCHANGED vars
    BY <2>1, <2>3 DEF vars, chain, lists, mutex, WaitInv, QueueTypes, LockInv,
                      NobodyDead, DequeuersRestarted, QueuersRestarted, Full
  <2>4. QED BY <2>1, <2>2, <2>3
<1>3. WaitInv => NobodyForgotten /\ Exclusive
  BY DEF WaitInv, LockInv, Exclusive, NobodyForgotten
<1>4. QED BY <1>1, <1>2, <1>3, PTL DEF Spec

-----------------------------------------------------------------------------
(* The chain of pairs                                                      *)

\* s holds the pairs of the queue, each once, the last of them ends the chain, and no
\* other pair points anywhere.
Holds(s) ==
  /\ IsChain(s) /\ IsInjective(s)
  /\ count # 0 => s[count] = last /\ pairs[last].cdr \in {Nil, False}
  /\ \A i \in 1 .. count : pairs[s[i]].car \in Item
  /\ \A c \in Cell : c \in Range(s) \/ pairs[c] = Unused

ChainInv ==
  /\ count = 0 <=> first = False
  /\ count = 0 <=> last = False
  /\ \E s \in [1 .. count -> Cell] : Holds(s)

\* The cdrs and the first pair determine the chain.
Linked(n, P, f, s) ==
  /\ s \in [1 .. n -> Cell]
  /\ n # 0 => s[1] = f
  /\ \A i \in 1 .. n - 1 : P[s[i]].cdr = s[i + 1]

\* The chain that thread-queue keeps is the only one there is.
LEMMA OneChain ==
  ASSUME NEW n \in Nat, NEW P, NEW f, NEW s, NEW q, Linked(n, P, f, s), Linked(n, P, f, q)
  PROVE  s = q
<1> USE DEF Linked
<1> DEFINE I == {i \in 1 .. n : s[i] # q[i]}
<1>1. SUFFICES ASSUME I # {} PROVE FALSE
  BY SMT
<1>2. I \subseteq Nat
  BY SMT
<1>3. PICK k \in I : \A y \in I : k <= y
  BY <1>1, <1>2, LeastNatural
<1>4. k \in 1 .. n /\ k # 1 /\ s[k] # q[k]
  BY SMT
<1>5. k - 1 \in 1 .. n - 1 /\ k - 1 \in 1 .. n /\ (k - 1) + 1 = k /\ ~(k <= k - 1)
  BY <1>4, SMT
<1>6. s[k - 1] = q[k - 1]
  BY <1>3, <1>5
<1>7. QED BY <1>4, <1>5, <1>6

\* The items of the queue are those of its chain, before a step
LEMMA ItemsOf ==
  ASSUME count \in Nat, NEW s, IsChain(s)
  PROVE  Items = [i \in 1 .. count |-> pairs[s[i]].car]
<1>1. s \in [1 .. count -> Cell] /\ \E q \in [1 .. count -> Cell] : IsChain(q)
  BY DEF IsChain
<1>2. Chain \in [1 .. count -> Cell] /\ IsChain(Chain)
  BY <1>1 DEF Chain
<1>3. Linked(count, pairs, first, s) /\ Linked(count, pairs, first, Chain)
  BY <1>2 DEF IsChain, Linked
<1>4. s = Chain
  BY <1>3, OneChain
<1>5. QED BY <1>4 DEF Items

\* and after it.
LEMMA ItemsNext ==
  ASSUME count' \in Nat, NEW s, IsChain(s)'
  PROVE  Items' = [i \in 1 .. count' |-> pairs'[s[i]].car]
<1>1. s \in [1 .. count' -> Cell] /\ \E q \in [1 .. count' -> Cell] : IsChain(q)'
  BY DEF IsChain
<1>2. Chain' \in [1 .. count' -> Cell] /\ IsChain(Chain)'
  BY <1>1 DEF Chain
<1>3. Linked(count', pairs', first', s) /\ Linked(count', pairs', first', Chain')
  BY <1>2 DEF IsChain, Linked
<1>4. s = Chain'
  BY <1>3, OneChain
<1>5. QED BY <1>4 DEF Items

\* The items are a sequence.
LEMMA ItemsType ==
  ASSUME count \in Nat, NEW s, Holds(s)
  PROVE  /\ Items \in Seq(Item) /\ Len(Items) = count
         /\ \A i \in 1 .. count : Items[i] = pairs[s[i]].car
<1>1. Items = [i \in 1 .. count |-> pairs[s[i]].car]
  BY ItemsOf DEF Holds
<1>2. \A i \in 1 .. count : pairs[s[i]].car \in Item
  BY DEF Holds
<1>3. QED BY <1>1, <1>2, SMT

-----------------------------------------------------------------------------
(* Sequences by their elements                                             *)

\* What thread-queue/queue! makes of the queue,
LEMMA IsAppend ==
  ASSUME NEW S, NEW p \in Seq(S), NEW x \in S, NEW r \in Seq(S), Len(r) = Len(p) + 1,
         r[Len(p) + 1] = x, \A i \in 1 .. Len(p) : r[i] = p[i]
  PROVE  r = Append(p, x)
<1>1. /\ Append(p, x) \in Seq(S) /\ Len(Append(p, x)) = Len(p) + 1
      /\ Append(p, x)[Len(p) + 1] = x /\ \A i \in 1 .. Len(p) : Append(p, x)[i] = p[i]
  BY AppendProperties, SMT
<1>2. \A i \in 1 .. Len(p) + 1 : i \in 1 .. Len(p) \/ i = Len(p) + 1
  BY SMT
<1>3. \A i \in 1 .. Len(p) + 1 : r[i] = Append(p, x)[i]
  BY <1>1, <1>2
<1>4. QED BY <1>1, <1>3, SeqEqual

\* thread-queue/dequeue!
LEMMA IsTail ==
  ASSUME NEW S, NEW p \in Seq(S), p # << >>, NEW r \in Seq(S), Len(r) = Len(p) - 1,
         \A i \in 1 .. Len(r) : r[i] = p[i + 1]
  PROVE  r = Tail(p)
<1>1. /\ Tail(p) \in Seq(S) /\ Len(Tail(p)) = Len(p) - 1
      /\ \A i \in 1 .. Len(Tail(p)) : Tail(p)[i] = p[i + 1]
  BY HeadTailProperties
<1>2. QED BY <1>1, SeqEqual

\* and thread-queue/push!.
LEMMA IsPush ==
  ASSUME NEW S, NEW p \in Seq(S), NEW x \in S, NEW r \in Seq(S), Len(r) = Len(p) + 1,
         r[1] = x, \A i \in 1 .. Len(p) : r[i + 1] = p[i]
  PROVE  r = <<x>> \o p
<1>1. <<x>> \in Seq(S) /\ Len(<<x>>) = 1 /\ <<x>>[1] = x
  BY SMT
<1>2. /\ <<x>> \o p \in Seq(S) /\ Len(<<x>> \o p) = 1 + Len(p)
      /\ \A i \in 1 .. 1 + Len(p) : (<<x>> \o p)[i] = IF i <= 1 THEN <<x>>[i] ELSE p[i - 1]
  BY <1>1, ConcatProperties, SMT
<1>3. ASSUME NEW i \in 1 .. Len(r) PROVE r[i] = (<<x>> \o p)[i]
  <2>1. CASE i = 1
    BY <1>1, <1>2, <2>1, SMT
  <2>2. CASE i # 1
    <3>1. i - 1 \in 1 .. Len(p) /\ (i - 1) + 1 = i /\ i \in 1 .. 1 + Len(p) /\ ~(i <= 1)
      BY <2>2, SMT
    <3>2. QED BY <1>2, <3>1
  <2>3. QED BY <2>1, <2>2
<1>4. Len(r) = Len(<<x>> \o p)
  BY <1>2, SMT
<1>5. QED BY <1>2, <1>3, <1>4, SeqEqual

-----------------------------------------------------------------------------
(* The operations on the chain                                             *)

\* What a step that leaves the queue with another chain has to show.
LEMMA ChainOf ==
  ASSUME count' \in Nat, NEW q, Holds(q)',
         (count = 0)' <=> (first = False)', (count = 0)' <=> (last = False)'
  PROVE  /\ ChainInv' /\ Items' \in Seq(Item) /\ Len(Items') = count'
         /\ \A i \in 1 .. count' : Items'[i] = pairs'[q[i]].car
<1>1. IsChain(q)' /\ q \in [1 .. count' -> Cell]
  BY DEF Holds, IsChain
<1>2. Items' = [i \in 1 .. count' |-> pairs'[q[i]].car]
  BY <1>1, ItemsNext
<1>3. \A i \in 1 .. count' : pairs'[q[i]].car \in Item
  BY DEF Holds
<1>4. Items' \in Seq(Item) /\ Len(Items') = count'
  BY <1>2, <1>3, SMT
<1>5. QED BY <1>1, <1>2, <1>4 DEF ChainInv

\* A new pair is not in the chain.
LEMMA NewPair ==
  ASSUME count \in Nat, NEW s, IsChain(s), Free # {}
  PROVE  New \in Cell /\ New # last /\ New # first /\ New \notin Range(s)
<1>1. New \in Free
  BY DEF New
<1>2. New \in Cell /\ New # last /\ New # first /\ \A c \in Cell : pairs[c].cdr # New
  BY <1>1 DEF Free
<1>3. ASSUME NEW i \in 1 .. count PROVE s[i] # New
  <2>1. CASE i = 1
    <3>1. s[1] = first
      BY <2>1, SMT DEF IsChain
    <3>2. QED BY <1>2, <2>1, <3>1
  <2>2. CASE i # 1
    <3>1. i - 1 \in 1 .. count - 1 /\ i - 1 \in 1 .. count /\ (i - 1) + 1 = i
      BY <2>2, SMT
    <3>2. pairs[s[i - 1]].cdr = s[i] /\ s[i - 1] \in Cell
      BY <3>1 DEF IsChain
    <3>3. QED BY <1>2, <3>2
  <2>3. QED BY <2>1, <2>2
<1>4. Range(s) = {s[i] : i \in 1 .. count}
  BY DEF IsChain, Range
<1>5. QED BY <1>2, <1>3, <1>4

\* %queue! puts an item at the end.
LEMMA AddLastStep ==
  ASSUME TypeOK, ChainInv, NEW x \in Item, AddLast(x)
  PROVE  ChainInv' /\ Items' = Append(Items, x)
<1>1. PICK s \in [1 .. count -> Cell] : Holds(s)
  BY DEF ChainInv
<1>n. count \in Nat /\ count' = count + 1 /\ count' \in Nat /\ count' # 0
  BY SMT DEF TypeOK, AddLast
<1>f. False \notin Cell /\ (count = 0 <=> first = False) /\ (count = 0 <=> last = False)
  BY QueueAssumption DEF ChainInv
<1> DEFINE n == count
           c == New
<1>2. c \in Cell /\ c # last /\ c # first /\ c \notin Range(s)
  BY <1>1, <1>n, NewPair DEF Holds, AddLast
<1>3. /\ last' = c /\ (n = 0 => first' = c) /\ (n # 0 => first' = first)
      /\ pairs' = [d \in Cell |-> IF d = c THEN [car |-> x, cdr |-> Nil]
                                  ELSE IF d = last THEN [pairs[d] EXCEPT !.cdr = c]
                                  ELSE pairs[d]]
  BY <1>f DEF AddLast
<1> HIDE DEF c
<1>4. /\ IsInjective(s) /\ IsChain(s)
      /\ n # 0 => s[n] = last /\ last \in Cell
      /\ \A i \in 1 .. n : s[i] \in Cell /\ s[i] # c /\ pairs[s[i]].car \in Item
      /\ \A d \in Cell : d \in Range(s) \/ pairs[d] = Unused
  <2>1. Range(s) = {s[i] : i \in 1 .. n}
    BY DEF Range
  <2>2. n # 0 => n \in 1 .. n
    BY <1>n, SMT
  <2>3. QED BY <1>1, <1>2, <2>1, <2>2 DEF Holds
<1>5. /\ pairs'[c].car = x /\ pairs'[c].cdr = Nil
      /\ n # 0 => pairs'[last].cdr = c /\ pairs'[last].car = pairs[last].car
      /\ \A d \in Cell : d # c /\ d # last => pairs'[d] = pairs[d]
  <2>1. pairs'[c].car = x /\ pairs'[c].cdr = Nil
    <3>1. pairs'[c] = [car |-> x, cdr |-> Nil]
      BY <1>2, <1>3
    <3>2. QED BY <3>1, SMT
  <2>2. ASSUME n # 0 PROVE pairs'[last].cdr = c /\ pairs'[last].car = pairs[last].car
    <3>1. last \in Cell /\ last # c
      BY <1>2, <1>4, <2>2
    <3>2. pairs'[last] = [pairs[last] EXCEPT !.cdr = c]
      BY <1>3, <3>1
    <3>3. pairs[last] \in [car : Item \cup {False}, cdr : Pointer]
      BY <3>1 DEF TypeOK
    <3>4. QED BY <3>2, <3>3
  <2>3. ASSUME NEW d \in Cell, d # c, d # last PROVE pairs'[d] = pairs[d]
    BY <1>3, <2>3
  <2>4. QED BY <2>1, <2>2, <2>3
<1>6. PICK q \in [1 .. n + 1 -> Cell] : q[n + 1] = c /\ \A i \in 1 .. n : q[i] = s[i]
  <2> DEFINE p == [i \in 1 .. n + 1 |-> IF i = n + 1 THEN c ELSE s[i]]
  <2>1. p \in [1 .. n + 1 -> Cell] /\ p[n + 1] = c /\ \A i \in 1 .. n : p[i] = s[i]
    BY <1>n, <1>2, SMT
  <2>2. QED BY <2>1
<1>7. \A i \in 1 .. n - 1 : s[i] # last
  BY <1>n, <1>4, SMT DEF IsInjective
<1>r. Range(q) = Range(s) \cup {c} /\ IsInjective(q)
  <2>1. DOMAIN q = 1 .. n + 1 /\ DOMAIN s = 1 .. n
    BY <1>6
  <2>2. 1 .. n + 1 = (1 .. n) \cup {n + 1} /\ n + 1 \notin 1 .. n
    BY <1>n, SMT
  <2>3. Range(q) = Range(s) \cup {c}
    BY <1>6, <2>1, <2>2, SMT DEF Range
  <2>4. IsInjective(q)
    BY <1>4, <1>6, <2>1, <2>2, SMT DEF IsInjective
  <2>5. QED BY <2>3, <2>4
<1>8. ASSUME NEW i \in 1 .. n
      PROVE  pairs'[q[i]].cdr = q[i + 1] /\ pairs'[q[i]].car = pairs[s[i]].car
  <2>1. CASE i = n
    <3>1. n # 0 /\ q[i] = last /\ q[i + 1] = c /\ s[i] = last
      BY <1>4, <1>6, <2>1, SMT
    <3>2. QED BY <1>5, <3>1
  <2>2. CASE i # n
    <3>1. i \in 1 .. n - 1 /\ i + 1 \in 1 .. n
      BY <1>n, <2>2, SMT
    <3>2. s[i] \in Cell /\ s[i] # c /\ s[i] # last /\ q[i] = s[i] /\ q[i + 1] = s[i + 1]
      BY <1>4, <1>6, <1>7, <3>1
    <3>3. pairs[s[i]].cdr = s[i + 1]
      BY <1>4, <3>1 DEF IsChain
    <3>4. QED BY <1>5, <3>2, <3>3
  <2>3. QED BY <2>1, <2>2
<1>9. Holds(q)'
  <2>1. IsChain(q)'
    <3>1. q[1] = first'
      <4>1. CASE n = 0
        BY <1>3, <1>6, <4>1, SMT
      <4>2. CASE n # 0
        <5>1. 1 \in 1 .. n
          BY <1>n, <4>2, SMT
        <5>2. QED BY <1>3, <1>4, <1>6, <4>2, <5>1 DEF IsChain
      <4>3. QED BY <4>1, <4>2
    <3>2. count' - 1 = n /\ 1 .. count' = 1 .. n + 1
      BY <1>n, SMT
    <3>3. QED BY <1>6, <1>8, <3>1, <3>2 DEF IsChain
  <2>2. q[count'] = last' /\ pairs'[last'].cdr \in {Nil, False}
    BY <1>n, <1>3, <1>5, <1>6
  <2>3. ASSUME NEW i \in 1 .. count' PROVE pairs'[q[i]].car \in Item
    <3>1. i \in 1 .. n \/ i = n + 1
      BY <1>n, SMT
    <3>2. QED BY <1>4, <1>5, <1>6, <1>8, <3>1
  <2>4. ASSUME NEW d \in Cell PROVE d \in Range(q) \/ pairs'[d] = Unused
    <3>1. last \in Range(s) \/ last \notin Cell
      <4>1. n # 0 => n \in DOMAIN s
        BY <1>n, SMT
      <4>2. QED BY <1>f, <1>4, <4>1 DEF Range
    <3>2. QED BY <1>4, <1>5, <1>r, <3>1
  <2>5. QED BY <1>r, <2>1, <2>2, <2>3, <2>4 DEF Holds, Unused
<1>10. first' # False /\ last' # False
  BY <1>f, <1>2, <1>3
<1>11. /\ ChainInv' /\ Items' \in Seq(Item) /\ Len(Items') = count'
       /\ \A i \in 1 .. count' : Items'[i] = pairs'[q[i]].car
  BY <1>n, <1>9, <1>10, ChainOf
<1>12. /\ Items \in Seq(Item) /\ Len(Items) = n
       /\ \A i \in 1 .. n : Items[i] = pairs[s[i]].car
  BY <1>1, <1>n, ItemsType
<1>13. \A i \in 1 .. n : Items'[i] = Items[i]
  <2>1. \A i \in 1 .. n : i \in 1 .. count'
    BY <1>n, SMT
  <2>2. QED BY <1>8, <1>11, <1>12, <2>1
<1>14. Items'[n + 1] = x
  <2>1. n + 1 \in 1 .. count'
    BY <1>n, SMT
  <2>2. QED BY <1>5, <1>6, <1>11, <2>1
<1>15. Items' = Append(Items, x)
  BY <1>n, <1>11, <1>12, <1>13, <1>14, IsAppend
<1>16. QED BY <1>11, <1>15

\* %dequeue! takes the first item off.
LEMMA TakeFirstStep ==
  ASSUME TypeOK, ChainInv, count # 0, TakeFirst
  PROVE  /\ ChainInv' /\ count' \in Nat
         /\ Items \in Seq(Item) /\ Items # << >> /\ Items' = Tail(Items)
         /\ first \in Cell /\ pairs[first].car \in Item /\ Head(Items) = pairs[first].car
<1>1. PICK s \in [1 .. count -> Cell] : Holds(s)
  BY DEF ChainInv
<1>n. /\ count \in Nat /\ count' = count - 1 /\ count' \in Nat /\ 1 \in 1 .. count
      /\ count \in 1 .. count
  BY SMT DEF TypeOK, TakeFirst
<1> DEFINE n == count
<1>2. /\ IsInjective(s) /\ IsChain(s) /\ s[1] = first /\ s[n] = last /\ first \in Cell
      /\ pairs[last].cdr \in {Nil, False}
      /\ \A i \in 1 .. n : s[i] \in Cell /\ pairs[s[i]].car \in Item
      /\ \A d \in Cell : d \in Range(s) \/ pairs[d] = Unused
  BY <1>1, <1>n DEF Holds, IsChain
<1>3. first = last <=> n = 1
  BY <1>n, <1>2, SMT DEF IsInjective
<1>4. pairs'[first] = Unused /\ \A d \in Cell : d # first => pairs'[d] = pairs[d]
  BY <1>2 DEF TakeFirst, TypeOK
<1>5. PICK q \in [1 .. n - 1 -> Cell] : \A i \in 1 .. n - 1 : q[i] = s[i + 1]
  <2> DEFINE p == [i \in 1 .. n - 1 |-> s[i + 1]]
  <2>1. p \in [1 .. n - 1 -> Cell] /\ \A i \in 1 .. n - 1 : p[i] = s[i + 1]
    BY <1>n, SMT
  <2>2. QED BY <2>1
<1>6. /\ \A i \in 1 .. n - 1 : i + 1 \in 1 .. n /\ i + 1 # 1
      /\ \A i \in 1 .. n : i # 1 => i - 1 \in 1 .. n - 1 /\ (i - 1) + 1 = i
  BY <1>n, SMT
<1>r. Range(q) = Range(s) \ {first} /\ IsInjective(q)
  <2>1. DOMAIN q = 1 .. n - 1 /\ DOMAIN s = 1 .. n
    BY <1>5
  <2>2. \A i \in 1 .. n : i # 1 => s[i] # first
    BY <1>n, <1>2, <2>1 DEF IsInjective
  <2>3. Range(q) = {q[i] : i \in 1 .. n - 1} /\ Range(s) = {s[i] : i \in 1 .. n}
    BY <2>1 DEF Range
  <2>4. ASSUME NEW d \in Range(q) PROVE d \in Range(s) \ {first}
    <3>1. PICK i \in 1 .. n - 1 : d = q[i]
      BY <2>3
    <3>2. i + 1 \in 1 .. n /\ i + 1 # 1 /\ d = s[i + 1]
      BY <1>5, <1>6, <3>1
    <3>3. QED BY <2>2, <2>3, <3>2
  <2>5. ASSUME NEW d \in Range(s), d # first PROVE d \in Range(q)
    <3>1. PICK i \in 1 .. n : d = s[i]
      BY <2>3
    <3>2. i # 1
      BY <1>2, <2>5, <3>1
    <3>3. i - 1 \in 1 .. n - 1 /\ q[i - 1] = d
      BY <1>5, <1>6, <3>1, <3>2
    <3>4. QED BY <2>3, <3>3
  <2>6. IsInjective(q)
    BY <1>n, <1>2, <1>5, <2>1, SMT DEF IsInjective
  <2>7. QED BY <2>4, <2>5, <2>6
<1>7. \A i \in 1 .. n - 1 : q[i] \in Cell /\ pairs'[q[i]] = pairs[s[i + 1]] /\ q[i] = s[i + 1]
  <2>1. \A i \in 1 .. n - 1 : q[i] \in Range(q)
    BY <1>5 DEF Range
  <2>2. QED BY <1>4, <1>5, <1>r, <2>1
<1>8. n # 1 => first' = s[2] /\ last' = last /\ first' \in Cell /\ last' \in Cell
  <2>1. SUFFICES ASSUME n # 1 PROVE first' = s[2] /\ last' = last /\ first' \in Cell
                                    /\ last' \in Cell
    OBVIOUS
  <2>2. 1 \in 1 .. n - 1 /\ 1 + 1 = 2 /\ 2 \in 1 .. n
    BY <1>n, <2>1, SMT
  <2>3. pairs[first].cdr = s[2]
    BY <1>2, <2>2 DEF IsChain
  <2>4. QED BY <1>n, <1>2, <1>3, <2>1, <2>2, <2>3 DEF TakeFirst
<1>9. /\ n = 1 => first' = False /\ last' = False
      /\ count' = 0 <=> n = 1
  BY <1>n, <1>3, SMT DEF TakeFirst
<1>10. Holds(q)'
  <2>1. IsChain(q)'
    <3>1. count' # 0 => q[1] = first'
      <4>1. count' # 0 => 1 \in 1 .. n - 1 /\ 1 + 1 = 2
        BY <1>n, SMT
      <4>2. QED BY <1>5, <1>8, <1>9, <4>1
    <3>2. ASSUME NEW i \in 1 .. count' - 1 PROVE pairs'[q[i]].cdr = q[i + 1]
      <4>1. i \in 1 .. n - 1 /\ i + 1 \in 1 .. n - 1
        BY <1>n, SMT
      <4>2. pairs[s[i + 1]].cdr = s[(i + 1) + 1]
        BY <1>2, <4>1 DEF IsChain
      <4>3. QED BY <1>7, <4>1, <4>2
    <3>3. QED BY <1>n, <1>5, <3>1, <3>2 DEF IsChain
  <2>2. count' # 0 => q[count'] = last' /\ pairs'[last'].cdr \in {Nil, False}
    <3>1. count' # 0 => count' \in 1 .. n - 1 /\ count' + 1 = n
      BY <1>n, SMT
    <3>2. SUFFICES ASSUME count' # 0
                   PROVE  q[count'] = last' /\ pairs'[last'].cdr \in {Nil, False}
      OBVIOUS
    <3>3. last' = last /\ q[count'] = s[n] /\ pairs'[q[count']] = pairs[s[n]]
      BY <1>7, <1>8, <1>9, <3>1, <3>2
    <3>4. QED BY <1>2, <3>3
  <2>3. \A i \in 1 .. count' : pairs'[q[i]].car \in Item
    BY <1>n, <1>2, <1>6, <1>7
  <2>4. \A d \in Cell : d \in Range(q) \/ pairs'[d] = Unused
    BY <1>2, <1>4, <1>r
  <2>5. QED BY <1>r, <2>1, <2>2, <2>3, <2>4 DEF Holds, Unused
<1>11. /\ (count' = 0) <=> (first' = False)
       /\ (count' = 0) <=> (last' = False)
  BY <1>8, <1>9, QueueAssumption
<1>12. /\ ChainInv' /\ Items' \in Seq(Item) /\ Len(Items') = count'
       /\ \A i \in 1 .. count' : Items'[i] = pairs'[q[i]].car
  BY <1>n, <1>10, <1>11, ChainOf
<1>13. /\ Items \in Seq(Item) /\ Len(Items) = n
       /\ \A i \in 1 .. n : Items[i] = pairs[s[i]].car
  BY <1>1, <1>n, ItemsType
<1>14. Items # << >> /\ Head(Items) = pairs[first].car
  <2>1. Items # << >> /\ Head(Items) = Items[1]
    BY <1>13, SMT
  <2>2. QED BY <1>n, <1>2, <1>13, <2>1
<1>15. \A i \in 1 .. Len(Items') : Items'[i] = Items[i + 1]
  <2>1. SUFFICES ASSUME NEW i \in 1 .. count' PROVE Items'[i] = Items[i + 1]
    BY <1>12
  <2>2. i \in 1 .. n - 1 /\ i + 1 \in 1 .. n
    BY <1>n, <1>6
  <2>3. Items'[i] = pairs'[q[i]].car /\ Items[i + 1] = pairs[s[i + 1]].car
    BY <1>12, <1>13, <2>2
  <2>4. QED BY <1>7, <2>2, <2>3
<1>16. Items' = Tail(Items)
  BY <1>n, <1>12, <1>13, <1>14, <1>15, IsTail
<1>17. QED BY <1>n, <1>2, <1>12, <1>13, <1>14, <1>16

\* %push! puts an item in front.
LEMMA AddFirstStep ==
  ASSUME TypeOK, ChainInv, NEW x \in Item, AddFirst(x)
  PROVE  ChainInv' /\ Items' = <<x>> \o Items
<1>1. PICK s \in [1 .. count -> Cell] : Holds(s)
  BY DEF ChainInv
<1>n. count \in Nat /\ count' = count + 1 /\ count' \in Nat /\ count' # 0
  BY SMT DEF TypeOK, AddFirst
<1>f. False \notin Cell /\ (count = 0 <=> first = False) /\ (count = 0 <=> last = False)
  BY QueueAssumption DEF ChainInv
<1> DEFINE n == count
           c == New
<1>2. c \in Cell /\ c # last /\ c # first /\ c \notin Range(s)
  BY <1>1, <1>n, NewPair DEF Holds, AddFirst
<1>3. /\ first' = c /\ (n = 0 => last' = c) /\ (n # 0 => last' = last)
      /\ pairs' = [pairs EXCEPT ![c] = [car |-> x, cdr |-> first]]
  BY <1>f DEF AddFirst
<1> HIDE DEF c
<1>4. /\ IsInjective(s) /\ IsChain(s)
      /\ n # 0 => s[n] = last /\ s[1] = first /\ pairs[last].cdr \in {Nil, False}
      /\ \A i \in 1 .. n : s[i] \in Cell /\ s[i] # c /\ pairs[s[i]].car \in Item
      /\ \A d \in Cell : d \in Range(s) \/ pairs[d] = Unused
  <2>1. Range(s) = {s[i] : i \in 1 .. n}
    BY DEF Range
  <2>2. QED BY <1>1, <1>2, <2>1 DEF Holds, IsChain
<1>5. /\ pairs'[c].car = x /\ pairs'[c].cdr = first
      /\ \A d \in Cell : d # c => pairs'[d] = pairs[d]
  <2>1. pairs'[c] = [car |-> x, cdr |-> first]
    BY <1>2, <1>3 DEF TypeOK
  <2>2. QED BY <1>3, <2>1, SMT DEF TypeOK
<1>6. PICK q \in [1 .. n + 1 -> Cell] : q[1] = c /\ \A i \in 1 .. n : q[i + 1] = s[i]
  <2> DEFINE p == [i \in 1 .. n + 1 |-> IF i = 1 THEN c ELSE s[i - 1]]
  <2>1. p \in [1 .. n + 1 -> Cell] /\ p[1] = c /\ \A i \in 1 .. n : p[i + 1] = s[i]
    BY <1>n, <1>2, SMT
  <2>2. QED BY <2>1
<1>7. /\ \A i \in 1 .. n : i + 1 \in 1 .. n + 1 /\ i + 1 # 1
      /\ \A i \in 1 .. n + 1 : i = 1 \/ (i - 1 \in 1 .. n /\ (i - 1) + 1 = i)
      /\ 1 \in 1 .. n + 1 /\ 1 + 1 = 2
      /\ n # 0 => 1 \in 1 .. n /\ n \in 1 .. n
  BY <1>n, SMT
<1>r. Range(q) = Range(s) \cup {c} /\ IsInjective(q)
  <2>1. DOMAIN q = 1 .. n + 1 /\ DOMAIN s = 1 .. n
    BY <1>6
  <2>2. Range(q) = {q[i] : i \in 1 .. n + 1} /\ Range(s) = {s[i] : i \in 1 .. n}
    BY <2>1 DEF Range
  <2>3. ASSUME NEW d \in Range(q) PROVE d \in Range(s) \cup {c}
    <3>1. PICK i \in 1 .. n + 1 : d = q[i]
      BY <2>2
    <3>2. CASE i = 1
      BY <1>6, <3>1, <3>2
    <3>3. CASE i # 1
      <4>1. i - 1 \in 1 .. n /\ d = s[i - 1]
        BY <1>6, <1>7, <3>1, <3>3
      <4>2. QED BY <2>2, <4>1
    <3>4. QED BY <3>2, <3>3
  <2>4. ASSUME NEW d \in Range(s) PROVE d \in Range(q)
    <3>1. PICK i \in 1 .. n : d = s[i]
      BY <2>2
    <3>2. i + 1 \in 1 .. n + 1 /\ q[i + 1] = d
      BY <1>6, <1>7, <3>1
    <3>3. QED BY <2>2, <3>2
  <2>5. c \in Range(q)
    BY <1>6, <1>7, <2>2
  <2>6. IsInjective(q)
    <3>1. SUFFICES ASSUME NEW i \in 1 .. n + 1, NEW j \in 1 .. n + 1, q[i] = q[j]
                   PROVE  i = j
      BY <2>1 DEF IsInjective
    <3>2. \A k \in 1 .. n : q[k + 1] # c
      BY <1>4, <1>6
    <3>3. CASE i = 1 \/ j = 1
      <4>1. \A k \in 1 .. n + 1 : k # 1 => q[k] # c
        BY <1>7, <3>2
      <4>2. QED BY <1>6, <3>1, <3>3, <4>1
    <3>4. CASE i # 1 /\ j # 1
      <4>1. /\ i - 1 \in 1 .. n /\ (i - 1) + 1 = i
            /\ j - 1 \in 1 .. n /\ (j - 1) + 1 = j
        BY <1>7, <3>4
      <4>2. s[i - 1] = s[j - 1]
        BY <1>6, <3>1, <4>1
      <4>3. i - 1 = j - 1
        BY <1>4, <2>1, <4>1, <4>2 DEF IsInjective
      <4>4. QED BY <4>1, <4>3
    <3>5. QED BY <3>3, <3>4
  <2>7. QED BY <2>3, <2>4, <2>5, <2>6
<1>8. \A i \in 1 .. n : pairs'[q[i + 1]] = pairs[s[i]] /\ q[i + 1] = s[i]
  BY <1>4, <1>5, <1>6
<1>9. Holds(q)'
  <2>1. IsChain(q)'
    <3>1. ASSUME NEW i \in 1 .. count' - 1 PROVE pairs'[q[i]].cdr = q[i + 1]
      <4>1. i \in 1 .. n
        BY <1>n, SMT
      <4>2. CASE i = 1
        <5>1. n # 0
          BY <4>1, SMT
        <5>2. q[i + 1] = first
          BY <1>4, <1>6, <4>1, <4>2, <5>1
        <5>3. QED BY <1>5, <1>6, <4>2, <5>2
      <4>3. CASE i # 1
        <5>1. i - 1 \in 1 .. n - 1 /\ i - 1 \in 1 .. n /\ (i - 1) + 1 = i
          BY <1>n, <4>1, <4>3, SMT
        <5>2. pairs[s[i - 1]].cdr = s[i]
          BY <1>4, <5>1 DEF IsChain
        <5>3. QED BY <1>8, <4>1, <5>1, <5>2
      <4>4. QED BY <4>2, <4>3
    <3>2. QED BY <1>n, <1>3, <1>6, <3>1 DEF IsChain
  <2>2. q[count'] = last' /\ pairs'[last'].cdr \in {Nil, False}
    <3>1. CASE n = 0
      <4>1. count' = 1 /\ first = False
        BY <1>n, <1>f, <3>1, SMT
      <4>2. QED BY <1>3, <1>5, <1>6, <3>1, <4>1
    <3>2. CASE n # 0
      <4>1. q[n + 1] = s[n] /\ pairs'[q[n + 1]] = pairs[s[n]]
        BY <1>7, <1>8, <3>2
      <4>2. QED BY <1>n, <1>3, <1>4, <3>2, <4>1
    <3>3. QED BY <3>1, <3>2
  <2>3. ASSUME NEW i \in 1 .. count' PROVE pairs'[q[i]].car \in Item
    <3>1. CASE i = 1
      BY <1>5, <1>6, <3>1
    <3>2. CASE i # 1
      <4>1. i - 1 \in 1 .. n /\ (i - 1) + 1 = i
        BY <1>n, <1>7, <3>2
      <4>2. pairs'[q[i]] = pairs[s[i - 1]]
        BY <1>8, <4>1
      <4>3. QED BY <1>4, <4>1, <4>2
    <3>3. QED BY <3>1, <3>2
  <2>4. \A d \in Cell : d \in Range(q) \/ pairs'[d] = Unused
    BY <1>4, <1>5, <1>r
  <2>5. QED BY <1>r, <2>1, <2>2, <2>3, <2>4 DEF Holds, Unused
<1>10. first' # False /\ last' # False
  BY <1>f, <1>2, <1>3
<1>11. /\ ChainInv' /\ Items' \in Seq(Item) /\ Len(Items') = count'
       /\ \A i \in 1 .. count' : Items'[i] = pairs'[q[i]].car
  BY <1>n, <1>9, <1>10, ChainOf
<1>12. /\ Items \in Seq(Item) /\ Len(Items) = n
       /\ \A i \in 1 .. n : Items[i] = pairs[s[i]].car
  BY <1>1, <1>n, ItemsType
<1>13. \A i \in 1 .. n : Items'[i + 1] = Items[i]
  <2>1. \A i \in 1 .. n : i + 1 \in 1 .. count'
    BY <1>n, SMT
  <2>2. \A i \in 1 .. n : Items'[i + 1] = pairs'[q[i + 1]].car
    BY <1>11, <2>1
  <2>3. ASSUME NEW i \in 1 .. n PROVE Items'[i + 1] = Items[i]
    <3>1. pairs'[q[i + 1]] = pairs[s[i]]
      BY <1>8
    <3>2. QED BY <1>12, <2>2, <3>1
  <2>4. QED BY <2>3
<1>14. Items'[1] = x
  BY <1>n, <1>5, <1>6, <1>7, <1>11
<1>15. Items' = <<x>> \o Items
  <2>1. Len(Items') = Len(Items) + 1 /\ \A i \in 1 .. Len(Items) : Items'[i + 1] = Items[i]
    BY <1>n, <1>11, <1>12, <1>13
  <2>2. QED BY <1>11, <1>12, <1>14, <2>1, IsPush
<1>16. QED BY <1>11, <1>15

\* The loop before-last of thread-queue/push! finds the pair before the last one,
\* and finds one only when there are two pairs.
LEMMA BeforeLastOf ==
  ASSUME TypeOK, ChainInv, NEW s \in [1 .. count -> Cell], Holds(s)
  PROVE  /\ \A c \in BeforeLast : count - 1 \in 1 .. count - 1 /\ c = s[count - 1]
         /\ count - 1 \in 1 .. count - 1 => s[count - 1] \in BeforeLast
<1>1. count \in Nat /\ IsChain(s) /\ IsInjective(s)
  BY DEF TypeOK, Holds
<1>2. ASSUME NEW c \in BeforeLast PROVE count - 1 \in 1 .. count - 1 /\ c = s[count - 1]
  <2>1. c \in Cell /\ pairs[c].cdr = last
    BY DEF BeforeLast
  <2>2. pairs[c] # Unused /\ count # 0
    <3>1. Unused.cdr = Nil
      BY DEF Unused
    <3>2. last \in Cell \/ last = False
      BY DEF TypeOK
    <3>3. pairs[c] # Unused
      BY <2>1, <3>1, <3>2, QueueAssumption
    <3>4. ASSUME count = 0 PROVE FALSE
      <4>1. Range(s) = {}
        BY <3>4, SMT DEF Range
      <4>2. QED BY <2>1, <3>3, <4>1 DEF Holds
    <3>5. QED BY <3>3, <3>4
  <2>3. c \in Range(s)
    BY <2>1, <2>2 DEF Holds
  <2>4. PICK i \in 1 .. count : c = s[i]
    BY <2>3 DEF Range
  <2>5. s[count] = last /\ last \in Cell /\ pairs[last].cdr \in {Nil, False}
    <3>1. count \in 1 .. count
      BY <1>1, <2>2, SMT
    <3>2. QED BY <2>2, <3>1 DEF Holds
  <2>6. i # count
    BY <2>1, <2>4, <2>5, QueueAssumption
  <2>7. i \in 1 .. count - 1 /\ i + 1 \in 1 .. count /\ count \in 1 .. count
    BY <1>1, <2>2, <2>6, SMT
  <2>8. s[i + 1] = s[count]
    BY <1>1, <2>1, <2>4, <2>5, <2>7 DEF IsChain
  <2>9. i + 1 = count
    BY <1>1, <2>7, <2>8 DEF IsInjective
  <2>10. i = count - 1
    BY <1>1, <2>9, SMT
  <2>11. QED BY <2>4, <2>7, <2>10
<1>3. ASSUME count - 1 \in 1 .. count - 1 PROVE s[count - 1] \in BeforeLast
  <2>1. count # 0 /\ (count - 1) + 1 = count /\ count - 1 \in 1 .. count
    BY <1>1, <1>3, SMT
  <2>2. pairs[s[count - 1]].cdr = last
    BY <1>1, <1>3, <2>1 DEF IsChain, Holds
  <2>3. QED BY <2>1, <2>2 DEF BeforeLast
<1>4. QED BY <1>2, <1>3

\* thread-queue/push! to a full queue drops the last item and puts one in front.
LEMMA ClobberStep ==
  ASSUME TypeOK, ChainInv, NEW x \in Item, Clobber(x)
  PROVE  /\ ChainInv' /\ Items \in Seq(Item)
         /\ Items' = <<x>> \o SubSeq(Items, 1, Len(Items) - 1)
<1>1. PICK s \in [1 .. count -> Cell] : Holds(s)
  BY DEF ChainInv
<1> DEFINE n == count
<1>2. PICK l \in BeforeLast :
        /\ pairs' = [pairs EXCEPT ![l].cdr = Nil, ![last] = [car |-> x, cdr |-> first]]
        /\ last' = l
  BY DEF Clobber
<1>n. /\ n \in Nat /\ n - 1 \in 1 .. n - 1 /\ n - 1 \in 1 .. n /\ n \in 1 .. n /\ 1 \in 1 .. n
      /\ n - 1 # n /\ n # 0 /\ 1 \in 1 .. n - 1 /\ 1 + 1 = 2 /\ (n - 1) + 1 = n
  <2>1. n \in Nat /\ n - 1 \in 1 .. n - 1
    BY <1>1, BeforeLastOf DEF TypeOK
  <2>2. QED BY <2>1, SMT
<1>3. count' = n /\ first' = last /\ l = s[n - 1] /\ last' = s[n - 1]
  BY <1>1, <1>2, BeforeLastOf DEF Clobber
<1>4. /\ IsInjective(s) /\ IsChain(s) /\ s[n] = last /\ s[1] = first
      /\ \A i \in 1 .. n : s[i] \in Cell /\ pairs[s[i]].car \in Item
      /\ \A d \in Cell : d \in Range(s) \/ pairs[d] = Unused
  BY <1>1, <1>n DEF Holds, IsChain
<1>5. l \in Cell /\ last \in Cell /\ l # last /\ False \notin Cell
  BY <1>n, <1>3, <1>4, QueueAssumption DEF IsInjective
<1>6. /\ pairs'[last].car = x /\ pairs'[last].cdr = first
      /\ pairs'[l].cdr = Nil /\ pairs'[l].car = pairs[l].car
      /\ \A d \in Cell : d # l /\ d # last => pairs'[d] = pairs[d]
  <2>1. pairs'[last] = [car |-> x, cdr |-> first]
    BY <1>2, <1>5 DEF TypeOK
  <2>2. pairs'[l] = [pairs[l] EXCEPT !.cdr = Nil]
    BY <1>2, <1>5 DEF TypeOK
  <2>3. pairs[l] \in [car : Item \cup {False}, cdr : Pointer]
    BY <1>5 DEF TypeOK
  <2>4. ASSUME NEW d \in Cell, d # l, d # last PROVE pairs'[d] = pairs[d]
    BY <1>2, <2>4 DEF TypeOK
  <2>5. pairs'[l].cdr = Nil /\ pairs'[l].car = pairs[l].car
    BY <2>2, <2>3
  <2>6. pairs'[last].car = x /\ pairs'[last].cdr = first
    BY <2>1, SMT
  <2>7. QED BY <2>4, <2>5, <2>6
<1>7. PICK q \in [1 .. n -> Cell] : q[1] = last /\ \A i \in 1 .. n - 1 : q[i + 1] = s[i]
  <2> DEFINE p == [i \in 1 .. n |-> IF i = 1 THEN last ELSE s[i - 1]]
  <2>1. p \in [1 .. n -> Cell] /\ p[1] = last /\ \A i \in 1 .. n - 1 : p[i + 1] = s[i]
    BY <1>n, <1>5, SMT
  <2>2. QED BY <2>1
<1>8. /\ \A i \in 1 .. n - 1 : i \in 1 .. n /\ i # n /\ i + 1 \in 1 .. n /\ i + 1 # 1
      /\ \A i \in 1 .. n : i = 1 \/ (i - 1 \in 1 .. n - 1 /\ (i - 1) + 1 = i)
      /\ \A i \in 1 .. n : i = n \/ i \in 1 .. n - 1
  BY <1>n, SMT
<1>9. \A i \in 1 .. n - 1 : s[i] \in Cell /\ s[i] # last
  BY <1>n, <1>4, <1>8 DEF IsInjective
<1>r. Range(q) = Range(s) /\ IsInjective(q)
  <2>1. DOMAIN q = 1 .. n /\ DOMAIN s = 1 .. n
    BY <1>7
  <2>2. Range(q) = {q[i] : i \in 1 .. n} /\ Range(s) = {s[i] : i \in 1 .. n}
    BY <2>1 DEF Range
  <2>3. ASSUME NEW i \in 1 .. n PROVE q[i] \in Range(s)
    <3>1. CASE i = 1
      BY <1>n, <1>4, <1>7, <2>2, <3>1
    <3>2. CASE i # 1
      <4>1. i - 1 \in 1 .. n - 1 /\ (i - 1) + 1 = i
        BY <1>8, <3>2
      <4>2. q[i] = s[i - 1] /\ i - 1 \in 1 .. n
        BY <1>7, <1>8, <4>1
      <4>3. QED BY <2>2, <4>2
    <3>3. QED BY <3>1, <3>2
  <2>4. ASSUME NEW i \in 1 .. n PROVE s[i] \in Range(q)
    <3>1. CASE i = n
      BY <1>n, <1>4, <1>7, <2>2, <3>1
    <3>2. CASE i # n
      <4>1. i + 1 \in 1 .. n /\ q[i + 1] = s[i]
        BY <1>7, <1>8, <3>2
      <4>2. QED BY <2>2, <4>1
    <3>3. QED BY <3>1, <3>2
  <2>5. IsInjective(q)
    <3>1. SUFFICES ASSUME NEW i \in 1 .. n, NEW j \in 1 .. n, q[i] = q[j] PROVE i = j
      BY <2>1 DEF IsInjective
    <3>2. \A k \in 1 .. n - 1 : q[k + 1] # last
      BY <1>7, <1>9
    <3>3. CASE i = 1 \/ j = 1
      <4>1. \A k \in 1 .. n : k # 1 => q[k] # last
        BY <1>8, <3>2
      <4>2. QED BY <1>7, <3>1, <3>3, <4>1
    <3>4. CASE i # 1 /\ j # 1
      <4>1. /\ i - 1 \in 1 .. n - 1 /\ (i - 1) + 1 = i /\ i - 1 \in 1 .. n
            /\ j - 1 \in 1 .. n - 1 /\ (j - 1) + 1 = j /\ j - 1 \in 1 .. n
        BY <1>8, <3>4
      <4>2. s[i - 1] = s[j - 1]
        BY <1>7, <3>1, <4>1
      <4>3. i - 1 = j - 1
        BY <1>4, <2>1, <4>1, <4>2 DEF IsInjective
      <4>4. QED BY <4>1, <4>3
    <3>5. QED BY <3>3, <3>4
  <2>6. \A d \in Range(q) : d \in Range(s)
    BY <2>2, <2>3
  <2>7. \A d \in Range(s) : d \in Range(q)
    BY <2>2, <2>4
  <2>8. QED BY <2>5, <2>6, <2>7
<1>10. \A i \in 1 .. n - 1 : pairs'[q[i + 1]].car = pairs[s[i]].car /\ q[i + 1] = s[i]
  BY <1>6, <1>7, <1>9
<1>11. Holds(q)'
  <2>1. IsChain(q)'
    <3>1. ASSUME NEW i \in 1 .. n - 1 PROVE pairs'[q[i]].cdr = q[i + 1]
      <4>1. CASE i = 1
        BY <1>4, <1>6, <1>7, <4>1
      <4>2. CASE i # 1
        <5>1. i - 1 \in 1 .. n - 1 /\ (i - 1) + 1 = i /\ i - 1 # n - 1 /\ i - 1 \in 1 .. n
          BY <1>n, <4>2, SMT
        <5>2. pairs[s[i - 1]].cdr = s[i]
          BY <1>4, <5>1 DEF IsChain
        <5>3. s[i - 1] # l /\ s[i - 1] # last /\ s[i - 1] \in Cell
          BY <1>n, <1>3, <1>4, <1>9, <5>1 DEF IsInjective
        <5>4. QED BY <1>6, <1>7, <5>1, <5>2, <5>3
      <4>3. QED BY <4>1, <4>2
    <3>2. QED BY <1>3, <1>7, <3>1 DEF IsChain
  <2>2. q[n] = last' /\ pairs'[last'].cdr \in {Nil, False}
    BY <1>n, <1>2, <1>3, <1>6, <1>7
  <2>3. ASSUME NEW i \in 1 .. n PROVE pairs'[q[i]].car \in Item
    <3>1. CASE i = 1
      BY <1>6, <1>7, <3>1
    <3>2. CASE i # 1
      <4>1. i - 1 \in 1 .. n - 1 /\ (i - 1) + 1 = i /\ i - 1 \in 1 .. n
        BY <1>8, <3>2
      <4>2. pairs'[q[i]].car = pairs[s[i - 1]].car
        BY <1>10, <4>1
      <4>3. QED BY <1>4, <4>1, <4>2
    <3>3. QED BY <3>1, <3>2
  <2>4. \A d \in Cell : d \in Range(q) \/ pairs'[d] = Unused
    <3>1. l \in Range(q) /\ last \in Range(q)
      BY <1>n, <1>3, <1>4, <1>r DEF Range
    <3>2. QED BY <1>4, <1>6, <1>r, <3>1
  <2>5. QED BY <1>3, <1>r, <2>1, <2>2, <2>3, <2>4 DEF Holds, Unused
<1>12. first' # False /\ last' # False
  BY <1>2, <1>3, <1>5
<1>13. /\ ChainInv' /\ Items' \in Seq(Item) /\ Len(Items') = n
       /\ \A i \in 1 .. n : Items'[i] = pairs'[q[i]].car
  BY <1>n, <1>3, <1>11, <1>12, ChainOf
<1>14. /\ Items \in Seq(Item) /\ Len(Items) = n
       /\ \A i \in 1 .. n : Items[i] = pairs[s[i]].car
  BY <1>1, <1>n, ItemsType
<1> DEFINE r == SubSeq(Items, 1, n - 1)
<1>15. r \in Seq(Item) /\ Len(r) = n - 1 /\ \A i \in 1 .. n - 1 : r[i] = Items[i]
  BY <1>n, <1>14, SMT
<1> HIDE DEF r
<1>16. \A i \in 1 .. n - 1 : Items'[i + 1] = r[i]
  <2>1. \A i \in 1 .. n - 1 : Items'[i + 1] = pairs'[q[i + 1]].car /\ r[i] = pairs[s[i]].car
    BY <1>8, <1>13, <1>14, <1>15
  <2>2. QED BY <1>10, <2>1
<1>17. Items'[1] = x
  BY <1>n, <1>6, <1>7, <1>13
<1>18. Items' = <<x>> \o r
  <2>1. Len(Items') = Len(r) + 1 /\ \A i \in 1 .. Len(r) : Items'[i + 1] = r[i]
    BY <1>n, <1>13, <1>15, <1>16
  <2>2. QED BY <1>13, <1>15, <1>17, <2>1, IsPush
<1>19. QED BY <1>13, <1>14, <1>18 DEF r

-----------------------------------------------------------------------------
(* The fields keep their types and the chain                               *)

ChainTypes ==
  /\ first \in Cell \cup {False} /\ last \in Cell \cup {False}
  /\ pairs \in [Cell -> [car : Item \cup {False}, cdr : Pointer]]
  /\ count \in Nat

RestTypes ==
  /\ queuers \in Seq(Thread) /\ dequeuers \in Seq(Thread)
  /\ owner \in Thread \cup {NoThread} /\ lockq \in Seq(Thread)
  /\ pc \in [Thread -> {"idle", "lock", "in", "parked", "dead"}]
  /\ call \in [Thread -> [kind : Adding \cup Taking \cup {"empty", "none"},
                          item : Item \cup {False}]]
  /\ token \subseteq Thread /\ late \subseteq Thread
  /\ alarm \in [Thread -> SUBSET {"now", "old"}]
  /\ result \in [Thread -> Item \cup {False, Broken}]

\* A call that adds has an item.
CallInv == \A t \in Thread : call[t].kind \in Adding => call[t].item \in Item

ListInv == ChainTypes /\ RestTypes /\ ChainInv /\ CallInv

\* A list of threads gives threads to signal, and stays one.
LEMMA ListTypes ==
  ASSUME NEW list \in Seq(Thread), NEW t \in Thread
  PROVE  /\ Signalled(list) \subseteq Thread /\ Cleared(list) \in Seq(Thread)
         /\ Enlist(list, t) \in Seq(Thread)
<1>1. Signalled(list) \subseteq Thread
  BY SMT DEF Signalled
<1>2. Cleared(list) \in Seq(Thread)
  BY SMT DEF Cleared
<1>3. Enlist(list, t) \in Seq(Thread)
  BY SMT DEF Enlist
<1>4. QED BY <1>1, <1>2, <1>3

\* unlock-thread-mutex keeps the types.
LEMMA UnlockTypes ==
  ASSUME RestTypes, NEW S \in SUBSET Thread, Unlock(S)
  PROVE  owner' \in Thread \cup {NoThread} /\ lockq' \in Seq(Thread) /\ token' \subseteq Thread
<1>1. lockq \in Seq(Thread) /\ token \subseteq Thread
  BY DEF RestTypes
<1>2. CASE lockq = << >>
  BY <1>1, <1>2 DEF Unlock
<1>3. CASE lockq # << >>
  <2>1. Head(lockq) \in Thread /\ Tail(lockq) \in Seq(Thread)
    BY <1>1, <1>3, SMT
  <2>2. QED BY <1>1, <1>3, <2>1 DEF Unlock
<1>4. QED BY <1>2, <1>3

\* lock-thread-mutex keeps the types.
LEMMA LockTypes ==
  ASSUME RestTypes, NEW t \in Thread, Lock(t)
  PROVE  /\ owner' \in Thread \cup {NoThread} /\ lockq' \in Seq(Thread)
         /\ pc' \in [Thread -> {"idle", "lock", "in", "parked", "dead"}]
<1>1. Append(lockq, t) \in Seq(Thread)
  BY SMT DEF RestTypes
<1>2. QED BY <1>1 DEF Lock, RestTypes

\* The end of an operation.
LEMMA FinishTypes ==
  ASSUME RestTypes, CallInv, NEW t \in Thread, NEW v \in Item \cup {False, Broken},
         NEW list \in Seq(Thread), Finish(t, v, list),
         queuers' \in Seq(Thread), dequeuers' \in Seq(Thread)
  PROVE  RestTypes' /\ CallInv'
<1>1. owner' \in Thread \cup {NoThread} /\ lockq' \in Seq(Thread) /\ token' \subseteq Thread
  BY ListTypes, UnlockTypes DEF Finish
<1>2. /\ pc' \in [Thread -> {"idle", "lock", "in", "parked", "dead"}]
      /\ late' \subseteq Thread
  BY DEF Finish, RestTypes
<1>3. result' \in [Thread -> Item \cup {False, Broken}]
  BY SMT DEF Finish, RestTypes
<1>4. alarm' \in [Thread -> SUBSET {"now", "old"}]
  <2>1. ASSUME NEW a \in SUBSET {"now", "old"}
        PROVE  (IF a = {} THEN {} ELSE {"old"}) \in SUBSET {"now", "old"}
    OBVIOUS
  <2>2. alarm' = [alarm EXCEPT ![t] = IF alarm[t] = {} THEN {} ELSE {"old"}]
    BY DEF Finish
  <2>3. alarm[t] \in SUBSET {"now", "old"}
    BY DEF RestTypes
  <2>4. QED BY <2>1, <2>2, <2>3 DEF RestTypes
<1>5. call' = [call EXCEPT ![t] = NoCall]
  BY DEF Finish
<1>6. call' \in [Thread -> [kind : Adding \cup Taking \cup {"empty", "none"},
                            item : Item \cup {False}]]
  BY <1>5 DEF RestTypes, NoCall
<1>7. CallInv'
  <2>1. NoCall.kind \notin Adding
    BY DEF NoCall, Adding
  <2>2. QED BY <1>5, <2>1 DEF CallInv, RestTypes
<1>8. QED BY <1>1, <1>2, <1>3, <1>4, <1>6, <1>7 DEF RestTypes

\* A thread begins to wait.
LEMMA WaitTypes ==
  ASSUME RestTypes, CallInv, NEW t \in Thread, QueueWait(t) \/ DequeueWait(t) \/ WaitUntil(t)
  PROVE  RestTypes' /\ CallInv' /\ UNCHANGED <<chain, result>>
<1>1. Park(t) /\ UNCHANGED <<chain, result>> /\ call' = call /\ late' = late
  BY DEF QueueWait, DequeueWait, WaitUntil, Park
<1>2. owner' \in Thread \cup {NoThread} /\ lockq' \in Seq(Thread) /\ token' \subseteq Thread
  BY <1>1, UnlockTypes DEF Park
<1>3. queuers \in Seq(Thread) /\ dequeuers \in Seq(Thread)
  BY DEF RestTypes
<1>4. queuers' \in Seq(Thread) /\ dequeuers' \in Seq(Thread)
  BY <1>3, ListTypes DEF QueueWait, DequeueWait, WaitUntil
<1>5. alarm' \in [Thread -> SUBSET {"now", "old"}]
  <2>1. \/ alarm' = alarm
        \/ alarm' = [alarm EXCEPT ![t] = alarm[t] \cup {"now"}]
    BY DEF QueueWait, DequeueWait, WaitUntil
  <2>2. alarm[t] \cup {"now"} \in SUBSET {"now", "old"}
    BY DEF RestTypes
  <2>3. QED BY <2>1, <2>2 DEF RestTypes
<1>6. pc' \in [Thread -> {"idle", "lock", "in", "parked", "dead"}]
  BY <1>1 DEF Park, RestTypes
<1>7. QED BY <1>1, <1>2, <1>4, <1>5, <1>6 DEF RestTypes, CallInv

\* A thread calls an operation.
LEMMA CallTypes ==
  ASSUME RestTypes, CallInv, NEW t \in Thread, Calls(t)
  PROVE  /\ RestTypes' /\ CallInv' /\ UNCHANGED chain
         /\ result' = [result EXCEPT ![t] = False]
<1>1. PICK k \in Adding \cup Taking \cup {"empty"}, x \in Item \cup {False} :
        Call(t, k, x) /\ (k \in Adding => x \in Item)
  BY DEF Calls, Adding, Taking, Timed
<1>2. /\ owner' \in Thread \cup {NoThread} /\ lockq' \in Seq(Thread)
      /\ pc' \in [Thread -> {"idle", "lock", "in", "parked", "dead"}]
  BY <1>1, LockTypes DEF Call
<1>3. /\ UNCHANGED <<chain, lists, token, clock>>
      /\ result' = [result EXCEPT ![t] = False]
      /\ call' = [call EXCEPT ![t] = [kind |-> k, item |-> x]]
  BY <1>1 DEF Call
<1>4. call' \in [Thread -> [kind : Adding \cup Taking \cup {"empty", "none"},
                            item : Item \cup {False}]]
  BY <1>3 DEF RestTypes
<1>5. CallInv'
  <2>1. call'[t].kind = k /\ call'[t].item = x
    BY <1>3 DEF RestTypes
  <2>2. \A u \in Thread \ {t} : call'[u] = call[u]
    BY <1>3 DEF RestTypes
  <2>3. QED BY <1>1, <2>1, <2>2 DEF CallInv
<1>6. result' \in [Thread -> Item \cup {False, Broken}]
  BY <1>3 DEF RestTypes
<1>7. QED BY <1>2, <1>3, <1>4, <1>5, <1>6 DEF RestTypes, lists, clock

\* The steps that only move tokens, the mutex and the timers.
LEMMA OtherTypes ==
  ASSUME RestTypes, CallInv, NEW t \in Thread,
         Locked(t) \/ Resume(t) \/ Environment(t) \/ Deadline(t) \/ Alarm(t)
  PROVE  RestTypes' /\ CallInv' /\ UNCHANGED <<chain, result>>
<1>1. UNCHANGED <<chain, lists, call, result>>
  BY DEF Locked, Resume, Environment, DropToken, Stray, Exit, Deadline, Alarm
<1>2. token' \subseteq Thread /\ late' \subseteq Thread
  BY DEF Locked, Resume, Environment, DropToken, Stray, Exit, Deadline, Alarm, clock, RestTypes
<1>3. alarm' \in [Thread -> SUBSET {"now", "old"}]
  <2>1. \/ alarm' = alarm
        \/ \E a \in SUBSET {"now", "old"} : alarm' = [alarm EXCEPT ![t] = a]
    <3>1. CASE Alarm(t)
      <4>1. \A a : alarm[t] \ {a} \in SUBSET {"now", "old"}
        BY DEF RestTypes
      <4>2. QED BY <3>1, <4>1 DEF Alarm
    <3>2. CASE Locked(t) \/ Resume(t) \/ Environment(t) \/ Deadline(t)
      BY <3>2 DEF Locked, Resume, Environment, DropToken, Stray, Exit, Deadline, clock
    <3>3. QED BY <3>1, <3>2
  <2>2. QED BY <2>1 DEF RestTypes
<1>4. /\ owner' \in Thread \cup {NoThread} /\ lockq' \in Seq(Thread)
      /\ pc' \in [Thread -> {"idle", "lock", "in", "parked", "dead"}]
  <2>1. CASE Resume(t)
    BY <2>1, LockTypes DEF Resume
  <2>2. CASE Locked(t) \/ Environment(t) \/ Deadline(t) \/ Alarm(t)
    BY <2>2 DEF Locked, Environment, DropToken, Stray, Exit, Deadline, Alarm, mutex, RestTypes
  <2>3. QED BY <2>1, <2>2
<1>5. QED BY <1>1, <1>2, <1>3, <1>4 DEF RestTypes, CallInv, lists

\* Both ends of the chain are pairs, or the queue is empty.
LEMMA EndsNext ==
  ASSUME count' \in Nat, ChainInv'
  PROVE  first' \in Cell \cup {False} /\ last' \in Cell \cup {False}
<1>1. PICK s \in [1 .. count' -> Cell] : Holds(s)'
  BY DEF ChainInv
<1>2. CASE count' = 0
  BY <1>2 DEF ChainInv
<1>3. CASE count' # 0
  <2>1. 1 \in 1 .. count' /\ count' \in 1 .. count'
    BY <1>3, SMT
  <2>2. QED BY <1>1, <1>3, <2>1 DEF Holds, IsChain
<1>4. QED BY <1>2, <1>3

\* What an operation does to the chain it does to pairs of pointers.
LEMMA ChainTypesStep ==
  ASSUME TypeOK, ChainInv, ChainInv', NEW x \in Item,
         AddLast(x) \/ AddFirst(x) \/ Clobber(x) \/ (TakeFirst /\ count # 0)
  PROVE  ChainTypes'
<1> DEFINE T == [car : Item \cup {False}, cdr : Pointer]
<1>1. /\ pairs \in [Cell -> T] /\ first \in Pointer /\ last \in Pointer
      /\ count \in Nat /\ Nil \in Pointer /\ Cell \subseteq Pointer
  BY DEF TypeOK, Pointer
<1>2. count' \in Nat
  BY <1>1, SMT DEF AddLast, AddFirst, Clobber, TakeFirst
<1>3. \A p \in Pointer : [car |-> x, cdr |-> p] \in T
  OBVIOUS
<1>4. \A r \in T, p \in Pointer : [r EXCEPT !.cdr = p] \in T
  OBVIOUS
<1>5. Unused \in T
  BY <1>1 DEF Unused
<1>6. pairs' \in [Cell -> T]
  <2>1. CASE AddLast(x)
    <3>1. New \in Cell
      BY <2>1 DEF New, Free, AddLast
    <3>2. QED BY <1>1, <1>3, <1>4, <2>1, <3>1, SMT DEF AddLast
  <2>2. CASE AddFirst(x)
    BY <1>1, <1>3, <2>2 DEF AddFirst
  <2>3. CASE Clobber(x)
    <3>1. PICK l \in BeforeLast :
            pairs' = [pairs EXCEPT ![l].cdr = Nil, ![last] = [car |-> x, cdr |-> first]]
      BY <2>3 DEF Clobber
    <3>2. l \in Cell
      BY DEF BeforeLast
    <3>3. QED BY <1>1, <1>3, <1>4, <3>1, <3>2
  <2>4. CASE TakeFirst
    BY <1>1, <1>5, <2>4 DEF TakeFirst
  <2>5. QED BY <2>1, <2>2, <2>3, <2>4
<1>7. QED BY <1>2, <1>6, EndsNext DEF ChainTypes

\* A step that does not touch the chain.
LEMMA SameChain ==
  ASSUME ChainTypes, ChainInv, UNCHANGED chain
  PROVE  ChainTypes' /\ ChainInv' /\ Items' = Items
<1>1. PICK s \in [1 .. count -> Cell] : Holds(s)
  BY DEF ChainInv
<1>2. ChainTypes'
  BY DEF ChainTypes, chain
<1>3. Holds(s)'
  BY <1>1 DEF Holds, IsChain, chain, Unused
<1>4. ChainInv'
  BY <1>3 DEF ChainInv, chain
<1>5. Items = [i \in 1 .. count |-> pairs[s[i]].car]
  BY <1>1, ItemsOf DEF Holds, ChainTypes
<1>6. Items' = [i \in 1 .. count' |-> pairs'[s[i]].car]
  BY <1>2, <1>3, ItemsNext DEF Holds, ChainTypes
<1>7. QED BY <1>2, <1>4, <1>5, <1>6 DEF chain

\* thread-queue/empty! of a queue with items, and make-thread-queue.
LEMMA EmptyChain ==
  ASSUME first' = False, last' = False, count' = 0, pairs' = [c \in Cell |-> Unused]
  PROVE  ChainTypes' /\ ChainInv' /\ Items' = << >>
<1>1. ChainTypes'
  BY SMT DEF ChainTypes, Unused, Pointer
<1>2. PICK q : q \in [1 .. 0 -> Cell]
  <2>1. [i \in 1 .. 0 |-> Nil] \in [1 .. 0 -> Cell]
    BY SMT
  <2>2. QED BY <2>1
<1>3. Holds(q)'
  BY <1>2, SMT DEF Holds, IsChain, IsInjective, Unused
<1>4. ChainInv' /\ Items' \in Seq(Item) /\ Len(Items') = count'
  BY <1>1, <1>3, ChainOf DEF ChainTypes
<1>5. Items' = << >>
  BY <1>4, SMT
<1>6. QED BY <1>1, <1>4, <1>5

\* The item of a thread that is in an operation that adds one.
LEMMA ItemIn ==
  ASSUME CallInv, NEW t \in Thread, In(t, Adding)
  PROVE  call[t].item \in Item
BY DEF CallInv, In

\* An operation that ends keeps the types and the chain.
LEMMA OperationInv ==
  ASSUME ListInv, NEW t \in Thread,
         \/ QueueItem(t) \/ QueueRefused(t) \/ DequeueItem(t) \/ PeekItem(t)
         \/ TimeOut(t) \/ PushItem(t) \/ PushFull(t) \/ PushFails(t) \/ EmptyQueue(t)
  PROVE  ListInv'
<1> DEFINE V == Item \cup {False, Broken}
<1>t. /\ TypeOK /\ ChainTypes /\ RestTypes /\ ChainInv /\ CallInv
      /\ queuers \in Seq(Thread) /\ dequeuers \in Seq(Thread)
  BY DEF ListInv, TypeOK, ChainTypes, RestTypes
<1>c. << >> \in Seq(Thread) /\ Cleared(queuers) \in Seq(Thread)
      /\ Cleared(dequeuers) \in Seq(Thread)
  <2>1. << >> \in Seq(Thread)
    BY SMT
  <2>2. QED BY <1>t, <2>1, ListTypes
<1>i. In(t, {"queue", "queue-no-hang"}) \/ In(t, {"push"}) => call[t].item \in Item
  BY <1>t, ItemIn DEF In, Adding
<1>1. CASE QueueItem(t) \/ PushItem(t)
  <2> DEFINE x == call[t].item
  <2>1. /\ x \in Item /\ (AddLast(x) \/ AddFirst(x)) /\ Finish(t, x, dequeuers)
        /\ queuers' = queuers /\ dequeuers' = Cleared(dequeuers)
    BY <1>1, <1>i DEF QueueItem, PushItem
  <2>2. ChainInv'
    BY <1>t, <2>1, AddLastStep, AddFirstStep
  <2>3. ChainTypes'
    BY <1>t, <2>1, <2>2, ChainTypesStep
  <2>4. RestTypes' /\ CallInv'
    <3>1. x \in V
      BY <2>1
    <3>2. QED BY <1>t, <1>c, <2>1, <3>1, FinishTypes
  <2>5. QED BY <2>2, <2>3, <2>4 DEF ListInv
<1>2. CASE DequeueItem(t)
  <2>1. /\ count # 0 /\ TakeFirst /\ Finish(t, pairs[first].car, queuers)
        /\ dequeuers' = dequeuers /\ queuers' = Cleared(queuers)
    BY <1>2 DEF DequeueItem
  <2>2. ChainInv' /\ pairs[first].car \in Item
    BY <1>t, <2>1, TakeFirstStep
  <2>3. ChainTypes'
    BY <1>t, <2>1, <2>2, ChainTypesStep
  <2>4. RestTypes' /\ CallInv'
    <3>1. pairs[first].car \in V
      BY <2>2
    <3>2. QED BY <1>t, <1>c, <2>1, <3>1, FinishTypes
  <2>5. QED BY <2>2, <2>3, <2>4 DEF ListInv
<1>3. CASE PushFull(t)
  <2> DEFINE x == call[t].item
  <2>1. x \in Item /\ Clobber(x) /\ Finish(t, x, << >>) /\ UNCHANGED lists
    BY <1>3, <1>i DEF PushFull
  <2>2. ChainInv'
    BY <1>t, <2>1, ClobberStep
  <2>3. ChainTypes'
    BY <1>t, <2>1, <2>2, ChainTypesStep
  <2>4. RestTypes' /\ CallInv'
    <3>1. x \in V
      BY <2>1
    <3>2. QED BY <1>t, <1>c, <2>1, <3>1, FinishTypes DEF lists
  <2>5. QED BY <2>2, <2>3, <2>4 DEF ListInv
<1>4. CASE EmptyQueue(t) /\ count # 0
  <2>1. /\ first' = False /\ last' = False /\ count' = 0 /\ pairs' = [c \in Cell |-> Unused]
        /\ Finish(t, result[t], queuers)
        /\ dequeuers' = dequeuers /\ queuers' = Cleared(queuers)
    BY <1>4 DEF EmptyQueue
  <2>2. ChainTypes' /\ ChainInv'
    BY <2>1, EmptyChain
  <2>3. RestTypes' /\ CallInv'
    <3>1. result[t] \in V
      BY <1>t DEF RestTypes
    <3>2. QED BY <1>t, <1>c, <2>1, <3>1, FinishTypes
  <2>4. QED BY <2>2, <2>3 DEF ListInv
<1>5. CASE \/ QueueRefused(t) \/ PeekItem(t) \/ TimeOut(t) \/ PushFails(t)
           \/ (EmptyQueue(t) /\ count = 0)
  <2>1. UNCHANGED <<chain, lists>>
    BY <1>5 DEF QueueRefused, PeekItem, TimeOut, PushFails, EmptyQueue
  <2>2. PICK v \in V : Finish(t, v, << >>)
    <3>1. CASE PeekItem(t)
      <4>1. count # 0 /\ Finish(t, pairs[first].car, << >>)
        BY <3>1 DEF PeekItem
      <4>2. pairs[first].car \in V
        <5>1. first \in Cell
          BY <1>t, <4>1 DEF ChainInv, ChainTypes
        <5>2. pairs[first] \in [car : Item \cup {False}, cdr : Pointer]
          BY <1>t, <5>1 DEF ChainTypes
        <5>3. QED BY <5>2
      <4>3. QED BY <4>1, <4>2
    <3>2. CASE EmptyQueue(t) /\ count = 0
      BY <1>t, <3>2 DEF EmptyQueue, RestTypes
    <3>3. CASE QueueRefused(t) \/ TimeOut(t) \/ PushFails(t)
      BY <3>3 DEF QueueRefused, TimeOut, PushFails
    <3>4. QED BY <1>5, <3>1, <3>2, <3>3
  <2>3. RestTypes' /\ CallInv'
    BY <1>t, <1>c, <2>1, <2>2, FinishTypes DEF lists
  <2>4. ChainTypes' /\ ChainInv'
    BY <1>t, <2>1, SameChain
  <2>5. QED BY <2>3, <2>4 DEF ListInv
<1>6. QED BY <1>1, <1>2, <1>3, <1>4, <1>5

\* The steps of the threads keep the types and the chain.
LEMMA ListNext ==
  ASSUME ListInv, [Next]_vars
  PROVE  ListInv'
<1>t. ChainTypes /\ RestTypes /\ ChainInv /\ CallInv
  BY DEF ListInv
<1>1. CASE Next
  <2>1. PICK t \in Thread : Calls(t) \/ Work(t) \/ Environment(t) \/ Deadline(t) \/ Alarm(t)
    BY <1>1 DEF Next
  <2>2. CASE \/ QueueItem(t) \/ QueueRefused(t) \/ DequeueItem(t) \/ PeekItem(t)
             \/ TimeOut(t) \/ PushItem(t) \/ PushFull(t) \/ PushFails(t) \/ EmptyQueue(t)
    BY <2>2, OperationInv
  <2>3. CASE QueueWait(t) \/ DequeueWait(t) \/ WaitUntil(t)
    BY <1>t, <2>3, WaitTypes, SameChain DEF ListInv
  <2>4. CASE Calls(t)
    BY <1>t, <2>4, CallTypes, SameChain DEF ListInv
  <2>5. CASE Locked(t) \/ Resume(t) \/ Environment(t) \/ Deadline(t) \/ Alarm(t)
    BY <1>t, <2>5, OtherTypes, SameChain DEF ListInv
  <2>6. QED BY <2>1, <2>2, <2>3, <2>4, <2>5 DEF Work
<1>2. CASE UNCHANGED vars
  <2>1. RestTypes' /\ CallInv' /\ UNCHANGED chain
    BY <1>t, <1>2 DEF vars, lists, mutex, clock, RestTypes, CallInv
  <2>2. QED BY <1>t, <2>1, SameChain DEF ListInv
<1>3. QED BY <1>1, <1>2

\* A new queue has no pairs and no items.
LEMMA ListInit ==
  ASSUME Init
  PROVE  ListInv /\ Items = << >>
<1>1. ChainTypes /\ count = 0
  BY SMT DEF Init, ChainTypes, Unused, Pointer
<1>2. RestTypes
  BY SMT DEF Init, RestTypes, NoCall
<1>3. CallInv
  BY DEF Init, CallInv, NoCall, Adding
<1>4. PICK q : q \in [1 .. 0 -> Cell]
  <2>1. [i \in 1 .. 0 |-> Nil] \in [1 .. 0 -> Cell]
    BY SMT
  <2>2. QED BY <2>1
<1>5. Holds(q)
  BY <1>4, SMT DEF Init, Holds, IsChain, IsInjective, Unused
<1>6. ChainInv
  BY <1>1, <1>4, <1>5 DEF ChainInv, Init
<1>7. Items \in Seq(Item) /\ Len(Items) = 0
  BY <1>1, <1>5, ItemsType DEF ChainTypes
<1>8. Items = << >>
  BY <1>7, SMT
<1>9. QED BY <1>1, <1>2, <1>3, <1>6, <1>8 DEF ListInv

-----------------------------------------------------------------------------
\* The fields of a queue have their types and hold one chain of element-count pairs
\* from first-pair to last-pair, for any max-elements and any mix of operations,
\* threads that exit and errors included.
THEOREM QueueCorrect == Spec => []QueueSound
<1>1. Init => ListInv
  BY ListInit
<1>2. ListInv /\ [Next]_vars => ListInv'
  BY ListNext
<1>3. ListInv => QueueSound
  <2>1. SUFFICES ASSUME ListInv PROVE QueueSound
    OBVIOUS
  <2>2. TypeOK
    BY <2>1 DEF ListInv, ChainTypes, RestTypes, TypeOK
  <2>3. PICK s \in [1 .. count -> Cell] : Holds(s)
    BY <2>1 DEF ListInv, ChainInv
  <2>4. ChainSound
    BY <2>1, <2>3 DEF ListInv, ChainInv, Holds, ChainSound
  <2>5. QED BY <2>2, <2>4 DEF QueueSound
<1>4. QED BY <1>1, <1>2, <1>3, PTL DEF Spec

-----------------------------------------------------------------------------
(* A queue is a bounded sequence                                           *)

\* A call is of an operation that the program uses.
OpsInv == \A t \in Thread : call[t].kind \in Ops \cup {"none"}

RefInv == ListInv /\ NobodyDead /\ OpsInv

\* Where nobody exits every step keeps all of it.
LEMMA RefNext ==
  ASSUME "exit" \notin Ops, RefInv, [Next]_vars
  PROVE  RefInv'
<1>1. ListInv'
  BY ListNext DEF RefInv
<1>2. /\ pc \in [Thread -> {"idle", "lock", "in", "parked", "dead"}]
      /\ call \in [Thread -> [kind : Adding \cup Taking \cup {"empty", "none"},
                              item : Item \cup {False}]]
      /\ NobodyDead /\ OpsInv
  BY DEF RefInv, ListInv, RestTypes
<1>3. CASE Next
  <2>1. PICK t \in Thread : Calls(t) \/ Work(t) \/ Environment(t) \/ Deadline(t) \/ Alarm(t)
    BY <1>3 DEF Next
  <2>2. \/ pc' = pc
        \/ \E p \in {"idle", "lock", "in", "parked"} : pc' = [pc EXCEPT ![t] = p]
    BY <2>1 DEF Calls, Call, Work, QueueItem, QueueRefused, QueueWait, DequeueItem,
         PeekItem, DequeueWait, WaitUntil, TimeOut, PushItem, PushFull, PushFails, EmptyQueue,
         Locked, Resume, Environment, DropToken, Stray, Exit, Deadline, Alarm, Finish, Park,
         Lock
  <2>3. NobodyDead'
    BY <1>2, <2>2 DEF NobodyDead
  <2>4. \/ call' = call \/ call' = [call EXCEPT ![t] = NoCall]
        \/ \E k \in Ops, x \in Item \cup {False} :
             call' = [call EXCEPT ![t] = [kind |-> k, item |-> x]]
    BY <2>1 DEF Calls, Call, Work, QueueItem, QueueRefused, QueueWait, DequeueItem,
         PeekItem, DequeueWait, WaitUntil, TimeOut, PushItem, PushFull, PushFails, EmptyQueue,
         Locked, Resume, Environment, DropToken, Stray, Exit, Deadline, Alarm, Finish, Park
  <2>5. OpsInv'
    <3>1. NoCall.kind = "none"
      BY DEF NoCall
    <3>2. CASE call' = call \/ call' = [call EXCEPT ![t] = NoCall]
      BY <1>2, <3>1, <3>2 DEF OpsInv
    <3>3. CASE \E k \in Ops, x \in Item \cup {False} :
                 call' = [call EXCEPT ![t] = [kind |-> k, item |-> x]]
      <4>1. call'[t].kind \in Ops /\ \A u \in Thread \ {t} : call'[u] = call[u]
        <5>1. PICK k \in Ops, x \in Item \cup {False} :
                call' = [call EXCEPT ![t] = [kind |-> k, item |-> x]]
          BY <3>3
        <5>2. call'[t] = [kind |-> k, item |-> x]
          BY <1>2, <5>1
        <5>3. call'[t].kind = k
          BY <5>2, SMT
        <5>4. QED BY <1>2, <5>1, <5>3
      <4>2. QED BY <1>2, <4>1 DEF OpsInv
    <3>4. QED BY <2>4, <3>2, <3>3
  <2>6. QED BY <1>1, <2>3, <2>5 DEF RefInv
<1>4. CASE UNCHANGED vars
  BY <1>1, <1>2, <1>4 DEF vars, NobodyDead, OpsInv, RefInv
<1>5. QED BY <1>3, <1>4

\* The end of an operation, seen from outside: the thread has its result.
LEMMA Answers ==
  ASSUME NobodyDead, NEW t, NEW v, NEW list \in Seq(Thread), Finish(t, v, list)
  PROVE  Abstract!Returns(t, v)
<1>1. ~Breaks(list)
  BY AllSignalled
<1>2. QED BY <1>1 DEF Finish, Abstract!Returns

\* max-elements bounds the items as it does element-count.
LEMMA FullItems ==
  ASSUME ChainTypes, ChainInv
  PROVE  /\ Items \in Seq(Item) /\ Len(Items) = count /\ (Full <=> Abstract!Full)
         /\ count = 0 <=> Items = << >>
         /\ count # 0 => Head(Items) = pairs[first].car
<1>1. PICK s \in [1 .. count -> Cell] : Holds(s)
  BY DEF ChainInv
<1>2. /\ Items \in Seq(Item) /\ Len(Items) = count
      /\ \A i \in 1 .. count : Items[i] = pairs[s[i]].car
  BY <1>1, ItemsType DEF ChainTypes
<1>3. Full <=> Abstract!Full
  BY <1>2 DEF Full, Abstract!Full
<1>4. count = 0 <=> Items = << >>
  BY <1>2, SMT
<1>5. ASSUME count # 0 PROVE Head(Items) = pairs[first].car
  <2>1. Head(Items) = Items[1] /\ 1 \in 1 .. count
    BY <1>2, <1>5, SMT DEF ChainTypes
  <2>2. QED BY <1>1, <1>2, <1>5, <2>1 DEF Holds, IsChain
<1>6. QED BY <1>2, <1>3, <1>4, <1>5

\* An operation that ends is one step of the sequence: it reads and changes the
\* items, and answers, at once.
LEMMA OperationRefines ==
  ASSUME RefInv, NEW t \in Thread, "push" \notin Ops \/ MaxElements \notin {0, 1},
         \/ QueueItem(t) \/ QueueRefused(t) \/ DequeueItem(t) \/ PeekItem(t)
         \/ TimeOut(t) \/ PushItem(t) \/ PushFull(t) \/ PushFails(t) \/ EmptyQueue(t)
  PROVE  Abstract!Next \/ UNCHANGED <<Items, result>>
<1>t. /\ TypeOK /\ ChainTypes /\ RestTypes /\ ChainInv /\ CallInv /\ NobodyDead
      /\ queuers \in Seq(Thread) /\ dequeuers \in Seq(Thread)
  BY DEF RefInv, ListInv, TypeOK, ChainTypes, RestTypes
<1>c. << >> \in Seq(Thread)
  BY SMT
<1>f. /\ Items \in Seq(Item) /\ Len(Items) = count /\ (Full <=> Abstract!Full)
      /\ count = 0 <=> Items = << >>
      /\ count # 0 => Head(Items) = pairs[first].car
  BY <1>t, FullItems
<1>i. In(t, {"queue", "queue-no-hang"}) \/ In(t, {"push"}) => call[t].item \in Item
  BY <1>t, ItemIn DEF In, Adding
<1> DEFINE x == call[t].item
<1>1. CASE QueueItem(t)
  <2>1. x \in Item /\ ~Full /\ AddLast(x) /\ Finish(t, x, dequeuers)
    BY <1>1, <1>i DEF QueueItem
  <2>2. Items' = Append(Items, x)
    BY <1>t, <2>1, AddLastStep
  <2>3. Abstract!Put(t, x)
    BY <1>t, <1>f, <2>1, <2>2, Answers DEF Abstract!Put
  <2>4. QED BY <2>1, <2>3 DEF Abstract!Next
<1>2. CASE PushItem(t)
  <2>1. x \in Item /\ ~Full /\ AddFirst(x) /\ Finish(t, x, dequeuers)
    BY <1>2, <1>i DEF PushItem
  <2>2. Items' = <<x>> \o Items
    BY <1>t, <2>1, AddFirstStep
  <2>3. Abstract!Push(t, x)
    BY <1>t, <1>f, <2>1, <2>2, Answers DEF Abstract!Push
  <2>4. QED BY <2>1, <2>3 DEF Abstract!Next
<1>3. CASE PushFull(t)
  <2>1. x \in Item /\ Full /\ Clobber(x) /\ Finish(t, x, << >>)
    BY <1>3, <1>i DEF PushFull
  <2>2. Items' = <<x>> \o SubSeq(Items, 1, Len(Items) - 1)
    BY <1>t, <2>1, ClobberStep
  <2>3. Abstract!Push(t, x)
    BY <1>t, <1>c, <1>f, <2>1, <2>2, Answers DEF Abstract!Push
  <2>4. QED BY <2>1, <2>3 DEF Abstract!Next
<1>4. CASE DequeueItem(t)
  <2>1. count # 0 /\ TakeFirst /\ Finish(t, pairs[first].car, queuers)
    BY <1>4 DEF DequeueItem
  <2>2. Items' = Tail(Items)
    BY <1>t, <2>1, TakeFirstStep
  <2>3. Abstract!Take(t)
    BY <1>t, <1>f, <2>1, <2>2, Answers DEF Abstract!Take
  <2>4. QED BY <2>3 DEF Abstract!Next
<1>5. CASE EmptyQueue(t)
  <2>1. \E list \in Seq(Thread) : Finish(t, result[t], list)
    BY <1>5, <1>t, <1>c DEF EmptyQueue
  <2>2. Items' = << >>
    <3>1. CASE count = 0
      BY <1>5, <1>t, <1>f, <3>1, SameChain DEF EmptyQueue
    <3>2. CASE count # 0
      BY <1>5, <3>2, EmptyChain DEF EmptyQueue
    <3>3. QED BY <3>1, <3>2
  <2>3. result' = result
    <3>1. result' = [result EXCEPT ![t] = result[t]]
      BY <1>t, <2>1, Answers DEF Abstract!Returns
    <3>2. QED BY <1>t, <3>1 DEF RestTypes
  <2>4. Abstract!Clear(t)
    BY <2>2, <2>3 DEF Abstract!Clear
  <2>5. QED BY <2>4 DEF Abstract!Next
<1>6. CASE QueueRefused(t)
  <2>1. Full /\ Finish(t, False, << >>) /\ UNCHANGED chain
    BY <1>6 DEF QueueRefused
  <2>2. Abstract!Refuse(t)
    BY <1>t, <1>c, <1>f, <2>1, Answers, SameChain DEF Abstract!Refuse
  <2>3. QED BY <2>2 DEF Abstract!Next
<1>7. CASE PeekItem(t)
  <2>1. count # 0 /\ Finish(t, pairs[first].car, << >>) /\ UNCHANGED chain
    BY <1>7 DEF PeekItem
  <2>2. Abstract!Look(t)
    BY <1>t, <1>c, <1>f, <2>1, Answers, SameChain DEF Abstract!Look
  <2>3. QED BY <2>2 DEF Abstract!Next
<1>8. CASE TimeOut(t)
  <2>1. count = 0 /\ Finish(t, False, << >>) /\ UNCHANGED chain
    BY <1>8 DEF TimeOut
  <2>2. Abstract!TimeOut(t)
    BY <1>t, <1>c, <1>f, <2>1, Answers, SameChain DEF Abstract!TimeOut
  <2>3. QED BY <2>2 DEF Abstract!Next
<1>9. CASE PushFails(t)
  <2>1. In(t, {"push"}) /\ Full /\ BeforeLast = {}
    BY <1>9 DEF PushFails
  <2>2. MaxElements \notin {0, 1}
    BY <2>1 DEF In, RefInv, OpsInv
  <2>3. MaxElements \in Nat /\ count >= MaxElements /\ count \in Nat
    BY <1>t, <2>1, QueueAssumption DEF Full, ChainTypes
  <2>4. count - 1 \in 1 .. count - 1
    BY <2>2, <2>3, SMT
  <2>5. PICK s \in [1 .. count -> Cell] : Holds(s)
    BY <1>t DEF ChainInv
  <2>6. s[count - 1] \in BeforeLast
    BY <1>t, <2>4, <2>5, BeforeLastOf
  <2>7. QED BY <2>1, <2>6
<1>10. QED BY <1>1, <1>2, <1>3, <1>4, <1>5, <1>6, <1>7, <1>8, <1>9

\* A thread queue is a bounded sequence of items, which every operation reads and
\* changes in one step: whatever the interleaving, the spurious wake-ups and the
\* deadlines, nothing is lost, doubled or reordered, and an operation that answers #f
\* found the queue full (or empty) then.  This is so for any max-elements, as long as no
\* thread exits - one that is still listed makes the operation that signals it fail - and
\* as long as nothing is pushed to a queue of at most one element, where
\* thread-queue/push! fails.
THEOREM QueueRefines ==
  ASSUME "exit" \notin Ops, "push" \notin Ops \/ MaxElements \notin {0, 1}
  PROVE  Spec => RefinesBoundedQueue
<1>1. Init => RefInv /\ Abstract!Init
  <2>1. SUFFICES ASSUME Init PROVE RefInv /\ Abstract!Init
    OBVIOUS
  <2>2. NobodyDead /\ OpsInv
    BY <2>1 DEF Init, NobodyDead, OpsInv, NoCall
  <2>3. Abstract!Init
    BY <2>1, ListInit DEF Abstract!Init, Init
  <2>4. QED BY <2>1, <2>2, <2>3, ListInit DEF RefInv
<1>2. RefInv /\ [Next]_vars => RefInv'
  BY RefNext
<1>3. RefInv /\ [Next]_vars => [Abstract!Next]_<<Items, result>>
  <2>1. SUFFICES ASSUME RefInv, [Next]_vars
                 PROVE  Abstract!Next \/ UNCHANGED <<Items, result>>
    OBVIOUS
  <2>t. ChainTypes /\ RestTypes /\ ChainInv /\ CallInv
    BY <2>1 DEF RefInv, ListInv
  <2>2. CASE Next
    <3>1. PICK t \in Thread : Calls(t) \/ Work(t) \/ Environment(t) \/ Deadline(t) \/ Alarm(t)
      BY <2>2 DEF Next
    <3>2. CASE \/ QueueItem(t) \/ QueueRefused(t) \/ DequeueItem(t) \/ PeekItem(t)
               \/ TimeOut(t) \/ PushItem(t) \/ PushFull(t) \/ PushFails(t) \/ EmptyQueue(t)
      BY <2>1, <3>2, OperationRefines
    <3>3. CASE QueueWait(t) \/ DequeueWait(t) \/ WaitUntil(t)
      BY <2>t, <3>3, WaitTypes, SameChain
    <3>4. CASE Calls(t)
      <4>1. Abstract!Begin(t)
        BY <2>t, <3>4, CallTypes, SameChain DEF Abstract!Begin, Abstract!Returns
      <4>2. QED BY <4>1 DEF Abstract!Next
    <3>5. CASE Locked(t) \/ Resume(t) \/ Environment(t) \/ Deadline(t) \/ Alarm(t)
      BY <2>t, <3>5, OtherTypes, SameChain
    <3>6. QED BY <3>1, <3>2, <3>3, <3>4, <3>5 DEF Work
  <2>3. CASE UNCHANGED vars
    BY <2>t, <2>3, SameChain DEF vars
  <2>4. QED BY <2>1, <2>2, <2>3
<1>4. QED BY <1>1, <1>2, <1>3, PTL DEF Spec, RefinesBoundedQueue, Abstract!Spec
=============================================================================
