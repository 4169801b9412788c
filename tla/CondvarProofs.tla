--------------------------- MODULE CondvarProofs ----------------------------
(***************************************************************************)
(* The list of waiters of a condition variable is right: proofs, for any   *)
(* set of threads and any use of the operations, that a waiting thread     *)
(* which is not marked done is on the list, and that nobody else is.       *)
(***************************************************************************)
EXTENDS Condvar, QueueLemmas, TLAPS

\* Zenon finds most of the steps; those that need more are marked SMT.
USE Zenon

\* Where a thread is, or goes when it gets the mutex it waits for.
At(t) == IF pc[t] = "lock" THEN then[t].pc ELSE pc[t]

\* The steps for which a thread has the lock of the condition variable.
CSteps == {"enqueue", "clean", "scan", "mark", "unlink"}

\* The queues of the mutexes hold threads that wait for them, each once.
QueueInv ==
  \A m \in Mutex :
    /\ IsInjective(lockq[m]) /\ owner[m] \notin Range(lockq[m])
    /\ \A t \in Range(lockq[m]) : pc[t] = "lock" /\ then[t].mutex = m

\* A thread waiting for a mutex is in its queue, or owns it and is awake.
GrantInv ==
  \A t \in Thread : pc[t] = "lock" => IF owner[then[t].mutex] = t THEN t \in token
                                      ELSE t \in Range(lockq[then[t].mutex])

\* Which mutexes a thread owns, and which operation it is in, where it is.
Place(t) ==
  /\ pc[t] = "lock" => \/ then[t].mutex = "c" /\ then[t].pc \in {"enqueue", "clean", "scan"}
                       \/ then[t].mutex = "m" /\ then[t].pc = "run"
  /\ owner["c"] = t => At(t) \in CSteps
  /\ pc[t] \in CSteps => owner["c"] = t
  /\ At(t) \in {"enqueue", "release"} => owner["m"] = t
  /\ At(t) \in {"test", "sleep", "clean", "return"} => owner["m"] # t
  /\ At(t) \in {"enqueue", "release", "test", "sleep", "clean", "return"}
       => call[t] \in Waits
PlaceInv == \A t \in Thread : Place(t)

\* The list holds threads that are in a wait, each once, and the waiter a
\* signaller is at work on is its head.
ListInv ==
  /\ IsInjective(waiters)
  /\ \A t \in Range(waiters) : At(t) \in {"release", "test", "sleep", "clean"}
  /\ \A t \in Thread : /\ pc[t] \in {"mark", "unlink"} => waiters # << >>
                       /\ pc[t] = "unlink" => Head(waiters) \in done

CondvarInv == TypeOK /\ QueueInv /\ GrantInv /\ PlaceInv /\ ListInv /\ WaitersListed

-----------------------------------------------------------------------------
\* What lock-thread-mutex comes to: t owns the mutex and goes on at w, or waits.
LockEffect(t, m, w) ==
  /\ QueueInv' /\ GrantInv'
  /\ owner' \in [Mutex -> Thread \cup {NoThread}] /\ lockq' \in [Mutex -> Seq(Thread)]
  /\ pc' \in [Thread -> PC] /\ then' \in [Thread -> [mutex : Mutex, pc : PC \ {"lock"}]]
  /\ token' \subseteq Thread
  /\ \A u \in Thread \ {t} : pc'[u] = pc[u] /\ then'[u] = then[u]
  /\ \A n \in Mutex \ {m} : owner'[n] = owner[n]
  /\ \/ owner[m] = NoThread /\ owner'[m] = t /\ pc'[t] = w
     \/ owner'[m] = owner[m] /\ pc'[t] = "lock" /\ then'[t] = [mutex |-> m, pc |-> w]

\* lock-thread-mutex by a thread that is not in its wait already.
LEMMA LockStep ==
  ASSUME TypeOK, QueueInv, GrantInv, NEW t \in Thread, pc[t] # "lock",
         NEW m \in Mutex, owner[m] # t, NEW w \in PC \ {"lock"}, Lock(t, m, w),
         token' = token \/ token' = token \ {t}
  PROVE  LockEffect(t, m, w)
<1>1. /\ \A n \in Mutex : lockq[n] \in Seq(Thread) /\ t \notin Range(lockq[n])
      /\ NoThread \notin Thread /\ "lock" \in PC
  BY CondvarAssumption DEF TypeOK, QueueInv, PC
<1>2. CASE owner[m] = NoThread
  <2>1. /\ owner' = [owner EXCEPT ![m] = t] /\ lockq' = lockq /\ then' = then
        /\ pc' = [pc EXCEPT ![t] = w]
    BY <1>2 DEF Lock, Goto
  <2>2. /\ owner' \in [Mutex -> Thread \cup {NoThread}] /\ pc' \in [Thread -> PC]
        /\ owner'[m] = t /\ pc'[t] = w
        /\ \A u \in Thread \ {t} : pc'[u] = pc[u]
        /\ \A n \in Mutex \ {m} : owner'[n] = owner[n]
    BY <2>1 DEF TypeOK
  <2>3. QueueInv'
    <3>1. ASSUME NEW n \in Mutex
          PROVE  /\ IsInjective(lockq'[n]) /\ owner'[n] \notin Range(lockq'[n])
                 /\ \A u \in Range(lockq'[n]) : pc'[u] = "lock" /\ then'[u].mutex = n
      <4>1. \A u \in Range(lockq[n]) : u \in Thread \ {t}
        BY <1>1, SMT DEF Range
      <4>2. QED BY <1>1, <2>1, <2>2, <4>1, SMT DEF QueueInv
    <3>2. QED BY <3>1 DEF QueueInv
  <2>4. GrantInv'
    BY <1>1, <1>2, <2>1, <2>2, SMT DEF GrantInv, TypeOK
  <2>5. QED BY <1>2, <2>1, <2>2, <2>3, <2>4 DEF TypeOK, LockEffect
<1>3. CASE owner[m] # NoThread
  <2>1. /\ owner' = owner /\ lockq' = [lockq EXCEPT ![m] = Append(lockq[m], t)]
        /\ then' = [then EXCEPT ![t] = [mutex |-> m, pc |-> w]]
        /\ pc' = [pc EXCEPT ![t] = "lock"]
    BY <1>3 DEF Lock, Goto
  <2>2. /\ pc' \in [Thread -> PC] /\ then' \in [Thread -> [mutex : Mutex, pc : PC \ {"lock"}]]
        /\ pc'[t] = "lock" /\ then'[t] = [mutex |-> m, pc |-> w]
        /\ \A u \in Thread \ {t} : pc'[u] = pc[u] /\ then'[u] = then[u]
    BY <1>1, <2>1 DEF TypeOK
  <2>3. /\ lockq'[m] = Append(lockq[m], t)
        /\ \A n \in Mutex \ {m} : lockq'[n] = lockq[n]
        /\ Range(lockq'[m]) = Range(lockq[m]) \cup {t}
        /\ IsInjective(lockq'[m])
        /\ lockq' \in [Mutex -> Seq(Thread)]
    <3>1. Append(lockq[m], t) \in Seq(Thread)
      BY <1>1, SMT
    <3>2. /\ lockq'[m] = Append(lockq[m], t)
          /\ \A n \in Mutex \ {m} : lockq'[n] = lockq[n]
          /\ lockq' \in [Mutex -> Seq(Thread)]
      BY <2>1, <3>1 DEF TypeOK
    <3>3. QED BY <1>1, <3>2, RangeOfAppend, SMT DEF QueueInv
  <2>4. QueueInv'
    <3>1. ASSUME NEW n \in Mutex
          PROVE  /\ IsInjective(lockq'[n]) /\ owner'[n] \notin Range(lockq'[n])
                 /\ \A u \in Range(lockq'[n]) : pc'[u] = "lock" /\ then'[u].mutex = n
      <4>1. \A u \in Range(lockq[n]) : u \in Thread \ {t}
        BY <1>1, SMT DEF Range
      <4>2. CASE n = m
        BY <2>1, <2>2, <2>3, <4>1, <4>2, SMT DEF QueueInv
      <4>3. CASE n # m
        BY <2>1, <2>2, <2>3, <4>1, <4>3, SMT DEF QueueInv
      <4>4. QED BY <4>2, <4>3
    <3>2. QED BY <3>1 DEF QueueInv
  <2>5. GrantInv'
    <3>1. ASSUME NEW u \in Thread, pc'[u] = "lock"
          PROVE  IF owner'[then'[u].mutex] = u THEN u \in token'
                 ELSE u \in Range(lockq'[then'[u].mutex])
      <4>1. CASE u = t
        BY <2>1, <2>2, <2>3, <4>1
      <4>2. CASE u # t
        BY <2>1, <2>2, <2>3, <3>1, <4>2 DEF GrantInv
      <4>3. QED BY <4>1, <4>2
    <3>2. QED BY <3>1 DEF GrantInv
  <2>6. QED BY <1>3, <2>1, <2>2, <2>3, <2>4, <2>5 DEF TypeOK, LockEffect
<1>4. QED BY <1>2, <1>3

\* What unlock-thread-mutex comes to, for an owner that goes on at p: the mutex
\* is free, or its next owner is in the wait for it.
UnlockEffect(t, m, p) ==
  /\ QueueInv' /\ GrantInv'
  /\ owner' \in [Mutex -> Thread \cup {NoThread}] /\ lockq' \in [Mutex -> Seq(Thread)]
  /\ pc' \in [Thread -> PC] /\ token' \subseteq Thread
  /\ pc'[t] = p /\ \A u \in Thread \ {t} : pc'[u] = pc[u]
  /\ \A n \in Mutex \ {m} : owner'[n] = owner[n]
  /\ \/ owner'[m] = NoThread
     \/ /\ owner'[m] \in Thread \ {t}
        /\ pc[owner'[m]] = "lock" /\ then[owner'[m]].mutex = m

\* unlock-thread-mutex by its owner.
LEMMA UnlockStep ==
  ASSUME TypeOK, QueueInv, GrantInv, NEW t \in Thread, pc[t] # "lock",
         NEW m \in Mutex, owner[m] = t, Unlock(m),
         NEW p \in PC \ {"lock"}, pc' = [pc EXCEPT ![t] = p], then' = then
  PROVE  UnlockEffect(t, m, p)
<1>1. /\ \A n \in Mutex : lockq[n] \in Seq(Thread) /\ t \notin Range(lockq[n])
      /\ NoThread \notin Thread
  BY CondvarAssumption DEF TypeOK, QueueInv
<1>2. pc' \in [Thread -> PC] /\ pc'[t] = p /\ \A u \in Thread \ {t} : pc'[u] = pc[u]
  BY DEF TypeOK
<1>3. CASE lockq[m] = << >>
  <2>1. owner' = [owner EXCEPT ![m] = NoThread] /\ lockq' = lockq /\ token' = token
    BY <1>3 DEF Unlock
  <2>2. /\ owner' \in [Mutex -> Thread \cup {NoThread}] /\ owner'[m] = NoThread
        /\ \A n \in Mutex \ {m} : owner'[n] = owner[n]
    BY <2>1 DEF TypeOK
  <2>3. QueueInv'
    <3>1. ASSUME NEW n \in Mutex
          PROVE  /\ IsInjective(lockq'[n]) /\ owner'[n] \notin Range(lockq'[n])
                 /\ \A u \in Range(lockq'[n]) : pc'[u] = "lock" /\ then'[u].mutex = n
      <4>1. \A u \in Range(lockq[n]) : u \in Thread \ {t}
        BY <1>1, SMT DEF Range
      <4>2. QED BY <1>1, <1>2, <2>1, <2>2, <4>1, SMT DEF QueueInv
    <3>2. QED BY <3>1 DEF QueueInv
  <2>4. GrantInv'
    BY <1>1, <1>2, <2>1, <2>2, SMT DEF GrantInv, TypeOK
  <2>5. QED BY <1>2, <2>1, <2>2, <2>3, <2>4 DEF TypeOK, UnlockEffect
<1>4. CASE lockq[m] # << >>
  <2> DEFINE h == Head(lockq[m])
  <2>1. /\ owner' = [owner EXCEPT ![m] = h] /\ token' = token \cup {h}
        /\ lockq' = [lockq EXCEPT ![m] = Tail(lockq[m])]
    BY <1>4 DEF Unlock
  <2>2. /\ Range(lockq[m]) = Range(Tail(lockq[m])) \cup {h}
        /\ Tail(lockq[m]) \in Seq(Thread) /\ h \in Thread
        /\ IsInjective(Tail(lockq[m])) /\ h \notin Range(Tail(lockq[m]))
    BY <1>1, <1>4, RangeOfTail, SMT DEF QueueInv
  <2> HIDE DEF h
  <2>3. /\ owner' \in [Mutex -> Thread \cup {NoThread}] /\ owner'[m] = h
        /\ lockq' \in [Mutex -> Seq(Thread)] /\ lockq'[m] = Tail(lockq[m])
        /\ \A n \in Mutex \ {m} : owner'[n] = owner[n] /\ lockq'[n] = lockq[n]
    BY <2>1, <2>2 DEF TypeOK
  <2>4. h \in Thread \ {t} /\ pc[h] = "lock" /\ then[h].mutex = m
    BY <1>1, <2>2, SMT DEF QueueInv
  <2>5. QueueInv'
    <3>1. ASSUME NEW n \in Mutex
          PROVE  /\ IsInjective(lockq'[n]) /\ owner'[n] \notin Range(lockq'[n])
                 /\ \A u \in Range(lockq'[n]) : pc'[u] = "lock" /\ then'[u].mutex = n
      <4>1. \A u \in Range(lockq[n]) : u \in Thread \ {t}
        BY <1>1, SMT DEF Range
      <4>2. CASE n = m
        <5>1. \A u \in Range(lockq[m]) : pc[u] = "lock" /\ then[u].mutex = m
          BY DEF QueueInv
        <5>2. Range(lockq'[m]) \subseteq Range(lockq[m]) /\ h \notin Range(lockq'[m])
          BY <2>2, <2>3
        <5>3. IsInjective(lockq'[m]) /\ owner'[m] = h
          BY <2>2, <2>3
        <5>4. QED BY <1>2, <4>1, <4>2, <5>1, <5>2, <5>3
      <4>3. CASE n # m
        BY <1>2, <2>3, <4>1, <4>3, SMT DEF QueueInv
      <4>4. QED BY <4>2, <4>3
    <3>2. QED BY <3>1 DEF QueueInv
  <2>6. GrantInv'
    <3>1. ASSUME NEW u \in Thread, pc'[u] = "lock"
          PROVE  IF owner'[then'[u].mutex] = u THEN u \in token'
                 ELSE u \in Range(lockq'[then'[u].mutex])
      <4>1. u # t /\ pc[u] = "lock" /\ then'[u] = then[u] /\ then[u].mutex \in Mutex
        BY <1>2, <3>1 DEF TypeOK
      <4>2. CASE then[u].mutex = m
        <5>1. u \in Range(lockq[m])
          BY <4>1, <4>2 DEF GrantInv
        <5>2. QED BY <2>1, <2>2, <2>3, <4>1, <4>2, <5>1
      <4>3. CASE then[u].mutex # m
        BY <2>1, <2>3, <4>1, <4>3 DEF GrantInv
      <4>4. QED BY <4>2, <4>3
    <3>2. QED BY <3>1 DEF GrantInv
  <2>7. QED BY <1>2, <2>1, <2>2, <2>3, <2>4, <2>5, <2>6 DEF TypeOK, UnlockEffect
<1>5. QED BY <1>3, <1>4

-----------------------------------------------------------------------------
\* A step of thread t leaves the others where they are; one of them may be given
\* a mutex that it waits for.
Others(t) ==
  \A u \in Thread \ {t} :
    /\ pc'[u] = pc[u] /\ then'[u] = then[u] /\ call'[u] = call[u]
    /\ u \in done => u \in done'
    /\ \A m \in Mutex : \/ owner'[m] = u <=> owner[m] = u
                        \/ /\ owner[m] = t /\ owner'[m] = u
                           /\ pc[u] = "lock" /\ then[u].mutex = m

\* What it does to the list, and where that leaves t.
Lists(t) ==
  /\ IsInjective(waiters')
  /\ \A u \in Range(waiters') : u # t => u \in Range(waiters)
  /\ \A u \in Range(waiters) : u # t /\ u \notin done' => u \in Range(waiters')
  /\ t \in Range(waiters') => At(t)' \in {"release", "test", "sleep", "clean"}
  /\ pc'[t] \in {"release", "test", "sleep"} /\ t \notin done' => t \in Range(waiters')
  /\ pc'[t] \in {"mark", "unlink"} => waiters' # << >>
  /\ pc'[t] = "unlink" => Head(waiters') \in done'
  /\ \/ waiters' = waiters /\ (t \in done => t \in done' \/ t \notin Range(waiters))
     \/ owner["c"] = t

\* The invariant of all threads follows from what the step does to its own.
LEMMA StepOf ==
  ASSUME CondvarInv, NEW t \in Thread, TypeOK', QueueInv', GrantInv',
         Others(t), Place(t)', Lists(t)
  PROVE  CondvarInv'
<1>1. ASSUME NEW u \in Thread, u # t PROVE Place(u)' /\ At(u)' = At(u)
  <2>1. At(u)' = At(u)
    BY <1>1 DEF Others, At
  <2>2. Place(u)
    BY DEF CondvarInv, PlaceInv
  <2>3. /\ pc'[u] = pc[u] /\ then'[u] = then[u] /\ call'[u] = call[u]
        /\ \A m \in Mutex : \/ owner'[m] = u <=> owner[m] = u
                            \/ /\ owner[m] = t /\ owner'[m] = u
                               /\ pc[u] = "lock" /\ then[u].mutex = m
    BY <1>1 DEF Others
  <2>4. pc[u] = "lock" => At(u) = then[u].pc
    BY DEF At
  <2>5. QED BY <2>1, <2>2, <2>3, <2>4 DEF Place, Mutex, CSteps
<1>2. PlaceInv'
  BY <1>1 DEF PlaceInv
<1>3. \A u \in Range(waiters') : At(u)' \in {"release", "test", "sleep", "clean"}
  <2> SUFFICES ASSUME NEW u \in Range(waiters'), u # t
               PROVE  At(u)' \in {"release", "test", "sleep", "clean"}
    BY DEF Lists
  <2>1. u \in Range(waiters)
    BY DEF Lists
  <2>2. u \in Thread
    BY <2>1, SMT DEF CondvarInv, TypeOK, Range
  <2>3. QED BY <1>1, <2>1, <2>2 DEF CondvarInv, ListInv
<1>4. ASSUME NEW u \in Thread
      PROVE  /\ pc'[u] \in {"mark", "unlink"} => waiters' # << >>
             /\ pc'[u] = "unlink" => Head(waiters') \in done'
  <2>1. CASE u = t
    BY <2>1 DEF Lists
  <2>2. CASE u # t
    <3> SUFFICES ASSUME pc[u] \in {"mark", "unlink"}
                 PROVE  waiters' # << >> /\ (pc[u] = "unlink" => Head(waiters') \in done')
      BY <2>2 DEF Others
    <3>1. owner["c"] = u
      BY DEF CondvarInv, PlaceInv, Place, CSteps
    <3>2. waiters' = waiters /\ (t \in done => t \in done' \/ t \notin Range(waiters))
      BY <2>2, <3>1 DEF Lists
    <3>3. waiters # << >> /\ (pc[u] = "unlink" => Head(waiters) \in done)
      BY DEF CondvarInv, ListInv
    <3>4. Head(waiters) \in Range(waiters) /\ Head(waiters) \in Thread
      BY <3>3, RangeOfTail, SMT DEF CondvarInv, TypeOK
    <3>5. QED BY <3>2, <3>3, <3>4 DEF Others
  <2>3. QED BY <2>1, <2>2
<1>5. ListInv'
  BY <1>3, <1>4 DEF ListInv, Lists
<1>6. WaitersListed'
  <2> SUFFICES ASSUME NEW u \in Thread, pc'[u] \in {"release", "test", "sleep"}, u \notin done'
               PROVE  u \in Range(waiters')
    BY DEF WaitersListed
  <2>1. CASE u = t
    BY <2>1 DEF Lists
  <2>2. CASE u # t
    <3>1. u \in Range(waiters)
      BY <2>2 DEF Others, CondvarInv, WaitersListed
    <3>2. QED BY <2>2, <3>1 DEF Lists
  <2>3. QED BY <2>1, <2>2
<1>7. QED BY <1>2, <1>5, <1>6 DEF CondvarInv

\* A step that leaves the mutexes alone, of a thread that waits for none.
LEMMA SameMutexes ==
  ASSUME TypeOK, QueueInv, GrantInv, NEW t \in Thread, UNCHANGED <<mutexes, then>>,
         \/ /\ pc[t] # "lock" /\ \E p \in PC \ {"lock"} : pc' = [pc EXCEPT ![t] = p]
            /\ token \ {t} \subseteq token'
         \/ pc' = pc /\ token \subseteq token'
  PROVE  QueueInv' /\ GrantInv'
<1>1. owner' = owner /\ lockq' = lockq /\ then' = then
  BY DEF mutexes
<1>2. \A u \in Thread : (pc'[u] = "lock") = (pc[u] = "lock")
  BY DEF TypeOK
<1>3. \A u \in Thread : pc[u] = "lock" /\ u \in token => u \in token'
  OBVIOUS
<1>4. QueueInv'
  <2>1. \A m \in Mutex : \A u \in Range(lockq[m]) : u \in Thread
    BY SMT DEF TypeOK, Range
  <2>2. QED BY <1>1, <1>2, <2>1 DEF QueueInv
<1>5. GrantInv'
  BY <1>1, <1>2, <1>3 DEF GrantInv
<1>6. QED BY <1>4, <1>5

-----------------------------------------------------------------------------
\* The steps of a thread that takes a lock.
LEMMA LockSteps ==
  ASSUME CondvarInv, NEW t \in Thread
  PROVE  /\ \A k \in Waits, time \in {"none", "before", "after"} : WaitCall(t, k, time) => CondvarInv'
         /\ \A k \in Signals : SignalCall(t, k) => CondvarInv'
         /\ LockMutex(t) => CondvarInv'
         /\ Test(t) => CondvarInv'
         /\ Return(t) => CondvarInv'
<1>1. TypeOK /\ QueueInv /\ GrantInv /\ PlaceInv /\ ListInv /\ WaitersListed /\ Place(t)
  BY DEF CondvarInv, PlaceInv
<1>2. NoThread \notin Thread /\ "m" \in Mutex /\ "c" \in Mutex /\ "m" # "c"
  BY CondvarAssumption DEF Mutex
<1>3. /\ pc[t] # "lock" /\ pc[t] \notin CSteps => owner["c"] # t
      /\ pc[t] # "lock" => At(t) = pc[t]
      /\ t \in Range(waiters) => At(t) \in {"release", "test", "sleep", "clean"}
  BY <1>1 DEF Place, At, ListInv
<1>4. /\ IsInjective(waiters) /\ waiters \in Seq(Thread)
      /\ pc[t] \in {"release", "test", "sleep"} /\ t \notin done => t \in Range(waiters)
  BY <1>1 DEF TypeOK, ListInv, WaitersListed
<1>5. ASSUME NEW k \in Waits, NEW time \in {"none", "before", "after"}, WaitCall(t, k, time)
      PROVE  CondvarInv'
  <2>1. /\ pc[t] = "run" /\ owner["m"] = t /\ Lock(t, "c", "enqueue")
        /\ call' = [call EXCEPT ![t] = k] /\ clock' = [clock EXCEPT ![t] = time]
        /\ waiters' = waiters /\ done' = done /\ token' = token /\ timer' = timer
    BY <1>5 DEF WaitCall
  <2>2. "enqueue" \in PC \ {"lock"} /\ pc[t] # "lock" /\ owner["c"] # t
    BY <1>3, <2>1 DEF PC, CSteps
  <2>3. LockEffect(t, "c", "enqueue")
    BY <1>1, <1>2, <2>1, <2>2, LockStep
  <2>4. TypeOK' /\ call'[t] = k /\ \A u \in Thread \ {t} : call'[u] = call[u]
    BY <1>1, <2>1, <2>3 DEF TypeOK, LockEffect
  <2>5. At(t)' = "enqueue" /\ owner'["m"] = t
    BY <1>2, <2>1, <2>3, SMT DEF At, LockEffect
  <2>6. Place(t)'
    BY <1>2, <2>2, <2>3, <2>4, <2>5, SMT DEF Place, CSteps, LockEffect
  <2>7. Others(t)
    BY <1>2, <2>1, <2>3, <2>4, SMT DEF Others, Mutex, LockEffect
  <2>8. Lists(t)
    BY <1>3, <1>4, <2>1, <2>3, <2>5 DEF Lists, LockEffect
  <2>9. QED BY <2>3, <2>4, <2>6, <2>7, <2>8, StepOf DEF LockEffect
<1>6. ASSUME NEW k \in Signals, SignalCall(t, k)
      PROVE  CondvarInv'
  <2>1. /\ pc[t] = "run" /\ Lock(t, "c", "scan")
        /\ call' = [call EXCEPT ![t] = k]
        /\ waiters' = waiters /\ done' = done /\ token' = token /\ timer' = timer /\ clock' = clock
    BY <1>6 DEF SignalCall, timing
  <2>2. "scan" \in PC \ {"lock"} /\ pc[t] # "lock" /\ owner["c"] # t
    BY <1>3, <2>1 DEF PC, CSteps
  <2>3. LockEffect(t, "c", "scan")
    BY <1>1, <1>2, <2>1, <2>2, LockStep
  <2>4. TypeOK' /\ \A u \in Thread \ {t} : call'[u] = call[u]
    BY <1>1, <2>1, <2>3 DEF TypeOK, LockEffect
  <2>5. At(t)' = "scan"
    BY <2>3, SMT DEF At, LockEffect
  <2>6. Place(t)'
    BY <1>2, <2>2, <2>3, <2>5, SMT DEF Place, CSteps, LockEffect
  <2>7. Others(t)
    BY <1>2, <2>1, <2>3, <2>4 DEF Others, Mutex, LockEffect
  <2>8. Lists(t)
    BY <1>3, <1>4, <2>1, <2>3, <2>5 DEF Lists, LockEffect
  <2>9. QED BY <2>3, <2>4, <2>6, <2>7, <2>8, StepOf DEF LockEffect
<1>7. ASSUME LockMutex(t)
      PROVE  CondvarInv'
  <2>1. /\ pc[t] = "run" /\ owner["m"] # t /\ Lock(t, "m", "run") /\ call' = call
        /\ waiters' = waiters /\ done' = done /\ token' = token /\ timer' = timer /\ clock' = clock
    BY <1>7 DEF LockMutex, timing
  <2>2. "run" \in PC \ {"lock"} /\ pc[t] # "lock" /\ owner["c"] # t
    BY <1>3, <2>1 DEF PC, CSteps
  <2>3. LockEffect(t, "m", "run")
    BY <1>1, <1>2, <2>1, <2>2, LockStep
  <2>4. TypeOK'
    BY <1>1, <2>1, <2>3 DEF TypeOK, LockEffect
  <2>5. At(t)' = "run" /\ owner'["c"] = owner["c"]
    BY <1>2, <2>3, SMT DEF At, LockEffect
  <2>6. Place(t)'
    BY <1>2, <2>2, <2>3, <2>5, SMT DEF Place, CSteps, LockEffect
  <2>7. Others(t)
    BY <1>2, <2>1, <2>3 DEF Others, Mutex, LockEffect
  <2>8. Lists(t)
    BY <1>3, <1>4, <2>1, <2>3, <2>5 DEF Lists, LockEffect
  <2>9. QED BY <2>3, <2>4, <2>6, <2>7, <2>8, StepOf DEF LockEffect
<1>8. ASSUME Test(t)
      PROVE  CondvarInv'
  <2>1. /\ pc[t] = "test" /\ call' = call /\ clock' = clock
        /\ waiters' = waiters /\ done' = done /\ token' = token
    BY <1>8 DEF Test, LeaveLoop, timing
  <2>2. CASE LeaveLoop(t)
    <3>1. Lock(t, "c", "clean") /\ timer' = timer \ {t}
      BY <2>2 DEF LeaveLoop
    <3>2. "clean" \in PC \ {"lock"} /\ pc[t] # "lock" /\ owner["c"] # t
      BY <1>3, <2>1 DEF PC, CSteps
    <3>3. LockEffect(t, "c", "clean")
      BY <1>1, <1>2, <2>1, <3>1, <3>2, LockStep
    <3>4. TypeOK'
      BY <1>1, <2>1, <3>1, <3>3 DEF TypeOK, LockEffect
    <3>5. At(t)' = "clean" /\ owner'["m"] = owner["m"] /\ owner["m"] # t /\ call[t] \in Waits
      BY <1>1, <1>2, <1>3, <2>1, <3>3, SMT DEF At, Place, LockEffect
    <3>6. Place(t)'
      BY <1>2, <2>1, <3>2, <3>3, <3>5, SMT DEF Place, CSteps, LockEffect
    <3>7. Others(t)
      BY <1>2, <2>1, <3>3 DEF Others, Mutex, LockEffect
    <3>8. Lists(t)
      BY <1>3, <1>4, <2>1, <3>3, <3>5 DEF Lists, LockEffect
    <3>9. QED BY <3>3, <3>4, <3>6, <3>7, <3>8, StepOf DEF LockEffect
  <2>3. CASE ~LeaveLoop(t)
    <3>1. /\ pc' = [pc EXCEPT ![t] = "sleep"] /\ owner' = owner /\ lockq' = lockq
          /\ then' = then /\ timer' = timer
      BY <1>8, <2>3 DEF Test, Goto, mutexes, timing
    <3>2. "sleep" \in PC \ {"lock"}
      BY DEF PC
    <3>3. QueueInv' /\ GrantInv'
      BY <1>1, <2>1, <3>1, <3>2, SameMutexes DEF mutexes
    <3>4. TypeOK' /\ pc'[t] = "sleep" /\ \A u \in Thread \ {t} : pc'[u] = pc[u]
      BY <1>1, <2>1, <3>1, <3>2 DEF TypeOK
    <3>5. At(t)' = "sleep"
      BY <3>4 DEF At
    <3>6. Place(t)'
      BY <1>1, <1>3, <2>1, <3>1, <3>4, <3>5 DEF Place, CSteps
    <3>7. Others(t)
      BY <2>1, <3>1, <3>4 DEF Others
    <3>8. Lists(t)
      BY <1>4, <2>1, <3>4, <3>5 DEF Lists
    <3>9. QED BY <3>3, <3>4, <3>6, <3>7, <3>8, StepOf
  <2>4. QED BY <2>2, <2>3
<1>9. ASSUME Return(t)
      PROVE  CondvarInv'
  <2>1. /\ pc[t] = "return" /\ call' = [call EXCEPT ![t] = "none"]
        /\ clock' = [clock EXCEPT ![t] = "none"]
        /\ done' = done \ {t} /\ token' = token \ {t} /\ waiters' = waiters /\ timer' = timer
    BY <1>9 DEF Return
  <2>2. "run" \in PC \ {"lock"} /\ pc[t] # "lock" /\ owner["c"] # t /\ owner["m"] # t
    BY <1>1, <1>3, <2>1 DEF PC, CSteps, Place
  <2>3. /\ QueueInv' /\ GrantInv'
        /\ owner' \in [Mutex -> Thread \cup {NoThread}] /\ lockq' \in [Mutex -> Seq(Thread)]
        /\ pc' \in [Thread -> PC] /\ then' \in [Thread -> [mutex : Mutex, pc : PC \ {"lock"}]]
        /\ token' \subseteq Thread
        /\ \A u \in Thread \ {t} : pc'[u] = pc[u] /\ then'[u] = then[u]
        /\ owner'["c"] = owner["c"]
        /\ \/ owner'["m"] = owner["m"] /\ pc'[t] = "run"
           \/ owner["m"] = NoThread /\ owner'["m"] = t /\ pc'[t] = "run"
           \/ owner'["m"] = owner["m"] /\ pc'[t] = "lock"
              /\ then'[t] = [mutex |-> "m", pc |-> "run"]
    <3>1. CASE Lock(t, "m", "run")
      <4>1. LockEffect(t, "m", "run")
        BY <1>1, <1>2, <2>1, <2>2, <3>1, LockStep
      <4>2. QED BY <1>2, <4>1 DEF LockEffect
    <3>2. CASE Goto(t, "run") /\ UNCHANGED <<mutexes, then>>
      <4>1. pc' = [pc EXCEPT ![t] = "run"] /\ owner' = owner /\ lockq' = lockq /\ then' = then
        BY <3>2 DEF Goto, mutexes
      <4>2. QueueInv' /\ GrantInv'
        BY <1>1, <2>1, <2>2, <3>2, <4>1, SameMutexes
      <4>3. QED BY <1>1, <2>1, <2>2, <4>1, <4>2 DEF TypeOK
    <3>3. QED BY <1>9, <3>1, <3>2 DEF Return
  <2>4. TypeOK' /\ \A u \in Thread \ {t} : call'[u] = call[u]
    BY <1>1, <2>1, <2>3 DEF TypeOK
  <2>5. At(t)' = "run"
    BY <2>3, SMT DEF At
  <2>6. Place(t)'
    BY <1>2, <2>2, <2>3, <2>5, SMT DEF Place, CSteps
  <2>7. Others(t)
    BY <1>2, <2>1, <2>3, <2>4, SMT DEF Others, Mutex
  <2>8. Lists(t)
    BY <1>3, <1>4, <2>1, <2>2, <2>3, <2>5 DEF Lists
  <2>9. QED BY <2>3, <2>4, <2>6, <2>7, <2>8, StepOf
<1>10. QED BY <1>5, <1>6, <1>7, <1>8, <1>9

\* The steps of a thread that gives up a lock.
LEMMA UnlockSteps ==
  ASSUME CondvarInv, NEW t \in Thread
  PROVE  /\ Enqueue(t) => CondvarInv'
         /\ Release(t) => CondvarInv'
         /\ Clean(t) => CondvarInv'
         /\ UnlockMutex(t) => CondvarInv'
         /\ pc[t] \in {"scan", "mark", "unlink"} /\ EndSignal(t) /\ UNCHANGED <<waiters, done>>
              => CondvarInv' 
         /\ pc[t] = "unlink" /\ EndSignal(t) /\ waiters' = Tail(waiters) /\ UNCHANGED done
              => CondvarInv' 
<1>1. TypeOK /\ QueueInv /\ GrantInv /\ PlaceInv /\ ListInv /\ WaitersListed /\ Place(t)
  BY DEF CondvarInv, PlaceInv
<1>2. NoThread \notin Thread /\ "m" \in Mutex /\ "c" \in Mutex /\ "m" # "c"
  BY CondvarAssumption DEF Mutex
<1>3. /\ pc[t] \in CSteps => owner["c"] = t
      /\ pc[t] # "lock" /\ pc[t] \notin CSteps => owner["c"] # t
      /\ pc[t] # "lock" => At(t) = pc[t]
      /\ t \in Range(waiters) => At(t) \in {"release", "test", "sleep", "clean"}
  BY <1>1 DEF Place, At, ListInv
<1>4. /\ IsInjective(waiters) /\ waiters \in Seq(Thread)
      /\ pc[t] \in {"release", "test", "sleep"} /\ t \notin done => t \in Range(waiters)
  BY <1>1 DEF TypeOK, ListInv, WaitersListed
<1>5. ASSUME Enqueue(t) PROVE CondvarInv'
  <2>1. /\ pc[t] = "enqueue" /\ waiters' = Append(waiters, t) /\ Unlock("c")
        /\ pc' = [pc EXCEPT ![t] = "release"] /\ then' = then
        /\ call' = call /\ done' = done /\ clock' = clock /\ timer' = timer
    BY <1>5 DEF Enqueue, Goto, timing
  <2>2. "release" \in PC \ {"lock"} /\ pc[t] # "lock" /\ owner["c"] = t
    BY <1>3, <2>1 DEF PC, CSteps
  <2>3. UnlockEffect(t, "c", "release")
    BY <1>1, <1>2, <2>1, <2>2, UnlockStep
  <2>4. /\ waiters' \in Seq(Thread) /\ Range(waiters') = Range(waiters) \cup {t}
        /\ IsInjective(waiters')
    BY <1>3, <1>4, <2>1, RangeOfAppend, SMT
  <2>5. TypeOK'
    BY <1>1, <2>1, <2>3, <2>4 DEF TypeOK, UnlockEffect
  <2>6. At(t)' = "release" /\ owner'["m"] = t /\ owner'["c"] # t /\ call[t] \in Waits
    BY <1>1, <1>2, <1>3, <2>1, <2>2, <2>3 DEF At, Place, UnlockEffect
  <2>7. Place(t)'
    BY <2>1, <2>3, <2>6 DEF Place, CSteps, UnlockEffect
  <2>8. Others(t)
    BY <1>2, <2>1, <2>2, <2>3, SMT DEF Others, Mutex, UnlockEffect
  <2>9. Lists(t)
    BY <2>1, <2>2, <2>3, <2>4, <2>6 DEF Lists, UnlockEffect
  <2>10. QED BY <2>3, <2>5, <2>7, <2>8, <2>9, StepOf DEF UnlockEffect
<1>6. ASSUME Release(t) PROVE CondvarInv'
  <2>1. /\ pc[t] = "release" /\ Unlock("m") /\ pc' = [pc EXCEPT ![t] = "test"] /\ then' = then
        /\ waiters' = waiters /\ call' = call /\ done' = done /\ clock' = clock
        /\ timer' \subseteq timer \cup {t}
    BY <1>6 DEF Release, Goto
  <2>2. "test" \in PC \ {"lock"} /\ pc[t] # "lock" /\ owner["m"] = t /\ owner["c"] # t
    BY <1>1, <1>3, <2>1 DEF PC, CSteps, Place
  <2>3. UnlockEffect(t, "m", "test")
    BY <1>1, <1>2, <2>1, <2>2, UnlockStep
  <2>4. TypeOK'
    BY <1>1, <2>1, <2>3 DEF TypeOK, UnlockEffect
  <2>5. At(t)' = "test" /\ owner'["m"] # t /\ owner'["c"] # t /\ call[t] \in Waits
    BY <1>1, <1>2, <1>3, <2>1, <2>2, <2>3 DEF At, Place, UnlockEffect
  <2>6. Place(t)'
    BY <2>1, <2>3, <2>5 DEF Place, CSteps, UnlockEffect
  <2>7. Others(t)
    BY <1>2, <2>1, <2>2, <2>3, SMT DEF Others, Mutex, UnlockEffect
  <2>8. Lists(t)
    BY <1>4, <2>1, <2>3, <2>5 DEF Lists, UnlockEffect
  <2>9. QED BY <2>3, <2>4, <2>6, <2>7, <2>8, StepOf DEF UnlockEffect
<1>7. ASSUME Clean(t) PROVE CondvarInv'
  <2>1. /\ pc[t] = "clean" /\ waiters' = RemoveFirst(waiters, t) /\ Unlock("c")
        /\ pc' = [pc EXCEPT ![t] = "return"] /\ then' = then
        /\ call' = call /\ done' = done /\ clock' = clock /\ timer' = timer
    BY <1>7 DEF Clean, Goto, timing
  <2>2. "return" \in PC \ {"lock"} /\ pc[t] # "lock" /\ owner["c"] = t
    BY <1>3, <2>1 DEF PC, CSteps
  <2>3. UnlockEffect(t, "c", "return")
    BY <1>1, <1>2, <2>1, <2>2, UnlockStep
  <2>4. /\ waiters' \in Seq(Thread) /\ Range(waiters') \subseteq Range(waiters)
        /\ \A x \in Range(waiters) : x # t => x \in Range(waiters')
        /\ IsInjective(waiters') /\ t \notin Range(waiters')
    BY <1>4, <2>1, RangeOfRemove
  <2>5. TypeOK'
    BY <1>1, <2>1, <2>3, <2>4 DEF TypeOK, UnlockEffect
  <2>6. At(t)' = "return" /\ owner'["m"] # t /\ owner'["c"] # t /\ call[t] \in Waits
    BY <1>1, <1>2, <1>3, <2>1, <2>2, <2>3 DEF At, Place, UnlockEffect
  <2>7. Place(t)'
    BY <2>1, <2>3, <2>6 DEF Place, CSteps, UnlockEffect
  <2>8. Others(t)
    BY <1>2, <2>1, <2>2, <2>3, SMT DEF Others, Mutex, UnlockEffect
  <2>9. Lists(t)
    BY <2>2, <2>3, <2>4 DEF Lists, UnlockEffect
  <2>10. QED BY <2>3, <2>5, <2>7, <2>8, <2>9, StepOf DEF UnlockEffect
<1>8. ASSUME UnlockMutex(t) PROVE CondvarInv'
  <2>1. /\ pc[t] = "run" /\ owner["m"] = t /\ Unlock("m") /\ pc' = pc /\ then' = then
        /\ waiters' = waiters /\ call' = call /\ done' = done /\ clock' = clock /\ timer' = timer
    BY <1>8 DEF UnlockMutex, timing
  <2>2. /\ "run" \in PC \ {"lock"} /\ pc[t] # "lock" /\ owner["c"] # t
        /\ pc' = [pc EXCEPT ![t] = "run"]
    BY <1>1, <1>3, <2>1 DEF PC, CSteps, TypeOK
  <2>3. UnlockEffect(t, "m", "run")
    BY <1>1, <1>2, <2>1, <2>2, UnlockStep
  <2>4. TypeOK'
    BY <1>1, <2>1, <2>3 DEF TypeOK, UnlockEffect
  <2>5. At(t)' = "run" /\ owner'["c"] # t
    BY <1>2, <2>2, <2>3 DEF At, UnlockEffect
  <2>6. Place(t)'
    BY <2>3, <2>5 DEF Place, CSteps, UnlockEffect
  <2>7. Others(t)
    BY <1>2, <2>1, <2>2, <2>3, SMT DEF Others, Mutex, UnlockEffect
  <2>8. Lists(t)
    BY <1>3, <1>4, <2>1, <2>3, <2>5 DEF Lists, UnlockEffect
  <2>9. QED BY <2>3, <2>4, <2>6, <2>7, <2>8, StepOf DEF UnlockEffect
<1>9. ASSUME pc[t] \in CSteps, EndSignal(t), done' = done,
             waiters' = waiters \/ (pc[t] = "unlink" /\ waiters' = Tail(waiters)),
             pc[t] \notin {"enqueue", "clean"}
      PROVE  CondvarInv'
  <2>1. /\ Unlock("c") /\ pc' = [pc EXCEPT ![t] = "run"] /\ then' = then
        /\ call' = [call EXCEPT ![t] = "none"] /\ clock' = clock /\ timer' = timer
    BY <1>9 DEF EndSignal, Goto, timing
  <2>2. "run" \in PC \ {"lock"} /\ pc[t] # "lock" /\ owner["c"] = t
    BY <1>3, <1>9 DEF PC, CSteps
  <2>3. UnlockEffect(t, "c", "run")
    BY <1>1, <1>2, <2>1, <2>2, UnlockStep
  <2>4. /\ waiters' \in Seq(Thread) /\ IsInjective(waiters')
        /\ Range(waiters') \subseteq Range(waiters)
        /\ \A u \in Range(waiters) : u \in Range(waiters') \/ u \in done
    <3>1. CASE waiters' = waiters
      BY <1>4, <3>1
    <3>2. CASE pc[t] = "unlink" /\ waiters' = Tail(waiters)
      <4>1. waiters # << >> /\ Head(waiters) \in done
        BY <1>1, <3>2 DEF ListInv
      <4>2. /\ Range(waiters) = Range(Tail(waiters)) \cup {Head(waiters)}
            /\ IsInjective(Tail(waiters)) /\ Tail(waiters) \in Seq(Thread)
        BY <1>4, <4>1, RangeOfTail, SMT
      <4>3. QED BY <3>2, <4>1, <4>2
    <3>3. QED BY <1>9, <3>1, <3>2
  <2>5. TypeOK' /\ \A u \in Thread \ {t} : call'[u] = call[u]
    BY <1>1, <1>9, <2>1, <2>3, <2>4 DEF TypeOK, UnlockEffect
  <2>6. At(t)' = "run" /\ owner'["c"] # t
    BY <1>2, <2>3 DEF At, UnlockEffect
  <2>7. Place(t)'
    BY <2>3, <2>6 DEF Place, CSteps, UnlockEffect
  <2>8. Others(t)
    BY <1>2, <1>9, <2>1, <2>2, <2>3, <2>5, SMT DEF Others, Mutex, UnlockEffect
  <2>9. Lists(t)
    BY <1>3, <1>9, <2>2, <2>3, <2>4, <2>6 DEF Lists, UnlockEffect, CSteps
  <2>10. QED BY <2>3, <2>5, <2>7, <2>8, <2>9, StepOf DEF UnlockEffect
<1>10. QED BY <1>5, <1>6, <1>7, <1>8, <1>9 DEF CSteps

\* A round of the wait for a mutex ends it if the thread owns the mutex.
LEMMA LockedStep ==
  ASSUME CondvarInv, NEW t \in Thread, Locked(t)
  PROVE  CondvarInv'
<1>1. TypeOK /\ QueueInv /\ GrantInv /\ PlaceInv /\ ListInv /\ WaitersListed /\ Place(t)
  BY DEF CondvarInv, PlaceInv
<1>2. /\ pc[t] = "lock" /\ t \in token /\ token' = token \ {t}
      /\ owner' = owner /\ lockq' = lockq /\ call' = call /\ waiters' = waiters /\ done' = done
      /\ clock' = clock /\ timer' = timer
  BY DEF Locked, mutexes, timing
<1> DEFINE n == then[t].mutex
<1>3. n \in Mutex /\ then[t].pc \in PC \ {"lock"} /\ Nowhere \in [mutex : Mutex, pc : PC \ {"lock"}]
  BY <1>1 DEF TypeOK, Nowhere, Mutex, PC
<1>4. CASE owner[n] = t
  <2>1. pc' = [pc EXCEPT ![t] = then[t].pc] /\ then' = [then EXCEPT ![t] = Nowhere]
    BY <1>4 DEF Locked, Goto
  <2>2. /\ TypeOK' /\ pc'[t] = then[t].pc
        /\ \A u \in Thread \ {t} : pc'[u] = pc[u] /\ then'[u] = then[u]
    BY <1>1, <1>2, <1>3, <2>1 DEF TypeOK
  <2>3. \A m \in Mutex : t \notin Range(lockq[m])
    BY <1>1, <1>4 DEF QueueInv
  <2>4. QueueInv'
    <3>1. ASSUME NEW m \in Mutex, NEW u \in Range(lockq[m])
          PROVE  pc'[u] = "lock" /\ then'[u].mutex = m
      <4>1. u \in Thread \ {t}
        BY <1>1, <2>3, SMT DEF TypeOK, Range
      <4>2. QED BY <1>1, <2>2, <4>1 DEF QueueInv
    <3>2. QED BY <1>1, <1>2, <3>1 DEF QueueInv
  <2>5. GrantInv'
    <3>1. ASSUME NEW u \in Thread, pc'[u] = "lock"
          PROVE  IF owner'[then'[u].mutex] = u THEN u \in token'
                 ELSE u \in Range(lockq'[then'[u].mutex])
      <4>1. u # t
        BY <1>3, <2>2, <3>1
      <4>2. QED BY <1>1, <1>2, <2>2, <3>1, <4>1 DEF GrantInv
    <3>2. QED BY <3>1 DEF GrantInv
  <2>6. At(t) = pc'[t] /\ At(t)' = pc'[t] /\ pc'[t] # "lock"
    BY <1>2, <1>3, <2>2 DEF At
  <2>7. Place(t)'
    BY <1>1, <1>2, <1>3, <1>4, <2>2, <2>6 DEF Place, CSteps, Mutex
  <2>8. Others(t)
    BY <1>2, <2>2 DEF Others
  <2>9. then[t].pc \notin {"release", "test", "sleep", "mark", "unlink"}
        /\ (t \in Range(waiters) => At(t) \in {"release", "test", "sleep", "clean"})
    BY <1>1, <1>2 DEF ListInv, Place
  <2>10. Lists(t)
    BY <1>1, <1>2, <2>2, <2>6, <2>9 DEF Lists, ListInv
  <2>11. QED BY <2>2, <2>4, <2>5, <2>7, <2>8, <2>10, StepOf
<1>5. CASE owner[n] # t
  <2>1. pc' = pc /\ then' = then
    BY <1>5 DEF Locked
  <2>2. TypeOK'
    BY <1>1, <1>2, <2>1 DEF TypeOK
  <2>3. QueueInv'
    BY <1>1, <1>2, <2>1 DEF QueueInv
  <2>4. GrantInv'
    BY <1>1, <1>2, <1>5, <2>1 DEF GrantInv
  <2>5. PlaceInv' /\ ListInv' /\ WaitersListed'
    BY <1>1, <1>2, <2>1 DEF PlaceInv, Place, At, ListInv, WaitersListed
  <2>6. QED BY <2>2, <2>3, <2>4, <2>5 DEF CondvarInv
<1>6. QED BY <1>4, <1>5

\* The steps that touch no mutex.
LEMMA PlainSteps ==
  ASSUME CondvarInv, NEW t \in Thread
  PROVE  /\ Sleep(t) => CondvarInv'
         /\ Scan(t) => CondvarInv'
         /\ Mark(t) => CondvarInv'
         /\ Unlink(t) => CondvarInv'
         /\ Stray(t) \/ Tick(t) \/ Alarm(t) => CondvarInv'
<1>1. TypeOK /\ QueueInv /\ GrantInv /\ PlaceInv /\ ListInv /\ WaitersListed /\ Place(t)
  BY DEF CondvarInv, PlaceInv
<1>2. /\ pc[t] # "lock" => At(t) = pc[t]
      /\ t \in Range(waiters) => At(t) \in {"release", "test", "sleep", "clean"}
      /\ IsInjective(waiters) /\ waiters \in Seq(Thread)
      /\ pc[t] \in {"release", "test", "sleep"} /\ t \notin done => t \in Range(waiters)
  BY <1>1 DEF At, TypeOK, ListInv, WaitersListed
<1>3. waiters # << >> =>
        /\ Range(waiters) = Range(Tail(waiters)) \cup {Head(waiters)}
        /\ IsInjective(Tail(waiters)) /\ Tail(waiters) \in Seq(Thread) /\ Head(waiters) \in Thread
  BY <1>2, RangeOfTail, SMT
<1>4. ASSUME Sleep(t) PROVE CondvarInv'
  <2>1. /\ pc[t] = "sleep" /\ token' = token \ {t} /\ pc' = [pc EXCEPT ![t] = "test"]
        /\ owner' = owner /\ lockq' = lockq /\ then' = then /\ call' = call
        /\ waiters' = waiters /\ done' = done /\ clock' = clock /\ timer' = timer
    BY <1>4 DEF Sleep, Goto, mutexes, timing
  <2>2. "test" \in PC \ {"lock"}
    BY DEF PC
  <2>3. QueueInv' /\ GrantInv'
    BY <1>1, <2>1, <2>2, SameMutexes DEF mutexes
  <2>4. TypeOK' /\ pc'[t] = "test" /\ \A u \in Thread \ {t} : pc'[u] = pc[u]
    BY <1>1, <2>1, <2>2 DEF TypeOK
  <2>5. At(t)' = "test"
    BY <2>4 DEF At
  <2>6. Place(t)'
    BY <1>1, <1>2, <2>1, <2>4, <2>5 DEF Place, CSteps
  <2>7. Others(t)
    BY <2>1, <2>4 DEF Others
  <2>8. Lists(t)
    BY <1>2, <2>1, <2>4, <2>5 DEF Lists
  <2>9. QED BY <2>3, <2>4, <2>6, <2>7, <2>8, StepOf
<1>5. ASSUME Scan(t) PROVE CondvarInv'
  <2>1. CASE waiters = << >>
    BY <1>5, <2>1, UnlockSteps DEF Scan
  <2>2. CASE waiters # << >> /\ Head(waiters) \in done
    <3>1. /\ pc[t] = "scan" /\ waiters' = Tail(waiters) /\ pc' = pc /\ token' = token
          /\ owner' = owner /\ lockq' = lockq /\ then' = then /\ call' = call
          /\ done' = done /\ clock' = clock /\ timer' = timer
      BY <1>5, <2>2 DEF Scan, mutexes, timing
    <3>2. QueueInv' /\ GrantInv'
      BY <1>1, <3>1, SameMutexes DEF mutexes
    <3>3. TypeOK'
      BY <1>1, <1>3, <2>2, <3>1 DEF TypeOK
    <3>4. Place(t)' /\ Others(t) /\ owner["c"] = t
      BY <1>1, <3>1 DEF Place, At, CSteps, Others
    <3>5. Lists(t)
      BY <1>2, <1>3, <2>2, <3>1, <3>4 DEF Lists
    <3>6. QED BY <3>2, <3>3, <3>4, <3>5, StepOf
  <2>3. CASE waiters # << >> /\ Head(waiters) \notin done
    <3>1. /\ pc[t] = "scan" /\ token' = token \cup Signalled(Head(waiters))
          /\ pc' = [pc EXCEPT ![t] = "mark"] /\ waiters' = waiters
          /\ owner' = owner /\ lockq' = lockq /\ then' = then /\ call' = call
          /\ done' = done /\ clock' = clock /\ timer' = timer
      BY <1>5, <2>3 DEF Scan, Goto, mutexes, timing
    <3>2. "mark" \in PC \ {"lock"} /\ token' \subseteq Thread
      BY <1>1, <1>3, <2>3, <3>1 DEF PC, TypeOK, Signalled
    <3>3. QueueInv' /\ GrantInv'
      BY <1>1, <3>1, <3>2, SameMutexes DEF mutexes
    <3>4. TypeOK' /\ pc'[t] = "mark" /\ \A u \in Thread \ {t} : pc'[u] = pc[u]
      BY <1>1, <3>1, <3>2 DEF TypeOK
    <3>5. At(t)' = "mark" /\ owner["c"] = t
      BY <1>1, <3>1, <3>4 DEF At, Place, CSteps
    <3>6. Place(t)'
      BY <3>1, <3>4, <3>5 DEF Place, CSteps
    <3>7. Others(t)
      BY <3>1, <3>4 DEF Others
    <3>8. Lists(t)
      BY <1>2, <2>3, <3>1, <3>4, <3>5 DEF Lists
    <3>9. QED BY <3>3, <3>4, <3>6, <3>7, <3>8, StepOf
  <2>4. QED BY <2>1, <2>2, <2>3
<1>6. ASSUME Mark(t) PROVE CondvarInv'
  <2>1. /\ pc[t] = "mark" /\ done' = done \cup {Head(waiters)}
        /\ pc' = [pc EXCEPT ![t] = "unlink"] /\ waiters' = waiters /\ token' = token
        /\ owner' = owner /\ lockq' = lockq /\ then' = then /\ call' = call
        /\ clock' = clock /\ timer' = timer
    BY <1>6 DEF Mark, Goto, mutexes, timing
  <2>2. "unlink" \in PC \ {"lock"} /\ waiters # << >>
    BY <1>1, <2>1 DEF PC, ListInv
  <2>3. QueueInv' /\ GrantInv'
    BY <1>1, <2>1, <2>2, SameMutexes DEF mutexes
  <2>4. TypeOK' /\ pc'[t] = "unlink" /\ \A u \in Thread \ {t} : pc'[u] = pc[u]
    BY <1>1, <1>3, <2>1, <2>2 DEF TypeOK
  <2>5. At(t)' = "unlink" /\ owner["c"] = t
    BY <1>1, <2>1, <2>4 DEF At, Place, CSteps
  <2>6. Place(t)'
    BY <2>1, <2>4, <2>5 DEF Place, CSteps
  <2>7. Others(t)
    BY <2>1, <2>4 DEF Others
  <2>8. Lists(t)
    BY <1>2, <2>1, <2>2, <2>4, <2>5 DEF Lists
  <2>9. QED BY <2>3, <2>4, <2>6, <2>7, <2>8, StepOf
<1>7. ASSUME Unlink(t) PROVE CondvarInv'
  <2>1. pc[t] = "unlink" /\ waiters' = Tail(waiters)
    BY <1>7 DEF Unlink
  <2>2. CASE call[t] = "signal"
    BY <1>7, <2>1, <2>2, UnlockSteps DEF Unlink
  <2>3. CASE call[t] # "signal"
    <3>1. /\ pc' = [pc EXCEPT ![t] = "scan"] /\ token' = token /\ done' = done
          /\ owner' = owner /\ lockq' = lockq /\ then' = then /\ call' = call
          /\ clock' = clock /\ timer' = timer
      BY <1>7, <2>3 DEF Unlink, Goto, mutexes, timing
    <3>2. "scan" \in PC \ {"lock"} /\ waiters # << >> /\ Head(waiters) \in done
      BY <1>1, <2>1 DEF PC, ListInv
    <3>3. QueueInv' /\ GrantInv'
      BY <1>1, <2>1, <3>1, <3>2, SameMutexes DEF mutexes
    <3>4. TypeOK' /\ pc'[t] = "scan" /\ \A u \in Thread \ {t} : pc'[u] = pc[u]
      BY <1>1, <1>3, <2>1, <3>1, <3>2 DEF TypeOK
    <3>5. At(t)' = "scan" /\ owner["c"] = t
      BY <1>1, <2>1, <3>4 DEF At, Place, CSteps
    <3>6. Place(t)'
      BY <3>1, <3>4, <3>5 DEF Place, CSteps
    <3>7. Others(t)
      BY <3>1, <3>4 DEF Others
    <3>8. Lists(t)
      BY <1>2, <1>3, <2>1, <3>1, <3>2, <3>4, <3>5 DEF Lists
    <3>9. QED BY <3>3, <3>4, <3>6, <3>7, <3>8, StepOf
  <2>4. QED BY <2>2, <2>3
<1>8. ASSUME Stray(t) \/ Tick(t) \/ Alarm(t) PROVE CondvarInv'
  <2>1. /\ pc' = pc /\ owner' = owner /\ lockq' = lockq /\ then' = then /\ call' = call
        /\ waiters' = waiters /\ done' = done
        /\ token \subseteq token' /\ token' \subseteq token \cup {t} /\ timer' \subseteq timer
    BY <1>8 DEF Stray, Tick, Alarm, Signalled, mutexes, timing
  <2>2. clock' \in [Thread -> {"none", "before", "at", "after"}]
    BY <1>1, <1>8 DEF Stray, Tick, Alarm, timing, TypeOK
  <2>3. QueueInv' /\ GrantInv'
    BY <1>1, <2>1, SameMutexes DEF mutexes
  <2>4. TypeOK'
    BY <1>1, <2>1, <2>2 DEF TypeOK
  <2>5. PlaceInv' /\ ListInv' /\ WaitersListed'
    BY <1>1, <2>1 DEF PlaceInv, Place, At, ListInv, WaitersListed
  <2>6. QED BY <2>3, <2>4, <2>5 DEF CondvarInv
<1>9. QED BY <1>4, <1>5, <1>6, <1>7, <1>8

-----------------------------------------------------------------------------
\* The invariant holds at the start, when no thread waits for anything.
LEMMA CondvarInit ==
  ASSUME Init
  PROVE  CondvarInv
<1>1. NoThread \notin Thread
  BY CondvarAssumption
<1>2. << >> \in Seq(Thread) /\ Range(<< >>) = {} /\ IsInjective(<< >>)
  BY SMT DEF Range, IsInjective
<1>3. TypeOK
  BY <1>2 DEF Init, TypeOK, Mutex, PC, Nowhere
<1>4. QueueInv /\ GrantInv
  BY <1>2 DEF Init, QueueInv, GrantInv, Mutex
<1>5. PlaceInv
  BY <1>1 DEF Init, PlaceInv, Place, At, CSteps, Mutex
<1>6. ListInv /\ WaitersListed
  BY <1>2 DEF Init, ListInv, WaitersListed
<1>7. QED BY <1>3, <1>4, <1>5, <1>6 DEF CondvarInv

\* Every step of condvar.scm, of the program and of the clock keeps it.
LEMMA CondvarNext ==
  ASSUME CondvarInv, [Next]_vars
  PROVE  CondvarInv'
<1>1. CASE UNCHANGED vars
  BY <1>1, SMT DEF vars, mutexes, timing, CondvarInv, TypeOK, QueueInv, GrantInv, PlaceInv,
              Place, At, ListInv, WaitersListed
<1>2. CASE Next
  <2>1. PICK t \in Thread : Work(t) \/ Program(t) \/ Environment(t)
    BY <1>2 DEF Next
  <2>2. CASE Work(t)
    BY <2>2, LockedStep, LockSteps, UnlockSteps, PlainSteps DEF Work
  <2>3. CASE Program(t)
    BY <2>3, LockSteps, UnlockSteps DEF Program
  <2>4. CASE Environment(t)
    BY <2>4, UnlockSteps, PlainSteps DEF Environment, Abort
  <2>5. QED BY <2>1, <2>2, <2>3, <2>4
<1>3. QED BY <1>1, <1>2

\* A thread that has given up its mutex to wait and is not marked done is on the
\* list, where the next signaller finds it; the list has each thread once and
\* none whose wait is over; and whoever works on the list has the lock.
THEOREM WaitersCorrect == Spec => [](ListExact /\ Exclusive)
<1>1. CondvarInv => ListExact /\ Exclusive
  <2> SUFFICES ASSUME CondvarInv PROVE ListExact /\ Exclusive
    OBVIOUS
  <2>1. WaitersListed
    BY DEF CondvarInv
  <2>2. ListedWaiting
    <3>1. \A t \in Range(waiters) : t \in Thread
      BY SMT DEF CondvarInv, TypeOK, Range
    <3>2. QED BY <3>1 DEF CondvarInv, ListInv, ListedWaiting, PlaceInv, Place, At
  <2>3. Exclusive
    BY DEF CondvarInv, Exclusive, PlaceInv, Place, CSteps, GrantInv
  <2>4. QED BY <2>1, <2>2, <2>3 DEF ListExact
<1>2. QED BY <1>1, CondvarInit, CondvarNext, PTL DEF Spec
=============================================================================
