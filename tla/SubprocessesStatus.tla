------------------------- MODULE SubprocessesStatus -------------------------
(***************************************************************************)
(* Proofs about what Scheme knows of its children (Subprocesses.tla), if   *)
(* no process number comes back while a slot has it: the table knows who   *)
(* is dead, signals reach nobody else, and Scheme does not sleep on news.  *)
(***************************************************************************)
EXTENDS SubprocessesProofs

\* Zenon finds most of the steps; those that need more are marked SMT.
USE Zenon

-----------------------------------------------------------------------------
(* Numbers and deaths                                                      *)

\* A number in use is that of one living child and of one slot.
PidInv ==
  /\ \A c, d \in Child : Living(c) /\ Living(d) /\ pid[c] = pid[d] => c = d
  /\ \A c \in Child, s \in Slot : Living(c) /\ id[s] = pid[c] => Owns(c, s)
  /\ \A s, r \in Slot : id[s] = id[r] /\ id[s] # None => s = r

\* What is known of a death.
DeathInv ==
  /\ \A c \in Child, s \in Slot : Owns(c, s) => (child[c] = "gone" <=> raw[s] \in Dead)
  /\ m.at = "kill" => raw[m.s] \in Alive

-----------------------------------------------------------------------------
(* Synchronisation, and the threads that wait                              *)

Syncing == m.op = "sync" /\ m.at \in {"block", "sync", "commit", "polled"}

\* The objects that are yet to be polled.
Due(c) ==
  \/ m.op = "sync-all" /\ m.at \in {"commit", "handle"}
  \/ m.at = "poll" /\ c \in m.todo
  \/ Syncing /\ m.then = "poll" /\ (c \in m.todo \/ (c = m.c /\ m.at \in {"block", "sync"}))

\* OS_process_status_sync_all finds a change, and nobody sleeps on one.
Ticked ==
  /\ m.op = "sync-all" => IF m.at \in {"block", "sync-all"} THEN unsynced ELSE m.changed
  /\ m.at = "ppoll" => ~unsynced

\* A slot and its object differ from what SIGCHLD reported only while a tick says so.
SyncInv ==
  /\ \A s \in Slot : id[s] # None /\ ~changed[s] => status[s] = raw[s]
  /\ \A s \in Slot : id[s] # None /\ changed[s] =>
       unsynced \/ \E c \in Child : index[c] = s /\ Due(c)
  /\ \A c \in Child : index[c] # None =>
       \/ known[c] = status[index[c]]
       \/ Syncing /\ m.at \in {"commit", "polled"} /\ c = m.c /\ m.changed
  /\ Ticked

\* A round of polls, the poll of a new object, and a process at rest.
Polling == m.at = "poll" \/ (Syncing /\ m.then = "poll")
First == Syncing /\ m.then \in {"run", "loop"}
Sleeping == m.at \in {"select", "ppoll"}

\* A waiting thread is registered, with the status its object has but for a poll under way.
WaitInv ==
  /\ \A r \in regs : waits[r.thread] = r.c
  /\ \A r, q \in regs : r.thread = q.thread => r = q
  /\ \A r \in regs : r.status = known[r.c] \/ Polling \/ (m.at = "delete" /\ r.c = m.c)
  /\ First => \A r \in regs : r.c # m.c
  /\ \A t \in Thread : waits[t] \in Child => known[waits[t]] # None
  /\ \A t \in Thread :
       waits[t] \in Child /\ index[waits[t]] # None /\ result[t] \in {None, "running"} =>
         \E r \in regs : r.thread = t /\ r.status = "running"
  /\ Sleeping => \A t \in Thread : result[t] = None

\* The inductive invariant, with TableInv
StatusInv == PidInv /\ DeathInv /\ SyncInv /\ WaitInv

-----------------------------------------------------------------------------
(* What the steps do to the table and the objects                          *)

\* What changes the process table and its ticks.
LEMMA TableSteady ==
  ASSUME TableInv, Next
  PROVE  \/ UNCHANGED <<table, unsynced>> \/ Sigchld \/ Record \/ Sync \/ SyncAll \/ Deallocate
         \/ Free
         \/ (\E u \in Thread \ Waiter, k \in Makes : Make(u, k))
         \/ \E g \in BOOLEAN : ContinueStopped(g)
<1> DEFINE Steady == \/ UNCHANGED <<table, unsynced>> \/ Sigchld \/ Record \/ Sync \/ SyncAll
                     \/ Deallocate \/ Free
                     \/ (\E u \in Thread \ Waiter, k \in Makes : Make(u, k))
                     \/ \E g \in BOOLEAN : ContinueStopped(g)
<1> HIDE DEF Steady
<1>1. ASSUME NEW c \in Child, Exit(c) PROVE Steady
  BY <1>1 DEF Exit, kernel, table, objects, subs, UCode, Quiet, Steady
<1>2. ASSUME NEW c \in Child, Stop(c) PROVE Steady
  BY <1>2 DEF Stop, kernel, table, objects, subs, UCode, Quiet, Steady
<1>3. ASSUME Interrupt PROVE Steady
  BY <1>3 DEF Interrupt, kernel, table, objects, subs, UCode, Quiet, Steady
<1>4. ASSUME StopSignal PROVE Steady
  BY <1>4 DEF StopSignal, kernel, table, objects, subs, UCode, Quiet, Steady
<1>5. ASSUME NEW t \in Waiter, NEW c \in Child, WaitFor(t, c) PROVE Steady
  BY <1>5 DEF WaitFor, kernel, table, objects, subs, UCode, Quiet, Steady
<1>6. ASSUME NEW t \in Thread \ Waiter, NEW kind \in Makes, Make(t, kind) PROVE Steady
  BY <1>6 DEF Steady
<1>7. ASSUME NEW t \in Thread \ Waiter, Read(t) PROVE Steady
  BY <1>7 DEF Read, kernel, table, objects, subs, UCode, Quiet, Steady
<1>8. ASSUME NEW t \in Thread \ Waiter, NEW c \in Child, Delete(t, c) PROVE Steady
  BY <1>8 DEF Delete, kernel, table, objects, subs, UCode, Quiet, Steady
<1>9. ASSUME NEW t \in Thread \ Waiter, NEW c \in Child, NEW op \in {"KILL", "TSTP",
             "continue"}, Signal(t, c, op)
      PROVE  Steady
  BY <1>9 DEF Signal, kernel, table, objects, subs, UCode, Quiet, Steady
<1>10. ASSUME NEW t \in Thread \ Waiter, NEW c \in Child, Foreground(t, c) PROVE Steady
  BY <1>10 DEF Foreground, kernel, table, objects, subs, UCode, Quiet, Steady
<1>11. ASSUME Block PROVE Steady
  BY <1>11 DEF Block, kernel, table, objects, subs, UCode, Quiet, Steady
<1>12. ASSUME NEW c \in Child, Fork(c) PROVE Steady
  BY <1>12 DEF Fork, kernel, table, objects, subs, UCode, Quiet, Steady
<1>13. ASSUME ForkFails PROVE Steady
  BY <1>13 DEF ForkFails, kernel, table, objects, subs, UCode, Quiet, Steady
<1>14. ASSUME Record PROVE Steady
  BY <1>14 DEF Steady
<1>15. ASSUME Wait PROVE Steady
  BY <1>15 DEF Wait, kernel, table, objects, subs, UCode, Quiet, Steady
<1>16. ASSUME Sync PROVE Steady
  BY <1>16 DEF Steady
<1>17. ASSUME SyncAll PROVE Steady
  BY <1>17 DEF Steady
<1>18. ASSUME Check PROVE Steady
  BY <1>18 DEF Check, kernel, table, objects, subs, UCode, Quiet, Steady
<1>19. ASSUME NEW o \in {"background", "given", "fails"}, Give(o) PROVE Steady
  BY <1>19 DEF Give, kernel, table, objects, subs, UCode, Quiet, Steady
<1>20. ASSUME NEW f \in BOOLEAN, ContinueStopped(f) PROVE Steady
  BY <1>20 DEF Steady
<1>21. ASSUME NEW f \in BOOLEAN, Send(f) PROVE Steady
  BY <1>21 DEF Send, kernel, table, objects, subs, UCode, Quiet, Steady
<1>22. ASSUME Unwind PROVE Steady
  BY <1>22 DEF Unwind, kernel, table, objects, subs, UCode, Quiet, Steady
<1>23. ASSUME Abort PROVE Steady
  BY <1>23 DEF Abort, kernel, table, objects, subs, UCode, Quiet, Steady
<1>24. ASSUME AbortKill PROVE Steady
  BY <1>24 DEF AbortKill, kernel, table, objects, subs, UCode, Quiet, Steady
<1>25. ASSUME Deallocate PROVE Steady
  BY <1>25 DEF Steady
<1>26. ASSUME Free PROVE Steady
  BY <1>26 DEF Steady
<1>27. ASSUME New PROVE Steady
  BY <1>27 DEF New, kernel, table, objects, subs, UCode, Quiet, Steady
<1>28. ASSUME Polled PROVE Steady
  BY <1>28 DEF Polled, kernel, table, objects, subs, UCode, Quiet, Steady
<1>29. ASSUME Loop PROVE Steady
  BY <1>29 DEF Loop, kernel, table, objects, subs, UCode, Quiet, Steady
<1>30. ASSUME Deleted PROVE Steady
  BY <1>30 DEF Deleted, kernel, table, objects, subs, UCode, Quiet, Steady
<1>31. ASSUME Handle PROVE Steady
  BY <1>31 DEF Handle, kernel, table, objects, subs, UCode, Quiet, Steady
<1>32. ASSUME NEW c \in Child, PollNext(c) PROVE Steady
  BY <1>32 DEF PollNext, kernel, table, objects, subs, UCode, Quiet, Steady
<1>33. ASSUME Notify PROVE Steady
  BY <1>33 DEF Notify, kernel, table, objects, subs, UCode, Quiet, Steady
<1>34. ASSUME Idle PROVE Steady
  BY <1>34 DEF Idle, kernel, table, objects, subs, UCode, Quiet, Steady
<1>35. ASSUME Select PROVE Steady
  BY <1>35 DEF Select, kernel, table, objects, subs, UCode, Quiet, Steady
<1>36. ASSUME Selected PROVE Steady
  BY <1>36 DEF Selected, kernel, table, objects, subs, UCode, Quiet, Steady
<1>37. ASSUME NEW t \in Thread, Waited(t) PROVE Steady
  BY <1>37 DEF Waited, kernel, table, objects, subs, UCode, Quiet, Steady
<1>38. ASSUME NEW t \in Thread, Again(t) PROVE Steady
  BY <1>38 DEF Again, kernel, table, objects, subs, UCode, Quiet, Steady
<1>39. ASSUME Timer PROVE Steady
  BY <1>39 DEF Timer, kernel, table, objects, subs, UCode, Quiet, Steady
<1>40. ASSUME Sigchld PROVE Steady
  BY <1>40 DEF Steady
<1>41. ASSUME IoReady PROVE Steady
  BY <1>41 DEF IoReady, kernel, table, objects, subs, UCode, Quiet, Steady
<1>42. QED
  BY <1>1, <1>2, <1>3, <1>4, <1>5, <1>6, <1>7, <1>8, <1>9, <1>10, <1>11, <1>12, <1>13, <1>14,
     <1>15, <1>16, <1>17, <1>18, <1>19, <1>20, <1>21, <1>22, <1>23, <1>24, <1>25, <1>26,
     <1>27, <1>28, <1>29, <1>30, <1>31, <1>32, <1>33, <1>34, <1>35, <1>36, <1>37, <1>38,
     <1>39, <1>40, <1>41, SubprocessAssumption
     DEF Next, System, Program, Machine, Steady

\* What changes the objects and the events of those who wait for them.
LEMMA ObjectsSteady ==
  ASSUME TableInv, Next
  PROVE  \/ UNCHANGED <<subs, regs, waits, result>> \/ New \/ Polled \/ Deleted \/ Notify
         \/ IoReady
         \/ (\E u \in Waiter, d \in Child : WaitFor(u, d))
         \/ (\E u \in Thread \ Waiter : Read(u))
         \/ \E u \in Thread : Waited(u)
<1> DEFINE Steady == \/ UNCHANGED <<subs, regs, waits, result>> \/ New \/ Polled \/ Deleted
                     \/ Notify \/ IoReady
                     \/ (\E u \in Waiter, d \in Child : WaitFor(u, d))
                     \/ (\E u \in Thread \ Waiter : Read(u))
                     \/ \E u \in Thread : Waited(u)
<1> HIDE DEF Steady
<1>1. ASSUME NEW c \in Child, Exit(c) PROVE Steady
  BY <1>1 DEF Exit, kernel, table, objects, subs, UCode, Quiet, Steady
<1>2. ASSUME NEW c \in Child, Stop(c) PROVE Steady
  BY <1>2 DEF Stop, kernel, table, objects, subs, UCode, Quiet, Steady
<1>3. ASSUME Interrupt PROVE Steady
  BY <1>3 DEF Interrupt, kernel, table, objects, subs, UCode, Quiet, Steady
<1>4. ASSUME StopSignal PROVE Steady
  BY <1>4 DEF StopSignal, kernel, table, objects, subs, UCode, Quiet, Steady
<1>5. ASSUME NEW t \in Waiter, NEW c \in Child, WaitFor(t, c) PROVE Steady
  BY <1>5 DEF Steady
<1>6. ASSUME NEW t \in Thread \ Waiter, NEW kind \in Makes, Make(t, kind) PROVE Steady
  BY <1>6 DEF Make, kernel, table, objects, subs, UCode, Quiet, Steady
<1>7. ASSUME NEW t \in Thread \ Waiter, Read(t) PROVE Steady
  BY <1>7 DEF Steady
<1>8. ASSUME NEW t \in Thread \ Waiter, NEW c \in Child, Delete(t, c) PROVE Steady
  BY <1>8 DEF Delete, kernel, table, objects, subs, UCode, Quiet, Steady
<1>9. ASSUME NEW t \in Thread \ Waiter, NEW c \in Child, NEW op \in {"KILL", "TSTP",
             "continue"}, Signal(t, c, op)
      PROVE  Steady
  BY <1>9 DEF Signal, kernel, table, objects, subs, UCode, Quiet, Steady
<1>10. ASSUME NEW t \in Thread \ Waiter, NEW c \in Child, Foreground(t, c) PROVE Steady
  BY <1>10 DEF Foreground, kernel, table, objects, subs, UCode, Quiet, Steady
<1>11. ASSUME Block PROVE Steady
  BY <1>11 DEF Block, kernel, table, objects, subs, UCode, Quiet, Steady
<1>12. ASSUME NEW c \in Child, Fork(c) PROVE Steady
  BY <1>12 DEF Fork, kernel, table, objects, subs, UCode, Quiet, Steady
<1>13. ASSUME ForkFails PROVE Steady
  BY <1>13 DEF ForkFails, kernel, table, objects, subs, UCode, Quiet, Steady
<1>14. ASSUME Record PROVE Steady
  BY <1>14 DEF Record, kernel, table, objects, subs, UCode, Quiet, Steady
<1>15. ASSUME Wait PROVE Steady
  BY <1>15 DEF Wait, kernel, table, objects, subs, UCode, Quiet, Steady
<1>16. ASSUME Sync PROVE Steady
  BY <1>16 DEF Sync, kernel, table, objects, subs, UCode, Quiet, Steady
<1>17. ASSUME SyncAll PROVE Steady
  BY <1>17 DEF SyncAll, kernel, table, objects, subs, UCode, Quiet, Steady
<1>18. ASSUME Check PROVE Steady
  BY <1>18 DEF Check, kernel, table, objects, subs, UCode, Quiet, Steady
<1>19. ASSUME NEW o \in {"background", "given", "fails"}, Give(o) PROVE Steady
  BY <1>19 DEF Give, kernel, table, objects, subs, UCode, Quiet, Steady
<1>20. ASSUME NEW f \in BOOLEAN, ContinueStopped(f) PROVE Steady
  BY <1>20 DEF ContinueStopped, kernel, table, objects, subs, UCode, Quiet, Steady
<1>21. ASSUME NEW f \in BOOLEAN, Send(f) PROVE Steady
  BY <1>21 DEF Send, kernel, table, objects, subs, UCode, Quiet, Steady
<1>22. ASSUME Unwind PROVE Steady
  BY <1>22, UnwindStep DEF TableInv, objects, Steady
<1>23. ASSUME Abort PROVE Steady
  BY <1>23 DEF Abort, kernel, table, objects, subs, UCode, Quiet, Steady
<1>24. ASSUME AbortKill PROVE Steady
  BY <1>24 DEF AbortKill, kernel, table, objects, subs, UCode, Quiet, Steady
<1>25. ASSUME Deallocate PROVE Steady
  BY <1>25 DEF Deallocate, kernel, table, objects, subs, UCode, Quiet, Steady
<1>26. ASSUME Free PROVE Steady
  BY <1>26 DEF Free, kernel, table, objects, subs, UCode, Quiet, Steady
<1>27. ASSUME New PROVE Steady
  BY <1>27 DEF Steady
<1>28. ASSUME Polled PROVE Steady
  BY <1>28 DEF Steady
<1>29. ASSUME Loop PROVE Steady
  BY <1>29 DEF Loop, kernel, table, objects, subs, UCode, Quiet, Steady
<1>30. ASSUME Deleted PROVE Steady
  BY <1>30 DEF Steady
<1>31. ASSUME Handle PROVE Steady
  BY <1>31 DEF Handle, kernel, table, objects, subs, UCode, Quiet, Steady
<1>32. ASSUME NEW c \in Child, PollNext(c) PROVE Steady
  BY <1>32 DEF PollNext, kernel, table, objects, subs, UCode, Quiet, Steady
<1>33. ASSUME Notify PROVE Steady
  BY <1>33 DEF Steady
<1>34. ASSUME Idle PROVE Steady
  BY <1>34 DEF Idle, kernel, table, objects, subs, UCode, Quiet, Steady
<1>35. ASSUME Select PROVE Steady
  BY <1>35 DEF Select, kernel, table, objects, subs, UCode, Quiet, Steady
<1>36. ASSUME Selected PROVE Steady
  BY <1>36 DEF Selected, kernel, table, objects, subs, UCode, Quiet, Steady
<1>37. ASSUME NEW t \in Thread, Waited(t) PROVE Steady
  BY <1>37 DEF Steady
<1>38. ASSUME NEW t \in Thread, Again(t) PROVE Steady
  BY <1>38 DEF Again, kernel, table, objects, subs, UCode, Quiet, Steady
<1>39. ASSUME Timer PROVE Steady
  BY <1>39 DEF Timer, kernel, table, objects, subs, UCode, Quiet, Steady
<1>40. ASSUME Sigchld PROVE Steady
  BY <1>40, ReapStep DEF objects, Steady
<1>41. ASSUME IoReady PROVE Steady
  BY <1>41 DEF Steady
<1>42. QED
  BY <1>1, <1>2, <1>3, <1>4, <1>5, <1>6, <1>7, <1>8, <1>9, <1>10, <1>11, <1>12, <1>13, <1>14,
     <1>15, <1>16, <1>17, <1>18, <1>19, <1>20, <1>21, <1>22, <1>23, <1>24, <1>25, <1>26,
     <1>27, <1>28, <1>29, <1>30, <1>31, <1>32, <1>33, <1>34, <1>35, <1>36, <1>37, <1>38,
     <1>39, <1>40, <1>41, SubprocessAssumption
     DEF Next, System, Program, Machine, Steady

\* What changes the process numbers in the table, and the objects' slots.
LEMMA SlotsSteady ==
  ASSUME TableInv, Next
  PROVE  UNCHANGED <<id, index>> \/ Record \/ Deallocate \/ New \/ Deleted
<1>1. UNCHANGED id \/ Record \/ Deallocate
  <2>1. ASSUME NEW g \in BOOLEAN, ContinueStopped(g) PROVE UNCHANGED id
    BY <2>1, ContinueStep
  <2>2. Sigchld \/ Sync \/ SyncAll \/ Free => UNCHANGED id
    BY ReapStep DEF Sync, SyncAll, Free, table
  <2>3. ASSUME NEW u \in Thread \ Waiter, NEW k \in Makes, Make(u, k) PROVE UNCHANGED id
    BY <2>3 DEF Make
  <2>4. QED BY <2>1, <2>2, <2>3, TableSteady DEF table
<1>2. UNCHANGED index \/ New \/ Deleted
  <2>1. Polled \/ Notify \/ IoReady => UNCHANGED index
    BY DEF Polled, Notify, IoReady, subs
  <2>2. ASSUME NEW u \in Thread, NEW d \in Child, WaitFor(u, d) \/ Read(u) \/ Waited(u)
        PROVE  UNCHANGED index
    BY <2>2 DEF WaitFor, Read, Waited, subs
  <2>3. (\E u \in Thread : Read(u) \/ Waited(u)) => UNCHANGED index
    BY DEF Read, Waited, subs
  <2>4. QED BY <2>1, <2>2, <2>3, ObjectsSteady, SubprocessAssumption DEF subs
<1>3. QED BY <1>1, <1>2

\* The status of a slot stays, or a stopped child is continued.
Same(s) ==
  \/ raw'[s] = raw[s]
  \/ m.at = "continue" /\ s = m.s /\ raw[s] = "stopped" /\ raw'[s] = "running"

\* What else changes it.
LEMMA RawSteady ==
  ASSUME TableInv, Next
  PROVE  \/ Sigchld \/ Record \/ Free \/ (\E u \in Thread \ Waiter, k \in Makes : Make(u, k))
         \/ \A s \in Slot : Same(s)
<1>1. ASSUME NEW g \in BOOLEAN, ContinueStopped(g) PROVE \A s \in Slot : Same(s)
  <2>1. CASE UNCHANGED table
    BY <2>1 DEF Same, table
  <2>2. CASE raw[m.s] = "stopped" /\ NewRawStatus([s \in {m.s} |-> "running"])
    <3>1. raw' = [s \in Slot |-> IF s \in {m.s} THEN [r \in {m.s} |-> "running"][s] ELSE raw[s]]
      BY <2>2, SMT DEF NewRawStatus
    <3>2. m.at = "continue"
      BY <1>1, ContinueStep
    <3>3. QED BY <2>2, <3>1, <3>2 DEF Same
  <2>3. QED BY <1>1, <2>1, <2>2, ContinueStep
<1>2. UNCHANGED table \/ Sync \/ SyncAll \/ Deallocate => UNCHANGED raw
  BY DEF Sync, SyncAll, Deallocate, table
<1>3. QED BY <1>1, <1>2, TableSteady DEF Same

\* process_tick and sync_tick differ until OS_process_status_sync_all.
LEMMA UnsyncedSteady ==
  ASSUME TableInv, Next
  PROVE  (unsynced => unsynced') \/ SyncAll
<1>1. ASSUME NEW g \in BOOLEAN, ContinueStopped(g) PROVE unsynced => unsynced'
  BY <1>1, ContinueStep DEF NewRawStatus
<1>2. Record \/ Sync \/ Deallocate \/ Free => UNCHANGED unsynced
  BY DEF Record, Sync, Deallocate, Free
<1>3. ASSUME NEW u \in Thread \ Waiter, NEW k \in Makes, Make(u, k) PROVE UNCHANGED unsynced
  BY <1>3 DEF Make
<1>4. Sigchld => (unsynced => unsynced')
  BY ReapStep
<1>5. QED BY <1>1, <1>2, <1>3, <1>4, TableSteady

\* What changes the objects.
LEMMA SubsSteady ==
  ASSUME TableInv, Next
  PROVE  UNCHANGED subs \/ New \/ Polled \/ Deleted
<1>1. Notify \/ IoReady => UNCHANGED subs
  BY DEF Notify, IoReady
<1>2. ASSUME NEW u \in Thread, NEW d \in Child, WaitFor(u, d) PROVE UNCHANGED subs
  BY <1>2 DEF WaitFor
<1>3. (\E u \in Thread : Read(u) \/ Waited(u)) => UNCHANGED subs
  BY DEF Read, Waited
<1>4. QED BY <1>1, <1>2, <1>3, ObjectsSteady, SubprocessAssumption

\* What changes the registered events and those who wait for them.
LEMMA WaitsSteady ==
  ASSUME TableInv, Next
  PROVE  \/ UNCHANGED <<regs, waits, result>> \/ Notify \/ Deleted \/ IoReady
         \/ (\E u \in Waiter, d \in Child : WaitFor(u, d))
         \/ (\E u \in Thread \ Waiter : Read(u))
         \/ \E u \in Thread : Waited(u)
<1>1. New \/ Polled => UNCHANGED <<regs, waits, result>>
  BY DEF New, Polled
<1>2. QED BY <1>1, ObjectsSteady

\* No number changes, no child comes or goes.
Settled ==
  /\ pid' = pid
  /\ \A c \in Child : (Living(c)' <=> Living(c)) /\ (child'[c] = "gone" <=> child[c] = "gone")

\* What changes that.
LEMMA ChildrenSteady ==
  ASSUME TableInv, Next
  PROVE  Settled \/ Sigchld \/ \E d \in Child : Fork(d)
<1> DEFINE Kept == Settled \/ Sigchld \/ \E d \in Child : Fork(d)
<1>1. ASSUME NEW c \in Child, Exit(c) PROVE Kept
  <2>1. pid' = pid
    BY <1>1 DEF Exit, Changed
  <2>2. \A d \in Child :
          /\ (child'[d] \in Alive \cup Dead <=> child[d] \in Alive \cup Dead)
          /\ (child'[d] = "gone" <=> child[d] = "gone")
    BY <1>1, SMT DEF Exit, Changed, OfPid, TableInv, TypeOK, Alive, Dead
  <2>3. QED BY <2>1, <2>2 DEF Settled, Living
<1>2. ASSUME NEW c \in Child, Stop(c) PROVE Kept
  <2>1. pid' = pid
    BY <1>2 DEF Stop, Changed
  <2>2. \A d \in Child :
          /\ (child'[d] \in Alive \cup Dead <=> child[d] \in Alive \cup Dead)
          /\ (child'[d] = "gone" <=> child[d] = "gone")
    BY <1>2, SMT DEF Stop, Changed, OfPid, TableInv, TypeOK, Alive, Dead
  <2>3. QED BY <2>1, <2>2 DEF Settled, Living
<1>3. ASSUME Interrupt PROVE Kept
  BY <1>3 DEF Interrupt, UCode, Quiet, kernel, Settled, Living
<1>4. ASSUME StopSignal PROVE Kept
  BY <1>4 DEF StopSignal, UCode, Quiet, kernel, Settled, Living
<1>5. ASSUME NEW t \in Waiter, NEW c \in Child, WaitFor(t, c) PROVE Kept
  BY <1>5 DEF WaitFor, UCode, Quiet, kernel, Settled, Living
<1>6. ASSUME NEW t \in Thread \ Waiter, NEW kind \in Makes, Make(t, kind) PROVE Kept
  BY <1>6 DEF Make, UCode, Quiet, kernel, Settled, Living
<1>7. ASSUME NEW t \in Thread \ Waiter, Read(t) PROVE Kept
  BY <1>7 DEF Read, UCode, Quiet, kernel, Settled, Living
<1>8. ASSUME NEW t \in Thread \ Waiter, NEW c \in Child, Delete(t, c) PROVE Kept
  BY <1>8 DEF Delete, UCode, Quiet, kernel, Settled, Living
<1>9. ASSUME NEW t \in Thread \ Waiter, NEW c \in Child, NEW op \in {"KILL", "TSTP",
             "continue"}, Signal(t, c, op)
      PROVE  Kept
  BY <1>9 DEF Signal, UCode, Quiet, kernel, Settled, Living
<1>10. ASSUME NEW t \in Thread \ Waiter, NEW c \in Child, Foreground(t, c) PROVE Kept
  BY <1>10 DEF Foreground, UCode, Quiet, kernel, Settled, Living
<1>11. ASSUME Block PROVE Kept
  BY <1>11 DEF Block, UCode, Quiet, kernel, Settled, Living
<1>12. ASSUME NEW c \in Child, Fork(c) PROVE Kept
  BY <1>12
<1>13. ASSUME ForkFails PROVE Kept
  BY <1>13 DEF ForkFails, UCode, Quiet, kernel, Settled, Living
<1>14. ASSUME Record PROVE Kept
  BY <1>14 DEF Record, UCode, Quiet, kernel, Settled, Living
<1>15. ASSUME Wait PROVE Kept
  BY <1>15 DEF Wait, UCode, Quiet, kernel, Settled, Living
<1>16. ASSUME Sync PROVE Kept
  BY <1>16 DEF Sync, UCode, Quiet, kernel, Settled, Living
<1>17. ASSUME SyncAll PROVE Kept
  BY <1>17 DEF SyncAll, UCode, Quiet, kernel, Settled, Living
<1>18. ASSUME Check PROVE Kept
  BY <1>18 DEF Check, UCode, Quiet, kernel, Settled, Living
<1>19. ASSUME NEW o \in {"background", "given", "fails"}, Give(o) PROVE Kept
  BY <1>19 DEF Give, UCode, Quiet, kernel, Settled, Living
<1>20. ASSUME NEW f \in BOOLEAN, ContinueStopped(f) PROVE Kept
  <2>1. CASE UNCHANGED <<kernel, pending>>
    BY <2>1 DEF kernel, Settled, Living
  <2>2. CASE KillCont(id[m.s])
    <3>1. \A c \in Child :
            /\ (child'[c] \in Alive \cup Dead <=> child[c] \in Alive \cup Dead)
            /\ (child'[c] = "gone" <=> child[c] = "gone")
      BY <2>2, SMT DEF KillCont, TableInv, TypeOK, Alive, Dead
    <3>2. QED BY <2>2, <3>1 DEF Settled, Living, KillCont
  <2>3. QED BY <1>20, <2>1, <2>2, ContinueStep
<1>21. ASSUME NEW f \in BOOLEAN, Send(f) PROVE Kept
  <2>1. CASE UNCHANGED <<kernel, pending>>
    BY <2>1 DEF kernel, Settled, Living
  <2>2. CASE Kill(id[m.s], m.op)
    <3>1. PICK cs \in SUBSET Child, new \in {"stopped", "exited"} :
            Changed(cs, new) /\ \A c \in cs : child[c] \in Alive
      <4>1. CASE m.op = "KILL"
        <5>1. Changed({c \in OfPid(id[m.s]) : child[c] \in Alive}, "exited")
          BY <2>2, <4>1 DEF Kill
        <5>2. {c \in OfPid(id[m.s]) : child[c] \in Alive} \in SUBSET Child
          BY DEF OfPid
        <5>3. QED BY <5>1, <5>2
      <4>2. CASE m.op # "KILL"
        <5>1. Changed({c \in OfPid(id[m.s]) : child[c] = "running"}, "stopped")
          BY <2>2, <4>2 DEF Kill
        <5>2. {c \in OfPid(id[m.s]) : child[c] = "running"} \in SUBSET Child
          BY DEF OfPid
        <5>3. QED BY <5>1, <5>2 DEF Alive
      <4>3. QED BY <4>1, <4>2
    <3>2. \A c \in Child :
            /\ (child'[c] \in Alive \cup Dead <=> child[c] \in Alive \cup Dead)
            /\ (child'[c] = "gone" <=> child[c] = "gone")
      BY <3>1, SMT DEF Changed, TableInv, TypeOK, Alive, Dead
    <3>3. QED BY <3>1, <3>2 DEF Settled, Living, Changed
  <2>3. QED BY <1>21, <2>1, <2>2, SendStep
<1>22. ASSUME Unwind PROVE Kept
  BY <1>22, UnwindStep DEF TableInv, kernel, Settled, Living
<1>23. ASSUME Abort PROVE Kept
  BY <1>23 DEF Abort, UCode, Quiet, kernel, Settled, Living
<1>24. ASSUME AbortKill PROVE Kept
  <2>1. pid' = pid
    BY <1>24 DEF AbortKill, Changed
  <2>2. \A d \in Child :
          /\ (child'[d] \in Alive \cup Dead <=> child[d] \in Alive \cup Dead)
          /\ (child'[d] = "gone" <=> child[d] = "gone")
    BY <1>24, SMT DEF AbortKill, Changed, OfPid, TableInv, TypeOK, Alive, Dead
  <2>3. QED BY <2>1, <2>2 DEF Settled, Living
<1>25. ASSUME Deallocate PROVE Kept
  BY <1>25 DEF Deallocate, UCode, Quiet, kernel, Settled, Living
<1>26. ASSUME Free PROVE Kept
  BY <1>26 DEF Free, UCode, Quiet, kernel, Settled, Living
<1>27. ASSUME New PROVE Kept
  BY <1>27 DEF New, UCode, Quiet, kernel, Settled, Living
<1>28. ASSUME Polled PROVE Kept
  BY <1>28 DEF Polled, UCode, Quiet, kernel, Settled, Living
<1>29. ASSUME Loop PROVE Kept
  BY <1>29 DEF Loop, UCode, Quiet, kernel, Settled, Living
<1>30. ASSUME Deleted PROVE Kept
  BY <1>30 DEF Deleted, UCode, Quiet, kernel, Settled, Living
<1>31. ASSUME Handle PROVE Kept
  BY <1>31 DEF Handle, UCode, Quiet, kernel, Settled, Living
<1>32. ASSUME NEW c \in Child, PollNext(c) PROVE Kept
  BY <1>32 DEF PollNext, UCode, Quiet, kernel, Settled, Living
<1>33. ASSUME Notify PROVE Kept
  BY <1>33 DEF Notify, UCode, Quiet, kernel, Settled, Living
<1>34. ASSUME Idle PROVE Kept
  BY <1>34 DEF Idle, UCode, Quiet, kernel, Settled, Living
<1>35. ASSUME Select PROVE Kept
  BY <1>35 DEF Select, UCode, Quiet, kernel, Settled, Living
<1>36. ASSUME Selected PROVE Kept
  BY <1>36 DEF Selected, UCode, Quiet, kernel, Settled, Living
<1>37. ASSUME NEW t \in Thread, Waited(t) PROVE Kept
  BY <1>37 DEF Waited, UCode, Quiet, kernel, Settled, Living
<1>38. ASSUME NEW t \in Thread, Again(t) PROVE Kept
  BY <1>38 DEF Again, UCode, Quiet, kernel, Settled, Living
<1>39. ASSUME Timer PROVE Kept
  BY <1>39 DEF Timer, UCode, Quiet, kernel, Settled, Living
<1>40. ASSUME Sigchld PROVE Kept
  BY <1>40
<1>41. ASSUME IoReady PROVE Kept
  BY <1>41 DEF IoReady, UCode, Quiet, kernel, Settled, Living
<1>42. QED
  BY <1>1, <1>2, <1>3, <1>4, <1>5, <1>6, <1>7, <1>8, <1>9, <1>10, <1>11, <1>12, <1>13, <1>14,
     <1>15, <1>16, <1>17, <1>18, <1>19, <1>20, <1>21, <1>22, <1>23, <1>24, <1>25, <1>26,
     <1>27, <1>28, <1>29, <1>30, <1>31, <1>32, <1>33, <1>34, <1>35, <1>36, <1>37, <1>38,
     <1>39, <1>40, <1>41, SubprocessAssumption
     DEF Next, System, Program, Machine

\* A slot has one owner.
LEMMA OneOwner ==
  ASSUME TableInv, NEW c \in Child, NEW d \in Child, NEW s \in Slot, Owns(c, s), Owns(d, s)
  PROVE  c = d
<1> USE DEF TableInv
<1>1. CASE index[c] = s /\ index[d] = s
  BY <1>1, SubprocessAssumption, SMT DEF OwnInv
<1>2. CASE s = m.s /\ InHand
  <2>1. index[c] # s /\ index[d] # s
    BY <1>2 DEF HandInv
  <2>2. QED BY <2>1 DEF Owns
<1>3. QED BY <1>1, <1>2 DEF Owns

\* A slot changes its owner only when it is filled or emptied: making and deleting an
\* object hands the slot over.
LEMMA OwnsSteady ==
  ASSUME TableInv, Next
  PROVE  Record \/ Deallocate \/ \A c \in Child, s \in Slot : Owns(c, s)' <=> Owns(c, s)
<1> USE DEF TableInv
<1>1. CASE New
  <2>1. /\ m.at = "new" /\ Making /\ id[m.s] # None /\ index' = [index EXCEPT ![m.c] = m.s]
        /\ id' = id
    BY <1>1 DEF New, At, OpInv, HandInv, UCode, table
  <2>2. m.c \in Child /\ m.s \in Slot /\ InHand /\ index[m.c] = None
    BY <2>1, Hands DEF InHand, HandInv
  <2>3. ~InHand'
    <3>1. m'.at = "block" /\ m'.op = "sync"
      BY <1>1 DEF New, MachineType
    <3>2. QED BY <3>1, SubprocessAssumption, SMT DEF InHand, Making, Freeing
  <2>4. /\ \A c \in Child : c # m.c => index'[c] = index[c]
        /\ index'[m.c] = m.s
    BY <2>1, <2>2 DEF TypeOK
  <2>5. \A c \in Child, s \in Slot : Owns(c, s)' <=> index'[c] = s
    BY <2>3 DEF Owns
  <2>6. ASSUME NEW c \in Child, NEW s \in Slot PROVE Owns(c, s)' <=> Owns(c, s)
    <3>1. CASE c # m.c
      BY <2>4, <2>5, <3>1 DEF Owns
    <3>2. CASE c = m.c
      <4>1. Owns(c, s) <=> s = m.s
        BY <2>1, <2>2, <3>2, SubprocessAssumption DEF Owns
      <4>2. QED BY <2>4, <2>5, <3>2, <4>1
    <3>3. QED BY <3>1, <3>2
  <2>7. QED BY <2>6
<1>2. CASE Deleted
  <2>1. /\ m.at = "delete" /\ index' = [index EXCEPT ![m.c] = None] /\ id' = id
    BY <1>2 DEF Deleted, At, UCode, table
  <2>2. m.op = "sync"
    BY <2>1 DEF OpInv
  <2>3. m.c \in Child /\ m.s \in Slot /\ index[m.c] = m.s /\ Owns(m.c, m.s) /\ ~InHand
    BY <2>1, <2>2, Hands DEF Quick, Freeing
  <2>4. id[m.s] # None
    BY <2>3 DEF OwnInv
  <2>5. m'.s = m.s /\ m'.c = m.c /\ InHand'
    BY <1>2 DEF Deleted, Goto, MachineType, InHand, Freeing
  <2>6. /\ \A c \in Child : c # m.c => index'[c] = index[c]
        /\ index'[m.c] = None
    BY <2>1, <2>3 DEF TypeOK
  <2>7. ASSUME NEW c \in Child, NEW s \in Slot PROVE Owns(c, s)' <=> Owns(c, s)
    <3>1. CASE c # m.c
      BY <2>3, <2>5, <2>6, <3>1 DEF Owns
    <3>2. CASE c = m.c
      <4>1. Owns(c, s) <=> s = m.s
        BY <2>3, <3>2 DEF Owns
      <4>2. index'[c] # s
        BY <2>6, <3>2, SubprocessAssumption
      <4>3. Owns(c, s)' <=> s = m.s
        BY <2>1, <2>4, <2>5, <3>2, <4>2 DEF Owns
      <4>4. QED BY <4>1, <4>3
    <3>3. QED BY <3>1, <3>2
  <2>8. QED BY <2>7
<1>3. CASE UNCHANGED <<id, index>>
  <2>1. CASE Holding
    BY <1>3, <2>1, OwnsKept
  <2>2. ASSUME NEW t \in Thread \ Waiter, NEW kind \in Makes, Make(t, kind)
        PROVE  \A c \in Child, s \in Slot : Owns(c, s)' <=> Owns(c, s)
    <3>1. ~InHand /\ m.c = None
      BY <2>2, SubprocessAssumption, SMT
         DEF Make, Running, At, OpInv, HandInv, InHand, Making, Resting, Freeing
    <3>2. m'.c = None
      BY <2>2, <3>1 DEF Make, MachineType
    <3>3. QED BY <1>3, <3>1, <3>2, SubprocessAssumption DEF Owns
  <2>3. ASSUME NEW d \in Child, Fork(d)
        PROVE  \A c \in Child, s \in Slot : Owns(c, s)' <=> Owns(c, s)
    <3>1. Making /\ m.s \in Slot /\ raw[m.s] = "allocated"
      BY <2>3 DEF Fork, At, OpInv, HandInv, InHand
    <3>2. id[m.s] = None
      BY <3>1, SMT DEF OwnInv, Reported, Alive, Dead
    <3>3. m'.s = m.s
      BY <2>3 DEF Fork, MachineType
    <3>4. QED BY <1>3, <3>2, <3>3 DEF Owns
  <2>4. CASE Free
    <3>1. id[m.s] = None
      BY <2>4 DEF Free, At, HandInv
    <3>2. m'.c = None
      BY <2>4 DEF Free, AtRest
    <3>3. QED BY <1>3, <3>1, <3>2, SubprocessAssumption DEF Owns
  <2>5. QED BY <1>1, <1>2, <2>1, <2>2, <2>3, <2>4, HoldNext DEF Taking
<1>4. QED BY <1>1, <1>2, <1>3, SlotsSteady

\* Numbers stay those of one child, if none is used again too soon.
LEMMA PidNext ==
  ASSUME TableInv, PidInv, Next, Recycled = FALSE
  PROVE  PidInv'
<1>1. CASE Record
  <2>1. /\ m.at = "record" /\ id' = [id EXCEPT ![m.s] = pid[m.c]]
        /\ UNCHANGED <<pid, child, index>>
        /\ Making /\ m.c \in Child /\ m.s \in Slot /\ InHand /\ Living(m.c)
    BY <1>1 DEF Record, At, Quiet, kernel, objects, subs, TableInv, OpInv, HandInv, InHand
  <2>2. index[m.c] = None /\ pid[m.c] # None
    BY <2>1, SMT DEF TableInv, HandInv, OwnInv, Living, Alive, Dead
  <2>3. m'.c = m.c /\ m'.s = m.s /\ InHand'
    BY <1>1, <2>1, SMT DEF Record, Goto, TableInv, MachineType, InHand, Making
  <2>4. /\ id'[m.s] = pid[m.c]
        /\ \A s \in Slot : s # m.s => id'[s] = id[s]
    BY <2>1 DEF TableInv, TypeOK
  <2>5. \A s \in Slot : id[s] = pid[m.c] => s = m.s
    BY <2>1, <2>2, SubprocessAssumption DEF PidInv, Owns
  <2>6. ASSUME NEW c \in Child, NEW d \in Child, Living(c)', Living(d)', pid'[c] = pid'[d]
        PROVE  c = d
    BY <2>1, <2>6 DEF PidInv, Living
  <2>7. ASSUME NEW c \in Child, NEW s \in Slot, Living(c)', id'[s] = pid'[c] PROVE Owns(c, s)'
    <3>1. Living(c) /\ pid'[c] = pid[c]
      BY <2>1, <2>7 DEF Living
    <3>2. CASE s = m.s
      <4>1. c = m.c
        BY <2>1, <2>4, <2>7, <3>1, <3>2 DEF PidInv
      <4>2. QED BY <2>2, <2>3, <2>4, <3>2, <4>1 DEF Owns
    <3>3. CASE s # m.s
      <4>1. index[c] = s
        BY <2>4, <2>7, <3>1, <3>3 DEF PidInv, Owns
      <4>2. QED BY <2>1, <4>1 DEF Owns
    <3>4. QED BY <3>2, <3>3
  <2>8. ASSUME NEW s \in Slot, NEW r \in Slot, id'[s] = id'[r], id'[s] # None PROVE s = r
    BY <2>4, <2>5, <2>8 DEF PidInv
  <2>9. QED BY <2>6, <2>7, <2>8 DEF PidInv
<1>2. CASE Deallocate
  <2>1. /\ m.at = "deallocate" /\ id' = [id EXCEPT ![m.s] = None]
        /\ UNCHANGED <<pid, child, index>>
        /\ InHand /\ m.s \in Slot
    BY <1>2 DEF Deallocate, At, Quiet, kernel, objects, subs, TableInv, OpInv, HandInv, InHand,
                Freeing, Aborting
  <2>2. /\ id'[m.s] = None
        /\ \A s \in Slot : s # m.s => id'[s] = id[s]
    BY <2>1 DEF TableInv, TypeOK
  <2>3. ASSUME NEW c \in Child, NEW s \in Slot, Living(c)', id'[s] = pid'[c] PROVE Owns(c, s)'
    <3>1. Living(c) /\ pid'[c] = pid[c]
      BY <2>1, <2>3 DEF Living
    <3>2. pid[c] # None
      <4>1. child[c] # "unborn"
        BY <3>1, SMT DEF Living, Alive, Dead
      <4>2. QED BY <4>1 DEF TableInv, OwnInv
    <3>3. s # m.s /\ id[s] = pid[c]
      BY <2>2, <2>3, <3>1, <3>2
    <3>4. QED BY <2>1, <3>1, <3>3 DEF PidInv, Owns
  <2>4. ASSUME NEW c \in Child, NEW d \in Child, Living(c)', Living(d)', pid'[c] = pid'[d]
        PROVE  c = d
    BY <2>1, <2>4 DEF PidInv, Living
  <2>5. ASSUME NEW s \in Slot, NEW r \in Slot, id'[s] = id'[r], id'[s] # None PROVE s = r
    BY <2>2, <2>5 DEF PidInv
  <2>6. QED BY <2>3, <2>4, <2>5 DEF PidInv
<1>3. ASSUME UNCHANGED id, \A c \in Child, s \in Slot : Owns(c, s)' <=> Owns(c, s)
      PROVE  PidInv'
  <2>1. CASE pid' = pid /\ \A c \in Child : Living(c)' => Living(c)
    BY <1>3, <2>1 DEF PidInv
  <2>2. ASSUME NEW d \in Child, Fork(d) PROVE PidInv'
    <3>1. PICK p \in FreePids : pid' = [pid EXCEPT ![d] = p]
      BY <2>2 DEF Fork
    <3>2. child[d] = "unborn" /\ child' = [child EXCEPT ![d] = "running"]
      BY <2>2 DEF Fork
    <3>3. p \in Pid /\ \A c \in Child : ~(Living(c) /\ pid[c] = p)
      BY <3>1 DEF FreePids, OfPid, Living
    <3>4. \A s \in Slot : id[s] # p
      BY <3>1 DEF FreePids
    <3>5. /\ pid'[d] = p
          /\ \A c \in Child : c # d => pid'[c] = pid[c] /\ child'[c] = child[c]
      BY <3>1, <3>2 DEF TableInv, TypeOK
    <3>6. \A c \in Child : c # d => (Living(c)' <=> Living(c))
      BY <3>5 DEF Living
    <3>7. ASSUME NEW c \in Child, NEW e \in Child, Living(c)', Living(e)', pid'[c] = pid'[e]
          PROVE  c = e
      BY <3>3, <3>5, <3>6, <3>7 DEF PidInv
    <3>8. ASSUME NEW c \in Child, NEW s \in Slot, Living(c)', id'[s] = pid'[c]
          PROVE  Owns(c, s)'
      BY <1>3, <3>4, <3>5, <3>6, <3>8 DEF PidInv
    <3>9. QED BY <1>3, <3>7, <3>8 DEF PidInv
  <2>3. ASSUME Sigchld, NEW c \in Child PROVE Living(c)' => Living(c)
    <3>1. child'[c] = child[c] \/ child'[c] = "gone"
      BY <2>3, ReapStep
    <3>2. QED BY <3>1, SMT DEF Living, Alive, Dead
  <2>4. CASE Sigchld
    BY <2>1, <2>3, <2>4, ReapStep
  <2>5. CASE Settled
    BY <2>1, <2>5 DEF Settled
  <2>6. QED BY <2>2, <2>4, <2>5, ChildrenSteady
<1>4. CASE New \/ Deleted \/ UNCHANGED <<id, index>>
  <2>1. UNCHANGED id
    BY <1>4 DEF New, Deleted, UCode, table
  <2>2. QED BY <1>1, <1>2, <1>3, <2>1, OwnsSteady
<1>5. QED BY <1>1, <1>2, <1>4, SlotsSteady

\* Where polls are done, and what comes after them.
Polls == {"block", "sync", "sync-all", "commit", "polled", "handle", "poll", "delete", "loop",
          "deallocate", "free"}

\* What the machine does from these places.
LEMMA PollSteps ==
  ASSUME TableInv, Next
  PROVE  \/ m' = m \/ m.at \notin Polls \/ Block \/ Sync \/ SyncAll \/ Unwind \/ Polled
         \/ Handle
         \/ Notify \/ Deleted \/ Loop \/ Deallocate \/ Free \/ \E d \in Child : PollNext(d)
<1> DEFINE Kept ==
             \/ m' = m \/ m.at \notin Polls \/ Block \/ Sync \/ SyncAll \/ Unwind \/ Polled
             \/ Handle
             \/ Notify \/ Deleted \/ Loop \/ Deallocate \/ Free \/ \E d \in Child : PollNext(d)
<1>1. ASSUME NEW c \in Child, Exit(c) PROVE Kept
  BY <1>1 DEF Exit, Running, At, Polls
<1>2. ASSUME NEW c \in Child, Stop(c) PROVE Kept
  BY <1>2 DEF Stop, Running, At, Polls
<1>3. ASSUME Interrupt PROVE Kept
  <2>1. Woken
    BY <1>3 DEF Interrupt
  <2>2. QED BY <2>1, WokenStep DEF TableInv, Polls
<1>4. ASSUME StopSignal PROVE Kept
  <2>1. Woken
    BY <1>4 DEF StopSignal
  <2>2. QED BY <2>1, WokenStep DEF TableInv, Polls
<1>5. ASSUME NEW t \in Waiter, NEW c \in Child, WaitFor(t, c) PROVE Kept
  BY <1>5 DEF WaitFor, Running, At, Polls
<1>6. ASSUME NEW t \in Thread \ Waiter, NEW kind \in Makes, Make(t, kind) PROVE Kept
  BY <1>6 DEF Make, Running, At, Polls
<1>7. ASSUME NEW t \in Thread \ Waiter, Read(t) PROVE Kept
  BY <1>7 DEF Read, Running, At, Polls
<1>8. ASSUME NEW t \in Thread \ Waiter, NEW c \in Child, Delete(t, c) PROVE Kept
  BY <1>8 DEF Delete, Running, At, Polls
<1>9. ASSUME NEW t \in Thread \ Waiter, NEW c \in Child, NEW op \in {"KILL", "TSTP",
             "continue"}, Signal(t, c, op)
      PROVE  Kept
  BY <1>9 DEF Signal, Running, At, Polls
<1>10. ASSUME NEW t \in Thread \ Waiter, NEW c \in Child, Foreground(t, c) PROVE Kept
  BY <1>10 DEF Foreground, Running, At, Polls
<1>11. ASSUME Block PROVE Kept
  BY <1>11
<1>12. ASSUME NEW c \in Child, Fork(c) PROVE Kept
  BY <1>12 DEF Fork, Running, At, Polls
<1>13. ASSUME ForkFails PROVE Kept
  BY <1>13 DEF ForkFails, Running, At, Polls
<1>14. ASSUME Record PROVE Kept
  BY <1>14 DEF Record, Running, At, Polls
<1>15. ASSUME Wait PROVE Kept
  BY <1>15 DEF Wait, Running, At, Polls
<1>16. ASSUME Sync PROVE Kept
  BY <1>16
<1>17. ASSUME SyncAll PROVE Kept
  BY <1>17
<1>18. ASSUME Check PROVE Kept
  BY <1>18 DEF Check, Running, At, Polls
<1>19. ASSUME NEW o \in {"background", "given", "fails"}, Give(o) PROVE Kept
  BY <1>19 DEF Give, Running, At, Polls
<1>20. ASSUME NEW f \in BOOLEAN, ContinueStopped(f) PROVE Kept
  BY <1>20 DEF ContinueStopped, Running, At, Polls
<1>21. ASSUME NEW f \in BOOLEAN, Send(f) PROVE Kept
  BY <1>21 DEF Send, Running, At, Polls
<1>22. ASSUME Unwind PROVE Kept
  BY <1>22
<1>23. ASSUME Abort PROVE Kept
  BY <1>23 DEF Abort, Running, At, Polls
<1>24. ASSUME AbortKill PROVE Kept
  BY <1>24 DEF AbortKill, Running, At, Polls
<1>25. ASSUME Deallocate PROVE Kept
  BY <1>25
<1>26. ASSUME Free PROVE Kept
  BY <1>26
<1>27. ASSUME New PROVE Kept
  BY <1>27 DEF New, Running, At, Polls
<1>28. ASSUME Polled PROVE Kept
  BY <1>28
<1>29. ASSUME Loop PROVE Kept
  BY <1>29
<1>30. ASSUME Deleted PROVE Kept
  BY <1>30
<1>31. ASSUME Handle PROVE Kept
  BY <1>31
<1>32. ASSUME NEW c \in Child, PollNext(c) PROVE Kept
  BY <1>32
<1>33. ASSUME Notify PROVE Kept
  BY <1>33
<1>34. ASSUME Idle PROVE Kept
  BY <1>34 DEF Idle, Running, At, Polls
<1>35. ASSUME Select PROVE Kept
  BY <1>35 DEF Select, Running, At, Polls
<1>36. ASSUME Selected PROVE Kept
  BY <1>36 DEF Selected, Running, At, Polls
<1>37. ASSUME NEW t \in Thread, Waited(t) PROVE Kept
  BY <1>37 DEF Waited, Running, At, Polls
<1>38. ASSUME NEW t \in Thread, Again(t) PROVE Kept
  BY <1>38 DEF Again, Running, At, Polls
<1>39. ASSUME Timer PROVE Kept
  BY <1>39 DEF Timer, Running, At, Polls
<1>40. ASSUME Sigchld PROVE Kept
  <2>1. Woken
    BY <1>40 DEF Sigchld, Reaped
  <2>2. QED BY <2>1, WokenStep DEF TableInv, Polls
<1>41. ASSUME IoReady PROVE Kept
  BY <1>41 DEF IoReady, Running, At, Polls
<1>42. QED
  BY <1>1, <1>2, <1>3, <1>4, <1>5, <1>6, <1>7, <1>8, <1>9, <1>10, <1>11, <1>12, <1>13, <1>14,
     <1>15, <1>16, <1>17, <1>18, <1>19, <1>20, <1>21, <1>22, <1>23, <1>24, <1>25, <1>26,
     <1>27, <1>28, <1>29, <1>30, <1>31, <1>32, <1>33, <1>34, <1>35, <1>36, <1>37, <1>38,
     <1>39, <1>40, <1>41, SubprocessAssumption
     DEF Next, System, Program, Machine

\* How the machine comes to signal a process, to sleep, and to synchronise.
LEMMA Arrivals ==
  ASSUME TableInv, Next
  PROVE  /\ m'.at = "kill" => Check \/ m' = m
         /\ Sleeping' => Idle \/ Select \/ m' = m
         /\ m'.op = "sync" => \/ m.op = "sync" \/ New \/ \E d \in Child : PollNext(d)
                              \/ \E u \in Thread, d \in Child : Delete(u, d)
         /\ m'.op = "sync-all" => m.op = "sync-all" \/ Selected
<1> USE DEF TableInv
<1> DEFINE Kept ==
             /\ m'.at = "kill" => Check \/ m' = m
             /\ Sleeping' => Idle \/ Select \/ m' = m
             /\ m'.op = "sync" => \/ m.op = "sync" \/ New \/ \E d \in Child : PollNext(d)
                                  \/ \E u \in Thread, d \in Child : Delete(u, d)
             /\ m'.op = "sync-all" => m.op = "sync-all" \/ Selected
<1>1. ASSUME NEW c \in Child, Exit(c) PROVE Kept
  BY <1>1 DEF Exit
<1>2. ASSUME NEW c \in Child, Stop(c) PROVE Kept
  BY <1>2 DEF Stop
<1>3. ASSUME Interrupt PROVE Kept
  <2>1. Woken
    BY <1>3 DEF Interrupt
  <2>2. QED BY <2>1, WokenStep DEF MachineType, Sleeping
<1>4. ASSUME StopSignal PROVE Kept
  <2>1. Woken
    BY <1>4 DEF StopSignal
  <2>2. QED BY <2>1, WokenStep DEF MachineType, Sleeping
<1>5. ASSUME NEW t \in Waiter, NEW c \in Child, WaitFor(t, c) PROVE Kept
  BY <1>5 DEF WaitFor
<1>6. ASSUME NEW t \in Thread \ Waiter, NEW kind \in Makes, Make(t, kind) PROVE Kept
  <2>1. m'.at = "block" /\ m'.op \in Makes
    BY <1>6 DEF Make, MachineType
  <2>2. m'.op # "sync" /\ m'.op # "sync-all"
    BY <2>1, SubprocessAssumption, SMT
  <2>3. QED BY <2>1, <2>2 DEF Sleeping
<1>7. ASSUME NEW t \in Thread \ Waiter, Read(t) PROVE Kept
  BY <1>7 DEF Read
<1>8. ASSUME NEW t \in Thread \ Waiter, NEW c \in Child, Delete(t, c) PROVE Kept
  BY <1>8 DEF Delete, Poll, MachineType, Sleeping
<1>9. ASSUME NEW t \in Thread \ Waiter, NEW c \in Child, NEW op \in {"KILL", "TSTP",
             "continue"}, Signal(t, c, op)
      PROVE  Kept
  BY <1>9 DEF Signal, Call, MachineType, Sleeping
<1>10. ASSUME NEW t \in Thread \ Waiter, NEW c \in Child, Foreground(t, c) PROVE Kept
  BY <1>10 DEF Foreground
<1>11. ASSUME Block PROVE Kept
  <2>1. To(AfterBlock(m.op))
    BY <1>11, Goes DEF Block
  <2>2. AfterBlock(m.op) \notin {"kill", "select", "ppoll"}
    BY SubprocessAssumption, SMT DEF AfterBlock, MachineType, Primitive, Quick
  <2>3. QED BY <2>1, <2>2 DEF To, Sleeping
<1>12. ASSUME NEW c \in Child, Fork(c) PROVE Kept
  BY <1>12 DEF Fork, MachineType, Sleeping
<1>13. ASSUME ForkFails PROVE Kept
  BY <1>13, Errs DEF ForkFails, Sleeping
<1>14. ASSUME Record PROVE Kept
  <2>1. To("give") \/ To("commit")
    BY <1>14, Goes DEF Record
  <2>2. QED BY <1>14, <2>1 DEF To, Sleeping
<1>15. ASSUME Wait PROVE Kept
  <2>1. To("suspend") \/ To("commit")
    BY <1>15, Goes DEF Wait
  <2>2. QED BY <1>15, <2>1 DEF To, Sleeping
<1>16. ASSUME Sync PROVE Kept
  BY <1>16 DEF Sync, MachineType, Sleeping
<1>17. ASSUME SyncAll PROVE Kept
  BY <1>17 DEF SyncAll, MachineType, Sleeping
<1>18. ASSUME Check PROVE Kept
  BY <1>18, CheckStep DEF MachineType, Sleeping
<1>19. ASSUME NEW o \in {"background", "given", "fails"}, Give(o) PROVE Kept
  BY <1>19, GiveStep DEF MachineType, Sleeping
<1>20. ASSUME NEW f \in BOOLEAN, ContinueStopped(f) PROVE Kept
  BY <1>20, ContinueStep DEF MachineType, Sleeping
<1>21. ASSUME NEW f \in BOOLEAN, Send(f) PROVE Kept
  BY <1>21, SendStep DEF MachineType, Sleeping
<1>22. ASSUME Unwind PROVE Kept
  <2>1. CASE m' = m
    BY <2>1
  <2>2. CASE Goto("abort")
    <3>1. To("abort")
      BY <2>2, Goes
    <3>2. QED BY <3>1 DEF To, Sleeping
  <2>3. CASE Returns
    <3>1. CASE m' = AtRest
      BY <3>1, Rests DEF Rest, Sleeping
    <3>2. CASE Goto(m.next)
      BY <3>2, Goes DEF To, Sleeping, MachineType
    <3>3. QED BY <2>3, <3>1, <3>2 DEF Returns, Goto
  <2>4. QED BY <1>22, <2>1, <2>2, <2>3, UnwindStep
<1>23. ASSUME Abort PROVE Kept
  <2>1. To("abort-kill") \/ To("deallocate")
    BY <1>23, Goes DEF Abort
  <2>2. QED BY <1>23, <2>1 DEF To, Sleeping
<1>24. ASSUME AbortKill PROVE Kept
  <2>1. To("deallocate")
    BY <1>24, Goes DEF AbortKill
  <2>2. QED BY <1>24, <2>1 DEF To, Sleeping
<1>25. ASSUME Deallocate PROVE Kept
  <2>1. To("free")
    BY <1>25, Goes DEF Deallocate
  <2>2. QED BY <1>25, <2>1 DEF To, Sleeping
<1>26. ASSUME Free PROVE Kept
  BY <1>26, Rests DEF Free, Rest, Sleeping
<1>27. ASSUME New PROVE Kept
  BY <1>27 DEF New, MachineType, Sleeping
<1>28. ASSUME Polled PROVE Kept
  <2>1. CASE m.then \in {"run", "poll"} /\ m' = [AtRest EXCEPT !.at = m.then, !.todo = m.todo]
    BY <2>1 DEF AtRest, Sleeping
  <2>2. CASE m.then \in {"loop", "delete"} /\ m' = [m EXCEPT !.at = m.then]
    BY <2>2 DEF MachineType, Sleeping
  <2>3. QED BY <1>28, <2>1, <2>2, PolledStep
<1>29. ASSUME Loop PROVE Kept
  BY <1>29, Rests DEF Loop, Rest, Sleeping
<1>30. ASSUME Deleted PROVE Kept
  <2>1. To("deallocate")
    BY <1>30, Goes DEF Deleted
  <2>2. QED BY <1>30, <2>1 DEF To, Sleeping
<1>31. ASSUME Handle PROVE Kept
  <2>1. CASE m' = AtRest
    BY <2>1, Rests DEF Rest, Sleeping
  <2>2. CASE m' = [AtRest EXCEPT !.at = "poll", !.todo = {c \in Child : Valid(c)}]
    BY <2>2 DEF AtRest, Sleeping
  <2>3. QED BY <1>31, <2>1, <2>2 DEF Handle
<1>32. ASSUME NEW c \in Child, PollNext(c) PROVE Kept
  BY <1>32 DEF PollNext, Poll, MachineType, Sleeping
<1>33. ASSUME Notify PROVE Kept
  BY <1>33, Rests DEF Notify, Rest, Sleeping
<1>34. ASSUME Idle PROVE Kept
  <2>1. To("select")
    BY <1>34, Goes DEF Idle
  <2>2. QED BY <1>34, <2>1 DEF To, Sleeping
<1>35. ASSUME Select PROVE Kept
  <2>1. To("selected") \/ To("ppoll")
    BY <1>35, Goes DEF Select
  <2>2. QED BY <1>35, <2>1 DEF To, Sleeping
<1>36. ASSUME Selected PROVE Kept
  BY <1>36, Rests, SelectedStep DEF Rest, MachineType, Sleeping
<1>37. ASSUME NEW t \in Thread, Waited(t) PROVE Kept
  BY <1>37 DEF Waited
<1>38. ASSUME NEW t \in Thread, Again(t) PROVE Kept
  BY <1>38, AgainStep DEF MachineType, Sleeping
<1>39. ASSUME Timer PROVE Kept
  <2>1. m' = m \/ To("selected")
    BY <1>39, Goes DEF Timer
  <2>2. QED BY <2>1 DEF To, Sleeping
<1>40. ASSUME Sigchld PROVE Kept
  <2>1. Woken
    BY <1>40 DEF Sigchld, Reaped
  <2>2. QED BY <2>1, WokenStep DEF MachineType, Sleeping
<1>41. ASSUME IoReady PROVE Kept
  BY <1>41, Rests DEF IoReady, Rest, Sleeping
<1>42. QED
  BY <1>1, <1>2, <1>3, <1>4, <1>5, <1>6, <1>7, <1>8, <1>9, <1>10, <1>11, <1>12, <1>13, <1>14,
     <1>15, <1>16, <1>17, <1>18, <1>19, <1>20, <1>21, <1>22, <1>23, <1>24, <1>25, <1>26,
     <1>27, <1>28, <1>29, <1>30, <1>31, <1>32, <1>33, <1>34, <1>35, <1>36, <1>37, <1>38,
     <1>39, <1>40, <1>41, SubprocessAssumption
     DEF Next, System, Program, Machine

\* process_send_signal is reached through the check of the status.
LEMMA KillStep ==
  ASSUME TableInv, Next
  PROVE  m'.at = "kill" => Check \/ (m.at = "kill" /\ m'.s = m.s)
BY Arrivals

\* The handler reports a death to the slot of the child, and to no other.
LEMMA ReapOwn ==
  ASSUME TableInv, PidInv, Sigchld, NEW c \in Child, NEW s \in Slot, Owns(c, s)
  PROVE  \/ raw'[s] = raw[s] /\ child'[c] = child[c]
         \/ c \in news /\ raw'[s] = child[c] /\ child[c] \in Dead /\ child'[c] = "gone"
         \/ c \in news /\ raw'[s] = "stopped" /\ child'[c] = "stopped" /\ child[c] = "stopped"
<1>1. child'[c] = IF c \in news /\ child[c] \in Dead THEN "gone" ELSE child[c]
  BY ReapStep
<1>2. ASSUME \A d \in news : s \notin find_process(pid[d])
      PROVE  child'[c] = child[c]
  <2>1. id[s] = pid[c] /\ pid[c] # None
    BY DEF TableInv, OwnInv
  <2>2. \A r \in 0 .. s - 1 : r \in Slot /\ r # s
    BY SubprocessAssumption, SMT DEF Slot
  <2>3. s \in find_process(pid[c])
    BY <2>1, <2>2 DEF find_process, PidInv
  <2>4. c \notin news
    BY <1>2, <2>3
  <2>5. QED BY <1>1, <2>4
<1>3. ASSUME NEW d \in news, id[s] = pid[d], pid[d] # None, child[d] \in {"stopped"} \cup Dead
      PROVE  d = c
  <2>1. d \in Child /\ Living(d)
    BY <1>3 DEF Living, Alive, TableInv, TypeOK
  <2>2. Owns(d, s)
    BY <1>3, <2>1 DEF PidInv
  <2>3. QED BY <2>1, <2>2, OneOwner
<1>4. CASE raw'[s] = raw[s] /\ \A d \in news : s \notin find_process(pid[d])
  BY <1>2, <1>4
<1>5. CASE \E d \in news : /\ s \in find_process(pid[d]) /\ id[s] = pid[d] /\ pid[d] # None
                           /\ raw'[s] = child[d] /\ child[d] \in {"stopped"} \cup Dead
  <2>1. c \in news /\ raw'[s] = child[c] /\ child[c] \in {"stopped"} \cup Dead
    BY <1>3, <1>5
  <2>2. CASE child[c] \in Dead
    BY <1>1, <2>1, <2>2
  <2>3. CASE child[c] \notin Dead
    BY <1>1, <2>1, <2>3
  <2>4. QED BY <2>2, <2>3
<1>6. QED BY <1>4, <1>5, ReapStep

\* What the table says of deaths stays true.
LEMMA DeathNext ==
  ASSUME TableInv, PidInv, DeathInv, Next
  PROVE  DeathInv'
<1> DEFINE Fine(c, s) == child[c] = "gone" <=> raw[s] \in Dead
<1>1. CASE Record
  <2>1. /\ m.at = "record" /\ id' = [id EXCEPT ![m.s] = pid[m.c]] /\ UNCHANGED <<child, index>>
        /\ raw' = [raw EXCEPT ![m.s] = "running"]
        /\ Making /\ m.c \in Child /\ m.s \in Slot /\ InHand /\ Living(m.c)
    BY <1>1 DEF Record, At, Quiet, kernel, objects, subs, TableInv, OpInv, HandInv, InHand
  <2>2. /\ raw'[m.s] = "running"
        /\ \A s \in Slot : s # m.s => raw'[s] = raw[s]
    BY <2>1 DEF TableInv, TypeOK
  <2>3. m'.c = m.c /\ m'.s = m.s
    BY <1>1 DEF Record, Goto, TableInv, MachineType
  <2>4. ASSUME NEW c \in Child, NEW s \in Slot, Owns(c, s)' PROVE Fine(c, s)'
    <3>1. CASE s = m.s
      <4>1. c = m.c
        BY <2>1, <2>3, <2>4, <3>1 DEF Owns, TableInv, HandInv
      <4>2. QED BY <2>1, <2>2, <3>1, <4>1, SMT DEF Living, Alive, Dead
    <3>2. CASE s # m.s
      <4>1. Owns(c, s)
        BY <2>1, <2>3, <2>4, <3>2 DEF Owns
      <4>2. QED BY <2>1, <2>2, <3>2, <4>1 DEF DeathInv
    <3>3. QED BY <3>1, <3>2
  <2>5. m'.at # "kill"
    BY <1>1, SMT DEF Record, Goto, TableInv, MachineType
  <2>6. QED BY <2>4, <2>5 DEF DeathInv
<1>2. CASE Deallocate
  <2>1. /\ id' = [id EXCEPT ![m.s] = None] /\ UNCHANGED <<raw, child, index>>
        /\ m.s \in Slot
    BY <1>2 DEF Deallocate, At, Quiet, kernel, objects, subs, TableInv, HandInv, InHand,
       Freeing
  <2>2. m'.s = m.s /\ m'.at = "free"
    BY <1>2 DEF Deallocate, Goto, TableInv, MachineType
  <2>3. id'[m.s] = None
    BY <2>1 DEF TableInv, TypeOK
  <2>4. ASSUME NEW c \in Child, NEW s \in Slot, Owns(c, s)' PROVE Fine(c, s)'
    <3>1. Owns(c, s)
      BY <2>1, <2>2, <2>3, <2>4 DEF Owns
    <3>2. QED BY <2>1, <3>1 DEF DeathInv
  <2>5. QED BY <2>2, <2>4 DEF DeathInv
<1>3. ASSUME \A c \in Child, s \in Slot : Owns(c, s)' <=> Owns(c, s), ~Record
      PROVE  DeathInv'
  <2>1. CASE Sigchld
    <3>1. ASSUME NEW c \in Child, NEW s \in Slot, Owns(c, s)' PROVE Fine(c, s)'
      <4>1. Owns(c, s) /\ Fine(c, s)
        BY <1>3, <3>1 DEF DeathInv
      <4>2. QED BY <2>1, <4>1, ReapOwn, SMT DEF Dead
    <3>2. m'.at # "kill"
      <4>1. m.at # "kill"
        <5>1. SUFFICES ASSUME m.at = "kill" PROVE FALSE
          OBVIOUS
        <5>2. masked
          BY <5>1 DEF TableInv, StackInv, Blocking
        <5>3. QED BY <2>1, <5>1, <5>2 DEF Sigchld, SigchldBlocked, At
      <4>2. ~Check
        BY <2>1, ReapStep, CheckStep
      <4>3. QED BY <4>1, <4>2, KillStep
    <3>3. QED BY <3>1, <3>2 DEF DeathInv
  <2>2. ASSUME ~Sigchld PROVE m'.at = "kill" => raw'[m'.s] \in Alive
    <3>1. SUFFICES ASSUME m'.at = "kill" PROVE raw'[m'.s] \in Alive
      OBVIOUS
    <3>2. CASE Check
      <4>1. m'.s = m.s /\ raw[m.s] \in Alive /\ raw' = raw
        BY <3>1, <3>2, CheckStep DEF TableInv, MachineType, table
      <4>2. QED BY <4>1
    <3>3. CASE m.at = "kill" /\ m'.s = m.s
      <4>1. raw[m.s] \in Alive
        BY <3>3 DEF DeathInv
      <4>2. m.s \in Slot
        BY <3>3, Hands, SMT DEF TableInv, OpInv, Quick, Freeing
      <4>3. ~Free /\ \A u \in Thread \ Waiter, k \in Makes : ~Make(u, k)
        BY <3>3 DEF Free, Make, Running, At
      <4>4. Same(m.s)
        BY <1>3, <2>2, <4>2, <4>3, RawSteady
      <4>5. QED BY <3>3, <4>1, <4>4 DEF Same, Alive
    <3>4. QED BY <3>1, <3>2, <3>3, KillStep
  <2>3. ASSUME ~Sigchld, NEW c \in Child, NEW s \in Slot, Owns(c, s)'
        PROVE  child'[c] = "gone" <=> child[c] = "gone"
    <3>1. ASSUME NEW d \in Child, Fork(d) PROVE child'[c] = "gone" <=> child[c] = "gone"
      <4>1. child[d] = "unborn" /\ child' = [child EXCEPT ![d] = "running"]
        BY <3>1 DEF Fork
      <4>2. QED BY <4>1 DEF TableInv, TypeOK
    <3>2. QED BY <2>3, <3>1, ChildrenSteady DEF Settled
  <2>4. ASSUME ~Sigchld, NEW c \in Child, NEW s \in Slot, Owns(c, s)'
        PROVE  raw'[s] \in Dead <=> raw[s] \in Dead
    <3>1. Owns(c, s) /\ Reported(s) /\ id[s] # None
      BY <1>3, <2>4 DEF TableInv, OwnInv
    <3>2. CASE Free
      <4>1. id[m.s] = None /\ raw' = [raw EXCEPT ![m.s] = "free"]
        BY <3>2 DEF Free, At, TableInv, HandInv
      <4>2. QED BY <3>1, <4>1 DEF TableInv, TypeOK
    <3>3. ASSUME NEW u \in Thread \ Waiter, NEW k \in Makes, Make(u, k)
          PROVE  raw'[s] \in Dead <=> raw[s] \in Dead
      <4>1. PICK r \in Slot : raw[r] = "free" /\ raw' = [raw EXCEPT ![r] = "allocated"]
        BY <3>3 DEF Make
      <4>2. r # s
        BY <3>1, <4>1, SMT DEF Reported, Alive, Dead
      <4>3. QED BY <4>1, <4>2 DEF TableInv, TypeOK
    <3>4. CASE Same(s)
      BY <3>4 DEF Same, Dead
    <3>5. QED BY <1>3, <2>4, <3>2, <3>3, <3>4, RawSteady
  <2>5. CASE ~Sigchld
    <3>1. ASSUME NEW c \in Child, NEW s \in Slot, Owns(c, s)' PROVE Fine(c, s)'
      <4>1. Owns(c, s) /\ Fine(c, s)
        BY <1>3, <3>1 DEF DeathInv
      <4>2. QED BY <2>3, <2>4, <2>5, <3>1, <4>1
    <3>2. QED BY <2>2, <2>5, <3>1 DEF DeathInv
  <2>6. QED BY <2>1, <2>5
<1>4. QED BY <1>1, <1>2, <1>3, OwnsSteady

-----------------------------------------------------------------------------
(* The dead                                                                *)

\* What the process table says of the children, on which signals rest, is so at first
LEMMA DeathInit ==
  ASSUME Init
  PROVE  PidInv /\ DeathInv
<1>1. PidInv
  <2>1. \A c \in Child : ~Living(c)
    BY SMT DEF Init, Living, Alive, Dead
  <2>2. \A s \in Slot : id[s] = None
    BY DEF Init
  <2>3. QED BY <2>1, <2>2 DEF PidInv
<1>2. DeathInv
  <2>1. \A c \in Child, s \in Slot : ~Owns(c, s)
    BY SubprocessAssumption DEF Init, Owns
  <2>2. m.at # "kill"
    BY DEF Init, AtRest
  <2>3. QED BY <2>1, <2>2 DEF DeathInv
<1>3. QED BY <1>1, <1>2

\* and stays so
THEOREM DeathInvariant ==
  ASSUME Recycled = FALSE
  PROVE  Spec => [](TableInv /\ PidInv /\ DeathInv)
<1> DEFINE Inv == TableInv /\ PidInv /\ DeathInv
<1>1. Init => Inv
  BY TableInit, DeathInit
<1>2. Inv /\ [Next]_vars => Inv'
  <2>1. CASE Next
    BY <2>1, TableNext, PidNext, DeathNext
  <2>2. ASSUME UNCHANGED vars, PidInv, DeathInv PROVE (PidInv /\ DeathInv)'
    BY <2>2 DEF vars, kernel, table, objects, subs, PidInv, DeathInv, Living, Owns, InHand,
       Making
  <2>3. QED BY <2>1, <2>2, TableNext
<1>3. QED BY <1>1, <1>2, PTL DEF Spec

\* If no process number comes back before its slot is given up, then
\* OS_process_send_signal signals nobody but the child of the object: the status it
\* looked at says that the child has not been reaped, and SIGCHLD stays blocked from
\* the look to the signal.
THEOREM SignalsCorrect ==
  ASSUME Recycled = FALSE
  PROVE  Spec => []SignalsOwn
<1>1. TableInv /\ PidInv /\ DeathInv => SignalsOwn
  <2>1. SUFFICES ASSUME TableInv, DeathInv, m.at = "kill" PROVE child[m.c] \in Alive \cup Dead
    BY DEF SignalsOwn, At
  <2>2. m.c \in Child /\ m.s \in Slot /\ index[m.c] = m.s
    <3>1. m.op \in {"KILL", "TSTP"}
      BY <2>1 DEF TableInv, OpInv
    <3>2. m.op \in Quick \ {"sync-all"} /\ m.at \notin Freeing
      BY <2>1, <3>1, SMT DEF Quick, Freeing
    <3>3. QED BY <2>1, <3>2, Hands DEF TableInv
  <2>3. raw[m.s] \in Alive /\ Owns(m.c, m.s)
    BY <2>1, <2>2 DEF DeathInv, Owns
  <2>4. raw[m.s] \notin Dead
    BY <2>3, SMT DEF Alive, Dead
  <2>5. child[m.c] # "gone" /\ child[m.c] # "unborn"
    BY <2>1, <2>2, <2>3, <2>4 DEF DeathInv, TableInv, OwnInv
  <2>6. QED BY <2>1, <2>2, <2>5 DEF TableInv, TypeOK
<1>2. QED BY <1>1, DeathInvariant, PTL

\* Under the same assumption a slot whose child was reported dead is not made alive by
\* any later report: it is freed before it is used for another child.
THEOREM DeadCorrect ==
  ASSUME Recycled = FALSE
  PROVE  Spec => DeadStayDead
<1> DEFINE Step == \A s \in Slot : raw[s] \in Dead => raw'[s] \in Dead \cup {"free"}
<1>1. ASSUME TableInv, PidInv, DeathInv, Next, NEW s \in Slot, raw[s] \in Dead
      PROVE  raw'[s] \in Dead \cup {"free"}
  <2>1. CASE Sigchld
    <3>1. SUFFICES ASSUME NEW d \in news, id[s] = pid[d], raw'[s] = child[d],
                          child[d] \in {"stopped"} \cup Dead, raw'[s] # raw[s]
                   PROVE  FALSE
      BY <1>1, <2>1, ReapStep
    <3>2. d \in Child /\ Living(d)
      BY <1>1, <3>1 DEF Living, Alive, TableInv, TypeOK
    <3>3. child[d] = "gone"
      BY <1>1, <3>1, <3>2 DEF PidInv, DeathInv
    <3>4. QED BY <3>2, <3>3, SMT DEF Living, Alive, Dead
  <2>2. CASE Record
    <3>1. raw[m.s] = "allocated" /\ raw' = [raw EXCEPT ![m.s] = "running"]
      BY <1>1, <2>2 DEF Record, At, TableInv, OpInv, HandInv
    <3>2. s # m.s
      BY <1>1, <3>1, SMT DEF Dead
    <3>3. QED BY <1>1, <3>1, <3>2 DEF TableInv, TypeOK
  <2>3. CASE Free
    <3>1. raw' = [raw EXCEPT ![m.s] = "free"]
      BY <2>3 DEF Free
    <3>2. raw'[s] = raw[s] \/ raw'[s] = "free"
      BY <1>1, <3>1 DEF TableInv, TypeOK
    <3>3. QED BY <1>1, <3>2
  <2>4. ASSUME NEW u \in Thread \ Waiter, NEW k \in Makes, Make(u, k)
        PROVE  raw'[s] \in Dead \cup {"free"}
    <3>1. PICK r \in Slot : raw[r] = "free" /\ raw' = [raw EXCEPT ![r] = "allocated"]
      BY <2>4 DEF Make
    <3>2. r # s
      BY <1>1, <3>1, SMT DEF Dead
    <3>3. QED BY <1>1, <3>1, <3>2 DEF TableInv, TypeOK
  <2>5. CASE Same(s)
    <3>1. raw[s] # "stopped"
      BY <1>1, SMT DEF Dead
    <3>2. QED BY <1>1, <2>5, <3>1 DEF Same
  <2>6. QED BY <1>1, <2>1, <2>2, <2>3, <2>4, <2>5, RawSteady
<1>2. TableInv /\ PidInv /\ DeathInv /\ [Next]_vars => [Step]_vars
  <2>1. ASSUME UNCHANGED vars PROVE [Step]_vars
    BY <2>1
  <2>2. ASSUME TableInv, PidInv, DeathInv, Next PROVE [Step]_vars
    BY <1>1, <2>2
  <2>3. QED BY <2>1, <2>2
<1> HIDE DEF Step
<1>3. Spec => [][Step]_vars
  BY <1>2, DeathInvariant, PTL DEF Spec
<1>4. QED BY <1>3 DEF DeadStayDead, Step

-----------------------------------------------------------------------------
(* The path of a synchronisation                                           *)

\* Where the machine may be while it synchronises.
LEMMA SyncPlaces ==
  ASSUME TableInv
  PROVE  /\ m.op = "sync" => m.at \in {"block", "sync", "commit", "polled", "loop", "delete"} \cup Freeing
         /\ m.op = "sync-all" => m.at \in {"block", "sync-all", "commit", "handle"}
<1> USE DEF TableInv, OpInv, MachineType, Place, Making
<1>1. ASSUME m.op = "sync"
      PROVE  m.at \in {"block", "sync", "commit", "polled", "loop", "delete"} \cup Freeing
  BY <1>1, SubprocessAssumption, SMT DEF Blocking, Continuing, Ending, Between
<1>2. ASSUME m.op = "sync-all" PROVE m.at \in {"block", "sync-all", "commit", "handle"}
  BY <1>2, SubprocessAssumption, SMT DEF Blocking, Continuing, Ending, Between
<1>3. QED BY <1>1, <1>2

\* What the machine does there.
LEMMA SyncMoves ==
  ASSUME TableInv
  PROVE  /\ Block /\ m.op = "sync" => To("sync")
         /\ Block /\ m.op = "sync-all" => To("sync-all")
         /\ Unwind /\ m.op = "sync" => m.at = "commit" /\ (m' = m \/ To("polled"))
         /\ Unwind /\ m.op = "sync-all" => m.at = "commit" /\ (m' = m \/ To("handle"))
         /\ Sync => /\ m.at = "sync" /\ m'.at = "commit" /\ m'.changed = changed[m.s]
                    /\ m'.op = m.op /\ m'.c = m.c /\ m'.then = m.then /\ m'.todo = m.todo
         /\ SyncAll => m.at = "sync-all" /\ m'.at = "commit" /\ m'.op = m.op /\ m'.changed = unsynced
<1> USE DEF TableInv
<1>1. ASSUME Block, m.op \in {"sync", "sync-all"} PROVE To(m.op)
  <2>1. To(AfterBlock(m.op))
    BY <1>1, Goes DEF Block
  <2>2. AfterBlock(m.op) = m.op
    BY <1>1, SubprocessAssumption, SMT DEF AfterBlock
  <2>3. QED BY <2>1, <2>2
<1>2. ASSUME Unwind, m.op \in {"sync", "sync-all"}
      PROVE  m.at = "commit" /\ (m' = m \/ To(NextOf(m.op)))
  <2>1. m.at = "commit"
    BY <1>2 DEF Unwind, At, OpInv
  <2>2. ~Making
    BY <1>2, SubprocessAssumption, SMT DEF Making
  <2>3. m' = m \/ Returns
    BY <1>2, <2>2, UnwindStep
  <2>4. m.next = NextOf(m.op)
    BY <2>1 DEF OpInv
  <2>5. NextOf(m.op) # "run"
    BY <1>2, SubprocessAssumption, SMT DEF NextOf
  <2>6. m' = m \/ Goto(NextOf(m.op))
    BY <2>3, <2>4, <2>5 DEF Returns, Goto
  <2>7. QED BY <2>1, <2>6, Goes
<1>3. NextOf("sync") = "polled" /\ NextOf("sync-all") = "handle"
  BY SubprocessAssumption, SMT DEF NextOf
<1>4. ASSUME Sync
      PROVE  /\ m.at = "sync" /\ m'.at = "commit" /\ m'.changed = changed[m.s]
             /\ m'.op = m.op /\ m'.c = m.c /\ m'.then = m.then /\ m'.todo = m.todo
  BY <1>4 DEF Sync, At, MachineType
<1>5. ASSUME SyncAll
      PROVE  m.at = "sync-all" /\ m'.at = "commit" /\ m'.op = m.op /\ m'.changed = unsynced
  BY <1>5 DEF SyncAll, At, MachineType
<1>6. ASSUME Block, m.op = "sync" PROVE To("sync")
  BY <1>1, <1>6
<1>7. ASSUME Block, m.op = "sync-all" PROVE To("sync-all")
  BY <1>1, <1>7
<1>8. ASSUME Unwind, m.op = "sync" PROVE m.at = "commit" /\ (m' = m \/ To("polled"))
  BY <1>2, <1>3, <1>8
<1>9. ASSUME Unwind, m.op = "sync-all" PROVE m.at = "commit" /\ (m' = m \/ To("handle"))
  BY <1>2, <1>3, <1>9
<1>10. QED BY <1>4, <1>5, <1>6, <1>7, <1>8, <1>9

\* And what it does with the polls.
LEMMA PollMoves ==
  ASSUME TableInv
  PROVE  /\ Polled => \/ /\ m.at = "polled" /\ m.then \in {"run", "poll"} /\ m'.at = m.then
                         /\ m'.op = "none" /\ m'.todo = m.todo
                      \/ m.at = "polled" /\ m.then \in {"loop", "delete"} /\ To(m.then)
         /\ Handle /\ m.changed => /\ m.at = "handle" /\ m'.at = "poll" /\ m'.op = "none"
                                   /\ m'.todo = {c \in Child : Valid(c)}
         /\ \A d \in Child : PollNext(d) =>
              /\ m.at = "poll" /\ m'.at = "block" /\ m'.op = "sync" /\ m'.c = d
              /\ m'.then = "poll"
              /\ m'.todo = m.todo \ {d}
         /\ New => m.at = "new" /\ m'.at = "block" /\ m'.op = "sync" /\ m'.c = m.c
         /\ \A u \in Thread, d \in Child : Delete(u, d) =>
              m.at = "run" /\ m'.at = "block" /\ m'.op = "sync" /\ m'.then = "delete"
<1> USE DEF TableInv
<1>1. ASSUME Polled
      PROVE  \/ /\ m.at = "polled" /\ m.then \in {"run", "poll"} /\ m'.at = m.then
                /\ m'.op = "none" /\ m'.todo = m.todo
             \/ m.at = "polled" /\ m.then \in {"loop", "delete"} /\ To(m.then)
  <2>1. m.at = "polled"
    BY <1>1 DEF Polled, At
  <2>2. CASE m.then \in {"run", "poll"} /\ m' = [AtRest EXCEPT !.at = m.then, !.todo = m.todo]
    BY <2>1, <2>2 DEF AtRest
  <2>3. CASE m.then \in {"loop", "delete"} /\ m' = [m EXCEPT !.at = m.then]
    <3>1. To(m.then)
      BY <2>3 DEF To, MachineType
    <3>2. QED BY <2>1, <2>3, <3>1
  <2>4. QED BY <1>1, <2>2, <2>3, PolledStep
<1>2. ASSUME Handle, m.changed
      PROVE  /\ m.at = "handle" /\ m'.at = "poll" /\ m'.op = "none"
             /\ m'.todo = {c \in Child : Valid(c)}
  <2>1. /\ m.at = "handle"
        /\ m' = [AtRest EXCEPT !.at = "poll", !.todo = {c \in Child : Valid(c)}]
    BY <1>2 DEF Handle, At
  <2>2. QED BY <2>1 DEF AtRest
<1>3. ASSUME NEW d \in Child, PollNext(d)
      PROVE  /\ m.at = "poll" /\ m'.at = "block" /\ m'.op = "sync" /\ m'.c = d
             /\ m'.then = "poll"
             /\ m'.todo = m.todo \ {d}
  BY <1>3 DEF PollNext, Poll, At, MachineType
<1>4. ASSUME New PROVE m.at = "new" /\ m'.at = "block" /\ m'.op = "sync" /\ m'.c = m.c
  BY <1>4 DEF New, At, MachineType
<1>5. ASSUME NEW u \in Thread, NEW d \in Child, Delete(u, d)
      PROVE  m.at = "run" /\ m'.at = "block" /\ m'.op = "sync" /\ m'.then = "delete"
  BY <1>5 DEF Delete, Running, At, Poll, MachineType
<1>6. QED BY <1>1, <1>2, <1>3, <1>4, <1>5

\* A deletion, and the loop of subprocess-continue-foreground, are left for good.
LEMMA LeaveMoves ==
  ASSUME TableInv
  PROVE  /\ Deleted => m'.at = "deallocate"
         /\ Deallocate => m'.at = "free"
         /\ Free \/ Loop => m'.at = "run"
<1>1. ASSUME Deleted PROVE m'.at = "deallocate"
  BY <1>1 DEF Deleted, Goto, TableInv, MachineType
<1>2. ASSUME Deallocate PROVE m'.at = "free"
  BY <1>2 DEF Deallocate, Goto, TableInv, MachineType
<1>3. ASSUME Free \/ Loop PROVE m'.at = "run"
  <2>1. m' = AtRest
    BY <1>3 DEF Free, Loop
  <2>2. QED BY <2>1, Rests DEF Rest
<1>4. QED BY <1>1, <1>2, <1>3

\* The status of a slot was read by process-status-sync, and is not in the object yet.
Fresh(c) == Syncing /\ m.at \in {"commit", "polled"} /\ c = m.c /\ m.changed

\* A synchronisation of one slot goes on, or the object gets the status.
LEMMA SyncingStep ==
  ASSUME TableInv, Next, Syncing
  PROVE  \/ /\ Syncing' /\ m'.c = m.c /\ m'.then = m.then /\ m'.todo = m.todo
            /\ \/ m'.at = m.at /\ m'.changed = m.changed
               \/ m.at = "block" /\ m'.at = "sync"
               \/ Sync /\ m.at = "sync" /\ m'.at = "commit" /\ m'.changed = changed[m.s]
               \/ m.at = "commit" /\ m'.at = "polled" /\ m'.changed = m.changed
         \/ Polled
<1> DEFINE Goal == \/ /\ Syncing' /\ m'.c = m.c /\ m'.then = m.then /\ m'.todo = m.todo
                      /\ \/ m'.at = m.at /\ m'.changed = m.changed
                         \/ m.at = "block" /\ m'.at = "sync"
                         \/ /\ Sync /\ m.at = "sync" /\ m'.at = "commit"
                            /\ m'.changed = changed[m.s]
                         \/ m.at = "commit" /\ m'.at = "polled" /\ m'.changed = m.changed
                   \/ Polled
<1>1. m.op = "sync" /\ m.at \in {"block", "sync", "commit", "polled"}
  BY DEF Syncing
<1>2. m.at \in Polls
  BY <1>1 DEF Polls
<1>3. CASE m' = m
  BY <1>1, <1>3 DEF Syncing
<1>4. CASE Block
  <2>1. To("sync") /\ m.at = "block"
    BY <1>1, <1>4, SyncMoves DEF Block, At
  <2>2. QED BY <1>1, <2>1 DEF To, Syncing
<1>5. CASE Sync
  <2>1. /\ m.at = "sync" /\ m'.at = "commit" /\ m'.changed = changed[m.s]
        /\ m'.op = m.op /\ m'.c = m.c /\ m'.then = m.then /\ m'.todo = m.todo
    BY <1>5, SyncMoves
  <2>2. QED BY <1>1, <1>5, <2>1 DEF Syncing
<1>6. CASE Unwind
  <2>1. m.at = "commit" /\ (m' = m \/ To("polled"))
    BY <1>1, <1>6, SyncMoves
  <2>2. CASE To("polled")
    BY <1>1, <2>1, <2>2 DEF To, Syncing
  <2>3. QED BY <1>3, <2>1, <2>2
<1>7. m.at \notin {"sync-all", "handle", "poll", "delete", "loop", "deallocate", "free"}
  BY <1>1
<1>8. ~SyncAll /\ ~Handle /\ ~Notify /\ ~Deleted /\ ~Loop /\ ~Deallocate /\ ~Free
  BY <1>7 DEF SyncAll, Handle, Notify, Deleted, Loop, Deallocate, Free, At
<1>9. \A d \in Child : ~PollNext(d)
  BY <1>7 DEF PollNext, At
<1>10. m' = m \/ Block \/ Sync \/ Unwind \/ Polled
  BY <1>2, <1>8, <1>9, PollSteps
<1>11. QED BY <1>3, <1>4, <1>5, <1>6, <1>10

\* A synchronisation of all slots goes on, or the objects are to be polled.
LEMMA SyncAllStep ==
  ASSUME TableInv, Next, m.op = "sync-all"
  PROVE  \/ /\ m'.op = "sync-all"
            /\ \/ m'.at = m.at /\ m'.changed = m.changed
               \/ m.at = "block" /\ m'.at = "sync-all"
               \/ m.at = "sync-all" /\ m'.at = "commit" /\ m'.changed = unsynced
               \/ m.at = "commit" /\ m'.at = "handle" /\ m'.changed = m.changed
         \/ Handle /\ m.at = "handle"
<1>1. m.at \in {"block", "sync-all", "commit", "handle"}
  BY SyncPlaces
<1>2. m.at \in Polls
  BY <1>1 DEF Polls
<1>3. CASE m' = m
  BY <1>3
<1>4. CASE Block
  <2>1. To("sync-all") /\ m.at = "block"
    BY <1>4, SyncMoves DEF Block, At
  <2>2. QED BY <2>1 DEF To
<1>5. CASE SyncAll
  BY <1>5, SyncMoves
<1>6. CASE Unwind
  <2>1. m.at = "commit" /\ (m' = m \/ To("handle"))
    BY <1>6, SyncMoves
  <2>2. CASE To("handle")
    BY <2>1, <2>2 DEF To
  <2>3. QED BY <1>3, <2>1, <2>2
<1>7. CASE Handle
  BY <1>7 DEF Handle, At
<1>8. m.at \notin {"sync", "polled", "poll", "delete", "loop", "deallocate", "free"}
  BY <1>1
<1>9. ~Sync /\ ~Polled /\ ~Notify /\ ~Deleted /\ ~Loop /\ ~Deallocate /\ ~Free
  BY <1>8 DEF Sync, Polled, Notify, Deleted, Loop, Deallocate, Free, At
<1>10. \A d \in Child : ~PollNext(d)
  BY <1>8 DEF PollNext, At
<1>11. m' = m \/ Block \/ SyncAll \/ Unwind \/ Handle
  BY <1>2, <1>9, <1>10, PollSteps
<1>12. QED BY <1>3, <1>4, <1>5, <1>6, <1>7, <1>11

\* Between two polls the next one begins, or the registrations are looked at.
LEMMA RoundStep ==
  ASSUME TableInv, Next, m.at = "poll"
  PROVE  m' = m \/ Notify \/ \E d \in Child : PollNext(d)
<1>1. m.at \in Polls
  BY DEF Polls
<1>2. /\ ~Block /\ ~Sync /\ ~SyncAll /\ ~Polled /\ ~Handle
      /\ ~Deleted /\ ~Loop /\ ~Deallocate /\ ~Free
  BY DEF Block, Sync, SyncAll, Polled, Handle, Deleted, Loop, Deallocate, Free, At
<1>3. ~Unwind
  BY DEF Unwind, At, Ending
<1>4. QED BY <1>1, <1>2, <1>3, PollSteps

\* What Due and Fresh are about goes on until process-status-sync is called for the
\* object, and until the object gets the status.
LEMMA DueStep ==
  ASSUME TableInv, SyncInv, Next
  PROVE  \A d \in Child : index[d] # None /\ Due(d) => Due(d)' \/ (Sync /\ d = m.c)
<1> SUFFICES ASSUME NEW d \in Child, index[d] # None, Due(d)
             PROVE  Due(d)' \/ (Sync /\ d = m.c)
  OBVIOUS
<1>1. CASE m.op = "sync-all" /\ m.at \in {"commit", "handle"}
  <2>1. m.changed
    BY <1>1 DEF SyncInv, Ticked
  <2>2. CASE Handle /\ m.at = "handle"
    <3>1. m'.at = "poll" /\ m'.todo = {c \in Child : Valid(c)}
      BY <2>1, <2>2, PollMoves
    <3>2. d \in m'.todo
      BY <3>1 DEF Valid
    <3>3. QED BY <3>1, <3>2 DEF Due
  <2>3. CASE m'.op = "sync-all" /\ m'.at \in {"commit", "handle"}
    BY <2>3 DEF Due
  <2>4. QED BY <1>1, <2>2, <2>3, SyncAllStep
<1>2. CASE m.at = "poll" /\ d \in m.todo
  <2>1. CASE m' = m
    BY <1>2, <2>1 DEF Due
  <2>2. ~Notify
    BY <1>2 DEF Notify
  <2>3. ASSUME NEW e \in Child, PollNext(e) PROVE Due(d)'
    <3>1. /\ m'.at = "block" /\ m'.op = "sync" /\ m'.c = e /\ m'.then = "poll"
          /\ m'.todo = m.todo \ {e}
      BY <2>3, PollMoves
    <3>2. d \in m'.todo \/ d = m'.c
      BY <1>2, <3>1
    <3>3. QED BY <3>1, <3>2 DEF Due, Syncing
  <2>4. QED BY <1>2, <2>1, <2>2, <2>3, RoundStep
<1>3. CASE /\ Syncing /\ m.then = "poll"
           /\ (d \in m.todo \/ (d = m.c /\ m.at \in {"block", "sync"}))
  <2>1. CASE Polled
    <3>1. m.at = "polled"
      BY <2>1 DEF Polled, At
    <3>2. m'.at = "poll" /\ m'.todo = m.todo
      BY <1>3, <2>1, PollMoves
    <3>3. QED BY <1>3, <3>1, <3>2 DEF Due
  <2>2. CASE /\ Syncing' /\ m'.c = m.c /\ m'.then = m.then /\ m'.todo = m.todo
             /\ \/ m'.at = m.at
                \/ m.at = "block" /\ m'.at = "sync"
                \/ Sync /\ m.at = "sync" /\ m'.at = "commit"
                \/ m.at = "commit" /\ m'.at = "polled"
    <3>1. CASE d \in m.todo
      BY <1>3, <2>2, <3>1 DEF Due
    <3>2. CASE d = m.c /\ m.at \in {"block", "sync"}
      <4>1. m'.at \in {"block", "sync"} \/ Sync
        BY <2>2, <3>2
      <4>2. QED BY <1>3, <2>2, <3>2, <4>1 DEF Due
    <3>3. QED BY <1>3, <3>1, <3>2
  <2>3. QED BY <1>3, <2>1, <2>2, SyncingStep
<1>4. QED BY <1>1, <1>2, <1>3 DEF Due

\* The object gets the status that was read.
LEMMA FreshStep ==
  ASSUME TableInv, Next
  PROVE  \A d \in Child : Fresh(d) => Fresh(d)' \/ Polled
<1> SUFFICES ASSUME NEW d \in Child, Fresh(d) PROVE Fresh(d)' \/ Polled
  OBVIOUS
<1>1. Syncing /\ m.at \in {"commit", "polled"} /\ d = m.c /\ m.changed
  BY DEF Fresh
<1>2. \/ Syncing' /\ m'.c = m.c /\ m'.at \in {"commit", "polled"} /\ m'.changed = m.changed
      \/ Polled
  BY <1>1, SyncingStep
<1>3. QED BY <1>1, <1>2 DEF Fresh

\* A round of polls ends with the look at the registrations.
LEMMA PollingStep ==
  ASSUME TableInv, Next
  PROVE  Polling => Polling' \/ Notify
<1>1. ASSUME m.at = "poll" PROVE Polling' \/ Notify
  <2>1. CASE m' = m
    BY <1>1, <2>1 DEF Polling
  <2>2. ASSUME NEW e \in Child, PollNext(e) PROVE Polling'
    <3>1. m'.at = "block" /\ m'.op = "sync" /\ m'.then = "poll"
      BY <2>2, PollMoves
    <3>2. QED BY <3>1 DEF Polling, Syncing
  <2>3. QED BY <1>1, <2>1, <2>2, RoundStep
<1>2. ASSUME Syncing, m.then = "poll" PROVE Polling'
  <2>1. CASE Polled
    <3>1. m'.at = "poll"
      BY <1>2, <2>1, PollMoves
    <3>2. QED BY <3>1 DEF Polling
  <2>2. CASE Syncing' /\ m'.then = m.then
    BY <1>2, <2>2 DEF Polling
  <2>3. QED BY <1>2, <2>1, <2>2, SyncingStep
<1>3. QED BY <1>1, <1>2 DEF Polling

\* A deletion under way ends with the deletion.
LEMMA DeleteStep ==
  ASSUME TableInv, Next
  PROVE  m.at = "delete" => (m'.at = "delete" /\ m'.c = m.c) \/ Deleted
<1> SUFFICES ASSUME m.at = "delete" PROVE m' = m \/ Deleted
  OBVIOUS
<1>1. m.at \in Polls
  BY DEF Polls
<1>2. /\ ~Block /\ ~Sync /\ ~SyncAll /\ ~Polled /\ ~Handle
      /\ ~Notify /\ ~Loop /\ ~Deallocate /\ ~Free
  BY DEF Block, Sync, SyncAll, Polled, Handle, Notify, Loop, Deallocate, Free, At
<1>3. ~Unwind /\ \A d \in Child : ~PollNext(d)
  BY DEF Unwind, At, Ending, PollNext
<1>4. QED BY <1>1, <1>2, <1>3, PollSteps

\* make-subprocess polls an object once, from its birth on.
LEMMA FirstStep ==
  ASSUME TableInv, Next
  PROVE  First' => (First /\ m'.c = m.c) \/ New
<1> SUFFICES ASSUME Syncing', m'.then \in {"run", "loop"}
             PROVE  (First /\ m'.c = m.c) \/ New
  BY DEF First
<1>1. m'.op = "sync" /\ m'.at \in {"block", "sync", "commit", "polled"}
  BY DEF Syncing
<1>2. CASE \E e \in Child : PollNext(e)
  BY <1>2, PollMoves
<1>3. CASE \E u \in Thread, e \in Child : Delete(u, e)
  BY <1>3, PollMoves
<1>4. CASE Syncing
  <2>1. CASE Polled
    <3>1. CASE m'.op = "none"
      BY <1>1, <3>1
    <3>2. CASE m.then \in {"loop", "delete"} /\ To(m.then)
      BY <1>1, <3>2 DEF To
    <3>3. QED BY <2>1, <3>1, <3>2, PollMoves
  <2>2. CASE m'.c = m.c /\ m'.then = m.then
    BY <1>4, <2>2 DEF First
  <2>3. QED BY <1>4, <2>1, <2>2, SyncingStep
<1>5. CASE m.op = "sync" /\ ~Syncing
  <2>1. m.at \in {"loop", "delete", "deallocate", "free"}
    BY <1>5, SyncPlaces DEF Syncing, Freeing
  <2>2. m.at \in Polls
    BY <2>1 DEF Polls
  <2>3. CASE m' = m
    BY <1>5, <2>3 DEF Syncing
  <2>4. /\ ~Block /\ ~Sync /\ ~SyncAll /\ ~Polled /\ ~Handle /\ ~Notify
    BY <2>1 DEF Block, Sync, SyncAll, Polled, Handle, Notify, At
  <2>5. ~Unwind /\ \A d \in Child : ~PollNext(d)
    BY <2>1 DEF Unwind, At, Ending, PollNext
  <2>6. ASSUME Deleted \/ Loop \/ Deallocate \/ Free PROVE FALSE
    <3>1. CASE Deleted
      BY <1>1, <3>1, LeaveMoves
    <3>2. CASE Loop
      BY <1>1, <3>2, LeaveMoves
    <3>3. CASE Deallocate
      BY <1>1, <3>3, LeaveMoves
    <3>4. CASE Free
      BY <1>1, <3>4, LeaveMoves
    <3>5. QED BY <2>6, <3>1, <3>2, <3>3, <3>4
  <2>7. QED BY <2>2, <2>3, <2>4, <2>5, <2>6, PollSteps
<1>6. QED BY <1>1, <1>2, <1>3, <1>4, <1>5, Arrivals

\* The machine falls asleep from the idle loop.
LEMMA IdleStep ==
  ASSUME TableInv, Next
  PROVE  Sleeping' => Sleeping \/ Idle
<1>1. ASSUME Select PROVE Sleeping
  BY <1>1 DEF Select, At, Sleeping
<1>2. ASSUME m' = m, Sleeping' PROVE Sleeping
  BY <1>2 DEF Sleeping
<1>3. QED BY <1>1, <1>2, Arrivals

\* OS_process_status_sync_all is called after a change of status, and nobody sleeps on one.
LEMMA TickedNext ==
  ASSUME TableInv, Ticked, Next
  PROVE  Ticked'
<1>1. ASSUME m.op = "sync-all", m'.op = "sync-all", m'.at \in {"block", "sync-all"}
      PROVE  unsynced'
  <2>1. ~SyncAll
    BY <1>1, SyncMoves
  <2>2. CASE Handle /\ m.at = "handle"
    <3>1. m.changed
      BY <1>1, <2>2 DEF Ticked
    <3>2. QED BY <1>1, <2>2, <3>1, PollMoves
  <2>3. CASE m.at \in {"block", "sync-all"}
    <3>1. unsynced
      BY <1>1, <2>3 DEF Ticked
    <3>2. QED BY <2>1, <3>1, UnsyncedSteady
  <2>4. QED BY <1>1, <2>2, <2>3, SyncAllStep
<1>2. ASSUME m.op = "sync-all", m'.op = "sync-all", m'.at \notin {"block", "sync-all"}
      PROVE  m'.changed
  <2>1. CASE Handle /\ m.at = "handle"
    <3>1. m.changed
      BY <1>2, <2>1 DEF Ticked
    <3>2. QED BY <1>2, <2>1, <3>1, PollMoves
  <2>2. CASE m.at = "sync-all" /\ m'.changed = unsynced
    BY <1>2, <2>2 DEF Ticked
  <2>3. CASE m.at \notin {"block", "sync-all"} /\ m'.changed = m.changed
    BY <1>2, <2>3 DEF Ticked
  <2>4. QED BY <1>2, <2>1, <2>2, <2>3, SyncAllStep
<1>3. ASSUME Selected, m'.op = "sync-all" PROVE m'.at = "block" /\ unsynced'
  <2>1. CASE ~unsynced /\ m' = AtRest
    BY <1>3, <2>1 DEF AtRest
  <2>2. CASE unsynced /\ Call("sync-all", None, "handle")
    <3>1. m'.at = "block"
      BY <2>2 DEF Call, TableInv, MachineType
    <3>2. UNCHANGED unsynced
      BY <1>3 DEF Selected
    <3>3. QED BY <2>2, <3>1, <3>2
  <2>3. QED BY <1>3, <2>1, <2>2 DEF Selected
<1>4. ASSUME m'.at = "ppoll" PROVE ~unsynced'
  <2>1. CASE Idle
    BY <1>4, <2>1 DEF Idle, Goto, TableInv, MachineType
  <2>2. CASE Select
    <3>1. CASE unsynced \/ interrupt
      <4>1. Goto("selected")
        BY <2>2, <3>1 DEF Select
      <4>2. QED BY <1>4, <4>1 DEF Goto, TableInv, MachineType
    <3>2. CASE ~unsynced
      BY <2>2, <3>2 DEF Select, UCode
    <3>3. QED BY <3>1, <3>2
  <2>3. CASE m' = m
    <3>1. m.at = "ppoll" /\ ~unsynced
      BY <1>4, <2>3 DEF Ticked
    <3>2. ~Sigchld
      <4>1. SUFFICES ASSUME Goto("selected") PROVE FALSE
        BY <3>1 DEF Sigchld, Reaped, Woken, At
      <4>2. QED BY <1>4, <4>1 DEF Goto, TableInv, MachineType
    <3>3. ~Record /\ ~Sync /\ ~SyncAll /\ ~Deallocate /\ ~Free
      BY <3>1 DEF Record, Sync, SyncAll, Deallocate, Free, At
    <3>4. (\A u \in Thread \ Waiter, k \in Makes : ~Make(u, k)) /\ \A g \in BOOLEAN : ~ContinueStopped(g)
      BY <3>1, ContinueStep DEF Make, Running, At, TableInv
    <3>5. QED BY <3>1, <3>2, <3>3, <3>4, TableSteady
  <2>4. Sleeping'
    BY <1>4 DEF Sleeping
  <2>5. QED BY <2>1, <2>2, <2>3, <2>4, Arrivals
<1>5. ASSUME m'.op = "sync-all"
      PROVE  IF m'.at \in {"block", "sync-all"} THEN unsynced' ELSE m'.changed
  <2>1. CASE m.op = "sync-all"
    BY <1>1, <1>2, <1>5, <2>1
  <2>2. CASE Selected
    BY <1>3, <1>5, <2>2
  <2>3. QED BY <1>5, <2>1, <2>2, Arrivals
<1>6. QED BY <1>4, <1>5 DEF Ticked

\* What happens to a slot.
LEMMA SlotStep ==
  ASSUME TableInv, Next, NEW s \in Slot
  PROVE  \/ /\ id'[s] = id[s] /\ raw'[s] = raw[s] /\ status'[s] = status[s]
            /\ changed'[s] = changed[s]
         \/ id'[s] = None
         \/ id'[s] = id[s] /\ status'[s] = status[s] /\ changed'[s] /\ unsynced'
         \/ /\ Record /\ s = m.s /\ InHand
            /\ raw'[s] = "running" /\ status'[s] = "running" /\ ~changed'[s]
         \/ /\ Sync /\ s = m.s /\ id'[s] = id[s] /\ ~changed'[s]
            /\ raw'[s] = raw[s] /\ status'[s] = raw[s]
<1> DEFINE Goal == \/ /\ id'[s] = id[s] /\ raw'[s] = raw[s] /\ status'[s] = status[s]
                      /\ changed'[s] = changed[s]
                   \/ id'[s] = None
                   \/ id'[s] = id[s] /\ status'[s] = status[s] /\ changed'[s] /\ unsynced'
                   \/ /\ Record /\ s = m.s /\ InHand
                      /\ raw'[s] = "running" /\ status'[s] = "running" /\ ~changed'[s]
                   \/ /\ Sync /\ s = m.s /\ id'[s] = id[s] /\ ~changed'[s]
                      /\ raw'[s] = raw[s] /\ status'[s] = raw[s]
<1> SUFFICES Goal
  OBVIOUS
<1>1. CASE UNCHANGED table
  BY <1>1 DEF table
<1>2. CASE Sigchld
  BY <1>2, ReapStep
<1>3. CASE Record
  <2>1. /\ InHand
        /\ id' = [id EXCEPT ![m.s] = pid[m.c]] /\ raw' = [raw EXCEPT ![m.s] = "running"]
        /\ status' = [status EXCEPT ![m.s] = "running"]
        /\ changed' = [changed EXCEPT ![m.s] = FALSE]
    BY <1>3 DEF Record, At, TableInv, OpInv, InHand
  <2>2. CASE s = m.s
    BY <1>3, <2>1, <2>2 DEF TableInv, TypeOK
  <2>3. CASE s # m.s
    BY <2>1, <2>3 DEF TableInv, TypeOK
  <2>4. QED BY <2>2, <2>3
<1>4. CASE Sync
  <2>1. /\ UNCHANGED <<id, raw>> /\ status' = [status EXCEPT ![m.s] = raw[m.s]]
        /\ changed' = [changed EXCEPT ![m.s] = FALSE]
    BY <1>4 DEF Sync
  <2>2. CASE s = m.s
    BY <1>4, <2>1, <2>2 DEF TableInv, TypeOK
  <2>3. CASE s # m.s
    BY <2>1, <2>3 DEF TableInv, TypeOK
  <2>4. QED BY <2>2, <2>3
<1>5. CASE Deallocate
  <2>1. UNCHANGED <<raw, status, changed>> /\ id' = [id EXCEPT ![m.s] = None]
    BY <1>5 DEF Deallocate
  <2>2. id'[s] = id[s] \/ id'[s] = None
    BY <2>1 DEF TableInv, TypeOK
  <2>3. QED BY <2>1, <2>2
<1>6. CASE Free
  <2>1. /\ UNCHANGED <<id, status, changed>> /\ raw' = [raw EXCEPT ![m.s] = "free"]
        /\ id[m.s] = None
    BY <1>6 DEF Free, At, TableInv, HandInv
  <2>2. raw'[s] = raw[s] \/ s = m.s
    BY <2>1 DEF TableInv, TypeOK
  <2>3. QED BY <2>1, <2>2
<1>7. ASSUME NEW u \in Thread \ Waiter, NEW k \in Makes, Make(u, k)
      PROVE  UNCHANGED <<id, status, changed>> /\ (raw'[s] = raw[s] \/ id'[s] = None)
  <2>1. PICK r \in Slot : raw[r] = "free" /\ raw' = [raw EXCEPT ![r] = "allocated"]
    BY <1>7 DEF Make
  <2>2. UNCHANGED <<id, status, changed>>
    BY <1>7 DEF Make
  <2>3. CASE s = r
    <3>1. ~Reported(s)
      BY <2>1, <2>3, SMT DEF Reported, Alive, Dead
    <3>2. QED BY <2>2, <3>1 DEF TableInv, OwnInv
  <2>4. CASE s # r
    BY <2>1, <2>2, <2>4 DEF TableInv, TypeOK
  <2>5. QED BY <2>3, <2>4
<1>8. ASSUME NEW f \in BOOLEAN, ContinueStopped(f), ~UNCHANGED table
      PROVE  id'[s] = id[s] /\ status'[s] = status[s]
             /\ ((changed'[s] /\ unsynced') \/ (raw'[s] = raw[s] /\ changed'[s] = changed[s]))
  <2>1. NewRawStatus([r \in {m.s} |-> "running"])
    BY <1>8, ContinueStep
  <2>n. DOMAIN [r \in {m.s} |-> "running"] = {m.s}
    OBVIOUS
  <2>2. /\ raw' = [r \in Slot |-> IF r \in {m.s} THEN [q \in {m.s} |-> "running"][r] ELSE raw[r]]
        /\ changed' = [r \in Slot |-> r \in {m.s} \/ changed[r]]
        /\ unsynced' = (unsynced \/ {m.s} # {}) /\ UNCHANGED <<id, status>>
    BY <2>1, <2>n DEF NewRawStatus
  <2>3. CASE s = m.s
    BY <2>2, <2>3
  <2>4. CASE s # m.s
    <3>1. changed[s] \in BOOLEAN
      BY DEF TableInv, TypeOK
    <3>2. QED BY <2>2, <2>4, <3>1
  <2>5. QED BY <2>3, <2>4
<1>9. ASSUME NEW u \in Thread \ Waiter, NEW k \in Makes, Make(u, k) PROVE Goal
  BY <1>7, <1>9
<1>10. ASSUME NEW f \in BOOLEAN, ContinueStopped(f) PROVE Goal
  BY <1>1, <1>8, <1>10
<1> HIDE DEF Goal
<1>11. \/ UNCHANGED table \/ Sigchld \/ Record \/ Sync \/ SyncAll \/ Deallocate \/ Free
       \/ (\E u \in Thread \ Waiter, k \in Makes : Make(u, k))
       \/ \E g \in BOOLEAN : ContinueStopped(g)
  BY TableSteady
<1>12. SyncAll => UNCHANGED table
  BY DEF SyncAll, table
<1>13. QED BY <1>1, <1>2, <1>3, <1>4, <1>5, <1>6, <1>9, <1>10, <1>11, <1>12

\* Slots, ticks and objects stay in step.
LEMMA SyncNext ==
  ASSUME TableInv, SyncInv, Next
  PROVE  SyncInv'
<1>1. ASSUME Sync
      PROVE  /\ m.at = "sync" /\ m.s \in Slot /\ m.c \in Child /\ index[m.c] = m.s
             /\ id[m.s] # None /\ m.op = "sync" /\ UNCHANGED <<index, known, unsynced>>
             /\ m' = [m EXCEPT !.at = "commit", !.changed = changed[m.s]]
  <2>1. m.at = "sync" /\ m.op = "sync"
    BY <1>1 DEF Sync, At, TableInv, OpInv
  <2>2. m.s \in Slot /\ m.c \in Child /\ index[m.c] = m.s /\ Owns(m.c, m.s)
    BY <2>1, Hands, SMT DEF Quick, Freeing
  <2>3. QED BY <1>1, <2>1, <2>2 DEF Sync, objects, subs, TableInv, OwnInv
<1>2. ASSUME NEW s \in Slot, id'[s] # None, ~changed'[s] PROVE status'[s] = raw'[s]
  <2>1. CASE /\ id'[s] = id[s] /\ raw'[s] = raw[s] /\ status'[s] = status[s]
             /\ changed'[s] = changed[s]
    BY <1>2, <2>1 DEF SyncInv
  <2>2. QED BY <1>2, <2>1, SlotStep
<1>3. ASSUME NEW s \in Slot, id'[s] # None, changed'[s], ~unsynced'
      PROVE  \E c \in Child : index'[c] = s /\ Due(c)'
  <2>1. id[s] # None /\ changed[s]
    BY <1>3, SlotStep
  <2>2. CASE SyncAll
    <3>1. /\ m.op = "sync-all" /\ m.at = "sync-all" /\ index' = index
          /\ m' = [m EXCEPT !.at = "commit", !.changed = unsynced]
      BY <2>2 DEF SyncAll, At, TableInv, OpInv, objects, subs
    <3>2. m'.at = "commit" /\ m'.op = "sync-all"
      BY <3>1, SMT DEF TableInv, MachineType
    <3>3. ~InHand
      BY <3>1, SubprocessAssumption, SMT DEF InHand, Making, Freeing
    <3>4. PICK c \in Child : Owns(c, s)
      BY <2>1 DEF TableInv, OwnInv
    <3>5. index[c] = s
      BY <3>3, <3>4 DEF Owns
    <3>6. QED BY <3>1, <3>2, <3>5 DEF Due
  <2>3. CASE ~SyncAll
    <3>1. ~unsynced
      BY <1>3, <2>3, UnsyncedSteady
    <3>2. PICK c \in Child : index[c] = s /\ Due(c)
      BY <2>1, <3>1 DEF SyncInv
    <3>3. index[c] # None
      BY <3>2, SubprocessAssumption
    <3>4. ~(Sync /\ c = m.c)
      <4>1. SUFFICES ASSUME Sync, c = m.c PROVE FALSE
        OBVIOUS
      <4>2. changed' = [changed EXCEPT ![m.s] = FALSE] /\ m.s = s
        BY <1>1, <3>2, <4>1 DEF Sync
      <4>3. QED BY <1>3, <4>2 DEF TableInv, TypeOK
    <3>5. Due(c)'
      BY <3>2, <3>3, <3>4, DueStep
    <3>6. CASE New
      <4>1. m.at = "new" /\ index' = [index EXCEPT ![m.c] = m.s]
        BY <3>6 DEF New, At
      <4>2. index[m.c] = None \/ m.c \notin Child
        BY <4>1 DEF TableInv, OpInv, HandInv, InHand
      <4>3. index'[c] = s
        BY <3>2, <3>3, <4>1, <4>2 DEF TableInv, TypeOK
      <4>4. QED BY <3>5, <4>3
    <3>7. CASE Deleted
      <4>1. m.at = "delete" /\ m.op = "sync"
        BY <3>7 DEF Deleted, At, TableInv, OpInv
      <4>2. QED BY <3>2, <4>1, SMT DEF Due, Syncing
    <3>8. CASE UNCHANGED index
      BY <3>2, <3>5, <3>8
    <3>9. QED BY <3>6, <3>7, <3>8, SubsSteady DEF subs, Polled
  <2>4. QED BY <2>2, <2>3
<1>4. ASSUME NEW c \in Child, index'[c] # None
      PROVE  known'[c] = status'[index'[c]] \/ Fresh(c)'
  <2>1. ASSUME index[c] # None, m.at \notin {"commit", "polled"}
        PROVE  known[c] = status[index[c]]
    BY <2>1 DEF SyncInv
  <2>2. CASE New
    <3>1. /\ m.at = "new" /\ status' = status /\ index' = [index EXCEPT ![m.c] = m.s]
          /\ known' = [known EXCEPT ![m.c] = status[m.s]]
      BY <2>2 DEF New, At, UCode, table
    <3>2. CASE c = m.c
      BY <3>1, <3>2 DEF TableInv, TypeOK
    <3>3. CASE c # m.c
      <4>1. index'[c] = index[c] /\ known'[c] = known[c]
        BY <3>1, <3>3 DEF TableInv, TypeOK
      <4>2. QED BY <1>4, <2>1, <3>1, <4>1
    <3>4. QED BY <3>2, <3>3
  <2>3. CASE Polled
    <3>1. /\ m.at = "polled" /\ m.op = "sync" /\ status' = status /\ index' = index
          /\ known' = [known EXCEPT ![m.c] = IF m.changed THEN status[m.s] ELSE @]
      BY <2>3 DEF Polled, At, UCode, table, TableInv, OpInv
    <3>2. m.c \in Child /\ index[m.c] = m.s
      BY <3>1, Hands, SMT DEF Quick, Freeing
    <3>3. CASE c = m.c /\ m.changed
      BY <3>1, <3>2, <3>3 DEF TableInv, TypeOK
    <3>4. CASE ~(c = m.c /\ m.changed)
      <4>1. known'[c] = known[c]
        BY <3>1, <3>4 DEF TableInv, TypeOK
      <4>2. known[c] = status[index[c]]
        BY <1>4, <3>1, <3>4 DEF SyncInv
      <4>3. QED BY <3>1, <4>1, <4>2
    <3>5. QED BY <3>3, <3>4
  <2>4. CASE Deleted
    <3>1. /\ m.at = "delete" /\ status' = status /\ known' = known
          /\ index' = [index EXCEPT ![m.c] = None]
      BY <2>4 DEF Deleted, At, UCode, table
    <3>2. index'[c] = index[c]
      BY <1>4, <3>1 DEF TableInv, TypeOK
    <3>3. QED BY <1>4, <2>1, <3>1, <3>2
  <2>5. ASSUME UNCHANGED subs, ~Polled PROVE known'[c] = status'[index'[c]] \/ Fresh(c)'
    <3>1. index'[c] = index[c] /\ known'[c] = known[c] /\ index[c] \in Slot
      BY <1>4, <2>5 DEF subs, TableInv, TypeOK
    <3>2. CASE Fresh(c)
      BY <2>5, <3>2, FreshStep
    <3>3. CASE ~Fresh(c)
      <4>1. known[c] = status[index[c]]
        BY <1>4, <3>1, <3>3 DEF SyncInv, Fresh
      <4>2. id'[index[c]] # None
        <5>1. index'[c] \in Slot
          BY <3>1
        <5>2. Owns(c, index[c])'
          BY <3>1 DEF Owns
        <5>3. QED BY <3>1, <5>2, OwnNext DEF OwnInv
      <4>3. ~(InHand /\ index[c] = m.s)
        BY DEF TableInv, HandInv
      <4>4. CASE Sync /\ index[c] = m.s
        <5>1. c = m.c
          <6>1. m.c \in Child /\ index[m.c] = m.s /\ m.s \in Slot
            BY <1>1, <4>4
          <6>2. Owns(c, m.s) /\ Owns(m.c, m.s)
            BY <4>4, <6>1 DEF Owns
          <6>3. QED BY <6>1, <6>2, OneOwner
        <5>2. CASE changed[m.s]
          <6>1. m'.at = "commit" /\ m'.op = "sync" /\ m'.c = m.c /\ m'.changed
            <7>1. m.op = "sync" /\ m' = [m EXCEPT !.at = "commit", !.changed = changed[m.s]]
              BY <1>1, <4>4
            <7>2. QED BY <5>2, <7>1 DEF TableInv, MachineType
          <6>2. QED BY <5>1, <6>1 DEF Fresh, Syncing
        <5>3. CASE ~changed[m.s]
          <6>1. status[m.s] = raw[m.s]
            BY <1>1, <4>4, <5>3 DEF SyncInv
          <6>2. status'[m.s] = raw[m.s]
            BY <1>1, <4>4 DEF Sync, TableInv, TypeOK
          <6>3. QED BY <3>1, <4>1, <4>4, <6>1, <6>2
        <5>4. QED BY <5>2, <5>3
      <4>5. CASE status'[index[c]] = status[index[c]]
        BY <3>1, <4>1, <4>5
      <4>6. QED BY <3>1, <4>2, <4>3, <4>4, <4>5, SlotStep
    <3>4. QED BY <3>2, <3>3
  <2>6. QED BY <2>2, <2>3, <2>4, <2>5, SubsSteady
<1>5. Ticked'
  BY TickedNext DEF SyncInv
<1>6. QED BY <1>2, <1>3, <1>4, <1>5 DEF SyncInv, Fresh

\* The registered events stay those of the threads that wait.
LEMMA WaitNext ==
  ASSUME TableInv, WaitInv, Next
  PROVE  WaitInv'
<1> USE DEF TableInv
<1>1. \A r \in regs : r.c \in Child /\ r.thread \in Thread /\ r.status \in Alive \cup Dead
  BY DEF ObjectType
<1>2. \A t \in Thread : waits[t] \in Child => known[waits[t]] # None
  BY DEF WaitInv
<1>a. \A r \in regs : waits[r.thread] = r.c
  BY DEF WaitInv
<1>b. \A r, q \in regs : r.thread = q.thread => r = q
  BY DEF WaitInv
<1>c. ASSUME NEW t \in Thread, waits[t] \in Child, index[waits[t]] # None,
             result[t] \in {None, "running"}
      PROVE  \E r \in regs : r.thread = t /\ r.status = "running"
  BY <1>c DEF WaitInv
<1>d. \A t \in Thread : waits[t] = None => \A r \in regs : r.thread # t
  BY <1>1, <1>a, SubprocessAssumption
<1>3. ASSUME NEW u \in Waiter, NEW d \in Child, WaitFor(u, d) PROVE WaitInv'
  <2> DEFINE new == [c |-> d, thread |-> u, status |-> known[d]]
  <2>1. /\ m.at = "run" /\ m' = m /\ UNCHANGED <<index, known>> /\ waits[u] = None
        /\ known[d] # None /\ waits' = [waits EXCEPT ![u] = d] /\ regs' = regs \cup {new}
        /\ result' = [result EXCEPT ![u] = IF known[d] = "running" THEN None ELSE known[d]]
    BY <1>3 DEF WaitFor, Running, At, subs
  <2>2. /\ u \in Thread
        /\ new.c = d /\ new.thread = u /\ new.status = known[d]
    BY SubprocessAssumption
  <2>3. /\ waits'[u] = d /\ result'[u] = IF known[d] = "running" THEN None ELSE known[d]
        /\ \A t \in Thread : t # u => waits'[t] = waits[t] /\ result'[t] = result[t]
    BY <2>1, <2>2 DEF ObjectType
  <2>4. \A r \in regs : r.thread # u
    BY <1>d, <2>1, <2>2
  <2>5. ~First' /\ ~Sleeping'
    BY <2>1 DEF First, Syncing, Sleeping
  <2> HIDE DEF new
  <2>a. \A r \in regs' : r \in regs \/ r = new
    BY <2>1
  <2>6. ASSUME NEW r \in regs' PROVE waits'[r.thread] = r.c
    <3>1. CASE r = new
      BY <2>2, <2>3, <3>1
    <3>2. CASE r \in regs
      BY <1>1, <1>a, <2>3, <2>4, <3>2
    <3>3. QED BY <2>a, <3>1, <3>2
  <2>7. \A r, q \in regs' : r.thread = q.thread => r = q
    BY <1>b, <2>2, <2>4, <2>a
  <2>8. ASSUME NEW r \in regs' PROVE r.status = known'[r.c]
    <3>1. CASE r = new
      BY <2>1, <2>2, <3>1
    <3>2. CASE r \in regs
      BY <2>1, <3>2 DEF WaitInv, Polling, Syncing
    <3>3. QED BY <2>1, <3>1, <3>2
  <2>9. \A t \in Thread : waits'[t] \in Child => known'[waits'[t]] # None
    BY <1>2, <2>1, <2>2, <2>3
  <2>10. ASSUME NEW t \in Thread, waits'[t] \in Child, index'[waits'[t]] # None,
                result'[t] \in {None, "running"}
         PROVE  \E r \in regs' : r.thread = t /\ r.status = "running"
    <3>1. CASE t = u
      <4>1. known[d] = "running"
        BY <2>1, <2>3, <2>10, <3>1
      <4>2. QED BY <2>1, <2>2, <3>1, <4>1
    <3>2. CASE t # u
      <4>1. \E r \in regs : r.thread = t /\ r.status = "running"
        <5>1. waits[t] \in Child /\ index[waits[t]] # None /\ result[t] \in {None, "running"}
          BY <2>1, <2>3, <2>10, <3>2
        <5>2. QED BY <1>c, <5>1
      <4>2. QED BY <2>1, <4>1
    <3>3. QED BY <3>1, <3>2
  <2>11. QED BY <2>5, <2>6, <2>7, <2>8, <2>9, <2>10 DEF WaitInv
<1>4. ASSUME NEW u \in Thread \ Waiter, Read(u) PROVE WaitInv'
  <2>1. /\ m.at = "run" /\ m' = m /\ UNCHANGED <<index, known, regs, result>>
        /\ waits[u] = None
        /\ waits' = [waits EXCEPT ![u] = "io"]
    BY <1>4 DEF Read, Running, At, subs
  <2>2. /\ waits'[u] = "io" /\ \A t \in Thread : t # u => waits'[t] = waits[t]
    BY <2>1 DEF ObjectType
  <2>3. \A r \in regs : r.thread # u
    BY <1>d, <2>1
  <2>4. ~First' /\ ~Sleeping'
    BY <2>1 DEF First, Syncing, Sleeping
  <2>5. \A r \in regs' : waits'[r.thread] = r.c
    BY <1>1, <1>a, <2>1, <2>2, <2>3
  <2>6. \A r, q \in regs' : r.thread = q.thread => r = q
    BY <2>1 DEF WaitInv
  <2>7. \A r \in regs' : r.status = known'[r.c]
    BY <2>1 DEF WaitInv, Polling, Syncing
  <2>8. \A t \in Thread : waits'[t] \in Child => waits'[t] = waits[t]
    BY <2>2, SubprocessAssumption
  <2>9. \A t \in Thread : waits'[t] \in Child => known'[waits'[t]] # None
    BY <1>2, <2>1, <2>8
  <2>10. ASSUME NEW t \in Thread, waits'[t] \in Child, index'[waits'[t]] # None,
                result'[t] \in {None, "running"}
         PROVE  \E r \in regs' : r.thread = t /\ r.status = "running"
    <3>1. waits[t] \in Child /\ index[waits[t]] # None /\ result[t] \in {None, "running"}
      BY <2>1, <2>8, <2>10
    <3>2. QED BY <1>c, <2>1, <3>1
  <2>11. QED BY <2>4, <2>5, <2>6, <2>7, <2>9, <2>10 DEF WaitInv
<1>5. ASSUME NEW u \in Thread, Waited(u) PROVE WaitInv'
  <2>1. /\ m.at = "run" /\ m' = m /\ UNCHANGED <<index, known>> /\ result[u] # None
        /\ result' = [result EXCEPT ![u] = None]
    BY <1>5 DEF Waited, At, subs
  <2>2. result'[u] = None /\ \A t \in Thread : t # u => result'[t] = result[t]
    BY <2>1 DEF ObjectType
  <2>3. ~First' /\ ~Sleeping'
    BY <2>1 DEF First, Syncing, Sleeping
  <2>4. CASE result[u] = "running" /\ UNCHANGED <<waits, regs>>
    <3>1. \A r \in regs' : r.status = known'[r.c]
      BY <2>1, <2>4 DEF WaitInv, Polling, Syncing
    <3>2. \A t \in Thread : result'[t] \in {None, "running"} => result[t] \in {None, "running"}
      BY <2>2, <2>4
    <3>3. ASSUME NEW t \in Thread, waits'[t] \in Child, index'[waits'[t]] # None,
                 result'[t] \in {None, "running"}
          PROVE  \E r \in regs' : r.thread = t /\ r.status = "running"
      BY <2>1, <2>4, <3>2, <3>3 DEF WaitInv
    <3>4. QED BY <2>1, <2>3, <2>4, <3>1, <3>3 DEF WaitInv
  <2>5. CASE /\ waits' = [waits EXCEPT ![u] = None]
             /\ regs' = {r \in regs : r.thread # u}
    <3>1. waits'[u] = None /\ \A t \in Thread : t # u => waits'[t] = waits[t]
      BY <2>5 DEF ObjectType
    <3>2. \A r \in regs' : r \in regs /\ r.thread # u
      BY <2>5
    <3>3. \A r \in regs' : waits'[r.thread] = r.c
      BY <1>1, <3>1, <3>2 DEF WaitInv
    <3>4. \A r, q \in regs' : r.thread = q.thread => r = q
      BY <3>2 DEF WaitInv
    <3>5. \A r \in regs' : r.status = known'[r.c]
      BY <2>1, <3>2 DEF WaitInv, Polling, Syncing
    <3>6. \A t \in Thread : waits'[t] \in Child => t # u /\ waits'[t] = waits[t]
      BY <3>1, SubprocessAssumption
    <3>7. \A t \in Thread : waits'[t] \in Child => known'[waits'[t]] # None
      BY <1>2, <2>1, <3>6
    <3>8. ASSUME NEW t \in Thread, waits'[t] \in Child, index'[waits'[t]] # None,
                 result'[t] \in {None, "running"}
          PROVE  \E r \in regs' : r.thread = t /\ r.status = "running"
      <4>1. PICK r \in regs : r.thread = t /\ r.status = "running"
        <5>1. waits[t] \in Child /\ index[waits[t]] # None /\ result[t] \in {None, "running"}
          BY <2>1, <2>2, <3>6, <3>8
        <5>2. QED BY <1>c, <5>1
      <4>2. QED BY <2>5, <3>6, <3>8, <4>1
    <3>9. QED BY <2>3, <3>3, <3>4, <3>5, <3>7, <3>8 DEF WaitInv
  <2>6. QED BY <1>5, <2>4, <2>5 DEF Waited
<1>6. CASE IoReady
  <2>1. /\ m' = AtRest /\ UNCHANGED <<index, known, regs, result>>
        /\ waits' = [t \in Thread |-> IF waits[t] = "io" THEN None ELSE waits[t]]
        /\ m.at \in {"ppoll", "selected"}
    BY <1>6 DEF IoReady, subs, At
  <2>2. ~First' /\ ~Sleeping'
    BY <2>1 DEF First, Syncing, Sleeping, AtRest
  <2>3. \A t \in Thread : waits'[t] \in Child \/ waits[t] \in Child => waits'[t] = waits[t]
    BY <2>1, SubprocessAssumption
  <2>4. \A r \in regs' : waits'[r.thread] = r.c
    BY <1>1, <2>1, <2>3 DEF WaitInv
  <2>5. \A r, q \in regs' : r.thread = q.thread => r = q
    BY <2>1 DEF WaitInv
  <2>6. \A r \in regs' : r.status = known'[r.c]
    BY <2>1, SMT DEF WaitInv, Polling, Syncing
  <2>7. \A t \in Thread : waits'[t] \in Child => known'[waits'[t]] # None
    BY <1>2, <2>1, <2>3
  <2>8. ASSUME NEW t \in Thread, waits'[t] \in Child, index'[waits'[t]] # None,
               result'[t] \in {None, "running"}
        PROVE  \E r \in regs' : r.thread = t /\ r.status = "running"
    <3>1. waits[t] \in Child /\ index[waits[t]] # None /\ result[t] \in {None, "running"}
      BY <2>1, <2>3, <2>8
    <3>2. \E r \in regs : r.thread = t /\ r.status = "running"
      BY <1>c, <3>1
    <3>3. QED BY <2>1, <3>2
  <2>9. QED BY <2>2, <2>4, <2>5, <2>6, <2>7, <2>8 DEF WaitInv
<1>7. CASE Notify
  <2> DEFINE new(r) == [c |-> r.c, thread |-> r.thread, status |-> known[r.c]]
             stale(t) == {r \in regs : r.thread = t /\ r.status # known[r.c]}
  <2>1. /\ m' = AtRest /\ UNCHANGED <<index, known, waits>>
        /\ result' = [t \in Thread |-> IF stale(t) = {} THEN result[t]
                                       ELSE known[(CHOOSE r \in stale(t) : TRUE).c]]
        /\ regs' = {new(r) : r \in {r \in regs : known[r.c] \notin Dead}}
    BY <1>7 DEF Notify, subs
  <2>2. ~First' /\ ~Sleeping'
    BY <2>1 DEF First, Syncing, Sleeping, AtRest
  <2>3. \A r \in regs :
          /\ new(r).c = r.c /\ new(r).thread = r.thread /\ new(r).status = known[r.c]
    OBVIOUS
  <2>4. \A q \in regs' : \E r \in regs : q = new(r)
    BY <2>1
  <2>5. ASSUME NEW t \in Thread, waits'[t] \in Child, index'[waits'[t]] # None,
               result'[t] \in {None, "running"}
        PROVE  \E r \in regs : r.thread = t /\ known[r.c] = "running"
    <3>1. CASE stale(t) = {}
      <4>1. result[t] \in {None, "running"}
        BY <2>1, <2>5, <3>1
      <4>2. PICK r \in regs : r.thread = t /\ r.status = "running"
        BY <2>1, <2>5, <4>1 DEF WaitInv
      <4>3. r \notin stale(t)
        BY <3>1
      <4>4. known[r.c] = "running"
        BY <4>2, <4>3
      <4>5. QED BY <4>2, <4>4
    <3>2. CASE stale(t) # {}
      <4>1. PICK r \in stale(t) : result'[t] = known[r.c]
        BY <2>1, <3>2
      <4>2. r \in regs /\ r.thread = t /\ known[r.c] # None
        BY <4>1 DEF ObjectType
      <4>3. QED BY <2>5, <4>1, <4>2
    <3>3. QED BY <3>1, <3>2
  <2>6. \A r \in regs : known[r.c] = "running" => new(r) \in regs'
    <3>1. "running" \notin Dead
      BY SMT DEF Dead
    <3>2. QED BY <2>1, <3>1
  <2> HIDE DEF new, stale
  <2>7. ASSUME NEW q \in regs' PROVE waits'[q.thread] = q.c /\ q.status = known'[q.c]
    <3>1. PICK r \in regs : q = new(r)
      BY <2>4
    <3>2. q.c = r.c /\ q.thread = r.thread /\ q.status = known[r.c]
      BY <2>3, <3>1
    <3>3. UNCHANGED <<known, waits>>
      BY <2>1
    <3>4. QED BY <1>a, <3>2, <3>3
  <2>8. ASSUME NEW p \in regs', NEW q \in regs', p.thread = q.thread PROVE p = q
    <3>1. PICK r \in regs : p = new(r)
      BY <2>4
    <3>2. PICK o \in regs : q = new(o)
      BY <2>4
    <3>3. r.thread = o.thread
      BY <2>3, <2>8, <3>1, <3>2
    <3>4. QED BY <1>b, <3>1, <3>2, <3>3
  <2>10. \A t \in Thread : waits'[t] \in Child => known'[waits'[t]] # None
    BY <1>2, <2>1
  <2>11. ASSUME NEW t \in Thread, waits'[t] \in Child, index'[waits'[t]] # None,
                result'[t] \in {None, "running"}
         PROVE  \E r \in regs' : r.thread = t /\ r.status = "running"
    <3>1. PICK r \in regs : r.thread = t /\ known[r.c] = "running"
      BY <2>5, <2>11
    <3>2. QED BY <2>3, <2>6, <3>1
  <2>12. QED BY <2>2, <2>7, <2>8, <2>10, <2>11 DEF WaitInv
<1>8. CASE Deleted
  <2>1. /\ m.at = "delete" /\ UNCHANGED <<known, waits, result>>
        /\ regs' = {r \in regs : r.c # m.c} /\ index' = [index EXCEPT ![m.c] = None]
        /\ m' = [m EXCEPT !.at = "deallocate"]
    BY <1>8 DEF Deleted, At, Goto
  <2>2. m'.at = "deallocate"
    BY <2>1 DEF MachineType
  <2>3. ~First' /\ ~Sleeping'
    BY <2>2 DEF First, Syncing, Sleeping
  <2>4. \A r \in regs' : r \in regs /\ r.c # m.c
    BY <2>1
  <2>5. \A r \in regs' : waits'[r.thread] = r.c
    BY <2>1, <2>4 DEF WaitInv
  <2>6. \A r, q \in regs' : r.thread = q.thread => r = q
    BY <2>4 DEF WaitInv
  <2>7. \A r \in regs' : r.status = known'[r.c]
    BY <2>1, <2>4 DEF WaitInv, Polling, Syncing
  <2>8. \A t \in Thread : waits'[t] \in Child => known'[waits'[t]] # None
    BY <1>2, <2>1
  <2>9. ASSUME NEW t \in Thread, waits'[t] \in Child, index'[waits'[t]] # None,
               result'[t] \in {None, "running"}
        PROVE  \E r \in regs' : r.thread = t /\ r.status = "running"
    <3>1. waits[t] # m.c /\ index'[waits[t]] = index[waits[t]]
      BY <2>1, <2>9 DEF TypeOK
    <3>2. PICK r \in regs : r.thread = t /\ r.status = "running"
      BY <2>1, <2>9, <3>1 DEF WaitInv
    <3>3. r.c # m.c
      BY <3>1, <3>2 DEF WaitInv
    <3>4. QED BY <2>1, <3>2, <3>3
  <2>10. QED BY <2>3, <2>5, <2>6, <2>7, <2>8, <2>9 DEF WaitInv
<1>9. ASSUME UNCHANGED <<regs, waits, result>>, ~Notify, ~Deleted PROVE WaitInv'
  <2>1. CASE New
    <3>1. /\ m.at = "new" /\ m.c \in Child /\ known[m.c] = None /\ m'.c = m.c
          /\ status[m.s] # None
          /\ index' = [index EXCEPT ![m.c] = m.s]
          /\ known' = [known EXCEPT ![m.c] = status[m.s]]
      <4>1. /\ m.at = "new" /\ index' = [index EXCEPT ![m.c] = m.s]
            /\ known' = [known EXCEPT ![m.c] = status[m.s]]
        BY <2>1 DEF New, At
      <4>2. Making /\ id[m.s] # None /\ m.s \in Slot
        BY <4>1 DEF OpInv, HandInv, InHand
      <4>3. m.c \in Child /\ known[m.c] = None
        BY <4>2, Hands DEF HandInv, InHand
      <4>4. m'.c = m.c
        BY <2>1 DEF New, MachineType
      <4>5. status[m.s] # None
        BY <4>2, <4>3, Hands, SubprocessAssumption
      <4>6. QED BY <4>1, <4>3, <4>4, <4>5
    <3>2. \A r \in regs : r.c # m.c
      BY <3>1 DEF ObjectType
    <3>3. \A t \in Thread : waits[t] # m.c
      BY <1>2, <3>1
    <3>4. /\ known'[m.c] = status[m.s]
          /\ \A c \in Child : c # m.c => known'[c] = known[c] /\ index'[c] = index[c]
      BY <3>1 DEF TypeOK
    <3>5. ~Sleeping'
      <4>1. m'.at = "block"
        BY <2>1 DEF New, MachineType
      <4>2. QED BY <4>1 DEF Sleeping
    <3>6. \A r \in regs' : r.status = known'[r.c]
      BY <1>1, <1>9, <3>1, <3>2, <3>4 DEF WaitInv, Polling, Syncing
    <3>7. \A t \in Thread : waits'[t] \in Child => known'[waits'[t]] # None
      BY <1>2, <1>9, <3>3, <3>4
    <3>8. ASSUME NEW t \in Thread, waits'[t] \in Child, index'[waits'[t]] # None,
                 result'[t] \in {None, "running"}
          PROVE  \E r \in regs' : r.thread = t /\ r.status = "running"
      <4>1. waits[t] \in Child /\ index[waits[t]] # None /\ result[t] \in {None, "running"}
        BY <1>9, <3>3, <3>4, <3>8
      <4>2. QED BY <1>9, <1>c, <4>1
    <3>9. \A r \in regs' : r.c # m'.c
      BY <1>9, <3>1, <3>2
    <3>10. QED BY <1>9, <3>5, <3>6, <3>7, <3>8, <3>9 DEF WaitInv
  <2>2. ASSUME ~New
        PROVE  (First => \A r \in regs : r.c # m.c)' /\ (Sleeping => \A t \in Thread : result[t] = None)'
    <3>1. CASE Idle
      <4>1. /\ m.at = "run" /\ m' = [m EXCEPT !.at = "select"]
            /\ \A t \in Thread : result[t] = None
        BY <3>1 DEF Idle, At, Goto
      <4>2. m'.at = "select"
        BY <4>1 DEF MachineType
      <4>3. ~First'
        BY <4>2 DEF First, Syncing
      <4>4. QED BY <1>9, <4>1, <4>3
    <3>2. CASE ~Idle
      <4>1. First' => First /\ m'.c = m.c
        BY <2>2, FirstStep
      <4>2. Sleeping' => Sleeping
        BY <3>2, IdleStep
      <4>3. QED BY <1>9, <4>1, <4>2 DEF WaitInv
    <3>3. QED BY <3>1, <3>2
  <2>3. CASE Polled
    <3>1. /\ m.at = "polled" /\ m.op = "sync" /\ index' = index
          /\ known' = [known EXCEPT ![m.c] = IF m.changed THEN status[m.s] ELSE @]
      BY <2>3, PolledStep DEF OpInv
    <3>2. m.c \in Child /\ status[m.s] # None
      <4>1. m.c \in Child /\ m.s \in Slot /\ Owns(m.c, m.s)
        BY <3>1, Hands, SMT DEF Quick, Freeing
      <4>2. QED BY <4>1, Hands, SubprocessAssumption
    <3>3. \A c \in Child : (c # m.c => known'[c] = known[c])
                           /\ (known[c] # None => known'[c] # None)
      BY <3>1, <3>2 DEF TypeOK
    <3>4. ~New
      BY <3>1 DEF New, At
    <3>5. ASSUME NEW r \in regs'
          PROVE  r.status = known'[r.c] \/ Polling' \/ (m'.at = "delete" /\ r.c = m'.c)
      <4>1. CASE m.then = "poll"
        <5>1. Polling
          BY <3>1, <4>1 DEF Polling, Syncing
        <5>2. QED BY <1>9, <5>1, PollingStep
      <4>2. CASE m.then \in {"run", "loop"}
        <5>1. First /\ ~Polling
          BY <3>1, <4>2, SMT DEF First, Syncing, Polling
        <5>2. r \in regs /\ r.c # m.c /\ r.status = known[r.c]
          BY <1>9, <3>1, <3>5, <5>1 DEF WaitInv
        <5>3. QED BY <1>1, <3>3, <5>2
      <4>3. CASE m.then = "delete"
        <5>1. m' = [m EXCEPT !.at = "delete"]
          BY <2>3, <4>3, SMT DEF Polled
        <5>2. m'.at = "delete" /\ m'.c = m.c
          BY <5>1 DEF MachineType
        <5>3. ~Polling
          BY <3>1, <4>3 DEF Polling
        <5>4. r \in regs /\ r.status = known[r.c]
          BY <1>9, <3>1, <3>5, <5>3 DEF WaitInv
        <5>5. QED BY <1>1, <3>3, <5>2, <5>4
      <4>4. m.then \in {"run", "poll", "delete", "loop"}
        BY DEF MachineType
      <4>5. QED BY <4>1, <4>2, <4>3, <4>4
    <3>6. \A t \in Thread : waits'[t] \in Child => known'[waits'[t]] # None
      BY <1>2, <1>9, <3>3
    <3>7. QED BY <1>9, <2>2, <3>1, <3>4, <3>5, <3>6 DEF WaitInv
  <2>4. CASE UNCHANGED subs /\ ~New
    <3>1. ASSUME NEW r \in regs'
          PROVE  r.status = known'[r.c] \/ Polling' \/ (m'.at = "delete" /\ r.c = m'.c)
      <4>1. CASE r.status = known[r.c]
        BY <2>4, <4>1 DEF subs
      <4>2. CASE Polling
        BY <1>9, <4>2, PollingStep
      <4>3. CASE m.at = "delete" /\ r.c = m.c
        BY <1>9, <4>3, DeleteStep
      <4>4. QED BY <1>9, <3>1, <4>1, <4>2, <4>3 DEF WaitInv
    <3>2. QED BY <1>9, <2>2, <2>4, <3>1 DEF WaitInv, subs
  <2>5. QED BY <1>9, <2>1, <2>3, <2>4, SubsSteady
<1>10. ASSUME UNCHANGED <<regs, waits, result>> PROVE WaitInv'
  BY <1>7, <1>8, <1>9, <1>10
<1>11. QED BY <1>3, <1>4, <1>5, <1>6, <1>7, <1>8, <1>10, WaitsSteady

\* At first there is nothing to synchronise, and nobody waits.
LEMMA SyncInit ==
  ASSUME Init
  PROVE  SyncInv /\ WaitInv
<1>1. /\ m.at = "run" /\ m.op = "none" /\ regs = {}
      /\ \A s \in Slot : id[s] = None
      /\ \A c \in Child : index[c] = None
      /\ \A t \in Thread : waits[t] = None
  BY DEF Init, AtRest
<1>2. SyncInv
  BY <1>1 DEF SyncInv, Ticked
<1>3. ~First /\ ~Sleeping
  BY <1>1 DEF First, Syncing, Sleeping
<1>4. WaitInv
  BY <1>1, <1>3, SubprocessAssumption DEF WaitInv
<1>5. QED BY <1>2, <1>4

\* What the objects and the waiting threads know stays in step with the table.
THEOREM StatusInvariant ==
  ASSUME Recycled = FALSE
  PROVE  Spec => [](TableInv /\ StatusInv)
<1>1. Init => TableInv /\ SyncInv /\ WaitInv
  BY TableInit, SyncInit
<1>2. TableInv /\ SyncInv /\ WaitInv /\ [Next]_vars => (TableInv /\ SyncInv /\ WaitInv)'
  <2>1. ASSUME TableInv, SyncInv, WaitInv, Next PROVE (SyncInv /\ WaitInv)'
    BY <2>1, SyncNext, WaitNext
  <2>2. ASSUME UNCHANGED vars, SyncInv PROVE SyncInv'
    <3>1. UNCHANGED <<id, raw, status, changed, unsynced, index, known, m>>
      BY <2>2 DEF vars, table, objects, subs
    <3>2. \A c : Due(c)' <=> Due(c)
      BY <3>1 DEF Due, Syncing
    <3>3. QED BY <2>2, <3>1, <3>2 DEF SyncInv, Ticked, Syncing
  <2>3. ASSUME UNCHANGED vars, WaitInv PROVE WaitInv'
    <3>1. UNCHANGED <<index, known, regs, waits, result, m>>
      BY <2>3 DEF vars, objects, subs
    <3>2. (Polling' <=> Polling) /\ (First' <=> First) /\ (Sleeping' <=> Sleeping)
      BY <3>1 DEF Polling, First, Sleeping, Syncing
    <3>3. QED BY <2>3, <3>1, <3>2 DEF WaitInv
  <2>4. QED BY <2>1, <2>2, <2>3, TableNext
<1>3. Spec => [](TableInv /\ SyncInv /\ WaitInv)
  BY <1>1, <1>2, PTL DEF Spec
<1>4. QED BY <1>3, DeathInvariant, PTL DEF StatusInv

\* If no process number comes back before its slot is given up, Scheme does not sleep
\* in ppoll on news: the mask that is set before the ticks are compared is only lifted
\* in ppoll, so a change is either seen by the comparison or its signal is pending.
THEOREM SleepCorrect ==
  ASSUME Recycled = FALSE
  PROVE  Spec => []SleepsInformed
<1>1. TableInv /\ StatusInv => SleepsInformed
  <2>1. SUFFICES ASSUME TableInv, DeathInv, SyncInv, WaitInv, m.at = "ppoll", ~pending
                 PROVE  /\ \A c \in Child : Valid(c) =>
                             /\ known[c] = raw[index[c]]
                             /\ child[c] \in Dead \cup {"gone"} <=> known[c] \in Dead
                        /\ \A t \in Thread : waits[t] \in Child /\ Valid(waits[t])
                                               => known[waits[t]] = "running"
    BY DEF SleepsInformed, At, StatusInv
  <2>2. ~unsynced /\ m.op = "none" /\ Sleeping
    BY <2>1 DEF SyncInv, Ticked, Sleeping, TableInv, OpInv, Resting
  <2>3. \A c \in Child : ~Due(c)
    BY <2>1, <2>2 DEF Due, Syncing
  <2>4. ASSUME NEW c \in Child, index[c] # None
        PROVE  /\ known[c] = raw[index[c]]
               /\ child[c] \in Dead \cup {"gone"} <=> known[c] \in Dead
    <3>1. index[c] \in Slot /\ Owns(c, index[c])
      BY <2>1, <2>4 DEF TableInv, TypeOK, Owns
    <3>2. id[index[c]] # None
      BY <2>1, <3>1 DEF TableInv, OwnInv
    <3>3. ~changed[index[c]]
      BY <2>1, <2>2, <2>3, <3>1, <3>2 DEF SyncInv
    <3>4. status[index[c]] = raw[index[c]]
      BY <2>1, <3>1, <3>2, <3>3 DEF SyncInv
    <3>5. known[c] = status[index[c]]
      BY <2>1, <2>4 DEF SyncInv
    <3>6. child[c] = "gone" <=> raw[index[c]] \in Dead
      BY <2>1, <3>1 DEF DeathInv
    <3>7. child[c] \notin Dead
      BY <2>1 DEF TableInv, NewsInv
    <3>8. QED BY <3>4, <3>5, <3>6, <3>7
  <2>5. ASSUME NEW t \in Thread, waits[t] \in Child, index[waits[t]] # None
        PROVE  known[waits[t]] = "running"
    <3>1. result[t] = None
      BY <2>1, <2>2 DEF WaitInv
    <3>2. PICK r \in regs : r.thread = t /\ r.status = "running"
      BY <2>1, <2>5, <3>1 DEF WaitInv
    <3>3. r.c = waits[t]
      BY <2>1, <3>2 DEF WaitInv
    <3>4. ~Polling
      BY <2>1 DEF Polling, Syncing
    <3>5. r.status = known[r.c]
      BY <2>1, <3>2, <3>4 DEF WaitInv
    <3>6. QED BY <3>2, <3>3, <3>5
  <2>6. QED BY <2>4, <2>5 DEF Valid
<1>2. QED BY <1>1, StatusInvariant, PTL
=============================================================================
