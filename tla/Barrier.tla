------------------------------ MODULE Barrier -------------------------------
(***************************************************************************)
(* Thread barriers (src/runtime/thread-barrier.scm): the only clients of   *)
(* condition variables in the runtime, whose lock is Condvar's mutex "m".  *)
(* Condvar's steps are those of the threads inside a wait or a broadcast.  *)
(***************************************************************************)
EXTENDS Condvar, FiniteSets

CONSTANTS Parties,        \* the count of the barrier
          MaxGeneration   \* how many times it opens

ASSUME BarrierAssumption == /\ Parties \in Nat \ {0} /\ MaxGeneration \in Nat
                            /\ {"wait", "broadcast"} \subseteq Ops

VARIABLES
  current, generation,  \* the fields of the barrier
  saved,                \* the generation a thread arrived in
  at,                   \* where a thread is in thread-barrier-wait
  arrivals              \* history: how many threads arrived in each generation

barrier == <<current, generation, saved, at, arrivals>>

Arrived(t, where) ==
  /\ saved' = [saved EXCEPT ![t] = generation]
  /\ at' = [at EXCEPT ![t] = where]
  /\ arrivals' = [arrivals EXCEPT ![generation] = @ + 1]

\* thread-barrier-wait, up to the lock
Enter(t) ==
  /\ at[t] = "out" /\ generation < MaxGeneration
  /\ LockMutex(t)
  /\ at' = [at EXCEPT ![t] = "arrive"]
  /\ UNCHANGED <<current, generation, saved, arrivals>>

InMonitor(t, where) == at[t] = where /\ pc[t] = "run" /\ owner["m"] = t

\* The last thread opens the barrier.
Open(t) ==
  /\ InMonitor(t, "arrive") /\ current = 1
  /\ current' = Parties
  /\ generation' = generation + 1
  /\ Arrived(t, "leave")
  /\ SignalCall(t, "broadcast")

ArriveEarly(t) ==
  /\ InMonitor(t, "arrive") /\ current # 1
  /\ current' = current - 1
  /\ Arrived(t, "wait")
  /\ UNCHANGED <<vars, generation>>

\* Mutant: the generation is not looked at after a wait.
RecheckOnce(t) ==
  /\ InMonitor(t, "wait")
  /\ at' = [at EXCEPT ![t] = "leave"]
  /\ UNCHANGED <<vars, current, generation, saved, arrivals>>

\* The loop of an early thread.
Recheck(t) ==
  /\ InMonitor(t, "wait")
  /\ IF saved[t] < generation
     THEN at' = [at EXCEPT ![t] = "leave"] /\ UNCHANGED vars
     ELSE WaitCall(t, "wait", "none") /\ UNCHANGED at
  /\ UNCHANGED <<current, generation, saved, arrivals>>

Leave(t) ==
  /\ InMonitor(t, "leave")
  /\ UnlockMutex(t)
  /\ at' = [at EXCEPT ![t] = "out"]
  /\ UNCHANGED <<current, generation, saved, arrivals>>

BarrierInit ==
  /\ Init
  /\ current = Parties /\ generation = 0
  /\ saved = [t \in Thread |-> 0]
  /\ at = [t \in Thread |-> "out"]
  /\ arrivals = [g \in 0 .. MaxGeneration |-> 0]

BarrierWork(t) == \/ Open(t) \/ ArriveEarly(t) \/ Recheck(t) \/ Leave(t)
                  \/ Work(t) /\ UNCHANGED barrier

BarrierNext ==
  \E t \in Thread : Enter(t) \/ BarrierWork(t) \/ (Stray(t) /\ UNCHANGED barrier)

BarrierSpec == BarrierInit /\ [][BarrierNext]_<<vars, barrier>>

\* Every thread gets the processor.
FairBarrierSpec ==
  BarrierSpec /\ \A t \in Thread : WF_<<vars, barrier>>(BarrierWork(t))

-----------------------------------------------------------------------------
(* Properties                                                              *)

\* current is the number of threads still to come: Parties less those that wait
\* in this generation, a slow thread of an earlier one not counted; so that the
\* assertions of thread-barrier-wait hold.
CurrentCounts ==
  /\ current \in 1 .. Parties
  /\ current = Parties
       - Cardinality({t \in Thread : at[t] = "wait" /\ saved[t] = generation})

\* A thread leaves the barrier only after all the threads of its generation have
\* arrived.
PassedTogether ==
  \A t \in Thread : at[t] = "leave" => arrivals[saved[t]] = Parties

\* Generations are kept apart: the count is that of this generation, and nobody
\* passes before its own is complete.
GenerationsSound == PassedTogether /\ CurrentCounts

\* Once enough threads have come to the barrier it opens, even if earlier ones
\* are still on their way out.
Opens ==
  \A g \in 0 .. MaxGeneration :
    (/\ generation = g
     /\ Parties <= Cardinality({t \in Thread : \/ at[t] = "arrive"
                                               \/ at[t] = "wait" /\ saved[t] = g}))
      ~> (generation # g)
=============================================================================
