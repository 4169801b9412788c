---------------------------- MODULE Subprocesses ----------------------------
(***************************************************************************)
(* Subprocesses: the process table of the microcode (uxproc.c), the        *)
(* transactions its primitives run in (transact.c, over the dynamic stack  *)
(* of wind.c), the SIGCHLD handler (uxsig.c), the blocking poll (uxio.c),  *)
(* and the runtime's subprocess objects and status events (process.scm,    *)
(* and wait-for-io of thread.scm).                                         *)
(*                                                                         *)
(* There is one flow of control, the machine m: the Scheme threads take    *)
(* turns when it is at "run", and a primitive is taken step by step.  The  *)
(* children and signals of the operating system come in between any two    *)
(* steps.  A signal handler runs to its end.                               *)
(***************************************************************************)
EXTENDS Naturals, FiniteSets, Sequences

CONSTANTS Child,      \* the processes Scheme starts
          Thread,     \* the threads of the runtime
          Waiter,     \* those that are there only while they wait for a child
          None,
          TableSize,  \* OS_process_table_size
          JobControl, \* the children on Scheme's terminal; the others have none
          Makes,      \* how children are started: batch, background, foreground
          Recycled    \* a process number may come back while a slot has it

Slot == 0 .. TableSize - 1
Pid == 1 .. Cardinality(Child)
Alive == {"running", "stopped"}
Dead == {"exited"}     \* or signalled, which nothing here tells apart

ASSUME SubprocessAssumption ==
  /\ None \notin Child \cup Thread /\ None \notin Slot \cup Pid
  /\ None \notin Alive \cup Dead \cup {"io"}
  /\ "io" \notin Child
  /\ Waiter \subseteq Thread /\ JobControl \subseteq Child
  /\ TableSize \in Nat /\ TableSize >= Cardinality(Child)
  /\ Makes \subseteq {"batch", "background", "foreground"}
  /\ Recycled \in BOOLEAN

VARIABLES
  child,        \* what the operating system knows of each child
  news,         \* the children with a status that waitpid has not reported
  pid,          \* the process number of each child
  pending,      \* SIGCHLD is pending
  tty,          \* the foreground process group, and whose modes the terminal has
  id, raw,      \* process_table, field by field: the process number, the status that
  status,       \* waitpid reported, the status of the last synchronisation, whether it
  changed, jc,  \* is behind, and whether the process is on Scheme's terminal
  unsynced,     \* process_tick is not sync_tick
  masked,       \* SIGCHLD (and for the terminal, the job-control signals) is blocked
  dstack,       \* the actions that the transaction has recorded, the last one first
  foreground,   \* foreground_child_process
  interrupt,    \* pending_interrupts_p
  index, known, \* the subprocess objects: their slot and status
  regs,         \* subprocess-registrations
  waits,        \* the object a thread is in subprocess-wait for, or "io"
  result,       \* and the status its event brought
  loops,        \* the object a thread is in subprocess-continue-foreground for
  m             \* where the machine is

kernel == <<child, news, pid>>
table == <<id, raw, status, changed, jc>>
subs == <<index, known>>
objects == <<subs, regs, waits, result, loops>>
vars == <<kernel, pending, tty, table, unsynced, masked, dstack, foreground, interrupt,
          objects, m>>

\* The machine: where it is, in which primitive, for which thread, child and slot; where
\* it goes after the primitive (next) and after a poll (then); the objects still
\* to be polled; and the primitive's result.
AtRest == [at |-> "run", op |-> "none", t |-> None, c |-> None, s |-> None,
           next |-> "run", then |-> "run", todo |-> {}, changed |-> FALSE]

Goto(where) == m' = [m EXCEPT !.at = where]
At(where) == m.at = where

-----------------------------------------------------------------------------
(* Transactions: the dynamic stack as a sequence of the actions recorded   *)
(* in the current transaction; transactions are not nested here.  The      *)
(* transaction's state is where the machine is: "commit" is committing,    *)
(* and after an error the interpreter unwinds the stack with the           *)
(* transaction still active ("unwind").                                    *)

Action(type, procedure, environment) ==
  [type |-> type, procedure |-> procedure, environment |-> environment]

\* Whether execute_action runs an action.
Runs(action) == action.type # (IF At("commit") THEN "abort" ELSE "commit")

ErrorOut == m' = [m EXCEPT !.at = "unwind", !.next = "run"]

-----------------------------------------------------------------------------
(* The operating system                                                    *)

OfPid(p) == {c \in Child : child[c] \in Alive \cup Dead /\ pid[c] = p}

\* A change of status of some children.
Changed(cs, new) ==
  /\ child' = [c \in Child |-> IF c \in cs THEN new ELSE child[c]]
  /\ news' = news \cup cs
  /\ pending' = (pending \/ cs # {})
  /\ UNCHANGED pid

Exit(c) ==
  /\ child[c] = "running"
  /\ Changed({c}, "exited")
  /\ UNCHANGED <<tty, table, unsynced, masked, dstack, foreground, interrupt, objects, m>>

Stop(c) ==
  /\ child[c] = "running" /\ c \in JobControl
  /\ Changed({c}, "stopped")
  /\ UNCHANGED <<tty, table, unsynced, masked, dstack, foreground, interrupt, objects, m>>

\* kill(2)
Kill(p, sig) ==
  IF sig = "KILL" THEN Changed({c \in OfPid(p) : child[c] \in Alive}, "exited")
                  ELSE Changed({c \in OfPid(p) : child[c] = "running"}, "stopped")

\* kill(2) with SIGCONT, which waitpid does not report
KillCont(p) ==
  LET continued == {c \in OfPid(p) : child[c] = "stopped"}
  IN  /\ child' = [c \in Child |-> IF c \in continued THEN "running" ELSE child[c]]
      /\ news' = news \ continued
      /\ UNCHANGED <<pid, pending>>

-----------------------------------------------------------------------------
(* Signal handlers                                                         *)

\* safe_poll masks every signal for its test; sigsuspend and ppoll sleep with the
\* mask from before.
SigchldBlocked == (masked /\ ~At("suspend")) \/ At("select")

\* A handler ends a sleep.
Woken == Goto(IF At("suspend") THEN "wait" ELSE IF At("ppoll") THEN "selected" ELSE m.at)

find_process(p) == {s \in Slot : id[s] = p /\ \A r \in 0 .. s - 1 : id[r] # p}

\* NEW_RAW_STATUS, of the slots that have a new one
NewRawStatus(new) ==
  /\ raw' = [s \in Slot |-> IF s \in DOMAIN new THEN new[s] ELSE raw[s]]
  /\ changed' = [s \in Slot |-> s \in DOMAIN new \/ changed[s]]
  /\ unsynced' = (unsynced \/ DOMAIN new # {})
  /\ UNCHANGED <<id, status, jc>>

\* The reported children for whose number subprocess_death finds slot s.  No two of
\* them have one number, so the order in which they are reported is all the same.
subprocess_death(s, cs) == {c \in cs : s \in find_process(pid[c])}

\* The handler, for the children waitpid reports.
Reaped(cs) ==
  /\ NewRawStatus([s \in {s \in Slot : subprocess_death(s, cs) # {}} |->
                     child[CHOOSE c \in subprocess_death(s, cs) : TRUE]])
  /\ child' = [c \in Child |-> IF c \in cs /\ child[c] \in Dead THEN "gone" ELSE child[c]]
  /\ news' = news \ cs
  /\ pending' = FALSE
  /\ Woken
  /\ UNCHANGED <<pid, tty, masked, dstack, foreground, interrupt, objects>>

\* sighnd_dead_subprocess: waitpid is called until it has nothing to report.
Sigchld == pending /\ ~SigchldBlocked /\ Reaped(news)

\* The timer and keyboard handlers request an interrupt, where it is looked at;
\* at "run" it is served, by Timer.
Interrupt ==
  /\ ~interrupt /\ m.at \in {"wait", "suspend", "ppoll"}
  /\ interrupt' = TRUE
  /\ Woken
  /\ UNCHANGED <<kernel, pending, tty, table, unsynced, masked, dstack, foreground, objects>>

OurTerminal == [group |-> "scheme", modes |-> "scheme"]

\* get_terminal_back
GetTerminalBack ==
  /\ tty' = IF foreground # None THEN OurTerminal ELSE tty
  /\ foreground' = None

\* sighnd_stop with stop_signal_handler, where it matters: in the wait for a
\* foreground child.  Scheme stops, and goes on in the foreground.
StopSignal ==
  /\ At("suspend") /\ foreground # None
  /\ GetTerminalBack
  /\ Woken
  /\ UNCHANGED <<kernel, pending, table, unsynced, masked, dstack, interrupt, objects>>

-----------------------------------------------------------------------------
(* Primitives.  Each begins a transaction, blocks SIGCHLD, does its work   *)
(* and commits.                                                            *)

Quiet == UNCHANGED <<kernel, pending, tty, foreground>>   \* what few steps touch

\* Where a primitive goes on once SIGCHLD is blocked.
AfterBlock(op) ==
  IF op \in Makes THEN "fork"
  ELSE IF op \in {"KILL", "TSTP"} THEN "check"
  ELSE IF op = "continue-foreground" THEN "give"
  ELSE op     \* sync, sync-all and continue

\* The machine calls a primitive on a child.
Call(op, c, next) ==
  m' = [m EXCEPT !.at = "block", !.op = op, !.c = c, !.next = next,
                  !.s = IF c = None THEN @ ELSE index[c]]

\* A thread the program goes on in.
Running(t) == At("run") /\ ~interrupt /\ waits[t] = None /\ loops[t] = None

\* OS_make_subprocess: process_allocate
Make(t, kind) ==
  /\ Running(t)
  /\ \E c \in Child : child[c] = "unborn"
  /\ \E s \in Slot :
       /\ raw[s] = "free" /\ \A r \in 0 .. s - 1 : raw[r] # "free"
       /\ raw' = [raw EXCEPT ![s] = "allocated"]
       /\ dstack' = <<Action("abort", "process_allocate_abort", s)>>
       /\ m' = [m EXCEPT !.at = "block", !.op = kind, !.t = t, !.s = s, !.next = "new"]
  /\ Quiet /\ UNCHANGED <<id, status, changed, jc, unsynced, masked, interrupt, objects>>

\* block_sigchld, block_jc_signals
Block ==
  /\ At("block")
  /\ masked' = TRUE
  /\ dstack' = <<Action("always", "restore_signal_mask", masked)>> \o dstack
  /\ Goto(AfterBlock(m.op))
  /\ Quiet /\ UNCHANGED <<table, unsynced, interrupt, objects>>

\* The numbers a process may get: free ones, that are used again at once.
FreePids == {p \in Pid : /\ OfPid(p) = {}
                         /\ Recycled \/ \A s \in Slot : id[s] # p}

\* vfork fails, or gives a child.
ForkFails ==
  /\ At("fork")
  /\ ErrorOut
  /\ Quiet /\ UNCHANGED <<table, unsynced, masked, dstack, interrupt, objects>>

Fork(c) ==
  /\ At("fork")
  /\ child[c] = "unborn" /\ (c \in JobControl <=> m.op # "batch")
  /\ child' = [child EXCEPT ![c] = "running"]
  /\ \E p \in FreePids : /\ \A q \in FreePids : p <= q
                         /\ pid' = [pid EXCEPT ![c] = p]
  /\ m' = [m EXCEPT !.at = "record", !.c = c]
  /\ UNCHANGED <<news, pending, tty, foreground, table, unsynced, masked, dstack, interrupt,
                 objects>>

\* The parent fills the slot.
Record ==
  /\ At("record")
  /\ id' = [id EXCEPT ![m.s] = pid[m.c]]
  /\ raw' = [raw EXCEPT ![m.s] = "running"]
  /\ status' = [status EXCEPT ![m.s] = "running"]
  /\ changed' = [changed EXCEPT ![m.s] = FALSE]
  /\ jc' = [jc EXCEPT ![m.s] = m.op # "batch"]
  /\ Goto(IF m.op = "foreground" THEN "give" ELSE "commit")
  /\ Quiet /\ UNCHANGED <<unsynced, masked, dstack, interrupt, objects>>

\* Mutant: the terminal is not to be taken back.
GiveForever(outcome) ==
  /\ At("give")
  /\ IF outcome = "background"
     THEN Goto("continue") /\ UNCHANGED <<tty, foreground>>
     ELSE /\ foreground' = m.s
          /\ tty' = [group |-> IF outcome = "fails" THEN tty.group ELSE "child", modes |-> "child"]
          /\ IF outcome = "fails" THEN ErrorOut ELSE Goto("continue")
  /\ UNCHANGED <<kernel, pending, dstack, table, unsynced, masked, interrupt, objects>>

\* give_terminal_to: nothing is done if Scheme is in the background, and tcsetpgrp
\* may fail.
Give(outcome) ==
  /\ At("give")
  /\ IF outcome = "background"
     THEN Goto("continue") /\ UNCHANGED <<tty, foreground, dstack>>
     ELSE /\ dstack' = <<Action("always", "get_terminal_back", None)>> \o dstack
          /\ foreground' = m.s
          /\ tty' = [group |-> IF outcome = "fails" THEN tty.group ELSE "child", modes |-> "child"]
          /\ IF outcome = "fails" THEN ErrorOut ELSE Goto("continue")
  /\ UNCHANGED <<kernel, pending, table, unsynced, masked, interrupt, objects>>

\* Mutant: the status of the last synchronisation decides.
ContinueSynced(fails) ==
  /\ At("continue")
  /\ IF status[m.s] = "stopped"
     THEN /\ NewRawStatus([s \in {m.s} |-> "running"])
          /\ IF fails THEN UNCHANGED <<kernel, pending>> ELSE KillCont(id[m.s])
     ELSE ~fails /\ UNCHANGED <<kernel, pending, table, unsynced>>
  /\ IF fails THEN ErrorOut ELSE Goto(IF m.op = "continue" THEN "commit" ELSE "wait")
  /\ UNCHANGED <<tty, foreground, masked, dstack, interrupt, objects>>

\* OS_process_continue_background, and OS_process_continue_foreground before its
\* wait: a stopped child runs again.  If it cannot be signalled, its status stays
\* "running".  (For OS_make_subprocess there is nothing to do: its child runs.)
ContinueStopped(fails) ==
  /\ At("continue")
  /\ IF raw[m.s] = "stopped"
     THEN /\ NewRawStatus([s \in {m.s} |-> "running"])
          /\ IF fails THEN UNCHANGED <<kernel, pending>> ELSE KillCont(id[m.s])
     ELSE ~fails /\ UNCHANGED <<kernel, pending, table, unsynced>>
  /\ IF fails THEN ErrorOut ELSE Goto(IF m.op = "continue" THEN "commit" ELSE "wait")
  /\ UNCHANGED <<tty, foreground, masked, dstack, interrupt, objects>>

\* process_wait
Wait ==
  /\ At("wait")
  /\ Goto(IF raw[m.s] = "running" /\ ~interrupt THEN "suspend" ELSE "commit")
  /\ Quiet /\ UNCHANGED <<table, unsynced, masked, dstack, interrupt, objects>>

\* OS_process_status_sync
Sync ==
  /\ At("sync")
  /\ status' = [status EXCEPT ![m.s] = raw[m.s]]
  /\ changed' = [changed EXCEPT ![m.s] = FALSE]
  /\ m' = [m EXCEPT !.at = "commit", !.changed = changed[m.s]]
  /\ Quiet /\ UNCHANGED <<id, raw, jc, unsynced, masked, dstack, interrupt, objects>>

\* OS_process_status_sync_all
SyncAll ==
  /\ At("sync-all")
  /\ m' = [m EXCEPT !.at = "commit", !.changed = unsynced]
  /\ unsynced' = FALSE
  /\ Quiet /\ UNCHANGED <<table, masked, dstack, interrupt, objects>>

\* Mutant: the status is not looked at.
CheckNothing ==
  /\ At("check")
  /\ Goto("kill")
  /\ Quiet /\ UNCHANGED <<table, unsynced, masked, dstack, interrupt, objects>>

\* OS_process_send_signal: only a process that waitpid has not reported as dead
\* may be signalled.
Check ==
  /\ At("check")
  /\ IF raw[m.s] \in Alive THEN Goto("kill") ELSE ErrorOut
  /\ Quiet /\ UNCHANGED <<table, unsynced, masked, dstack, interrupt, objects>>

\* process_send_signal, which fails for a process that is not Scheme's any more.
Send(fails) ==
  /\ At("kill")
  /\ IF fails
     THEN ErrorOut /\ UNCHANGED <<kernel, pending>>
     ELSE Goto("commit") /\ Kill(id[m.s], m.op)
  /\ UNCHANGED <<tty, foreground, table, unsynced, masked, dstack, interrupt, objects>>

-----------------------------------------------------------------------------
(* dstack_set_position: the protectors run one by one, with the signals    *)
(* unblocked that the mask then allows.                                    *)

Return == m' = IF m.next = "run" THEN AtRest ELSE [m EXCEPT !.at = m.next]

Unwind ==
  /\ At("commit") \/ At("unwind")
  /\ LET top == Head(dstack)
     IN  IF Runs(top) /\ top.procedure = "process_allocate_abort"
         THEN Goto("abort") /\ Quiet /\ UNCHANGED <<masked, dstack>>
         ELSE /\ dstack' = Tail(dstack)
              /\ masked' = IF Runs(top) /\ top.procedure = "restore_signal_mask"
                           THEN top.environment ELSE masked
              /\ IF Runs(top) /\ top.procedure = "get_terminal_back"
                 THEN GetTerminalBack ELSE UNCHANGED <<tty, foreground>>
              /\ IF Len(dstack) = 1 THEN Return ELSE UNCHANGED m
              /\ UNCHANGED <<kernel, pending>>
  /\ UNCHANGED <<table, unsynced, interrupt, objects>>

\* process_allocate_abort
Abort ==
  /\ At("abort")
  /\ Goto(IF raw[m.s] \in Alive THEN "abort-kill" ELSE "deallocate")
  /\ Quiet /\ UNCHANGED <<table, unsynced, masked, dstack, interrupt, objects>>

AbortKill ==
  /\ At("abort-kill")
  /\ Changed({c \in OfPid(id[m.s]) : child[c] \in Alive}, "exited")
  /\ Goto("deallocate")
  /\ UNCHANGED <<tty, foreground, table, unsynced, masked, dstack, interrupt, objects>>

\* Mutant: the process number is left in the slot.
DeallocateNothing ==
  /\ At("deallocate")
  /\ Goto("free")
  /\ Quiet /\ UNCHANGED <<table, unsynced, masked, dstack, interrupt, objects>>

\* OS_process_deallocate: its two assignments, and the end of the protector or of
\* PROCESS-DELETE
Deallocate ==
  /\ At("deallocate")
  /\ id' = [id EXCEPT ![m.s] = None]
  /\ Goto("free")
  /\ Quiet /\ UNCHANGED <<raw, status, changed, jc, unsynced, masked, dstack, interrupt, objects>>

Free ==
  /\ At("free")
  /\ raw' = [raw EXCEPT ![m.s] = "free"]
  /\ m' = AtRest /\ dstack' = << >>
  /\ Quiet /\ UNCHANGED <<id, status, changed, jc, unsynced, masked, interrupt, objects>>

-----------------------------------------------------------------------------
(* process.scm                                                             *)

UCode == <<kernel, pending, tty, table, unsynced, masked, dstack, foreground, interrupt>>

Valid(c) == index[c] # None

\* poll-subprocess-status, up to process-status-sync
Poll(c, then) ==
  m' = [m EXCEPT !.at = "block", !.op = "sync", !.c = c, !.s = index[c],
                 !.next = "polled", !.then = then, !.todo = @ \ {c}]

\* poll-subprocess-status, after it
Polled ==
  /\ At("polled")
  /\ known' = [known EXCEPT ![m.c] = IF m.changed THEN status[m.s] ELSE @]
  /\ m' = IF m.then \in {"run", "poll"} THEN [AtRest EXCEPT !.at = m.then, !.todo = m.todo]
                                        ELSE [m EXCEPT !.at = m.then]
  /\ UNCHANGED <<UCode, index, regs, waits, result, loops>>

\* make-subprocess, after the primitive
New ==
  /\ At("new")
  /\ index' = [index EXCEPT ![m.c] = m.s]
  /\ known' = [known EXCEPT ![m.c] = status[m.s]]
  /\ m' = [m EXCEPT !.at = "block", !.op = "sync", !.next = "polled",
                    !.then = IF m.op = "foreground" THEN "loop" ELSE "run"]
  /\ UNCHANGED <<UCode, regs, waits, result, loops>>

\* subprocess-kill, subprocess-stop, ... and subprocess-continue-background
Signal(t, c, op) ==
  /\ Running(t) /\ Valid(c)
  /\ op = "continue" => raw[index[c]] \in Alive
  /\ Call(op, c, "run")
  /\ UNCHANGED <<UCode, objects>>

\* subprocess-continue-foreground: a loop in which the thread may be switched,
Foreground(t, c) ==
  /\ Running(t) /\ Valid(c)
  /\ loops' = [loops EXCEPT ![t] = c]
  /\ UNCHANGED <<UCode, subs, regs, waits, result, m>>

\* of the primitive, which wants a process of this terminal that is alive,
Again(t) ==
  /\ At("run") /\ loops[t] # None /\ ~interrupt
  /\ LET s == index[loops[t]]
     IN  IF s # None /\ raw[s] \in Alive /\ jc[s]
         THEN /\ m' = [m EXCEPT !.at = "block", !.op = "continue-foreground", !.t = t,
                                !.c = loops[t], !.s = s, !.next = "loop"]
              /\ UNCHANGED loops
         ELSE loops' = [loops EXCEPT ![t] = None] /\ UNCHANGED m
  /\ UNCHANGED <<UCode, subs, regs, waits, result>>

\* and of a look at the status in the object.
Loop ==
  /\ At("loop")
  /\ loops' = [loops EXCEPT ![m.t] = IF known[m.c] = "running" THEN m.c ELSE None]
  /\ m' = AtRest
  /\ UNCHANGED <<UCode, subs, regs, waits, result>>

\* subprocess-delete
Delete(t, c) ==
  /\ Running(t) /\ Valid(c)
  /\ Poll(c, "delete")
  /\ UNCHANGED <<UCode, objects>>

\* deregister-subprocess, and remove-from-gc-finalizer!
Deleted ==
  /\ At("delete")
  /\ regs' = {r \in regs : r.c # m.c}
  /\ index' = [index EXCEPT ![m.c] = None]
  /\ Goto("deallocate")
  /\ UNCHANGED <<UCode, known, waits, result, loops>>

\* subprocess-wait, up to its loop: register-subprocess-event
WaitFor(t, c) ==
  /\ Running(t) /\ known[c] # None
  /\ waits' = [waits EXCEPT ![t] = c]
  /\ regs' = regs \cup {[c |-> c, thread |-> t, status |-> known[c]]}
  /\ result' = [result EXCEPT ![t] = IF known[c] = "running" THEN None ELSE known[c]]
  /\ UNCHANGED <<UCode, subs, loops, m>>

\* A thread waits for a descriptor.
Read(t) ==
  /\ Running(t)
  /\ waits' = [waits EXCEPT ![t] = "io"]
  /\ UNCHANGED <<UCode, subs, regs, result, loops, m>>

\* The event has come.  The thread goes on waiting if the child runs.
Waited(t) ==
  /\ At("run") /\ result[t] # None
  /\ result' = [result EXCEPT ![t] = None]
  /\ IF result[t] = "running"
     THEN UNCHANGED <<waits, regs>>
     ELSE /\ waits' = [waits EXCEPT ![t] = None]
          /\ regs' = {r \in regs : r.thread # t}
  /\ UNCHANGED <<UCode, subs, loops, m>>

\* %handle-subprocess-status-change, after process-status-sync-all
Handle ==
  /\ At("handle")
  /\ m' = IF m.changed THEN [AtRest EXCEPT !.at = "poll", !.todo = {c \in Child : Valid(c)}]
                       ELSE AtRest
  /\ UNCHANGED <<UCode, objects>>

PollNext(c) ==
  /\ At("poll") /\ c \in m.todo
  /\ Poll(c, "poll")
  /\ UNCHANGED <<UCode, objects>>

\* The events are signalled, and those of dead children dropped.
Notify ==
  /\ At("poll") /\ m.todo = {}
  /\ result' = [t \in Thread |->
                  LET stale == {r \in regs : r.thread = t /\ r.status # known[r.c]}
                  IN  IF stale = {} THEN result[t] ELSE known[(CHOOSE r \in stale : TRUE).c]]
  /\ regs' = {[c |-> r.c, thread |-> r.thread, status |-> known[r.c]] :
                r \in {r \in regs : known[r.c] \notin Dead}}
  /\ m' = AtRest
  /\ UNCHANGED <<UCode, subs, waits, loops>>

-----------------------------------------------------------------------------
(* wait-for-io, maybe-signal-io-thread-events                              *)

\* Mutant: the timer does not look at subprocesses.
TimerBlind ==
  /\ At("run") /\ (interrupt \/ regs # {}) /\ \E t \in Thread \ Waiter : waits[t] = None
  /\ interrupt' = FALSE
  /\ UNCHANGED <<kernel, pending, tty, table, unsynced, masked, dstack, foreground, objects, m>>

\* The timer interrupt of a running thread, while events are registered: a poll
\* that does not block.  Other interrupts are served.
Timer ==
  /\ At("run") /\ (interrupt \/ regs # {}) /\ \E t \in Thread \ Waiter : waits[t] = None
  /\ interrupt' = FALSE
  /\ IF regs # {} THEN Goto("selected") ELSE UNCHANGED m
  /\ UNCHANGED <<kernel, pending, tty, table, unsynced, masked, foreground, dstack, objects>>

\* No thread can run: safe_poll masks the signals,
Idle ==
  /\ At("run") /\ \A t \in Thread : (t \in Waiter \/ waits[t] # None) /\ result[t] = None
  /\ Goto("select")
  /\ UNCHANGED <<UCode, objects>>

\* Mutant: changes of status are not looked at under the mask.
SelectBlind ==
  /\ At("select")
  /\ Goto(IF interrupt THEN "selected" ELSE "ppoll")
  /\ UNCHANGED <<UCode, objects>>

\* and sleeps in ppoll unless there is something to do.
Select ==
  /\ At("select")
  /\ Goto(IF unsynced \/ interrupt THEN "selected" ELSE "ppoll")
  /\ UNCHANGED <<UCode, objects>>

\* OS_test_select_registry, after the poll
Selected ==
  /\ At("selected")
  /\ IF unsynced
     THEN Call("sync-all", None, "handle") /\ UNCHANGED interrupt
     ELSE m' = AtRest /\ interrupt' = FALSE
  /\ UNCHANGED <<kernel, pending, tty, table, unsynced, masked, dstack, foreground, objects>>

\* A descriptor is ready, which is returned before anything else is looked at.
IoReady ==
  /\ At("ppoll") \/ At("selected")
  /\ \E t \in Thread : waits[t] = "io"
  /\ waits' = [t \in Thread |-> IF waits[t] = "io" THEN None ELSE waits[t]]
  /\ m' = AtRest
  /\ UNCHANGED <<UCode, subs, regs, result, loops>>

-----------------------------------------------------------------------------
Init ==
  /\ child = [c \in Child |-> "unborn"] /\ news = {} /\ pid = [c \in Child |-> None]
  /\ pending = FALSE
  /\ tty = OurTerminal
  /\ id = [s \in Slot |-> None]
  /\ raw = [s \in Slot |-> "free"] /\ status = [s \in Slot |-> "free"]
  /\ changed = [s \in Slot |-> FALSE] /\ jc = [s \in Slot |-> FALSE]
  /\ unsynced = FALSE
  /\ masked = FALSE /\ dstack = << >> /\ foreground = None /\ interrupt = FALSE
  /\ index = [c \in Child |-> None] /\ known = [c \in Child |-> None]
  /\ regs = {} /\ waits = [t \in Thread |-> None] /\ result = [t \in Thread |-> None]
  /\ loops = [t \in Thread |-> None]
  /\ m = AtRest

System == \/ \E c \in Child : Exit(c) \/ Stop(c)
          \/ Interrupt \/ StopSignal

Program ==
  \/ \E t \in Waiter, c \in Child : WaitFor(t, c)
  \/ \E t \in Thread \ Waiter :
       \/ \E kind \in Makes : Make(t, kind)
       \/ Read(t)
       \/ \E c \in Child : Delete(t, c) \/ Signal(t, c, "KILL")
       \/ \E c \in JobControl : \/ \E op \in {"TSTP", "continue"} : Signal(t, c, op)
                                \/ Foreground(t, c)

\* What the machine does next by itself.
Machine ==
  \/ Block \/ \E c \in Child : Fork(c)
  \/ ForkFails \/ Record \/ Wait \/ Sync \/ SyncAll \/ Check
  \/ \E outcome \in {"background", "given", "fails"} : Give(outcome)
  \/ \E fails \in BOOLEAN : ContinueStopped(fails) \/ Send(fails)
  \/ Unwind \/ Abort \/ AbortKill \/ Deallocate \/ Free
  \/ New \/ Polled \/ Loop \/ Deleted
  \/ Handle \/ \E c \in Child : PollNext(c)
  \/ Notify \/ Idle \/ Select \/ Selected
  \/ \E t \in Thread : Waited(t) \/ Again(t)

Next == System \/ Program \/ Machine \/ Timer \/ Sigchld \/ IoReady

Spec == Init /\ [][Next]_vars

\* The machine goes on, signals and timer interrupts come, every thread has its
\* turn, and not every poll finds a descriptor ready.
FairSpec == /\ Spec /\ WF_vars(Machine) /\ SF_vars(Sigchld) /\ WF_vars(Interrupt)
            /\ SF_vars(Timer) /\ SF_vars(Selected)
            /\ \A t \in Thread : SF_vars(Waited(t))

-----------------------------------------------------------------------------
(* Properties                                                              *)

\* Every variable has its type; a subprocess object never gets the status of a
\* free slot, for which convert-subprocess-status has no name.
TypeOK ==
  /\ child \in [Child -> {"unborn", "gone"} \cup Alive \cup Dead]
  /\ news \subseteq Child /\ pid \in [Child -> Pid \cup {None}]
  /\ pending \in BOOLEAN /\ masked \in BOOLEAN /\ interrupt \in BOOLEAN
  /\ unsynced \in BOOLEAN
  /\ id \in [Slot -> Pid \cup {None}]
  /\ raw \in [Slot -> {"free", "allocated"} \cup Alive \cup Dead]
  /\ status \in [Slot -> {"free"} \cup Alive \cup Dead]
  /\ changed \in [Slot -> BOOLEAN] /\ jc \in [Slot -> BOOLEAN]
  /\ foreground \in Slot \cup {None}
  /\ index \in [Child -> Slot \cup {None}] /\ known \in [Child -> {None} \cup Alive \cup Dead]

\* However a primitive ends, by its commit or by an error anywhere in it, every
\* recorded action has been undone: signals are unblocked, Scheme has its terminal
\* and modes back, and no slot is left half made.
Restored ==
  At("run") => /\ ~masked /\ dstack = << >> /\ foreground = None
               /\ tty = OurTerminal
               /\ \A s \in Slot : raw[s] # "allocated"

\* A subprocess object has the slot of its process, and a slot that is not free has
\* an object, in spite of deaths that are reported while the slot is given up and
\* of process numbers that come back.
SlotsOwned ==
  /\ \A c \in Child : Valid(c) => id[index[c]] = pid[c]
  /\ At("run") => \A s \in Slot : raw[s] # "free" => \E c \in Child : index[c] = s

\* The process table is sound, and so are the objects that refer to it.
TableSound == TypeOK /\ SlotsOwned

\* "It is not OK to send a signal if the process has already terminated and we
\* have already called wait(2)": whom OS_process_send_signal signals is still the
\* child of the slot.
SignalsOwn == At("kill") => child[m.c] \in Alive \cup Dead

\* A child that was seen dead is not taken for alive again: no status that is on
\* its way is overtaken by an older one.
DeadStayDead ==
  [][\A s \in Slot : raw[s] \in Dead => raw'[s] \in Dead \cup {"free"}]_vars

\* Scheme does not sleep in ppoll on news: unless a signal is pending that will wake
\* it, every object has the status of its slot, the dead ones are seen dead, and
\* nobody waits for a child that does not run.
SleepsInformed ==
  At("ppoll") /\ ~pending =>
    /\ \A c \in Child : Valid(c) =>
         /\ known[c] = raw[index[c]]
         /\ child[c] \in Dead \cup {"gone"} <=> known[c] \in Dead
    /\ \A t \in Thread : waits[t] \in Child /\ Valid(waits[t])
                           => known[waits[t]] = "running"

\* subprocess-wait returns once the child is dead, whatever the other threads and
\* children do, unless its object is deleted.
WaitReturns ==
  []<>(\A t \in Thread : waits[t] \in Child /\ Valid(waits[t])
                           => child[waits[t]] \notin Dead \cup {"gone"})

\* The same of the signal of process_allocate_abort, which runs after SIGCHLD was
\* unblocked.
AbortSignalsOwn == At("abort-kill") => child[m.c] \in Alive \cup Dead
=============================================================================
