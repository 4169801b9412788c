------------------------------- MODULE Tasks --------------------------------
(***************************************************************************)
(* Tasks, task groups and cancellation (src/runtime/task.scm).             *)
(*                                                                         *)
(* A task is taken together with its thread, and a group with the task     *)
(* that owns it: a task opens at most one.  What is done with a task's     *)
(* mutex held is one step.  The mutex of a group is a variable, since a    *)
(* child is spawned while it is held, and may run meanwhile.  Lists whose  *)
(* order does not matter are sets.                                         *)
(*                                                                         *)
(* Threads are seen as in Condvar: a pending event #f is a token, which    *)
(* only a thread inside %wait or task-sleep keeps, and which waiting for a *)
(* mutex may use up.                                                       *)
(***************************************************************************)
EXTENDS Naturals, Sequences, Functions

CONSTANTS Task, NoTask,
          Root,    \* the task of a thread that was there before
          Ops      \* what the program of each task does

AllOps == {"spawn", "group", "add", "await", "cancel", "sleep", "handler",
           "escape"}

ASSUME TasksAssumption ==
  Root \in Task /\ NoTask \notin Task /\ Ops \in [Task -> SUBSET AllOps]

VARIABLES
  state, cancelled, parent, children, awaiters,  \* fields of a task
  handler,     \* the tasks with a cancellation handler
  scope,       \* with-task-group of each task: "none", "open", "closed" or "left"
  gcancelled, pending, finished, gwaiters, gmutex,  \* fields of its group
  pc,          \* where each task is
  goal,        \* what a task in %wait waits for
  adding,      \* the group and the child of a task in %task-group-add
  work,        \* the tasks that a task in cancel-task! has still to cancel,
               \* the one it is at, and where it goes then
  wake,        \* the threads that a task in %finish-task! has still to wake
  token,       \* the tasks whose thread has a pending event #f
  rung         \* the tasks whose task-sleep is over

record == <<state, cancelled, parent, children, awaiters, handler>>
group  == <<scope, gcancelled, pending, finished, gwaiters, gmutex>>
vars   == <<record, group, pc, goal, adding, work, wake, token, rung>>

NoGoal == [kind |-> "none", of |-> NoTask]
NoAdding == [group |-> NoTask, child |-> NoTask]
Todo(tasks, then) == [todo |-> tasks, at |-> NoTask, handler |-> FALSE, then |-> then]
NoWork == Todo({}, "run")

Goto(t, where) == pc' = [pc EXCEPT ![t] = where]

\* A task calls an operation that its program uses.
Program(t, op) == op \in Ops[t] /\ pc[t] = "run"

\* Completed or failed: which of the two is chosen when task-group-wait-all looks.
Done(t) == state[t] = "done"

-----------------------------------------------------------------------------
(* Waiting                                                                 *)

\* The thread is in %wait or task-sleep, with its events blocked.
KeepsToken(t) == pc[t] \in {"try", "sleep", "nap-test", "nap"}

\* signal-thread-event with #f
Signal(u) == token' = token \cup (IF KeepsToken(u) THEN {u} ELSE {})

\* with-thread-mutex-lock, which may use up a token.
LockUses(t) == token' \in {token, token \ {t}}

\* What a waiting task waits for: a finished child of a group, or the end of a task
OnGroup(t) == goal[t].kind # "await"
GroupFree(t) == OnGroup(t) => gmutex[goal[t].of] = NoTask
Available(t) ==
  IF OnGroup(t) THEN finished[goal[t].of] # << >> \/ pending[goal[t].of] = {}
  ELSE Done(goal[t].of)

\* add-waiter! and remove-waiter!
Waiters(t) == IF OnGroup(t) THEN gwaiters[goal[t].of] ELSE awaiters[goal[t].of]
SetWaiter(t, ws) ==
  IF OnGroup(t)
  THEN gwaiters' = [gwaiters EXCEPT ![goal[t].of] = ws] /\ UNCHANGED awaiters
  ELSE awaiters' = [awaiters EXCEPT ![goal[t].of] = ws] /\ UNCHANGED gwaiters

\* %wait starts.
Wait(t, k, u) ==
  /\ goal' = [goal EXCEPT ![t] = [kind |-> k, of |-> u]]
  /\ Goto(t, "try")

\* Mutant: the waiter is not registered.
TryUnregistered(t) ==
  /\ pc[t] = "try" /\ GroupFree(t) /\ ~Available(t)
  /\ Goto(t, "sleep")
  /\ LockUses(t)
  /\ UNCHANGED <<record, group, goal, adding, work, wake, rung>>

\* try finds nothing: the thread registers itself.
Try(t) ==
  /\ pc[t] = "try" /\ GroupFree(t) /\ ~Available(t)
  /\ SetWaiter(t, Waiters(t) \cup {t})
  /\ Goto(t, "sleep")
  /\ LockUses(t)
  /\ UNCHANGED <<state, cancelled, parent, children, handler, scope, gcancelled, pending,
                 finished, gmutex, goal, adding, work, wake, rung>>

\* suspend-current-thread returns: the thread takes itself off, and tries again.
Again(t) ==
  /\ pc[t] = "sleep" /\ t \in token /\ GroupFree(t)
  /\ SetWaiter(t, Waiters(t) \ {t})
  /\ token' = token \ {t}
  /\ Goto(t, "try")
  /\ UNCHANGED <<state, cancelled, parent, children, handler, scope, gcancelled, pending,
                 finished, gmutex, goal, adding, work, wake, rung>>

\* %wait ends: events are unblocked.
Return(t, where) ==
  /\ goal' = [goal EXCEPT ![t] = NoGoal]
  /\ token' = token \ {t}
  /\ Goto(t, where)

\* await returns.
Awaited(t) ==
  /\ pc[t] = "try" /\ goal[t].kind = "await" /\ Available(t)
  /\ Return(t, "run")
  /\ UNCHANGED <<record, group, adding, work, wake, rung>>

\* %task-group-next-finished takes a child.  task-group-wait-all cancels the
\* others if it failed, the first time; %task-group-discard-all goes on.
Collect(t, failed) ==
  /\ pc[t] = "try" /\ OnGroup(t) /\ GroupFree(t) /\ finished[goal[t].of] # << >>
  /\ finished' = [finished EXCEPT ![goal[t].of] = Tail(@)]
  /\ \/ goal[t].kind = "next" /\ Return(t, "run") /\ UNCHANGED work
     \/ /\ goal[t].kind = "wait-all" /\ failed
        /\ goal' = [goal EXCEPT ![t] = [kind |-> "wait-rest", of |-> t]]
        /\ token' = token \ {t}
        /\ work' = [work EXCEPT ![t] = Todo({}, "try")]
        /\ Goto(t, "cancel-all")
     \/ /\ goal[t].kind # "next" /\ ~(goal[t].kind = "wait-all" /\ failed)
        /\ LockUses(t)
        /\ UNCHANGED <<pc, goal, work>>
  /\ UNCHANGED <<record, scope, gcancelled, pending, gwaiters, gmutex, adding, wake, rung>>

\* with-task-group ends.  Nothing looks at the group any more.
Left(t) ==
  /\ scope' = [scope EXCEPT ![t] = "left"]
  /\ gcancelled' = [gcancelled EXCEPT ![t] = FALSE]

\* Mutant: the end is reported as soon as no child is finished.
EofEarly(t) ==
  /\ pc[t] = "try" /\ OnGroup(t) /\ GroupFree(t)
  /\ finished[goal[t].of] = << >>
  /\ Return(t, "run")
  /\ IF goal[t].kind = "discard" THEN Left(t) ELSE UNCHANGED <<scope, gcancelled>>
  /\ UNCHANGED <<record, pending, finished, gwaiters, gmutex, adding, work, wake, rung>>

\* No child remains.
Eof(t) ==
  /\ pc[t] = "try" /\ OnGroup(t) /\ GroupFree(t) /\ Available(t)
  /\ finished[goal[t].of] = << >>
  /\ Return(t, "run")
  /\ IF goal[t].kind = "discard" THEN Left(t) ELSE UNCHANGED <<scope, gcancelled>>
  /\ UNCHANGED <<record, pending, finished, gwaiters, gmutex, adding, work, wake, rung>>

-----------------------------------------------------------------------------
(* Cancellation                                                            *)

\* cancel-task! for each of a set of tasks; it does nothing to one that is cancelled.
CancelEach(t, tasks, then) ==
  LET todo == {u \in tasks : ~cancelled[u]}
  IN  /\ work' = [work EXCEPT ![t] = IF todo = {} THEN NoWork ELSE Todo(todo, then)]
      /\ Goto(t, IF todo = {} THEN then ELSE "cancel")

\* Mutant: the children are not cancelled.
CancelAlone(t, u, others, then) ==
  /\ cancelled' = [cancelled EXCEPT ![u] = TRUE]
  /\ handler' = handler \ {u}
  /\ work' = [work EXCEPT ![t] = [todo |-> others, at |-> u, handler |-> u \in handler,
                                  then |-> then]]
  /\ Goto(t, "wake-task")

\* cancel-task!, with the mutex of the task held
Cancel(t, u, others, then) ==
  /\ cancelled' = [cancelled EXCEPT ![u] = TRUE]
  /\ handler' = handler \ {u}
  /\ work' = [work EXCEPT ![t] = [todo |-> others \cup children[u], at |-> u,
                                  handler |-> u \in handler, then |-> then]]
  /\ Goto(t, "wake-task")

\* The next of several, unless someone else has cancelled it meanwhile.
CancelNext(t) ==
  /\ pc[t] = "cancel"
  /\ \E u \in work[t].todo :
       IF cancelled[u]
       THEN CancelEach(t, work[t].todo, work[t].then) /\ UNCHANGED <<cancelled, handler>>
       ELSE Cancel(t, u, work[t].todo \ {u}, work[t].then)
  /\ UNCHANGED <<state, parent, children, awaiters, group, goal, adding, wake, token, rung>>

\* %wake-task!
WakeTask(t) ==
  /\ pc[t] = "wake-task"
  /\ Signal(work[t].at)
  /\ IF work[t].handler
     THEN Goto(t, "handler") /\ work' = [work EXCEPT ![t] = Todo(work[t].todo, work[t].then)]
     ELSE CancelEach(t, work[t].todo, work[t].then)
  /\ UNCHANGED <<record, group, goal, adding, wake, rung>>

\* The handler runs on the cancelling thread.
RunHandler(t) ==
  /\ pc[t] = "handler"
  /\ CancelEach(t, work[t].todo, work[t].then)
  /\ UNCHANGED <<record, group, goal, adding, wake, token, rung>>

\* task-group-cancel-all!: the group is marked and its children are copied.
CancelAll(t) ==
  /\ pc[t] = "cancel-all" /\ gmutex[t] = NoTask
  /\ gcancelled' = [gcancelled EXCEPT ![t] = TRUE]
  /\ CancelEach(t, pending[t], work[t].then)
  /\ UNCHANGED <<record, scope, pending, finished, gwaiters, gmutex, goal, adding, wake,
                 token, rung>>

-----------------------------------------------------------------------------
(* Spawning and finishing                                                  *)

\* Where a task goes that has threads to wake before it is over.
Waking(threads) == IF threads = {} THEN "dead" ELSE "wake"

\* A new task, with its thread
NewTask(c, p) ==
  /\ state' = [state EXCEPT ![c] = "running"]
  /\ parent' = [parent EXCEPT ![c] = p]

\* spawn-task, which has no structured parent
SpawnTask(t, c) ==
  /\ Program(t, "spawn") /\ pc[c] = "unborn"
  /\ NewTask(c, NoTask)
  /\ pc' = [pc EXCEPT ![c] = "run"]
  /\ UNCHANGED <<cancelled, children, awaiters, handler, group, goal, adding, work, wake, token,
                 rung>>

\* %task-group-add, by any task that has the group: it is locked and found open, and
\* %spawn makes the task a child of its owner and creates its thread.
\* (task-group-add-unless-cancelled! does this or nothing.)
AddTask(t, g, c) ==
  /\ Program(t, "add") /\ scope[g] = "open" /\ gmutex[g] = NoTask
  /\ pc[c] = "unborn"
  /\ gmutex' = [gmutex EXCEPT ![g] = t]
  /\ adding' = [adding EXCEPT ![t] = [group |-> g, child |-> c]]
  /\ NewTask(c, g)
  /\ IF cancelled[g]
     THEN cancelled' = [cancelled EXCEPT ![c] = TRUE] /\ UNCHANGED children
     ELSE children' = [children EXCEPT ![g] = @ \cup {c}] /\ UNCHANGED cancelled
  /\ pc' = [pc EXCEPT ![t] = "register", ![c] = "run"]
  /\ UNCHANGED <<awaiters, handler, scope, gcancelled, pending, finished, gwaiters, goal, work,
                 wake, token, rung>>

\* Mutant: the group is not unlocked.
RegisterLocked(t) ==
  /\ pc[t] = "register"
  /\ LET g == adding[t].group
         c == adding[t].child
     IN /\ pending' = [pending EXCEPT ![g] = @ \cup {c}]
        /\ IF gcancelled[g] THEN CancelEach(t, {c}, "run")
           ELSE Goto(t, "run") /\ UNCHANGED work
  /\ adding' = [adding EXCEPT ![t] = NoAdding]
  /\ UNCHANGED <<record, scope, gcancelled, finished, gwaiters, gmutex, goal, wake, token, rung>>

\* The child becomes one of the pending ones, and the group is unlocked; the
\* child is cancelled then if the group is.
Register(t) ==
  /\ pc[t] = "register"
  /\ LET g == adding[t].group
         c == adding[t].child
     IN /\ pending' = [pending EXCEPT ![g] = @ \cup {c}]
        /\ gmutex' = [gmutex EXCEPT ![g] = NoTask]
        /\ IF gcancelled[g] THEN CancelEach(t, {c}, "run")
           ELSE Goto(t, "run") /\ UNCHANGED work
  /\ adding' = [adding EXCEPT ![t] = NoAdding]
  /\ UNCHANGED <<record, scope, gcancelled, finished, gwaiters, goal, wake, token, rung>>

\* %run-task: the thunk returns, signals an error or is left; %finish-task!,
\* with the mutex of the task held.
FinishTask(t) ==
  /\ pc[t] = "run" /\ t # Root /\ scope[t] \in {"none", "left"}
  /\ state' = [state EXCEPT ![t] = "done"]
  /\ handler' = handler \ {t}
  /\ wake' = [wake EXCEPT ![t] = awaiters[t]]
  /\ awaiters' = [awaiters EXCEPT ![t] = {}]
  /\ Goto(t, IF parent[t] = NoTask THEN Waking(awaiters[t]) ELSE "unparent")
  /\ UNCHANGED <<cancelled, parent, children, group, goal, adding, work, token, rung>>

\* %remove-child!
RemoveChild(t) ==
  /\ pc[t] = "unparent"
  /\ children' = [children EXCEPT ![parent[t]] = @ \ {t}]
  /\ Goto(t, "hook")
  /\ UNCHANGED <<state, cancelled, parent, awaiters, handler, group, goal, adding, work, wake,
                 token, rung>>

\* Mutant: the child stays among the pending ones.
HookPending(t) ==
  /\ pc[t] = "hook"
  /\ LET g == parent[t]
     IN /\ gmutex[g] = NoTask
        /\ finished' = [finished EXCEPT ![g] = Append(@, t)]
        /\ wake' = [wake EXCEPT ![t] = @ \cup gwaiters[g]]
        /\ gwaiters' = [gwaiters EXCEPT ![g] = {}]
  /\ Goto(t, Waking(wake'[t]))
  /\ UNCHANGED <<record, scope, gcancelled, pending, gmutex, goal, adding, work, token, rung>>

\* The finish hook of a child, up to its wake-ups
Hook(t) ==
  /\ pc[t] = "hook"
  /\ LET g == parent[t]
     IN /\ gmutex[g] = NoTask
        /\ pending' = [pending EXCEPT ![g] = @ \ {t}]
        /\ finished' = [finished EXCEPT ![g] = Append(@, t)]
        /\ wake' = [wake EXCEPT ![t] = @ \cup gwaiters[g]]
        /\ gwaiters' = [gwaiters EXCEPT ![g] = {}]
  /\ Goto(t, Waking(wake'[t]))
  /\ UNCHANGED <<record, scope, gcancelled, gmutex, goal, adding, work, token, rung>>

\* %wake-threads!, after which the thread is over
WakeOne(t) ==
  /\ pc[t] = "wake"
  /\ \E u \in wake[t] : Signal(u) /\ wake' = [wake EXCEPT ![t] = @ \ {u}]
  /\ Goto(t, Waking(wake'[t]))
  /\ UNCHANGED <<record, group, goal, adding, work, rung>>

-----------------------------------------------------------------------------
(* Scopes                                                                  *)

\* with-task-group
OpenGroup(t) ==
  /\ Program(t, "group") /\ scope[t] = "none"
  /\ scope' = [scope EXCEPT ![t] = "open"]
  /\ UNCHANGED <<record, gcancelled, pending, finished, gwaiters, gmutex, pc, goal, adding, work,
                 wake, token, rung>>

\* %close-task-group!; task-group-cancel-all! and %task-group-discard-all are to come.
Close(t, cancel) ==
  /\ gmutex[t] = NoTask
  /\ scope' = [scope EXCEPT ![t] = "closed"]
  /\ goal' = [goal EXCEPT ![t] = [kind |-> "discard", of |-> t]]
  /\ work' = [work EXCEPT ![t] = IF cancel THEN Todo({}, "try") ELSE NoWork]
  /\ Goto(t, IF cancel THEN "cancel-all" ELSE "try")

\* The procedure returns; it signals an error, or is that of async-let, so that
\* the children are cancelled.
BodyEnds(t, cancel) ==
  /\ pc[t] = "run" /\ scope[t] = "open"
  /\ Close(t, cancel)
  /\ UNCHANGED <<record, gcancelled, pending, finished, gwaiters, gmutex, adding, wake, token,
                 rung>>

\* The task leaves its wait by a continuation.  The after thunk of its scope, if it
\* has one that is open, cancels the children and waits for them.  (The wait of a
\* scope that is closed is not left.)
Escape(t) ==
  /\ "escape" \in Ops[t] /\ pc[t] = "sleep" /\ scope[t] # "closed"
  /\ IF scope[t] = "open" THEN Close(t, TRUE) /\ token' = token \ {t}
     ELSE Return(t, "run") /\ UNCHANGED <<scope, work>>
  /\ UNCHANGED <<record, gcancelled, pending, finished, gwaiters, gmutex, adding, wake, rung>>

-----------------------------------------------------------------------------
(* The other calls of the program                                          *)

\* await, up to %wait.  (The root task does not end.)
Await(t, u) ==
  /\ Program(t, "await") /\ u \notin {t, Root} /\ state[u] # "unborn"
  /\ Wait(t, "await", u)
  /\ UNCHANGED <<record, group, adding, work, wake, token, rung>>

\* task-group-next and task-group-wait-all, by the owner of the group
GroupWait(t, k) ==
  /\ Program(t, "group") /\ scope[t] = "open"
  /\ Wait(t, k, t)
  /\ UNCHANGED <<record, group, adding, work, wake, token, rung>>

\* cancel-task!, by anybody
CancelTask(t, u) ==
  /\ Program(t, "cancel") /\ state[u] # "unborn" /\ ~cancelled[u]
  /\ Cancel(t, u, {}, "run")
  /\ UNCHANGED <<state, parent, children, awaiters, group, goal, adding, wake, token, rung>>

\* task-group-cancel-all!
CancelGroup(t) ==
  /\ Program(t, "cancel") /\ scope[t] = "open"
  /\ Goto(t, "cancel-all")
  /\ UNCHANGED <<record, group, goal, adding, work, wake, token, rung>>

\* with-task-cancellation-handler, and its end
SetHandler(t) ==
  /\ Program(t, "handler")
  /\ handler' = IF t \in handler THEN handler \ {t}
                ELSE IF cancelled[t] THEN handler ELSE handler \cup {t}
  /\ UNCHANGED <<state, cancelled, parent, children, awaiters, group, pc, goal, adding, work,
                 wake, token, rung>>

\* task-sleep
TaskSleep(t) ==
  /\ Program(t, "sleep") /\ ~cancelled[t]
  /\ rung' = rung \ {t}
  /\ Goto(t, "nap-test")
  /\ UNCHANGED <<record, group, goal, adding, work, wake, token>>

\* The test before each suspension of task-sleep
NapTest(t) ==
  /\ pc[t] = "nap-test"
  /\ IF t \in rung \/ cancelled[t]
     THEN Return(t, "run")
     ELSE Goto(t, "nap") /\ UNCHANGED <<goal, token>>
  /\ UNCHANGED <<record, group, adding, work, wake, rung>>

\* suspend-current-thread, in task-sleep
Nap(t) ==
  /\ pc[t] = "nap" /\ t \in token
  /\ token' = token \ {t}
  /\ Goto(t, "nap-test")
  /\ UNCHANGED <<record, group, goal, adding, work, wake, rung>>

\* The timer of task-sleep: its event also wakes the thread.
Ring(t) ==
  /\ pc[t] \in {"nap-test", "nap"} /\ t \notin rung
  /\ rung' = rung \cup {t}
  /\ Signal(t)
  /\ UNCHANGED <<record, group, pc, goal, adding, work, wake>>

-----------------------------------------------------------------------------
Init ==
  /\ state = [t \in Task |-> IF t = Root THEN "running" ELSE "unborn"]
  /\ cancelled = [t \in Task |-> FALSE]
  /\ parent = [t \in Task |-> NoTask]
  /\ children = [t \in Task |-> {}]
  /\ awaiters = [t \in Task |-> {}]
  /\ handler = {}
  /\ scope = [t \in Task |-> "none"]
  /\ gcancelled = [t \in Task |-> FALSE]
  /\ pending = [t \in Task |-> {}]
  /\ finished = [t \in Task |-> << >>]
  /\ gwaiters = [t \in Task |-> {}]
  /\ gmutex = [t \in Task |-> NoTask]
  /\ pc = [t \in Task |-> IF t = Root THEN "run" ELSE "unborn"]
  /\ goal = [t \in Task |-> NoGoal]
  /\ adding = [t \in Task |-> NoAdding]
  /\ work = [t \in Task |-> NoWork]
  /\ wake = [t \in Task |-> {}]
  /\ token = {} /\ rung = {}

\* What a task does of itself once it is in an operation.
Work(t) ==
  \/ Try(t) \/ Again(t) \/ Awaited(t) \/ (\E failed \in BOOLEAN : Collect(t, failed)) \/ Eof(t)
  \/ CancelAll(t) \/ CancelNext(t) \/ WakeTask(t) \/ RunHandler(t)
  \/ Register(t)
  \/ RemoveChild(t) \/ Hook(t) \/ WakeOne(t)
  \/ NapTest(t) \/ Nap(t) \/ Ring(t)

\* A program's end, of a scope and of a task.
Ends(t) ==
  \/ FinishTask(t)
  \/ \E cancel \in BOOLEAN : BodyEnds(t, cancel)

Calls(t) ==
  \/ \E c \in Task : SpawnTask(t, c)
  \/ \E g, c \in Task : AddTask(t, g, c)
  \/ \E u \in Task : Await(t, u) \/ CancelTask(t, u)
  \/ \E k \in {"next", "wait-all"} : GroupWait(t, k)
  \/ OpenGroup(t) \/ CancelGroup(t) \/ SetHandler(t) \/ TaskSleep(t)

Next == \E t \in Task : Work(t) \/ Ends(t) \/ Calls(t) \/ Escape(t)

Spec == Init /\ [][Next]_vars

\* Every thread gets the processor, and a thunk comes to an end.
FairSpec == Spec /\ \A t \in Task : WF_vars(Work(t)) /\ SF_vars(Ends(t))

-----------------------------------------------------------------------------
(* Properties                                                              *)

\* Every variable has its type, and only a task that runs and is not cancelled has a
\* cancellation handler: none is left that no cancel-task! would call.
TypeOK ==
  /\ state \in [Task -> {"unborn", "running", "done"}]
  /\ cancelled \in [Task -> BOOLEAN] /\ gcancelled \in [Task -> BOOLEAN]
  /\ parent \in [Task -> Task \cup {NoTask}] /\ gmutex \in [Task -> Task \cup {NoTask}]
  /\ children \in [Task -> SUBSET Task] /\ awaiters \in [Task -> SUBSET Task]
  /\ pending \in [Task -> SUBSET Task] /\ gwaiters \in [Task -> SUBSET Task]
  /\ wake \in [Task -> SUBSET Task]
  /\ handler \subseteq {t \in Task : state[t] = "running" /\ ~cancelled[t]}
  /\ token \subseteq Task /\ rung \subseteq Task
  /\ scope \in [Task -> {"none", "open", "closed", "left"}]
  /\ finished \in [Task -> Seq(Task)]
  /\ adding \in [Task -> [group : Task \cup {NoTask}, child : Task \cup {NoTask}]]
  /\ goal \in [Task -> [kind : {"none", "await", "next", "wait-all", "wait-rest", "discard"},
                        of : Task \cup {NoTask}]]
  /\ work \in [Task -> [todo : SUBSET Task, at : Task \cup {NoTask}, handler : BOOLEAN,
                        then : {"run", "try"}]]

\* A task that sleeps in await or in a group's wait is registered and what it
\* waits for has not happened, or someone is about to wake it: no completion
\* falls between the test and the suspension of %wait.
NoLostCompletion ==
  \A t \in Task : pc[t] = "sleep" /\ t \notin token =>
    \/ \E u \in Task : t \in wake[u]
    \/ /\ ~Available(t)
       /\ t \in IF OnGroup(t) THEN gwaiters[goal[t].of] ELSE awaiters[goal[t].of]

\* A task that sleeps in task-sleep has not been cancelled, or is about to be
\* woken by the one who cancels it.
NoLostCancellation ==
  \A t \in Task : pc[t] = "nap" /\ t \notin token /\ cancelled[t] =>
    \E u \in Task : pc[u] = "wake-task" /\ work[u].at = t

\* No wake-up is lost: whoever sleeps in a wait or in task-sleep is to be woken
\* if what ends its sleep has happened.
NoLostWakeups == NoLostCompletion /\ NoLostCancellation

\* Cancellation reaches the running children of a cancelled task and those of a
\* cancelled group, however it meets their being added and their finishing: each
\* is cancelled, or someone is going to cancel it.
CancellationReaches ==
  \A c \in Task : LET p == parent[c] IN
    (/\ p # NoTask /\ state[c] = "running"
     /\ cancelled[p] \/ (gcancelled[p] /\ c \in pending[p])) =>
        cancelled[c] \/ \E t \in Task : c \in work[t].todo

\* A child is pending in its group from its registration until its finish hook,
\* and is then in the queue of the finished ones until it is collected.
GroupAccounts ==
  \A g, c \in Task :
    /\ c \in pending[g] <=> /\ parent[c] = g /\ pc[c] \notin {"wake", "dead"}
                            /\ \A t \in Task : adding[t].child # c
    /\ c \in Range(finished[g]) => parent[c] = g /\ pc[c] \in {"wake", "dead"}
    /\ IsInjective(finished[g])

\* The records of tasks and groups are sound: handlers are kept only where they
\* will be called, and a group knows its children.
GroupSound == TypeOK /\ GroupAccounts

\* "They cannot outlive the scope that created them": when a scope has been left
\* the children of its group are done.
NoOrphans ==
  \A g, c \in Task : scope[g] = "left" /\ parent[c] = g => Done(c)

\* "Do not leave awaiting tasks hanging", and children are "waited for": an await of
\* a task that is done returns, and a scope whose body has ended is left.
WaitsEnd ==
  []<>(\A t \in Task : /\ goal[t].kind = "await" => ~Done(goal[t].of)
                       /\ scope[t] # "closed")
=============================================================================
