---------------------------- MODULE TasksProofs -----------------------------
(***************************************************************************)
(* Proofs about tasks (Tasks.tla), for any set of tasks, whatever their    *)
(* programs do: no wake-up is lost, cancellation reaches every child, the  *)
(* accounts of a group are right, and no child outlives its scope.         *)
(***************************************************************************)
EXTENDS Tasks, SequenceTheorems, TLAPS

\* Zenon finds most of the steps; those that need more are marked SMT.
USE Zenon

\* Where a task is in cancel-task! or task-group-cancel-all!, where else it may be
\* while it runs, and where it is finishing or over.
Cancelling == {"cancel-all", "cancel", "wake-task", "handler"}
Moving == {"run", "try", "sleep", "nap-test", "nap"} \cup Cancelling
Over == {"unparent", "hook", "wake", "dead"}
PC == {"unborn", "register"} \cup Moving \cup Over

Scopes == {"none", "open", "closed", "left"}
Goals == [kind : {"none", "await", "next", "wait-all", "wait-rest", "discard"},
          of : Task \cup {NoTask}]
Works == [todo : SUBSET Task, at : Task \cup {NoTask}, handler : BOOLEAN, then : {"run", "try"}]

\* The types of the fields of a task, of those of a group, and of the rest
RecordTyped ==
  /\ state \in [Task -> {"unborn", "running", "done"}]
  /\ cancelled \in [Task -> BOOLEAN]
  /\ parent \in [Task -> Task \cup {NoTask}]
  /\ children \in [Task -> SUBSET Task] /\ awaiters \in [Task -> SUBSET Task]
  /\ handler \subseteq {t \in Task : state[t] = "running" /\ ~cancelled[t]}

GroupTyped ==
  /\ scope \in [Task -> Scopes]
  /\ gcancelled \in [Task -> BOOLEAN]
  /\ pending \in [Task -> SUBSET Task] /\ gwaiters \in [Task -> SUBSET Task]
  /\ finished \in [Task -> Seq(Task)]
  /\ gmutex \in [Task -> Task \cup {NoTask}]

ControlTyped ==
  /\ pc \in [Task -> PC] /\ goal \in [Task -> Goals] /\ work \in [Task -> Works]
  /\ adding \in [Task -> [group : Task \cup {NoTask}, child : Task \cup {NoTask}]]
  /\ wake \in [Task -> SUBSET Task]
  /\ token \subseteq Task /\ rung \subseteq Task

\* The state of a task, its parent and the threads it has to wake agree with where
\* it is.
PlaceInv ==
  \A t \in Task :
    /\ state[t] = "unborn" <=> pc[t] = "unborn"
    /\ state[t] = "done" <=> pc[t] \in Over
    /\ pc[t] = "unborn" => parent[t] = NoTask
    /\ pc[t] \in {"unparent", "hook"} => parent[t] # NoTask
    /\ pc[t] \notin {"unparent", "hook", "wake"} => wake[t] = {}

\* A task that adds a child holds the group, so that the child does not get past its
\* finish hook meanwhile.
AddInv ==
  \A t \in Task :
    IF pc[t] = "register"
    THEN /\ adding[t].group \in Task /\ adding[t].child \in Task
         /\ gmutex[adding[t].group] = t
         /\ parent[adding[t].child] = adding[t].group
         /\ pc[adding[t].child] \notin {"unborn", "wake", "dead"}
    ELSE adding[t] = NoAdding

\* A task t at p that waits has a goal g, and waits for no group but its own; w is its
\* work.
WaitOK(t, p, g, w) ==
  /\ p \in {"try", "sleep"} => g.kind # "none"
  /\ w.then = "try" => g.kind \notin {"none", "await"}
  /\ g.kind # "none" => g.of \in Task
  /\ g.kind \notin {"none", "await"} => g.of = t

WaitInv == \A t \in Task : WaitOK(t, pc[t], goal[t], work[t])

\* Only a task that cancels has something left to cancel.
WorkOK(p, w) ==
  /\ p \notin Cancelling => w = NoWork
  /\ p = "cancel-all" => w.todo = {}
  /\ p = "wake-task" => w.at \in Task

WorkInv == \A t \in Task : WorkOK(pc[t], work[t])

BaseInv ==
  RecordTyped /\ GroupTyped /\ ControlTyped /\ PlaceInv /\ AddInv /\ WaitInv /\ WorkInv

-----------------------------------------------------------------------------
\* What a task does while it runs: it changes nothing of the others but that it may
\* give them tokens.
Moves(t) ==
  /\ UNCHANGED <<state, parent, gmutex, adding, wake>>
  /\ pc' \in [Task -> PC] /\ goal' \in [Task -> Goals] /\ work' \in [Task -> Works]
  /\ token' \subseteq Task /\ rung' \subseteq Task
  /\ \A u \in Task \ {t} : /\ pc'[u] = pc[u] /\ goal'[u] = goal[u] /\ work'[u] = work[u]
                           /\ u \in token => u \in token'
  /\ pc[t] \in Moving /\ pc'[t] \in Moving
  /\ WaitOK(t, pc'[t], goal'[t], work'[t]) /\ WorkOK(pc'[t], work'[t])

\* What it may do to the marks of tasks and of groups: cancelled stays cancelled, and no
\* scope is left but at the end of the children.
Marks(t) ==
  /\ cancelled' \in [Task -> BOOLEAN] /\ gcancelled' \in [Task -> BOOLEAN]
  /\ scope' \in [Task -> Scopes]
  /\ handler' \subseteq {u \in Task : state[u] = "running" /\ ~cancelled'[u]}
  /\ \A u \in Task : cancelled[u] => cancelled'[u]
  /\ \A u \in Task : scope'[u] = "left" => scope[u] = "left" \/ (u = t /\ Eof(t))
  /\ \A u \in Task \ {t} : scope[u] = "none" => scope'[u] = "none"

\* Both, of a task that does not fall asleep in a wait and does not finish
OwnEffect(t) ==
  /\ Moves(t) /\ Marks(t) /\ pc'[t] # "sleep"
  /\ UNCHANGED <<children, awaiters, pending, finished, gwaiters>>

\* The invariant that Tasks.tla calls TypeOK
LEMMA Typing ==
  ASSUME RecordTyped, GroupTyped, ControlTyped
  PROVE  TypeOK
BY DEF RecordTyped, GroupTyped, ControlTyped, TypeOK, Scopes, Goals, Works

\* Such a step keeps the basic invariant.
LEMMA BaseMove ==
  ASSUME RecordTyped, GroupTyped, ControlTyped, PlaceInv, AddInv, WaitInv, WorkInv,
         NEW t \in Task, Moves(t), RecordTyped', GroupTyped'
  PROVE  BaseInv'
<1>1. ControlTyped'
  BY DEF ControlTyped, Moves
<1>2. PlaceInv'
  BY DEF PlaceInv, Moves, Moving, Cancelling, Over
<1>3. AddInv'
  <2>1. \A u \in Task : /\ pc[u] = "register" <=> pc'[u] = "register"
                        /\ pc'[u] \in {"unborn", "wake", "dead"} => pc[u] \in {"unborn", "wake", "dead"}
    BY DEF Moves, Moving, Cancelling
  <2>2. QED BY <2>1 DEF AddInv, Moves
<1>4. WaitInv'
  BY DEF WaitInv, Moves
<1>5. WorkInv'
  BY DEF WorkInv, Moves
<1>6. QED BY <1>1, <1>2, <1>3, <1>4, <1>5 DEF BaseInv

\* A task's fields keep their types if only marks change.
LEMMA MarksTyped ==
  ASSUME RecordTyped, GroupTyped, NEW t \in Task, Marks(t),
         UNCHANGED <<state, parent, children, awaiters, pending, finished, gwaiters, gmutex>>
  PROVE  RecordTyped' /\ GroupTyped'
BY DEF RecordTyped, GroupTyped, Marks

\* No mark changes if no field of a task or of a group does.
LEMMA MarksKept ==
  ASSUME RecordTyped, GroupTyped, NEW t \in Task, UNCHANGED <<record, group>>
  PROVE  /\ Marks(t) /\ UNCHANGED <<state, parent, gmutex>>
         /\ UNCHANGED <<children, awaiters, pending, finished, gwaiters>>
BY DEF RecordTyped, GroupTyped, Marks, record, group

\* So a step that changes no field is only a move.
LEMMA Quiet ==
  ASSUME RecordTyped, GroupTyped, NEW t \in Task, Moves(t), pc'[t] # "sleep",
         UNCHANGED <<record, group>>
  PROVE  OwnEffect(t)
BY MarksKept DEF OwnEffect

\* What cancel-task! for each of some tasks comes to: the task cancels those of
\* them that are not cancelled, or has nothing to do and goes on.
LEMMA CancelEachEffect ==
  ASSUME ControlTyped, NEW t \in Task, WaitOK(t, pc[t], goal[t], work[t]),
         NEW tasks \in SUBSET Task, NEW then \in {"run", "try"}, CancelEach(t, tasks, then),
         then = "try" => goal[t].kind \notin {"none", "await"}
  PROVE  /\ pc' \in [Task -> PC] /\ work' \in [Task -> Works]
         /\ \A u \in Task \ {t} : pc'[u] = pc[u] /\ work'[u] = work[u]
         /\ pc'[t] \in {"run", "try", "cancel"}
         /\ work'[t].todo = {u \in tasks : ~cancelled[u]}
         /\ WaitOK(t, pc'[t], goal[t], work'[t]) /\ WorkOK(pc'[t], work'[t])
<1> DEFINE todo == {u \in tasks : ~cancelled[u]}
           where == IF todo = {} THEN then ELSE "cancel"
           what == IF todo = {} THEN NoWork ELSE Todo(todo, then)
<1>1. pc' = [pc EXCEPT ![t] = where] /\ work' = [work EXCEPT ![t] = what]
  BY DEF CancelEach, Goto
<1>2. pc \in [Task -> PC] /\ work \in [Task -> Works]
  BY DEF ControlTyped
<1>3. where \in {"run", "try", "cancel"}
  OBVIOUS
<1>4. where \in PC
  BY <1>3 DEF PC, Moving, Cancelling
<1>5. what \in Works /\ what.todo = todo
  BY DEF Works, NoWork, Todo
<1>6. WaitOK(t, where, goal[t], what) /\ WorkOK(where, what)
  <2>1. CASE todo = {}
    BY <2>1 DEF WaitOK, WorkOK, NoWork, Todo
  <2>2. CASE todo # {}
    BY <2>2 DEF WaitOK, WorkOK, Todo, Cancelling
  <2>3. QED BY <2>1, <2>2
<1> HIDE DEF where, what, todo
<1>7. /\ pc' \in [Task -> PC] /\ work' \in [Task -> Works] /\ pc'[t] = where /\ work'[t] = what
      /\ \A u \in Task \ {t} : pc'[u] = pc[u] /\ work'[u] = work[u]
  BY <1>1, <1>2, <1>4, <1>5
<1>8. QED BY <1>3, <1>5, <1>6, <1>7 DEF todo

\* The steps by which a task changes nothing but where it is, its goal, its work, its
\* token and the marks of tasks and groups
Own(t) ==
  \/ Awaited(t) \/ Eof(t) \/ CancelAll(t) \/ CancelNext(t) \/ WakeTask(t) \/ RunHandler(t)
  \/ NapTest(t) \/ Nap(t) \/ Ring(t) \/ Escape(t)
  \/ \E cancel \in BOOLEAN : BodyEnds(t, cancel)
  \/ \E u \in Task : Await(t, u) \/ CancelTask(t, u)
  \/ \E k \in {"next", "wait-all"} : GroupWait(t, k)
  \/ OpenGroup(t) \/ CancelGroup(t) \/ SetHandler(t) \/ TaskSleep(t)

\* The steps that concern other tasks
Shared(t) ==
  \/ Try(t) \/ Again(t) \/ (\E failed \in BOOLEAN : Collect(t, failed))
  \/ Register(t) \/ FinishTask(t) \/ RemoveChild(t) \/ Hook(t) \/ WakeOne(t)
  \/ \E c \in Task : SpawnTask(t, c)
  \/ \E g, c \in Task : AddTask(t, g, c)

\* Every step is one of these.
LEMMA OwnOrShared ==
  ASSUME Next
  PROVE  \E t \in Task : Own(t) \/ Shared(t)
BY DEF Next, Work, Ends, Calls, Own, Shared

\* A task goes from one place to another with nothing left to cancel.
LEMMA MovesTo ==
  ASSUME ControlTyped, NEW t \in Task, NEW where \in Moving \ Cancelling,
         pc[t] \in Moving \ Cancelling, WorkOK(pc[t], work[t]),
         pc' = [pc EXCEPT ![t] = where], token' \subseteq Task, rung' \subseteq Task,
         token \ {t} \subseteq token',
         goal' \in [Task -> Goals], \A u \in Task \ {t} : goal'[u] = goal[u],
         WaitOK(t, where, goal'[t], NoWork),
         UNCHANGED <<state, parent, gmutex, adding, wake, work>>
  PROVE  Moves(t) /\ pc'[t] = where
<1>1. /\ pc \in [Task -> PC] /\ where \in PC
      /\ work \in [Task -> Works]
  BY DEF ControlTyped, PC
<1>2. /\ pc' \in [Task -> PC] /\ pc'[t] = where
      /\ \A u \in Task \ {t} : pc'[u] = pc[u]
  BY <1>1
<1>3. work'[t] = NoWork /\ WorkOK(pc'[t], work'[t])
  BY <1>2 DEF WorkOK, Moving, Cancelling
<1>4. QED BY <1>1, <1>2, <1>3 DEF Moves

\* What a step of a task's own comes to: the task does not fall asleep in a wait by it,
\* nor finish, and no scope is left by it but at the end of its children.
LEMMA OwnStep ==
  ASSUME RecordTyped, GroupTyped, ControlTyped, PlaceInv, WaitInv, WorkInv, NEW t \in Task, Own(t)
  PROVE  OwnEffect(t)
<1>c. WaitOK(t, pc[t], goal[t], work[t]) /\ WorkOK(pc[t], work[t])
  BY DEF WaitInv, WorkInv
<1>t. /\ pc \in [Task -> PC] /\ goal \in [Task -> Goals] /\ work \in [Task -> Works]
      /\ token \subseteq Task /\ rung \subseteq Task
  BY DEF ControlTyped
<1>w. /\ work[t].todo \in SUBSET Task /\ pending[t] \in SUBSET Task /\ work[t].then \in {"run", "try"}
      /\ work[t].then = "try" => goal[t].kind \notin {"none", "await"}
  BY <1>c, <1>t DEF Works, GroupTyped, WaitOK
<1>g. /\ NoGoal \in Goals
      /\ \A u \in Task : \A k \in {"await", "next", "wait-all", "wait-rest", "discard"} :
           [kind |-> k, of |-> u] \in Goals
  BY DEF NoGoal, Goals
<1>e. \A p \in {"run", "nap-test", "nap"} : WaitOK(t, p, NoGoal, NoWork)
  BY DEF WaitOK, NoGoal, NoWork, Todo
<1>1. ASSUME pc[t] \in {"try", "sleep", "nap-test"}, Return(t, "run"),
             UNCHANGED <<state, parent, gmutex, adding, wake, work, rung>>
      PROVE  Moves(t) /\ pc'[t] # "sleep"
  <2>1. /\ pc' = [pc EXCEPT ![t] = "run"] /\ token' = token \ {t}
        /\ goal' \in [Task -> Goals] /\ goal'[t] = NoGoal /\ \A u \in Task \ {t} : goal'[u] = goal[u]
    BY <1>1, <1>t, <1>g DEF Return, Goto
  <2>2. /\ WaitOK(t, "run", goal'[t], NoWork) /\ token' \subseteq Task /\ rung' \subseteq Task
        /\ token \ {t} \subseteq token'
        /\ pc[t] \in Moving \ Cancelling /\ "run" \in Moving \ Cancelling
    BY <1>1, <1>e, <1>t, <2>1 DEF Moving, Cancelling
  <2>3. QED BY <1>1, <1>c, <2>1, <2>2, MovesTo
<1>2. CASE Awaited(t)
  <2>1. pc[t] = "try" /\ Return(t, "run") /\ UNCHANGED <<record, group, adding, work, wake, rung>>
    BY <1>2 DEF Awaited
  <2>2. UNCHANGED <<state, parent, gmutex>>
    BY <2>1, MarksKept
  <2>3. QED BY <1>1, <2>1, <2>2, Quiet
<1>3. CASE Eof(t)
  <2>1. pc[t] = "try" /\ Return(t, "run")
    BY <1>3 DEF Eof
  <2>2. /\ UNCHANGED <<state, parent, gmutex, adding, wake, work, rung>>
        /\ UNCHANGED <<cancelled, handler, children, awaiters, pending, finished, gwaiters>>
    BY <1>3 DEF Eof, record
  <2>3. Moves(t) /\ pc'[t] # "sleep"
    BY <1>1, <2>1, <2>2
  <2>4. /\ scope' \in [Task -> Scopes] /\ gcancelled' \in [Task -> BOOLEAN]
        /\ \A u \in Task \ {t} : scope'[u] = scope[u]
    <3>1. scope \in [Task -> Scopes] /\ gcancelled \in [Task -> BOOLEAN] /\ "left" \in Scopes
      BY DEF GroupTyped, Scopes
    <3>2. CASE goal[t].kind = "discard"
      BY <1>3, <3>1, <3>2 DEF Eof, Left
    <3>3. CASE goal[t].kind # "discard"
      BY <1>3, <3>1, <3>3 DEF Eof
    <3>4. QED BY <3>2, <3>3
  <2>5. Marks(t)
    BY <1>3, <2>2, <2>4 DEF Marks, RecordTyped
  <2>6. QED BY <2>2, <2>3, <2>5 DEF OwnEffect
<1>4. ASSUME NEW tasks \in SUBSET Task, CancelEach(t, tasks, work[t].then), pc[t] \in Cancelling,
             token \subseteq token', token' \subseteq Task,
             UNCHANGED <<state, parent, gmutex, adding, wake, goal, rung>>
      PROVE  Moves(t) /\ pc'[t] # "sleep"
  <2>1. /\ pc' \in [Task -> PC] /\ work' \in [Task -> Works]
        /\ \A u \in Task \ {t} : pc'[u] = pc[u] /\ work'[u] = work[u]
        /\ pc'[t] \in {"run", "try", "cancel"}
        /\ WaitOK(t, pc'[t], goal[t], work'[t]) /\ WorkOK(pc'[t], work'[t])
    BY <1>4, <1>c, <1>w, CancelEachEffect, SMT
  <2>2. pc[t] \in Moving /\ pc'[t] \in Moving
    BY <1>4, <2>1 DEF Moving, Cancelling
  <2>3. QED BY <1>4, <1>t, <2>1, <2>2 DEF Moves
<1>5. CASE CancelAll(t)
  <2>1. /\ pc[t] \in Cancelling /\ CancelEach(t, pending[t], work[t].then)
        /\ UNCHANGED <<state, parent, gmutex, adding, wake, goal, rung, token>>
        /\ UNCHANGED <<cancelled, handler, scope, children, awaiters, pending, finished, gwaiters>>
    BY <1>5 DEF CancelAll, Cancelling, record
  <2>2. gcancelled' \in [Task -> BOOLEAN]
    BY <1>5 DEF CancelAll, GroupTyped
  <2>3. Moves(t) /\ pc'[t] # "sleep"
    BY <1>4, <1>t, <1>w, <2>1
  <2>4. Marks(t)
    BY <2>1, <2>2 DEF Marks, RecordTyped, GroupTyped
  <2>5. QED BY <2>1, <2>3, <2>4 DEF OwnEffect
<1>6. ASSUME NEW u \in Task, NEW others \in SUBSET Task, NEW then \in {"run", "try"},
             Cancel(t, u, others, then), pc[t] \in {"run", "cancel"}, then = "try" => work[t].then = "try",
             UNCHANGED <<state, parent, children, awaiters, group, goal, adding, wake, token, rung>>
      PROVE  OwnEffect(t)
  <2> DEFINE w == [todo |-> others \cup children[u], at |-> u, handler |-> u \in handler, then |-> then]
  <2>1. /\ pc' = [pc EXCEPT ![t] = "wake-task"] /\ work' = [work EXCEPT ![t] = w]
        /\ cancelled' = [cancelled EXCEPT ![u] = TRUE] /\ handler' = handler \ {u}
    BY <1>6 DEF Cancel, Goto
  <2>2. children[u] \in SUBSET Task
    BY DEF RecordTyped
  <2>3. w \in Works /\ w.then = then /\ w.at = u
    BY <2>2, TasksAssumption, SMT DEF Works
  <2>4. WaitOK(t, "wake-task", goal[t], w) /\ WorkOK("wake-task", w)
    BY <1>6, <1>w, <1>c, <2>3 DEF WaitOK, WorkOK, Cancelling
  <2> HIDE DEF w
  <2>5. /\ pc' \in [Task -> PC] /\ pc'[t] = "wake-task" /\ \A v \in Task \ {t} : pc'[v] = pc[v]
        /\ work' \in [Task -> Works] /\ work'[t] = w /\ \A v \in Task \ {t} : work'[v] = work[v]
    BY <1>t, <2>1, <2>3 DEF PC, Moving, Cancelling
  <2>6. Moves(t)
    <3>1. pc[t] \in Moving /\ pc'[t] \in Moving
      BY <1>6, <2>5 DEF Moving, Cancelling
    <3>2. UNCHANGED <<state, parent, gmutex, adding, wake, goal, token, rung>>
      BY <1>6 DEF group
    <3>3. QED BY <1>t, <2>4, <2>5, <3>1, <3>2 DEF Moves
  <2>7. Marks(t)
    BY <1>6, <2>1 DEF Marks, RecordTyped, GroupTyped, group
  <2>8. UNCHANGED <<children, awaiters, pending, finished, gwaiters>>
    BY <1>6 DEF group
  <2>9. QED BY <2>5, <2>6, <2>7, <2>8 DEF OwnEffect
<1>7. CASE CancelNext(t)
  <2>1. PICK u \in work[t].todo :
          IF cancelled[u]
          THEN CancelEach(t, work[t].todo, work[t].then) /\ UNCHANGED <<cancelled, handler>>
          ELSE Cancel(t, u, work[t].todo \ {u}, work[t].then)
    BY <1>7 DEF CancelNext
  <2>2. /\ pc[t] = "cancel" /\ u \in Task
        /\ UNCHANGED <<state, parent, children, awaiters, group, goal, adding, wake, token, rung>>
    BY <1>7, <1>w DEF CancelNext
  <2>3. CASE cancelled[u]
    <3>1. CancelEach(t, work[t].todo, work[t].then) /\ UNCHANGED <<record, group>>
      BY <2>1, <2>2, <2>3 DEF record
    <3>2. UNCHANGED gmutex /\ pc[t] \in Cancelling
      BY <2>2 DEF group, Cancelling
    <3>3. Moves(t) /\ pc'[t] # "sleep"
      BY <1>4, <1>t, <1>w, <2>2, <3>1, <3>2
    <3>4. QED BY <3>1, <3>3, Quiet
  <2>4. CASE ~cancelled[u]
    <3>1. Cancel(t, u, work[t].todo \ {u}, work[t].then) /\ work[t].todo \ {u} \in SUBSET Task
      BY <1>w, <2>1, <2>4
    <3>2. QED BY <1>6, <1>w, <2>2, <3>1
  <2>5. QED BY <2>3, <2>4
<1>8. CASE WakeTask(t)
  <2>1. pc[t] = "wake-task" /\ Signal(work[t].at) /\ UNCHANGED <<record, group, goal, adding, wake, rung>>
    BY <1>8 DEF WakeTask
  <2>2. /\ token \subseteq token' /\ token' \subseteq Task /\ pc[t] \in Cancelling
        /\ UNCHANGED <<state, parent, gmutex>>
    BY <1>c, <1>t, <2>1 DEF Signal, WorkOK, Cancelling, record, group
  <2>3. CASE work[t].handler
    <3> DEFINE w == Todo(work[t].todo, work[t].then)
    <3>1. pc' = [pc EXCEPT ![t] = "handler"] /\ work' = [work EXCEPT ![t] = w]
      BY <1>8, <2>3 DEF WakeTask, Goto
    <3>2. w \in Works /\ WaitOK(t, "handler", goal[t], w) /\ WorkOK("handler", w)
      BY <1>c, <1>w DEF Works, WaitOK, WorkOK, Todo, Cancelling
    <3> HIDE DEF w
    <3>3. /\ pc' \in [Task -> PC] /\ pc'[t] = "handler" /\ \A v \in Task \ {t} : pc'[v] = pc[v]
          /\ work' \in [Task -> Works] /\ work'[t] = w /\ \A v \in Task \ {t} : work'[v] = work[v]
      BY <1>t, <3>1, <3>2 DEF PC, Moving, Cancelling
    <3>4. Moves(t)
      BY <1>t, <2>1, <2>2, <3>2, <3>3 DEF Moves, Moving, Cancelling
    <3>5. QED BY <2>1, <3>3, <3>4, Quiet
  <2>4. CASE ~work[t].handler
    <3>1. Moves(t) /\ pc'[t] # "sleep"
      <4>1. CancelEach(t, work[t].todo, work[t].then)
        BY <1>8, <2>4 DEF WakeTask
      <4>2. QED BY <1>4, <1>w, <2>1, <2>2, <4>1
    <3>2. QED BY <2>1, <3>1, Quiet
  <2>5. QED BY <2>3, <2>4
<1>9. CASE RunHandler(t)
  <2>1. /\ pc[t] \in Cancelling /\ CancelEach(t, work[t].todo, work[t].then)
        /\ UNCHANGED <<record, group, goal, adding, wake, token, rung>>
    BY <1>9 DEF RunHandler, Cancelling
  <2>2. UNCHANGED <<state, parent, gmutex>>
    BY <2>1, MarksKept
  <2>3. Moves(t) /\ pc'[t] # "sleep"
    BY <1>4, <1>t, <1>w, <2>1, <2>2
  <2>4. QED BY <2>1, <2>3, Quiet
<1>10. ASSUME NEW where \in Moving \ (Cancelling \cup {"sleep"}), pc[t] \in Moving \ Cancelling,
              pc' = [pc EXCEPT ![t] = where], WaitOK(t, where, goal[t], NoWork),
              token \ {t} \subseteq token', token' \subseteq Task, rung' \subseteq Task,
              UNCHANGED <<record, group, goal, adding, work, wake>>
       PROVE  OwnEffect(t)
  <2>1. UNCHANGED <<state, parent, gmutex>>
    BY <1>10, MarksKept
  <2>2. goal' \in [Task -> Goals] /\ WaitOK(t, where, goal'[t], NoWork)
    BY <1>10, <1>t
  <2>3. Moves(t) /\ pc'[t] = where
    BY <1>10, <1>c, <2>1, <2>2, MovesTo
  <2>4. QED BY <1>10, <2>3, Quiet
<1>n. ASSUME pc[t] \in {"run", "nap-test", "nap"}
      PROVE  \A p \in {"run", "nap-test", "nap", pc[t]} : WaitOK(t, p, goal[t], NoWork)
  BY <1>n, <1>c DEF WaitOK, WorkOK, Cancelling
<1>11. CASE NapTest(t)
  <2>1. CASE t \in rung \/ cancelled[t]
    <3>1. /\ pc[t] = "nap-test" /\ Return(t, "run")
          /\ UNCHANGED <<record, group, adding, work, wake, rung>>
      BY <1>11, <2>1 DEF NapTest
    <3>2. UNCHANGED <<state, parent, gmutex>>
      BY <3>1, MarksKept
    <3>3. QED BY <1>1, <3>1, <3>2, Quiet
  <2>2. CASE ~(t \in rung \/ cancelled[t])
    <3>1. /\ pc[t] = "nap-test" /\ pc' = [pc EXCEPT ![t] = "nap"]
          /\ UNCHANGED <<record, group, goal, adding, work, wake, token, rung>>
      BY <1>11, <2>2 DEF NapTest, Goto
    <3>2. QED BY <1>10, <1>n, <1>t, <3>1 DEF Moving, Cancelling
  <2>3. QED BY <2>1, <2>2
<1>12. CASE Nap(t)
  <2>1. /\ pc[t] = "nap" /\ pc' = [pc EXCEPT ![t] = "nap-test"] /\ token' = token \ {t}
        /\ UNCHANGED <<record, group, goal, adding, work, wake, rung>>
    BY <1>12 DEF Nap, Goto
  <2>2. QED BY <1>10, <1>n, <1>t, <2>1 DEF Moving, Cancelling
<1>13. CASE Ring(t)
  <2>1. /\ pc[t] \in {"nap-test", "nap"} /\ token \subseteq token' /\ token' \subseteq Task
        /\ rung' = rung \cup {t}
        /\ UNCHANGED <<record, group, pc, goal, adding, work, wake>>
    BY <1>13, <1>t DEF Ring, Signal
  <2>2. pc' = [pc EXCEPT ![t] = pc[t]]
    BY <1>t, <2>1
  <2>3. QED BY <1>10, <1>n, <1>t, <2>1, <2>2 DEF Moving, Cancelling
<1>14. ASSUME NEW cut \in BOOLEAN, Close(t, cut), pc[t] \in {"run", "sleep"},
              token \ {t} \subseteq token', token' \subseteq Task,
              UNCHANGED <<record, gcancelled, pending, finished, gwaiters, gmutex, adding, wake, rung>>
       PROVE  OwnEffect(t)
  <2> DEFINE where == IF cut THEN "cancel-all" ELSE "try"
             w == IF cut THEN Todo({}, "try") ELSE NoWork
             g == [kind |-> "discard", of |-> t]
  <2>1. /\ pc' = [pc EXCEPT ![t] = where] /\ work' = [work EXCEPT ![t] = w]
        /\ goal' = [goal EXCEPT ![t] = g] /\ scope' = [scope EXCEPT ![t] = "closed"]
    BY <1>14 DEF Close, Goto
  <2>2. w \in Works /\ g \in Goals /\ where \in {"cancel-all", "try"}
    BY <1>g DEF Works, NoWork, Todo
  <2>3. WaitOK(t, where, g, w) /\ WorkOK(where, w)
    BY DEF WaitOK, WorkOK, NoWork, Todo, Cancelling
  <2> HIDE DEF where, w, g
  <2>4. /\ pc' \in [Task -> PC] /\ pc'[t] = where /\ \A v \in Task \ {t} : pc'[v] = pc[v]
        /\ work' \in [Task -> Works] /\ work'[t] = w /\ \A v \in Task \ {t} : work'[v] = work[v]
        /\ goal' \in [Task -> Goals] /\ goal'[t] = g /\ \A v \in Task \ {t} : goal'[v] = goal[v]
    BY <1>t, <2>1, <2>2 DEF PC, Moving, Cancelling
  <2>5. Moves(t)
    <3>1. pc[t] \in Moving /\ pc'[t] \in Moving
      BY <1>14, <2>2, <2>4 DEF Moving, Cancelling
    <3>2. UNCHANGED <<state, parent, gmutex, adding, wake, rung>>
      BY <1>14 DEF record
    <3>3. QED BY <1>14, <1>t, <2>3, <2>4, <3>1, <3>2 DEF Moves
  <2>6. Marks(t)
    BY <1>14, <2>1 DEF Marks, RecordTyped, GroupTyped, Scopes, record
  <2>7. UNCHANGED <<children, awaiters, pending, finished, gwaiters>>
    BY <1>14 DEF record
  <2>8. QED BY <2>2, <2>4, <2>5, <2>6, <2>7 DEF OwnEffect
<1>15. ASSUME NEW cancel \in BOOLEAN, BodyEnds(t, cancel)
       PROVE  OwnEffect(t)
  BY <1>14, <1>15, <1>t DEF BodyEnds
<1>16. CASE Escape(t)
  <2>1. CASE scope[t] = "open"
    BY <1>14, <1>16, <1>t, <2>1 DEF Escape
  <2>2. CASE scope[t] # "open"
    <3>1. /\ pc[t] = "sleep" /\ Return(t, "run") /\ UNCHANGED <<record, group, adding, work, wake, rung>>
      BY <1>16, <2>2 DEF Escape, group
    <3>2. UNCHANGED <<state, parent, gmutex>>
      BY <3>1, MarksKept
    <3>3. QED BY <1>1, <3>1, <3>2, Quiet
  <2>3. QED BY <2>1, <2>2
<1>17. ASSUME NEW u \in Task, NEW k \in {"await", "next", "wait-all"}, Wait(t, k, u), pc[t] = "run",
              k # "await" => u = t, UNCHANGED <<record, group, adding, work, wake, token, rung>>
       PROVE  OwnEffect(t)
  <2>1. /\ pc' = [pc EXCEPT ![t] = "try"] /\ goal' \in [Task -> Goals]
        /\ goal'[t] = [kind |-> k, of |-> u] /\ \A v \in Task \ {t} : goal'[v] = goal[v]
    BY <1>17, <1>t, <1>g DEF Wait, Goto
  <2>2. WaitOK(t, "try", goal'[t], NoWork)
    BY <1>17, <2>1, SMT DEF WaitOK, NoWork, Todo
  <2>3. UNCHANGED <<state, parent, gmutex>>
    BY <1>17, MarksKept
  <2>4. pc[t] \in Moving \ Cancelling /\ "try" \in Moving \ Cancelling
    BY <1>17 DEF Moving, Cancelling
  <2>5. Moves(t) /\ pc'[t] = "try"
    BY <1>17, <1>c, <1>t, <2>1, <2>2, <2>3, <2>4, MovesTo
  <2>6. QED BY <1>17, <2>5, Quiet
<1>18. ASSUME NEW u \in Task, Await(t, u)
       PROVE  OwnEffect(t)
  BY <1>17, <1>18 DEF Await, Program
<1>19. ASSUME NEW k \in {"next", "wait-all"}, GroupWait(t, k)
       PROVE  OwnEffect(t)
  BY <1>17, <1>19 DEF GroupWait, Program
<1>20. ASSUME NEW u \in Task, CancelTask(t, u)
       PROVE  OwnEffect(t)
  BY <1>6, <1>20 DEF CancelTask, Program
<1>21. CASE OpenGroup(t) \/ SetHandler(t)
  <2>1. /\ pc[t] = "run" /\ UNCHANGED <<pc, goal, adding, work, wake, token, rung>>
        /\ UNCHANGED <<state, cancelled, parent, children, awaiters, gcancelled, pending, finished,
                       gwaiters, gmutex>>
    BY <1>21 DEF OpenGroup, SetHandler, Program, record, group
  <2>2. pc' = [pc EXCEPT ![t] = "run"]
    BY <1>t, <2>1
  <2>3. WaitOK(t, "run", goal[t], NoWork)
    BY <1>n, <2>1
  <2>4. Moves(t) /\ pc'[t] = "run"
    BY <1>c, <1>t, <2>1, <2>2, <2>3, MovesTo DEF Moving, Cancelling
  <2>5. CASE OpenGroup(t)
    <3>1. scope' = [scope EXCEPT ![t] = "open"] /\ UNCHANGED handler
      BY <2>5 DEF OpenGroup, record
    <3>2. Marks(t)
      BY <2>1, <3>1 DEF Marks, RecordTyped, GroupTyped, Scopes
    <3>3. QED BY <2>1, <2>4, <3>2 DEF OwnEffect
  <2>6. CASE SetHandler(t)
    <3>1. /\ UNCHANGED scope
          /\ handler' = IF t \in handler THEN handler \ {t}
                        ELSE IF cancelled[t] THEN handler ELSE handler \cup {t}
      BY <2>6 DEF SetHandler, group
    <3>2. state[t] = "running"
      BY <2>1 DEF PlaceInv, RecordTyped, Over
    <3>3. Marks(t)
      BY <2>1, <3>1, <3>2 DEF Marks, RecordTyped, GroupTyped
    <3>4. QED BY <2>1, <2>4, <3>3 DEF OwnEffect
  <2>7. QED BY <1>21, <2>5, <2>6
<1>22. CASE CancelGroup(t)
  <2>1. /\ pc[t] = "run" /\ pc' = [pc EXCEPT ![t] = "cancel-all"]
        /\ UNCHANGED <<record, group, goal, adding, work, wake, token, rung>>
    BY <1>22 DEF CancelGroup, Program, Goto
  <2>2. work[t] = NoWork
    BY <1>c, <2>1 DEF WorkOK, Cancelling
  <2>3. WorkOK("cancel-all", work[t]) /\ WaitOK(t, "cancel-all", goal[t], work[t])
    BY <1>c, <2>2, SMT DEF WorkOK, WaitOK, NoWork, Todo, Cancelling
  <2>4. pc' \in [Task -> PC] /\ pc'[t] = "cancel-all" /\ \A v \in Task \ {t} : pc'[v] = pc[v]
    BY <1>t, <2>1 DEF PC, Moving, Cancelling
  <2>5. Moves(t)
    <3>1. UNCHANGED <<state, parent, gmutex>>
      BY <2>1, MarksKept
    <3>2. QED BY <1>t, <2>1, <2>3, <2>4, <3>1 DEF Moves, Moving, Cancelling
  <2>6. QED BY <2>1, <2>4, <2>5, Quiet
<1>23. CASE TaskSleep(t)
  <2>1. /\ pc[t] = "run" /\ pc' = [pc EXCEPT ![t] = "nap-test"] /\ rung' = rung \ {t}
        /\ UNCHANGED <<record, group, goal, adding, work, wake, token>>
    BY <1>23 DEF TaskSleep, Program, Goto
  <2>2. QED BY <1>10, <1>n, <1>t, <2>1 DEF Moving, Cancelling
<1>24. QED BY <1>2, <1>3, <1>5, <1>7, <1>8, <1>9, <1>11, <1>12, <1>13, <1>15, <1>16, <1>18, <1>19, <1>20,
              <1>21, <1>22, <1>23 DEF Own

\* Registering for a wait and taking the registration back concern the task itself
\* only.
LEMMA WaitersTyped ==
  ASSUME RecordTyped, GroupTyped, WaitInv, NEW t \in Task, Try(t) \/ Again(t)
  PROVE  /\ awaiters' \in [Task -> SUBSET Task] /\ gwaiters' \in [Task -> SUBSET Task]
         /\ \A u \in Task : \A x \in Task \ {t} : /\ x \in awaiters'[u] <=> x \in awaiters[u]
                                                  /\ x \in gwaiters'[u] <=> x \in gwaiters[u]
<1>1. /\ awaiters \in [Task -> SUBSET Task] /\ gwaiters \in [Task -> SUBSET Task]
      /\ goal[t].of \in Task
  BY DEF RecordTyped, GroupTyped, WaitInv, WaitOK, Try, Again
<1>2. CASE OnGroup(t)
  BY <1>1, <1>2, SMT DEF Try, Again, SetWaiter, Waiters
<1>3. CASE ~OnGroup(t)
  BY <1>1, <1>3, SMT DEF Try, Again, SetWaiter, Waiters
<1>4. QED BY <1>2, <1>3

\* The steps of a wait that concern other tasks are moves too.
LEMMA WaitStep ==
  ASSUME RecordTyped, GroupTyped, ControlTyped, WaitInv, WorkInv, NEW t \in Task,
         Try(t) \/ Again(t) \/ \E failed \in BOOLEAN : Collect(t, failed)
  PROVE  Moves(t) /\ RecordTyped' /\ GroupTyped' /\ pc[t] \in {"try", "sleep"}
<1>c. WaitOK(t, pc[t], goal[t], work[t]) /\ WorkOK(pc[t], work[t])
  BY DEF WaitInv, WorkInv
<1>t. /\ pc \in [Task -> PC] /\ goal \in [Task -> Goals] /\ work \in [Task -> Works]
      /\ token \subseteq Task /\ rung \subseteq Task
  BY DEF ControlTyped
<1>1. CASE Try(t) \/ Again(t)
  <2>1. /\ awaiters' \in [Task -> SUBSET Task] /\ gwaiters' \in [Task -> SUBSET Task]
        /\ UNCHANGED <<state, cancelled, parent, children, handler, scope, gcancelled, pending,
                       finished, gmutex, goal, adding, work, wake, rung>>
    BY <1>1, WaitersTyped DEF Try, Again
  <2>2. /\ pc[t] \in {"try", "sleep"} /\ token' \subseteq Task /\ token \ {t} \subseteq token'
        /\ \E where \in {"try", "sleep"} : pc' = [pc EXCEPT ![t] = where]
    BY <1>1, <1>t DEF Try, Again, LockUses, Goto
  <2>3. /\ \A where \in {"try", "sleep"} : WaitOK(t, where, goal'[t], NoWork) /\ where \in Moving \ Cancelling
        /\ pc[t] \in Moving \ Cancelling
    BY <1>c, <2>1, <2>2 DEF WaitOK, WorkOK, Moving, Cancelling
  <2>4. Moves(t)
    BY <1>c, <1>t, <2>1, <2>2, <2>3, MovesTo
  <2>5. RecordTyped' /\ GroupTyped'
    BY <2>1 DEF RecordTyped, GroupTyped
  <2>6. QED BY <2>2, <2>4, <2>5
<1>2. ASSUME NEW failed \in BOOLEAN, Collect(t, failed)
      PROVE  Moves(t) /\ RecordTyped' /\ GroupTyped' /\ pc[t] = "try"
  <2>1. /\ pc[t] = "try" /\ work[t] = NoWork /\ goal[t].kind \notin {"none", "await"} /\ goal[t].of = t
        /\ UNCHANGED <<state, parent, gmutex, adding, wake, rung>>
        /\ UNCHANGED <<cancelled, children, awaiters, handler, scope, gcancelled, pending, gwaiters>>
        /\ finished[t] # << >> /\ finished' = [finished EXCEPT ![t] = Tail(finished[t])]
    BY <1>2, <1>c DEF Collect, OnGroup, WaitOK, WorkOK, Cancelling, record
  <2>2. finished' \in [Task -> Seq(Task)]
    <3>1. finished \in [Task -> Seq(Task)] /\ finished[t] \in Seq(Task)
      BY DEF GroupTyped
    <3>2. Tail(finished[t]) \in Seq(Task)
      BY <2>1, <3>1, HeadTailProperties
    <3>3. QED BY <2>1, <3>1, <3>2
  <2>3. RecordTyped' /\ GroupTyped'
    BY <2>1, <2>2 DEF RecordTyped, GroupTyped
  <2>4. CASE Return(t, "run") /\ UNCHANGED work
    <3>1. /\ pc' = [pc EXCEPT ![t] = "run"] /\ token' = token \ {t} /\ goal' = [goal EXCEPT ![t] = NoGoal]
      BY <2>4 DEF Return, Goto
    <3>2. /\ goal' \in [Task -> Goals] /\ goal'[t] = NoGoal /\ \A u \in Task \ {t} : goal'[u] = goal[u]
      BY <1>t, <3>1 DEF Goals, NoGoal
    <3>3. /\ WaitOK(t, "run", goal'[t], NoWork) /\ "run" \in Moving \ Cancelling
          /\ pc[t] \in Moving \ Cancelling /\ token' \subseteq Task /\ token \ {t} \subseteq token'
      BY <1>t, <2>1, <3>1, <3>2 DEF WaitOK, NoGoal, NoWork, Todo, Moving, Cancelling
    <3>4. QED BY <1>c, <1>t, <2>1, <2>3, <2>4, <3>1, <3>2, <3>3, MovesTo
  <2>5. CASE /\ goal' = [goal EXCEPT ![t] = [kind |-> "wait-rest", of |-> t]]
             /\ token' = token \ {t}
             /\ work' = [work EXCEPT ![t] = Todo({}, "try")]
             /\ Goto(t, "cancel-all")
    <3> DEFINE g == [kind |-> "wait-rest", of |-> t]
               w == Todo({}, "try")
    <3>1. g \in Goals /\ w \in Works /\ WaitOK(t, "cancel-all", g, w) /\ WorkOK("cancel-all", w)
      BY DEF Goals, Works, Todo, WaitOK, WorkOK, Cancelling
    <3>2. pc' = [pc EXCEPT ![t] = "cancel-all"] /\ goal' = [goal EXCEPT ![t] = g]
          /\ work' = [work EXCEPT ![t] = w]
      BY <2>5 DEF Goto
    <3> HIDE DEF g, w
    <3>3. /\ pc' \in [Task -> PC] /\ pc'[t] = "cancel-all" /\ \A v \in Task \ {t} : pc'[v] = pc[v]
          /\ work' \in [Task -> Works] /\ work'[t] = w /\ \A v \in Task \ {t} : work'[v] = work[v]
          /\ goal' \in [Task -> Goals] /\ goal'[t] = g /\ \A v \in Task \ {t} : goal'[v] = goal[v]
      BY <1>t, <3>1, <3>2 DEF PC, Moving, Cancelling
    <3>4. pc[t] \in Moving /\ "cancel-all" \in Moving
      BY <2>1 DEF Moving, Cancelling
    <3>5. Moves(t)
      BY <1>t, <2>1, <2>5, <3>1, <3>3, <3>4 DEF Moves
    <3>6. QED BY <2>1, <2>3, <3>5
  <2>6. CASE LockUses(t) /\ UNCHANGED <<pc, goal, work>>
    <3>1. token' \subseteq Task /\ token \ {t} \subseteq token'
      BY <1>t, <2>6 DEF LockUses
    <3>2. pc[t] \in Moving
      BY <2>1 DEF Moving
    <3>3. Moves(t)
      BY <1>c, <1>t, <2>1, <2>6, <3>1, <3>2 DEF Moves
    <3>4. QED BY <2>1, <2>3, <3>3
  <2>7. QED BY <1>2, <2>4, <2>5, <2>6 DEF Collect
<1>3. QED BY <1>1, <1>2

\* Registering a child in its group keeps the basic invariant.
LEMMA BaseRegister ==
  ASSUME RecordTyped, GroupTyped, ControlTyped, PlaceInv, AddInv, WaitInv, WorkInv,
         NEW t \in Task, Register(t)
  PROVE  /\ BaseInv'
         /\ \A u \in Task \ {t} : pc'[u] = pc[u] /\ work'[u] = work[u]
         /\ pc'[t] \in {"run", "cancel"}
<1>c. WaitOK(t, pc[t], goal[t], work[t]) /\ WorkOK(pc[t], work[t])
  BY DEF WaitInv, WorkInv
<1>t. /\ pc \in [Task -> PC] /\ work \in [Task -> Works]
      /\ pending \in [Task -> SUBSET Task] /\ gmutex \in [Task -> Task \cup {NoTask}]
      /\ adding \in [Task -> [group : Task \cup {NoTask}, child : Task \cup {NoTask}]]
  BY DEF ControlTyped, GroupTyped
<1> DEFINE g == adding[t].group
           c == adding[t].child
<1>1. /\ g \in Task /\ c \in Task /\ pc[t] = "register" /\ gmutex[g] = t
      /\ pending' = [pending EXCEPT ![g] = @ \cup {c}]
      /\ gmutex' = [gmutex EXCEPT ![g] = NoTask]
      /\ adding' = [adding EXCEPT ![t] = NoAdding]
      /\ UNCHANGED <<record, scope, gcancelled, finished, gwaiters, goal, wake, token, rung>>
  BY DEF Register, AddInv
<1>2. IF gcancelled[g] THEN CancelEach(t, {c}, "run")
      ELSE pc' = [pc EXCEPT ![t] = "run"] /\ UNCHANGED work
  BY DEF Register, Goto
<1> HIDE DEF g, c
<1>3. work[t] = NoWork
  BY <1>c, <1>1 DEF WorkOK, Cancelling
<1>4. /\ pc' \in [Task -> PC] /\ work' \in [Task -> Works]
      /\ \A u \in Task \ {t} : pc'[u] = pc[u] /\ work'[u] = work[u]
      /\ pc'[t] \in {"run", "cancel"}
      /\ WaitOK(t, pc'[t], goal[t], work'[t]) /\ WorkOK(pc'[t], work'[t])
  <2>1. CASE gcancelled[g]
    <3>1. CancelEach(t, {c}, "run") /\ {c} \in SUBSET Task /\ "run" \in {"run", "try"}
      BY <1>1, <1>2, <2>1
    <3>2. /\ pc' \in [Task -> PC] /\ work' \in [Task -> Works]
          /\ \A u \in Task \ {t} : pc'[u] = pc[u] /\ work'[u] = work[u]
          /\ WaitOK(t, pc'[t], goal[t], work'[t]) /\ WorkOK(pc'[t], work'[t])
      BY <1>c, <3>1, CancelEachEffect
    <3>3. pc'[t] \in {"run", "cancel"}
      BY <1>t, <3>1 DEF CancelEach, Goto
    <3>4. QED BY <3>2, <3>3
  <2>2. CASE ~gcancelled[g]
    <3>1. pc' = [pc EXCEPT ![t] = "run"] /\ UNCHANGED work
      BY <1>2, <2>2
    <3>2. WaitOK(t, "run", goal[t], work[t]) /\ WorkOK("run", work[t])
      BY <1>c, <1>3 DEF WaitOK, WorkOK
    <3>3. QED BY <1>t, <3>1, <3>2 DEF PC, Moving
  <2>3. QED BY <2>1, <2>2
<1>5. /\ pending' \in [Task -> SUBSET Task] /\ gmutex' \in [Task -> Task \cup {NoTask}]
      /\ adding' \in [Task -> [group : Task \cup {NoTask}, child : Task \cup {NoTask}]]
      /\ adding'[t] = NoAdding /\ \A u \in Task \ {t} : adding'[u] = adding[u]
      /\ \A h \in Task \ {g} : gmutex'[h] = gmutex[h]
  BY <1>t, <1>1 DEF NoAdding
<1>6. RecordTyped' /\ GroupTyped' /\ ControlTyped'
  BY <1>1, <1>4, <1>5 DEF RecordTyped, GroupTyped, ControlTyped, record
<1>7. PlaceInv'
  <2>1. \A u \in Task : /\ (pc'[u] = "unborn" <=> pc[u] = "unborn") /\ (pc'[u] \in Over <=> pc[u] \in Over)
                        /\ (pc'[u] \in {"unparent", "hook"} <=> pc[u] \in {"unparent", "hook"})
                        /\ (pc'[u] \in {"unparent", "hook", "wake"} <=> pc[u] \in {"unparent", "hook", "wake"})
    BY <1>1, <1>4 DEF Over
  <2>2. UNCHANGED <<state, parent, wake>>
    BY <1>1 DEF record
  <2>3. QED BY <2>1, <2>2 DEF PlaceInv
<1>8. AddInv'
  <2>1. UNCHANGED parent
    BY <1>1 DEF record
  <2>2. ASSUME NEW u \in Task, pc'[u] = "register"
        PROVE  /\ adding'[u].group \in Task /\ adding'[u].child \in Task
               /\ gmutex'[adding'[u].group] = u
               /\ parent'[adding'[u].child] = adding'[u].group
               /\ pc'[adding'[u].child] \notin {"unborn", "wake", "dead"}
    <3>1. u # t /\ pc[u] = "register" /\ adding'[u] = adding[u]
      BY <1>4, <1>5, <2>2
    <3>2. /\ adding[u].group \in Task /\ adding[u].child \in Task /\ gmutex[adding[u].group] = u
          /\ parent[adding[u].child] = adding[u].group
          /\ pc[adding[u].child] \notin {"unborn", "wake", "dead"}
      BY <3>1 DEF AddInv
    <3>3. adding[u].group # g
      BY <1>1, <3>1, <3>2
    <3>4. QED BY <1>4, <1>5, <2>1, <3>1, <3>2, <3>3, SMT
  <2>3. ASSUME NEW u \in Task, pc'[u] # "register"
        PROVE  adding'[u] = NoAdding
    BY <1>4, <1>5, <2>3 DEF AddInv
  <2>4. QED BY <2>2, <2>3 DEF AddInv
<1>9. WaitInv' /\ WorkInv'
  BY <1>1, <1>4 DEF WaitInv, WorkInv
<1>10. QED BY <1>4, <1>6, <1>7, <1>8, <1>9 DEF BaseInv

\* So does creating a task, as a child of the owner of a group or of nobody.
LEMMA BaseSpawning ==
  ASSUME RecordTyped, GroupTyped, ControlTyped, PlaceInv, AddInv, WaitInv, WorkInv,
         NEW t \in Task, NEW g \in Task, NEW c \in Task, AddTask(t, g, c) \/ SpawnTask(t, c)
  PROVE  BaseInv'
<1>t. /\ pc \in [Task -> PC] /\ state \in [Task -> {"unborn", "running", "done"}]
      /\ parent \in [Task -> Task \cup {NoTask}] /\ gmutex \in [Task -> Task \cup {NoTask}]
      /\ adding \in [Task -> [group : Task \cup {NoTask}, child : Task \cup {NoTask}]]
      /\ children \in [Task -> SUBSET Task] /\ cancelled \in [Task -> BOOLEAN]
  BY DEF ControlTyped, GroupTyped, RecordTyped
<1>1. /\ pc[t] = "run" /\ pc[c] = "unborn" /\ state' = [state EXCEPT ![c] = "running"]
      /\ UNCHANGED <<awaiters, handler, scope, gcancelled, pending, finished, gwaiters, goal, work,
                     wake, token, rung>>
  BY DEF AddTask, SpawnTask, Program, NewTask, group
<1>2. t # c /\ state[c] = "unborn" /\ parent[c] = NoTask /\ wake[c] = {} /\ c \notin handler
      /\ adding[c] = NoAdding /\ adding[t] = NoAdding
  BY <1>1 DEF PlaceInv, RecordTyped, AddInv
<1>3. /\ \A u \in Task \ {c} : cancelled'[u] = cancelled[u]
      /\ cancelled' \in [Task -> BOOLEAN] /\ children' \in [Task -> SUBSET Task]
  <2>1. CASE AddTask(t, g, c)
    <3>1. IF cancelled[g]
          THEN cancelled' = [cancelled EXCEPT ![c] = TRUE] /\ UNCHANGED children
          ELSE children' = [children EXCEPT ![g] = @ \cup {c}] /\ UNCHANGED cancelled
      BY <2>1 DEF AddTask
    <3>2. CASE cancelled[g]
      BY <1>t, <3>1, <3>2
    <3>3. CASE ~cancelled[g]
      BY <1>t, <3>1, <3>3, SMT
    <3>4. QED BY <3>2, <3>3
  <2>2. CASE SpawnTask(t, c)
    BY <1>t, <2>2 DEF SpawnTask
  <2>3. QED BY <2>1, <2>2
<1>4. /\ state' \in [Task -> {"unborn", "running", "done"}] /\ state'[c] = "running"
      /\ \A u \in Task \ {c} : state'[u] = state[u]
  BY <1>t, <1>1
<1>5. RecordTyped' /\ GroupTyped' /\ ControlTyped' /\ PlaceInv' /\ AddInv' /\ pc'[c] = "run"
      /\ pc'[t] \in {"run", "register"} /\ \A u \in Task \ {t, c} : pc'[u] = pc[u]
  <2>1. CASE AddTask(t, g, c)
    <3>1. /\ gmutex[g] = NoTask /\ gmutex' = [gmutex EXCEPT ![g] = t]
          /\ adding' = [adding EXCEPT ![t] = [group |-> g, child |-> c]]
          /\ parent' = [parent EXCEPT ![c] = g]
          /\ pc' = [pc EXCEPT ![t] = "register", ![c] = "run"]
      BY <2>1 DEF AddTask, NewTask
    <3>2. /\ gmutex' \in [Task -> Task \cup {NoTask}] /\ gmutex'[g] = t
          /\ \A h \in Task \ {g} : gmutex'[h] = gmutex[h]
          /\ parent' \in [Task -> Task \cup {NoTask}] /\ parent'[c] = g
          /\ \A u \in Task \ {c} : parent'[u] = parent[u]
      BY <1>t, <3>1
    <3>3. /\ adding' \in [Task -> [group : Task \cup {NoTask}, child : Task \cup {NoTask}]]
          /\ adding'[t].group = g /\ adding'[t].child = c
          /\ \A u \in Task \ {t} : adding'[u] = adding[u]
      BY <1>t, <3>1
    <3>4. /\ pc' \in [Task -> PC] /\ pc'[t] = "register" /\ pc'[c] = "run"
          /\ \A u \in Task \ {t, c} : pc'[u] = pc[u]
      BY <1>t, <1>2, <3>1 DEF PC, Moving
    <3>5. RecordTyped' /\ GroupTyped'
      BY <1>1, <1>2, <1>3, <1>4, <3>2 DEF RecordTyped, GroupTyped
    <3>6. ControlTyped'
      BY <1>1, <3>3, <3>4 DEF ControlTyped
    <3>7. PlaceInv'
      BY <1>1, <1>2, <1>4, <3>2, <3>4, SMT DEF PlaceInv, Over
    <3>8. AddInv'
      <4>1. ASSUME NEW u \in Task \ {t}, pc'[u] = "register"
            PROVE  /\ adding'[u].group \in Task /\ adding'[u].child \in Task
                   /\ gmutex'[adding'[u].group] = u
                   /\ parent'[adding'[u].child] = adding'[u].group
                   /\ pc'[adding'[u].child] \notin {"unborn", "wake", "dead"}
        <5>1. u # c /\ pc[u] = "register" /\ adding'[u] = adding[u]
          BY <3>3, <3>4, <4>1
        <5>2. /\ adding[u].group \in Task /\ adding[u].child \in Task /\ gmutex[adding[u].group] = u
              /\ parent[adding[u].child] = adding[u].group
              /\ pc[adding[u].child] \notin {"unborn", "wake", "dead"}
          BY <5>1 DEF AddInv
        <5>3. adding[u].child # c /\ adding[u].group # g
          BY <1>1, <3>1, <5>2, TasksAssumption
        <5>4. QED BY <3>2, <3>4, <5>1, <5>2, <5>3, SMT
      <4>2. ASSUME NEW u \in Task, pc'[u] # "register"
            PROVE  adding'[u] = NoAdding
        BY <1>2, <3>3, <3>4, <4>2 DEF AddInv
      <4>3. QED BY <1>1, <3>2, <3>3, <3>4, <4>1, <4>2, SMT DEF AddInv
    <3>9. QED BY <3>4, <3>5, <3>6, <3>7, <3>8
  <2>2. CASE SpawnTask(t, c)
    <3>1. /\ UNCHANGED <<gmutex, adding>> /\ parent' = [parent EXCEPT ![c] = NoTask]
          /\ pc' = [pc EXCEPT ![c] = "run"]
      BY <2>2 DEF SpawnTask, NewTask, group
    <3>2. UNCHANGED parent /\ parent \in [Task -> Task \cup {NoTask}]
      BY <1>t, <1>2, <3>1
    <3>3. pc' \in [Task -> PC] /\ pc'[c] = "run" /\ \A u \in Task \ {c} : pc'[u] = pc[u]
      BY <1>t, <3>1 DEF PC, Moving
    <3>4. RecordTyped' /\ GroupTyped'
      BY <1>1, <1>2, <1>3, <1>4, <3>1, <3>2 DEF RecordTyped, GroupTyped
    <3>5. ControlTyped'
      BY <1>1, <3>1, <3>3 DEF ControlTyped
    <3>6. PlaceInv'
      BY <1>1, <1>2, <1>4, <3>2, <3>3, SMT DEF PlaceInv, Over
    <3>7. AddInv'
      <4>1. \A u \in Task : /\ pc'[u] = "register" <=> pc[u] = "register"
                            /\ pc'[u] \in {"unborn", "wake", "dead"} => pc[u] \in {"unborn", "wake", "dead"}
        BY <1>1, <3>3
      <4>2. QED BY <3>1, <3>2, <4>1, SMT DEF AddInv
    <3>8. QED BY <1>1, <1>2, <3>3, <3>4, <3>5, <3>6, <3>7
  <2>3. QED BY <2>1, <2>2
<1>6. WaitInv' /\ WorkInv'
  <2>1. \A u \in Task : /\ pc'[u] \in {"try", "sleep"} => pc[u] \in {"try", "sleep"}
                        /\ pc'[u] \in Cancelling <=> pc[u] \in Cancelling
                        /\ pc'[u] \in Cancelling => pc'[u] = pc[u]
    BY <1>1, <1>5 DEF Cancelling
  <2>2. QED BY <1>1, <2>1 DEF WaitInv, WorkInv, WaitOK, WorkOK, Cancelling
<1>7. QED BY <1>5, <1>6 DEF BaseInv

\* A step towards the end of a task keeps the basic invariant, unless the task is over
\* while it is being added.
LEMMA BaseOver ==
  ASSUME RecordTyped, GroupTyped, ControlTyped, PlaceInv, AddInv, WaitInv, WorkInv, NEW t \in Task,
         RecordTyped', GroupTyped', UNCHANGED <<parent, gmutex, adding, goal, work, rung>>,
         token' \subseteq Task, wake' \in [Task -> SUBSET Task],
         NEW where \in Over, pc' = [pc EXCEPT ![t] = where], pc[t] \in {"run"} \cup Over,
         \A u \in Task \ {t} : wake'[u] = wake[u] /\ state'[u] = state[u],
         state'[t] = "done", where \in {"unparent", "hook"} => parent[t] # NoTask,
         where = "dead" => wake'[t] = {},
         where \in {"wake", "dead"} => \A u \in Task : pc[u] = "register" => adding[u].child # t
  PROVE  BaseInv'
<1>1. /\ pc' \in [Task -> PC] /\ pc'[t] = where /\ \A u \in Task \ {t} : pc'[u] = pc[u]
      /\ goal \in [Task -> Goals] /\ work \in [Task -> Works]
  BY DEF ControlTyped, PC
<1>2. ControlTyped'
  BY <1>1 DEF ControlTyped
<1>3. PlaceInv'
  BY <1>1, SMT DEF PlaceInv, Over
<1>4. \A u \in Task : pc'[u] = "register" <=> pc[u] = "register"
  BY <1>1 DEF Over
<1>5. AddInv'
  <2>1. ASSUME NEW u \in Task, pc'[u] = "register"
        PROVE  /\ adding[u].group \in Task /\ adding[u].child \in Task
               /\ gmutex[adding[u].group] = u
               /\ parent[adding[u].child] = adding[u].group
               /\ pc'[adding[u].child] \notin {"unborn", "wake", "dead"}
    <3>1. /\ adding[u].group \in Task /\ adding[u].child \in Task /\ gmutex[adding[u].group] = u
          /\ parent[adding[u].child] = adding[u].group
          /\ pc[adding[u].child] \notin {"unborn", "wake", "dead"}
      BY <1>4, <2>1 DEF AddInv
    <3>2. CASE adding[u].child = t
      BY <1>1, <1>4, <2>1, <3>1, <3>2 DEF Over
    <3>3. CASE adding[u].child # t
      BY <1>1, <3>1, <3>3
    <3>4. QED BY <3>1, <3>2, <3>3
  <2>2. \A u \in Task : pc'[u] # "register" => adding[u] = NoAdding
    BY <1>4 DEF AddInv
  <2>3. QED BY <2>1, <2>2 DEF AddInv
<1>6. WaitInv' /\ WorkInv'
  <2>1. \A u \in Task : /\ pc'[u] \in {"try", "sleep"} => pc[u] \in {"try", "sleep"}
                        /\ pc'[u] \in Cancelling <=> pc[u] \in Cancelling
                        /\ pc'[u] \in Cancelling => pc'[u] = pc[u]
    BY <1>1 DEF Cancelling, Over
  <2>2. QED BY <2>1 DEF WaitInv, WorkInv, WaitOK, WorkOK, Cancelling
<1>7. QED BY <1>2, <1>3, <1>5, <1>6 DEF BaseInv

\* The steps of %finish-task! do so.
LEMMA BaseFinishing ==
  ASSUME RecordTyped, GroupTyped, ControlTyped, PlaceInv, AddInv, WaitInv, WorkInv,
         NEW t \in Task, FinishTask(t) \/ RemoveChild(t) \/ Hook(t) \/ WakeOne(t)
  PROVE  BaseInv'
<1>t. /\ wake \in [Task -> SUBSET Task] /\ token \subseteq Task
      /\ awaiters \in [Task -> SUBSET Task] /\ gwaiters \in [Task -> SUBSET Task]
      /\ state \in [Task -> {"unborn", "running", "done"}]
      /\ \A s \in SUBSET Task : Waking(s) \in {"wake", "dead"} /\ (Waking(s) = "dead" => s = {})
  BY DEF ControlTyped, RecordTyped, GroupTyped, Waking
<1>1. CASE FinishTask(t)
  <2> DEFINE where == IF parent[t] = NoTask THEN Waking(awaiters[t]) ELSE "unparent"
  <2>1. /\ pc[t] = "run" /\ state' = [state EXCEPT ![t] = "done"] /\ handler' = handler \ {t}
        /\ wake' = [wake EXCEPT ![t] = awaiters[t]] /\ awaiters' = [awaiters EXCEPT ![t] = {}]
        /\ pc' = [pc EXCEPT ![t] = where]
        /\ UNCHANGED <<cancelled, parent, children, group>>
        /\ UNCHANGED <<gmutex, goal, adding, work, token, rung>>
    BY <1>1 DEF FinishTask, Goto, group
  <2>2. /\ where \in Over
        /\ where \in {"unparent", "hook"} => parent[t] # NoTask
        /\ where = "dead" => awaiters[t] = {}
        /\ where \in {"wake", "dead"} => parent[t] = NoTask
    BY <1>t DEF Over
  <2> HIDE DEF where
  <2>3. /\ wake' \in [Task -> SUBSET Task] /\ wake'[t] = awaiters[t] /\ state'[t] = "done"
        /\ \A u \in Task \ {t} : wake'[u] = wake[u] /\ state'[u] = state[u]
    BY <1>t, <2>1
  <2>4. RecordTyped'
    BY <2>1 DEF RecordTyped
  <2>5. GroupTyped'
    BY <2>1 DEF GroupTyped, group
  <2>6. where \in {"wake", "dead"} => \A u \in Task : pc[u] = "register" => adding[u].child # t
    BY <2>2, TasksAssumption DEF AddInv
  <2>7. (where = "dead" => wake'[t] = {}) /\ pc[t] \in {"run"} \cup Over /\ token' \subseteq Task
    BY <1>t, <2>1, <2>2, <2>3
  <2>8. QED BY <2>1, <2>2, <2>3, <2>4, <2>5, <2>6, <2>7, BaseOver
<1>2. CASE RemoveChild(t)
  <2>1. /\ pc[t] = "unparent" /\ children' = [children EXCEPT ![parent[t]] = @ \ {t}]
        /\ pc' = [pc EXCEPT ![t] = "hook"]
        /\ UNCHANGED <<state, cancelled, parent, awaiters, handler, group>>
        /\ UNCHANGED <<gmutex, goal, adding, work, token, rung, wake>>
    BY <1>2 DEF RemoveChild, Goto, group
  <2>2. parent[t] # NoTask /\ state'[t] = "done" /\ pc[t] \in Over /\ "hook" \in Over
    BY <2>1 DEF PlaceInv, Over
  <2>3. RecordTyped'
    BY <2>1 DEF RecordTyped
  <2>4. GroupTyped'
    BY <2>1 DEF GroupTyped, group
  <2>5. QED BY <1>t, <2>1, <2>2, <2>3, <2>4, BaseOver
<1>3. CASE Hook(t)
  <2> DEFINE g == parent[t]
             s == wake[t] \cup gwaiters[g]
  <2>1. /\ pc[t] = "hook" /\ gmutex[g] = NoTask
        /\ pending' = [pending EXCEPT ![g] = @ \ {t}]
        /\ finished' = [finished EXCEPT ![g] = Append(@, t)]
        /\ wake' = [wake EXCEPT ![t] = s]
        /\ gwaiters' = [gwaiters EXCEPT ![g] = {}]
        /\ UNCHANGED <<record, scope, gcancelled>>
        /\ UNCHANGED <<state, parent, gmutex, goal, adding, work, token, rung>>
    BY <1>3 DEF Hook, record
  <2>2. g \in Task /\ s \in SUBSET Task /\ state[t] = "done" /\ pc[t] \in Over
    BY <1>t, <2>1, SMT DEF PlaceInv, RecordTyped, Over
  <2>3. wake' \in [Task -> SUBSET Task] /\ wake'[t] = s /\ \A u \in Task \ {t} : wake'[u] = wake[u]
    BY <1>t, <2>1, <2>2
  <2>4. pc' = [pc EXCEPT ![t] = Waking(s)] /\ Waking(s) \in {"wake", "dead"} /\ (Waking(s) = "dead" => s = {})
    BY <1>3, <1>t, <2>2, <2>3 DEF Hook, Goto
  <2>5. RecordTyped'
    BY <2>1 DEF RecordTyped, record
  <2>6. GroupTyped'
    BY <2>1, <2>2, SMT DEF GroupTyped
  <2>7. \A u \in Task : pc[u] = "register" => adding[u].child # t
    BY <2>1, <2>2, TasksAssumption DEF AddInv
  <2>8. Waking(s) \in Over /\ Waking(s) \notin {"unparent", "hook"}
    BY <2>4 DEF Over
  <2> HIDE DEF g, s
  <2>9. QED BY <1>t, <2>1, <2>2, <2>3, <2>4, <2>5, <2>6, <2>7, <2>8, BaseOver
<1>4. CASE WakeOne(t)
  <2>1. PICK u \in wake[t] : Signal(u) /\ wake' = [wake EXCEPT ![t] = @ \ {u}]
    BY <1>4 DEF WakeOne
  <2> DEFINE s == wake[t] \ {u}
  <2>2. /\ pc[t] = "wake" /\ UNCHANGED <<record, group>>
        /\ UNCHANGED <<state, parent, gmutex, goal, adding, work, rung>>
    BY <1>4 DEF WakeOne, record, group
  <2>3. u \in Task /\ s \in SUBSET Task /\ token' \subseteq Task /\ state[t] = "done" /\ pc[t] \in Over
    BY <1>t, <2>1, <2>2 DEF Signal, PlaceInv, Over
  <2>4. wake' \in [Task -> SUBSET Task] /\ wake'[t] = s /\ \A v \in Task \ {t} : wake'[v] = wake[v]
    BY <1>t, <2>1, <2>3
  <2>5. pc' = [pc EXCEPT ![t] = Waking(s)] /\ Waking(s) \in {"wake", "dead"} /\ (Waking(s) = "dead" => s = {})
    BY <1>4, <1>t, <2>3, <2>4 DEF WakeOne, Goto
  <2>6. RecordTyped' /\ GroupTyped'
    BY <2>2 DEF RecordTyped, GroupTyped, record, group
  <2>7. \A v \in Task : pc[v] = "register" => adding[v].child # t
    BY <2>2 DEF AddInv
  <2>8. Waking(s) \in Over /\ Waking(s) \notin {"unparent", "hook"}
    BY <2>5 DEF Over
  <2> HIDE DEF s
  <2>9. QED BY <2>2, <2>3, <2>4, <2>5, <2>6, <2>7, <2>8, BaseOver
<1>5. QED BY <1>1, <1>2, <1>3, <1>4

\* Every step of the system keeps the basic invariant.
LEMMA BaseStep ==
  ASSUME BaseInv, [Next]_vars
  PROVE  BaseInv'
<1>1. RecordTyped /\ GroupTyped /\ ControlTyped /\ PlaceInv /\ AddInv /\ WaitInv /\ WorkInv
  BY DEF BaseInv
<1>2. CASE UNCHANGED vars
  <2>1. RecordTyped' /\ GroupTyped'
    BY <1>1, <1>2 DEF RecordTyped, GroupTyped, vars, record, group
  <2>2. ControlTyped' /\ PlaceInv' /\ AddInv'
    BY <1>1, <1>2 DEF ControlTyped, PlaceInv, AddInv, vars, record, group
  <2>3. WaitInv' /\ WorkInv'
    BY <1>1, <1>2 DEF WaitInv, WorkInv, vars
  <2>4. QED BY <2>1, <2>2, <2>3 DEF BaseInv
<1>3. ASSUME NEW t \in Task, Own(t)
      PROVE  BaseInv'
  <2>1. OwnEffect(t)
    BY <1>1, <1>3, OwnStep
  <2>2. RecordTyped' /\ GroupTyped'
    BY <1>1, <2>1, MarksTyped DEF OwnEffect, Moves
  <2>3. QED BY <1>1, <2>1, <2>2, BaseMove DEF OwnEffect
<1>4. ASSUME NEW t \in Task, Shared(t)
      PROVE  BaseInv'
  <2>1. CASE Try(t) \/ Again(t) \/ \E failed \in BOOLEAN : Collect(t, failed)
    BY <1>1, <2>1, WaitStep, BaseMove
  <2>2. CASE Register(t)
    BY <1>1, <2>2, BaseRegister
  <2>3. CASE FinishTask(t) \/ RemoveChild(t) \/ Hook(t) \/ WakeOne(t)
    BY <1>1, <2>3, BaseFinishing
  <2>4. ASSUME NEW c \in Task, SpawnTask(t, c)
        PROVE  BaseInv'
    BY <1>1, <2>4, BaseSpawning
  <2>5. ASSUME NEW g \in Task, NEW c \in Task, AddTask(t, g, c)
        PROVE  BaseInv'
    BY <1>1, <2>5, BaseSpawning
  <2>6. QED BY <1>4, <2>1, <2>2, <2>3, <2>4, <2>5 DEF Shared
<1>5. QED BY <1>2, <1>3, <1>4, OwnOrShared

\* The basic invariant holds of the first state.
LEMMA BaseInit ==
  ASSUME Init
  PROVE  BaseInv
<1>1. RecordTyped
  BY DEF Init, RecordTyped
<1>2. GroupTyped
  BY SMT DEF Init, GroupTyped, Scopes
<1>3. ControlTyped
  BY DEF Init, ControlTyped, PC, Moving, Goals, Works, NoGoal, NoAdding, NoWork, Todo
<1>4. PlaceInv
  BY DEF Init, PlaceInv, Over
<1>5. AddInv
  BY DEF Init, AddInv
<1>6. WaitInv /\ WorkInv
  BY DEF Init, WaitInv, WorkInv, WaitOK, WorkOK, Cancelling, NoGoal, NoWork, Todo
<1>7. QED BY <1>1, <1>2, <1>3, <1>4, <1>5, <1>6 DEF BaseInv

\* What the steps of %finish-task! leave alone.
LEMMA OverStep ==
  ASSUME RecordTyped, ControlTyped, PlaceInv, NEW t \in Task,
         FinishTask(t) \/ RemoveChild(t) \/ Hook(t) \/ WakeOne(t)
  PROVE  /\ UNCHANGED <<cancelled, parent, scope, gcancelled, gmutex, goal, adding, work>>
         /\ pc[t] \in {"run"} \cup Over /\ pc'[t] \in Over
         /\ \A u \in Task \ {t} : pc'[u] = pc[u] /\ state'[u] = state[u]
         /\ state'[t] = "done"
<1>1. UNCHANGED <<cancelled, parent, scope, gcancelled, gmutex, goal, adding, work>>
  BY DEF FinishTask, RemoveChild, Hook, WakeOne, record, group
<1>2. \E where \in Over : pc' = [pc EXCEPT ![t] = where]
  BY DEF FinishTask, RemoveChild, Hook, WakeOne, Goto, Waking, Over
<1>3. pc \in [Task -> PC] /\ state \in [Task -> {"unborn", "running", "done"}]
  BY DEF ControlTyped, RecordTyped
<1>4. pc[t] \in {"run"} \cup Over
  BY DEF FinishTask, RemoveChild, Hook, WakeOne, Over
<1>5. state' = state \/ state' = [state EXCEPT ![t] = "done"]
  BY DEF FinishTask, RemoveChild, Hook, WakeOne, record
<1>6. state'[t] = "done" /\ \A u \in Task \ {t} : state'[u] = state[u]
  <2>1. CASE FinishTask(t)
    BY <1>3, <2>1 DEF FinishTask
  <2>2. CASE RemoveChild(t) \/ Hook(t) \/ WakeOne(t)
    BY <2>2 DEF RemoveChild, Hook, WakeOne, record, PlaceInv, Over
  <2>3. QED BY <2>1, <2>2
<1>7. QED BY <1>1, <1>2, <1>3, <1>4, <1>6

-----------------------------------------------------------------------------
\* The finished children after one is added to their queue
LEMMA RangeAppend ==
  ASSUME NEW s \in Seq(Task), NEW e \in Task
  PROVE  /\ Range(Append(s, e)) = Range(s) \cup {e}
         /\ IsInjective(s) /\ e \notin Range(s) => IsInjective(Append(s, e))
<1> DEFINE a == Append(s, e)
<1>1. /\ Len(s) \in Nat /\ DOMAIN s = 1..Len(s) /\ DOMAIN a = 1..(Len(s) + 1)
      /\ \A i \in 1..Len(s) : a[i] = s[i]
      /\ a[Len(s) + 1] = e
  BY AppendProperties, LenProperties, SMT
<1> HIDE DEF a
<1>2. Range(a) = Range(s) \cup {e}
  BY <1>1, SMT DEF Range
<1>3. IsInjective(s) /\ e \notin Range(s) => IsInjective(a)
  BY <1>1, SMT DEF Range, IsInjective
<1>4. QED BY <1>2, <1>3 DEF a

\* The finished children after one is collected
LEMMA RangeTail ==
  ASSUME NEW s \in Seq(Task), s # << >>
  PROVE  /\ Range(Tail(s)) \subseteq Range(s)
         /\ IsInjective(s) => IsInjective(Tail(s))
<1> DEFINE r == Tail(s)
<1>1. /\ Len(s) \in Nat \ {0} /\ DOMAIN s = 1..Len(s) /\ DOMAIN r = 1..(Len(s) - 1)
      /\ \A i \in 1..(Len(s) - 1) : r[i] = s[i + 1]
  BY HeadTailProperties, LenProperties, EmptySeq
<1> HIDE DEF r
<1>2. \A i \in DOMAIN r : i + 1 \in DOMAIN s /\ r[i] = s[i + 1]
  BY <1>1, SMT
<1>3. Range(r) \subseteq Range(s)
  BY <1>2 DEF Range
<1>4. ASSUME IsInjective(s), NEW i \in DOMAIN r, NEW j \in DOMAIN r, r[i] = r[j]
      PROVE  i = j
  <2>1. i + 1 = j + 1
    BY <1>2, <1>4 DEF IsInjective
  <2>2. QED BY <1>1, <2>1, SMT
<1>5. QED BY <1>3, <1>4 DEF IsInjective, r

\* The accounts of a group stay right while nothing they speak of changes.
LEMMA AccountsFrame ==
  ASSUME GroupAccounts, UNCHANGED <<parent, pending, finished, adding>>,
         \A u \in Task : parent[u] # NoTask =>
           (pc'[u] \in {"wake", "dead"} <=> pc[u] \in {"wake", "dead"})
  PROVE  GroupAccounts'
BY TasksAssumption, SMT DEF GroupAccounts

\* Every step keeps the accounts: a child is counted from Register on, and moves from
\* the pending ones to the finished ones in its hook.
LEMMA AccountsStep ==
  ASSUME RecordTyped, GroupTyped, ControlTyped, PlaceInv, AddInv, WaitInv, WorkInv, GroupAccounts,
         NEW t \in Task, Own(t) \/ Shared(t)
  PROVE  GroupAccounts'
<1>t. /\ pc \in [Task -> PC] /\ parent \in [Task -> Task \cup {NoTask}]
      /\ pending \in [Task -> SUBSET Task] /\ finished \in [Task -> Seq(Task)]
      /\ adding \in [Task -> [group : Task \cup {NoTask}, child : Task \cup {NoTask}]]
  BY DEF RecordTyped, GroupTyped, ControlTyped
<1>m. ASSUME Moves(t)
      PROVE  /\ \A u \in Task : pc'[u] \in {"wake", "dead"} <=> pc[u] \in {"wake", "dead"}
             /\ UNCHANGED <<parent, adding>>
  BY <1>m DEF Moves, Moving, Cancelling
<1>1. CASE Own(t)
  BY <1>1, <1>m, OwnStep, AccountsFrame DEF OwnEffect
<1>2. CASE Try(t) \/ Again(t)
  <2>1. Moves(t)
    BY <1>2, WaitStep
  <2>2. UNCHANGED <<pending, finished>>
    BY <1>2 DEF Try, Again
  <2>3. QED BY <1>m, <2>1, <2>2, AccountsFrame
<1>3. ASSUME NEW failed \in BOOLEAN, Collect(t, failed)
      PROVE  GroupAccounts'
  <2>1. Moves(t)
    BY <1>3, WaitStep
  <2>2. goal[t].of = t /\ finished[t] # << >> /\ UNCHANGED pending
        /\ finished' = [finished EXCEPT ![t] = Tail(finished[t])]
    BY <1>3 DEF Collect, OnGroup, WaitInv, WaitOK
  <2>3. \A g \in Task : /\ Range(finished'[g]) \subseteq Range(finished[g])
                        /\ IsInjective(finished[g]) => IsInjective(finished'[g])
    BY <1>t, <2>2, RangeTail
  <2>4. QED BY <1>m, <2>1, <2>2, <2>3, SMT DEF GroupAccounts
<1>4. CASE Register(t)
  <2> DEFINE g == adding[t].group
             c == adding[t].child
  <2>1. /\ g \in Task /\ c \in Task /\ parent[c] = g /\ pc[c] \notin {"wake", "dead"}
        /\ \A u \in Task \ {t} : adding[u].child # c
    BY <1>4, TasksAssumption, SMT DEF Register, AddInv, NoAdding
  <2>2. /\ pending' = [pending EXCEPT ![g] = @ \cup {c}]
        /\ adding' = [adding EXCEPT ![t] = NoAdding]
        /\ UNCHANGED <<parent, finished>> /\ pc[t] = "register"
    BY <1>4 DEF Register, record
  <2>3. \A u \in Task : pc'[u] \in {"wake", "dead"} <=> pc[u] \in {"wake", "dead"}
    <3>1. pc'[t] \in {"run", "cancel"} /\ \A u \in Task \ {t} : pc'[u] = pc[u]
      BY <1>4, BaseRegister
    <3>2. QED BY <2>2, <3>1
  <2>4. \A d \in Task : (\A u \in Task : adding'[u].child # d) <=>
                        d = c \/ \A u \in Task : adding[u].child # d
    BY <1>t, <2>1, <2>2, TasksAssumption DEF NoAdding
  <2> HIDE DEF g, c
  <2>5. \A h, d \in Task : d \in pending'[h] <=> d \in pending[h] \/ (h = g /\ d = c)
    BY <1>t, <2>1, <2>2
  <2>6. QED BY <2>1, <2>2, <2>3, <2>4, <2>5, SMT DEF GroupAccounts
<1>5. CASE Hook(t)
  <2> DEFINE g == parent[t]
  <2>1. g \in Task /\ pc[t] = "hook"
    BY <1>5, <1>t DEF Hook, PlaceInv
  <2>2. /\ pending' = [pending EXCEPT ![g] = @ \ {t}]
        /\ finished' = [finished EXCEPT ![g] = Append(@, t)]
        /\ UNCHANGED <<parent, adding>>
    BY <1>5 DEF Hook, record
  <2>3. pc'[t] \in {"wake", "dead"} /\ \A u \in Task \ {t} : pc'[u] = pc[u]
    BY <1>5, <1>t DEF Hook, Waking, Goto
  <2>4. t \notin Range(finished[g])
    BY <2>1 DEF GroupAccounts
  <2>5. \A h \in Task : /\ Range(finished'[h]) \subseteq Range(finished[h]) \cup (IF h = g THEN {t} ELSE {})
                        /\ IsInjective(finished[h]) => IsInjective(finished'[h])
    BY <1>t, <2>1, <2>2, <2>4, RangeAppend
  <2>6. \A h, d \in Task : d \in pending'[h] <=> d \in pending[h] /\ ~(h = g /\ d = t)
    BY <1>t, <2>1, <2>2
  <2>7. ASSUME NEW h \in Task, NEW d \in Task
        PROVE  /\ d \in pending'[h] <=> /\ parent[d] = h /\ pc'[d] \notin {"wake", "dead"}
                                        /\ \A u \in Task : adding[u].child # d
               /\ d \in Range(finished'[h]) => parent[d] = h /\ pc'[d] \in {"wake", "dead"}
               /\ IsInjective(finished'[h])
    <3>1. CASE d = t
      BY <2>1, <2>3, <2>5, <2>6, <3>1 DEF GroupAccounts
    <3>2. CASE d # t
      BY <2>3, <2>5, <2>6, <3>2 DEF GroupAccounts
    <3>3. QED BY <3>1, <3>2
  <2>8. QED BY <2>2, <2>7, SMT DEF GroupAccounts
<1>6. CASE FinishTask(t) \/ RemoveChild(t) \/ WakeOne(t)
  <2>1. UNCHANGED <<parent, adding>> /\ \A u \in Task \ {t} : pc'[u] = pc[u]
    BY <1>6, OverStep
  <2>2. UNCHANGED <<pending, finished>>
    BY <1>6 DEF FinishTask, RemoveChild, WakeOne, group
  <2>3. parent[t] # NoTask => (pc'[t] \in {"wake", "dead"} <=> pc[t] \in {"wake", "dead"})
    BY <1>6, <1>t DEF FinishTask, RemoveChild, WakeOne, Waking, Goto
  <2>4. QED BY <2>1, <2>2, <2>3, AccountsFrame
<1>7. ASSUME NEW c \in Task, SpawnTask(t, c)
      PROVE  GroupAccounts'
  <2>1. /\ parent[c] = NoTask /\ parent' = [parent EXCEPT ![c] = NoTask] /\ pc' = [pc EXCEPT ![c] = "run"]
        /\ UNCHANGED <<pending, finished, adding>>
    BY <1>7 DEF SpawnTask, NewTask, PlaceInv, group
  <2>2. UNCHANGED parent /\ \A u \in Task : parent[u] # NoTask => pc'[u] = pc[u]
    BY <1>t, <2>1
  <2>3. QED BY <2>1, <2>2, AccountsFrame
<1>8. ASSUME NEW g \in Task, NEW c \in Task, AddTask(t, g, c)
      PROVE  GroupAccounts'
  <2>1. /\ pc[t] = "run" /\ pc[c] = "unborn" /\ t # c /\ parent[c] = NoTask
        /\ adding[t] = NoAdding
    BY <1>8 DEF AddTask, Program, PlaceInv, AddInv
  <2>2. /\ adding' = [adding EXCEPT ![t] = [group |-> g, child |-> c]]
        /\ parent' = [parent EXCEPT ![c] = g]
        /\ pc' = [pc EXCEPT ![t] = "register", ![c] = "run"]
        /\ UNCHANGED <<pending, finished>>
    BY <1>8 DEF AddTask, NewTask
  <2>3. \A d \in Task : (\A u \in Task : adding'[u].child # d) <=>
                        d # c /\ \A u \in Task : adding[u].child # d
    BY <1>t, <2>1, <2>2, TasksAssumption, SMT DEF NoAdding
  <2>4. /\ \A d \in Task \ {c} : parent'[d] = parent[d]
        /\ \A d \in Task \ {c} : pc'[d] \in {"wake", "dead"} <=> pc[d] \in {"wake", "dead"}
    BY <1>t, <2>1, <2>2
  <2>5. \A h \in Task : c \notin pending[h] /\ c \notin Range(finished[h])
    BY <2>1, TasksAssumption, SMT DEF GroupAccounts
  <2>6. ASSUME NEW h \in Task, NEW d \in Task
        PROVE  /\ d \in pending[h] <=> /\ parent'[d] = h /\ pc'[d] \notin {"wake", "dead"}
                                       /\ \A u \in Task : adding'[u].child # d
               /\ d \in Range(finished[h]) => parent'[d] = h /\ pc'[d] \in {"wake", "dead"}
               /\ IsInjective(finished[h])
    <3>1. CASE d = c
      BY <2>3, <2>5, <3>1 DEF GroupAccounts
    <3>2. CASE d # c
      BY <2>3, <2>4, <3>2 DEF GroupAccounts
    <3>3. QED BY <3>1, <3>2
  <2>7. QED BY <2>2, <2>6 DEF GroupAccounts
<1>9. QED BY <1>1, <1>2, <1>3, <1>4, <1>5, <1>6, <1>7, <1>8 DEF Shared

\* Whoever sleeps stays informed when a task t that does not sleep changes neither
\* the waiters nor what they wait for.
LEMMA CompletionFrame ==
  ASSUME NoLostCompletion, NEW t \in Task, pc'[t] # "sleep",
         \A u \in Task \ {t} : /\ pc'[u] = "sleep" => pc[u] = "sleep" /\ goal'[u] = goal[u]
                               /\ u \in token => u \in token',
         \A u \in Task : wake[u] \subseteq wake'[u] /\ (state'[u] = "done" <=> state[u] = "done"),
         UNCHANGED <<awaiters, gwaiters, pending, finished>>,
         \A u \in Task : pc[u] = "sleep" => goal[u].of \in Task
  PROVE  NoLostCompletion'
<1> SUFFICES ASSUME NEW x \in Task, pc'[x] = "sleep", x \notin token',
                    \A u \in Task : x \notin wake'[u]
             PROVE  /\ ~Available(x)'
                    /\ x \in IF OnGroup(x)' THEN gwaiters'[goal'[x].of] ELSE awaiters'[goal'[x].of]
  BY DEF NoLostCompletion
<1>1. /\ x # t /\ pc[x] = "sleep" /\ goal'[x] = goal[x]
      /\ x \notin token /\ \A u \in Task : x \notin wake[u]
  OBVIOUS
<1>2. /\ ~Available(x)
      /\ x \in IF OnGroup(x) THEN gwaiters[goal[x].of] ELSE awaiters[goal[x].of]
  BY <1>1 DEF NoLostCompletion
<1>3. QED BY <1>1, <1>2, SMT DEF Available, OnGroup, Done

\* What a sleeping task x knows before a step of another task, if it is not woken by then
LEMMA StillAsleep ==
  ASSUME WaitInv, NoLostCompletion, NEW x \in Task, pc'[x] = pc[x], goal'[x] = goal[x],
         x \in token => x \in token', \A u \in Task : x \in wake[u] => x \in wake'[u] \/ x \in token',
         pc'[x] = "sleep", x \notin token', \A u \in Task : x \notin wake'[u]
  PROVE  /\ goal[x].of \in Task /\ (OnGroup(x) => goal[x].of = x)
         /\ ~Available(x) /\ (OnGroup(x)' <=> OnGroup(x))
         /\ x \in IF OnGroup(x) THEN gwaiters[goal[x].of] ELSE awaiters[goal[x].of]
<1>1. pc[x] = "sleep" /\ x \notin token /\ \A u \in Task : x \notin wake[u]
  OBVIOUS
<1>2. /\ ~Available(x)
      /\ x \in IF OnGroup(x) THEN gwaiters[goal[x].of] ELSE awaiters[goal[x].of]
  BY <1>1 DEF NoLostCompletion
<1>3. goal[x].of \in Task /\ (OnGroup(x) => goal[x].of = x)
  BY <1>1 DEF WaitInv, WaitOK, OnGroup
<1>4. OnGroup(x)' <=> OnGroup(x)
  BY DEF OnGroup
<1>5. QED BY <1>2, <1>3, <1>4

\* No completion is lost by a step: a task that finishes takes its awaiters along, and
\* its hook those of its group.
LEMMA CompletionStep ==
  ASSUME RecordTyped, GroupTyped, ControlTyped, PlaceInv, AddInv, WaitInv, WorkInv, NoLostCompletion,
         NEW t \in Task, Own(t) \/ Shared(t)
  PROVE  NoLostCompletion'
<1>w. \A u \in Task : pc[u] = "sleep" => goal[u].of \in Task
  BY DEF WaitInv, WaitOK
<1>t. /\ pc \in [Task -> PC] /\ state \in [Task -> {"unborn", "running", "done"}]
      /\ awaiters \in [Task -> SUBSET Task] /\ gwaiters \in [Task -> SUBSET Task]
      /\ pending \in [Task -> SUBSET Task] /\ finished \in [Task -> Seq(Task)]
      /\ wake \in [Task -> SUBSET Task]
  BY DEF RecordTyped, GroupTyped, ControlTyped
<1>1. CASE Own(t)
  <2>1. OwnEffect(t)
    BY <1>1, OwnStep
  <2>2. QED BY <1>w, <2>1, CompletionFrame DEF OwnEffect, Moves
<1>2. SUFFICES ASSUME NEW x \in Task, pc'[x] = "sleep", x \notin token', \A u \in Task : x \notin wake'[u],
                      Shared(t)
               PROVE  /\ ~Available(x)'
                      /\ x \in IF OnGroup(x)' THEN gwaiters'[goal'[x].of] ELSE awaiters'[goal'[x].of]
  BY <1>1 DEF NoLostCompletion
<1>3. CASE Try(t) \/ Again(t)
  <2>1. Moves(t) /\ UNCHANGED <<goal, state, finished, pending, wake>>
    BY <1>3, WaitStep DEF Try, Again
  <2>2. CASE x = t
    <3>1. Try(t) /\ goal[t].of \in Task /\ ~Available(t)
      BY <1>2, <1>3, <1>t, <2>2 DEF Try, Again, Goto, WaitInv, WaitOK
    <3>2. ~Available(t)' /\ (OnGroup(t)' <=> OnGroup(t))
      BY <2>1, <3>1 DEF Available, OnGroup, Done
    <3>3. t \in IF OnGroup(t) THEN gwaiters'[goal[t].of] ELSE awaiters'[goal[t].of]
      BY <1>t, <3>1, SMT DEF Try, SetWaiter, Waiters
    <3>4. QED BY <2>1, <2>2, <3>2, <3>3
  <2>3. CASE x # t
    <3>1. /\ goal[x].of \in Task /\ ~Available(x) /\ (OnGroup(x)' <=> OnGroup(x))
          /\ x \in IF OnGroup(x) THEN gwaiters[goal[x].of] ELSE awaiters[goal[x].of]
      BY <1>2, <2>1, <2>3, StillAsleep DEF Moves
    <3>2. \A u \in Task : /\ x \in awaiters'[u] <=> x \in awaiters[u]
                          /\ x \in gwaiters'[u] <=> x \in gwaiters[u]
      <4>1. \A u \in Task : \A y \in Task \ {t} : /\ y \in awaiters'[u] <=> y \in awaiters[u]
                                                  /\ y \in gwaiters'[u] <=> y \in gwaiters[u]
        BY <1>3, WaitersTyped
      <4>2. QED BY <2>3, <4>1
    <3>3. ~Available(x)'
      BY <2>1, <3>1 DEF Available, OnGroup, Done
    <3>4. QED BY <2>1, <3>1, <3>2, <3>3
  <2>4. QED BY <2>2, <2>3
<1>4. ASSUME NEW failed \in BOOLEAN, Collect(t, failed)
      PROVE  /\ ~Available(x)'
             /\ x \in IF OnGroup(x)' THEN gwaiters'[goal'[x].of] ELSE awaiters'[goal'[x].of]
  <2>1. Moves(t) /\ UNCHANGED <<state, pending, gwaiters, awaiters, wake>>
    <3>1. Moves(t)
      BY <1>4, WaitStep
    <3>2. UNCHANGED <<state, pending, gwaiters, awaiters, wake>>
      BY <1>4 DEF Collect, record
    <3>3. QED BY <3>1, <3>2
  <2>2. x # t
    BY <1>2, <1>4, <1>t DEF Collect, Return, Goto
  <2>3. /\ goal[x].of \in Task /\ ~Available(x) /\ (OnGroup(x)' <=> OnGroup(x)) /\ goal'[x] = goal[x]
        /\ x \in IF OnGroup(x) THEN gwaiters[goal[x].of] ELSE awaiters[goal[x].of]
        /\ OnGroup(x) => goal[x].of = x
    BY <1>2, <2>1, <2>2, StillAsleep DEF Moves
  <2>4. finished'[x] = finished[x]
    <3>1. finished' = [finished EXCEPT ![goal[t].of] = Tail(@)]
      BY <1>4 DEF Collect
    <3>2. goal[t].of = t
      BY <1>4 DEF Collect, OnGroup, WaitInv, WaitOK
    <3>3. QED BY <1>t, <2>2, <3>1, <3>2
  <2>5. ~Available(x)'
    BY <2>1, <2>3, <2>4 DEF Available, OnGroup, Done
  <2>6. QED BY <2>1, <2>3, <2>5
<1>5. CASE Register(t)
  <2>1. /\ UNCHANGED <<state, finished, gwaiters, awaiters, wake, goal, token>>
        /\ pending' = [pending EXCEPT ![adding[t].group] = @ \cup {adding[t].child}]
        /\ adding[t].group \in Task
    BY <1>5 DEF Register, record, AddInv
  <2>2. x # t /\ pc'[x] = pc[x]
    <3>1. pc'[t] \in {"run", "cancel"} /\ \A u \in Task \ {t} : pc'[u] = pc[u]
      BY <1>5, BaseRegister
    <3>2. QED BY <1>2, <3>1
  <2>3. /\ goal[x].of \in Task /\ ~Available(x) /\ (OnGroup(x)' <=> OnGroup(x))
        /\ x \in IF OnGroup(x) THEN gwaiters[goal[x].of] ELSE awaiters[goal[x].of]
    BY <1>2, <2>1, <2>2, StillAsleep
  <2>4. \A g \in Task : pending'[g] = {} => pending[g] = {}
    BY <1>t, <2>1
  <2>5. ~Available(x)'
    BY <2>1, <2>3, <2>4 DEF Available, OnGroup, Done
  <2>6. QED BY <2>1, <2>3, <2>5
<1>6. CASE FinishTask(t) \/ RemoveChild(t) \/ Hook(t) \/ WakeOne(t)
  <2>1. /\ UNCHANGED goal /\ pc[t] # "sleep" /\ pc'[t] # "sleep"
        /\ \A u \in Task \ {t} : pc'[u] = pc[u] /\ state'[u] = state[u]
    BY <1>6, OverStep DEF Over
  <2>2. x # t /\ pc'[x] = pc[x]
    BY <1>2, <2>1
  <2>3. /\ x \in token => x \in token'
        /\ \A u \in Task : x \in wake[u] => x \in wake'[u] \/ x \in token'
    <3>1. CASE FinishTask(t)
      <4>1. wake[t] = {} /\ UNCHANGED token /\ wake' = [wake EXCEPT ![t] = awaiters[t]]
        BY <3>1 DEF FinishTask, PlaceInv
      <4>2. QED BY <1>t, <4>1
    <3>2. CASE RemoveChild(t)
      BY <3>2 DEF RemoveChild
    <3>3. CASE Hook(t)
      BY <1>t, <3>3 DEF Hook
    <3>4. CASE WakeOne(t)
      <4>1. KeepsToken(x)
        BY <1>2, <2>2 DEF KeepsToken
      <4>2. QED BY <1>t, <3>4, <4>1 DEF WakeOne, Signal
    <3>5. QED BY <1>6, <3>1, <3>2, <3>3, <3>4
  <2>4. /\ goal[x].of \in Task /\ ~Available(x) /\ (OnGroup(x)' <=> OnGroup(x))
        /\ x \in IF OnGroup(x) THEN gwaiters[goal[x].of] ELSE awaiters[goal[x].of]
    BY <1>2, <2>1, <2>2, <2>3, StillAsleep
  <2>5. CASE FinishTask(t)
    <3>1. /\ UNCHANGED <<pending, finished, gwaiters>> /\ awaiters' = [awaiters EXCEPT ![t] = {}]
          /\ wake' = [wake EXCEPT ![t] = awaiters[t]]
      BY <2>5 DEF FinishTask, group
    <3>2. x \notin awaiters[t] /\ \A u \in Task \ {t} : awaiters'[u] = awaiters[u]
      BY <1>2, <1>t, <3>1
    <3>3. OnGroup(x) \/ goal[x].of # t
      BY <2>4, <3>2
    <3>4. ~Available(x)'
      BY <2>1, <2>4, <3>1, <3>3 DEF Available, OnGroup, Done
    <3>5. QED BY <2>1, <2>4, <3>1, <3>2, <3>3, <3>4
  <2>6. CASE RemoveChild(t) \/ WakeOne(t)
    <3>1. UNCHANGED <<state, pending, finished, gwaiters, awaiters>>
      BY <2>6 DEF RemoveChild, WakeOne, record, group
    <3>2. ~Available(x)'
      BY <2>1, <2>4, <3>1 DEF Available, OnGroup, Done
    <3>3. QED BY <2>1, <2>4, <3>1, <3>2
  <2>7. CASE Hook(t)
    <3> DEFINE g == parent[t]
    <3>1. /\ UNCHANGED <<state, awaiters>> /\ g \in Task
          /\ pending' = [pending EXCEPT ![g] = @ \ {t}]
          /\ finished' = [finished EXCEPT ![g] = Append(@, t)]
          /\ wake' = [wake EXCEPT ![t] = @ \cup gwaiters[g]]
          /\ gwaiters' = [gwaiters EXCEPT ![g] = {}]
      BY <2>7, SMT DEF Hook, record, PlaceInv, RecordTyped
    <3> HIDE DEF g
    <3>2. /\ x \notin gwaiters[g]
          /\ \A h \in Task \ {g} : gwaiters'[h] = gwaiters[h] /\ pending'[h] = pending[h]
                                   /\ finished'[h] = finished[h]
      BY <1>2, <1>t, <3>1
    <3>3. ~OnGroup(x) \/ goal[x].of # g
      BY <2>4, <3>2
    <3>4. ~Available(x)'
      BY <2>1, <2>4, <3>1, <3>2, <3>3, SMT DEF Available, OnGroup, Done
    <3>5. QED BY <2>1, <2>4, <3>1, <3>2, <3>3, <3>4, SMT
  <2>8. QED BY <1>6, <2>5, <2>6, <2>7
<1>7. ASSUME NEW c \in Task, SpawnTask(t, c) \/ \E g \in Task : AddTask(t, g, c)
      PROVE  NoLostCompletion'
  <2>1. pc[t] = "run" /\ pc[c] = "unborn" /\ state[c] = "unborn"
    BY <1>7 DEF SpawnTask, AddTask, Program, PlaceInv
  <2>2. UNCHANGED <<awaiters, gwaiters, pending, finished, goal, token, wake>>
    BY <1>7 DEF SpawnTask, AddTask, group
  <2>3. \A u \in Task : state'[u] = "done" <=> state[u] = "done"
    BY <1>7, <1>t, <2>1, SMT DEF SpawnTask, AddTask, NewTask
  <2>4. pc'[t] # "sleep" /\ \A u \in Task : pc'[u] = "sleep" => pc[u] = "sleep"
    <3>1. \E where \in {"run", "register"} : pc' = [pc EXCEPT ![t] = where, ![c] = "run"]
                                             \/ pc' = [pc EXCEPT ![c] = "run"]
      BY <1>7 DEF SpawnTask, AddTask
    <3>2. QED BY <1>t, <2>1, <3>1
  <2>5. QED BY <1>w, <2>2, <2>3, <2>4, CompletionFrame
<1>8. ASSUME NoLostCompletion'
      PROVE  /\ ~Available(x)'
             /\ x \in IF OnGroup(x)' THEN gwaiters'[goal'[x].of] ELSE awaiters'[goal'[x].of]
  BY <1>2, <1>8 DEF NoLostCompletion
<1>9. QED BY <1>2, <1>3, <1>4, <1>5, <1>6, <1>7, <1>8 DEF Shared

\* No cancellation is lost when a running task t that is not about to wake another one
\* marks nobody, and does not lie down to sleep when it is marked.
LEMMA CancellationFrame ==
  ASSUME NoLostCancellation, NEW t \in Task, Moves(t), UNCHANGED cancelled,
         pc[t] # "wake-task", pc'[t] # "nap" \/ ~cancelled[t]
  PROVE  NoLostCancellation'
<1>1. \A u \in Task \ {t} : pc'[u] = pc[u] /\ work'[u] = work[u] /\ (u \in token => u \in token')
  BY DEF Moves
<1>2. QED BY <1>1, SMT DEF NoLostCancellation

\* The same of cancel-task! itself: the task u that it marks is the one it wakes next.
LEMMA CancelKeeps ==
  ASSUME ControlTyped, RecordTyped, NoLostCancellation, NEW t \in Task, NEW u \in Task,
         NEW others, NEW then, Cancel(t, u, others, then), pc[t] \in {"run", "cancel"},
         UNCHANGED token
  PROVE  NoLostCancellation'
<1>t. pc \in [Task -> PC] /\ work \in [Task -> Works] /\ cancelled \in [Task -> BOOLEAN]
  BY DEF ControlTyped, RecordTyped
<1> DEFINE w == [todo |-> others \cup children[u], at |-> u, handler |-> u \in handler, then |-> then]
<1>1. /\ pc' = [pc EXCEPT ![t] = "wake-task"] /\ work' = [work EXCEPT ![t] = w] /\ w.at = u
      /\ cancelled' = [cancelled EXCEPT ![u] = TRUE]
  BY DEF Cancel, Goto
<1> HIDE DEF w
<1>2. /\ pc'[t] = "wake-task" /\ work'[t].at = u
      /\ \A v \in Task \ {t} : pc'[v] = pc[v] /\ work'[v] = work[v]
      /\ \A v \in Task \ {u} : cancelled'[v] = cancelled[v]
  BY <1>1, <1>t
<1>3. QED BY <1>2, SMT DEF NoLostCancellation

\* No cancellation is lost by a step: cancel-task! goes on to wake the task it has
\* marked, and task-sleep looks at the mark with its events blocked.
LEMMA CancellationStep ==
  ASSUME RecordTyped, GroupTyped, ControlTyped, PlaceInv, AddInv, WaitInv, WorkInv,
         NoLostCancellation, NEW t \in Task, Own(t) \/ Shared(t)
  PROVE  NoLostCancellation'
<1>t. pc \in [Task -> PC] /\ work \in [Task -> Works] /\ cancelled \in [Task -> BOOLEAN]
  BY DEF ControlTyped, RecordTyped
<1>m. Own(t) => Moves(t)
  BY OwnStep DEF OwnEffect
<1>1. CASE CancelNext(t)
  <2>0. pc[t] = "cancel" /\ UNCHANGED token /\ Moves(t)
    BY <1>1, <1>m DEF CancelNext, Own
  <2>1. PICK u \in work[t].todo :
          IF cancelled[u]
          THEN CancelEach(t, work[t].todo, work[t].then) /\ UNCHANGED <<cancelled, handler>>
          ELSE Cancel(t, u, work[t].todo \ {u}, work[t].then)
    BY <1>1 DEF CancelNext
  <2>2. u \in Task /\ work[t].then \in {"run", "try"}
    BY <1>t DEF Works
  <2>3. CASE cancelled[u]
    <3>1. UNCHANGED cancelled /\ CancelEach(t, work[t].todo, work[t].then)
      BY <2>1, <2>3
    <3>2. pc'[t] # "nap"
      BY <1>t, <2>2, <3>1 DEF CancelEach, Goto
    <3>3. QED BY <2>0, <3>1, <3>2, CancellationFrame
  <2>4. CASE ~cancelled[u]
    BY <2>0, <2>1, <2>2, <2>4, CancelKeeps
  <2>5. QED BY <2>3, <2>4
<1>2. ASSUME NEW u \in Task, CancelTask(t, u)
      PROVE  NoLostCancellation'
  <2>1. pc[t] = "run" /\ UNCHANGED token /\ Cancel(t, u, {}, "run")
    BY <1>2 DEF CancelTask, Program
  <2>2. QED BY <2>1, CancelKeeps
<1>3. CASE WakeTask(t)
  <2>1. /\ pc[t] = "wake-task" /\ UNCHANGED cancelled /\ token \subseteq token'
        /\ KeepsToken(work[t].at) => work[t].at \in token'
    BY <1>3 DEF WakeTask, Signal, record
  <2>2. \A u \in Task \ {t} : pc'[u] = pc[u] /\ work'[u] = work[u]
    BY <1>3, <1>m DEF Own, Moves
  <2>3. pc'[t] # "nap"
    <3>1. work[t].then # "nap"
      BY <1>t DEF Works
    <3>2. \E where : where # "nap" /\ pc' = [pc EXCEPT ![t] = where]
      BY <1>3, <3>1 DEF WakeTask, CancelEach, Goto
    <3>3. QED BY <1>t, <3>2
  <2>4. QED BY <2>1, <2>2, <2>3, SMT DEF NoLostCancellation, KeepsToken
<1>4. CASE NapTest(t) \/ Nap(t)
  <2>1. Moves(t) /\ UNCHANGED cancelled /\ pc[t] # "wake-task"
    BY <1>4, <1>m DEF Own, NapTest, Nap, record
  <2>2. pc'[t] # "nap" \/ ~cancelled[t]
    BY <1>4, <1>t DEF NapTest, Nap, Return, Goto
  <2>3. QED BY <2>1, <2>2, CancellationFrame
<1>5. CASE Ring(t)
  <2>1. /\ UNCHANGED <<cancelled, pc, work>> /\ token \subseteq token'
    BY <1>5 DEF Ring, Signal, record
  <2>2. QED BY <2>1 DEF NoLostCancellation
<1>6. CASE RunHandler(t) \/ CancelAll(t)
  <2>1. Moves(t) /\ UNCHANGED cancelled /\ pc[t] # "wake-task"
    BY <1>6, <1>m DEF Own, RunHandler, CancelAll, record
  <2>2. pc'[t] # "nap"
    <3>1. work[t].then # "nap"
      BY <1>t DEF Works
    <3>2. \E where : where # "nap" /\ pc' = [pc EXCEPT ![t] = where]
      BY <1>6, <3>1 DEF RunHandler, CancelAll, CancelEach, Goto
    <3>3. QED BY <1>t, <3>2
  <2>3. QED BY <2>1, <2>2, CancellationFrame
<1>7. CASE Awaited(t) \/ Eof(t) \/ Escape(t) \/ \E cancel \in BOOLEAN : BodyEnds(t, cancel)
  <2>1. Moves(t) /\ UNCHANGED cancelled
    <3>1. Moves(t)
      BY <1>7, <1>m DEF Own
    <3>2. UNCHANGED cancelled
      BY <1>7 DEF Awaited, Eof, Escape, BodyEnds, record
    <3>3. QED BY <3>1, <3>2
  <2>2. /\ pc[t] # "wake-task"
        /\ \E where \in {"run", "cancel-all", "try"} : pc' = [pc EXCEPT ![t] = where]
    BY <1>7 DEF Awaited, Eof, Escape, BodyEnds, Close, Return, Goto
  <2>3. pc'[t] # "nap"
    BY <1>t, <2>2
  <2>4. QED BY <2>1, <2>2, <2>3, CancellationFrame
<1>8. CASE \/ OpenGroup(t) \/ CancelGroup(t) \/ SetHandler(t) \/ TaskSleep(t)
           \/ (\E u \in Task : Await(t, u)) \/ \E k \in {"next", "wait-all"} : GroupWait(t, k)
  <2>1. Moves(t) /\ UNCHANGED cancelled
    <3>1. Moves(t)
      BY <1>8, <1>m DEF Own
    <3>2. UNCHANGED cancelled
      BY <1>8 DEF OpenGroup, CancelGroup, SetHandler, TaskSleep, Await, GroupWait, record
    <3>3. QED BY <3>1, <3>2
  <2>2. pc[t] = "run" /\ pc'[t] # "nap"
    BY <1>8, <1>t
       DEF OpenGroup, CancelGroup, SetHandler, TaskSleep, Await, GroupWait, Wait, Program, Goto
  <2>3. QED BY <2>1, <2>2, CancellationFrame
<1>9. CASE Try(t) \/ Again(t)
  <2>1. Moves(t) /\ UNCHANGED cancelled
    BY <1>9, WaitStep DEF Try, Again
  <2>2. pc[t] # "wake-task" /\ pc'[t] # "nap"
    BY <1>9, <1>t DEF Try, Again, Goto
  <2>3. QED BY <2>1, <2>2, CancellationFrame
<1>10. ASSUME NEW failed \in BOOLEAN, Collect(t, failed)
       PROVE  NoLostCancellation'
  <2>1. Moves(t)
    BY <1>10, WaitStep
  <2>2. UNCHANGED cancelled /\ pc[t] = "try" /\ pc'[t] # "nap"
    BY <1>10, <1>t DEF Collect, Return, Goto, record
  <2>3. QED BY <2>1, <2>2, CancellationFrame
<1>11. CASE Register(t)
  <2>1. UNCHANGED <<cancelled, token>> /\ pc[t] = "register"
    BY <1>11 DEF Register, record
  <2>2. /\ \A u \in Task \ {t} : pc'[u] = pc[u] /\ work'[u] = work[u]
        /\ pc'[t] \in {"run", "cancel"}
    BY <1>11, BaseRegister
  <2>3. QED BY <2>1, <2>2, SMT DEF NoLostCancellation
<1>12. CASE FinishTask(t) \/ RemoveChild(t) \/ Hook(t) \/ WakeOne(t)
  <2>1. UNCHANGED <<cancelled, work>> /\ pc[t] # "wake-task" /\ pc'[t] # "nap"
        /\ \A u \in Task \ {t} : pc'[u] = pc[u]
    BY <1>12, OverStep DEF Over
  <2>2. token \subseteq token'
    BY <1>12 DEF FinishTask, RemoveChild, Hook, WakeOne, Signal
  <2>3. QED BY <2>1, <2>2, SMT DEF NoLostCancellation
<1>13. ASSUME NEW c \in Task, SpawnTask(t, c) \/ \E g \in Task : AddTask(t, g, c)
       PROVE  NoLostCancellation'
  <2>1. pc[t] = "run" /\ pc[c] = "unborn" /\ UNCHANGED <<token, work>>
    BY <1>13 DEF SpawnTask, AddTask, Program
  <2>2. \A u \in Task \ {c} : cancelled'[u] = cancelled[u]
    BY <1>13, <1>t DEF SpawnTask, AddTask
  <2>3. \E where \in {"run", "register"} : pc' = [pc EXCEPT ![t] = where, ![c] = "run"]
                                           \/ pc' = [pc EXCEPT ![c] = "run"]
    BY <1>13 DEF SpawnTask, AddTask
  <2>4. /\ \A u \in Task \ {t, c} : pc'[u] = pc[u]
        /\ pc'[t] # "nap" /\ pc'[c] # "nap"
    BY <1>t, <2>1, <2>3
  <2>5. QED BY <2>1, <2>2, <2>4, SMT DEF NoLostCancellation
<1>14. CASE Own(t)
  BY <1>1, <1>2, <1>3, <1>4, <1>5, <1>6, <1>7, <1>8, <1>14 DEF Own
<1>15. CASE Shared(t)
  BY <1>9, <1>10, <1>11, <1>12, <1>13, <1>15 DEF Shared
<1>16. QED BY <1>14, <1>15

\* A child that runs is cancelled or among the children that a cancellation of its
\* parent reaches, and no task has a parent that is not born.
ChildInv ==
  /\ \A c \in Task : parent[c] # NoTask /\ state[c] = "running" =>
       cancelled[c] \/ c \in children[parent[c]]
  /\ \A c \in Task : parent[c] # NoTask => pc[parent[c]] # "unborn"
  /\ \A t \in Task : scope[t] # "none" => pc[t] # "unborn"

\* It is kept when no child is forgotten but of those that are done.
LEMMA ChildFrame ==
  ASSUME RecordTyped, ChildInv, UNCHANGED parent,
         \A u \in Task : /\ state'[u] = "running" => state[u] = "running"
                         /\ pc'[u] = "unborn" => pc[u] = "unborn"
                         /\ cancelled[u] => cancelled'[u]
                         /\ pc'[u] = "unborn" /\ scope[u] = "none" => scope'[u] = "none",
         \A u, c \in Task : c \in children[u] /\ state'[c] = "running" => c \in children'[u]
  PROVE  ChildInv'
<1>1. \A c \in Task : parent[c] # NoTask => parent[c] \in Task
  BY DEF RecordTyped
<1>2. QED BY <1>1 DEF ChildInv

\* Every step keeps it: %spawn enters the child, or marks it as cancelled, before its
\* thread runs, and it is removed only when it is done.
LEMMA ChildStep ==
  ASSUME RecordTyped, GroupTyped, ControlTyped, PlaceInv, AddInv, WaitInv, WorkInv, ChildInv,
         NEW t \in Task, Own(t) \/ Shared(t)
  PROVE  ChildInv'
<1>t. /\ pc \in [Task -> PC] /\ state \in [Task -> {"unborn", "running", "done"}]
      /\ parent \in [Task -> Task \cup {NoTask}] /\ cancelled \in [Task -> BOOLEAN]
      /\ children \in [Task -> SUBSET Task]
  BY DEF RecordTyped, ControlTyped
<1>1. CASE Own(t)
  <2>1. OwnEffect(t)
    BY <1>1, OwnStep
  <2>2. /\ UNCHANGED <<parent, state, children>> /\ pc[t] # "unborn" /\ pc'[t] # "unborn"
        /\ \A u \in Task \ {t} : pc'[u] = pc[u]
    BY <2>1 DEF OwnEffect, Moves, Moving, Cancelling
  <2>3. /\ \A u \in Task : cancelled[u] => cancelled'[u]
        /\ \A u \in Task \ {t} : scope[u] = "none" => scope'[u] = "none"
    BY <2>1 DEF OwnEffect, Marks
  <2>4. QED BY <2>2, <2>3, ChildFrame
<1>2. CASE \/ Try(t) \/ Again(t) \/ (\E failed \in BOOLEAN : Collect(t, failed))
  <2>1. Moves(t)
    BY <1>2, WaitStep
  <2>2. UNCHANGED <<children, cancelled, scope>>
    BY <1>2 DEF Try, Again, Collect, record
  <2>3. UNCHANGED <<parent, state>> /\ \A u \in Task : pc'[u] = "unborn" => pc[u] = "unborn"
    BY <2>1 DEF Moves, Moving, Cancelling
  <2>4. QED BY <2>2, <2>3, ChildFrame
<1>3. CASE Register(t)
  <2>1. UNCHANGED <<parent, state, children, cancelled, scope>>
    BY <1>3 DEF Register, record
  <2>2. \A u \in Task : pc'[u] = "unborn" => pc[u] = "unborn"
    <3>1. pc'[t] \in {"run", "cancel"} /\ \A u \in Task \ {t} : pc'[u] = pc[u]
      BY <1>3, BaseRegister
    <3>2. QED BY <3>1
  <2>3. QED BY <2>1, <2>2, ChildFrame
<1>4. CASE FinishTask(t) \/ RemoveChild(t) \/ Hook(t) \/ WakeOne(t)
  <2>1. /\ UNCHANGED <<cancelled, parent, scope>> /\ pc'[t] # "unborn" /\ state'[t] = "done"
        /\ \A u \in Task \ {t} : pc'[u] = pc[u] /\ state'[u] = state[u]
    BY <1>4, OverStep DEF Over
  <2>2. \A u, c \in Task : c \in children[u] /\ c # t => c \in children'[u]
    <3>1. children' = children \/ children' = [children EXCEPT ![parent[t]] = @ \ {t}]
      BY <1>4 DEF FinishTask, RemoveChild, Hook, WakeOne, record
    <3>2. QED BY <1>t, <3>1
  <2>3. QED BY <2>1, <2>2, ChildFrame
<1>5. ASSUME NEW c \in Task, SpawnTask(t, c)
      PROVE  ChildInv'
  <2>1. /\ pc[c] = "unborn" /\ parent[c] = NoTask
        /\ parent' = [parent EXCEPT ![c] = NoTask] /\ state' = [state EXCEPT ![c] = "running"]
        /\ pc' = [pc EXCEPT ![c] = "run"] /\ UNCHANGED <<cancelled, children, scope>>
    BY <1>5 DEF SpawnTask, NewTask, PlaceInv, group
  <2>2. /\ parent' = parent /\ \A u \in Task \ {c} : state'[u] = state[u] /\ pc'[u] = pc[u]
        /\ pc'[c] = "run"
    BY <1>t, <2>1
  <2>3. \A u \in Task : parent[u] # NoTask => parent[u] \in Task
    BY <1>t
  <2>4. QED BY <2>1, <2>2, <2>3, SMT DEF ChildInv
<1>6. ASSUME NEW g \in Task, NEW c \in Task, AddTask(t, g, c)
      PROVE  ChildInv'
  <2>1. /\ pc[t] = "run" /\ pc[c] = "unborn" /\ scope[g] = "open"
        /\ state' = [state EXCEPT ![c] = "running"] /\ parent' = [parent EXCEPT ![c] = g]
        /\ pc' = [pc EXCEPT ![t] = "register", ![c] = "run"] /\ UNCHANGED scope
    BY <1>6 DEF AddTask, NewTask, Program
  <2>2. pc[g] # "unborn"
    BY <2>1 DEF ChildInv
  <2>3. /\ cancelled'[c] \/ c \in children'[g]
        /\ \A u \in Task : children[u] \subseteq children'[u] /\ (cancelled[u] => cancelled'[u])
    <3>1. CASE cancelled[g]
      BY <1>6, <1>t, <3>1 DEF AddTask
    <3>2. CASE ~cancelled[g]
      <4>1. children' = [children EXCEPT ![g] = @ \cup {c}] /\ UNCHANGED cancelled
        BY <1>6, <3>2 DEF AddTask
      <4>2. QED BY <1>t, <4>1
    <3>3. QED BY <3>1, <3>2
  <2>4. /\ parent'[c] = g /\ \A u \in Task \ {c} : parent'[u] = parent[u] /\ state'[u] = state[u]
        /\ \A u \in Task : pc'[u] = "unborn" => pc[u] = "unborn"
    BY <1>t, <2>1
  <2>5. ASSUME NEW d \in Task, parent'[d] # NoTask
        PROVE  /\ state'[d] = "running" => cancelled'[d] \/ d \in children'[parent'[d]]
               /\ pc'[parent'[d]] # "unborn"
    <3>1. CASE d = c
      BY <2>2, <2>3, <2>4, <3>1
    <3>2. CASE d # c
      <4>1. parent[d] \in Task /\ parent'[d] = parent[d] /\ state'[d] = state[d]
        BY <1>t, <2>4, <2>5, <3>2
      <4>2. QED BY <2>3, <2>4, <2>5, <4>1 DEF ChildInv
    <3>3. QED BY <3>1, <3>2
  <2>6. \A u \in Task : scope'[u] # "none" => pc'[u] # "unborn"
    BY <2>1, <2>4 DEF ChildInv
  <2>7. QED BY <2>5, <2>6 DEF ChildInv
<1>7. QED BY <1>1, <1>2, <1>3, <1>4, <1>5, <1>6 DEF Shared

\* Cancellation goes on reaching the children when the marks stay and no work is
\* dropped but of cancelled tasks.
LEMMA ReachesFrame ==
  ASSUME RecordTyped, CancellationReaches,
         UNCHANGED <<parent, cancelled>>,
         \A u \in Task : /\ state'[u] = "running" => state[u] = "running"
                         /\ gcancelled'[u] => gcancelled[u]
                         /\ pending'[u] \subseteq pending[u]
                         /\ \A c \in work[u].todo : cancelled[c] \/ c \in work'[u].todo
  PROVE  CancellationReaches'
<1>1. \A c \in Task : parent[c] # NoTask => parent[c] \in Task
  BY DEF RecordTyped
<1>2. QED BY <1>1 DEF CancellationReaches

\* cancel-task! marks a task u and takes over its children.
LEMMA CancelReaches ==
  ASSUME RecordTyped, ControlTyped, ChildInv, CancellationReaches, NEW t \in Task, NEW u \in Task,
         Cancel(t, u, work[t].todo \ {u}, work[t].then),
         UNCHANGED <<state, parent, gcancelled, pending>>
  PROVE  CancellationReaches'
<1>t. /\ work \in [Task -> Works] /\ cancelled \in [Task -> BOOLEAN]
      /\ \A c \in Task : parent[c] # NoTask => parent[c] \in Task
  BY DEF RecordTyped, ControlTyped
<1> DEFINE w == [todo |-> (work[t].todo \ {u}) \cup children[u], at |-> u, handler |-> u \in handler,
                 then |-> work[t].then]
<1>1. /\ work' = [work EXCEPT ![t] = w] /\ w.todo = (work[t].todo \ {u}) \cup children[u]
      /\ cancelled' = [cancelled EXCEPT ![u] = TRUE]
  BY DEF Cancel
<1> HIDE DEF w
<1>2. /\ cancelled'[u] /\ \A c \in Task \ {u} : cancelled'[c] = cancelled[c]
      /\ work'[t].todo = (work[t].todo \ {u}) \cup children[u]
      /\ \A v \in Task \ {t} : work'[v] = work[v]
  BY <1>1, <1>t
<1>3. ASSUME NEW c \in Task, parent[c] # NoTask, state[c] = "running", ~cancelled'[c],
             cancelled'[parent[c]] \/ (gcancelled[parent[c]] /\ c \in pending[parent[c]])
      PROVE  \E v \in Task : c \in work'[v].todo
  <2>1. c # u /\ ~cancelled[c]
    BY <1>2, <1>3
  <2>2. CASE parent[c] = u
    BY <1>2, <1>3, <2>1, <2>2 DEF ChildInv
  <2>3. CASE parent[c] # u
    <3>1. PICK v \in Task : c \in work[v].todo
      BY <1>t, <1>2, <1>3, <2>1, <2>3 DEF CancellationReaches
    <3>2. c \in work'[v].todo
      BY <1>2, <2>1, <3>1
    <3>3. QED BY <3>2
  <2>4. QED BY <2>2, <2>3
<1>4. QED BY <1>3 DEF CancellationReaches

\* A cancellation that goes on with the rest of its work drops no task.
LEMMA CancelEachReaches ==
  ASSUME RecordTyped, ControlTyped, CancellationReaches, NEW t \in Task,
         NEW then, CancelEach(t, work[t].todo, then),
         UNCHANGED <<state, parent, cancelled, gcancelled, pending>>
  PROVE  CancellationReaches'
<1>t. work \in [Task -> Works]
  BY DEF ControlTyped
<1> DEFINE todo == {u \in work[t].todo : ~cancelled[u]}
           what == IF todo = {} THEN NoWork ELSE Todo(todo, then)
<1>1. work' = [work EXCEPT ![t] = what] /\ what.todo = todo
  BY DEF CancelEach, NoWork, Todo
<1>2. \A c \in work[t].todo : cancelled[c] \/ c \in todo
  OBVIOUS
<1> HIDE DEF what, todo
<1>3. work'[t].todo = todo /\ \A u \in Task \ {t} : work'[u] = work[u]
  BY <1>1, <1>t
<1>4. QED BY <1>2, <1>3, ReachesFrame

\* Every step of a cancellation, of an addition and of a finish lets cancellation reach
\* the children.
LEMMA ReachesStep ==
  ASSUME RecordTyped, GroupTyped, ControlTyped, PlaceInv, AddInv, WaitInv, WorkInv, GroupAccounts,
         ChildInv, CancellationReaches, NEW t \in Task, Own(t) \/ Shared(t)
  PROVE  CancellationReaches'
<1>t. /\ pc \in [Task -> PC] /\ state \in [Task -> {"unborn", "running", "done"}]
      /\ parent \in [Task -> Task \cup {NoTask}] /\ cancelled \in [Task -> BOOLEAN]
      /\ work \in [Task -> Works] /\ pending \in [Task -> SUBSET Task]
      /\ gcancelled \in [Task -> BOOLEAN]
  BY DEF RecordTyped, GroupTyped, ControlTyped
<1>p. \A c \in Task : parent[c] # NoTask => parent[c] \in Task
  BY <1>t
<1>w. pc[t] \notin Cancelling => work[t].todo = {}
  BY SMT DEF WorkInv, WorkOK, NoWork, Todo
<1>1. CASE CancelNext(t)
  <2>1. PICK u \in work[t].todo :
          IF cancelled[u]
          THEN CancelEach(t, work[t].todo, work[t].then) /\ UNCHANGED <<cancelled, handler>>
          ELSE Cancel(t, u, work[t].todo \ {u}, work[t].then)
    BY <1>1 DEF CancelNext
  <2>2. u \in Task /\ UNCHANGED <<state, parent, gcancelled, pending>>
    <3>1. u \in Task
      BY <1>t DEF Works
    <3>2. QED BY <1>1, <3>1 DEF CancelNext, group
  <2>3. CASE cancelled[u]
    BY <2>1, <2>2, <2>3, CancelEachReaches
  <2>4. CASE ~cancelled[u]
    BY <2>1, <2>2, <2>4, CancelReaches
  <2>5. QED BY <2>3, <2>4
<1>2. CASE RunHandler(t)
  <2>1. /\ CancelEach(t, work[t].todo, work[t].then)
        /\ UNCHANGED <<state, parent, cancelled, gcancelled, pending>>
    BY <1>2 DEF RunHandler, record, group
  <2>2. QED BY <2>1, CancelEachReaches
<1>3. CASE WakeTask(t)
  <2>0. UNCHANGED <<state, parent, cancelled, gcancelled, pending>>
    BY <1>3 DEF WakeTask, record, group
  <2>1. CASE work[t].handler
    <3>1. work' = [work EXCEPT ![t] = Todo(work[t].todo, work[t].then)]
      BY <1>3, <2>1 DEF WakeTask
    <3>2. \A u \in Task : work'[u].todo = work[u].todo
      BY <1>t, <3>1 DEF Todo
    <3>3. QED BY <2>0, <3>2, ReachesFrame
  <2>2. CASE ~work[t].handler
    BY <1>3, <2>0, <2>2, CancelEachReaches DEF WakeTask
  <2>3. QED BY <2>1, <2>2
<1>4. ASSUME NEW u \in Task, CancelTask(t, u)
      PROVE  CancellationReaches'
  <2>1. work[t] = NoWork
    BY <1>4 DEF CancelTask, Program, WorkInv, WorkOK, Cancelling
  <2>2. {} = work[t].todo \ {u} /\ work[t].then = "run"
    BY <2>1, SMT DEF NoWork, Todo
  <2>3. Cancel(t, u, {}, "run") /\ UNCHANGED <<state, parent, gcancelled, pending>>
    BY <1>4 DEF CancelTask, group
  <2>4. QED BY <2>2, <2>3, CancelReaches
<1>5. CASE CancelAll(t)
  <2>1. /\ work[t].todo = {} /\ UNCHANGED <<state, parent, cancelled, pending>>
        /\ \A g \in Task \ {t} : gcancelled'[g] = gcancelled[g]
        /\ pending[t] \subseteq Task
    <3>1. work[t].todo = {}
      BY <1>5 DEF CancelAll, WorkInv, WorkOK
    <3>2. QED BY <1>5, <1>t, <3>1 DEF CancelAll, record
  <2>2. /\ work'[t].todo = {u \in pending[t] : ~cancelled[u]}
        /\ \A v \in Task \ {t} : work'[v] = work[v]
    BY <1>5, <1>t DEF CancelAll, CancelEach, NoWork, Todo
  <2>3. ASSUME NEW c \in Task, parent[c] # NoTask, state[c] = "running", ~cancelled[c],
               cancelled[parent[c]] \/ (gcancelled'[parent[c]] /\ c \in pending[parent[c]])
        PROVE  \E v \in Task : c \in work'[v].todo
    <3>1. CASE parent[c] = t /\ c \in pending[t]
      BY <2>2, <2>3, <3>1
    <3>2. CASE ~(parent[c] = t /\ c \in pending[t])
      <4>1. PICK v \in Task : c \in work[v].todo
        BY <1>p, <2>1, <2>3, <3>2 DEF CancellationReaches
      <4>2. QED BY <2>1, <2>2, <4>1
    <3>3. QED BY <3>1, <3>2
  <2>4. QED BY <2>1, <2>3 DEF CancellationReaches
<1>6. CASE \/ Awaited(t) \/ NapTest(t) \/ Nap(t) \/ Ring(t) \/ (\E u \in Task : Await(t, u))
           \/ (\E k \in {"next", "wait-all"} : GroupWait(t, k))
           \/ CancelGroup(t) \/ SetHandler(t) \/ TaskSleep(t)
  <2>1. UNCHANGED <<state, parent, cancelled, work>>
    BY <1>6 DEF Awaited, NapTest, Nap, Ring, Await, GroupWait, CancelGroup, SetHandler,
                TaskSleep, record
  <2>2. UNCHANGED <<gcancelled, pending>>
    BY <1>6 DEF Awaited, NapTest, Nap, Ring, Await, GroupWait, CancelGroup, SetHandler,
                TaskSleep, group
  <2>3. QED BY <2>1, <2>2 DEF CancellationReaches
<1>7. CASE OpenGroup(t) \/ Try(t) \/ Again(t) \/ RemoveChild(t) \/ WakeOne(t)
  <2>1. UNCHANGED <<state, parent, cancelled, gcancelled, pending, work>>
    BY <1>7 DEF OpenGroup, Try, Again, RemoveChild, WakeOne, record, group
  <2>2. QED BY <2>1 DEF CancellationReaches
<1>8. CASE Eof(t)
  <2>1. /\ UNCHANGED <<state, parent, cancelled, pending, work>>
        /\ \A g \in Task : gcancelled'[g] => gcancelled[g]
    BY <1>8, <1>t DEF Eof, Left, record
  <2>2. QED BY <2>1, ReachesFrame
<1>9. CASE \/ Escape(t) \/ (\E cancel \in BOOLEAN : BodyEnds(t, cancel))
           \/ \E failed \in BOOLEAN : Collect(t, failed)
  <2>1. UNCHANGED <<state, parent, cancelled, gcancelled, pending>> /\ pc[t] \notin Cancelling
    BY <1>9 DEF Escape, BodyEnds, Collect, record, Cancelling
  <2>2. \A u \in Task \ {t} : work'[u] = work[u]
    <3>1. CASE Escape(t) \/ \E cancel \in BOOLEAN : BodyEnds(t, cancel)
      <4>1. Own(t)
        BY <3>1 DEF Own
      <4>2. OwnEffect(t)
        BY <4>1, OwnStep
      <4>3. QED BY <4>2 DEF OwnEffect, Moves
    <3>2. CASE \E failed \in BOOLEAN : Collect(t, failed)
      <4>1. Moves(t)
        BY <3>2, WaitStep
      <4>2. QED BY <4>1 DEF Moves
    <3>3. QED BY <1>9, <3>1, <3>2
  <2>3. QED BY <1>w, <2>1, <2>2, ReachesFrame
<1>10. CASE FinishTask(t) \/ Hook(t)
  <2>1. /\ UNCHANGED <<parent, cancelled, gcancelled, work>> /\ state'[t] = "done"
        /\ \A u \in Task \ {t} : state'[u] = state[u]
    BY <1>10, OverStep
  <2>2. \A u \in Task : pending'[u] \subseteq pending[u]
    BY <1>10, <1>t, SMT DEF FinishTask, Hook, group
  <2>3. QED BY <2>1, <2>2, ReachesFrame
<1>11. CASE Register(t)
  <2> DEFINE g == adding[t].group
             c == adding[t].child
  <2>1. /\ g \in Task /\ c \in Task /\ pc[t] = "register"
        /\ UNCHANGED <<state, parent, cancelled, gcancelled>>
        /\ pending' = [pending EXCEPT ![g] = @ \cup {c}]
    BY <1>11 DEF Register, AddInv, record
  <2>2. \A g1, d \in Task : d \in pending'[g1] <=> d \in pending[g1] \/ (g1 = g /\ d = c)
    BY <1>t, <2>1
  <2>3. \A v \in Task \ {t} : work'[v] = work[v]
    BY <1>11, BaseRegister
  <2>4. gcancelled[g] /\ ~cancelled[c] => c \in work'[t].todo
    BY <1>11, <1>t, SMT DEF Register, CancelEach, Todo
  <2>5. work[t].todo = {}
    BY <1>w, <2>1 DEF Cancelling
  <2> HIDE DEF g, c
  <2>6. ASSUME NEW d \in Task, parent[d] # NoTask, state[d] = "running", ~cancelled[d],
               cancelled[parent[d]] \/ (gcancelled[parent[d]] /\ d \in pending'[parent[d]])
        PROVE  \E v \in Task : d \in work'[v].todo
    <3>1. CASE parent[d] = g /\ d = c /\ gcancelled[g]
      BY <2>4, <2>6, <3>1
    <3>2. CASE ~(parent[d] = g /\ d = c /\ gcancelled[g])
      <4>1. PICK v \in Task : d \in work[v].todo
        BY <1>p, <2>2, <2>6, <3>2 DEF CancellationReaches
      <4>2. QED BY <2>3, <2>5, <4>1
    <3>3. QED BY <3>1, <3>2
  <2>7. QED BY <2>1, <2>6 DEF CancellationReaches
<1>12. ASSUME NEW g \in Task, NEW c \in Task, AddTask(t, g, c)
       PROVE  CancellationReaches'
  <2>1. /\ pc[c] = "unborn" /\ parent[c] = NoTask /\ scope[g] = "open"
        /\ state' = [state EXCEPT ![c] = "running"] /\ parent' = [parent EXCEPT ![c] = g]
        /\ UNCHANGED <<gcancelled, pending, work>>
    BY <1>12 DEF AddTask, NewTask, PlaceInv
  <2>2. /\ cancelled[g] => cancelled'[c]
        /\ \A u \in Task \ {c} : cancelled'[u] = cancelled[u]
    BY <1>12, <1>t DEF AddTask
  <2>3. g # c /\ c \notin pending[g]
    BY <2>1, TasksAssumption DEF ChildInv, GroupAccounts
  <2>4. /\ parent'[c] = g
        /\ \A u \in Task \ {c} : parent'[u] = parent[u] /\ state'[u] = state[u]
    BY <1>t, <2>1
  <2>5. ASSUME NEW d \in Task, parent'[d] # NoTask, state'[d] = "running", ~cancelled'[d],
               cancelled'[parent'[d]] \/ (gcancelled[parent'[d]] /\ d \in pending[parent'[d]])
        PROVE  \E v \in Task : d \in work[v].todo
    <3>1. d # c
      BY <2>2, <2>3, <2>4, <2>5
    <3>2. parent'[d] = parent[d] /\ state'[d] = state[d]
      BY <2>4, <3>1
    <3>3. parent[d] \in Task /\ parent[d] # c
      BY <1>p, <2>1, <2>5, <3>2 DEF ChildInv
    <3>4. QED BY <2>2, <2>5, <3>1, <3>2, <3>3 DEF CancellationReaches
  <2>6. QED BY <2>1, <2>5 DEF CancellationReaches
<1>13. ASSUME NEW c \in Task, SpawnTask(t, c)
       PROVE  CancellationReaches'
  <2>1. /\ pc[c] = "unborn" /\ parent[c] = NoTask /\ parent' = [parent EXCEPT ![c] = NoTask]
        /\ state' = [state EXCEPT ![c] = "running"]
        /\ UNCHANGED <<cancelled, gcancelled, pending, work>>
    BY <1>13 DEF SpawnTask, NewTask, PlaceInv, group
  <2>2. parent' = parent /\ \A u \in Task \ {c} : state'[u] = state[u]
    BY <1>t, <2>1
  <2>3. QED BY <2>1, <2>2 DEF CancellationReaches
<1>14. CASE Own(t)
  BY <1>1, <1>2, <1>3, <1>4, <1>5, <1>6, <1>7, <1>8, <1>9, <1>14 DEF Own
<1>15. CASE Shared(t)
  BY <1>7, <1>9, <1>10, <1>11, <1>12, <1>13, <1>15 DEF Shared
<1>16. QED BY <1>14, <1>15

\* No step leaves an orphan: a scope is left when no child is pending and nobody holds
\* the group to add one.
LEMMA OrphansStep ==
  ASSUME RecordTyped, GroupTyped, ControlTyped, PlaceInv, AddInv, WaitInv, WorkInv, GroupAccounts,
         NoOrphans, NEW t \in Task, Own(t) \/ Shared(t)
  PROVE  NoOrphans'
<1>t. /\ state \in [Task -> {"unborn", "running", "done"}]
      /\ parent \in [Task -> Task \cup {NoTask}]
  BY DEF RecordTyped
<1>1. ASSUME NEW c \in Task, Eof(t), parent[c] = t
      PROVE  Done(c)
  <2>1. goal[t].of = t /\ gmutex[t] = NoTask /\ pending[t] = {}
    BY <1>1 DEF Eof, OnGroup, GroupFree, Available, WaitInv, WaitOK
  <2>2. \A u \in Task : adding[u].child # c
    BY <1>1, <2>1, TasksAssumption, SMT DEF AddInv, NoAdding
  <2>3. pc[c] \in {"wake", "dead"}
    BY <1>1, <2>1, <2>2 DEF GroupAccounts
  <2>4. QED BY <2>3 DEF PlaceInv, Over, Done
<1>2. CASE Own(t)
  <2>1. OwnEffect(t)
    BY <1>2, OwnStep
  <2>2. /\ UNCHANGED <<state, parent>>
        /\ \A g \in Task : scope'[g] = "left" => scope[g] = "left" \/ (g = t /\ Eof(t))
    BY <2>1 DEF OwnEffect, Moves, Marks
  <2>3. QED BY <1>1, <2>2 DEF NoOrphans, Done
<1>3. CASE \/ Try(t) \/ Again(t) \/ (\E failed \in BOOLEAN : Collect(t, failed))
           \/ Register(t)
  <2>1. UNCHANGED <<parent, state, scope>>
    BY <1>3 DEF Try, Again, Collect, Register, record
  <2>2. QED BY <2>1 DEF NoOrphans, Done
<1>4. CASE FinishTask(t) \/ RemoveChild(t) \/ Hook(t) \/ WakeOne(t)
  <2>1. /\ UNCHANGED <<parent, scope>> /\ state'[t] = "done"
        /\ \A u \in Task \ {t} : state'[u] = state[u]
    BY <1>4, OverStep
  <2>2. QED BY <2>1 DEF NoOrphans, Done
<1>5. ASSUME NEW c \in Task, SpawnTask(t, c) \/ \E g \in Task : AddTask(t, g, c)
      PROVE  NoOrphans'
  <2>1. /\ UNCHANGED scope /\ state' = [state EXCEPT ![c] = "running"]
        /\ \E g \in Task \cup {NoTask} : /\ parent' = [parent EXCEPT ![c] = g]
                                         /\ g = NoTask \/ scope[g] = "open"
    BY <1>5 DEF SpawnTask, AddTask, NewTask, group
  <2>2. pc[c] = "unborn"
    BY <1>5 DEF SpawnTask, AddTask
  <2>3. state[c] = "unborn"
    BY <2>2 DEF PlaceInv
  <2>4. /\ \A u \in Task \ {c} : parent'[u] = parent[u] /\ state'[u] = state[u]
        /\ parent'[c] = NoTask \/ scope[parent'[c]] = "open"
    BY <1>t, <2>1
  <2>5. QED BY <2>1, <2>3, <2>4, TasksAssumption, SMT DEF NoOrphans, Done
<1>6. QED BY <1>2, <1>3, <1>4, <1>5 DEF Shared

-----------------------------------------------------------------------------
\* The inductive invariant
TasksInv ==
  /\ BaseInv /\ GroupAccounts /\ NoLostCompletion /\ NoLostCancellation /\ ChildInv
  /\ CancellationReaches /\ NoOrphans

\* The invariant holds of every reachable state.
LEMMA TasksInvariant == Spec => []TasksInv
<1>1. Init => TasksInv
  <2> SUFFICES ASSUME Init PROVE TasksInv
    OBVIOUS
  <2>1. BaseInv
    BY BaseInit
  <2>2. GroupAccounts
    <3>1. \A g \in Task : Range(finished[g]) = {} /\ IsInjective(finished[g])
      BY SMT DEF Init, Range, IsInjective
    <3>2. QED BY <3>1, TasksAssumption DEF Init, GroupAccounts
  <2>3. NoLostCompletion /\ NoLostCancellation
    BY DEF Init, NoLostCompletion, NoLostCancellation
  <2>4. ChildInv /\ CancellationReaches /\ NoOrphans
    BY DEF Init, ChildInv, CancellationReaches, NoOrphans
  <2>5. QED BY <2>1, <2>2, <2>3, <2>4 DEF TasksInv
<1>2. TasksInv /\ [Next]_vars => TasksInv'
  <2> SUFFICES ASSUME TasksInv, [Next]_vars PROVE TasksInv'
    OBVIOUS
  <2>1. BaseInv'
    BY BaseStep DEF TasksInv
  <2>2. CASE UNCHANGED vars
    <3>1. /\ UNCHANGED <<state, cancelled, parent, children, awaiters, scope, gcancelled, pending,
                         finished, gwaiters>>
          /\ UNCHANGED <<pc, goal, adding, work, wake, token>>
      BY <2>2 DEF vars, record, group
    <3>2. GroupAccounts' /\ ChildInv' /\ CancellationReaches' /\ NoOrphans'
      BY <3>1 DEF TasksInv, GroupAccounts, ChildInv, CancellationReaches, NoOrphans, Done
    <3>3. NoLostCompletion' /\ NoLostCancellation'
      BY <3>1 DEF TasksInv, NoLostCompletion, NoLostCancellation, Available, OnGroup, Done
    <3>4. QED BY <2>1, <3>2, <3>3 DEF TasksInv
  <2>3. CASE Next
    <3>1. PICK t \in Task : Own(t) \/ Shared(t)
      BY <2>3, OwnOrShared
    <3>2. /\ RecordTyped /\ GroupTyped /\ ControlTyped /\ PlaceInv /\ AddInv /\ WaitInv /\ WorkInv
      BY DEF TasksInv, BaseInv
    <3>3. GroupAccounts'
      BY <3>1, <3>2, AccountsStep DEF TasksInv
    <3>4. NoLostCompletion'
      BY <3>1, <3>2, CompletionStep DEF TasksInv
    <3>5. NoLostCancellation'
      BY <3>1, <3>2, CancellationStep DEF TasksInv
    <3>6. ChildInv'
      BY <3>1, <3>2, ChildStep DEF TasksInv
    <3>7. CancellationReaches'
      BY <3>1, <3>2, ReachesStep DEF TasksInv
    <3>8. NoOrphans'
      BY <3>1, <3>2, OrphansStep DEF TasksInv
    <3>9. QED BY <2>1, <3>3, <3>4, <3>5, <3>6, <3>7, <3>8 DEF TasksInv
  <2>4. QED BY <2>2, <2>3
<1>3. QED BY <1>1, <1>2, PTL DEF Spec

\* A group knows its children, from the registration by %task-group-add to the finish
\* hook and the collection, and a cancellation handler is kept only where cancel-task!
\* will call it.
THEOREM GroupsCorrect == Spec => []GroupSound
<1>1. TasksInv => GroupSound
  BY Typing DEF TasksInv, BaseInv, GroupSound
<1>2. QED BY <1>1, TasksInvariant, PTL

\* No task sleeps in %wait or in task-sleep past a completion or a cancellation that it
\* was to be woken by.
THEOREM TaskWakeups == Spec => []NoLostWakeups
<1>1. TasksInv => NoLostWakeups
  BY DEF TasksInv, NoLostWakeups
<1>2. QED BY <1>1, TasksInvariant, PTL

\* The cancellation of a task or of a group reaches every child of it that runs, also one
\* that %task-group-add is adding meanwhile.
THEOREM CancellationCorrect == Spec => []CancellationReaches
<1>1. TasksInv => CancellationReaches
  BY DEF TasksInv
<1>2. QED BY <1>1, TasksInvariant, PTL

\* No child outlives the scope of with-task-group that created it.
THEOREM ScopesCorrect == Spec => []NoOrphans
<1>1. TasksInv => NoOrphans
  BY DEF TasksInv
<1>2. QED BY <1>1, TasksInvariant, PTL
=============================================================================
