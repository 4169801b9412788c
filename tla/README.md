# A TLA+ model of MIT/GNU Scheme's runtime and microcode

MIT/GNU Scheme is a Scheme system: a virtual machine in C (`src/microcode`), a
runtime library in Scheme (`src/runtime`), a compiler and applications. This
project models the parts in which the order of steps decides about right and
wrong: the green threads of the runtime and what is built on them, subprocesses
and their signals, the variable caches of compiled code, and the garbage
collector. It consists of TLA+ modules translated from the source, TLC runs on
small instances, and TLAPS proofs for all instances.

Paths below are relative to the source tree (`runtime/thread.scm`); the map in
`PROJECT.json` gives, for every definition, the lines it stands for, and its list of
hazards says where each property bites.

## The system

| part | source | state | operations |
|---|---|---|---|
| threads | `runtime/thread.scm`, `thread-low.scm` | run queue, execution states, continuations, rings of pending events, `block-events?` flags | create, suspend, stop/restart, yield, signal, block/unblock/allow events, exit, join, detach, the timer interrupt |
| thread mutexes | `thread.scm` 1226-1358 | owner, queue of waiting threads, each thread's list of mutexes | lock, try-lock, unlock (hand-over to the first waiter), disassociation at exit |
| thread queues | `thread-queue.scm` | chain of pairs, two waiting lists, a mutex | queue!, dequeue!, peek, push!, empty!, with and without deadlines |
| condition variables | `condvar.scm` | doubly linked list of waiters, a lock | wait (with timeout), signal, broadcast |
| barriers | `thread-barrier.scm` | count, generation, a lock and a condition variable | thread-barrier-wait |
| tasks | `task.scm` | tasks (state, waiters, children, handlers), groups | spawn, await, cancel, sleep, scopes of groups and their waits |
| subprocesses | `process.scm`, `microcode/uxproc.c`, `uxsig.c`, `uxio.c`, `transact.c` | process table, signal mask, terminal, recorded actions, ticks, registrations | start, signal, continue, wait, delete, SIGCHLD, the blocking poll |
| variables | `microcode/lookup.c`, `lookprm.c`, `cmpint.c` | frames, reference traps, caches, clones, operator links | define, assign, look up, link, unbind, link compiled code |
| memory | `microcode/gcloop.c`, `memmag.c` | heap, tospace, weak chain, ephemeron table and queue | one collection |
| the rest | interpreter, ports, numbers, syntaxer, compiler, editor | | listed in `PROJECT.json`, not modelled |

All threads share one processor. A thread loses it by suspending, yielding,
stopping or exiting, or to the timer interrupt, which is taken wherever
interrupts are enabled. Code that must not be interrupted masks interrupts
(`without-interrupts`). A thread is woken by an *event*: `#f`, or a procedure
the thread runs before it goes on. Queues, condition variables, barriers and
tasks use nothing of threads but mutexes, events (always `#f`), suspension and
timer records, and that is the surface on which the modules meet.

## The modules

    QueueLemmas, Rings: sequences as queues
    Threads  <- ThreadsProofs <- ThreadsEvents
    BoundedQueue <- ThreadQueue <- ThreadQueueProofs
    Condvar  <- CondvarProofs
    Condvar  <- Barrier
    Tasks    <- TasksProofs
    Subprocesses <- SubprocessesProofs <- SubprocessesStatus
    Bindings <- Environments
    GarbageCollector

The `MC` modules give names to constants and symmetries for TLC, and define nothing
of the model. Definitions marked as mutants are wrong variants of the definition that
follows them: each shows that some property notices that error, and nothing else
uses them.

### Threads

One processor, so one step at a time: that of the current thread (the head of
`runq`), or an interrupt. `mode` is the interrupt mask. In mode `"open"` the timer
may interrupt; in mode `"masked"` the next step is determined by the control
stack of the current thread, so that a section under `without-interrupts` is a
chain of steps with nothing in between. `stack[t]` holds the activations of
`thread.scm`'s own procedures on thread `t`: `lock` (`%lock-thread-mutex`'s
loop), `suspend`, `resume` (the continuation of a thread that lost the processor),
`unblock`, `allow`, `release` (`release-joined-threads`), `exit`, `die`, `closure`
(an event being run) and the stages of a thread's signal to itself. This is what
makes nesting explicit: an event that runs inside a lock wait is a `closure` on a
`suspend` on a `lock`.

| state | code |
|---|---|
| `exec`, `runq` | `thread/execution-state`, the running queue |
| `block`, `pending` | `thread/block-events?`, `thread/pending-events` (`#f` is `NoEvent`, procedures are `Closure`s) |
| `owner`, `waiters`, `mutexes` | `thread-mutex/owner`, `thread-mutex/waiting-threads`, `thread/mutexes` (a bag: the list can hold a mutex several times) |
| `exitValue`, `joined`, `joinedTo`, `todo` | the fields of joining, and the signals a release has still to send |
| `timers` | timer records, without their times: any record may be due |
| `unused`, `sent`, `ran` | history for `EventsInOrder` |

The actions have the names of the procedures (`SuspendCurrentThread`,
`HandleEvent`, `SuspendReturn`, `ExitCurrentThread`, ...); the comment of each says
which part of the procedure it is. `Ops` is the set of operations the program
uses in a run.

Left out: the text of conditions; floating-point environments; thread properties;
the root continuation in which `create-thread` starts a thread; the unwinding of
`dynamic-wind` at an exit (`translate-to-state-point`, line 500); deadlines of timer
records; the I/O registry, whose deliveries are signals from outside.

### ThreadQueue and BoundedQueue

The chain of pairs is modelled pair by pair (`first`, `last`, `pairs`, `count`),
because the operations change these fields separately and `push!` recycles the last
pair. An operation passes `"lock"`, `"in"` (owner of the mutex, events blocked) and
`"parked"` (in `suspend-current-thread`). Threads are reduced to *tokens*: a
pending `#f` is a token, of which a thread has at most one. Suspension takes it or
waits for it, and so does each round of a wait for a mutex. That is what `Threads`
shows a `#f` event to be (`PendingStates`, `NoLostWakeup`, `SleepersQueued`).
Outside an operation a token may vanish (`DropToken`), and anyone may send one
(`Stray`). Waiting lists are kept without repetitions to make the state space
finite; the code appends at each turn.

`BoundedQueue` is the promise: a sequence of items that every operation reads and
changes in one step. `ThreadQueue` implements it under the mapping that reads the
items off the chain (`RefinesBoundedQueue`).

### Condvar and Barrier

Neither a waiter nor a signaller masks interrupts, so every statement with an
effect is a step: enqueue, release of the mutex, test, sleep, clean-up, return; scan,
mark, unlink. The links of the waiter list change together
(`without-interruption`), so the list is a sequence. Time is abstracted to where
the clock stands against a thread's timeout: before, at, after.

`Barrier` adds `thread-barrier-wait`, the only client in the runtime. Its steps
are conjunctions with `Condvar`'s actions, so that a barrier runs on the modelled
condition variable and not on an ideal one.

### Tasks

A task is taken together with its thread, a group with the task that owns it. What is
done with a task's mutex held is one step; between two such steps any other task
may run. A group's mutex is a variable, because a child is spawned while it is held.
`pc` says where a task is: in its thunk (`"run"`), in `%wait` (`"try"`, `"sleep"`),
in `task-sleep` (`"nap-test"`, `"nap"`), in `cancel-task!` or
`task-group-cancel-all!` (`work` is the walk over the copy of the children), or at
one of the stages of `%finish-task!`.

Restrictions: a task opens at most one group, only the owner waits for a group, and
whether a child failed is chosen when it is collected. Not modelled: an error in a
cancellation handler, which ends the walk (`task.scm:334`); leaving the closing wait
of a scope by a continuation (503, 517); actors (733), streams (773), task
continuations (930), task locals.

### Subprocesses

One flow of control, the machine `m`: Scheme threads take turns while it is at
`"run"`, and a primitive is taken step by step (`m.at`), through the blocking of
signals, `fork`, the record in the table, the terminal, the wait for a foreground
child, commit or abort. `dstack` is the dynamic stack of recorded actions of
`transact.c`, unwound one by one. Children exit and stop, the user interrupts, and
SIGCHLD comes, between any two steps at which it is not blocked. `raw`, `status`,
`changed` and `unsynced` are the two statuses of a slot, its tick and the global
tick; `index`, `known`, `regs`, `waits` and `result` are the objects, registrations
and waiting threads of `process.scm`.

Restrictions: the build with `ppoll` (without it, `uxio.c:603` notes a "signal
hole" itself); the table does not grow (its growth, `uxproc.c` 214-230, moves it
with SIGCHLD unblocked, which the handler may meet); exited and signalled are one status;
the child's side of `OS_make_subprocess` and the `PROCESS-WAIT` primitive are left out.

### Environments and Bindings

A cell of a frame holds a value or a reference trap, which points to a cache; the
cache holds the value and the lists of places in compiled code that refer to it. All of
this is one record `mem`, and each procedure of `lookup.c` is an operator from the
record before to the record after; a loop that would not end sets `stuck`.
`Bindings` is the promise: frames with variables, of which two may be one, and no
caches. `Environments` implements it (`RefinesBindings`).

The run assumes a *discipline* (`MayDefine`, `MayLink`, `MayUnbind`): programs do not
do certain things with linked variables. Each restriction stands for behaviour
that TLC reaches without it (`Disciplined = FALSE`):

- a link from a name to the variable it already means, and the unbinding of an
  exported name, move a list to itself for ever (`lookup.c:1158`), although
  `environments.texi` (296, 313) allows them;
- unbinding a global variable (around 707) leaves operator links that call the old procedure;
- defining a name in a frame in between moves references of deeper frames whose own cell
  shares the cache (1186);
- after `move_all_references` (1307) a list can have two entries of one name;
- `SET_TRAP_CACHE` changes one trap and not the others that share the cache (631);
- a source that is cached but unbound can be linked without an error (594);
- an unbinding with nothing left to refer to (1125) deletes the references and leaves
  compiled blocks pointing at the old cache;
- a definition over an unbound argument does not take references back.

### GarbageCollector

One collection: the words of the stack and of the registers, then of tospace, are
scanned one at a time; objects are copied (lists with their cdrs ahead), and
ephemerons wait in a hash table threaded through their copies until their key is
copied. What an old object holds is chosen when it is copied, as it is read only then,
so that a run covers every small heap. `SharedKeys` says whether two ephemerons may
wait for one key. Not modelled: the other object types of the dispatch table (cells stand
for them), precious objects, the fixing of compiled code, the size of the heap.

## The runs

`tlc -config <run>.cfg <module>`; the counts are distinct states.

| run | instance | states | shows |
|---|---|---|---|
| `threads_all` | 2 threads, 1 closure, every operation but mutexes, signals to oneself included | 688,000 | the run queue holds the running threads exactly; interrupts are masked exactly where the code masks them, activations nest (`ControlSound`); a waiting thread has no event and can be woken; an exit leaves nothing behind and joins are paired (`ExitsClean`) |
| `threads_mutex` | 3 threads and 1 mutex, 2 closures, with signals, suspension, timers, exits, escapes | 337,000 | hand-over queues are sound and `thread/mutexes` lists all mutexes (`MutexesSound`); a sleeper in a lock wait is queued; events that others signal run once and in order (`EventsSound`); `ExitsClean` with mutexes |
| `threads_live` | 3 threads, fair | 25,900 | every waiter gets its mutex, every event is run |
| `queue_all` | 2 threads, queue of 2, all operations but `peek` and `queue-no-hang!`, spurious wake-ups and deadlines, fair | 342,000 | the chain is sound, nobody is forgotten, the queue implements `BoundedQueue`, a call with a deadline returns |
| `queue_live` | 3 threads, queue of 1, threads exit, no deadlines, fair | 35,500 | a blocked thread returns once it can |
| `condvar_all` | 3 threads, both waits with and without timeouts, signal, broadcast, escapes, stray wake-ups | 2,270,000 | no waiter is missing from the list or left on it |
| `barrier` | 3 threads, a barrier of 2, 3 generations, fair | 36,500 | nobody passes before the generation is complete and `current` counts those to come; a broadcast comes to its end; the barrier opens once enough threads have come |
| `tasks` | 3 tasks, two nested groups, fair | 345,000 | the accounts of groups; no completion or cancellation is slept on; cancellation reaches every child; no child outlives its scope; waits end |
| `processes` | 2 children, one on the terminal, 2 threads, 2 slots, fair | 250,000 | slots have one owner; no primitive leaves the mask, the terminal or a slot behind; no signal goes to a process that is gone; the dead stay dead; Scheme does not sleep on news; a wait returns |
| `environments` | 3 frames in 3 shapes, 1 name, a lookup, an assignment and a call in compiled code | 43,100 | compiled code sees the variables that lookups by name see; operator links are never stale; the loops end; caches are invisible (`RefinesBindings`) |
| `gc` | every heap of up to 4 objects and 3 roots | 1,330,000 | a collection keeps exactly what is live, copies it right, and every intermediate state is as the scan assumes |
| `gc_ephemeron` | the same, ephemerons may share a key | violation | the finding below |

**Bounds.** Two threads suffice for every pair of operations to meet, and three
for a third thread to come between a hand-over and its wake-up, or to find an item
gone. A queue of one element is both empty and full next to each operation; one of
two has a first pair that is not the last, which `push!` has to find. A barrier of two with three threads
has a thread of the next generation before the last one has left. Three tasks give a
group in a group, cancelled from outside and from inside. Two children give a slot
that is used again and numbers that meet in the table. Two ephemerons are enough for
one to hold the key of the other. `MaxGeneration`, `Closure` (each is signalled
once), `Cell`, `Id`, `TableSize`, `Heaps` and `Ops` are the named bounds. Symmetry is
used for threads other than the initial one, for values, for closures and for objects of one
kind, and never in a run with a liveness property.

**Deadlock.** `CHECK_DEADLOCK FALSE` stands where everyone may rightly wait or be
done: all threads stopped, dead or waiting for each other's signals; all closures
used; the last generation of a barrier or the last task over; no storage for another cache.
`queue_all`, `processes` and `gc` check deadlock.

**Fairness.** In `Threads` a masked section runs to its end (nothing can stop it),
the timer interrupt is taken again and again if it is enabled again and again
(`set-thread-timer-interval!` keeps it going while more than one thread runs), and
a thread that gets the processor again and again ends its events and its critical
sections; the last is an assumption about programs without which no mutex is live. The
other modules assume what `threads_live` shows: a thread with something to do is
run in the end, since the run queue is served in turn. A critical section of the
program ends (`UnlockMutex` of `Condvar`), so does the thunk of a task that runs again and
again (`Ends` of `Tasks`), and the clock goes on. In `Subprocesses` the machine goes
on, SIGCHLD and the timer are delivered when they are unblocked again and again, each
thread has its turn, and not every poll finds a descriptor ready.

**Only some of the operations.** A few properties hold only while certain operations
are not used. Adding the operation to `Ops` of the run named, or changing the constant,
makes TLC show why:

1. `threads_mutex` with `"self"`: a signal to the current thread looks at the ring and
   changes it in separate calls, with interrupts enabled (`thread.scm:942`). When it has
   found a single `#f`, which it is going to replace, and a timer event or another
   thread's signal takes the place of that `#f` first, it overwrites an event that then
   never runs (`EventsSound`). In the same way `#f` and closures can be in the ring
   together, against the comment of `%add-pending-event` (`thread.scm:964`). No thread
   sleeps on an event because of it: `threads_all`, which has such signals, checks
   `NoLostWakeup`.
2. `threads_mutex` with `"relock"`, an event that locks the mutex its own thread is
   waiting for: the unlock in the event removes all entries of the mutex from
   `thread/mutexes` (`thread.scm:1357`), those of the outer wait included, and the thread
   comes to own a mutex that its exit does not release (`MutexesSound`).
3. `queue_all` with `MaxElements = 1`: `thread-queue/push!` to a full queue of one
   element runs off the chain (`thread-queue.scm:282`; `PushFindsLast`).
4. `queue_all` with a third thread and `"exit"`: a dequeue that timed out leaves its thread on the list;
   once it has exited, the loop that restarts the waiting threads ends at it with an
   error (`thread-queue.scm:263`), and those after it sleep on (`NobodyForgotten`).
5. `condvar_all` with the invariant `DoneAwake`: a signaller wakes the waiter before it
   marks it done (`condvar.scm:139`), with interrupts enabled; a waiter that runs in
   between goes back to sleep, and is then unlinked.
6. `condvar_all` with the invariant `ListedTimedOut`: the test of a wait's timeout is the
   wrong way round (`condvar.scm:97`): a wait gives up before its timeout and not after it.
7. `processes` with `Recycled = TRUE`, where the system may use a process number again while a
   slot still has it: `find_process` looks for the number without the status
   (`uxproc.c:710`), so that the slot of a dead child takes the news of another one, and
   a signal can reach that one (`SignalsOwn`).
8. `processes` with the invariant `AbortSignalsOwn`: `process_allocate_abort`
   (`uxproc.c` 188-202) kills without blocking SIGCHLD, against the comment at 540.
9. `environments` with `Disciplined = FALSE`: see above.
10. `threads_all` with `"late-detach"`, where a thread is detached after its exit: its
   joiners are signalled a second time (`ExitsClean`).

Met on the way, and part of the model: `process_deallocate` clears the number before
the status (`uxproc.c` 242), `subprocess-delete` deregisters a waiting thread of
another program part without waking it (`process.scm` 199-205), and
`subprocess-continue-foreground` decides by a status of the object that may be
stale (`process.scm` 231-238).

## The finding

`gc_ephemeron`: `queue_ephemerons_for_key` moves an entry from its bucket to the head of
`ephemeron_queue` and goes on from that entry's own link, hence along the queue
(`gcloop.c:919`). When two live ephemerons have one key that is copied after both of
them, the first walk takes one of them, and the second walk finds that one in the queue,
moves it to the head again and again, and never ends. The comment at `gcloop.c:132`
describes a list of ephemerons per key. All of `gc`'s properties are therefore checked
with `SharedKeys = FALSE`.

## The proofs

`tlapm <module>.tla` checks them. They hold for every set of threads, mutexes,
events, items, tasks and children, and whatever the program does unless an assumption is
given. Constants are assumed to be only what `ConstantsAssumption`,
`QueueAssumption`, `CondvarAssumption`, `TasksAssumption` and
`SubprocessAssumption` say (mainly that the atoms `#f`, `'()`, "none" are not threads,
mutexes, pairs, ...).

| theorem | states | assuming |
|---|---|---|
| `ThreadsProofs!TypeCorrect` | `TypeOK` | |
| `ThreadsProofs!RunQueueCorrect` | `RunQueueExact` | |
| `ThreadsProofs!MutexesCorrect` | `MutexesSound` | no `"relock"` (2 above) |
| `ThreadsProofs!ControlCorrect` | `ControlSound` | |
| `ThreadsProofs!WakeupCorrect` | `NoLostWakeup` | |
| `ThreadsEvents!EventsCorrect` | `EventsSound` | no `"self"` (1) |
| `ThreadsEvents!ExitsCorrect` | `ExitsClean` | no `"relock"`; no exited thread is detached (`"late-detach"`) |
| `ThreadsEvents!SleepersCorrect` | `SleepersQueued` | no `"relock"` |
| `ThreadQueueProofs!QueueWakeups` | `NobodyForgotten`, `Exclusive` | no thread exits (4) |
| `ThreadQueueProofs!QueueCorrect` | `QueueSound` | |
| `ThreadQueueProofs!QueueRefines` | `RefinesBoundedQueue`: the queue implements `BoundedQueue` | no thread exits (4); no push to a queue of at most one element (3) |
| `CondvarProofs!WaitersCorrect` | `ListExact`, `Exclusive` | |
| `TasksProofs!GroupsCorrect` | `GroupSound` | |
| `TasksProofs!TaskWakeups` | `NoLostWakeups` | |
| `TasksProofs!CancellationCorrect` | `CancellationReaches` | |
| `TasksProofs!ScopesCorrect` | `NoOrphans` | |
| `SubprocessesProofs!TableCorrect` | `TableSound` | |
| `SubprocessesProofs!RestoredCorrect` | `Restored` | |
| `SubprocessesStatus!SignalsCorrect` | `SignalsOwn` | `Recycled = FALSE` (7) |
| `SubprocessesStatus!DeadCorrect` | `DeadStayDead` | `Recycled = FALSE` |
| `SubprocessesStatus!SleepCorrect` | `SleepsInformed` | `Recycled = FALSE` |

*Threads.* Every action changes the run queue in one of four ways:
not at all, by appending a thread that was not running, by removing the head, or by
moving it to the end. `QueueStep` states this, and each of the four keeps
`RunQueueExact`. Mutexes are treated one at a time (`MutexInv`), as a step touches
at most one. `ControlInv` combines mask, nesting and switched-out threads, as none
of them is inductive alone: what an activation returns to, and hence the mask, is
known only from the nesting of the frames below it. `NoLostWakeup` then follows
with `ControlInv`: the one step that puts a thread to sleep, `SuspendReturn`, is
taken in a masked section after a round in which no event was found, and
`StacksNested` says that the thread's `block-events?` is not `#t` there.

*Events and exits.* `EventsInv` says of every thread that what was sent to it is what it
ran followed by the closures of its ring, and that the ring is a single `#f` or holds closures only.
`JoinInv` adds to `JoinsPaired` that a release has its caller on the processor, masked,
while signals are left to send; `LeaveInv` says what a thread has let go of at each
stage of its exit. For `SleepersQueued`, `StackStep` lists all that a step can do to a stack;
`FramesInv` says that every `lock` activation is queued or owner and that no inner `suspend` is
without an event it has run, and `SleepInv` that a thread which was given the mutex has run
an event or has one pending, so that it will not fall asleep on it.

*Queues and condition variables.* The inductive invariant says for
a wait for a mutex that a thread in it is in the queue, or owns the mutex and has a
token (`LockInv`; `QueueInv` and `GrantInv`). Only with this can a wake-up spent on
the mutex be told from one that is lost. `Condvar`'s invariant adds at which
statements a thread owns which mutex (`Place`) and where the threads on the list are
(`ListInv`). `StepOf` reduces the invariant of all threads to what a step does to its own
thread and to the list, so that each action is argued about locally. `QueueLemmas`
holds the facts about sequences: the elements of a queue after an append, a removal
at the head and a removal in the middle, which no longer contains the element.

*The chain of a queue.* `ChainInv` says that some sequence of `count` different pairs
leads from `first` to `last` along the cdrs, with items in the cars, and that all other
pairs are unused. There is at most one such sequence (`OneChain`, by the least
index at which two would differ), so that the items read off the fields are
those of any sequence one can name. For each way of changing the fields
(`AddLastStep`, `TakeFirstStep`, `AddFirstStep`, `ClobberStep`) such a sequence is named
after the step, which gives both `ChainInv'` and what the items become: one appended, the
tail, one in front, one in front with the last one dropped. `QueueRefines` follows
operation by operation (`OperationRefines`), with `NobodyDead`, since the signal to a
dead thread would end an operation half-way, and with at least two pairs in a full
queue that is pushed to.

*Tasks.* `TasksInv` joins the places of tasks with the fields (`BaseInv`: `PlaceInv`,
`AddInv`, `WaitInv`, `WorkInv`), the accounts of groups, the two kinds of lost wake-ups and
the reach of cancellation (`ChildInv`). A child is pending in its group exactly from its
registration, which happens while the group is held, to its finish hook; a sleeper is
registered with what it waits for, or has a token, or somebody is on the way to wake it
(the `wake` of a finishing task, the `work` of a cancelling one).

*Subprocesses.* `TableInv` ties the place of the machine to the stack of recorded
actions (`StackInv`: at each place the stack is one of four, and the mask and the
terminal are what the stack would restore), to the primitive (`OpInv`), to the slot in
hand (`HandInv`), to the owners of slots (`OwnInv`: a slot with a number is owned by one object,
or by the primitive that makes it or gives it up) and to what `waitpid` still has to
report (`NewsInv`). It needs no assumption on numbers. The rest, `StatusInv`, does: a number is that of one living child
and one slot (`PidInv`); a child has been reaped exactly if its slot says so (`DeathInv`); a
slot, its object and its registrations differ only while a tick, a poll or a
notification is under way (`SyncInv`, `WaitInv`). `SleepCorrect` is the case of these at
`ppoll`, which the machine enters, signals blocked, only after it has compared the ticks.

*Only model-checked.* All liveness, as the provers have no reasoning about fairness:
`LockGranted`, `EventDelivered`, `TakersServed`, `AddersServed`, `TimedReturns`, `Opens`,
`SignalEnds`, `WaitsEnd`, `WaitReturns`. The counts of the barrier
(`GenerationsSound`). `Environments` and `GarbageCollector`, whose operators are folds
and walks over lists: what a recursive definition computes for every input needs an induction
over data that the provers cannot instantiate.

## Not modelled

The I/O registry (`thread.scm` 563-869: dentries, tentries and the select registry) and
the sorted list of timer records (1022-1121); `dynamic-wind` and state points; event
distributors; the condition system; finalizers, hash tables and trees; bands; packages and boot;
libraries; the foreign-function interface. These are sequential, or their hazards
are noted in `PROJECT.json`. The evaluator, the compiler, numbers and text, the editor
and the other applications are translations over large data, which small instances say little
about.
