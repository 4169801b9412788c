------------------------- MODULE SubprocessesProofs -------------------------
(***************************************************************************)
(* Proofs about Subprocesses: that the primitives undo what they did, and  *)
(* that every slot of the table has its owner.                             *)
(***************************************************************************)
EXTENDS Subprocesses, SequenceTheorems, TLAPS

\* Zenon finds most of the steps; those that need more are marked SMT.
USE Zenon

-----------------------------------------------------------------------------
(* The machine, and the transaction it is in                               *)

Quick == {"sync", "sync-all", "KILL", "TSTP", "continue", "continue-foreground"}

Blocking == {"fork", "record", "give", "sync", "sync-all", "check", "kill"}
Continuing == {"continue", "wait", "suspend"}
Ending == {"commit", "unwind"}
Aborting == {"abort", "abort-kill"}
Freeing == {"deallocate", "free"}
Resting == {"run", "select", "ppoll", "selected", "poll"}
Between == {"new", "polled", "loop", "delete", "handle"}

Place == {"block"} \cup Blocking \cup Continuing \cup Ending \cup Aborting \cup Freeing
           \cup Resting \cup Between

Primitive == Makes \cup Quick \cup {"none"}

MachineType ==
  m \in [at : Place, op : Primitive, t : Thread \cup {None},
         c : Child \cup {None}, s : Slot \cup {None},
         next : {"run", "new", "polled", "handle", "loop"},
         then : {"run", "poll", "delete", "loop"}, todo : SUBSET Child, changed : BOOLEAN]

ObjectType ==
  /\ regs \subseteq [c : Child, thread : Thread, status : Alive \cup Dead]
  /\ \A r \in regs : known[r.c] # None
  /\ waits \in [Thread -> Child \cup {None, "io"}]
  /\ result \in [Thread -> Alive \cup Dead \cup {None}]
  /\ loops \in [Thread -> Child \cup {None}]

\* The recorded actions that the stack may hold: of the allocation of a slot, of the
\* blocked signals, and of the terminal.
Undo(s) == Action("abort", "process_allocate_abort", s)
Mask == Action("always", "restore_signal_mask", FALSE)
Terminal == Action("always", "get_terminal_back", None)

Making == m.op \in Makes

Bare == dstack = IF Making THEN <<Undo(m.s)>> ELSE << >>
Masked == dstack = IF Making THEN <<Mask, Undo(m.s)>> ELSE <<Mask>>
Given == dstack = IF Making THEN <<Terminal, Mask, Undo(m.s)>> ELSE <<Terminal, Mask>>

\* What is recorded, and that it is what has to be undone.
StackInv ==
  /\ m.at \in Blocking => Masked
  /\ m.at \in Continuing => Masked \/ Given
  /\ m.at \in Ending => (Bare /\ Making) \/ Masked \/ Given
  /\ m.at \in Aborting \cup {"block"} => Bare
  /\ m.at \in Resting \cup Between => dstack = << >>
  /\ masked <=> m.at \in Blocking \cup Continuing \cup Ending /\ (Masked \/ Given)
  /\ foreground # None => m.at \in Continuing \cup Ending /\ Given
  /\ foreground = None => tty = OurTerminal

\* The primitive that the machine is in, and where it returns.
NextOf(op) ==
  IF op \in Makes THEN "new" ELSE IF op = "sync" THEN "polled" ELSE
  IF op = "sync-all" THEN "handle" ELSE IF op = "continue-foreground" THEN "loop" ELSE "run"

OpInv ==
  /\ m.at \in Resting <=> m.op = "none"
  /\ m.at \in {"fork", "record", "new"} \cup Aborting => Making
  /\ m.at \in {"give", "wait", "suspend"} => m.op \in {"foreground", "continue-foreground"}
  /\ m.at = "continue" => m.op \in {"foreground", "continue", "continue-foreground"}
  /\ m.at \in {"check", "kill"} => m.op \in {"KILL", "TSTP"}
  /\ m.at \in {"sync", "polled", "delete"} => m.op = "sync"
  /\ m.at \in {"sync-all", "handle"} => m.op = "sync-all"
  /\ m.at = "loop" => m.op = "continue-foreground" \/ (m.op = "sync" /\ m.then = "loop")
  /\ m.op = "continue-foreground" \/ (m.op = "sync" /\ m.then = "loop") => m.t \in Thread
  /\ m.at \in Freeing => Making \/ m.op = "sync"
  /\ m.at = "unwind" => m.next = "run" /\ m.op \notin {"sync", "sync-all"}
  /\ m.at \in {"block", "commit"} \cup Blocking \cup Continuing => m.next = NextOf(m.op)

-----------------------------------------------------------------------------
(* The slots and the children                                              *)

\* The slot the machine has in its hands, being made or given up.
InHand == Making \/ m.at \in Freeing

Owns(c, s) == \/ index[c] = s
              \/ s = m.s /\ c = m.c /\ id[s] # None /\ InHand

Living(c) == child[c] \in Alive \cup Dead
Reported(s) == raw[s] \in Alive \cup Dead

HandInv ==
  /\ InHand => /\ m.s \in Slot
               /\ \A c \in Child : index[c] # m.s
               /\ m.c \in Child => index[m.c] = None
               /\ Making /\ m.c \in Child => known[m.c] = None
  /\ Making => m.t \in Thread
  /\ Making /\ m.at \in {"block", "fork", "record"} => raw[m.s] = "allocated"
  /\ m.at = "record" => m.c \in Child /\ Living(m.c)
  /\ Making /\ m.at \in {"give", "commit", "new"} \cup Continuing => id[m.s] # None
  /\ m.at = "free" => id[m.s] = None
  /\ m.op \in Quick \ {"sync-all"} /\ ~InHand =>
       m.c \in Child /\ m.s \in Slot /\ index[m.c] = m.s
  /\ m.op \in {"none", "sync-all"} => m.c = None
  /\ m.op = "sync" => m.c \notin m.todo
  /\ \A c \in m.todo : index[c] # None

OwnInv ==
  /\ \A c \in Child, s \in Slot : Owns(c, s) =>
       id[s] = pid[c] /\ id[s] # None /\ child[c] # "unborn" /\ Reported(s)
  /\ \A s \in Slot : id[s] # None => \E c \in Child : Owns(c, s)
  /\ \A s \in Slot : id[s] = None /\ raw[s] # "free" =>
       s = m.s /\ (m.at = "free" \/ (Making /\ raw[s] = "allocated"))
  /\ \A c, d \in Child : index[c] = index[d] /\ index[c] # None => c = d
  /\ \A c \in Child : child[c] = "unborn" <=> pid[c] = None
  /\ \A c \in Child : child[c] = "unborn" => index[c] = None /\ known[c] = None
  /\ \A c \in Child : index[c] # None => known[c] # None
  /\ \A s \in Slot : id[s] # None => status[s] # "free"

\* What waitpid has not reported yet.
NewsInv ==
  /\ \A c \in Child : child[c] \in Dead => c \in news
  /\ \A c \in news : child[c] \in {"stopped"} \cup Dead
  /\ news # {} => pending

\* The inductive invariant
TableInv == /\ TypeOK /\ MachineType /\ ObjectType /\ StackInv
            /\ OpInv /\ HandInv /\ OwnInv /\ NewsInv

-----------------------------------------------------------------------------
(* What the steps with several outcomes do to the machine                  *)

\* The longest sequence that the stack may be.
LEMMA Longest ==
  ASSUME NEW a, NEW b, NEW c
  PROVE  <<a>> \o <<b, c>> = <<a, b, c>>
<1> DEFINE S == {a, b, c}
           p == <<a>> \o <<b, c>>
           q == <<a, b, c>>
<1>1. <<a>> \in Seq(S) /\ <<b, c>> \in Seq(S) /\ <<a, b, c>> \in Seq(S)
  BY SMT
<1> HIDE DEF S
<1>2. p \in Seq(S) /\ q \in Seq(S) /\ Len(p) = 3 /\ Len(q) = 3
  BY <1>1, SMT
<1>3. p[1] = q[1] /\ p[2] = q[2] /\ p[3] = q[3]
  BY <1>1, SMT
<1> HIDE DEF p, q
<1>4. \A i \in 1 .. Len(p) : p[i] = q[i]
  BY <1>2, <1>3, SMT
<1>5. p = q
  BY <1>2, <1>4, SeqEqual
<1>6. QED BY <1>5 DEF p, q

\* The sequences that the stack may be.
LEMMA Stacks ==
  ASSUME NEW a, NEW b, NEW c
  PROVE  /\ <<a>> \o << >> = <<a>> /\ <<a>> \o <<b>> = <<a, b>>
         /\ <<a>> \o <<b, c>> = <<a, b, c>>
         /\ Head(<<a>>) = a /\ Head(<<a, b>>) = a /\ Head(<<a, b, c>>) = a
         /\ Tail(<<a>>) = << >> /\ Tail(<<a, b>>) = <<b>> /\ Tail(<<a, b, c>>) = <<b, c>>
         /\ Len(<<a>>) = 1 /\ Len(<<a, b>>) = 2 /\ Len(<<a, b, c>>) = 3
<1> DEFINE S == {a, b, c}
<1>1. /\ <<a>> \in Seq(S) /\ <<b>> \in Seq(S) /\ <<b, c>> \in Seq(S)
      /\ <<a, b>> \in Seq(S) /\ <<a, b, c>> \in Seq(S)
  BY SMT
<1>2. ASSUME NEW p \in Seq(S), NEW q \in Seq(S), Len(p) = Len(q),
             \A i \in 1 .. Len(p) : p[i] = q[i]
      PROVE  p = q
  BY <1>2, SeqEqual
<1> HIDE DEF S
<1>3. <<a>> \o <<b>> = <<a, b>>
  <2> DEFINE p == <<a>> \o <<b>>
             q == <<a, b>>
  <2>1. p \in Seq(S) /\ q \in Seq(S) /\ Len(p) = 2 /\ Len(q) = 2
    BY <1>1, SMT
  <2>2. p[1] = q[1] /\ p[2] = q[2]
    BY <1>1, SMT
  <2> HIDE DEF p, q
  <2>3. \A i \in 1 .. Len(p) : p[i] = q[i]
    BY <2>1, <2>2, SMT
  <2>4. p = q
    BY <2>1, <2>3, <1>2
  <2>5. QED BY <2>4 DEF p, q
<1>4. <<a>> \o <<b, c>> = <<a, b, c>>
  BY Longest
<1>5. <<a>> \o << >> = <<a>>
  BY SMT
<1>6. Head(<<a>>) = a /\ Head(<<a, b>>) = a /\ Head(<<a, b, c>>) = a
  BY SMT
<1>7. Tail(<<a>>) = << >> /\ Tail(<<a, b>>) = <<b>>
  BY SMT
<1>8. Tail(<<a, b, c>>) = <<b, c>>
  BY SMT
<1>9. Len(<<a>>) = 1 /\ Len(<<a, b>>) = 2 /\ Len(<<a, b, c>>) = 3
  BY SMT
<1>10. QED BY <1>3, <1>4, <1>5, <1>6, <1>7, <1>8, <1>9

\* What the recorded actions are.
LEMMA Actions ==
  ASSUME NEW s
  PROVE  /\ Undo(s).type = "abort" /\ Undo(s).procedure = "process_allocate_abort"
         /\ Mask.type = "always" /\ Mask.procedure = "restore_signal_mask"
         /\ Mask.environment = FALSE
         /\ Terminal.type = "always" /\ Terminal.procedure = "get_terminal_back"
BY DEF Undo, Mask, Terminal, Action

\* OS_process_send_signal, up to the signal.
LEMMA CheckStep ==
  ASSUME Check
  PROVE  /\ m.at = "check"
         /\ \/ raw[m.s] \in Alive /\ m' = [m EXCEPT !.at = "kill"]
            \/ m' = [m EXCEPT !.at = "unwind", !.next = "run"]
         /\ UNCHANGED <<kernel, pending, tty, foreground, table, unsynced, masked, dstack,
                        interrupt, objects>>
BY DEF Check, ErrorOut, Goto, At, Quiet

\* The signal.
LEMMA SendStep ==
  ASSUME NEW f \in BOOLEAN, Send(f)
  PROVE  /\ m.at = "kill"
         /\ \/ m' = [m EXCEPT !.at = "commit"]
            \/ m' = [m EXCEPT !.at = "unwind", !.next = "run"]
         /\ UNCHANGED <<kernel, pending>> \/ Kill(id[m.s], m.op)
         /\ UNCHANGED <<tty, foreground, table, unsynced, masked, dstack, interrupt, objects>>
BY DEF Send, ErrorOut, Goto, At

\* give_terminal_to
LEMMA GiveStep ==
  ASSUME NEW o \in {"background", "given", "fails"}, Give(o)
  PROVE  /\ m.at = "give"
         /\ \/ m' = [m EXCEPT !.at = "continue"] /\ UNCHANGED <<dstack, tty, foreground>>
            \/ /\ \/ m' = [m EXCEPT !.at = "continue"]
                  \/ m' = [m EXCEPT !.at = "unwind", !.next = "run"]
               /\ dstack' = <<Terminal>> \o dstack /\ foreground' = m.s
         /\ UNCHANGED <<kernel, pending, table, unsynced, masked, interrupt, objects>>
BY DEF Give, ErrorOut, Goto, At, Terminal

\* OS_process_continue_background and OS_process_continue_foreground
LEMMA ContinueStep ==
  ASSUME NEW f \in BOOLEAN, ContinueStopped(f)
  PROVE  /\ m.at = "continue"
         /\ \/ m.op = "continue" /\ m' = [m EXCEPT !.at = "commit"]
            \/ m.op # "continue" /\ m' = [m EXCEPT !.at = "wait"]
            \/ m' = [m EXCEPT !.at = "unwind", !.next = "run"]
         /\ \/ UNCHANGED <<kernel, pending, table, unsynced>>
            \/ /\ raw[m.s] = "stopped" /\ NewRawStatus([s \in {m.s} |-> "running"])
               /\ UNCHANGED <<kernel, pending>> \/ KillCont(id[m.s])
         /\ UNCHANGED <<id, status, jc>>
         /\ UNCHANGED <<tty, foreground, masked, dstack, interrupt, objects>>
BY DEF ContinueStopped, ErrorOut, Goto, At, NewRawStatus, table

\* poll-subprocess-status, at its end
LEMMA PolledStep ==
  ASSUME MachineType, Polled
  PROVE  /\ m.at = "polled"
         /\ \/ /\ m.then \in {"run", "poll"}
               /\ m' = [AtRest EXCEPT !.at = m.then, !.todo = m.todo]
            \/ m.then \in {"loop", "delete"} /\ m' = [m EXCEPT !.at = m.then]
         /\ known' = [known EXCEPT ![m.c] = IF m.changed THEN status[m.s] ELSE @]
         /\ UNCHANGED <<UCode, index, regs, waits, result, loops>>
<1>1. m.then \in {"run", "poll", "delete", "loop"}
  BY DEF MachineType
<1>2. QED BY <1>1 DEF Polled, At

\* OS_test_select_registry, at its end
LEMMA SelectedStep ==
  ASSUME Selected
  PROVE  /\ m.at = "selected"
         /\ \/ unsynced /\ m' = [m EXCEPT !.at = "block", !.op = "sync-all", !.c = None,
                                          !.next = "handle"]
            \/ ~unsynced /\ m' = AtRest
         /\ UNCHANGED <<kernel, pending, tty, table, unsynced, masked, dstack, foreground, objects>>
<1>1. CASE unsynced
  <2>1. m' = [m EXCEPT !.at = "block", !.op = "sync-all", !.c = None, !.next = "handle", !.s = @]
    BY <1>1, SMT DEF Selected, Call
  <2>2. QED BY <1>1, <2>1 DEF Selected, At
<1>2. CASE ~unsynced
  BY <1>2 DEF Selected, At
<1>3. QED BY <1>1, <1>2

\* subprocess-continue-foreground: one turn of its loop
LEMMA AgainStep ==
  ASSUME NEW t \in Thread, Again(t)
  PROVE  /\ m.at = "run" /\ loops[t] # None
         /\ \/ m' = m
            \/ /\ index[loops[t]] # None /\ raw[index[loops[t]]] \in Alive
               /\ loops' = loops
               /\ m' = [m EXCEPT !.at = "block", !.op = "continue-foreground", !.t = t,
                                 !.c = loops[t], !.s = index[loops[t]], !.next = "loop"]
         /\ UNCHANGED <<UCode, subs, regs, waits, result>>
BY DEF Again, At

\* The primitive returns.
Returns == m' = IF m.next = "run" THEN AtRest ELSE [m EXCEPT !.at = m.next]

\* dstack_set_position: one protector.  The terminal is taken back, then the signals
\* are unblocked; then the slot is kept by a commit and given up after an error.
LEMMA UnwindStep ==
  ASSUME StackInv, Unwind
  PROVE  /\ m.at \in Ending
         /\ UNCHANGED <<kernel, pending, table, unsynced, interrupt, objects>>
         /\ \/ /\ Given /\ m' = m /\ Masked' /\ masked' = masked
               /\ foreground' = None /\ (foreground = None => tty' = tty)
               /\ foreground # None => tty' = OurTerminal
            \/ /\ Masked /\ Making /\ m' = m /\ Bare' /\ masked' = FALSE
               /\ UNCHANGED <<tty, foreground>>
            \/ /\ Masked /\ ~Making /\ Returns /\ dstack' = << >> /\ masked' = FALSE
               /\ UNCHANGED <<tty, foreground>>
            \/ /\ Bare /\ Making /\ At("commit") /\ Returns /\ dstack' = << >>
               /\ UNCHANGED <<masked, tty, foreground>>
            \/ /\ Bare /\ Making /\ At("unwind") /\ Goto("abort")
               /\ UNCHANGED <<dstack, masked, tty, foreground>>
<1>1. /\ m.at \in {"commit", "unwind"}
      /\ UNCHANGED <<kernel, pending, table, unsynced, interrupt, objects>>
  BY DEF Unwind, At, Quiet
<1> DEFINE top == Head(dstack)
           Drop == /\ dstack' = Tail(dstack)
                   /\ masked' = IF Runs(top) /\ top.procedure = "restore_signal_mask"
                                THEN top.environment ELSE masked
                   /\ IF Runs(top) /\ top.procedure = "get_terminal_back"
                      THEN GetTerminalBack ELSE UNCHANGED <<tty, foreground>>
                   /\ IF Len(dstack) = 1 THEN Returns ELSE UNCHANGED m
<1>2. ~(Runs(top) /\ top.procedure = "process_allocate_abort") => Drop
  BY DEF Unwind, Return, Returns
<1>3. Runs(top) /\ top.procedure = "process_allocate_abort" =>
        Goto("abort") /\ UNCHANGED <<dstack, masked, tty, foreground>>
  BY DEF Unwind, Quiet
<1>4. CASE Given
  <2>1. top = Terminal /\ Tail(dstack) = IF Making THEN <<Mask, Undo(m.s)>> ELSE <<Mask>>
    <3>1. CASE Making
      <4>1. dstack = <<Terminal, Mask, Undo(m.s)>>
        BY <1>4, <3>1 DEF Given
      <4>2. Head(dstack) = Terminal /\ Tail(dstack) = <<Mask, Undo(m.s)>>
        BY <4>1, Stacks, SMT
      <4>3. QED BY <3>1, <4>2
    <3>2. CASE ~Making
      BY <1>4, <3>2, Stacks DEF Given
    <3>3. QED BY <3>1, <3>2
  <2>l. Len(dstack) # 1
    <3>1. Len(dstack) = 2 \/ Len(dstack) = 3
      BY <1>4, Stacks DEF Given
    <3>2. QED BY <3>1, SMT
  <2>2. Runs(top) /\ top.procedure = "get_terminal_back"
    BY <1>1, <2>1, Actions DEF Runs, At
  <2>3. m' = m /\ dstack' = Tail(dstack) /\ masked' = masked /\ GetTerminalBack
    BY <1>2, <2>l, <2>2
  <2>4. Masked'
    BY <2>1, <2>3 DEF Masked, Making
  <2>5. QED BY <1>1, <1>4, <2>3, <2>4 DEF GetTerminalBack, Ending
<1>5. CASE Masked
  <2>1. top = Mask /\ Tail(dstack) = IF Making THEN <<Undo(m.s)>> ELSE << >>
    BY <1>5, Stacks DEF Masked
  <2>2. Runs(top) /\ top.procedure = "restore_signal_mask" /\ top.environment = FALSE
    BY <1>1, <2>1, Actions DEF Runs, At
  <2>3. /\ dstack' = Tail(dstack) /\ masked' = FALSE /\ UNCHANGED <<tty, foreground>>
        /\ IF Len(dstack) = 1 THEN Returns ELSE UNCHANGED m
    BY <1>2, <2>2
  <2>4. CASE Making
    <3>1. Len(dstack) # 1
      <4>1. Len(dstack) = 2
        BY <1>5, <2>4, Stacks DEF Masked
      <4>2. QED BY <4>1, SMT
    <3>2. m' = m /\ Bare'
      BY <2>1, <2>3, <2>4, <3>1 DEF Bare, Making
    <3>3. QED BY <1>1, <1>5, <2>3, <2>4, <3>2 DEF Ending
  <2>5. CASE ~Making
    <3>1. Len(dstack) = 1
      BY <1>5, <2>5, Stacks DEF Masked
    <3>2. QED BY <1>1, <1>5, <2>1, <2>3, <2>5, <3>1 DEF Ending
  <2>6. QED BY <2>4, <2>5
<1>6. CASE Bare /\ Making
  <2>1. top = Undo(m.s) /\ Tail(dstack) = << >> /\ Len(dstack) = 1
    BY <1>6, Stacks DEF Bare
  <2>2. top.type = "abort" /\ top.procedure = "process_allocate_abort"
    BY <2>1, Actions
  <2>3. CASE m.at = "commit"
    <3>1. ~Runs(top)
      BY <2>2, <2>3 DEF Runs, At
    <3>2. QED BY <1>1, <1>2, <1>6, <2>1, <2>3, <3>1 DEF Ending, At
  <2>4. CASE m.at = "unwind"
    <3>1. Runs(top)
      BY <2>2, <2>4 DEF Runs, At
    <3>2. QED BY <1>1, <1>3, <1>6, <2>2, <2>4, <3>1 DEF Ending, At
  <2>5. QED BY <1>1, <2>3, <2>4
<1>7. QED BY <1>1, <1>4, <1>5, <1>6 DEF StackInv, Ending

\* The machine goes to another place, and what else it holds stays.
To(p) ==
  /\ m'.at = p /\ m'.op = m.op /\ m'.t = m.t /\ m'.c = m.c /\ m'.s = m.s
  /\ m'.next = m.next /\ m'.then = m.then /\ m'.todo = m.todo /\ m'.changed = m.changed

\* It does so by this assignment.
LEMMA Goes ==
  ASSUME MachineType, NEW p, Goto(p)
  PROVE  To(p)
BY DEF Goto, To, MachineType

\* The machine comes to rest.
Rest ==
  /\ m'.at = "run" /\ m'.op = "none" /\ m'.t = None /\ m'.c = None /\ m'.s = None
  /\ m'.next = "run" /\ m'.then = "run" /\ m'.todo = {} /\ m'.changed = FALSE

\* It does so by this assignment.
LEMMA Rests ==
  ASSUME m' = AtRest
  PROVE  Rest
BY DEF AtRest, Rest

\* An error leaves the primitive, its child and its slot.
LEMMA Errs ==
  ASSUME MachineType, ErrorOut
  PROVE  /\ m'.at = "unwind" /\ m'.next = "run" /\ m'.op = m.op /\ m'.t = m.t /\ m'.c = m.c
         /\ m'.s = m.s
BY DEF ErrorOut, MachineType

\* Where the machine is agrees with the primitive it is in.
LEMMA OpNext ==
  ASSUME TableInv, Next
  PROVE  OpInv'
<1> USE DEF kernel, table, objects, subs, TableInv, MachineType, OpInv, Making, NextOf,
            Resting, Aborting, Freeing, Blocking, Continuing, Between, Ending, Place, Quick
<1>1. ASSUME NEW c \in Child, Exit(c) PROVE OpInv'
  BY <1>1, SubprocessAssumption, SMT DEF Exit, Changed
<1>2. ASSUME NEW c \in Child, Stop(c) PROVE OpInv'
  BY <1>2, SubprocessAssumption, SMT DEF Stop, Changed
<1>3. ASSUME Interrupt PROVE OpInv'
  BY <1>3, SubprocessAssumption, SMT DEF Interrupt, Woken, Goto, At
<1>4. ASSUME StopSignal PROVE OpInv'
  BY <1>4, SubprocessAssumption, SMT DEF StopSignal, GetTerminalBack, Woken, Goto, At
<1>5. ASSUME NEW t \in Waiter, NEW c \in Child, WaitFor(t, c) PROVE OpInv'
  BY <1>5, SubprocessAssumption, SMT DEF WaitFor, Running, At, UCode
<1>6. ASSUME NEW t \in Thread \ Waiter, NEW kind \in Makes, Make(t, kind) PROVE OpInv'
  BY <1>6, SubprocessAssumption, SMT DEF Make, Running, At, Quiet
<1>7. ASSUME NEW t \in Thread \ Waiter, Read(t) PROVE OpInv'
  BY <1>7, SubprocessAssumption, SMT DEF Read, Running, At, UCode
<1>8. ASSUME NEW t \in Thread \ Waiter, NEW c \in Child, Delete(t, c) PROVE OpInv'
  BY <1>8, SubprocessAssumption, SMT DEF Delete, Running, At, Valid, Poll, UCode
<1>9. ASSUME NEW t \in Thread \ Waiter, NEW c \in Child, NEW op \in {"KILL", "TSTP",
             "continue"}, Signal(t, c, op)
      PROVE  OpInv'
  BY <1>9, SubprocessAssumption, SMT DEF Signal, Running, At, Valid, Call, UCode
<1>10. ASSUME NEW t \in Thread \ Waiter, NEW c \in Child, Foreground(t, c) PROVE OpInv'
  BY <1>10, SubprocessAssumption, SMT DEF Foreground, Running, At, Valid, UCode
<1>11. ASSUME Block PROVE OpInv'
  <2>1. m.at = "block" /\ m' = [m EXCEPT !.at = AfterBlock(m.op)]
    BY <1>11 DEF Block, At, Goto
  <2>2. CASE m.op \in Makes
    <3>1. m' = [m EXCEPT !.at = "fork"]
      BY <2>1, <2>2 DEF AfterBlock
    <3>2. QED BY <2>1, <2>2, <3>1, SubprocessAssumption, SMT
  <2>3. CASE m.op \in {"KILL", "TSTP"}
    <3>1. m' = [m EXCEPT !.at = "check"]
      BY <2>1, <2>3, SubprocessAssumption, SMT DEF AfterBlock
    <3>2. QED BY <2>1, <2>3, <3>1, SubprocessAssumption, SMT
  <2>4. CASE m.op = "continue-foreground"
    <3>1. m' = [m EXCEPT !.at = "give"]
      BY <2>1, <2>4, SubprocessAssumption, SMT DEF AfterBlock
    <3>2. QED BY <2>1, <2>4, <3>1, SubprocessAssumption, SMT
  <2>5. CASE m.op \in {"sync", "sync-all", "continue"}
    <3>1. m' = [m EXCEPT !.at = m.op]
      BY <2>1, <2>5, SubprocessAssumption, SMT DEF AfterBlock
    <3>2. CASE m.op = "sync"
      BY <2>1, <3>1, <3>2, SubprocessAssumption, SMT
    <3>3. CASE m.op = "sync-all"
      BY <2>1, <3>1, <3>3, SubprocessAssumption, SMT
    <3>4. CASE m.op = "continue"
      BY <2>1, <3>1, <3>4, SubprocessAssumption, SMT
    <3>5. QED BY <2>5, <3>2, <3>3, <3>4
  <2>6. m.op \in Makes \cup Quick
    BY <2>1, SMT DEF Primitive
  <2>7. QED BY <2>2, <2>3, <2>4, <2>5, <2>6
<1>12. ASSUME NEW c \in Child, Fork(c) PROVE OpInv'
  BY <1>12, SubprocessAssumption, SMT DEF Fork, At, FreePids
<1>13. ASSUME ForkFails PROVE OpInv'
  BY <1>13, SubprocessAssumption, SMT DEF ForkFails, ErrorOut, At, Quiet
<1>14. ASSUME Record PROVE OpInv'
  BY <1>14, SubprocessAssumption, SMT DEF Record, Goto, At, Quiet
<1>15. ASSUME Wait PROVE OpInv'
  BY <1>15, SubprocessAssumption, SMT DEF Wait, Goto, At, Quiet
<1>16. ASSUME Sync PROVE OpInv'
  BY <1>16, SubprocessAssumption, SMT DEF Sync, At, Quiet
<1>17. ASSUME SyncAll PROVE OpInv'
  BY <1>17, SubprocessAssumption, SMT DEF SyncAll, At, Quiet
<1>18. ASSUME Check PROVE OpInv'
  <2>1. CASE raw[m.s] \in Alive /\ m' = [m EXCEPT !.at = "kill"]
    BY <1>18, <2>1, CheckStep, SubprocessAssumption, SMT
  <2>2. CASE m' = [m EXCEPT !.at = "unwind", !.next = "run"]
    BY <1>18, <2>2, CheckStep, SubprocessAssumption, SMT
  <2>3. QED BY <1>18, CheckStep, <2>1, <2>2
<1>19. ASSUME NEW o \in {"background", "given", "fails"}, Give(o) PROVE OpInv'
  <2>1. CASE m' = [m EXCEPT !.at = "continue"]
    BY <1>19, <2>1, GiveStep, SubprocessAssumption, SMT
  <2>2. CASE m' = [m EXCEPT !.at = "unwind", !.next = "run"]
    BY <1>19, <2>2, GiveStep, SubprocessAssumption, SMT
  <2>3. QED BY <1>19, GiveStep, <2>1, <2>2
<1>20. ASSUME NEW f \in BOOLEAN, ContinueStopped(f) PROVE OpInv'
  <2>1. CASE m.op = "continue" /\ m' = [m EXCEPT !.at = "commit"]
    BY <1>20, <2>1, ContinueStep, SubprocessAssumption, SMT
  <2>2. CASE m.op # "continue" /\ m' = [m EXCEPT !.at = "wait"]
    BY <1>20, <2>2, ContinueStep, SubprocessAssumption, SMT
  <2>3. CASE m' = [m EXCEPT !.at = "unwind", !.next = "run"]
    BY <1>20, <2>3, ContinueStep, SubprocessAssumption, SMT
  <2>4. QED BY <1>20, ContinueStep, <2>1, <2>2, <2>3
<1>21. ASSUME NEW f \in BOOLEAN, Send(f) PROVE OpInv'
  <2>1. CASE m' = [m EXCEPT !.at = "commit"]
    BY <1>21, <2>1, SendStep, SubprocessAssumption, SMT
  <2>2. CASE m' = [m EXCEPT !.at = "unwind", !.next = "run"]
    BY <1>21, <2>2, SendStep, SubprocessAssumption, SMT
  <2>3. QED BY <1>21, SendStep, <2>1, <2>2
<1>22. ASSUME Unwind PROVE OpInv'
  <2>1. CASE Given /\ m' = m
    BY <1>22, <2>1, UnwindStep, SubprocessAssumption, SMT DEF Returns, AtRest, At, Goto
  <2>2. CASE Masked /\ Making /\ m' = m
    BY <1>22, <2>2, UnwindStep, SubprocessAssumption, SMT DEF Returns, AtRest, At, Goto
  <2>3. CASE Masked /\ ~Making /\ Returns
    BY <1>22, <2>3, UnwindStep, SubprocessAssumption, SMT DEF Returns, AtRest, At, Goto
  <2>4. CASE Bare /\ Making /\ At("commit") /\ Returns
    BY <1>22, <2>4, UnwindStep, SubprocessAssumption, SMT DEF Returns, AtRest, At, Goto
  <2>5. CASE Bare /\ Making /\ At("unwind") /\ Goto("abort")
    BY <1>22, <2>5, UnwindStep, SubprocessAssumption, SMT DEF Returns, AtRest, At, Goto
  <2>6. QED BY <1>22, UnwindStep, <2>1, <2>2, <2>3, <2>4, <2>5
<1>23. ASSUME Abort PROVE OpInv'
  BY <1>23, SubprocessAssumption, SMT DEF Abort, Goto, At, Quiet
<1>24. ASSUME AbortKill PROVE OpInv'
  BY <1>24, SubprocessAssumption, SMT DEF AbortKill, Changed, Goto, At
<1>25. ASSUME Deallocate PROVE OpInv'
  BY <1>25, SubprocessAssumption, SMT DEF Deallocate, Goto, At, Quiet
<1>26. ASSUME Free PROVE OpInv'
  BY <1>26, SubprocessAssumption, SMT DEF Free, AtRest, At, Quiet
<1>27. ASSUME New PROVE OpInv'
  BY <1>27, SubprocessAssumption, SMT DEF New, At, UCode, HandInv
<1>28. ASSUME Polled PROVE OpInv'
  <2>1. CASE m.then \in {"run", "poll"} /\ m' = [AtRest EXCEPT !.at = m.then, !.todo = m.todo]
    BY <1>28, <2>1, PolledStep, SubprocessAssumption, SMT DEF AtRest
  <2>2. CASE m.then \in {"loop", "delete"} /\ m' = [m EXCEPT !.at = m.then]
    BY <1>28, <2>2, PolledStep, SubprocessAssumption, SMT DEF AtRest
  <2>3. QED BY <1>28, PolledStep, <2>1, <2>2
<1>29. ASSUME Loop PROVE OpInv'
  BY <1>29, SubprocessAssumption, SMT DEF Loop, AtRest, At, UCode
<1>30. ASSUME Deleted PROVE OpInv'
  BY <1>30, SubprocessAssumption, SMT DEF Deleted, Goto, At, UCode
<1>31. ASSUME Handle PROVE OpInv'
  BY <1>31, SubprocessAssumption, SMT DEF Handle, AtRest, At, Valid, UCode
<1>32. ASSUME NEW c \in Child, PollNext(c) PROVE OpInv'
  BY <1>32, SubprocessAssumption, SMT DEF PollNext, Poll, At, UCode
<1>33. ASSUME Notify PROVE OpInv'
  BY <1>33, SubprocessAssumption, SMT DEF Notify, AtRest, At, UCode
<1>34. ASSUME Idle PROVE OpInv'
  BY <1>34, SubprocessAssumption, SMT DEF Idle, Goto, At, UCode
<1>35. ASSUME Select PROVE OpInv'
  BY <1>35, SubprocessAssumption, SMT DEF Select, Goto, At, UCode
<1>36. ASSUME Selected PROVE OpInv'
  <2>1. CASE /\ unsynced
             /\ m' = [m EXCEPT !.at = "block", !.op = "sync-all", !.c = None, !.next = "handle"]
    BY <1>36, <2>1, SelectedStep, SubprocessAssumption, SMT DEF AtRest
  <2>2. CASE ~unsynced /\ m' = AtRest
    BY <1>36, <2>2, SelectedStep, SubprocessAssumption, SMT DEF AtRest
  <2>3. QED BY <1>36, SelectedStep, <2>1, <2>2
<1>37. ASSUME NEW t \in Thread, Waited(t) PROVE OpInv'
  BY <1>37, SubprocessAssumption, SMT DEF Waited, At, UCode
<1>38. ASSUME NEW t \in Thread, Again(t) PROVE OpInv'
  <2>1. CASE m' = m
    BY <1>38, <2>1, AgainStep, SubprocessAssumption, SMT
  <2>2. CASE /\ m.at = "run" /\ loops[t] # None /\ index[loops[t]] # None /\ loops' = loops
            /\ raw[index[loops[t]]] \in Alive
            /\ m' = [m EXCEPT !.at = "block", !.op = "continue-foreground", !.t = t,
                              !.c = loops[t], !.s = index[loops[t]], !.next = "loop"]
    BY <1>38, <2>2, SubprocessAssumption, SMT
  <2>3. QED BY <1>38, AgainStep, <2>1, <2>2
<1>39. ASSUME Timer PROVE OpInv'
  BY <1>39, SubprocessAssumption, SMT DEF Timer, Goto, At
<1>40. ASSUME Sigchld PROVE OpInv'
  BY <1>40, SubprocessAssumption, SMT DEF Sigchld, SigchldBlocked, Reaped, NewRawStatus,
     Woken, Goto, At
<1>41. ASSUME IoReady PROVE OpInv'
  BY <1>41, SubprocessAssumption, SMT DEF IoReady, AtRest, At, UCode
<1> HIDE DEF kernel, table, objects, subs, TableInv, MachineType, OpInv, Making, NextOf,
             Resting, Aborting, Freeing, Blocking, Continuing, Between, Ending, Place, Quick
<1>42. QED
  BY <1>1, <1>2, <1>3, <1>4, <1>5, <1>6, <1>7, <1>8, <1>9, <1>10, <1>11, <1>12, <1>13, <1>14,
     <1>15, <1>16, <1>17, <1>18, <1>19, <1>20, <1>21, <1>22, <1>23, <1>24, <1>25, <1>26,
     <1>27, <1>28, <1>29, <1>30, <1>31, <1>32, <1>33, <1>34, <1>35, <1>36, <1>37, <1>38,
     <1>39, <1>40, <1>41, SubprocessAssumption
     DEF Next, System, Program, Machine

\* The places and the primitives.
LEMMA Places ==
  /\ "block" \in Place /\ "fork" \in Place /\ "record" \in Place /\ "give" \in Place
  /\ "sync" \in Place /\ "sync-all" \in Place /\ "check" \in Place /\ "kill" \in Place
  /\ "continue" \in Place /\ "wait" \in Place /\ "suspend" \in Place
  /\ "commit" \in Place /\ "unwind" \in Place /\ "abort" \in Place
  /\ "abort-kill" \in Place /\ "deallocate" \in Place /\ "free" \in Place
  /\ "run" \in Place /\ "select" \in Place /\ "ppoll" \in Place
  /\ "selected" \in Place /\ "poll" \in Place /\ "new" \in Place /\ "polled" \in Place
  /\ "loop" \in Place /\ "delete" \in Place /\ "handle" \in Place
BY DEF Place, Blocking, Continuing, Ending, Aborting, Freeing, Resting, Between

\* What the primitives are.
LEMMA Primitives ==
  /\ "none" \in Primitive /\ "sync" \in Primitive /\ "sync-all" \in Primitive
  /\ "KILL" \in Primitive /\ "TSTP" \in Primitive /\ "continue" \in Primitive
  /\ "continue-foreground" \in Primitive
  /\ \A op \in Makes : op \in Primitive
BY DEF Primitive, Quick

\* The machine keeps its type.
LEMMA MachineNext ==
  ASSUME TableInv, Next
  PROVE  MachineType'
<1> USE DEF TableInv, MachineType, kernel
<1>1. ASSUME NEW c \in Child, Exit(c) PROVE MachineType'
  BY <1>1, Places, Primitives, SubprocessAssumption DEF Exit, Changed
<1>2. ASSUME NEW c \in Child, Stop(c) PROVE MachineType'
  BY <1>2, Places, Primitives, SubprocessAssumption DEF Stop, Changed
<1>3. ASSUME Interrupt PROVE MachineType'
  BY <1>3, Places, Primitives, SubprocessAssumption DEF Interrupt, Woken, Goto, At
<1>4. ASSUME StopSignal PROVE MachineType'
  BY <1>4, Places, Primitives, SubprocessAssumption
     DEF StopSignal, GetTerminalBack, Woken, Goto, At
<1>5. ASSUME NEW t \in Waiter, NEW c \in Child, WaitFor(t, c) PROVE MachineType'
  BY <1>5, Places, Primitives, SubprocessAssumption DEF WaitFor, Running, At, UCode
<1>6. ASSUME NEW t \in Thread \ Waiter, NEW kind \in Makes, Make(t, kind) PROVE MachineType'
  <2>1. PICK s \in Slot :
          m' = [m EXCEPT !.at = "block", !.op = kind, !.t = t, !.s = s, !.next = "new"]
    BY <1>6 DEF Make
  <2>2. kind \in Primitive
    BY <1>6, Primitives
  <2>3. QED BY <2>1, <2>2, Places
<1>7. ASSUME NEW t \in Thread \ Waiter, Read(t) PROVE MachineType'
  BY <1>7, Places, Primitives, SubprocessAssumption DEF Read, Running, At, UCode
<1>8. ASSUME NEW t \in Thread \ Waiter, NEW c \in Child, Delete(t, c) PROVE MachineType'
  <2>1. m' = [m EXCEPT !.at = "block", !.op = "sync", !.c = c, !.s = index[c],
                       !.next = "polled", !.then = "delete", !.todo = @ \ {c}]
    BY <1>8 DEF Delete, Poll
  <2>2. index[c] \in Slot \cup {None} /\ m.todo \ {c} \in SUBSET Child
    BY DEF TypeOK
  <2>3. QED BY <2>1, <2>2, Places, Primitives
<1>9. ASSUME NEW t \in Thread \ Waiter, NEW c \in Child, NEW op \in {"KILL", "TSTP",
             "continue"}, Signal(t, c, op)
      PROVE  MachineType'
  <2>1. m' = [m EXCEPT !.at = "block", !.op = op, !.c = c, !.next = "run", !.s = index[c]]
    <3>1. c # None
      BY SubprocessAssumption
    <3>2. QED BY <1>9, <3>1 DEF Signal, Call
  <2>2. index[c] \in Slot \cup {None} /\ op \in Primitive
    BY Primitives DEF TypeOK
  <2>3. QED BY <2>1, <2>2, Places
<1>10. ASSUME NEW t \in Thread \ Waiter, NEW c \in Child, Foreground(t, c) PROVE MachineType'
  BY <1>10, Places, Primitives, SubprocessAssumption DEF Foreground, Running, At, Valid, UCode
<1>11. ASSUME Block PROVE MachineType'
  <2>1. AfterBlock(m.op) \in Place
    BY <1>11, Places DEF AfterBlock, Block, At, OpInv, Resting, Primitive, Quick
  <2>2. QED BY <1>11, <2>1 DEF Block, Goto
<1>12. ASSUME NEW c \in Child, Fork(c) PROVE MachineType'
  BY <1>12, Places, Primitives, SubprocessAssumption DEF Fork, At, FreePids
<1>13. ASSUME ForkFails PROVE MachineType'
  BY <1>13, Places, Primitives, SubprocessAssumption DEF ForkFails, ErrorOut, At, Quiet
<1>14. ASSUME Record PROVE MachineType'
  BY <1>14, Places, Primitives, SubprocessAssumption DEF Record, Goto, At, Quiet
<1>15. ASSUME Wait PROVE MachineType'
  BY <1>15, Places, Primitives, SubprocessAssumption DEF Wait, Goto, At, Quiet
<1>16. ASSUME Sync PROVE MachineType'
  <2>1. changed[m.s] \in BOOLEAN
    BY <1>16 DEF Sync, At, HandInv, InHand, Making, Freeing, OpInv, Quick, TypeOK
  <2>2. QED BY <1>16, <2>1, Places DEF Sync
<1>17. ASSUME SyncAll PROVE MachineType'
  <2>1. unsynced \in BOOLEAN
    BY DEF TypeOK
  <2>2. QED BY <1>17, <2>1, Places DEF SyncAll
<1>18. ASSUME Check PROVE MachineType'
  <2>1. \/ m' = [m EXCEPT !.at = "kill"]
        \/ m' = [m EXCEPT !.at = "unwind", !.next = "run"]
    BY <1>18, CheckStep
  <2>2. QED BY <2>1, Places
<1>19. ASSUME NEW o \in {"background", "given", "fails"}, Give(o) PROVE MachineType'
  <2>1. \/ m' = [m EXCEPT !.at = "continue"]
        \/ m' = [m EXCEPT !.at = "unwind", !.next = "run"]
    BY <1>19, GiveStep
  <2>2. QED BY <2>1, Places
<1>20. ASSUME NEW f \in BOOLEAN, ContinueStopped(f) PROVE MachineType'
  <2>1. \/ m' = [m EXCEPT !.at = "commit"]
        \/ m' = [m EXCEPT !.at = "wait"]
        \/ m' = [m EXCEPT !.at = "unwind", !.next = "run"]
    BY <1>20, ContinueStep
  <2>2. QED BY <2>1, Places
<1>21. ASSUME NEW f \in BOOLEAN, Send(f) PROVE MachineType'
  <2>1. \/ m' = [m EXCEPT !.at = "commit"]
        \/ m' = [m EXCEPT !.at = "unwind", !.next = "run"]
    BY <1>21, SendStep
  <2>2. QED BY <2>1, Places
<1>22. ASSUME Unwind PROVE MachineType'
  <2>1. ASSUME Returns PROVE MachineType'
    <3>1. CASE m.next = "run"
      <4>1. m' = AtRest
        BY <2>1, <3>1 DEF Returns
      <4>2. QED BY <4>1, Places, Primitives DEF AtRest
    <3>2. CASE m.next # "run"
      <4>1. m.next \in {"run", "new", "polled", "handle", "loop"}
        OBVIOUS
      <4>2. m.next \in Place
        BY <4>1, Places
      <4>3. QED BY <2>1, <3>2, <4>2 DEF Returns
    <3>3. QED BY <3>1, <3>2
  <2>2. m' = m \/ Returns \/ Goto("abort")
    BY <1>22, UnwindStep
  <2>3. QED BY <2>1, <2>2, Places DEF Goto
<1>23. ASSUME Abort PROVE MachineType'
  BY <1>23, Places, Primitives, SubprocessAssumption DEF Abort, Goto, At, Quiet
<1>24. ASSUME AbortKill PROVE MachineType'
  BY <1>24, Places, Primitives, SubprocessAssumption DEF AbortKill, Changed, Goto, At
<1>25. ASSUME Deallocate PROVE MachineType'
  BY <1>25, Places, Primitives, SubprocessAssumption DEF Deallocate, Goto, At, Quiet
<1>26. ASSUME Free PROVE MachineType'
  BY <1>26, Places, Primitives, SubprocessAssumption DEF Free, AtRest, At, Quiet
<1>27. ASSUME New PROVE MachineType'
  <2>1. \E k \in {"run", "loop"} :
          m' = [m EXCEPT !.at = "block", !.op = "sync", !.next = "polled", !.then = k]
    <3>1. CASE m.op = "foreground"
      BY <1>27, <3>1 DEF New
    <3>2. CASE m.op # "foreground"
      BY <1>27, <3>2 DEF New
    <3>3. QED BY <3>1, <3>2
  <2>2. QED BY <2>1, Places, Primitives
<1>28. ASSUME Polled PROVE MachineType'
  BY <1>28, Places, Primitives DEF Polled, AtRest
<1>29. ASSUME Loop PROVE MachineType'
  BY <1>29, Places, Primitives, SubprocessAssumption DEF Loop, AtRest, At, UCode
<1>30. ASSUME Deleted PROVE MachineType'
  BY <1>30, Places, Primitives, SubprocessAssumption DEF Deleted, Goto, At, UCode
<1>31. ASSUME Handle PROVE MachineType'
  BY <1>31, Places, Primitives, SubprocessAssumption DEF Handle, AtRest, At, Valid, UCode
<1>32. ASSUME NEW c \in Child, PollNext(c) PROVE MachineType'
  <2>1. m' = [m EXCEPT !.at = "block", !.op = "sync", !.c = c, !.s = index[c],
                       !.next = "polled", !.then = "poll", !.todo = @ \ {c}]
    BY <1>32 DEF PollNext, Poll
  <2>2. index[c] \in Slot \cup {None} /\ m.todo \ {c} \in SUBSET Child
    BY DEF TypeOK
  <2>3. QED BY <2>1, <2>2, Places, Primitives
<1>33. ASSUME Notify PROVE MachineType'
  BY <1>33, Places, Primitives, SubprocessAssumption DEF Notify, AtRest, At, UCode
<1>34. ASSUME Idle PROVE MachineType'
  BY <1>34, Places, Primitives, SubprocessAssumption DEF Idle, Goto, At, UCode
<1>35. ASSUME Select PROVE MachineType'
  BY <1>35, Places, Primitives, SubprocessAssumption DEF Select, Goto, At, UCode
<1>36. ASSUME Selected PROVE MachineType'
  <2>1. CASE m' = AtRest
    BY <2>1, Places, Primitives DEF AtRest
  <2>2. CASE m' # AtRest
    <3>1. m' = [m EXCEPT !.at = "block", !.op = "sync-all", !.c = None, !.next = "handle"]
      BY <1>36, <2>2, SelectedStep
    <3>2. QED BY <3>1, Places, Primitives
  <2>3. QED BY <2>1, <2>2
<1>37. ASSUME NEW t \in Thread, Waited(t) PROVE MachineType'
  BY <1>37, Places, Primitives, SubprocessAssumption DEF Waited, At, UCode
<1>38. ASSUME NEW t \in Thread, Again(t) PROVE MachineType'
  <2>1. /\ loops[t] \in Child \cup {None}
        /\ (loops[t] \in Child => index[loops[t]] \in Slot \cup {None})
    BY DEF TypeOK, ObjectType
  <2>2. CASE m' = m
    BY <2>2
  <2>3. CASE m' # m
    <3>1. m' = [m EXCEPT !.at = "block", !.op = "continue-foreground", !.t = t,
                         !.c = loops[t], !.s = index[loops[t]], !.next = "loop"]
      BY <1>38, <2>3, AgainStep
    <3>2. loops[t] \in Child
      BY <1>38, <2>1, AgainStep
    <3>3. QED BY <2>1, <3>1, <3>2, Places, Primitives
  <2>4. QED BY <2>2, <2>3
<1>39. ASSUME Timer PROVE MachineType'
  <2>1. m' = [m EXCEPT !.at = "selected"] \/ m' = m
    BY <1>39 DEF Timer, Goto
  <2>2. QED BY <2>1, Places
<1>40. ASSUME Sigchld PROVE MachineType'
  <2>1. \E w \in {"wait", "selected", m.at} : m' = [m EXCEPT !.at = w]
    <3>1. Woken
      BY <1>40 DEF Sigchld, Reaped
    <3>2. CASE m.at = "suspend"
      BY <3>1, <3>2 DEF Woken, Goto, At
    <3>3. CASE m.at = "ppoll"
      BY <3>1, <3>3 DEF Woken, Goto, At
    <3>4. CASE m.at \notin {"suspend", "ppoll"}
      BY <3>1, <3>4 DEF Woken, Goto, At
    <3>5. QED BY <3>2, <3>3, <3>4
  <2>2. m.at \in Place
    OBVIOUS
  <2>3. PICK w \in Place : m' = [m EXCEPT !.at = w]
    BY <2>1, <2>2, Places
  <2>4. QED BY <2>3
<1>41. ASSUME IoReady PROVE MachineType'
  BY <1>41, Places, Primitives, SubprocessAssumption DEF IoReady, AtRest, At, UCode
<1> HIDE DEF TableInv, MachineType, kernel
<1>42. QED
  BY <1>1, <1>2, <1>3, <1>4, <1>5, <1>6, <1>7, <1>8, <1>9, <1>10, <1>11, <1>12, <1>13, <1>14,
     <1>15, <1>16, <1>17, <1>18, <1>19, <1>20, <1>21, <1>22, <1>23, <1>24, <1>25, <1>26,
     <1>27, <1>28, <1>29, <1>30, <1>31, <1>32, <1>33, <1>34, <1>35, <1>36, <1>37, <1>38,
     <1>39, <1>40, <1>41, SubprocessAssumption
     DEF Next, System, Program, Machine

\* The slot a primitive works on: that of the object, or the one being made.
LEMMA Hands ==
  ASSUME TableInv
  PROVE  /\ m.op \in Quick \ {"sync-all"} /\ m.at \notin Freeing =>
              /\ ~InHand /\ m.c \in Child /\ m.s \in Slot /\ index[m.c] = m.s
              /\ Owns(m.c, m.s)
         /\ Making => /\ m.s \in Slot
                      /\ id[m.s] # None => m.c \in Child /\ Owns(m.c, m.s)
         /\ \A c \in Child, s \in Slot :
              Owns(c, s) => raw[s] \in Alive \cup Dead /\ status[s] \in Alive \cup Dead
<1> USE DEF TableInv
<1>1. ASSUME m.op \in Quick \ {"sync-all"}, m.at \notin Freeing
      PROVE  ~InHand /\ m.c \in Child /\ m.s \in Slot /\ index[m.c] = m.s /\ Owns(m.c, m.s)
  <2>1. ~InHand
    BY <1>1, SubprocessAssumption DEF InHand, Making, Quick
  <2>2. QED BY <1>1, <2>1 DEF HandInv, Owns
<1>2. ASSUME Making
      PROVE  m.s \in Slot /\ (id[m.s] # None => m.c \in Child /\ Owns(m.c, m.s))
  <2>1. m.s \in Slot /\ \A c \in Child : index[c] # m.s
    BY <1>2 DEF InHand, HandInv
  <2>2. ASSUME id[m.s] # None PROVE m.c \in Child /\ Owns(m.c, m.s)
    <3>1. PICK c \in Child : Owns(c, m.s)
      BY <2>1, <2>2 DEF OwnInv
    <3>2. c = m.c
      BY <2>1, <3>1 DEF Owns
    <3>3. QED BY <3>1, <3>2
  <2>3. QED BY <2>1, <2>2
<1>3. ASSUME NEW c \in Child, NEW s \in Slot, Owns(c, s)
      PROVE  raw[s] \in Alive \cup Dead /\ status[s] \in Alive \cup Dead
  <2>1. id[s] # None /\ Reported(s)
    BY <1>3 DEF OwnInv
  <2>2. status[s] # "free" /\ status[s] \in {"free"} \cup Alive \cup Dead
    BY <2>1 DEF OwnInv, TypeOK
  <2>3. QED BY <2>1, <2>2 DEF Reported
<1>4. QED BY <1>1, <1>2, <1>3

\* What changes of status do to the types of the operating system's variables.
LEMMA ChangedType ==
  ASSUME TypeOK, NEW cs \in SUBSET Child, NEW new \in Alive \cup Dead, Changed(cs, new)
  PROVE  /\ child' \in [Child -> {"unborn", "gone"} \cup Alive \cup Dead]
         /\ news' \subseteq Child /\ pid' = pid /\ pending' \in BOOLEAN
<1>1. child' \in [Child -> {"unborn", "gone"} \cup Alive \cup Dead]
  BY SMT DEF TypeOK, Changed
<1>2. pending' \in BOOLEAN
  BY DEF TypeOK, Changed
<1>3. QED BY <1>1, <1>2 DEF TypeOK, Changed

\* kill(2) with SIGCONT keeps the type of what the operating system knows.
LEMMA KillContType ==
  ASSUME TypeOK, NEW p, KillCont(p)
  PROVE  /\ child' \in [Child -> {"unborn", "gone"} \cup Alive \cup Dead]
         /\ news' \subseteq Child /\ pid' = pid /\ pending' = pending
<1>1. child' \in [Child -> {"unborn", "gone"} \cup Alive \cup Dead]
  BY SMT DEF TypeOK, KillCont, Alive
<1>2. QED BY <1>1 DEF TypeOK, KillCont

\* What new raw statuses do to the types of the table.
LEMMA RawType ==
  ASSUME TypeOK, NEW new, \A s \in DOMAIN new : new[s] \in Alive \cup Dead, NewRawStatus(new)
  PROVE  /\ raw' \in [Slot -> {"free", "allocated"} \cup Alive \cup Dead]
         /\ changed' \in [Slot -> BOOLEAN] /\ unsynced' \in BOOLEAN
         /\ id' = id /\ status' = status /\ jc' = jc
<1>1. raw' \in [Slot -> {"free", "allocated"} \cup Alive \cup Dead]
  BY SMT DEF TypeOK, NewRawStatus
<1>2. changed' \in [Slot -> BOOLEAN]
  BY DEF TypeOK, NewRawStatus
<1>3. unsynced' \in BOOLEAN
  BY DEF TypeOK, NewRawStatus
<1>4. QED BY <1>1, <1>2, <1>3 DEF NewRawStatus

\* The table and the objects keep their types.
LEMMA TypeNext ==
  ASSUME TableInv, Next
  PROVE  TypeOK'
<1> USE DEF kernel, table, objects, subs, TableInv, TypeOK, UCode
<1>1. ASSUME NEW c \in Child, Exit(c) PROVE TypeOK'
  <2>1. Changed({c}, "exited") /\ "exited" \in Alive \cup Dead /\ {c} \in SUBSET Child
    BY <1>1 DEF Exit, Alive, Dead
  <2>2. /\ child' \in [Child -> {"unborn", "gone"} \cup Alive \cup Dead]
        /\ news' \subseteq Child /\ pid' = pid /\ pending' \in BOOLEAN
    BY <2>1, ChangedType
  <2>3. QED BY <1>1, <2>2 DEF Exit
<1>2. ASSUME NEW c \in Child, Stop(c) PROVE TypeOK'
  <2>1. Changed({c}, "stopped") /\ "stopped" \in Alive \cup Dead /\ {c} \in SUBSET Child
    BY <1>2 DEF Stop, Alive, Dead
  <2>2. /\ child' \in [Child -> {"unborn", "gone"} \cup Alive \cup Dead]
        /\ news' \subseteq Child /\ pid' = pid /\ pending' \in BOOLEAN
    BY <2>1, ChangedType
  <2>3. QED BY <1>2, <2>2 DEF Stop
<1>3. ASSUME Interrupt PROVE TypeOK'
  BY <1>3, SubprocessAssumption DEF Interrupt, Woken, Goto, At
<1>4. ASSUME StopSignal PROVE TypeOK'
  BY <1>4, SubprocessAssumption DEF StopSignal, GetTerminalBack, Woken, Goto, At
<1>5. ASSUME NEW t \in Waiter, NEW c \in Child, WaitFor(t, c) PROVE TypeOK'
  BY <1>5, SubprocessAssumption DEF WaitFor, Running, At, UCode
<1>6. ASSUME NEW t \in Thread \ Waiter, NEW kind \in Makes, Make(t, kind) PROVE TypeOK'
  BY <1>6, SubprocessAssumption DEF Make, Running, At, Quiet
<1>7. ASSUME NEW t \in Thread \ Waiter, Read(t) PROVE TypeOK'
  BY <1>7, SubprocessAssumption DEF Read, Running, At, UCode
<1>8. ASSUME NEW t \in Thread \ Waiter, NEW c \in Child, Delete(t, c) PROVE TypeOK'
  BY <1>8, SubprocessAssumption DEF Delete, Running, At, Valid, Poll, UCode
<1>9. ASSUME NEW t \in Thread \ Waiter, NEW c \in Child, NEW op \in {"KILL", "TSTP",
             "continue"}, Signal(t, c, op)
      PROVE  TypeOK'
  BY <1>9, SubprocessAssumption DEF Signal, Running, At, Valid, Call, UCode
<1>10. ASSUME NEW t \in Thread \ Waiter, NEW c \in Child, Foreground(t, c) PROVE TypeOK'
  BY <1>10, SubprocessAssumption DEF Foreground, Running, At, Valid, UCode
<1>11. ASSUME Block PROVE TypeOK'
  BY <1>11, SubprocessAssumption DEF Block, AfterBlock, Goto, At, Quiet
<1>12. ASSUME NEW c \in Child, Fork(c) PROVE TypeOK'
  <2>1. child' \in [Child -> {"unborn", "gone"} \cup Alive \cup Dead]
    BY <1>12, SMT DEF Fork, Alive
  <2>2. pid' \in [Child -> Pid \cup {None}]
    <3>1. PICK p \in Pid : pid' = [pid EXCEPT ![c] = p]
      BY <1>12 DEF Fork, FreePids
    <3>2. QED BY <3>1
  <2>3. QED BY <1>12, <2>1, <2>2 DEF Fork
<1>13. ASSUME ForkFails PROVE TypeOK'
  BY <1>13, SubprocessAssumption DEF ForkFails, ErrorOut, At, Quiet
<1>14. ASSUME Record PROVE TypeOK'
  <2>1. m.s \in Slot /\ m.c \in Child
    BY <1>14 DEF Record, At, HandInv, InHand, OpInv
  <2>2. id' \in [Slot -> Pid \cup {None}]
    BY <1>14, <2>1 DEF Record
  <2>3. raw' \in [Slot -> {"free", "allocated"} \cup Alive \cup Dead]
    BY <1>14, <2>1, SMT DEF Record, Alive
  <2>4. status' \in [Slot -> {"free"} \cup Alive \cup Dead]
    BY <1>14, <2>1, SMT DEF Record, Alive
  <2>5. changed' \in [Slot -> BOOLEAN]
    BY <1>14, <2>1 DEF Record
  <2>6. jc' \in [Slot -> BOOLEAN]
    BY <1>14, <2>1 DEF Record
  <2>7. QED BY <1>14, <2>2, <2>3, <2>4, <2>5, <2>6 DEF Record, Quiet
<1>15. ASSUME Wait PROVE TypeOK'
  BY <1>15, SubprocessAssumption DEF Wait, Goto, At, Quiet
<1>16. ASSUME Sync PROVE TypeOK'
  <2>1. m.s \in Slot /\ raw[m.s] \in {"free"} \cup Alive \cup Dead
    <3>1. m.op \in Quick \ {"sync-all"} /\ m.at \notin Freeing
      BY <1>16 DEF Sync, At, OpInv, Freeing, Quick
    <3>2. QED BY <3>1, Hands
  <2>2. status' \in [Slot -> {"free"} \cup Alive \cup Dead]
    BY <1>16, <2>1 DEF Sync
  <2>3. changed' \in [Slot -> BOOLEAN]
    BY <1>16, <2>1 DEF Sync
  <2>4. QED BY <1>16, <2>2, <2>3 DEF Sync, Quiet
<1>17. ASSUME SyncAll PROVE TypeOK'
  BY <1>17, SubprocessAssumption DEF SyncAll, At, Quiet
<1>18. ASSUME Check PROVE TypeOK'
  BY <1>18, SubprocessAssumption DEF Check, ErrorOut, Goto, At, Quiet
<1>19. ASSUME NEW o \in {"background", "given", "fails"}, Give(o) PROVE TypeOK'
  <2>1. m.s \in Slot
    <3>1. m.at \notin Freeing /\ (m.op \in Quick \ {"sync-all"} \/ Making)
      BY <1>19 DEF Give, At, OpInv, Making, Quick, Freeing, MachineType, Primitive
    <3>2. QED BY <3>1, Hands
  <2>2. foreground' \in Slot \cup {None}
    BY <1>19, <2>1, GiveStep
  <2>3. QED BY <1>19, <2>2 DEF Give
<1>20. ASSUME NEW f \in BOOLEAN, ContinueStopped(f) PROVE TypeOK'
  <2>1. \/ NewRawStatus([s \in {m.s} |-> "running"])
        \/ UNCHANGED <<kernel, pending, table, unsynced>>
    BY <1>20 DEF ContinueStopped
  <2>2. KillCont(id[m.s]) \/ UNCHANGED <<kernel, pending>>
    BY <1>20 DEF ContinueStopped
  <2>3. /\ child' \in [Child -> {"unborn", "gone"} \cup Alive \cup Dead]
        /\ news' \subseteq Child /\ pid' = pid /\ pending' = pending
    BY <2>2, KillContType
  <2>4. /\ raw' \in [Slot -> {"free", "allocated"} \cup Alive \cup Dead]
        /\ changed' \in [Slot -> BOOLEAN] /\ unsynced' \in BOOLEAN
        /\ id' = id /\ status' = status /\ jc' = jc
    <3>1. CASE NewRawStatus([s \in {m.s} |-> "running"])
      <4> DEFINE new == [s \in {m.s} |-> "running"]
      <4>1. \A s \in DOMAIN new : new[s] \in Alive \cup Dead
        BY DEF Alive
      <4>2. NewRawStatus(new)
        BY <3>1
      <4> HIDE DEF new
      <4>3. QED BY <4>1, <4>2, RawType
    <3>2. QED BY <2>1, <3>1
  <2>5. QED BY <1>20, <2>3, <2>4 DEF ContinueStopped
<1>21. ASSUME NEW f \in BOOLEAN, Send(f) PROVE TypeOK'
  <2>1. \/ UNCHANGED <<kernel, pending>>
        \/ \E cs \in SUBSET Child, new \in Alive \cup Dead : Changed(cs, new)
    BY <1>21 DEF Send, Kill, OfPid, Alive, Dead
  <2>2. /\ child' \in [Child -> {"unborn", "gone"} \cup Alive \cup Dead]
        /\ news' \subseteq Child /\ pid' = pid /\ pending' \in BOOLEAN
    BY <2>1, ChangedType
  <2>3. QED BY <1>21, <2>2 DEF Send
<1>22. ASSUME Unwind PROVE TypeOK'
  BY <1>22, UnwindStep
<1>23. ASSUME Abort PROVE TypeOK'
  BY <1>23, SubprocessAssumption DEF Abort, Goto, At, Quiet
<1>24. ASSUME AbortKill PROVE TypeOK'
  <2>1. \E cs \in SUBSET Child, new \in Alive \cup Dead : Changed(cs, new)
    BY <1>24 DEF AbortKill, OfPid, Alive, Dead
  <2>2. /\ child' \in [Child -> {"unborn", "gone"} \cup Alive \cup Dead]
        /\ news' \subseteq Child /\ pid' = pid /\ pending' \in BOOLEAN
    BY <2>1, ChangedType
  <2>3. QED BY <1>24, <2>2 DEF AbortKill
<1>25. ASSUME Deallocate PROVE TypeOK'
  BY <1>25, SubprocessAssumption DEF Deallocate, Goto, At, Quiet
<1>26. ASSUME Free PROVE TypeOK'
  BY <1>26, SubprocessAssumption DEF Free, AtRest, At, Quiet
<1>27. ASSUME New PROVE TypeOK'
  <2>1. m.s \in Slot /\ m.c \in Child /\ status[m.s] \in Alive \cup Dead
    <3>1. Making /\ id[m.s] # None
      BY <1>27 DEF New, At, OpInv, HandInv
    <3>2. QED BY <3>1, Hands
  <2>2. index' \in [Child -> Slot \cup {None}]
    BY <1>27, <2>1 DEF New
  <2>3. known' \in [Child -> {None} \cup Alive \cup Dead]
    BY <1>27, <2>1 DEF New
  <2>4. QED BY <1>27, <2>2, <2>3 DEF New
<1>28. ASSUME Polled PROVE TypeOK'
  <2>1. m.s \in Slot /\ m.c \in Child /\ status[m.s] \in Alive \cup Dead
    <3>1. m.op \in Quick \ {"sync-all"} /\ m.at \notin Freeing
      BY <1>28 DEF Polled, At, OpInv, Freeing, Quick
    <3>2. QED BY <3>1, Hands
  <2>2. known' \in [Child -> {None} \cup Alive \cup Dead]
    BY <1>28, <2>1 DEF Polled
  <2>3. QED BY <1>28, <2>2 DEF Polled
<1>29. ASSUME Loop PROVE TypeOK'
  BY <1>29, SubprocessAssumption DEF Loop, AtRest, At, UCode
<1>30. ASSUME Deleted PROVE TypeOK'
  BY <1>30, SubprocessAssumption DEF Deleted, Goto, At, UCode
<1>31. ASSUME Handle PROVE TypeOK'
  BY <1>31, SubprocessAssumption DEF Handle, AtRest, At, Valid, UCode
<1>32. ASSUME NEW c \in Child, PollNext(c) PROVE TypeOK'
  BY <1>32, SubprocessAssumption DEF PollNext, Poll, At, UCode
<1>33. ASSUME Notify PROVE TypeOK'
  BY <1>33, SubprocessAssumption DEF Notify, AtRest, At, UCode
<1>34. ASSUME Idle PROVE TypeOK'
  BY <1>34, SubprocessAssumption DEF Idle, Goto, At, UCode
<1>35. ASSUME Select PROVE TypeOK'
  BY <1>35, SubprocessAssumption DEF Select, Goto, At, UCode
<1>36. ASSUME Selected PROVE TypeOK'
  BY <1>36, SubprocessAssumption DEF Selected, Call, AtRest, At
<1>37. ASSUME NEW t \in Thread, Waited(t) PROVE TypeOK'
  BY <1>37, SubprocessAssumption DEF Waited, At, UCode
<1>38. ASSUME NEW t \in Thread, Again(t) PROVE TypeOK'
  BY <1>38, SubprocessAssumption DEF Again, At, UCode
<1>39. ASSUME Timer PROVE TypeOK'
  BY <1>39, SubprocessAssumption DEF Timer, Goto, At
<1>40. ASSUME Sigchld PROVE TypeOK'
  <2> DEFINE new == [s \in {s \in Slot : subprocess_death(s, news) # {}} |->
                       child[CHOOSE c \in subprocess_death(s, news) : TRUE]]
  <2>1. NewRawStatus(new)
    BY <1>40 DEF Sigchld, Reaped
  <2>2. ASSUME NEW s \in DOMAIN new PROVE new[s] \in Alive \cup Dead
    <3>1. PICK c \in subprocess_death(s, news) : new[s] = child[c]
      BY <2>2
    <3>2. c \in news /\ child[c] \in {"stopped"} \cup Dead
      BY <3>1 DEF subprocess_death, NewsInv
    <3>3. QED BY <3>1, <3>2 DEF Alive
  <2> HIDE DEF new
  <2>3. /\ raw' \in [Slot -> {"free", "allocated"} \cup Alive \cup Dead]
        /\ changed' \in [Slot -> BOOLEAN] /\ unsynced' \in BOOLEAN
        /\ id' = id /\ status' = status /\ jc' = jc
    BY <2>1, <2>2, RawType
  <2>4. child' \in [Child -> {"unborn", "gone"} \cup Alive \cup Dead]
    BY <1>40, SMT DEF Sigchld, Reaped
  <2>5. QED BY <1>40, <2>3, <2>4 DEF Sigchld, Reaped
<1>41. ASSUME IoReady PROVE TypeOK'
  BY <1>41, SubprocessAssumption DEF IoReady, AtRest, At, UCode
<1> HIDE DEF kernel, table, objects, subs, TableInv, TypeOK, UCode
<1>42. QED
  BY <1>1, <1>2, <1>3, <1>4, <1>5, <1>6, <1>7, <1>8, <1>9, <1>10, <1>11, <1>12, <1>13, <1>14,
     <1>15, <1>16, <1>17, <1>18, <1>19, <1>20, <1>21, <1>22, <1>23, <1>24, <1>25, <1>26,
     <1>27, <1>28, <1>29, <1>30, <1>31, <1>32, <1>33, <1>34, <1>35, <1>36, <1>37, <1>38,
     <1>39, <1>40, <1>41, SubprocessAssumption
     DEF Next, System, Program, Machine

\* The registrations and the threads' waits keep their types.
LEMMA ObjectNext ==
  ASSUME TableInv, Next
  PROVE  ObjectType'
<1> USE DEF kernel, table, objects, subs, TableInv, ObjectType, UCode
<1>1. ASSUME NEW c \in Child, Exit(c) PROVE ObjectType'
  BY <1>1, SubprocessAssumption DEF Exit, Changed
<1>2. ASSUME NEW c \in Child, Stop(c) PROVE ObjectType'
  BY <1>2, SubprocessAssumption DEF Stop, Changed
<1>3. ASSUME Interrupt PROVE ObjectType'
  BY <1>3, SubprocessAssumption DEF Interrupt, Woken, Goto, At
<1>4. ASSUME StopSignal PROVE ObjectType'
  BY <1>4, SubprocessAssumption DEF StopSignal, GetTerminalBack, Woken, Goto, At
<1>5. ASSUME NEW t \in Waiter, NEW c \in Child, WaitFor(t, c) PROVE ObjectType'
  BY <1>5, SubprocessAssumption, SMT DEF WaitFor, Running, At, UCode, TypeOK, MachineType,
     OpInv, HandInv
<1>6. ASSUME NEW t \in Thread \ Waiter, NEW kind \in Makes, Make(t, kind) PROVE ObjectType'
  BY <1>6, SubprocessAssumption DEF Make, Running, At, Quiet
<1>7. ASSUME NEW t \in Thread \ Waiter, Read(t) PROVE ObjectType'
  BY <1>7, SubprocessAssumption DEF Read, Running, At, UCode
<1>8. ASSUME NEW t \in Thread \ Waiter, NEW c \in Child, Delete(t, c) PROVE ObjectType'
  BY <1>8, SubprocessAssumption DEF Delete, Running, At, Valid, Poll, UCode
<1>9. ASSUME NEW t \in Thread \ Waiter, NEW c \in Child, NEW op \in {"KILL", "TSTP",
             "continue"}, Signal(t, c, op)
      PROVE  ObjectType'
  BY <1>9, SubprocessAssumption DEF Signal, Running, At, Valid, Call, UCode
<1>10. ASSUME NEW t \in Thread \ Waiter, NEW c \in Child, Foreground(t, c) PROVE ObjectType'
  BY <1>10, SubprocessAssumption, SMT DEF Foreground, Running, At, Valid, UCode, TypeOK,
     MachineType, OpInv, HandInv
<1>11. ASSUME Block PROVE ObjectType'
  BY <1>11, SubprocessAssumption DEF Block, AfterBlock, Goto, At, Quiet
<1>12. ASSUME NEW c \in Child, Fork(c) PROVE ObjectType'
  BY <1>12, SubprocessAssumption DEF Fork, At, FreePids
<1>13. ASSUME ForkFails PROVE ObjectType'
  BY <1>13, SubprocessAssumption DEF ForkFails, ErrorOut, At, Quiet
<1>14. ASSUME Record PROVE ObjectType'
  BY <1>14, SubprocessAssumption DEF Record, Goto, At, Quiet
<1>15. ASSUME Wait PROVE ObjectType'
  BY <1>15, SubprocessAssumption DEF Wait, Goto, At, Quiet
<1>16. ASSUME Sync PROVE ObjectType'
  BY <1>16, SubprocessAssumption DEF Sync, At, Quiet
<1>17. ASSUME SyncAll PROVE ObjectType'
  BY <1>17, SubprocessAssumption DEF SyncAll, At, Quiet
<1>18. ASSUME Check PROVE ObjectType'
  BY <1>18, SubprocessAssumption DEF Check, ErrorOut, Goto, At, Quiet
<1>19. ASSUME NEW o \in {"background", "given", "fails"}, Give(o) PROVE ObjectType'
  BY <1>19, SubprocessAssumption DEF Give, ErrorOut, Goto, At
<1>20. ASSUME NEW f \in BOOLEAN, ContinueStopped(f) PROVE ObjectType'
  BY <1>20, SubprocessAssumption DEF ContinueStopped, NewRawStatus, KillCont, ErrorOut, Goto,
     At
<1>21. ASSUME NEW f \in BOOLEAN, Send(f) PROVE ObjectType'
  BY <1>21, SubprocessAssumption DEF Send, Kill, Changed, ErrorOut, Goto, At
<1>22. ASSUME Unwind PROVE ObjectType'
  BY <1>22, UnwindStep
<1>23. ASSUME Abort PROVE ObjectType'
  BY <1>23, SubprocessAssumption DEF Abort, Goto, At, Quiet
<1>24. ASSUME AbortKill PROVE ObjectType'
  BY <1>24, SubprocessAssumption DEF AbortKill, Changed, Goto, At
<1>25. ASSUME Deallocate PROVE ObjectType'
  BY <1>25, SubprocessAssumption DEF Deallocate, Goto, At, Quiet
<1>26. ASSUME Free PROVE ObjectType'
  BY <1>26, SubprocessAssumption DEF Free, AtRest, At, Quiet
<1>27. ASSUME New PROVE ObjectType'
  <2>1. status[m.s] # None
    <3>1. Making /\ id[m.s] # None
      BY <1>27 DEF New, At, OpInv, HandInv
    <3>2. status[m.s] \in Alive \cup Dead
      BY <3>1, Hands
    <3>3. QED BY <3>2, SubprocessAssumption
  <2>2. ASSUME NEW r \in regs PROVE known'[r.c] # None
    <3>1. known' = [known EXCEPT ![m.c] = status[m.s]]
      BY <1>27 DEF New
    <3>2. r.c \in Child /\ known[r.c] # None
      OBVIOUS
    <3>3. QED BY <2>1, <3>1, <3>2, SMT DEF TypeOK
  <2>3. QED BY <1>27, <2>2 DEF New
<1>28. ASSUME Polled PROVE ObjectType'
  <2>1. status[m.s] # None
    <3>1. m.op \in Quick \ {"sync-all"} /\ m.at \notin Freeing
      BY <1>28 DEF Polled, At, OpInv, Freeing, Quick
    <3>2. status[m.s] \in Alive \cup Dead
      BY <3>1, Hands
    <3>3. QED BY <3>2, SubprocessAssumption
  <2>2. ASSUME NEW r \in regs PROVE known'[r.c] # None
    <3>1. known' = [known EXCEPT ![m.c] = IF m.changed THEN status[m.s] ELSE known[m.c]]
      BY <1>28 DEF Polled
    <3>2. r.c \in Child /\ known[r.c] # None
      OBVIOUS
    <3>3. QED BY <2>1, <3>1, <3>2, SMT DEF TypeOK
  <2>3. QED BY <1>28, <2>2 DEF Polled
<1>29. ASSUME Loop PROVE ObjectType'
  BY <1>29, SubprocessAssumption, SMT DEF Loop, AtRest, At, UCode, TypeOK, MachineType, OpInv,
     HandInv
<1>30. ASSUME Deleted PROVE ObjectType'
  BY <1>30, SubprocessAssumption DEF Deleted, Goto, At, UCode
<1>31. ASSUME Handle PROVE ObjectType'
  BY <1>31, SubprocessAssumption DEF Handle, AtRest, At, Valid, UCode
<1>32. ASSUME NEW c \in Child, PollNext(c) PROVE ObjectType'
  BY <1>32, SubprocessAssumption DEF PollNext, Poll, At, UCode
<1>33. ASSUME Notify PROVE ObjectType'
  <2>1. regs' = {[c |-> r.c, thread |-> r.thread, status |-> known[r.c]] :
                   r \in {r \in regs : known[r.c] \notin Dead}}
    BY <1>33 DEF Notify
  <2>2. known \in [Child -> {None} \cup Alive \cup Dead] /\ UNCHANGED <<known, waits, loops>>
    BY <1>33 DEF Notify, TypeOK
  <2>3. regs' \subseteq [c : Child, thread : Thread, status : Alive \cup Dead]
    BY <2>1, <2>2, SMT
  <2>4. \A r \in regs' : known'[r.c] # None
    BY <2>1, <2>2, SMT
  <2>5. result' \in [Thread -> Alive \cup Dead \cup {None}]
    <3> DEFINE stale(t) == {r \in regs : r.thread = t /\ r.status # known[r.c]}
               brought(t) == IF stale(t) = {} THEN result[t]
                             ELSE known[(CHOOSE r \in stale(t) : TRUE).c]
    <3>1. ASSUME NEW t \in Thread PROVE brought(t) \in Alive \cup Dead \cup {None}
      <4>1. CASE stale(t) = {}
        BY <4>1
      <4>2. CASE stale(t) # {}
        <5>1. (CHOOSE r \in stale(t) : TRUE) \in regs
          BY <4>2
        <5>2. (CHOOSE r \in stale(t) : TRUE).c \in Child
          BY <5>1
        <5>3. QED BY <2>2, <4>2, <5>2
      <4>3. QED BY <4>1, <4>2
    <3>2. result' = [t \in Thread |-> brought(t)]
      BY <1>33 DEF Notify
    <3> HIDE DEF brought
    <3>3. QED BY <3>1, <3>2
  <2>6. QED BY <1>33, <2>2, <2>3, <2>4, <2>5 DEF Notify
<1>34. ASSUME Idle PROVE ObjectType'
  BY <1>34, SubprocessAssumption DEF Idle, Goto, At, UCode
<1>35. ASSUME Select PROVE ObjectType'
  BY <1>35, SubprocessAssumption DEF Select, Goto, At, UCode
<1>36. ASSUME Selected PROVE ObjectType'
  BY <1>36, SubprocessAssumption DEF Selected, Call, AtRest, At
<1>37. ASSUME NEW t \in Thread, Waited(t) PROVE ObjectType'
  BY <1>37, SubprocessAssumption DEF Waited, At, UCode
<1>38. ASSUME NEW t \in Thread, Again(t) PROVE ObjectType'
  BY <1>38, SubprocessAssumption DEF Again, At, UCode
<1>39. ASSUME Timer PROVE ObjectType'
  BY <1>39, SubprocessAssumption DEF Timer, Goto, At
<1>40. ASSUME Sigchld PROVE ObjectType'
  BY <1>40, SubprocessAssumption DEF Sigchld, SigchldBlocked, Reaped, NewRawStatus, Woken,
     Goto, At
<1>41. ASSUME IoReady PROVE ObjectType'
  BY <1>41, SubprocessAssumption DEF IoReady, AtRest, At, UCode
<1> HIDE DEF kernel, table, objects, subs, TableInv, ObjectType, UCode
<1>42. QED
  BY <1>1, <1>2, <1>3, <1>4, <1>5, <1>6, <1>7, <1>8, <1>9, <1>10, <1>11, <1>12, <1>13, <1>14,
     <1>15, <1>16, <1>17, <1>18, <1>19, <1>20, <1>21, <1>22, <1>23, <1>24, <1>25, <1>26,
     <1>27, <1>28, <1>29, <1>30, <1>31, <1>32, <1>33, <1>34, <1>35, <1>36, <1>37, <1>38,
     <1>39, <1>40, <1>41, SubprocessAssumption
     DEF Next, System, Program, Machine

\* A change of status that waitpid is to report is news.
LEMMA ChangedNews ==
  ASSUME TypeOK, NewsInv, NEW cs \in SUBSET Child, NEW new \in {"stopped"} \cup Dead,
         Changed(cs, new)
  PROVE  NewsInv'
<1>1. child' = [c \in Child |-> IF c \in cs THEN new ELSE child[c]] /\ news' = news \cup cs
  BY DEF Changed
<1>2. \A c \in Child : child'[c] \in Dead => c \in news'
  BY <1>1 DEF NewsInv
<1>3. \A c \in news' : child'[c] \in {"stopped"} \cup Dead
  BY <1>1 DEF NewsInv, TypeOK
<1>4. news' # {} => pending'
  BY DEF Changed, NewsInv
<1>5. QED BY <1>2, <1>3, <1>4 DEF NewsInv

\* What waitpid has to report, and that SIGCHLD is pending for it.
LEMMA NewsNext ==
  ASSUME TableInv, Next
  PROVE  NewsInv'
<1> USE DEF kernel, table, objects, subs, TableInv, NewsInv, UCode
<1>1. ASSUME NEW c \in Child, Exit(c) PROVE NewsInv'
  <2>1. Changed({c}, "exited") /\ "exited" \in {"stopped"} \cup Dead /\ {c} \in SUBSET Child
    BY <1>1 DEF Exit, Dead
  <2>2. QED BY <2>1, ChangedNews
<1>2. ASSUME NEW c \in Child, Stop(c) PROVE NewsInv'
  <2>1. Changed({c}, "stopped") /\ "stopped" \in {"stopped"} \cup Dead /\ {c} \in SUBSET Child
    BY <1>2 DEF Stop, Dead
  <2>2. QED BY <2>1, ChangedNews
<1>3. ASSUME Interrupt PROVE NewsInv'
  BY <1>3 DEF Interrupt, Woken, Goto, At
<1>4. ASSUME StopSignal PROVE NewsInv'
  BY <1>4 DEF StopSignal, GetTerminalBack, Woken, Goto, At
<1>5. ASSUME NEW t \in Waiter, NEW c \in Child, WaitFor(t, c) PROVE NewsInv'
  BY <1>5 DEF WaitFor, Running, At, UCode
<1>6. ASSUME NEW t \in Thread \ Waiter, NEW kind \in Makes, Make(t, kind) PROVE NewsInv'
  BY <1>6 DEF Make, Running, At, Quiet
<1>7. ASSUME NEW t \in Thread \ Waiter, Read(t) PROVE NewsInv'
  BY <1>7 DEF Read, Running, At, UCode
<1>8. ASSUME NEW t \in Thread \ Waiter, NEW c \in Child, Delete(t, c) PROVE NewsInv'
  BY <1>8 DEF Delete, Running, At, Valid, Poll, UCode
<1>9. ASSUME NEW t \in Thread \ Waiter, NEW c \in Child, NEW op \in {"KILL", "TSTP",
             "continue"}, Signal(t, c, op)
      PROVE  NewsInv'
  BY <1>9 DEF Signal, Running, At, Valid, Call, UCode
<1>10. ASSUME NEW t \in Thread \ Waiter, NEW c \in Child, Foreground(t, c) PROVE NewsInv'
  BY <1>10 DEF Foreground, Running, At, Valid, UCode
<1>11. ASSUME Block PROVE NewsInv'
  BY <1>11 DEF Block, AfterBlock, Goto, At, Quiet
<1>12. ASSUME NEW c \in Child, Fork(c) PROVE NewsInv'
  BY <1>12, SMT DEF Fork, At, FreePids, TypeOK, Alive, Dead
<1>13. ASSUME ForkFails PROVE NewsInv'
  BY <1>13 DEF ForkFails, ErrorOut, At, Quiet
<1>14. ASSUME Record PROVE NewsInv'
  BY <1>14 DEF Record, Goto, At, Quiet
<1>15. ASSUME Wait PROVE NewsInv'
  BY <1>15 DEF Wait, Goto, At, Quiet
<1>16. ASSUME Sync PROVE NewsInv'
  BY <1>16 DEF Sync, At, Quiet
<1>17. ASSUME SyncAll PROVE NewsInv'
  BY <1>17 DEF SyncAll, At, Quiet
<1>18. ASSUME Check PROVE NewsInv'
  BY <1>18 DEF Check, ErrorOut, Goto, At, Quiet
<1>19. ASSUME NEW o \in {"background", "given", "fails"}, Give(o) PROVE NewsInv'
  BY <1>19 DEF Give, ErrorOut, Goto, At
<1>20. ASSUME NEW f \in BOOLEAN, ContinueStopped(f) PROVE NewsInv'
  <2>1. CASE UNCHANGED <<kernel, pending>>
    BY <2>1
  <2>2. CASE KillCont(id[m.s])
    BY <2>2, SMT DEF KillCont, TypeOK, Alive, Dead
  <2>3. QED BY <1>20, <2>1, <2>2 DEF ContinueStopped
<1>21. ASSUME NEW f \in BOOLEAN, Send(f) PROVE NewsInv'
  <2>1. \/ UNCHANGED <<kernel, pending>>
        \/ \E cs \in SUBSET Child, new \in {"stopped"} \cup Dead : Changed(cs, new)
    BY <1>21 DEF Send, Kill, OfPid, Dead
  <2>2. QED BY <2>1, ChangedNews
<1>22. ASSUME Unwind PROVE NewsInv'
  BY <1>22, UnwindStep
<1>23. ASSUME Abort PROVE NewsInv'
  BY <1>23 DEF Abort, Goto, At, Quiet
<1>24. ASSUME AbortKill PROVE NewsInv'
  <2>1. \E cs \in SUBSET Child, new \in {"stopped"} \cup Dead : Changed(cs, new)
    BY <1>24 DEF AbortKill, OfPid, Dead
  <2>2. QED BY <2>1, ChangedNews
<1>25. ASSUME Deallocate PROVE NewsInv'
  BY <1>25 DEF Deallocate, Goto, At, Quiet
<1>26. ASSUME Free PROVE NewsInv'
  BY <1>26 DEF Free, AtRest, At, Quiet
<1>27. ASSUME New PROVE NewsInv'
  BY <1>27 DEF New, At, UCode
<1>28. ASSUME Polled PROVE NewsInv'
  BY <1>28 DEF Polled, AtRest, At, UCode
<1>29. ASSUME Loop PROVE NewsInv'
  BY <1>29 DEF Loop, AtRest, At, UCode
<1>30. ASSUME Deleted PROVE NewsInv'
  BY <1>30 DEF Deleted, Goto, At, UCode
<1>31. ASSUME Handle PROVE NewsInv'
  BY <1>31 DEF Handle, AtRest, At, Valid, UCode
<1>32. ASSUME NEW c \in Child, PollNext(c) PROVE NewsInv'
  BY <1>32 DEF PollNext, Poll, At, UCode
<1>33. ASSUME Notify PROVE NewsInv'
  BY <1>33 DEF Notify, AtRest, At, UCode
<1>34. ASSUME Idle PROVE NewsInv'
  BY <1>34 DEF Idle, Goto, At, UCode
<1>35. ASSUME Select PROVE NewsInv'
  BY <1>35 DEF Select, Goto, At, UCode
<1>36. ASSUME Selected PROVE NewsInv'
  BY <1>36 DEF Selected, Call, AtRest, At
<1>37. ASSUME NEW t \in Thread, Waited(t) PROVE NewsInv'
  BY <1>37 DEF Waited, At, UCode
<1>38. ASSUME NEW t \in Thread, Again(t) PROVE NewsInv'
  BY <1>38 DEF Again, At, UCode
<1>39. ASSUME Timer PROVE NewsInv'
  BY <1>39 DEF Timer, Goto, At
<1>40. ASSUME Sigchld PROVE NewsInv'
  BY <1>40, SMT DEF Sigchld, SigchldBlocked, Reaped, NewRawStatus, Woken, Goto, At, TypeOK,
     Alive, Dead
<1>41. ASSUME IoReady PROVE NewsInv'
  BY <1>41 DEF IoReady, AtRest, At, UCode
<1> HIDE DEF kernel, table, objects, subs, TableInv, NewsInv, UCode
<1>42. QED
  BY <1>1, <1>2, <1>3, <1>4, <1>5, <1>6, <1>7, <1>8, <1>9, <1>10, <1>11, <1>12, <1>13, <1>14,
     <1>15, <1>16, <1>17, <1>18, <1>19, <1>20, <1>21, <1>22, <1>23, <1>24, <1>25, <1>26,
     <1>27, <1>28, <1>29, <1>30, <1>31, <1>32, <1>33, <1>34, <1>35, <1>36, <1>37, <1>38,
     <1>39, <1>40, <1>41, SubprocessAssumption
     DEF Next, System, Program, Machine

\* The stack stays what it is for the slot and the primitive at hand.
LEMMA StackKept ==
  ASSUME dstack' = dstack, m'.op = m.op, m'.s = m.s
  PROVE  (Bare' <=> Bare) /\ (Masked' <=> Masked) /\ (Given' <=> Given) /\ (Making' <=> Making)
BY DEF Bare, Masked, Given, Making

\* The stacks are told apart by how many actions they hold.
LEMMA StackKinds ==
  /\ ~(Bare /\ Masked) /\ ~(Bare /\ Given) /\ ~(Masked /\ Given)
  /\ ~(Bare /\ Masked)' /\ ~(Bare /\ Given)' /\ ~(Masked /\ Given)'
<1>1. ASSUME NEW d, NEW a, NEW b, NEW c
      PROVE  /\ ~(d = << >> /\ d = <<b>>) /\ ~(d = << >> /\ d = <<a, b>>)
             /\ ~(d = <<b>> /\ d = <<a, b>>)
             /\ ~(d = <<c>> /\ d = <<b, c>>) /\ ~(d = <<c>> /\ d = <<a, b, c>>)
             /\ ~(d = <<b, c>> /\ d = <<a, b, c>>)
  BY <1>1, Stacks, SMT
<1>2. ~(Bare /\ Masked) /\ ~(Bare /\ Given) /\ ~(Masked /\ Given)
  BY <1>1 DEF Bare, Masked, Given
<1>3. ~(Bare /\ Masked)' /\ ~(Bare /\ Given)' /\ ~(Masked /\ Given)'
  BY <1>1 DEF Bare, Masked, Given
<1>4. QED BY <1>2, <1>3

\* What is recorded on top of what.
LEMMA Pushed ==
  ASSUME m'.op = m.op, m'.s = m.s
  PROVE  /\ Bare /\ dstack' = <<Mask>> \o dstack => Masked'
         /\ Masked /\ dstack' = <<Terminal>> \o dstack => Given'
<1>s. /\ <<Mask>> \o << >> = <<Mask>>
      /\ <<Mask>> \o <<Undo(m.s)>> = <<Mask, Undo(m.s)>>
      /\ <<Terminal>> \o <<Mask>> = <<Terminal, Mask>>
      /\ <<Terminal>> \o <<Mask, Undo(m.s)>> = <<Terminal, Mask, Undo(m.s)>>
  <2>1. <<Mask>> \o << >> = <<Mask>>
    BY Stacks
  <2>2. <<Mask>> \o <<Undo(m.s)>> = <<Mask, Undo(m.s)>>
    BY Stacks
  <2>3. <<Terminal>> \o <<Mask>> = <<Terminal, Mask>>
    BY Stacks
  <2>4. <<Terminal>> \o <<Mask, Undo(m.s)>> = <<Terminal, Mask, Undo(m.s)>>
    BY Longest
  <2>5. QED BY <2>1, <2>2, <2>3, <2>4
<1>1. CASE Making
  <2>1. Making'
    BY <1>1 DEF Making
  <2>2. Bare /\ dstack' = <<Mask>> \o dstack => Masked'
    BY <1>s, <1>1, <2>1 DEF Bare, Masked
  <2>3. ASSUME Masked, dstack' = <<Terminal>> \o dstack PROVE Given'
    <3>1. dstack' = <<Terminal>> \o <<Mask, Undo(m.s)>>
      BY <1>1, <2>3 DEF Masked
    <3>2. dstack' = <<Terminal, Mask, Undo(m.s)>>
      BY <1>s, <3>1
    <3>3. QED BY <2>1, <3>2 DEF Given
  <2>4. QED BY <2>2, <2>3
<1>2. CASE ~Making
  <2>1. ~Making'
    BY <1>2 DEF Making
  <2>2. Bare /\ dstack' = <<Mask>> \o dstack => Masked'
    BY <1>s, <1>2, <2>1 DEF Bare, Masked
  <2>3. Masked /\ dstack' = <<Terminal>> \o dstack => Given'
    BY <1>s, <1>2, <2>1 DEF Masked, Given
  <2>4. QED BY <2>2, <2>3
<1>3. QED BY <1>1, <1>2

\* When a protector has run, what is recorded is what still has to be undone.
LEMMA UnwindStack ==
  ASSUME TableInv, Unwind
  PROVE  StackInv'
<1>0. StackInv /\ MachineType /\ OpInv
  BY DEF TableInv
<1>1. m.at \in Ending /\ (masked <=> Masked \/ Given)
  BY <1>0, UnwindStep DEF StackInv
<1>2. CASE /\ Given /\ m' = m /\ Masked' /\ masked' = masked
           /\ foreground' = None /\ (foreground = None => tty' = tty)
           /\ foreground # None => tty' = OurTerminal
  <2>1. tty' = OurTerminal /\ masked'
    BY <1>0, <1>1, <1>2 DEF StackInv
  <2>2. QED BY <1>1, <1>2, <2>1, SMT DEF StackInv, Blocking, Continuing, Ending, Aborting,
               Resting, Between
<1>3. CASE /\ Masked /\ Making /\ m' = m /\ Bare' /\ masked' = FALSE
           /\ UNCHANGED <<tty, foreground>>
  <2>1. Making' /\ ~Masked' /\ ~Given' /\ foreground = None /\ tty = OurTerminal
    BY <1>0, <1>3, StackKinds DEF Making, StackInv
  <2>2. QED BY <1>1, <1>3, <2>1, SMT DEF StackInv, Blocking, Continuing, Ending, Aborting,
               Resting, Between
<1>4. CASE \/ /\ Masked /\ ~Making /\ Returns /\ dstack' = << >> /\ masked' = FALSE
              /\ UNCHANGED <<tty, foreground>>
           \/ /\ Bare /\ Making /\ At("commit") /\ Returns /\ dstack' = << >>
              /\ UNCHANGED <<masked, tty, foreground>>
  <2>1. ~masked' /\ foreground = None /\ tty = OurTerminal /\ UNCHANGED <<tty, foreground>>
    <3>1. ~Given
      BY <1>4, StackKinds
    <3>2. foreground = None /\ tty = OurTerminal
      BY <1>0, <3>1 DEF StackInv
    <3>3. ~masked'
      BY <1>1, <1>4, StackKinds
    <3>4. QED BY <1>4, <3>2, <3>3
  <2>2. m'.at \in {"run", "new", "polled", "handle", "loop"}
    <3>1. CASE m.next = "run"
      <4>1. m' = AtRest
        BY <1>4, <3>1 DEF Returns
      <4>2. QED BY <4>1 DEF AtRest
    <3>2. CASE m.next # "run"
      <4>1. m' = [m EXCEPT !.at = m.next]
        BY <1>4, <3>2 DEF Returns
      <4>2. m'.at = m.next
        BY <1>0, <4>1 DEF MachineType
      <4>3. QED BY <1>0, <4>2 DEF MachineType
    <3>3. QED BY <3>1, <3>2
  <2>3. dstack' = << >>
    BY <1>4
  <2>4. QED BY <2>1, <2>2, <2>3, SMT DEF StackInv, Blocking, Continuing, Ending, Aborting,
               Resting, Between
<1>5. CASE /\ Bare /\ Making /\ At("unwind") /\ Goto("abort")
           /\ UNCHANGED <<dstack, masked, tty, foreground>>
  <2>1. m'.at = "abort" /\ m'.op = m.op /\ m'.s = m.s
    BY <1>0, <1>5 DEF Goto, MachineType
  <2>2. Bare' /\ ~masked' /\ foreground = None /\ tty = OurTerminal
    BY <1>0, <1>1, <1>5, <2>1, StackKinds, StackKept DEF StackInv
  <2>3. QED BY <1>5, <2>1, <2>2, SMT DEF StackInv, Blocking, Continuing, Ending, Aborting,
               Resting, Between
<1>6. QED BY <1>0, <1>2, <1>3, <1>4, <1>5, UnwindStep

\* What is recorded is what has to be undone.
LEMMA StackNext ==
  ASSUME TableInv, Next
  PROVE  StackInv'
<1> USE DEF kernel, table, objects, subs, TableInv, UCode, StackInv, OpInv, MachineType,
            Blocking, Continuing, Ending, Aborting, Freeing, Resting, Between
<1>1. ASSUME NEW c \in Child, Exit(c) PROVE StackInv'
  BY <1>1 DEF Exit, Changed, Bare, Masked, Given, Making
<1>2. ASSUME NEW c \in Child, Stop(c) PROVE StackInv'
  BY <1>2 DEF Stop, Changed, Bare, Masked, Given, Making
<1>3. ASSUME Interrupt PROVE StackInv'
  BY <1>3, SubprocessAssumption, StackKept, SMT DEF Interrupt, Woken, Goto, At
<1>4. ASSUME StopSignal PROVE StackInv'
  BY <1>4, SubprocessAssumption, StackKept, SMT
     DEF StopSignal, GetTerminalBack, Woken, Goto, At
<1>5. ASSUME NEW t \in Waiter, NEW c \in Child, WaitFor(t, c) PROVE StackInv'
  BY <1>5 DEF WaitFor, Bare, Masked, Given, Making
<1>6. ASSUME NEW t \in Thread \ Waiter, NEW kind \in Makes, Make(t, kind) PROVE StackInv'
  <2>1. PICK s \in Slot :
          /\ dstack' = <<Action("abort", "process_allocate_abort", s)>>
          /\ m' = [m EXCEPT !.at = "block", !.op = kind, !.t = t, !.s = s, !.next = "new"]
    BY <1>6 DEF Make
  <2>2. m'.at = "block" /\ m'.op = kind /\ m'.s = s
    BY <2>1
  <2>3. Bare'
    BY <2>1, <2>2 DEF Bare, Making, Undo
  <2>4. m.at = "run" /\ UNCHANGED <<masked, tty, foreground>>
    BY <1>6 DEF Make, Running, At, Quiet
  <2>5. QED BY <2>2, <2>3, <2>4
<1>7. ASSUME NEW t \in Thread \ Waiter, Read(t) PROVE StackInv'
  BY <1>7 DEF Read, Running, At, UCode, Bare, Masked, Given, Making
<1>8. ASSUME NEW t \in Thread \ Waiter, NEW c \in Child, Delete(t, c) PROVE StackInv'
  BY <1>8, SubprocessAssumption, StackKept, SMT
     DEF Delete, Running, At, Valid, Poll, UCode, Bare, Making, Quick
<1>9. ASSUME NEW t \in Thread \ Waiter, NEW c \in Child, NEW op \in {"KILL", "TSTP",
             "continue"}, Signal(t, c, op)
      PROVE  StackInv'
  BY <1>9, SubprocessAssumption, StackKept, SMT
     DEF Signal, Running, At, Valid, Call, UCode, Bare, Making, Quick
<1>10. ASSUME NEW t \in Thread \ Waiter, NEW c \in Child, Foreground(t, c) PROVE StackInv'
  BY <1>10 DEF Foreground, Bare, Masked, Given, Making
<1>11. ASSUME Block PROVE StackInv'
  <2>1. m.at = "block" /\ Bare /\ ~masked /\ foreground = None /\ tty = OurTerminal
    BY <1>11 DEF Block, At
  <2>2. m'.op = m.op /\ m'.s = m.s /\ m'.at = AfterBlock(m.op)
    BY <1>11 DEF Block, Goto
  <2>3. Masked'
    <3>1. dstack' = <<Mask>> \o dstack
      <4>1. masked = FALSE
        BY <2>1 DEF TypeOK
      <4>2. QED BY <1>11, <4>1 DEF Block, Mask
    <3>2. QED BY <2>1, <2>2, <3>1, Pushed
  <2>4. m'.at \in Blocking \cup Continuing
    BY <2>1, <2>2 DEF AfterBlock, Primitive, Quick
  <2>5. masked' /\ UNCHANGED <<tty, foreground>>
    BY <1>11 DEF Block, Quiet
  <2>6. QED BY <2>1, <2>3, <2>4, <2>5, SMT
<1>12. ASSUME NEW c \in Child, Fork(c) PROVE StackInv'
  BY <1>12, SubprocessAssumption, StackKept, SMT DEF Fork, At, FreePids
<1>13. ASSUME ForkFails PROVE StackInv'
  BY <1>13, SubprocessAssumption, StackKept, SMT DEF ForkFails, ErrorOut, At, Quiet
<1>14. ASSUME Record PROVE StackInv'
  BY <1>14, SubprocessAssumption, StackKept, SMT DEF Record, Goto, At, Quiet
<1>15. ASSUME Wait PROVE StackInv'
  BY <1>15, SubprocessAssumption, StackKept, SMT DEF Wait, Goto, At, Quiet
<1>16. ASSUME Sync PROVE StackInv'
  BY <1>16, SubprocessAssumption, StackKept, SMT DEF Sync, At, Quiet
<1>17. ASSUME SyncAll PROVE StackInv'
  BY <1>17, SubprocessAssumption, StackKept, SMT DEF SyncAll, At, Quiet
<1>18. ASSUME Check PROVE StackInv'
  <2>1. CASE raw[m.s] \in Alive /\ m' = [m EXCEPT !.at = "kill"]
    BY <1>18, <2>1, CheckStep, SubprocessAssumption, StackKept, SMT
  <2>2. CASE m' = [m EXCEPT !.at = "unwind", !.next = "run"]
    BY <1>18, <2>2, CheckStep, SubprocessAssumption, StackKept, SMT
  <2>3. QED BY <1>18, CheckStep, <2>1, <2>2
<1>19. ASSUME NEW o \in {"background", "given", "fails"}, Give(o) PROVE StackInv'
  <2>1. /\ m.at = "give" /\ Masked /\ masked /\ foreground = None /\ tty = OurTerminal
        /\ masked' = masked
    BY <1>19, GiveStep, StackKinds
  <2>2. m'.op = m.op /\ m'.s = m.s /\ m'.at \in {"continue", "unwind"}
    BY <1>19, GiveStep
  <2>3. CASE m'.at = "continue" /\ UNCHANGED <<dstack, tty, foreground>>
    BY <2>1, <2>2, <2>3, StackKept, SMT
  <2>4. CASE dstack' = <<Terminal>> \o dstack /\ foreground' = m.s
    <3>1. Given'
      BY <2>1, <2>2, <2>4, Pushed
    <3>2. m.s # None
      <4>1. m.op \in Quick \ {"sync-all"} \/ Making
        BY <2>1 DEF Making, Primitive, Quick
      <4>2. m.at \notin Freeing
        BY <2>1
      <4>3. m.s \in Slot
        BY <4>1, <4>2, Hands
      <4>4. QED BY <4>3, SubprocessAssumption
    <3>3. QED BY <2>1, <2>2, <2>4, <3>1, <3>2, SMT
  <2>5. QED BY <1>19, <2>2, <2>3, <2>4, GiveStep
<1>20. ASSUME NEW f \in BOOLEAN, ContinueStopped(f) PROVE StackInv'
  <2>1. CASE m.op = "continue" /\ m' = [m EXCEPT !.at = "commit"]
    BY <1>20, <2>1, ContinueStep, SubprocessAssumption, StackKept, SMT
  <2>2. CASE m.op # "continue" /\ m' = [m EXCEPT !.at = "wait"]
    BY <1>20, <2>2, ContinueStep, SubprocessAssumption, StackKept, SMT
  <2>3. CASE m' = [m EXCEPT !.at = "unwind", !.next = "run"]
    BY <1>20, <2>3, ContinueStep, SubprocessAssumption, StackKept, SMT
  <2>4. QED BY <1>20, ContinueStep, <2>1, <2>2, <2>3
<1>21. ASSUME NEW f \in BOOLEAN, Send(f) PROVE StackInv'
  <2>1. CASE m' = [m EXCEPT !.at = "commit"]
    BY <1>21, <2>1, SendStep, SubprocessAssumption, StackKept, SMT
  <2>2. CASE m' = [m EXCEPT !.at = "unwind", !.next = "run"]
    BY <1>21, <2>2, SendStep, SubprocessAssumption, StackKept, SMT
  <2>3. QED BY <1>21, SendStep, <2>1, <2>2
<1>22. ASSUME Unwind PROVE StackInv'
  BY <1>22, UnwindStack
<1>23. ASSUME Abort PROVE StackInv'
  BY <1>23, SubprocessAssumption, StackKept, SMT DEF Abort, Goto, At, Quiet
<1>24. ASSUME AbortKill PROVE StackInv'
  BY <1>24, SubprocessAssumption, StackKept, SMT DEF AbortKill, Changed, Goto, At
<1>25. ASSUME Deallocate PROVE StackInv'
  BY <1>25, SubprocessAssumption, StackKept, SMT DEF Deallocate, Goto, At, Quiet
<1>26. ASSUME Free PROVE StackInv'
  BY <1>26, SubprocessAssumption, StackKept, SMT DEF Free, AtRest, At, Quiet
<1>27. ASSUME New PROVE StackInv'
  BY <1>27, SubprocessAssumption, StackKept, SMT DEF New, At, UCode, Bare, Making, Quick
<1>28. ASSUME Polled PROVE StackInv'
  <2>1. CASE m.then \in {"run", "poll"} /\ m' = [AtRest EXCEPT !.at = m.then, !.todo = m.todo]
    BY <1>28, <2>1, PolledStep, SubprocessAssumption, StackKept, SMT DEF AtRest
  <2>2. CASE m.then \in {"loop", "delete"} /\ m' = [m EXCEPT !.at = m.then]
    BY <1>28, <2>2, PolledStep, SubprocessAssumption, StackKept, SMT DEF AtRest
  <2>3. QED BY <1>28, PolledStep, <2>1, <2>2
<1>29. ASSUME Loop PROVE StackInv'
  BY <1>29, SubprocessAssumption, StackKept, SMT DEF Loop, AtRest, At, UCode
<1>30. ASSUME Deleted PROVE StackInv'
  BY <1>30, SubprocessAssumption, StackKept, SMT DEF Deleted, Goto, At, UCode
<1>31. ASSUME Handle PROVE StackInv'
  BY <1>31, SubprocessAssumption, StackKept, SMT DEF Handle, AtRest, At, Valid, UCode
<1>32. ASSUME NEW c \in Child, PollNext(c) PROVE StackInv'
  BY <1>32, SubprocessAssumption, StackKept, SMT
     DEF PollNext, Poll, At, UCode, Bare, Making, Quick
<1>33. ASSUME Notify PROVE StackInv'
  BY <1>33, SubprocessAssumption, StackKept, SMT DEF Notify, AtRest, At, UCode
<1>34. ASSUME Idle PROVE StackInv'
  BY <1>34, SubprocessAssumption, StackKept, SMT DEF Idle, Goto, At, UCode
<1>35. ASSUME Select PROVE StackInv'
  BY <1>35, SubprocessAssumption, StackKept, SMT DEF Select, Goto, At, UCode
<1>36. ASSUME Selected PROVE StackInv'
  <2>1. CASE /\ unsynced
             /\ m' = [m EXCEPT !.at = "block", !.op = "sync-all", !.c = None, !.next = "handle"]
    BY <1>36, <2>1, SelectedStep, SubprocessAssumption, StackKept, SMT
       DEF AtRest, Bare, Making, Quick
  <2>2. CASE ~unsynced /\ m' = AtRest
    BY <1>36, <2>2, SelectedStep, SubprocessAssumption, StackKept, SMT
       DEF AtRest, Bare, Making, Quick
  <2>3. QED BY <1>36, SelectedStep, <2>1, <2>2
<1>37. ASSUME NEW t \in Thread, Waited(t) PROVE StackInv'
  BY <1>37 DEF Waited, At, UCode, Bare, Masked, Given, Making
<1>38. ASSUME NEW t \in Thread, Again(t) PROVE StackInv'
  <2>u. UNCHANGED <<UCode, subs, regs, waits, result>>
    BY <1>38, AgainStep
  <2>1. CASE m' = m
    BY <1>38, <2>1, AgainStep, SubprocessAssumption, StackKept, SMT DEF Bare, Making, Quick
  <2>2. CASE /\ m.at = "run" /\ loops[t] # None /\ index[loops[t]] # None /\ loops' = loops
            /\ raw[index[loops[t]]] \in Alive
            /\ m' = [m EXCEPT !.at = "block", !.op = "continue-foreground", !.t = t,
                              !.c = loops[t], !.s = index[loops[t]], !.next = "loop"]
    BY <1>38, <2>2, <2>u, SubprocessAssumption, StackKept, SMT DEF Bare, Making, Quick
  <2>3. QED BY <1>38, AgainStep, <2>1, <2>2
<1>39. ASSUME Timer PROVE StackInv'
  BY <1>39, SubprocessAssumption, StackKept, SMT DEF Timer, Goto, At
<1>40. ASSUME Sigchld PROVE StackInv'
  BY <1>40, SubprocessAssumption, StackKept, SMT
     DEF Sigchld, SigchldBlocked, Reaped, NewRawStatus, Woken, Goto, At
<1>41. ASSUME IoReady PROVE StackInv'
  BY <1>41, SubprocessAssumption, StackKept, SMT DEF IoReady, AtRest, At, UCode
<1> HIDE DEF kernel, table, objects, subs, TableInv, UCode, StackInv, OpInv, MachineType,
             Blocking, Continuing, Ending, Aborting, Freeing, Resting, Between
<1>42. QED
  BY <1>1, <1>2, <1>3, <1>4, <1>5, <1>6, <1>7, <1>8, <1>9, <1>10, <1>11, <1>12, <1>13, <1>14,
     <1>15, <1>16, <1>17, <1>18, <1>19, <1>20, <1>21, <1>22, <1>23, <1>24, <1>25, <1>26,
     <1>27, <1>28, <1>29, <1>30, <1>31, <1>32, <1>33, <1>34, <1>35, <1>36, <1>37, <1>38,
     <1>39, <1>40, <1>41, SubprocessAssumption
     DEF Next, System, Program, Machine

\* The SIGCHLD handler: what it does to a slot.
LEMMA ReapStep ==
  ASSUME TableInv, Sigchld
  PROVE  /\ pending /\ ~SigchldBlocked
         /\ UNCHANGED <<id, status, jc, pid, tty, masked, dstack, foreground, interrupt, objects>>
         /\ news' = {} /\ pending' = FALSE
         /\ child' = [c \in Child |-> IF c \in news /\ child[c] \in Dead THEN "gone" ELSE child[c]]
         /\ \A s \in Slot :
              \/ /\ raw'[s] = raw[s] /\ changed'[s] = changed[s]
                 /\ \A c \in news : s \notin find_process(pid[c])
              \/ /\ changed'[s] /\ unsynced'
                 /\ \E c \in news : /\ s \in find_process(pid[c]) /\ id[s] = pid[c] /\ pid[c] # None
                                    /\ raw'[s] = child[c] /\ child[c] \in {"stopped"} \cup Dead
         /\ unsynced => unsynced'
<1> DEFINE D == {s \in Slot : subprocess_death(s, news) # {}}
           f(s) == child[CHOOSE c \in subprocess_death(s, news) : TRUE]
<1>1. /\ NewRawStatus([s \in D |-> f(s)])
      /\ child' = [c \in Child |-> IF c \in news /\ child[c] \in Dead THEN "gone" ELSE child[c]]
      /\ pending /\ ~SigchldBlocked /\ pending' = FALSE /\ news' = news \ news
      /\ UNCHANGED <<pid, tty, masked, dstack, foreground, interrupt, objects>>
  BY DEF Sigchld, Reaped
<1>2. /\ raw' = [s \in Slot |-> IF s \in D THEN f(s) ELSE raw[s]]
      /\ changed' = [s \in Slot |-> s \in D \/ changed[s]]
      /\ unsynced' = (unsynced \/ D # {})
      /\ UNCHANGED <<id, status, jc>>
  <2> HIDE DEF D, f
  <2>1. QED BY <1>1, SMT DEF NewRawStatus
<1>3. ASSUME NEW s \in Slot, s \notin D
      PROVE  /\ raw'[s] = raw[s] /\ changed'[s] = changed[s]
             /\ \A c \in news : s \notin find_process(pid[c])
  <2>1. subprocess_death(s, news) = {}
    BY <1>3
  <2>2. \A c \in news : s \notin find_process(pid[c])
    BY <2>1 DEF subprocess_death
  <2>3. changed[s] \in BOOLEAN
    BY DEF TableInv, TypeOK
  <2> HIDE DEF D, f
  <2>4. QED BY <1>2, <1>3, <2>2, <2>3
<1>4. ASSUME NEW s \in Slot, s \in D
      PROVE  /\ changed'[s] /\ unsynced'
             /\ \E c \in news : /\ s \in find_process(pid[c]) /\ id[s] = pid[c] /\ pid[c] # None
                                /\ raw'[s] = child[c] /\ child[c] \in {"stopped"} \cup Dead
  <2>1. PICK c \in subprocess_death(s, news) : f(s) = child[c]
    BY <1>4
  <2>2. c \in news /\ s \in find_process(pid[c]) /\ id[s] = pid[c]
    BY <2>1 DEF subprocess_death, find_process
  <2>3. child[c] \in {"stopped"} \cup Dead /\ c \in Child
    BY <2>2 DEF TableInv, NewsInv, TypeOK
  <2>4. pid[c] # None
    BY <2>3 DEF TableInv, OwnInv, Dead
  <2> HIDE DEF D, f
  <2>5. raw'[s] = child[c] /\ changed'[s] /\ unsynced'
    BY <1>2, <1>4, <2>1
  <2>6. QED BY <2>2, <2>3, <2>4, <2>5
<1>5. unsynced => unsynced'
  BY <1>2
<1> HIDE DEF D, f
<1>6. QED BY <1>1, <1>2, <1>3, <1>4, <1>5

\* Where the machine is after a handler.
LEMMA WokenStep ==
  ASSUME MachineType, Woken
  PROVE  \/ m' = m
         \/ m.at = "suspend" /\ m' = [m EXCEPT !.at = "wait"]
         \/ m.at = "ppoll" /\ m' = [m EXCEPT !.at = "selected"]
<1>1. [m EXCEPT !.at = m.at] = m
  BY SMT DEF MachineType
<1>2. QED BY <1>1 DEF Woken, Goto, At

\* A child that changes its status stays a child.
LEMMA LivingKept ==
  ASSUME TypeOK, NEW cs \in SUBSET Child, NEW new \in Alive \cup Dead, Changed(cs, new)
  PROVE  \A c \in Child : Living(c) => Living(c)'
BY SMT DEF TypeOK, Changed, Living

\* A machine at rest has nothing in hand.
LEMMA RestHand ==
  ASSUME m' = AtRest
  PROVE  HandInv'
<1>1. Rest
  BY Rests
<1>2. ~Making' /\ ~InHand'
  BY <1>1, SubprocessAssumption, SMT DEF Rest, Making, InHand, Freeing
<1>3. m'.op \notin Quick
  BY <1>1, SMT DEF Rest, Quick
<1>4. m'.at # "record" /\ m'.at # "free" /\ m'.c = None /\ m'.op # "sync" /\ m'.todo = {}
  BY <1>1 DEF Rest
<1>5. QED BY <1>2, <1>3, <1>4 DEF HandInv

\* The slot in hand.
LEMMA HandNext ==
  ASSUME TableInv, Next
  PROVE  HandInv'
<1> USE DEF kernel, table, objects, subs, TableInv, UCode, HandInv, InHand, Making, Living,
            MachineType, OpInv, Quick, Freeing, Continuing, Aborting, Resting
<1>1. ASSUME NEW c \in Child, Exit(c) PROVE HandInv'
  <2>1. Changed({c}, "exited") /\ "exited" \in Alive \cup Dead /\ {c} \in SUBSET Child
    BY <1>1 DEF Exit, Alive, Dead
  <2>2. \A d \in Child : Living(d) => Living(d)'
    BY <2>1, LivingKept
  <2>3. QED BY <1>1, <2>2 DEF Exit
<1>2. ASSUME NEW c \in Child, Stop(c) PROVE HandInv'
  <2>1. Changed({c}, "stopped") /\ "stopped" \in Alive \cup Dead /\ {c} \in SUBSET Child
    BY <1>2 DEF Stop, Alive, Dead
  <2>2. \A d \in Child : Living(d) => Living(d)'
    BY <2>1, LivingKept
  <2>3. QED BY <1>2, <2>2 DEF Stop
<1>3. ASSUME Interrupt PROVE HandInv'
  BY <1>3, SubprocessAssumption, SMT DEF Interrupt, Woken, Goto, At, TypeOK
<1>4. ASSUME StopSignal PROVE HandInv'
  BY <1>4, SubprocessAssumption, SMT DEF StopSignal, GetTerminalBack, Woken, Goto, At, TypeOK
<1>5. ASSUME NEW t \in Waiter, NEW c \in Child, WaitFor(t, c) PROVE HandInv'
  BY <1>5, SubprocessAssumption, SMT DEF WaitFor, Running, At, UCode, TypeOK
<1>6. ASSUME NEW t \in Thread \ Waiter, NEW kind \in Makes, Make(t, kind) PROVE HandInv'
  <2>1. PICK s \in Slot :
          /\ raw[s] = "free" /\ raw' = [raw EXCEPT ![s] = "allocated"]
          /\ m' = [m EXCEPT !.at = "block", !.op = kind, !.t = t, !.s = s, !.next = "new"]
    BY <1>6 DEF Make
  <2>2. \A c \in Child : index[c] # s
    BY <2>1, SubprocessAssumption, SMT DEF OwnInv, Owns, Reported, Alive, Dead, TypeOK
  <2>3. QED BY <1>6, <2>1, <2>2, SubprocessAssumption, SMT DEF Make, Running, At, Quiet, TypeOK
<1>7. ASSUME NEW t \in Thread \ Waiter, Read(t) PROVE HandInv'
  BY <1>7 DEF Read
<1>8. ASSUME NEW t \in Thread \ Waiter, NEW c \in Child, Delete(t, c) PROVE HandInv'
  BY <1>8, SubprocessAssumption, SMT DEF Delete, Running, At, Valid, Poll, UCode, TypeOK
<1>9. ASSUME NEW t \in Thread \ Waiter, NEW c \in Child, NEW op \in {"KILL", "TSTP",
             "continue"}, Signal(t, c, op)
      PROVE  HandInv'
  BY <1>9, SubprocessAssumption, SMT DEF Signal, Running, At, Valid, Call, UCode, TypeOK
<1>10. ASSUME NEW t \in Thread \ Waiter, NEW c \in Child, Foreground(t, c) PROVE HandInv'
  BY <1>10, SubprocessAssumption, SMT DEF Foreground, Running, At, Valid, UCode, TypeOK
<1>11. ASSUME Block PROVE HandInv'
  <2>1. CASE Making
    <3>1. m' = [m EXCEPT !.at = "fork"]
      BY <1>11, <2>1 DEF Block, AfterBlock, Goto
    <3>2. QED BY <1>11, <2>1, <3>1, SMT DEF Block, At, Quiet
  <2>2. CASE ~Making
    <3>1. /\ AfterBlock(m.op) \in {"check", "give", "sync", "sync-all", "continue"}
          /\ m.at = "block"
      BY <1>11, <2>2 DEF AfterBlock, Block, At, Primitive
    <3>2. m' = [m EXCEPT !.at = AfterBlock(m.op)] /\ UNCHANGED <<table, objects, child>>
      BY <1>11 DEF Block, Goto, Quiet
    <3>3. QED BY <2>2, <3>1, <3>2, SMT
  <2>3. QED BY <2>1, <2>2
<1>12. ASSUME NEW c \in Child, Fork(c) PROVE HandInv'
  <2>1. index[c] = None /\ known[c] = None
    BY <1>12 DEF Fork, OwnInv
  <2>2. /\ m.at = "fork" /\ m' = [m EXCEPT !.at = "record", !.c = c]
        /\ child'[c] = "running" /\ UNCHANGED <<table, objects>>
    BY <1>12 DEF Fork, At, TypeOK
  <2>3. QED BY <2>1, <2>2, SubprocessAssumption, SMT DEF Alive
<1>13. ASSUME ForkFails PROVE HandInv'
  BY <1>13, SubprocessAssumption, SMT DEF ForkFails, ErrorOut, At, Quiet, TypeOK
<1>14. ASSUME Record PROVE HandInv'
  <2>1. m.c \in Child /\ pid[m.c] # None
    BY <1>14, SMT DEF Record, At, OwnInv, Alive, Dead
  <2>2. QED BY <1>14, <2>1, SMT DEF Record, Goto, At, Quiet, TypeOK
<1>15. ASSUME Wait PROVE HandInv'
  BY <1>15, SubprocessAssumption, SMT DEF Wait, Goto, At, Quiet, TypeOK
<1>16. ASSUME Sync PROVE HandInv'
  BY <1>16, SubprocessAssumption, SMT DEF Sync, At, Quiet, TypeOK
<1>17. ASSUME SyncAll PROVE HandInv'
  BY <1>17, SubprocessAssumption, SMT DEF SyncAll, At, Quiet, TypeOK
<1>18. ASSUME Check PROVE HandInv'
  <2>1. CASE raw[m.s] \in Alive /\ m' = [m EXCEPT !.at = "kill"]
    BY <1>18, <2>1, CheckStep, SubprocessAssumption, SMT DEF TypeOK
  <2>2. CASE m' = [m EXCEPT !.at = "unwind", !.next = "run"]
    BY <1>18, <2>2, CheckStep, SubprocessAssumption, SMT DEF TypeOK
  <2>3. QED BY <1>18, CheckStep, <2>1, <2>2
<1>19. ASSUME NEW o \in {"background", "given", "fails"}, Give(o) PROVE HandInv'
  <2>1. CASE m' = [m EXCEPT !.at = "continue"]
    BY <1>19, <2>1, GiveStep, SubprocessAssumption, SMT DEF TypeOK
  <2>2. CASE m' = [m EXCEPT !.at = "unwind", !.next = "run"]
    BY <1>19, <2>2, GiveStep, SubprocessAssumption, SMT DEF TypeOK
  <2>3. QED BY <1>19, GiveStep, <2>1, <2>2
<1>20. ASSUME NEW f \in BOOLEAN, ContinueStopped(f) PROVE HandInv'
  <2>1. CASE m.op = "continue" /\ m' = [m EXCEPT !.at = "commit"]
    BY <1>20, <2>1, ContinueStep, SubprocessAssumption, SMT DEF TypeOK
  <2>2. CASE m.op # "continue" /\ m' = [m EXCEPT !.at = "wait"]
    BY <1>20, <2>2, ContinueStep, SubprocessAssumption, SMT DEF TypeOK
  <2>3. CASE m' = [m EXCEPT !.at = "unwind", !.next = "run"]
    BY <1>20, <2>3, ContinueStep, SubprocessAssumption, SMT DEF TypeOK
  <2>4. QED BY <1>20, ContinueStep, <2>1, <2>2, <2>3
<1>21. ASSUME NEW f \in BOOLEAN, Send(f) PROVE HandInv'
  <2>1. CASE m' = [m EXCEPT !.at = "commit"]
    BY <1>21, <2>1, SendStep, SubprocessAssumption, SMT DEF TypeOK
  <2>2. CASE m' = [m EXCEPT !.at = "unwind", !.next = "run"]
    BY <1>21, <2>2, SendStep, SubprocessAssumption, SMT DEF TypeOK
  <2>3. QED BY <1>21, SendStep, <2>1, <2>2
<1>22. ASSUME Unwind PROVE HandInv'
  <2>1. CASE Given /\ m' = m
    BY <1>22, <2>1, UnwindStep, SubprocessAssumption, SMT DEF Returns, AtRest, At, Goto, TypeOK
  <2>2. CASE Masked /\ Making /\ m' = m
    BY <1>22, <2>2, UnwindStep, SubprocessAssumption, SMT DEF Returns, AtRest, At, Goto, TypeOK
  <2>3. CASE Masked /\ ~Making /\ Returns
    <3>1. UNCHANGED <<table, objects, kernel>> /\ m.at \in {"commit", "unwind"}
      BY <1>22, UnwindStep DEF Ending
    <3>2. CASE m.next = "run"
      <4>1. m' = AtRest
        BY <2>3, <3>2 DEF Returns
      <4>2. QED BY <4>1, RestHand
    <3>3. CASE m.next # "run"
      <4>1. m' = [m EXCEPT !.at = m.next]
        BY <2>3, <3>3 DEF Returns
      <4>2. m.next \in {"polled", "handle", "loop"}
        BY <2>3, <3>1, <3>3 DEF NextOf
      <4>3. QED BY <2>3, <3>1, <4>1, <4>2, SMT
    <3>4. QED BY <3>2, <3>3
  <2>4. CASE Bare /\ Making /\ At("commit") /\ Returns
    BY <1>22, <2>4, UnwindStep, SubprocessAssumption, SMT DEF Returns, AtRest, At, Goto, TypeOK
  <2>5. CASE Bare /\ Making /\ At("unwind") /\ Goto("abort")
    BY <1>22, <2>5, UnwindStep, SubprocessAssumption, SMT DEF Returns, AtRest, At, Goto, TypeOK
  <2>6. QED BY <1>22, UnwindStep, <2>1, <2>2, <2>3, <2>4, <2>5
<1>23. ASSUME Abort PROVE HandInv'
  BY <1>23, SubprocessAssumption, SMT DEF Abort, Goto, At, Quiet, TypeOK
<1>24. ASSUME AbortKill PROVE HandInv'
  BY <1>24, SubprocessAssumption, SMT DEF AbortKill, Changed, Goto, At, TypeOK
<1>25. ASSUME Deallocate PROVE HandInv'
  BY <1>25, SubprocessAssumption, SMT DEF Deallocate, Goto, At, Quiet, TypeOK
<1>26. ASSUME Free PROVE HandInv'
  BY <1>26, RestHand DEF Free
<1>27. ASSUME New PROVE HandInv'
  <2>1. m.s \in Slot /\ m.c \in Child
    <3>1. Making /\ id[m.s] # None
      BY <1>27 DEF New, At
    <3>2. QED BY <3>1, Hands
  <2>2. QED BY <1>27, <2>1, SubprocessAssumption, SMT DEF New, At, UCode, TypeOK
<1>28. ASSUME Polled PROVE HandInv'
  <2>1. CASE m.then \in {"run", "poll"} /\ m' = [AtRest EXCEPT !.at = m.then, !.todo = m.todo]
    BY <1>28, <2>1, PolledStep, SubprocessAssumption, SMT DEF AtRest, TypeOK
  <2>2. CASE m.then \in {"loop", "delete"} /\ m' = [m EXCEPT !.at = m.then]
    BY <1>28, <2>2, PolledStep, SubprocessAssumption, SMT DEF AtRest, TypeOK
  <2>3. QED BY <1>28, PolledStep, <2>1, <2>2
<1>29. ASSUME Loop PROVE HandInv'
  BY <1>29, RestHand DEF Loop
<1>30. ASSUME Deleted PROVE HandInv'
  <2>1. m.c \in Child /\ m.s \in Slot /\ index[m.c] = m.s
    BY <1>30, SubprocessAssumption, SMT DEF Deleted, At
  <2>2. \A c \in Child : c # m.c => index[c] # m.s
    BY <2>1, SubprocessAssumption, SMT DEF OwnInv
  <2>3. QED BY <1>30, <2>1, <2>2, SubprocessAssumption, SMT
               DEF Deleted, Goto, At, UCode, TypeOK
<1>31. ASSUME Handle PROVE HandInv'
  BY <1>31, SubprocessAssumption, SMT DEF Handle, AtRest, At, Valid, UCode, TypeOK
<1>32. ASSUME NEW c \in Child, PollNext(c) PROVE HandInv'
  BY <1>32, SubprocessAssumption, SMT DEF PollNext, Poll, At, UCode, TypeOK
<1>33. ASSUME Notify PROVE HandInv'
  BY <1>33, RestHand DEF Notify
<1>34. ASSUME Idle PROVE HandInv'
  BY <1>34, SubprocessAssumption, SMT DEF Idle, Goto, At, UCode, TypeOK
<1>35. ASSUME Select PROVE HandInv'
  BY <1>35, SubprocessAssumption, SMT DEF Select, Goto, At, UCode, TypeOK
<1>36. ASSUME Selected PROVE HandInv'
  <2>1. CASE /\ unsynced
             /\ m' = [m EXCEPT !.at = "block", !.op = "sync-all", !.c = None, !.next = "handle"]
    BY <1>36, <2>1, SelectedStep, SubprocessAssumption, SMT DEF AtRest, TypeOK
  <2>2. CASE ~unsynced /\ m' = AtRest
    BY <2>2, RestHand
  <2>3. QED BY <1>36, SelectedStep, <2>1, <2>2
<1>37. ASSUME NEW t \in Thread, Waited(t) PROVE HandInv'
  BY <1>37 DEF Waited
<1>38. ASSUME NEW t \in Thread, Again(t) PROVE HandInv'
  <2>u. UNCHANGED <<UCode, subs, regs, waits, result>>
    BY <1>38, AgainStep
  <2>1. CASE m' = m
    BY <1>38, <2>1, AgainStep, SubprocessAssumption, SMT DEF TypeOK, ObjectType
  <2>2. CASE /\ m.at = "run" /\ loops[t] # None /\ index[loops[t]] # None /\ loops' = loops
            /\ raw[index[loops[t]]] \in Alive
            /\ m' = [m EXCEPT !.at = "block", !.op = "continue-foreground", !.t = t,
                              !.c = loops[t], !.s = index[loops[t]], !.next = "loop"]
    BY <1>38, <2>2, <2>u, SubprocessAssumption, SMT DEF TypeOK, ObjectType
  <2>3. QED BY <1>38, AgainStep, <2>1, <2>2
<1>39. ASSUME Timer PROVE HandInv'
  BY <1>39, SubprocessAssumption, SMT DEF Timer, Goto, At, TypeOK
<1>40. ASSUME Sigchld PROVE HandInv'
  <2>1. Making /\ m.at \in {"block", "fork", "record"} => raw'[m.s] = raw[m.s]
    <3>1. SUFFICES ASSUME Making, m.at \in {"block", "fork", "record"} PROVE raw'[m.s] = raw[m.s]
      OBVIOUS
    <3>2. m.s \in Slot /\ raw[m.s] = "allocated"
      BY <3>1
    <3>3. id[m.s] = None
      <4>1. id[m.s] # None => Owns(m.c, m.s) /\ m.c \in Child
        BY <3>1, Hands
      <4>2. ~(raw[m.s] \in Alive \cup Dead)
        BY <3>2 DEF Alive, Dead
      <4>3. QED BY <3>2, <4>1, <4>2, Hands
    <3>4. QED BY <1>40, <3>2, <3>3, ReapStep
  <2>2. m.at # "record"
    <3>1. ~(masked /\ m.at # "suspend")
      BY <1>40, ReapStep DEF SigchldBlocked, At
    <3>2. QED BY <3>1 DEF StackInv, Blocking
  <2>3. Woken /\ UNCHANGED <<id, objects>>
    BY <1>40, ReapStep DEF Sigchld, Reaped
  <2>4. \/ m' = m
        \/ m.at = "suspend" /\ m' = [m EXCEPT !.at = "wait"]
        \/ m.at = "ppoll" /\ m' = [m EXCEPT !.at = "selected"]
    BY <2>3, WokenStep
  <2>5. CASE m' = m
    <3>1. UNCHANGED <<m, id, index, known>> /\ (m.at = "record" => FALSE)
      BY <2>2, <2>3, <2>5
    <3>2. InHand' <=> InHand
      BY <3>1
    <3>3. Making' /\ m'.at \in {"block", "fork", "record"} => raw'[m'.s] = "allocated"
      BY <2>1, <3>1
    <3> HIDE DEF InHand, Making, Living
    <3>4. QED BY <3>1, <3>2, <3>3 DEF Making
  <2>6. CASE m.at = "suspend" /\ m' = [m EXCEPT !.at = "wait"]
    BY <2>3, <2>6, SMT
  <2>7. CASE m.at = "ppoll" /\ m' = [m EXCEPT !.at = "selected"]
    BY <2>3, <2>7, SubprocessAssumption, SMT
  <2>8. QED BY <2>4, <2>5, <2>6, <2>7
<1>41. ASSUME IoReady PROVE HandInv'
  BY <1>41, RestHand DEF IoReady
<1> HIDE DEF kernel, table, objects, subs, TableInv, UCode, HandInv, InHand, Making, Living,
             MachineType, OpInv, Quick, Freeing, Continuing, Aborting, Resting
<1>42. QED
  BY <1>1, <1>2, <1>3, <1>4, <1>5, <1>6, <1>7, <1>8, <1>9, <1>10, <1>11, <1>12, <1>13, <1>14,
     <1>15, <1>16, <1>17, <1>18, <1>19, <1>20, <1>21, <1>22, <1>23, <1>24, <1>25, <1>26,
     <1>27, <1>28, <1>29, <1>30, <1>31, <1>32, <1>33, <1>34, <1>35, <1>36, <1>37, <1>38,
     <1>39, <1>40, <1>41, SubprocessAssumption
     DEF Next, System, Program, Machine

-----------------------------------------------------------------------------
(* Who owns the slots                                                      *)

\* The machine keeps what it has in hand,
Holding ==
  /\ (m.at = "free" => m'.at = "free") /\ (Making' <=> Making) /\ (InHand' <=> InHand)
  /\ InHand => m'.s = m.s /\ m'.c = m.c

\* or it takes or gives up a slot or a child.
Taking ==
  \/ \E t \in Thread \ Waiter, kind \in Makes : Make(t, kind)
  \/ \E c \in Child : Fork(c)
  \/ Free \/ New \/ Deleted

\* Every step is one or the other.
LEMMA HoldNext ==
  ASSUME TableInv, Next
  PROVE  Holding \/ Taking
<1> DEFINE Kept == Holding \/ Taking
<1> USE DEF Holding, TableInv, InHand, Making, MachineType, OpInv, Quick, Freeing, Resting,
            Aborting
<1>1. ASSUME NEW c \in Child, Exit(c) PROVE Kept
  BY <1>1 DEF Exit
<1>2. ASSUME NEW c \in Child, Stop(c) PROVE Kept
  BY <1>2 DEF Stop
<1>3. ASSUME Interrupt PROVE Kept
  BY <1>3, SubprocessAssumption, SMT DEF Interrupt, Woken, Goto, At
<1>4. ASSUME StopSignal PROVE Kept
  BY <1>4, SubprocessAssumption, SMT DEF StopSignal, GetTerminalBack, Woken, Goto, At
<1>5. ASSUME NEW t \in Waiter, NEW c \in Child, WaitFor(t, c) PROVE Kept
  BY <1>5, SubprocessAssumption, SMT DEF WaitFor, Running, At, UCode
<1>6. ASSUME NEW t \in Thread \ Waiter, NEW kind \in Makes, Make(t, kind) PROVE Kept
  BY <1>6 DEF Taking
<1>7. ASSUME NEW t \in Thread \ Waiter, Read(t) PROVE Kept
  BY <1>7, SMT DEF Read, Running, At
<1>8. ASSUME NEW t \in Thread \ Waiter, NEW c \in Child, Delete(t, c) PROVE Kept
  BY <1>8, SubprocessAssumption, SMT DEF Delete, Running, At, Valid, Poll, UCode
<1>9. ASSUME NEW t \in Thread \ Waiter, NEW c \in Child, NEW op \in {"KILL", "TSTP",
             "continue"}, Signal(t, c, op)
      PROVE  Kept
  BY <1>9, SubprocessAssumption, SMT DEF Signal, Running, At, Valid, Call, UCode
<1>10. ASSUME NEW t \in Thread \ Waiter, NEW c \in Child, Foreground(t, c) PROVE Kept
  BY <1>10, SubprocessAssumption, SMT DEF Foreground, Running, At, Valid, UCode
<1>11. ASSUME Block PROVE Kept
  <2>1. AfterBlock(m.op) \notin {"deallocate", "free"} /\ m.at = "block"
    <3>1. m.at = "block"
      BY <1>11 DEF Block, At
    <3>2. CASE Making
      BY <3>1, <3>2 DEF AfterBlock
    <3>3. CASE ~Making
      <4>1. AfterBlock(m.op) \in {"check", "give", "sync", "sync-all", "continue"}
        BY <3>1, <3>3 DEF AfterBlock, Primitive
      <4>2. QED BY <3>1, <4>1
    <3>4. QED BY <3>2, <3>3
  <2>2. m' = [m EXCEPT !.at = AfterBlock(m.op)]
    BY <1>11 DEF Block, Goto
  <2>3. QED BY <2>1, <2>2, SMT
<1>12. ASSUME NEW c \in Child, Fork(c) PROVE Kept
  BY <1>12 DEF Taking
<1>13. ASSUME ForkFails PROVE Kept
  BY <1>13, SubprocessAssumption, SMT DEF ForkFails, ErrorOut, At, Quiet
<1>14. ASSUME Record PROVE Kept
  BY <1>14, SubprocessAssumption, SMT DEF Record, Goto, At, Quiet
<1>15. ASSUME Wait PROVE Kept
  BY <1>15, SubprocessAssumption, SMT DEF Wait, Goto, At, Quiet
<1>16. ASSUME Sync PROVE Kept
  BY <1>16, SubprocessAssumption, SMT DEF Sync, At, Quiet
<1>17. ASSUME SyncAll PROVE Kept
  BY <1>17, SubprocessAssumption, SMT DEF SyncAll, At, Quiet
<1>18. ASSUME Check PROVE Kept
  <2>1. CASE raw[m.s] \in Alive /\ m' = [m EXCEPT !.at = "kill"]
    BY <1>18, <2>1, CheckStep, SubprocessAssumption, SMT
  <2>2. CASE m' = [m EXCEPT !.at = "unwind", !.next = "run"]
    BY <1>18, <2>2, CheckStep, SubprocessAssumption, SMT
  <2>3. QED BY <1>18, CheckStep, <2>1, <2>2
<1>19. ASSUME NEW o \in {"background", "given", "fails"}, Give(o) PROVE Kept
  <2>1. CASE m' = [m EXCEPT !.at = "continue"]
    BY <1>19, <2>1, GiveStep, SubprocessAssumption, SMT
  <2>2. CASE m' = [m EXCEPT !.at = "unwind", !.next = "run"]
    BY <1>19, <2>2, GiveStep, SubprocessAssumption, SMT
  <2>3. QED BY <1>19, GiveStep, <2>1, <2>2
<1>20. ASSUME NEW f \in BOOLEAN, ContinueStopped(f) PROVE Kept
  <2>1. CASE m.op = "continue" /\ m' = [m EXCEPT !.at = "commit"]
    BY <1>20, <2>1, ContinueStep, SubprocessAssumption, SMT
  <2>2. CASE m.op # "continue" /\ m' = [m EXCEPT !.at = "wait"]
    BY <1>20, <2>2, ContinueStep, SubprocessAssumption, SMT
  <2>3. CASE m' = [m EXCEPT !.at = "unwind", !.next = "run"]
    BY <1>20, <2>3, ContinueStep, SubprocessAssumption, SMT
  <2>4. QED BY <1>20, ContinueStep, <2>1, <2>2, <2>3
<1>21. ASSUME NEW f \in BOOLEAN, Send(f) PROVE Kept
  <2>1. CASE m' = [m EXCEPT !.at = "commit"]
    BY <1>21, <2>1, SendStep, SubprocessAssumption, SMT
  <2>2. CASE m' = [m EXCEPT !.at = "unwind", !.next = "run"]
    BY <1>21, <2>2, SendStep, SubprocessAssumption, SMT
  <2>3. QED BY <1>21, SendStep, <2>1, <2>2
<1>22. ASSUME Unwind PROVE Kept
  <2>1. m.at \in {"commit", "unwind"}
    BY <1>22, UnwindStep DEF Ending
  <2>2. CASE m' = m
    BY <2>2
  <2>3. CASE Goto("abort")
    BY <2>1, <2>3, SMT DEF Goto
  <2>4. CASE Returns /\ (Making => m.at = "commit")
    <3>1. CASE m.next = "run"
      <4>1. m' = AtRest
        BY <2>4, <3>1 DEF Returns
      <4>2. ~Making
        BY <2>1, <2>4, <3>1 DEF NextOf
      <4>3. m'.at = "run" /\ m'.op = "none"
        BY <4>1, Rests DEF Rest
      <4>4. QED BY <2>1, <4>2, <4>3, SubprocessAssumption, SMT
    <3>2. CASE m.next # "run"
      <4>1. m' = [m EXCEPT !.at = m.next]
        BY <2>4, <3>2 DEF Returns
      <4>2. QED BY <2>1, <4>1, SMT
    <3>3. QED BY <3>1, <3>2
  <2>5. QED BY <1>22, <2>2, <2>3, <2>4, UnwindStep DEF At
<1>23. ASSUME Abort PROVE Kept
  BY <1>23, SubprocessAssumption, SMT DEF Abort, Goto, At, Quiet
<1>24. ASSUME AbortKill PROVE Kept
  BY <1>24, SubprocessAssumption, SMT DEF AbortKill, Changed, Goto, At
<1>25. ASSUME Deallocate PROVE Kept
  BY <1>25, SubprocessAssumption, SMT DEF Deallocate, Goto, At, Quiet
<1>26. ASSUME Free PROVE Kept
  BY <1>26 DEF Taking
<1>27. ASSUME New PROVE Kept
  BY <1>27 DEF Taking
<1>28. ASSUME Polled PROVE Kept
  <2>1. CASE m.then \in {"run", "poll"} /\ m' = [AtRest EXCEPT !.at = m.then, !.todo = m.todo]
    BY <1>28, <2>1, PolledStep, SubprocessAssumption, SMT DEF AtRest
  <2>2. CASE m.then \in {"loop", "delete"} /\ m' = [m EXCEPT !.at = m.then]
    BY <1>28, <2>2, PolledStep, SubprocessAssumption, SMT DEF AtRest
  <2>3. QED BY <1>28, PolledStep, <2>1, <2>2
<1>29. ASSUME Loop PROVE Kept
  <2>1. m.at = "loop" /\ m' = AtRest
    BY <1>29 DEF Loop, At
  <2>2. m'.at = "run" /\ m'.op = "none"
    BY <2>1, Rests DEF Rest
  <2>3. QED BY <2>1, <2>2, SubprocessAssumption, SMT
<1>30. ASSUME Deleted PROVE Kept
  BY <1>30 DEF Taking
<1>31. ASSUME Handle PROVE Kept
  BY <1>31, SubprocessAssumption, SMT DEF Handle, AtRest, At, Valid, UCode
<1>32. ASSUME NEW c \in Child, PollNext(c) PROVE Kept
  BY <1>32, SubprocessAssumption, SMT DEF PollNext, Poll, At, UCode
<1>33. ASSUME Notify PROVE Kept
  BY <1>33, SubprocessAssumption, SMT DEF Notify, AtRest, At, UCode
<1>34. ASSUME Idle PROVE Kept
  BY <1>34, SubprocessAssumption, SMT DEF Idle, Goto, At, UCode
<1>35. ASSUME Select PROVE Kept
  BY <1>35, SubprocessAssumption, SMT DEF Select, Goto, At, UCode
<1>36. ASSUME Selected PROVE Kept
  <2>1. CASE /\ unsynced
             /\ m' = [m EXCEPT !.at = "block", !.op = "sync-all", !.c = None, !.next = "handle"]
    BY <1>36, <2>1, SelectedStep, SubprocessAssumption, SMT DEF AtRest
  <2>2. CASE ~unsynced /\ m' = AtRest
    BY <1>36, <2>2, SelectedStep, SubprocessAssumption, SMT DEF AtRest
  <2>3. QED BY <1>36, SelectedStep, <2>1, <2>2
<1>37. ASSUME NEW t \in Thread, Waited(t) PROVE Kept
  BY <1>37, SMT DEF Waited, Running, At
<1>38. ASSUME NEW t \in Thread, Again(t) PROVE Kept
  <2>u. UNCHANGED <<UCode, subs, regs, waits, result>>
    BY <1>38, AgainStep
  <2>1. CASE m' = m
    BY <1>38, <2>1, AgainStep, SubprocessAssumption, SMT
  <2>2. CASE /\ m.at = "run" /\ loops[t] # None /\ index[loops[t]] # None /\ loops' = loops
            /\ raw[index[loops[t]]] \in Alive
            /\ m' = [m EXCEPT !.at = "block", !.op = "continue-foreground", !.t = t,
                              !.c = loops[t], !.s = index[loops[t]], !.next = "loop"]
    BY <1>38, <2>2, <2>u, SubprocessAssumption, SMT
  <2>3. QED BY <1>38, AgainStep, <2>1, <2>2
<1>39. ASSUME Timer PROVE Kept
  BY <1>39, SubprocessAssumption, SMT DEF Timer, Goto, At
<1>40. ASSUME Sigchld PROVE Kept
  <2>1. \/ m' = m
        \/ m.at = "suspend" /\ m' = [m EXCEPT !.at = "wait"]
        \/ m.at = "ppoll" /\ m' = [m EXCEPT !.at = "selected"]
    BY <1>40, WokenStep DEF Sigchld, Reaped
  <2>2. CASE m' = m
    BY <2>2
  <2>3. CASE m.at = "suspend" /\ m' = [m EXCEPT !.at = "wait"]
    BY <2>3, SMT
  <2>4. CASE m.at = "ppoll" /\ m' = [m EXCEPT !.at = "selected"]
    BY <2>4, SMT
  <2>5. QED BY <2>1, <2>2, <2>3, <2>4
<1>41. ASSUME IoReady PROVE Kept
  BY <1>41, SubprocessAssumption, SMT DEF IoReady, AtRest, At, UCode
<1> HIDE DEF Holding, TableInv, InHand, Making, MachineType, OpInv, Quick, Freeing, Resting,
             Aborting
<1>42. QED
  BY <1>1, <1>2, <1>3, <1>4, <1>5, <1>6, <1>7, <1>8, <1>9, <1>10, <1>11, <1>12, <1>13, <1>14,
     <1>15, <1>16, <1>17, <1>18, <1>19, <1>20, <1>21, <1>22, <1>23, <1>24, <1>25, <1>26,
     <1>27, <1>28, <1>29, <1>30, <1>31, <1>32, <1>33, <1>34, <1>35, <1>36, <1>37, <1>38,
     <1>39, <1>40, <1>41, SubprocessAssumption
     DEF Next, System, Program, Machine

\* Slots keep their owners while the machine keeps what it has in hand.
LEMMA OwnsKept ==
  ASSUME Holding, UNCHANGED <<id, index>>
  PROVE  \A c \in Child, s \in Slot : Owns(c, s)' <=> Owns(c, s)
BY DEF Holding, Owns

\* A step that changes neither numbers nor slots leaves them owned.
LEMMA OwnFrame ==
  ASSUME TableInv, Holding, UNCHANGED <<pid, id, index>>,
         \A c \in Child : child'[c] = "unborn" <=> child[c] = "unborn",
         \A c \in Child : known'[c] = None <=> known[c] = None,
         \A s \in Slot : status'[s] = status[s] \/ status'[s] # "free",
         \A s \in Slot : raw'[s] = raw[s] \/ (Reported(s) /\ Reported(s)')
  PROVE  OwnInv'
<1>1. \A c \in Child, s \in Slot : Owns(c, s)' <=> Owns(c, s)
  BY OwnsKept
<1>2. OwnInv
  BY DEF TableInv
<1>3. ASSUME NEW c \in Child, NEW s \in Slot, Owns(c, s)'
      PROVE  id'[s] = pid'[c] /\ id'[s] # None /\ child'[c] # "unborn" /\ Reported(s)'
  <2>1. id[s] = pid[c] /\ id[s] # None /\ child[c] # "unborn" /\ Reported(s)
    BY <1>1, <1>2, <1>3 DEF OwnInv
  <2>2. QED BY <2>1 DEF Reported
<1>4. \A s \in Slot : id'[s] # None => \E c \in Child : Owns(c, s)'
  BY <1>1, <1>2 DEF OwnInv
<1>5. ASSUME NEW s \in Slot, id'[s] = None, raw'[s] # "free"
      PROVE  s = m'.s /\ (m'.at = "free" \/ (Making' /\ raw'[s] = "allocated"))
  <2>1. CASE raw'[s] = raw[s]
    <3>1. s = m.s /\ (m.at = "free" \/ (Making /\ raw[s] = "allocated"))
      BY <1>2, <1>5, <2>1 DEF OwnInv
    <3>2. InHand
      BY <3>1 DEF InHand, Freeing
    <3>3. QED BY <2>1, <3>1, <3>2 DEF Holding
  <2>2. CASE Reported(s)
    <3>1. raw[s] # "free" /\ raw[s] # "allocated"
      BY <2>2 DEF Reported, Alive, Dead
    <3>2. s = m.s /\ m.at = "free"
      BY <1>2, <1>5, <3>1 DEF OwnInv
    <3>3. QED BY <3>2 DEF Holding, InHand, Freeing
  <2>3. QED BY <2>1, <2>2
<1>6. QED
  <2>1. \A c, d \in Child : index'[c] = index'[d] /\ index'[c] # None => c = d
    BY <1>2 DEF OwnInv
  <2>2. \A c \in Child : child'[c] = "unborn" <=> pid'[c] = None
    BY <1>2 DEF OwnInv
  <2>3. \A c \in Child : child'[c] = "unborn" => index'[c] = None /\ known'[c] = None
    BY <1>2 DEF OwnInv
  <2>4. \A c \in Child : index'[c] # None => known'[c] # None
    BY <1>2 DEF OwnInv
  <2>5. \A s \in Slot : id'[s] # None => status'[s] # "free"
    BY <1>2 DEF OwnInv
  <2>6. QED BY <1>3, <1>4, <1>5, <2>1, <2>2, <2>3, <2>4, <2>5 DEF OwnInv

\* Every slot keeps its owner.
LEMMA OwnNext ==
  ASSUME TableInv, Next
  PROVE  OwnInv'
<1>1. ASSUME NEW c \in Child, Holding, Exit(c) PROVE OwnInv'
  <2>1. \A d \in Child : child'[d] = "unborn" <=> child[d] = "unborn"
    BY <1>1, SMT DEF Exit, Changed, TableInv, TypeOK
  <2>2. QED BY <1>1, <2>1, OwnFrame DEF Exit, Changed, table, objects, subs
<1>2. ASSUME NEW c \in Child, Holding, Stop(c) PROVE OwnInv'
  <2>1. \A d \in Child : child'[d] = "unborn" <=> child[d] = "unborn"
    BY <1>2, SMT DEF Stop, Changed, TableInv, TypeOK
  <2>2. QED BY <1>2, <2>1, OwnFrame DEF Stop, Changed, table, objects, subs
<1>3. ASSUME Holding, Interrupt PROVE OwnInv'
  BY <1>3, OwnFrame DEF Interrupt, kernel, table, objects, subs, UCode, Quiet
<1>4. ASSUME Holding, StopSignal PROVE OwnInv'
  BY <1>4, OwnFrame DEF StopSignal, kernel, table, objects, subs, UCode, Quiet
<1>5. ASSUME NEW t \in Waiter, NEW c \in Child, Holding, WaitFor(t, c) PROVE OwnInv'
  BY <1>5, OwnFrame DEF WaitFor, kernel, table, objects, subs, UCode, Quiet
<1>6. ASSUME NEW t \in Thread \ Waiter, NEW kind \in Makes, Make(t, kind) PROVE OwnInv'
  <2>1. PICK s \in Slot :
          /\ raw[s] = "free" /\ raw' = [raw EXCEPT ![s] = "allocated"]
          /\ m' = [m EXCEPT !.at = "block", !.op = kind, !.t = t, !.s = s, !.next = "new"]
    BY <1>6 DEF Make
  <2>2. ~InHand /\ m.c = None
    BY <1>6, SubprocessAssumption, SMT
       DEF Make, Running, At, TableInv, OpInv, HandInv, InHand, Making, Resting, Freeing
  <2>3. id[s] = None
    BY <2>1, SMT DEF TableInv, OwnInv, Reported, Alive, Dead
  <2>4. m'.c = None /\ m'.s = s /\ Making'
    BY <2>1, <2>2 DEF TableInv, MachineType, Making
  <2>5. UNCHANGED <<kernel, id, status, objects>>
    BY <1>6 DEF Make, Quiet
  <2>6. \A c \in Child, r \in Slot : Owns(c, r)' <=> Owns(c, r)
    BY <2>2, <2>4, <2>5, SubprocessAssumption DEF Owns, objects, subs
  <2>7. \A c \in Child : ~Owns(c, s)
    BY <2>3 DEF TableInv, OwnInv
  <2>8. OwnInv
    BY DEF TableInv
  <2>9. \A r \in Slot : raw'[r] = IF r = s THEN "allocated" ELSE raw[r]
    BY <2>1 DEF TableInv, TypeOK
  <2>10. ~(m.at = "free") /\ ~Making
    BY <2>2 DEF InHand, Freeing
  <2>11. ASSUME NEW c \in Child, NEW r \in Slot, Owns(c, r)'
         PROVE  id'[r] = pid'[c] /\ id'[r] # None /\ child'[c] # "unborn" /\ Reported(r)'
    <3>1. Owns(c, r) /\ r # s
      BY <2>6, <2>7, <2>11
    <3>2. QED BY <2>5, <2>8, <2>9, <3>1 DEF OwnInv, Reported, kernel
  <2>12. ASSUME NEW r \in Slot, id'[r] = None, raw'[r] # "free"
         PROVE  r = m'.s /\ (m'.at = "free" \/ (Making' /\ raw'[r] = "allocated"))
    <3>1. r = s
      BY <2>5, <2>8, <2>9, <2>10, <2>12 DEF OwnInv
    <3>2. QED BY <2>4, <2>9, <3>1
  <2>13. \A r \in Slot : id'[r] # None => \E c \in Child : Owns(c, r)'
    BY <2>5, <2>6, <2>8 DEF OwnInv
  <2>14. UNCHANGED <<child, pid, id, status, index, known>>
    BY <2>5 DEF kernel, objects, subs
  <2>15. /\ \A c, d \in Child : index'[c] = index'[d] /\ index'[c] # None => c = d
         /\ \A c \in Child : child'[c] = "unborn" <=> pid'[c] = None
         /\ \A c \in Child : child'[c] = "unborn" => index'[c] = None /\ known'[c] = None
         /\ \A c \in Child : index'[c] # None => known'[c] # None
         /\ \A r \in Slot : id'[r] # None => status'[r] # "free"
    BY <2>8, <2>14 DEF OwnInv
  <2>16. QED BY <2>11, <2>12, <2>13, <2>15 DEF OwnInv
<1>7. ASSUME NEW t \in Thread \ Waiter, Holding, Read(t) PROVE OwnInv'
  BY <1>7, OwnFrame DEF Read, kernel, table, objects, subs, UCode, Quiet
<1>8. ASSUME NEW t \in Thread \ Waiter, NEW c \in Child, Holding, Delete(t, c) PROVE OwnInv'
  BY <1>8, OwnFrame DEF Delete, kernel, table, objects, subs, UCode, Quiet
<1>9. ASSUME NEW t \in Thread \ Waiter, NEW c \in Child, NEW op \in {"KILL", "TSTP",
             "continue"}, Holding, Signal(t, c, op)
      PROVE  OwnInv'
  BY <1>9, OwnFrame DEF Signal, kernel, table, objects, subs, UCode, Quiet
<1>10. ASSUME NEW t \in Thread \ Waiter, NEW c \in Child, Holding, Foreground(t, c)
       PROVE  OwnInv'
  BY <1>10, OwnFrame DEF Foreground, kernel, table, objects, subs, UCode, Quiet
<1>11. ASSUME Holding, Block PROVE OwnInv'
  BY <1>11, OwnFrame DEF Block, kernel, table, objects, subs, UCode, Quiet
<1>12. ASSUME NEW c \in Child, Fork(c) PROVE OwnInv'
  <2>1. PICK p \in Pid : pid' = [pid EXCEPT ![c] = p]
    BY <1>12 DEF Fork, FreePids
  <2>2. /\ m.at = "fork" /\ child[c] = "unborn" /\ child' = [child EXCEPT ![c] = "running"]
        /\ m' = [m EXCEPT !.at = "record", !.c = c] /\ UNCHANGED <<table, objects>>
    BY <1>12 DEF Fork, At
  <2>3. Making /\ m.s \in Slot /\ raw[m.s] = "allocated"
    BY <2>2 DEF TableInv, OpInv, HandInv, InHand
  <2>4. id[m.s] = None
    BY <2>3, SMT DEF TableInv, OwnInv, Reported, Alive, Dead
  <2>5. m'.s = m.s /\ m'.op = m.op /\ m'.at = "record" /\ Making'
    BY <2>2, <2>3 DEF TableInv, MachineType, Making
  <2>6. \A d \in Child, r \in Slot : Owns(d, r)' <=> index[d] = r
    BY <2>2, <2>4, <2>5 DEF Owns, table, objects, subs
  <2>7. \A d \in Child, r \in Slot : Owns(d, r) <=> index[d] = r
    BY <2>4 DEF Owns
  <2>8. OwnInv /\ TypeOK /\ index[c] = None
    BY <2>2 DEF TableInv, OwnInv
  <2>9. /\ \A d \in Child : d # c => pid'[d] = pid[d] /\ child'[d] = child[d]
        /\ pid'[c] = p /\ child'[c] = "running"
    BY <2>1, <2>2, <2>8 DEF TypeOK
  <2>10. ASSUME NEW d \in Child, NEW r \in Slot, Owns(d, r)'
         PROVE  id'[r] = pid'[d] /\ id'[r] # None /\ child'[d] # "unborn" /\ Reported(r)'
    <3>1. Owns(d, r) /\ d # c
      BY <2>6, <2>7, <2>8, <2>10, SubprocessAssumption
    <3>2. id[r] = pid[d] /\ id[r] # None /\ child[d] # "unborn" /\ Reported(r)
      BY <2>8, <3>1 DEF OwnInv
    <3>3. QED BY <2>2, <2>9, <3>1, <3>2 DEF Reported, table
  <2>11. \A r \in Slot : id'[r] # None => \E d \in Child : Owns(d, r)'
    <3>1. SUFFICES ASSUME NEW r \in Slot, id'[r] # None PROVE \E d \in Child : Owns(d, r)'
      OBVIOUS
    <3>2. id[r] # None
      BY <2>2, <3>1 DEF table
    <3>3. PICK d \in Child : Owns(d, r)
      BY <2>8, <3>2 DEF OwnInv
    <3>4. QED BY <2>6, <2>7, <3>3
  <2>12. \A r \in Slot : id'[r] = None /\ raw'[r] # "free" =>
           r = m'.s /\ (m'.at = "free" \/ (Making' /\ raw'[r] = "allocated"))
    BY <2>2, <2>3, <2>5, <2>8 DEF OwnInv, table
  <2>13. \A d \in Child : child'[d] = "unborn" <=> pid'[d] = None
    <3>1. p # None
      BY SubprocessAssumption
    <3>2. \A d \in Child : d # c => (child'[d] = "unborn" <=> pid'[d] = None)
      BY <2>8, <2>9 DEF OwnInv
    <3>3. QED BY <2>9, <3>1, <3>2
  <2>14. \A d \in Child : child'[d] = "unborn" => index'[d] = None /\ known'[d] = None
    <3>1. SUFFICES ASSUME NEW d \in Child, child'[d] = "unborn"
                   PROVE  index'[d] = None /\ known'[d] = None
      OBVIOUS
    <3>2. child[d] = "unborn"
      BY <2>9, <3>1
    <3>3. index[d] = None /\ known[d] = None
      BY <2>8, <3>2 DEF OwnInv
    <3>4. QED BY <2>2, <3>3 DEF objects, subs
  <2>15. UNCHANGED <<id, status, index, known>>
    BY <2>2 DEF table, objects, subs
  <2>16. /\ \A d, e \in Child : index'[d] = index'[e] /\ index'[d] # None => d = e
         /\ \A d \in Child : index'[d] # None => known'[d] # None
         /\ \A r \in Slot : id'[r] # None => status'[r] # "free"
    BY <2>8, <2>15 DEF OwnInv
  <2>17. QED BY <2>10, <2>11, <2>12, <2>13, <2>14, <2>16 DEF OwnInv
<1>13. ASSUME Holding, ForkFails PROVE OwnInv'
  BY <1>13, OwnFrame DEF ForkFails, kernel, table, objects, subs, UCode, Quiet
<1>14. ASSUME Holding, Record PROVE OwnInv'
  <2>1. /\ m.at = "record" /\ id' = [id EXCEPT ![m.s] = pid[m.c]]
        /\ raw' = [raw EXCEPT ![m.s] = "running"]
        /\ status' = [status EXCEPT ![m.s] = "running"]
        /\ UNCHANGED <<kernel, objects>>
    BY <1>14 DEF Record, At, Quiet
  <2>2. /\ Making /\ m.s \in Slot /\ m.c \in Child /\ Living(m.c)
        /\ \A c \in Child : index[c] # m.s
    BY <2>1 DEF TableInv, OpInv, HandInv, InHand
  <2>3. OwnInv /\ TypeOK
    BY DEF TableInv
  <2>4. child[m.c] # "unborn" /\ pid[m.c] # None
    BY <2>2, <2>3, SMT DEF Living, OwnInv, Alive, Dead
  <2>5. /\ \A s \in Slot : s # m.s => /\ id'[s] = id[s] /\ raw'[s] = raw[s]
                                      /\ status'[s] = status[s]
        /\ id'[m.s] = pid[m.c] /\ raw'[m.s] = "running" /\ status'[m.s] = "running"
    BY <2>1, <2>2, <2>3 DEF TypeOK
  <2>6. m'.s = m.s /\ m'.c = m.c /\ InHand' /\ Making'
    BY <1>14, <2>2 DEF Holding, InHand
  <2>7. \A c \in Child, s \in Slot : s # m.s => (Owns(c, s)' <=> index[c] = s)
    BY <2>1, <2>5, <2>6 DEF Owns, objects, subs
  <2>8. \A c \in Child, s \in Slot : s = m.s => (Owns(c, s)' <=> c = m.c)
    BY <2>1, <2>2, <2>4, <2>5, <2>6 DEF Owns, objects, subs
  <2>9. \A c \in Child, s \in Slot : s # m.s => (Owns(c, s) <=> index[c] = s)
    BY DEF Owns
  <2>10. ASSUME NEW c \in Child, NEW s \in Slot, Owns(c, s)'
         PROVE  id'[s] = pid'[c] /\ id'[s] # None /\ child'[c] # "unborn" /\ Reported(s)'
    <3>1. CASE s = m.s
      <4>1. c = m.c
        BY <2>8, <2>10, <3>1
      <4>2. id'[s] = pid[m.c] /\ raw'[s] = "running"
        BY <2>5, <3>1
      <4>3. QED BY <2>1, <2>4, <4>1, <4>2 DEF Reported, Alive, kernel
    <3>2. CASE s # m.s
      <4>1. Owns(c, s)
        BY <2>7, <2>9, <2>10, <3>2
      <4>2. id[s] = pid[c] /\ id[s] # None /\ child[c] # "unborn" /\ Reported(s)
        BY <2>3, <4>1 DEF OwnInv
      <4>3. QED BY <2>1, <2>5, <3>2, <4>2 DEF Reported, kernel
    <3>3. QED BY <3>1, <3>2
  <2>11. ASSUME NEW s \in Slot, id'[s] # None PROVE \E c \in Child : Owns(c, s)'
    <3>1. CASE s = m.s
      BY <2>2, <2>8, <3>1
    <3>2. CASE s # m.s
      <4>1. PICK c \in Child : Owns(c, s)
        BY <2>3, <2>5, <2>11, <3>2 DEF OwnInv
      <4>2. QED BY <2>7, <2>9, <3>2, <4>1
    <3>3. QED BY <3>1, <3>2
  <2>12. \A s \in Slot : id'[s] = None /\ raw'[s] # "free" =>
           s = m'.s /\ (m'.at = "free" \/ (Making' /\ raw'[s] = "allocated"))
    <3>1. SUFFICES ASSUME NEW s \in Slot, id'[s] = None, raw'[s] # "free" PROVE FALSE
      OBVIOUS
    <3>2. s # m.s
      BY <2>4, <2>5, <3>1
    <3>3. id[s] = None /\ raw[s] # "free"
      BY <2>5, <3>1, <3>2
    <3>4. QED BY <2>3, <3>2, <3>3 DEF OwnInv
  <2>13. ASSUME NEW s \in Slot, id'[s] # None PROVE status'[s] # "free"
    <3>1. CASE s = m.s
      BY <2>5, <3>1
    <3>2. CASE s # m.s
      <4>1. id[s] # None /\ status'[s] = status[s]
        BY <2>5, <2>13, <3>2
      <4>2. QED BY <2>3, <4>1 DEF OwnInv
    <3>3. QED BY <3>1, <3>2
  <2>14. UNCHANGED <<child, pid, index, known>>
    BY <2>1 DEF kernel, objects, subs
  <2>15. QED BY <2>3, <2>10, <2>11, <2>12, <2>13, <2>14 DEF OwnInv
<1>15. ASSUME Holding, Wait PROVE OwnInv'
  BY <1>15, OwnFrame DEF Wait, kernel, table, objects, subs, UCode, Quiet
<1>16. ASSUME Holding, Sync PROVE OwnInv'
  <2>1. m.s \in Slot /\ raw[m.s] \in Alive \cup Dead
    <3>1. m.op \in Quick \ {"sync-all"} /\ m.at \notin Freeing
      BY <1>16 DEF Sync, At, TableInv, OpInv, Freeing, Quick
    <3>2. QED BY <3>1, Hands
  <2>2. \A s \in Slot : status'[s] = status[s] \/ status'[s] # "free"
    BY <1>16, <2>1, SMT DEF Sync, TableInv, TypeOK, Alive, Dead
  <2>3. QED BY <1>16, <2>2, OwnFrame DEF Sync, Quiet, kernel, objects, subs
<1>17. ASSUME Holding, SyncAll PROVE OwnInv'
  BY <1>17, OwnFrame DEF SyncAll, kernel, table, objects, subs, UCode, Quiet
<1>18. ASSUME Holding, Check PROVE OwnInv'
  BY <1>18, OwnFrame DEF Check, kernel, table, objects, subs, UCode, Quiet
<1>19. ASSUME NEW o \in {"background", "given", "fails"}, Holding, Give(o) PROVE OwnInv'
  BY <1>19, OwnFrame DEF Give, kernel, table, objects, subs, UCode, Quiet
<1>20. ASSUME NEW f \in BOOLEAN, Holding, ContinueStopped(f) PROVE OwnInv'
  <2>1. \A c \in Child : child'[c] = "unborn" <=> child[c] = "unborn"
    <3>1. CASE UNCHANGED <<kernel, pending>>
      BY <3>1 DEF kernel
    <3>2. CASE KillCont(id[m.s])
      BY <3>2, SMT DEF KillCont, OfPid, TableInv, TypeOK
    <3>3. QED BY <1>20, <3>1, <3>2, ContinueStep
  <2>2. pid' = pid /\ UNCHANGED <<id, status, objects>>
    BY <1>20, ContinueStep DEF KillCont, kernel
  <2>3. \A s \in Slot : raw'[s] = raw[s] \/ (Reported(s) /\ Reported(s)')
    <3>1. CASE UNCHANGED table
      BY <3>1 DEF table
    <3>2. CASE raw[m.s] = "stopped" /\ NewRawStatus([s \in {m.s} |-> "running"])
      BY <3>2, SMT DEF NewRawStatus, Reported, Alive
    <3>3. QED BY <1>20, <3>1, <3>2, ContinueStep
  <2>4. QED BY <1>20, <2>1, <2>2, <2>3, OwnFrame DEF objects, subs
<1>21. ASSUME NEW f \in BOOLEAN, Holding, Send(f) PROVE OwnInv'
  <2>1. \A c \in Child : child'[c] = "unborn" <=> child[c] = "unborn"
    <3>1. CASE UNCHANGED <<kernel, pending>>
      BY <3>1 DEF kernel
    <3>2. CASE Kill(id[m.s], m.op)
      <4>1. CASE m.op = "KILL"
        BY <3>2, <4>1, SMT DEF Kill, Changed, OfPid, Alive, Dead, TableInv, TypeOK
      <4>2. CASE m.op # "KILL"
        BY <3>2, <4>2, SMT DEF Kill, Changed, OfPid, Alive, Dead, TableInv, TypeOK
      <4>3. QED BY <4>1, <4>2
    <3>3. QED BY <1>21, <3>1, <3>2, SendStep
  <2>2. pid' = pid /\ UNCHANGED <<table, objects>>
    BY <1>21, SendStep DEF Kill, Changed, kernel
  <2>3. QED BY <1>21, <2>1, <2>2, OwnFrame DEF table, objects, subs
<1>22. ASSUME Holding, Unwind PROVE OwnInv'
  <2>1. UNCHANGED <<kernel, table, objects>>
    BY <1>22, UnwindStep DEF TableInv
  <2>2. QED BY <1>22, <2>1, OwnFrame DEF kernel, table, objects, subs
<1>23. ASSUME Holding, Abort PROVE OwnInv'
  BY <1>23, OwnFrame DEF Abort, kernel, table, objects, subs, UCode, Quiet
<1>24. ASSUME Holding, AbortKill PROVE OwnInv'
  <2>1. \A c \in Child : child'[c] = "unborn" <=> child[c] = "unborn"
    BY <1>24, SMT DEF AbortKill, Changed, OfPid, Alive, Dead, TableInv, TypeOK
  <2>2. QED BY <1>24, <2>1, OwnFrame DEF AbortKill, Changed, table, objects, subs
<1>25. ASSUME Holding, Deallocate PROVE OwnInv'
  BY <1>25, SubprocessAssumption, SMT
     DEF Deallocate, Goto, At, Quiet, kernel, table, objects, subs, TableInv, UCode,
         OwnInv, Owns, InHand, Making, Reported, MachineType, OpInv, HandInv, Quick,
         Freeing, TypeOK
<1>26. ASSUME Free PROVE OwnInv'
  <2>1. /\ m.at = "free" /\ m' = AtRest /\ raw' = [raw EXCEPT ![m.s] = "free"]
        /\ UNCHANGED <<id, status, child, pid, index, known>>
    BY <1>26 DEF Free, At, Quiet, kernel, objects, subs
  <2>2. m'.op = "none" /\ m'.at = "run"
    BY <2>1, Rests DEF Rest
  <2>3. ~InHand'
    BY <2>2, SubprocessAssumption DEF InHand, Making, Freeing
  <2>4. id[m.s] = None /\ \A c \in Child : index[c] # m.s
    BY <2>1 DEF TableInv, HandInv, InHand, Freeing
  <2>5. OwnInv
    BY DEF TableInv
  <2>6. \A c \in Child, s \in Slot : Owns(c, s)' <=> Owns(c, s)
    BY <2>1, <2>3, <2>4 DEF Owns
  <2>7. \A s \in Slot : s # m.s => raw'[s] = raw[s]
    BY <2>1 DEF TableInv, TypeOK
  <2>8. \A c \in Child, s \in Slot : Owns(c, s) => s # m.s
    BY <2>4 DEF Owns
  <2>9. \A c \in Child, s \in Slot : Owns(c, s)' =>
          id'[s] = pid'[c] /\ id'[s] # None /\ child'[c] # "unborn" /\ Reported(s)'
    <3>1. SUFFICES ASSUME NEW c \in Child, NEW s \in Slot, Owns(c, s)
                   PROVE  /\ id'[s] = pid'[c] /\ id'[s] # None
                          /\ child'[c] # "unborn" /\ Reported(s)'
      BY <2>6
    <3>2. id[s] = pid[c] /\ id[s] # None /\ child[c] # "unborn" /\ Reported(s)
      BY <2>5, <3>1 DEF OwnInv
    <3>3. raw'[s] = raw[s]
      BY <2>7, <2>8, <3>1
    <3>4. QED BY <2>1, <3>2, <3>3 DEF Reported
  <2>10. \A s \in Slot : id'[s] # None => \E c \in Child : Owns(c, s)'
    BY <2>1, <2>5, <2>6 DEF OwnInv
  <2>11. \A s \in Slot : ~(id'[s] = None /\ raw'[s] # "free")
    <3>1. SUFFICES ASSUME NEW s \in Slot, id[s] = None, raw'[s] # "free" PROVE FALSE
      BY <2>1
    <3>2. s # m.s
      BY <2>1, <3>1 DEF TableInv, TypeOK
    <3>3. raw[s] # "free"
      BY <2>7, <3>1, <3>2
    <3>4. QED BY <2>5, <3>1, <3>2, <3>3 DEF OwnInv
  <2>12. QED BY <2>1, <2>5, <2>9, <2>10, <2>11 DEF OwnInv
<1>27. ASSUME New PROVE OwnInv'
  BY <1>27, SubprocessAssumption, SMT
     DEF New, At, UCode, kernel, table, objects, subs, TableInv, UCode, OwnInv, Owns,
         InHand, Making, Reported, MachineType, OpInv, HandInv, Quick, Freeing, TypeOK
<1>28. ASSUME Holding, Polled PROVE OwnInv'
  <2>1. status[m.s] \in Alive \cup Dead
    <3>1. m.op \in Quick \ {"sync-all"} /\ m.at \notin Freeing
      BY <1>28 DEF Polled, At, TableInv, OpInv, Freeing, Quick
    <3>2. QED BY <3>1, Hands
  <2>2. m.c \in Child /\ known[m.c] # None
    <3>1. m.op \in Quick \ {"sync-all"} /\ m.at \notin Freeing
      BY <1>28 DEF Polled, At, TableInv, OpInv, Freeing, Quick
    <3>2. index[m.c] \in Slot /\ m.c \in Child
      BY <3>1, Hands
    <3>3. QED BY <3>2, SubprocessAssumption DEF TableInv, OwnInv
  <2>3. \A c \in Child : known'[c] = None <=> known[c] = None
    BY <1>28, <2>1, <2>2, SubprocessAssumption, SMT DEF Polled, TableInv, TypeOK
  <2>4. QED BY <1>28, <2>3, OwnFrame DEF Polled, UCode, kernel, table
<1>29. ASSUME Holding, Loop PROVE OwnInv'
  BY <1>29, OwnFrame DEF Loop, kernel, table, objects, subs, UCode, Quiet
<1>30. ASSUME Deleted PROVE OwnInv'
  BY <1>30, SubprocessAssumption, SMT
     DEF Deleted, Goto, At, UCode, kernel, table, objects, subs, TableInv, UCode, OwnInv,
         Owns, InHand, Making, Reported, MachineType, OpInv, HandInv, Quick, Freeing,
         TypeOK
<1>31. ASSUME Holding, Handle PROVE OwnInv'
  BY <1>31, OwnFrame DEF Handle, kernel, table, objects, subs, UCode, Quiet
<1>32. ASSUME NEW c \in Child, Holding, PollNext(c) PROVE OwnInv'
  BY <1>32, OwnFrame DEF PollNext, kernel, table, objects, subs, UCode, Quiet
<1>33. ASSUME Holding, Notify PROVE OwnInv'
  BY <1>33, OwnFrame DEF Notify, kernel, table, objects, subs, UCode, Quiet
<1>34. ASSUME Holding, Idle PROVE OwnInv'
  BY <1>34, OwnFrame DEF Idle, kernel, table, objects, subs, UCode, Quiet
<1>35. ASSUME Holding, Select PROVE OwnInv'
  BY <1>35, OwnFrame DEF Select, kernel, table, objects, subs, UCode, Quiet
<1>36. ASSUME Holding, Selected PROVE OwnInv'
  BY <1>36, OwnFrame DEF Selected, kernel, table, objects, subs, UCode, Quiet
<1>37. ASSUME NEW t \in Thread, Holding, Waited(t) PROVE OwnInv'
  BY <1>37, OwnFrame DEF Waited, kernel, table, objects, subs, UCode, Quiet
<1>38. ASSUME NEW t \in Thread, Holding, Again(t) PROVE OwnInv'
  BY <1>38, OwnFrame DEF Again, kernel, table, objects, subs, UCode, Quiet
<1>39. ASSUME Holding, Timer PROVE OwnInv'
  BY <1>39, OwnFrame DEF Timer, kernel, table, objects, subs, UCode, Quiet
<1>40. ASSUME Holding, Sigchld PROVE OwnInv'
  <2>1. \A c \in Child : child'[c] = "unborn" <=> child[c] = "unborn"
    <3>1. child' = [c \in Child |-> IF c \in news /\ child[c] \in Dead THEN "gone" ELSE child[c]]
      BY <1>40, ReapStep
    <3>2. "unborn" \notin Dead
      BY SMT DEF Dead
    <3>3. ASSUME NEW c \in Child PROVE child'[c] = "unborn" <=> child[c] = "unborn"
      <4>1. CASE c \in news /\ child[c] \in Dead
        BY <3>1, <3>2, <4>1
      <4>2. CASE ~(c \in news /\ child[c] \in Dead)
        BY <3>1, <4>2
      <4>3. QED BY <4>1, <4>2
    <3>4. QED BY <3>3
  <2>2. UNCHANGED <<pid, id, status, objects>>
    BY <1>40, ReapStep
  <2>3. ASSUME NEW s \in Slot PROVE raw'[s] = raw[s] \/ (Reported(s) /\ Reported(s)')
    <3>1. CASE raw'[s] = raw[s]
      BY <3>1
    <3>2. CASE \E c \in news : id[s] = pid[c] /\ pid[c] # None /\ raw'[s] = child[c]
                                /\ child[c] \in {"stopped"} \cup Dead
      <4>1. Reported(s)
        BY <3>2 DEF TableInv, OwnInv
      <4>2. Reported(s)'
        BY <3>2 DEF Reported, Alive
      <4>3. QED BY <4>1, <4>2
    <3>3. QED BY <1>40, <3>1, <3>2, ReapStep
  <2>4. QED BY <1>40, <2>1, <2>2, <2>3, OwnFrame DEF objects, subs
<1>41. ASSUME Holding, IoReady PROVE OwnInv'
  BY <1>41, OwnFrame DEF IoReady, kernel, table, objects, subs, UCode, Quiet
<1>42. ASSUME Holding PROVE OwnInv'
  BY <1>42, <1>1, <1>2, <1>3, <1>4, <1>5, <1>6, <1>7, <1>8, <1>9, <1>10, <1>11, <1>12, <1>13,
     <1>14, <1>15, <1>16, <1>17, <1>18, <1>19, <1>20, <1>21, <1>22, <1>23, <1>24, <1>25,
     <1>26, <1>27, <1>28, <1>29, <1>30, <1>31, <1>32, <1>33, <1>34, <1>35, <1>36, <1>37,
     <1>38, <1>39, <1>40, <1>41, SubprocessAssumption
     DEF Next, System, Program, Machine
<1>43. ASSUME Taking PROVE OwnInv'
  BY <1>43, <1>6, <1>12, <1>26, <1>27, <1>30 DEF Taking
<1>44. QED BY <1>42, <1>43, HoldNext

-----------------------------------------------------------------------------
(* The table is sound, and every primitive undoes what it did              *)

\* At first no slot is used, and nothing is recorded.
LEMMA TableInit ==
  ASSUME Init
  PROVE  TableInv
<1> USE DEF Init
<1>1. TypeOK
  BY DEF TypeOK
<1>2. MachineType
  BY Places, Primitives DEF MachineType, AtRest
<1>3. ObjectType
  BY DEF ObjectType
<1>4. StackInv
  BY SMT DEF StackInv, AtRest, Blocking, Continuing, Ending, Aborting, Resting, Between
<1>5. OpInv
  BY SubprocessAssumption, SMT
     DEF OpInv, AtRest, Making, NextOf, Resting, Aborting, Freeing, Blocking, Continuing
<1>6. HandInv
  BY SubprocessAssumption, SMT DEF HandInv, InHand, Making, AtRest, Freeing, Continuing, Quick
<1>7. OwnInv
  BY SubprocessAssumption, SMT DEF OwnInv, Owns, InHand, Making, AtRest, Freeing
<1>8. NewsInv
  BY DEF NewsInv, Dead
<1>9. QED BY <1>1, <1>2, <1>3, <1>4, <1>5, <1>6, <1>7, <1>8 DEF TableInv

\* Every step of the machine and of the operating system keeps the table.
LEMMA TableNext ==
  ASSUME TableInv, [Next]_vars
  PROVE  TableInv'
<1>1. ASSUME Next PROVE TableInv'
  BY <1>1, TypeNext, MachineNext, ObjectNext, StackNext, OpNext, HandNext, OwnNext, NewsNext
     DEF TableInv
<1>2. ASSUME UNCHANGED vars PROVE TableInv'
  <2> USE <1>2 DEF vars, kernel, table, objects, subs
  <2>1. TypeOK' /\ MachineType' /\ ObjectType' /\ NewsInv'
    <3>1. TypeOK'
      BY DEF TableInv, TypeOK
    <3>2. MachineType'
      BY DEF TableInv, MachineType
    <3>3. ObjectType'
      BY DEF TableInv, ObjectType
    <3>4. NewsInv'
      BY DEF TableInv, NewsInv
    <3>5. QED BY <3>1, <3>2, <3>3, <3>4
  <2>2. StackInv'
    <3>1. (Bare' <=> Bare) /\ (Masked' <=> Masked) /\ (Given' <=> Given)
      BY StackKept
    <3>2. (Making' <=> Making) /\ UNCHANGED <<m, dstack, masked, foreground, tty>>
      BY DEF Making
    <3>3. QED BY <3>1, <3>2, SMT DEF TableInv, StackInv
  <2>3. OpInv'
    BY DEF TableInv, OpInv, Making
  <2>4. HandInv'
    BY DEF TableInv, HandInv, InHand, Making, Living
  <2>5. OwnInv'
    <3>1. Holding
      BY DEF Holding, Making, InHand
    <3>2. QED BY <3>1, OwnFrame
  <2>6. QED BY <2>1, <2>2, <2>3, <2>4, <2>5 DEF TableInv
<1>3. QED BY <1>1, <1>2

\* The invariant that the rest is shown with.
THEOREM TableInvariant == Spec => []TableInv
<1>1. Init => TableInv
  BY TableInit
<1>2. TableInv /\ [Next]_vars => TableInv'
  BY TableNext
<1>3. QED BY <1>1, <1>2, PTL DEF Spec

\* The process table: every subprocess object has the slot of its own process, and
\* outside the primitives a slot in use has an object, whatever deaths are reported while
\* slots are made and given up, and even if process numbers come back.
THEOREM TableCorrect == Spec => []TableSound
<1>1. ASSUME TableInv PROVE TableSound
  <2> USE <1>1 DEF TableInv
  <2>1. \A c \in Child : Valid(c) => id[index[c]] = pid[c]
    <3>1. SUFFICES ASSUME NEW c \in Child, index[c] # None PROVE id[index[c]] = pid[c]
      BY DEF Valid
    <3>2. index[c] \in Slot /\ Owns(c, index[c])
      BY <3>1 DEF TypeOK, Owns
    <3>3. QED BY <3>2 DEF OwnInv
  <2>2. ASSUME At("run"), NEW s \in Slot, raw[s] # "free" PROVE \E c \in Child : index[c] = s
    <3>1. ~InHand /\ ~Making
      BY <2>2, SubprocessAssumption DEF At, OpInv, InHand, Making, Resting, Freeing
    <3>2. id[s] # None
      BY <2>2, <3>1 DEF OwnInv, At
    <3>3. PICK c \in Child : Owns(c, s)
      BY <3>2 DEF OwnInv
    <3>4. QED BY <3>1, <3>3 DEF Owns
  <2>3. QED BY <2>1, <2>2 DEF TableSound, SlotsOwned
<1>2. QED BY <1>1, TableInvariant, PTL

\* However a primitive ends, signals are unblocked, Scheme has its terminal back, nothing
\* is left to undo, and no slot is half made.
THEOREM RestoredCorrect == Spec => []Restored
<1>1. ASSUME TableInv PROVE Restored
  <2> USE <1>1 DEF TableInv
  <2>1. SUFFICES ASSUME At("run")
                 PROVE  /\ ~masked /\ dstack = << >> /\ foreground = None /\ tty = OurTerminal
                        /\ \A s \in Slot : raw[s] # "allocated"
    BY DEF Restored
  <2>2. ~masked /\ dstack = << >> /\ foreground = None /\ tty = OurTerminal
    BY <2>1, SMT DEF At, StackInv, Blocking, Continuing, Ending, Resting
  <2>3. ~Making
    BY <2>1, SubprocessAssumption DEF At, OpInv, Making, Resting
  <2>4. ASSUME NEW s \in Slot, raw[s] = "allocated" PROVE FALSE
    <3>1. id[s] # None
      BY <2>1, <2>3, <2>4 DEF OwnInv, At
    <3>2. Reported(s)
      BY <3>1 DEF OwnInv
    <3>3. QED BY <2>4, <3>2 DEF Reported, Alive, Dead
  <2>5. QED BY <2>2, <2>4
<1>2. QED BY <1>1, TableInvariant, PTL

=============================================================================
