------------------------------ MODULE Bindings ------------------------------
(***************************************************************************)
(* What environments promise: a chain of frames with variables, where two   *)
(* cells may be one variable.  There are no caches and no compiled code: a  *)
(* reference in compiled code is a reference from its environment.          *)
(***************************************************************************)
CONSTANTS Frame, Global, NoFrame, Symbol, Params, Stored, Macro, Unassigned, Unbound, Absent

VARIABLES
    parent,    \* of each frame
    value,     \* value[p]: the value of cell p, Unbound or Absent
    same       \* the pairs of cells that are one variable

vars == <<parent, value, same>>

Cell == Frame \X Symbol
NoCell == <<NoFrame, NoFrame>>
Nothing == [p \in Cell |-> IF p[1] = Global \/ p[2] \in Params[p[1]] THEN Unbound ELSE Absent]

\* The cell that a symbol means in a frame: the nearest one that is bound, or
\* else the global one.
Find(f, s) ==
    LET find[g \in Frame \cup {NoFrame}] ==
            IF g = NoFrame THEN NoCell
            ELSE IF g = Global \/ value[<<g, s>>] \notin {Unbound, Absent} THEN <<g, s>>
            ELSE find[parent[g]]
    IN  find[f]

Set(p, v) == [q \in Cell |-> IF <<p, q>> \in same THEN v ELSE value[q]]

Assign(f, s, v) ==
    /\ Find(f, s) # NoCell
    /\ value[Find(f, s)] \notin {Unbound, Macro}
    /\ value' = Set(Find(f, s), v)
    /\ UNCHANGED <<parent, same>>

Define(f, s, v) ==
    /\ value' = Set(<<f, s>>, v)
    /\ UNCHANGED <<parent, same>>

\* The target, and what was one variable with it, becomes one with the source.
Link(target, source) ==
    /\ value' = Set(target, value[source])
    /\ same' = same \cup {pq \in Cell \X Cell :
                  \E rs \in {<<target, source>>, <<source, target>>} :
                      <<pq[1], rs[1]>> \in same /\ <<rs[2], pq[2]>> \in same}
    /\ UNCHANGED parent

Unbind(p) ==
    /\ value' = [value EXCEPT ![p] = Nothing[p]]
    /\ UNCHANGED <<parent, same>>

Init ==
    /\ value = [p \in Cell |-> IF p[1] # Global /\ p[2] \in Params[p[1]]
                               THEN Unassigned ELSE Nothing[p]]
    /\ same = {<<p, p>> : p \in Cell}

Next ==
    \/ \E f \in Frame, s \in Symbol, v \in Stored : Define(f, s, v)
    \/ \E f \in Frame, s \in Symbol, v \in Stored \ {Macro} : Assign(f, s, v)
    \/ \E f, g \in Frame, s, t \in Symbol :
        /\ Find(g, t) # NoCell
        /\ value[Find(g, t)] # Unbound
        /\ Link(<<f, s>>, Find(g, t))
    \/ \E p \in Cell : Unbind(p)

Spec == Init /\ [][Next]_vars
=============================================================================
