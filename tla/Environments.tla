---------------------------- MODULE Environments ----------------------------
(***************************************************************************)
(* Variables of environments and the caches of compiled code               *)
(* (microcode/lookup.c, lookprm.c, and make_uuo_link of cmpint.c).         *)
(*                                                                         *)
(* A binding is a cell in a frame.  When compiled code refers to it, the    *)
(* cell holds a reference trap that points to a cache; the cache holds the  *)
(* value and the lists of the places in compiled blocks (sites) that refer  *)
(* to it.  A lookup site points to the cache.  An operator site is a "UUO   *)
(* link": it holds the procedure itself, and must be written again when the *)
(* variable is assigned.  So once a cache has operator sites, its           *)
(* assignment sites point to a clone that traps.  Definitions, links and    *)
(* unbindings move sites between caches.                                   *)
(*                                                                         *)
(* All of the memory is one record, and each operation of lookup.c is an    *)
(* operator from the memory before to the memory after.                     *)
(***************************************************************************)
EXTENDS Naturals, FiniteSets, SequencesExt

CONSTANTS
    Frame,        \* environments
    Global,       \* THE_GLOBAL_ENV
    NoFrame,      \* THE_NULL_ENV
    Parents,      \* the trees of frames that are tried
    Symbol,
    Params,       \* Params[f]: the parameters of f's lambda
    Value,        \* objects that are not reference traps
    Stored,       \* what the program stores in variables
    Macro,        \* a macro trap
    Unassigned, Unbound,
    Absent,       \* the frame has no cell for the symbol
    Id,           \* storage for reference traps and for caches
    Site,         \* places in compiled blocks
    SiteEnv,      \* the environment a site's variable is looked up in
    BlockEnv,     \* cc_block_environment of the site's block
    SiteSymbol, SiteKind,
    None,
    Names,        \* the cells that the program defines and links
    Reclaimable,  \* the sites whose block may be reclaimed
    Disciplined   \* whether the program keeps to the discipline below

ASSUME EnvironmentsAssumption ==
    /\ Global \in Frame
    /\ NoFrame \notin Frame
    /\ Parents \subseteq {p \in [Frame -> Frame \cup {NoFrame}] : p[Global] = NoFrame}
    /\ Params \in [Frame -> SUBSET Symbol]
    /\ SiteEnv \in [Site -> Frame]
    /\ BlockEnv \in [Site -> Frame]
    /\ SiteSymbol \in [Site -> Symbol]
    /\ SiteKind \in [Site -> {"lookup", "assignment", "operator"}]
    /\ Names \subseteq Frame \X Symbol
    /\ Stored \subseteq Value \cup {Macro, Unassigned}
    /\ Cardinality({Macro, Unassigned, Unbound, Absent, None}) = 5
    /\ ({Macro, Unassigned, Unbound, Absent, None} \cup Value) \cap Id = {}
    /\ {Macro, Unassigned, Unbound, Absent, None} \cap Value = {}

VARIABLE mem

Kinds == {"lookup", "assignment", "operator"}
Contents == Value \cup {Macro, Unassigned, Unbound}
Trapped(x) == x \in {Macro, Unassigned, Unbound}
Cell == Frame \X Symbol
NoCell == <<NoFrame, None>>

\* A block before it is linked, and one the garbage collector has reclaimed.
Unlinked == [state |-> "unlinked", cache |-> None, clone |-> FALSE, value |-> None]
Reclaimed == [Unlinked EXCEPT !.state = "reclaimed"]

\* The three lists of references: of each kind, entries for names.
NoRefs == [k \in Kinds |-> <<>>]
NoCache == [value |-> None, clone |-> FALSE, lists |-> NoRefs]

-----------------------------------------------------------------------------
(* Cells *)

\* scan_frame with find_unbound_p: the frame has a cell for the symbol.
HasCell(m, f, s) == f = Global \/ m.cell[<<f, s>>] # Absent

\* scan_frame without it: an argument that was unbound is passed over.
Visible(m, f, s) ==
    /\ HasCell(m, f, s)
    /\ f # Global /\ s \in Params[f] => m.cell[<<f, s>>] # Unbound

\* The frame at which find_binding_cell ends.
FindFrame(m, s) ==
    LET find[f \in Frame] ==
            IF Visible(m, f, s) \/ m.parent[f] = NoFrame THEN f ELSE find[m.parent[f]]
    IN  find

FindBindingCell(m, f, s) ==
    IF f = NoFrame \/ ~Visible(m, FindFrame(m, s)[f], s)
    THEN NoCell
    ELSE <<FindFrame(m, s)[f], s>>

\* TRAP_COMPILER_CACHED and GET_TRAP_CACHE.
Cached(m, p) == p # NoCell /\ m.cell[p] \in Id
CacheOf(m, p) == m.trap[m.cell[p]]

\* Two cells hold one variable.
Shared(m, p, q) == p = q \/ (Cached(m, p) /\ Cached(m, q) /\ CacheOf(m, p) = CacheOf(m, q))

Dereference(m, p) ==
    IF Cached(m, p) THEN m.cache[CacheOf(m, p)].value ELSE m.cell[p]

\* lookup_variable: the value, or the trap that says what is wrong.
LookupVariable(m, f, s) ==
    LET p == FindBindingCell(m, f, s)
    IN  IF p = NoCell THEN Unbound ELSE Dereference(m, p)

-----------------------------------------------------------------------------
(* Caches *)

FreeTrap(m) == CHOOSE i \in Id : \A p \in Cell : m.cell[p] # i
FreeCache(m) ==
    CHOOSE i \in Id : /\ \A p \in Cell : Cached(m, p) => CacheOf(m, p) # i
                      /\ \A r \in Site : m.link[r].cache # i

GuaranteeCache(m, p) ==
    IF Cached(m, p) THEN m
    ELSE LET t == FreeTrap(m)
             c == FreeCache(m)
         IN  [m EXCEPT !.trap[t] = c,
                       !.cache[c] = [NoCache EXCEPT !.value = m.cell[p]],
                       !.cell[p] = t]

Live(m, r) == m.link[r] # Reclaimed
Linked(m, r) == m.link[r].state = "linked"
RefsOf(m, c, k) == UNION {e.refs : e \in Range(m.cache[c].lists[k])}

\* install_cache and make_uuo_link: what is written into the block.  The link of
\* an operator whose variable holds a trap looks the variable up at each call.
LinkTo(m, c, r) ==
    [state |-> "linked", cache |-> c,
     clone |-> SiteKind[r] = "assignment" /\ m.cache[c].clone,
     value |-> IF SiteKind[r] = "operator" /\ ~Trapped(m.cache[c].value)
               THEN m.cache[c].value ELSE None]

InstallCache(m, c, R) ==
    [m EXCEPT !.link = [r \in Site |-> IF r \in R THEN LinkTo(m, c, r) ELSE @[r]]]

\* WALK_REFERENCES drops dead references and the entries that are then empty.
DropDead(m, c, k) ==
    LET list == m.cache[c].lists[k]
        alive == [i \in DOMAIN list |-> [list[i] EXCEPT !.refs = {r \in @ : Live(m, r)}]]
    IN  [m EXCEPT !.cache[c].lists[k] = SelectSeq(alive, LAMBDA e : e.refs # {})]

\* It also does something with the references that are left: here, it installs a
\* cache.
WalkReferences(m, c, k, to) ==
    LET w == DropDead(m, c, k) IN InstallCache(w, to, RefsOf(w, c, k))

\* Whether there are references is asked of the list: entries that have become
\* empty count.
UpdateClone(m, c) ==
    LET needed == \A k \in {"assignment", "operator"} : m.cache[c].lists[k] # <<>>
    IN  IF needed = m.cache[c].clone THEN m
        ELSE WalkReferences([m EXCEPT !.cache[c].clone = needed], c, "assignment", c)

\* count_references, to see how much space is needed, drops the dead ones first.
UpdateUuoLinks(m, c, v) ==
    LET w == [DropDead(m, c, "operator") EXCEPT !.cache[c].value = v]
    IN  InstallCache(UpdateClone(w, c), c, RefsOf(w, c, "operator"))

\* find_references_named: the first entry of the name.
Named(list, s) == {i \in DOMAIN list : list[i].name = s}
FindReferencesNamed(list, s) == Min(Named(list, s))

\* add_reference: a dead reference in the entry of the name is used again.
AddReference(m, c, r) ==
    LET list == m.cache[c].lists[SiteKind[r]]
        i == FindReferencesNamed(list, SiteSymbol[r])
        dead == {d \in list[i].refs : ~Live(m, d)}
    IN  [m EXCEPT !.cache[c].lists[SiteKind[r]] =
            IF Named(list, SiteSymbol[r]) = {}
            THEN <<[name |-> SiteSymbol[r], refs |-> {r}]>> \o list
            ELSE [list EXCEPT ![i].refs =
                    (IF dead = {} THEN @ ELSE @ \ {CHOOSE d \in dead : TRUE}) \cup {r}]]

\* move_ref_pair_p: the environment of the block descends from the frame.
Descends(m, f) ==
    LET in[g \in Frame] == g = f \/ (m.parent[g] # NoFrame /\ in[m.parent[g]]) IN in

MovingRefs(m, c, k, f, s) ==
    LET list == m.cache[c].lists[k]
    IN  IF Named(list, s) = {} THEN {}
        ELSE {r \in list[FindReferencesNamed(list, s)].refs :
                Live(m, r) /\ Descends(m, f)[BlockEnv[r]]}

\* delete_ref_pairs.  Dead references in the entry go too.  Nothing is written
\* into the blocks.
DeleteRefPairs(m, c, k, f, s) ==
    LET list == m.cache[c].lists[k]
    IN  IF Named(list, s) = {} THEN m
        ELSE [m EXCEPT !.cache[c].lists[k][FindReferencesNamed(list, s)].refs =
                {r \in @ : Live(m, r)} \ MovingRefs(m, c, k, f, s)]

\* move_ref_pairs.  From a cache to itself, the loop takes each pair that it has
\* just put back, and does not end.
MoveRefPairs(m, from, to, k, f, s) ==
    LET R == MovingRefs(m, from, k, f, s)
        d == DeleteRefPairs(m, from, k, f, s)
        list == d.cache[to].lists[k]
        put == IF R = {} THEN list
               ELSE IF Named(list, s) = {} THEN <<[name |-> s, refs |-> R]>> \o list
               ELSE [list EXCEPT ![FindReferencesNamed(list, s)].refs = @ \cup R]
    IN  IF from = to THEN [m EXCEPT !.stuck = @ \/ R # {}]
        ELSE InstallCache([d EXCEPT !.cache[to].lists[k] = put], to, R)

UpdateCacheReferences(m, from, p, f, s) ==
    LET g == GuaranteeCache(m, p)
        to == CacheOf(g, p)
        l == MoveRefPairs(g, from, to, "lookup", f, s)
        a == MoveRefPairs(l, from, to, "assignment", f, s)
        o == MoveRefPairs(a, from, to, "operator", f, s)
        dl == DeleteRefPairs(m, from, "lookup", f, s)
        da == DeleteRefPairs(dl, from, "assignment", f, s)
    IN  UpdateClone(IF p = NoCell THEN DeleteRefPairs(da, from, "operator", f, s)
                    ELSE UpdateClone(o, to),
                    from)

\* move_all_references: the lists of one cache go to the end of another's.
MoveAllReferences(m, from, to, k) ==
    LET w == WalkReferences(m, from, k, to)
    IN  [w EXCEPT !.cache[to].lists[k] = @ \o w.cache[from].lists[k],
                  !.cache[from].lists[k] = <<>>]

-----------------------------------------------------------------------------
(* Operations *)

Strengthen(m, f, s) == IF f = Global THEN [m EXCEPT !.strong = @ \cup {s}] ELSE m
Weaken(m, f, s) == IF f = Global THEN [m EXCEPT !.strong = @ \ {s}] ELSE m

\* Mutant: the operator links are not written again.
AssignVariableCacheOnly(m, c, v, force) ==
    IF m.cache[c].value \in {Unbound, Macro} /\ ~force THEN m
    ELSE [m EXCEPT !.cache[c].value = v]

\* assign_variable_cache
AssignVariableCache(m, c, v, force) ==
    IF m.cache[c].value \in {Unbound, Macro} /\ ~force THEN m
    ELSE IF m.cache[c].lists["operator"] # <<>> THEN UpdateUuoLinks(m, c, v)
    ELSE [m EXCEPT !.cache[c].value = v]

\* assign_variable_end
AssignVariableEnd(m, p, v, force) ==
    IF Cached(m, p) THEN AssignVariableCache(m, CacheOf(m, p), v, force)
    ELSE IF m.cell[p] \in {Unbound, Macro} /\ ~force THEN m
    ELSE [m EXCEPT !.cell[p] = v]

AssignVariable(m, f, s, v) ==
    LET p == FindBindingCell(m, f, s)
    IN  IF p = NoCell THEN m ELSE AssignVariableEnd(m, p, v, FALSE)

\* Mutants: the references stay with the binding that is shadowed; a symbol with
\* a global value is held weakly.
DefineVariableKeepsReferences(m, f, s, v) ==
    IF HasCell(m, f, s) THEN AssignVariableEnd(Strengthen(m, f, s), <<f, s>>, v, TRUE)
    ELSE [m EXCEPT !.cell[<<f, s>>] = v]

DefineVariableWeakly(m, f, s, v) ==
    LET shadowed == FindBindingCell(m, m.parent[f], s)
        e == [m EXCEPT !.cell[<<f, s>>] = v]
    IN  IF HasCell(m, f, s) THEN AssignVariableEnd(m, <<f, s>>, v, TRUE)
        ELSE IF Cached(m, shadowed)
        THEN UpdateCacheReferences(e, CacheOf(m, shadowed), <<f, s>>, f, s)
        ELSE e

\* The frame gets a binding, and the references below it that now mean this
\* binding leave the one it shadows.
DefineVariable(m, f, s, v) ==
    LET shadowed == FindBindingCell(m, m.parent[f], s)
        e == [m EXCEPT !.cell[<<f, s>>] = v]
    IN  IF HasCell(m, f, s) THEN AssignVariableEnd(Strengthen(m, f, s), <<f, s>>, v, TRUE)
        ELSE IF Cached(m, shadowed)
        THEN UpdateCacheReferences(e, CacheOf(m, shadowed), <<f, s>>, f, s)
        ELSE e

\* Mutant: the target's cache keeps its value.
JoinCachesKeepingValue(m, target, source) ==
    LET to == CacheOf(m, target)
        from == CacheOf(m, source)
        l == MoveAllReferences(DropDead(m, to, "operator"), from, to, "lookup")
        a == MoveAllReferences(l, from, to, "assignment")
        o == MoveAllReferences(a, from, to, "operator")
        u == UpdateClone(UpdateClone(o, from), to)
    IN  [u EXCEPT !.trap[m.cell[source]] = to, !.cell[source] = m.cell[target]]

\* link_variables when both variables have caches.
JoinCaches(m, target, source) ==
    LET to == CacheOf(m, target)
        from == CacheOf(m, source)
        v == [DropDead(m, to, "operator") EXCEPT !.cache[to].value = m.cache[from].value]
        l == MoveAllReferences(v, from, to, "lookup")
        a == MoveAllReferences(l, from, to, "assignment")
        o == MoveAllReferences(a, from, to, "operator")
        u == UpdateClone(UpdateClone(o, from), to)
    IN  [u EXCEPT !.trap[m.cell[source]] = to, !.cell[source] = m.cell[target]]

LinkVariables(m, tf, ts, sf, ss) ==
    LET source == FindBindingCell(m, sf, ss)
        target == <<tf, ts>>
        m1 == IF HasCell(m, tf, ts) THEN Strengthen(m, tf, ts) ELSE m
        g == GuaranteeCache(m1, source)
    IN  IF source = NoCell \/ m.cell[source] = Unbound \/ source = target THEN m
        ELSE IF ~(HasCell(m, tf, ts) /\ Cached(m, target))
        THEN DefineVariable(g, tf, ts, g.cell[source])
        ELSE IF ~Cached(m, source)
        THEN [m1 EXCEPT !.cache[CacheOf(m, target)].value = m.cell[source],
                        !.cell[source] = m.cell[target]]
        ELSE IF CacheOf(m, source) = CacheOf(m, target) THEN m1
        ELSE JoinCaches(m1, target, source)

\* unbind_variable_1: a binding of an extension is removed, an argument is not.
RemoveBinding(m, p) ==
    [m EXCEPT !.cell[p] = IF p[1] = Global \/ p[2] \in Params[p[1]] THEN Unbound ELSE Absent]

\* Mutant: the binding that takes the references over is looked for from the frame
\* itself, before its binding is removed.
UnbindCachedVariableFromFrame(m, p) ==
    RemoveBinding(UpdateCacheReferences(m, CacheOf(m, p), FindBindingCell(m, p[1], p[2]),
                                        p[1], p[2]),
                  p)

\* unbind_cached_variable
UnbindCachedVariable(m, p) ==
    UpdateCacheReferences(RemoveBinding(m, p), CacheOf(m, p),
                          FindBindingCell(m, m.parent[p[1]], p[2]), p[1], p[2])

UnbindVariable(m, f, s) ==
    LET p == FindBindingCell(m, f, s)
        w == Weaken(m, p[1], s)
    IN  IF p = NoCell THEN m
        ELSE IF Dereference(m, p) = Unbound THEN w
        ELSE IF ~Cached(m, p) THEN RemoveBinding(w, p)
        ELSE IF p[1] = Global THEN [w EXCEPT !.cache[CacheOf(m, p)].value = Unbound]
        ELSE UnbindCachedVariable(m, p)

\* add_cache_reference.  Without a binding, and without the global environment,
\* the outermost frame gets a cell.
AddCacheReference(m, r) ==
    LET s == SiteSymbol[r]
        p == FindBindingCell(m, SiteEnv[r], s)
        q == IF p = NoCell THEN <<FindFrame(m, s)[SiteEnv[r]], s>> ELSE p
        e == IF p = NoCell THEN [m EXCEPT !.cell[q] = Unbound] ELSE Strengthen(m, p[1], s)
        g == GuaranteeCache(e, q)
        c == CacheOf(g, q)
    IN  InstallCache(UpdateClone(AddReference(g, c, r), c), c, {r})

\* An assignment by compiled code: a store into the cache, unless a trap is found
\* there, as in a clone; then compiler_assignment_trap.
CompiledAssignment(m, r, v) ==
    LET c == m.link[r].cache
    IN  IF m.link[r].clone \/ Trapped(m.cache[c].value)
        THEN AssignVariableCache(m, c, v, FALSE)
        ELSE [m EXCEPT !.cache[c].value = v]

\* A call by compiled code: the procedure in the link, or what
\* comutil_operator_lookup_trap finds.
CompiledOperator(m, r) ==
    IF m.link[r].value # None THEN m.link[r].value ELSE m.cache[m.link[r].cache].value

-----------------------------------------------------------------------------
(* Discipline: what a program does not do with its links *)

\* A definition does not shadow a variable that is linked to a frame below, or
\* whose references came from two linked variables, and does not bring back an
\* argument that was unbound.
MayDefine(m, f, s) ==
    LET p == FindBindingCell(m, m.parent[f], s)
    IN  IF HasCell(m, f, s) THEN Visible(m, f, s)
        ELSE Cached(m, p) =>
                /\ ~\E q \in Cell : q # p /\ Descends(m, f)[q[1]] /\ Shared(m, p, q)
                /\ \A k \in Kinds : Cardinality(Named(m.cache[CacheOf(m, p)].lists[k], s)) <= 1

\* A link makes a new name for a variable, as packages do.  When
\* both have caches, one reference trap stands in all the cells of the source.
MayLink(m, tf, ts, sf, ss) ==
    /\ MayDefine(m, tf, ts)
    /\ HasCell(m, tf, ts) => Dereference(m, <<tf, ts>>) = Unbound
    /\ (HasCell(m, tf, ts) /\ Cached(m, <<tf, ts>>)) =>
            LET source == FindBindingCell(m, sf, ss)
            IN  \A q \in Cell : Shared(m, q, source) => m.cell[q] = m.cell[source]
    /\ ~Shared(m, FindBindingCell(m, tf, ts), FindBindingCell(m, sf, ss))

\* A variable that is unbound is not linked, and shadows another; so it is not
\* global.
MayUnbind(m, p) ==
    /\ p # NoCell
    /\ FindBindingCell(m, m.parent[p[1]], p[2]) # NoCell
    /\ ~\E q \in Cell : q # p /\ Shared(m, p, q)

\* Traps and caches that nothing reaches are garbage.
Sweep(m) ==
    LET traps == {m.cell[p] : p \in Cell} \cap Id
        caches == {m.trap[t] : t \in traps} \cup {m.link[r].cache : r \in Site}
    IN  [m EXCEPT !.trap = [i \in Id |-> IF i \in traps THEN @[i] ELSE None],
                  !.cache = [i \in Id |-> IF i \in caches THEN @[i] ELSE NoCache]]

-----------------------------------------------------------------------------
(* The program *)

Init == \E parent \in Parents :
        mem = [parent |-> parent,
               cell   |-> [p \in Cell |-> IF p[1] = Global THEN Unbound
                                          ELSE IF p[2] \in Params[p[1]] THEN Unassigned
                                          ELSE Absent],
               trap   |-> [i \in Id |-> None],
               cache  |-> [i \in Id |-> NoCache],
               link   |-> [r \in Site |-> Unlinked],
               strong |-> {},
               stuck  |-> FALSE]

Becomes(m) == mem' = Sweep(m)

Assign(f, s, v) == Becomes(AssignVariable(mem, f, s, v))

Define(f, s, v) ==
    /\ Disciplined => MayDefine(mem, f, s)
    /\ Becomes(DefineVariable(mem, f, s, v))

\* Prior to the call, the source must be bound (environments.texi).
Link(tf, ts, sf, ss) ==
    /\ LookupVariable(mem, sf, ss) # Unbound
    /\ Disciplined => MayLink(mem, tf, ts, sf, ss)
    /\ Becomes(LinkVariables(mem, tf, ts, sf, ss))

\* The collector is asked for space after the source has its cache, before the
\* target is defined; the primitive starts again afterwards.
InterruptedLink(tf, ts, sf, ss) ==
    LET source == FindBindingCell(mem, sf, ss)
    IN  /\ Disciplined => MayLink(mem, tf, ts, sf, ss)
        /\ source \notin {NoCell, <<tf, ts>>}
        /\ LookupVariable(mem, sf, ss) # Unbound
        /\ ~(HasCell(mem, tf, ts) /\ Cached(mem, <<tf, ts>>))
        /\ Becomes(GuaranteeCache(IF HasCell(mem, tf, ts) THEN Strengthen(mem, tf, ts) ELSE mem,
                                  source))

Unbind(f, s) ==
    /\ Disciplined => MayUnbind(mem, FindBindingCell(mem, f, s))
    /\ Becomes(UnbindVariable(mem, f, s))

\* compiler_cache_lookup, _assignment, _operator and _global_operator.
CompilerCache(r) ==
    /\ mem.link[r] = Unlinked
    /\ Becomes(AddCacheReference(mem, r))

Store(r, v) ==
    /\ SiteKind[r] = "assignment"
    /\ Linked(mem, r)
    /\ Becomes(CompiledAssignment(mem, r, v))

\* The collector reclaims a block that nothing else holds.
Reclaim(r) ==
    /\ r \in Reclaimable
    /\ Linked(mem, r)
    /\ Becomes([mem EXCEPT !.link[r] = Reclaimed])

Next ==
    \/ \E p, q \in Names : Link(p[1], p[2], q[1], q[2]) \/ InterruptedLink(p[1], p[2], q[1], q[2])
    \/ \E p \in Names :
        \/ \E v \in Stored : Define(p[1], p[2], v)
        \/ \E v \in Stored \ {Macro} : Assign(p[1], p[2], v)
        \/ Unbind(p[1], p[2])
    \/ \E r \in Site :
        \/ CompilerCache(r)
        \/ \E v \in Stored \ {Macro} : Store(r, v)
        \/ Reclaim(r)

Spec == Init /\ [][Next]_mem

-----------------------------------------------------------------------------
(* Properties *)

\* A symbol with a global value is held strongly, so that the collector does not
\* drop its value (strengthen_symbol, weaken_symbol).
SymbolsHeld ==
    \A s \in Symbol : Dereference(mem, <<Global, s>>) # Unbound => s \in mem.strong

\* The memory has the layout that lookup.c assumes: a cache holds a value or an
\* immediate trap, never another reference to a cache; and symbols with a global
\* value are held.
TypeOK ==
    /\ mem.cell \in [Cell -> Contents \cup Id \cup {Absent}]
    /\ mem.trap \in [Id -> Id \cup {None}]
    /\ \A i \in Id :
        /\ mem.cache[i].value \in Contents \cup {None}
        /\ \A k \in Kinds : mem.cache[i].lists[k] \in Seq([name : Symbol, refs : SUBSET Site])
    /\ mem.link \in [Site -> [state : {"unlinked", "linked", "reclaimed"}, cache : Id \cup {None},
                              clone : BOOLEAN, value : Value \cup {None}]]
    /\ mem.strong \subseteq Symbol
    /\ SymbolsHeld

\* However definitions, links and unbindings shadow and uncover bindings, each
\* reference in compiled code points to the cache of the variable that a lookup by
\* name from its environment finds (update_cache_references, link_variables).
CachesFollow ==
    \A r \in Site : Linked(mem, r) =>
        LET p == FindBindingCell(mem, SiteEnv[r], SiteSymbol[r])
        IN  Cached(mem, p) /\ mem.link[r].cache = CacheOf(mem, p)

\* A call from compiled code, through its link without a lookup, reaches the value
\* that a lookup by name finds, or finds the same trap (update_uuo_links).
OperatorsCurrent ==
    \A r \in Site : (Linked(mem, r) /\ SiteKind[r] = "operator") =>
        CompiledOperator(mem, r) = LookupVariable(mem, SiteEnv[r], SiteSymbol[r])

\* An assignment in compiled code never bypasses the operator links of its
\* variable: as long as there are some, it goes through a clone that traps
\* (update_clone).
StoresTrap ==
    \A r, o \in Site :
        (/\ Linked(mem, r) /\ Linked(mem, o)
         /\ SiteKind[r] = "assignment" /\ SiteKind[o] = "operator"
         /\ mem.link[r].cache = mem.link[o].cache)
        => mem.link[r].clone

\* The copies of a variable's value in operator links are never stale, nor will be:
\* calls reach the current value, and every assignment in compiled code to a
\* variable with operator links traps, so that they are updated.
OperatorsSound == OperatorsCurrent /\ StoresTrap

\* The loops that move references end: link-variables and unbind-variable return
\* (move_ref_pairs).
Terminates == ~mem.stuck

\* The variables behind the caches: each cell's value, and which cells share one.
B == INSTANCE Bindings WITH
    parent <- mem.parent,
    value <- [p \in Cell |-> IF Dereference(mem, p) # Unbound THEN Dereference(mem, p)
                             ELSE IF p[1] = Global \/ p[2] \in Params[p[1]] THEN Unbound
                             ELSE Absent],
    same <- {pq \in Cell \X Cell : Shared(mem, pq[1], pq[2])}

\* Caches are an invisible optimisation: what definitions, assignments (also those
\* by compiled code), links and unbindings do to variables is what they do in
\* Bindings; linking sites to caches, and reclaiming their blocks, does nothing.
RefinesBindings == B!Spec
=============================================================================
