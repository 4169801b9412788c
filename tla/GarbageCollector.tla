-------------------------- MODULE GarbageCollector --------------------------
(***************************************************************************)
(* One collection by the copying garbage collector (microcode/gcloop.c,     *)
(* std_gc_pt1 of memmag.c), with weak pairs and ephemerons.                 *)
(*                                                                         *)
(* Objects are copied from the heap to tospace word by word, and a broken   *)
(* heart in the old object says where its copy is.  A scan of the words of  *)
(* tospace replaces each old pointer, copying what it points to on the      *)
(* way.  The car of a weak pair is hidden from the scan and an ephemeron is *)
(* skipped while its key is not known to be live.  The ephemerons that are  *)
(* skipped are listed, and found by key in a hash table threaded through    *)
(* the copies; when a key turns out to be live they move to a queue and     *)
(* their data are scanned.                                                 *)
(*                                                                         *)
(* What an old object holds is read once, when it is copied, so the model   *)
(* chooses it then: a behaviour is the collection of an arbitrary heap.     *)
(***************************************************************************)
EXTENDS Naturals, FiniteSets, SequencesExt

CONSTANTS
    Cell,        \* tuples and vectors of the heap other than pairs, of one word here
    Pair,        \* TC_LIST
    WeakPair,    \* TC_WEAK_CONS
    Ephemeron,   \* TC_EPHEMERON
    Bucket,      \* indices of ephemeron_array
    Hash,        \* an address modulo the length of ephemeron_array
    Heaps,       \* the heaps that are collected: their objects, the number of words
                 \* of the stack and constant space, and of the registers
    SharedKeys   \* whether ephemerons that wait for a key may share it

Object == Cell \cup Pair \cup WeakPair \cup Ephemeron

ASSUME GarbageCollectorAssumption ==
    /\ IsFiniteSet(Object)
    /\ Cardinality(Object) = Cardinality(Cell) + Cardinality(Pair)
                             + Cardinality(WeakPair) + Cardinality(Ephemeron)
    /\ Hash \in [Object -> Bucket]
    /\ Heaps \subseteq [objects : SUBSET Object, stack : Nat, registers : Nat]
    /\ SharedKeys \in BOOLEAN

VARIABLES
    gc,      \* the collector
    heap,    \* the words of the old objects that were copied
    objects, \* the objects of the heap
    roots    \* the words of the stack and of the registers before the collection

vars == <<gc, heap, objects, roots>>

-----------------------------------------------------------------------------
(* Words.  Fixed is any object outside of the heap: an immediate object or a *)
(* pointer into constant space.  Hidden is the car of a weak pair with its   *)
(* type replaced by TC_FALSE.                                               *)

Old(o) == <<"old", o>>
New(a) == <<"new", a>>
Hidden(o) == <<"hidden", o>>
Fixed == <<"fixed">>
False == <<"false">>
Reclaimed == <<"reclaimed">>
Marked == <<"marked">>
Unmarked == <<"unmarked">>

Word == {Old(o) : o \in objects} \cup {Fixed}

\* The words that an object of the heap may hold.
Contents(o) ==
    CASE o \in Cell -> {<<w>> : w \in Word}
      [] o \in Pair \cup WeakPair -> Word \X Word
      [] o \in Ephemeron -> {<<Marked, k, d, False, False>> : k \in Word, d \in Word}

EphemeronKey == 1
EphemeronDatum == 2
EphemeronList == 3
EphemeronNext == 4
EphemeronSize == 5

\* weak_referent_forward: where the object of an old pointer has gone.
Forwarded(g, w) == w[1] = "old" /\ g.heart[w[2]] # 0
Forward(g, w, collected) == IF g.heart[w[2]] # 0 THEN New(g.heart[w[2]]) ELSE collected

-----------------------------------------------------------------------------
(* queue_ephemerons_for_key: move the ephemerons of a key from its bucket to *)
(* the queue.  A walk is at the place of a link, a bucket or a NEXT word.    *)

LinkAt(w) == IF w.at.bucket THEN w.table[w.at.place] ELSE w.tospace[w.at.place]

SetLink(w, x) ==
    IF w.at.bucket THEN [w EXCEPT !.table[w.at.place] = x]
                   ELSE [w EXCEPT !.tospace[w.at.place] = x]

\* As WalkStep, with the last two assignments the other way round.
WalkStepSwapped(key, w) ==
    IF LinkAt(w) = False THEN w
    ELSE LET entry == LinkAt(w)
             next == entry[2] + EphemeronNext
             moved == [SetLink(w, w.tospace[next]) EXCEPT
                         !.tospace[next] = entry, !.queue = entry]
         IN  [IF w.tospace[entry[2] + EphemeronKey] = Old(key) THEN moved ELSE w
              EXCEPT !.at = [bucket |-> FALSE, place |-> next]]

\* One turn of the loop; the last line is entry_loc = next_loc.
WalkStep(key, w) ==
    IF LinkAt(w) = False THEN w
    ELSE LET entry == LinkAt(w)
             next == entry[2] + EphemeronNext
             moved == [SetLink(w, w.tospace[next]) EXCEPT
                         !.tospace[next] = w.queue, !.queue = entry]
         IN  [IF w.tospace[entry[2] + EphemeronKey] = Old(key) THEN moved ELSE w
              EXCEPT !.at = [bucket |-> FALSE, place |-> next]]

\* A walk over links without a cycle has ended after this many turns.
Turns == 4 * Cardinality(Ephemeron)

QueueEphemeronsForKey(g, key) ==
    LET start == [at |-> [bucket |-> TRUE, place |-> Hash[key]], table |-> g.table,
                  tospace |-> g.tospace, queue |-> g.queue]
        end == FoldLeft(LAMBDA w, i : WalkStep(key, w), start, [i \in 1..Turns |-> i])
    IN  [g EXCEPT !.table = end.table, !.tospace = end.tospace, !.queue = end.queue,
                  !.hung = LinkAt(end) # False]

-----------------------------------------------------------------------------
(* Copying an object *)

\* scanning_ephemerons_p
ScanningEphemerons(g) == g.phase \in {"list", "queue", "datum", "rest"}

\* gc_precheck_from for an object of the heap that has no broken heart.
PrecheckFrom(g, o) == IF ScanningEphemerons(g) THEN QueueEphemeronsForKey(g, o) ELSE g

TransportWords(g, o, words) ==
    [g EXCEPT !.heart[o] = Len(g.tospace) + 1, !.tospace = @ \o words]

\* As TransportWeakPair, with the car left for the scan to find.
TransportWeakPairStrongly(g, o, words) == TransportWords(g, o, words)

TransportWeakPair(g, o, words) ==
    LET h == TransportWords(g, o, words)
    IN  IF words[1][1] = "old"
        THEN [h EXCEPT !.tospace[h.heart[o]] = Hidden(words[1][2]),
                       !.weakChain = <<o>> \o @]
        ELSE h

TransportEphemeron(g, o, words) ==
    LET h == TransportWords(g, o, words)
        a == h.heart[o]
        key == words[1 + EphemeronKey]
        i == Hash[key[2]]
    IN  IF key[1] # "old" \/ Forwarded(h, key)
        THEN [h EXCEPT !.count = @ + 1]
        ELSE [h EXCEPT !.count = @ + 1,
                       !.tospace[a] = Unmarked,
                       !.tospace[a + EphemeronNext] = h.table[i],
                       !.table[i] = New(a),
                       !.tospace[a + EphemeronList] = h.ephemeronList,
                       !.ephemeronList = New(a)]

\* The CDR that gc_tuple transports next: a list that was not copied yet.
NextCdr(g, w) == IF w[1] = "old" /\ w[2] \in Pair /\ ~Forwarded(g, w) THEN w ELSE Fixed

\* The handlers of a pointer to an object that must be copied.
Transport(g, o, words) ==
    LET h == PrecheckFrom(g, o)
    IN  CASE o \in Cell -> TransportWords(h, o, words)
          [] o \in Pair -> LET t == TransportWords(h, o, words)
                           IN  [t EXCEPT !.cdr = NextCdr(t, words[2])]
          [] o \in WeakPair -> TransportWeakPair(h, o, words)
          [] o \in Ephemeron -> TransportEphemeron(h, o, words)

\* Two ephemerons that wait for one key: see the property Terminates.
Waiting(g) == {e \in Ephemeron : g.heart[e] # 0 /\ g.tospace[g.heart[e]] = Unmarked}
AwaitedKeys == {heap[e][1 + EphemeronKey] : e \in Waiting(gc)}
MayHold(o, words) ==
    IF o \in Ephemeron /\ ~SharedKeys THEN words[1 + EphemeronKey] \notin AwaitedKeys
                                      ELSE TRUE

-----------------------------------------------------------------------------
(* run_gc_loop.  In the phase "datum" one word is scanned, the datum of an  *)
(* ephemeron, and the scan goes on with what was added to tospace meanwhile. *)

Running == ~gc.hung /\ gc.cdr = Fixed
Scanning ==
    /\ Running
    /\ \/ gc.phase = "oldspace" /\ gc.scan <= Len(gc.oldspace)
       \/ gc.phase \in {"tospace", "rest"} /\ gc.scan <= Len(gc.tospace)
       \/ gc.phase = "datum"

ScanWord == IF gc.phase = "oldspace" THEN gc.oldspace[gc.scan] ELSE gc.tospace[gc.scan]

\* As Advance, with newspace_next saved after the datum is scanned.
AdvanceSavedLate(g, n) ==
    IF g.phase = "datum" THEN [g EXCEPT !.phase = "rest", !.scan = Len(g.tospace) + 1]
                         ELSE [g EXCEPT !.scan = @ + n]

Advance(g, n) ==
    IF g.phase = "datum" THEN [g EXCEPT !.phase = "rest", !.scan = g.resume]
                         ELSE [g EXCEPT !.scan = @ + n]

Store(g, w) ==
    IF g.phase = "oldspace" THEN [g EXCEPT !.oldspace[g.scan] = w]
                            ELSE [g EXCEPT !.tospace[g.scan] = w]

\* gc_handle_non_pointer, gc_handle_nmv and pointers that stay as they are.
Skip ==
    /\ Scanning
    /\ ScanWord[1] # "old"
    /\ gc' = Advance(gc, IF ScanWord = Unmarked THEN EphemeronSize ELSE 1)
    /\ UNCHANGED <<heap, objects, roots>>

\* The object has been copied: its broken heart says where.
FollowHeart ==
    /\ Scanning
    /\ Forwarded(gc, ScanWord)
    /\ gc' = Advance(Store(gc, Forward(gc, ScanWord, Fixed)), 1)
    /\ UNCHANGED <<heap, objects, roots>>

Copy ==
    /\ Scanning
    /\ ScanWord[1] = "old"
    /\ ~Forwarded(gc, ScanWord)
    /\ LET o == ScanWord[2]
       IN  \E words \in Contents(o) :
             /\ MayHold(o, words)
             /\ LET g == Transport(gc, o, words)
                IN  gc' = Advance(Store(g, New(g.heart[o])), 1)
             /\ heap' = [heap EXCEPT ![o] = words]
    /\ UNCHANGED <<objects, roots>>

\* gc_tuple: "Transport CDRs eagerly".
CopyCdr ==
    /\ ~gc.hung
    /\ gc.cdr # Fixed
    /\ \E words \in Contents(gc.cdr[2]) :
         /\ gc' = Transport(gc, gc.cdr[2], words)
         /\ heap' = [heap EXCEPT ![gc.cdr[2]] = words]
    /\ UNCHANGED <<objects, roots>>

-----------------------------------------------------------------------------
(* std_gc_pt1 and update_weak_pointers *)

Init ==
    /\ \E h \in Heaps :
         /\ objects = h.objects
         /\ roots \in [stack : [1..h.stack -> Word], registers : [1..h.registers -> Word]]
    /\ gc = [phase |-> "oldspace", oldspace |-> roots.stack, tospace |-> roots.registers,
             scan |-> 1, resume |-> 0, cdr |-> Fixed,
             heart |-> [o \in Object |-> 0],
             weakChain |-> <<>>, ephemeronList |-> False, queue |-> False,
             table |-> [b \in Bucket |-> False], cursor |-> False,
             count |-> 0, hung |-> FALSE]
    /\ heap = [o \in Object |-> <<>>]

\* gc_scan_tospace follows gc_scan_oldspace.
ScanTospace ==
    /\ Running
    /\ gc.phase = "oldspace"
    /\ gc.scan > Len(gc.oldspace)
    /\ gc' = [gc EXCEPT !.phase = "tospace", !.scan = 1]
    /\ UNCHANGED <<heap, objects, roots>>

ScanEphemerons ==
    /\ Running
    /\ gc.phase = "tospace"
    /\ gc.scan > Len(gc.tospace)
    /\ gc' = [gc EXCEPT !.phase = "list", !.cursor = gc.ephemeronList]
    /\ UNCHANGED <<heap, objects, roots>>

\* The first loop of scan_ephemerons: those whose keys are live by now.
QueueListed ==
    /\ Running
    /\ gc.phase = "list"
    /\ gc.cursor # False
    /\ LET key == gc.tospace[gc.cursor[2] + EphemeronKey]
           g == IF Forwarded(gc, key) THEN QueueEphemeronsForKey(gc, key[2]) ELSE gc
       IN  gc' = [g EXCEPT !.cursor = gc.tospace[gc.cursor[2] + EphemeronList]]
    /\ UNCHANGED <<heap, objects, roots>>

ListEnds ==
    /\ Running
    /\ gc.phase = "list"
    /\ gc.cursor = False
    /\ gc' = [gc EXCEPT !.phase = "queue"]
    /\ UNCHANGED <<heap, objects, roots>>

\* The second loop: the datum of each ephemeron of the queue.
ScanQueued ==
    /\ Running
    /\ gc.phase = "queue"
    /\ gc.queue # False
    /\ gc' = [gc EXCEPT !.queue = gc.tospace[gc.queue[2] + EphemeronNext],
                        !.resume = Len(gc.tospace) + 1,
                        !.scan = gc.queue[2] + EphemeronDatum,
                        !.phase = "datum"]
    /\ UNCHANGED <<heap, objects, roots>>

DatumScanned ==
    /\ Running
    /\ gc.phase = "rest"
    /\ gc.scan > Len(gc.tospace)
    /\ gc' = [gc EXCEPT !.phase = "queue"]
    /\ UNCHANGED <<heap, objects, roots>>

\* The addresses of the ephemerons of ephemeron_list, in order.
Listed(g) ==
    LET add(s, i) == IF s.at = False THEN s
                     ELSE [at |-> g.tospace[s.at[2] + EphemeronList],
                           seen |-> Append(s.seen, s.at[2])]
    IN  FoldLeft(add, [at |-> g.ephemeronList, seen |-> <<>>],
                 [i \in 1..Cardinality(Ephemeron) |-> i]).seen

\* As UpdateEphemeron, with the datum of a broken ephemeron left.
UpdateEphemeronKeyOnly(g, a) ==
    [g EXCEPT !.tospace[a] = Marked,
              !.tospace[a + EphemeronKey] = Forward(g, @, False),
              !.tospace[a + EphemeronList] = False,
              !.tospace[a + EphemeronNext] = False]

UpdateEphemeron(g, a) ==
    LET key == Forward(g, g.tospace[a + EphemeronKey], False)
    IN  [g EXCEPT !.tospace[a] = Marked,
                  !.tospace[a + EphemeronKey] = key,
                  !.tospace[a + EphemeronList] = False,
                  !.tospace[a + EphemeronNext] = False,
                  !.tospace[a + EphemeronDatum] = IF key = False THEN False ELSE @]

UpdateWeakPair(g, o) ==
    [g EXCEPT !.tospace[g.heart[o]] = Forward(g, @, Reclaimed)]

\* update_ephemerons and update_weak_pairs.
UpdateWeakPointers ==
    /\ Running
    /\ gc.phase = "queue"
    /\ gc.queue = False
    /\ LET g == FoldLeft(UpdateEphemeron, gc, Listed(gc))
           h == FoldLeft(UpdateWeakPair, g, gc.weakChain)
       IN  gc' = [h EXCEPT !.phase = "done", !.ephemeronList = False, !.weakChain = <<>>]
    /\ UNCHANGED <<heap, objects, roots>>

Done == gc.phase = "done" /\ UNCHANGED vars

Next ==
    \/ Skip \/ FollowHeart \/ Copy \/ CopyCdr
    \/ ScanTospace \/ ScanEphemerons \/ QueueListed \/ ListEnds
    \/ ScanQueued \/ DatumScanned \/ UpdateWeakPointers \/ Done

Spec == Init /\ [][Next]_vars

-----------------------------------------------------------------------------
(* What a collection should do *)

\* The objects that a word, or the words of a live object, keep alive.
Pointed(w) == {o \in Object : w = Old(o)}
Keeps(o, live) ==
    CASE heap[o] = <<>> -> {}
      [] heap[o] # <<>> /\ o \in Cell -> Pointed(heap[o][1])
      [] heap[o] # <<>> /\ o \in Pair -> Pointed(heap[o][1]) \cup Pointed(heap[o][2])
      [] heap[o] # <<>> /\ o \in WeakPair -> Pointed(heap[o][2])
      [] heap[o] # <<>> /\ o \in Ephemeron ->
           IF Pointed(heap[o][1 + EphemeronKey]) \subseteq live
           THEN Pointed(heap[o][1 + EphemeronDatum]) ELSE {}

\* The least set that holds the objects of the roots and what its own keep.
RootObjects == UNION {Pointed(w) : w \in ToSet(roots.stack \o roots.registers)}
LiveAfter[n \in 0..Cardinality(objects)] ==
    IF n = 0 THEN RootObjects
    ELSE LET live == LiveAfter[n - 1] IN live \cup UNION {Keeps(o, live) : o \in live}
Live == LiveAfter[Cardinality(objects)]

Copied == {o \in Object : gc.heart[o] # 0}

\* What becomes of a word that is kept, of the words of an object.
Image(w) == IF w[1] = "old" THEN Forward(gc, w, w) ELSE w
WeakImage(w, collected) == IF w[1] = "old" THEN Forward(gc, w, collected) ELSE w
ImageOf(o) ==
    CASE o \in Cell \cup Pair -> [i \in DOMAIN heap[o] |-> Image(heap[o][i])]
      [] o \in WeakPair -> <<WeakImage(heap[o][1], Reclaimed), Image(heap[o][2])>>
      [] o \in Ephemeron ->
           LET key == WeakImage(heap[o][1 + EphemeronKey], False)
           IN  <<Marked, key,
                 IF key = False THEN False ELSE Image(heap[o][1 + EphemeronDatum]),
                 False, False>>
CopyOf(o) == SubSeq(gc.tospace, gc.heart[o], gc.heart[o] + Len(heap[o]) - 1)

\* Type invariant.
TypeOK ==
    /\ gc.phase \in {"oldspace", "tospace", "list", "queue", "datum", "rest", "done"}
    /\ gc.scan \in 1..(Len(gc.tospace) + Len(gc.oldspace) + 1)
    /\ \A o \in Object : gc.heart[o] \in 0..Len(gc.tospace)
    /\ \A o \in Object : heap[o] \in Contents(o) \cup {<<>>}
    /\ ToSet(gc.weakChain) \subseteq WeakPair
    /\ gc.count = Cardinality(Copied \cap Ephemeron)

\* Every walk of queue_ephemerons_for_key comes to an end (gcloop.c:906): after
\* an entry has moved to the queue the walk goes on along the queue, and meets
\* no entry of the same key there.
Terminates == ~gc.hung

\* A collection keeps the objects that are live and no others, where an
\* ephemeron keeps its datum if its key is live by other paths and a weak pair
\* does not keep its car (std_gc_pt1, scan_ephemerons).
KeepsLive == gc.phase = "done" => Copied = Live

\* After a collection each copy holds what the old object held, with every
\* pointer replaced by that of the copy, and so do the stack and the
\* registers; weak cars and ephemerons are cleared exactly when their car or key
\* was not copied (gc_transport_words, update_ephemerons, update_weak_pairs).
CopiesRight ==
    gc.phase = "done" =>
      /\ \A o \in Copied : CopyOf(o) = ImageOf(o)
      /\ \A i \in DOMAIN roots.stack : gc.oldspace[i] = Image(roots.stack[i])
      /\ \A i \in DOMAIN roots.registers : gc.tospace[i] = Image(roots.registers[i])

\* No object is copied twice and nothing is left between the copies: the words
\* of tospace are the registers and one copy of each object (gc_precheck_from).
Tiled ==
    LET start(o) == gc.heart[o]..(gc.heart[o] + Len(heap[o]) - 1)
    IN  /\ UNION {start(o) : o \in Copied} = (Len(roots.registers) + 1)..Len(gc.tospace)
        /\ \A o, p \in Copied : o # p => start(o) \cap start(p) = {}

\* Behind the scan there is no pointer to an old object, except in the
\* ephemerons that wait for their keys (run_gc_loop).
Skipped(i) == \E e \in Waiting(gc) : i \in gc.heart[e]..(gc.heart[e] + EphemeronSize - 1)
BehindScan ==
    CASE gc.phase = "oldspace" -> {}
      [] gc.phase \in {"tospace", "rest"} -> 1..(gc.scan - 1)
      [] gc.phase = "datum" -> 1..(gc.resume - 1)
      [] OTHER -> DOMAIN gc.tospace
ScannedClean == \A i \in BehindScan : gc.tospace[i][1] = "old" => Skipped(i)

\* Once the listed ephemerons have been gone through, one that is skipped and
\* whose key is live is in the queue, is being scanned, or has had its datum
\* scanned: "if the object stored at that fromspace address is proven live,
\* those ephemerons must not be broken, and consequently their data must be
\* live too" (gcloop.c:135).
QueueOf(g) ==
    LET add(s, i) == IF s.at = False THEN s
                     ELSE [at |-> g.tospace[s.at[2] + EphemeronNext],
                           seen |-> s.seen \cup {s.at[2]}]
    IN  FoldLeft(add, [at |-> g.queue, seen |-> {}],
                 [i \in 1..Cardinality(Ephemeron) |-> i]).seen
LiveQueued ==
    gc.phase \in {"queue", "datum", "rest"} /\ ~gc.hung =>
      \A e \in Waiting(gc) :
        LET a == gc.heart[e]
        IN  Forwarded(gc, heap[e][1 + EphemeronKey]) =>
              \/ a \in QueueOf(gc)
              \/ gc.phase = "datum" /\ gc.scan = a + EphemeronDatum
              \/ gc.tospace[a + EphemeronDatum][1] # "old"

\* At every moment of a collection tospace is sound: its words are copies without
\* gap or overlap, what is behind the scan holds no pointer to oldspace but
\* where it must wait, and no ephemeron with a live key is forgotten.
ScanSound == TypeOK /\ Tiled /\ ScannedClean /\ LiveQueued
=============================================================================
