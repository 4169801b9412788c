------------------------------- MODULE Rings -------------------------------
(***************************************************************************)
(* The rings of src/runtime/thread-low.scm, in which threads and events    *)
(* queue up, are sequences: ring/enqueue is Append, ring/dequeue takes the *)
(* Head and leaves the Tail.                                               *)
(***************************************************************************)
EXTENDS Naturals, Sequences, FiniteSetsExt

\* ring/remove-item: the ring without the first link that holds the item.
RemoveFirst(ring, item) ==
  LET links == {i \in 1..Len(ring) : ring[i] = item}
  IN IF links = {}
     THEN ring
     ELSE SubSeq(ring, 1, Min(links) - 1) \o SubSeq(ring, Min(links) + 1, Len(ring))
=============================================================================
