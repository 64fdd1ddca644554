----------------------------- MODULE FifoCache -----------------------------
(***************************************************************************)
(* What the payload cache promises: it keeps the tasks inserted last, as   *)
(* many as its capacity, in the order of insertion, and those removed do   *)
(* not count.                                                              *)
(***************************************************************************)
EXTENDS Naturals, Sequences

CONSTANT CacheCapacity

VARIABLE kept      \* the ids cached, oldest first

Init == kept = <<>>

Ids(s) == {s[i] : i \in DOMAIN s}

\* A new id enters; the oldest one leaves when there is no room for it.
Insert ==
  \E id \in Ids(kept') \ Ids(kept) :
    kept' = IF Len(kept) = CacheCapacity THEN Append(Tail(kept), id) ELSE Append(kept, id)

RemoveOne ==
  \E i \in DOMAIN kept : kept' = SubSeq(kept, 1, i - 1) \o SubSeq(kept, i + 1, Len(kept))

Clear == kept' = <<>>

Next == Insert \/ RemoveOne \/ Clear

Spec == Init /\ [][Next]_kept

=============================================================================
