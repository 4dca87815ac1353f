----------------------------- MODULE Selection ------------------------------
(***************************************************************************)
(* What a loop over a sequence makes of it: the items it keeps, by their   *)
(* places, and the pieces it puts one behind the other.                    *)
(***************************************************************************)
EXTENDS Naturals, Sequences, FiniteSets

\* The numbers of a finite set in their order.
InOrder(places) ==
  [k \in 1 .. Cardinality(places) |-> CHOOSE p \in places : Cardinality({q \in places : q < p}) = k - 1]

\* The items at some places of a sequence, in the order of the sequence.
Selected(s, places) ==
  LET at == InOrder(places)
  IN [k \in DOMAIN at |-> s[at[k]]]

\* FlattenSeq, as a recursive function.
Flat(pieces) ==
  LET flat[k \in 0 .. Len(pieces)] == IF k = 0 THEN << >> ELSE flat[k - 1] \o pieces[k]
  IN flat[Len(pieces)]

=============================================================================
