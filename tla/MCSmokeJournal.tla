--------------------------- MODULE MCSmokeJournal ---------------------------
(* The instance of SmokeJournal that TLC checks. *)
EXTENDS SmokeJournal, TLC

\* Signatures are only compared with one another, and so are invocations.
Symmetry == Permutations(Sigs) \cup Permutations(Runners)
=============================================================================
