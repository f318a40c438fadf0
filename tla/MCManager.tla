----------------------------- MODULE MCManager -----------------------------
(* Manager for TLC.                                                           *)
EXTENDS Manager, TLC

\* Ids are interchangeable: nothing in Manager tells one from another.
Symmetry == Permutations(Sessions)

=============================================================================
