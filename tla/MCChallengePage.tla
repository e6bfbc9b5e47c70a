--------------------------- MODULE MCChallengePage ---------------------------
(* Instances of ChallengePage for TLC.                                     *)
EXTENDS ChallengePage, TLC

CONSTANTS f1, f2

\* Requests are interchangeable.
Symmetry == Permutations(Fetches)
=============================================================================
