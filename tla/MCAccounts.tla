----------------------------- MODULE MCAccounts -----------------------------
(* Instances of Accounts for TLC.                                          *)
EXTENDS Accounts, TLC

CONSTANTS p1, p2, e1, e2, n1, n2, w1, w2, blank

Symmetry == Permutations({p1, p2}) \cup Permutations({e1, e2})
              \cup Permutations({n1, n2})
=============================================================================
