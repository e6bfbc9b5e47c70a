------------------------- MODULE MCSessionLifecycle -------------------------
(* Instances of SessionLifecycle, and of the claims about it, for TLC.     *)
EXTENDS SessionClaims, TLC

CONSTANTS s1, r1, r2, t1, t2, i1, dev

\* Request goroutines are interchangeable, and so are two firings of one job.
Symmetry == Permutations(Requests) \cup Permutations(TtlReapers)
=============================================================================
