---------------------------- MODULE MCTerminalHub ----------------------------
(* Instances of TerminalHub for TLC.                                       *)
EXTENDS TerminalHub, TLC

CONSTANTS c1, c2, w1, k1, u1, none

\* Connections are interchangeable.
Symmetry == Permutations(Conns)
=============================================================================
