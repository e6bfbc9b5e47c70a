---------------------------- MODULE MCAdminPages ----------------------------
(* AdminPages on a small instance: two rows, two requests, and the pairs of *)
(* activities that have some of the page's state in common.                *)
EXTENDS AdminPages

CONSTANTS r1, r2, f1, f2

MCRows == {r1, r2}
MCKeys == {r1, r2}
MCFetches == {f1, f2}
MCErrands ==
  {{"toggle", "premium"}, {"toggle", "page"}, {"toggle", "elsewhere"},
   {"premium", "page"}, {"premium", "modal"}, {"page", "modal"},
   {"modal", "edit"}, {"edit", "elsewhere"}, {"edit", "jump"}}
=============================================================================
