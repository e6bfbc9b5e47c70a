------------------------------ MODULE MCSignIn ------------------------------
(* SignIn with one account beside the addresses of none, two requests on    *)
(* the way at a time and two secrets: a second setup while the first is     *)
(* still to be confirmed, or after it.                                      *)
EXTENDS SignIn

CONSTANTS a1, f1, f2

MCAccounts == {a1}
MCFetches == {f1, f2}
=============================================================================
