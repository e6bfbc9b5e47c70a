---------------------------- MODULE SlidingWindow ----------------------------
(***************************************************************************)
(* What a rate limiter promises: a request passes when, and only when,     *)
(* fewer than Limit requests of its client passed in the last Window.      *)
(* Nothing is ever forgotten here.                                         *)
(***************************************************************************)
EXTENDS Naturals, Sequences, FiniteSets

CONSTANTS
  Clients,
  Limit,
  Window,
  MaxTime   \* bound on the clock

ASSUME LimiterAssumption ==
  /\ Limit \in Nat \ {0}
  /\ Window \in Nat \ {0}
  /\ MaxTime \in Nat

VARIABLES
  now,
  granted,   \* granted[k]: when the requests of k passed, in order
  answer     \* answer[k]: what became of the last request of k

windowVars == <<now, granted, answer>>

\* The requests of k, by their place, that passed in the last Window.
InWindow(k) == {i \in 1 .. Len(granted[k]) : granted[k][i] + Window > now}

Pass(k) ==
  /\ Cardinality(InWindow(k)) < Limit
  /\ granted' = [granted EXCEPT ![k] = Append(@, now)]
  /\ answer' = [answer EXCEPT ![k] = "passed"]
  /\ UNCHANGED now

Refuse(k) ==
  /\ Cardinality(InWindow(k)) >= Limit
  /\ answer' = [answer EXCEPT ![k] = "refused"]
  /\ UNCHANGED <<now, granted>>

Tick ==
  /\ now < MaxTime /\ now' = now + 1
  /\ UNCHANGED <<granted, answer>>

WindowInit ==
  /\ now = 0
  /\ granted = [k \in Clients |-> <<>>]
  /\ answer = [k \in Clients |-> "none"]

WindowNext == Tick \/ \E k \in Clients : Pass(k) \/ Refuse(k)

WindowSpec == WindowInit /\ [][WindowNext]_windowVars
=============================================================================
