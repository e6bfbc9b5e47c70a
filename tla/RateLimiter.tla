----------------------------- MODULE RateLimiter -----------------------------
(***************************************************************************)
(* The rate limiter in front of the API's handlers.  Every request locks   *)
(* the limiter, drops the times of its client that have left the window,   *)
(* and passes if fewer than Limit are left; a goroutine locks it every     *)
(* five minutes to drop those of every client.  The lock makes each of the *)
(* two one step, and now is read under it.                                 *)
(*                                                                         *)
(* An element of a client's slice is named by its place among the requests *)
(* of the client that passed, which tells its time: granted[k][i].         *)
(***************************************************************************)
EXTENDS SlidingWindow

VARIABLE requests   \* the map: the elements of each client's slice

vars == <<now, granted, answer, requests>>

Answers == {"none", "passed", "refused"}

TypeOK ==
  /\ now \in 0 .. MaxTime
  /\ granted \in [Clients -> Seq(0 .. MaxTime)]
  /\ answer \in [Clients -> Answers]
  /\ DOMAIN requests \subseteq Clients
  /\ requests \in [DOMAIN requests -> SUBSET (Nat \ {0})]
  /\ \A k \in DOMAIN requests : requests[k] \subseteq 1 .. Len(granted[k])

\* A key that is not in the map has the nil slice.
Times(k) == IF k \in DOMAIN requests THEN requests[k] ELSE {}

Valid(k) == {i \in Times(k) : granted[k][i] + Window > now}

Put(k, times) ==
  [l \in DOMAIN requests \cup {k} |-> IF l = k THEN times ELSE requests[l]]

allow(k) ==
  /\ IF Cardinality(Valid(k)) >= Limit
       THEN /\ requests' = Put(k, Valid(k))
            /\ answer' = [answer EXCEPT ![k] = "refused"]
            /\ UNCHANGED granted
       ELSE /\ granted' = [granted EXCEPT ![k] = Append(@, now)]
            /\ requests' = Put(k, Valid(k) \cup {Len(granted'[k])})
            /\ answer' = [answer EXCEPT ![k] = "passed"]
  /\ UNCHANGED now

\* Variant: a client with any time outside the window is forgotten.
cleanupForgets ==
  /\ requests' = [k \in {l \in DOMAIN requests : Valid(l) = requests[l]} |-> Valid(k)]
  /\ UNCHANGED <<now, granted, answer>>

\* Variant: empty slices stay in the map.
cleanupKeepsKeys ==
  /\ requests' = [k \in DOMAIN requests |-> Valid(k)]
  /\ UNCHANGED <<now, granted, answer>>

cleanup ==
  /\ requests' = [k \in {l \in DOMAIN requests : Valid(l) # {}} |-> Valid(k)]
  /\ UNCHANGED <<now, granted, answer>>

Init == WindowInit /\ requests = <<>>

Next ==
  \/ \E k \in Clients : allow(k)
  \/ cleanup
  \/ Tick /\ UNCHANGED requests

\* The goroutine's ticker goes on firing.
Spec == Init /\ [][Next]_vars
FairSpec == Spec /\ WF_vars(cleanup)
-----------------------------------------------------------------------------
(* Properties.                                                             *)

\* Of any Limit + 1 requests of one client that pass, the last passes a whole
\* Window or more after the first, wherever the window is placed and however
\* often the map has been cleaned up between them.
AtMostLimit ==
  \A k \in Clients : \A i \in 1 .. Len(granted[k]) :
    i + Limit <= Len(granted[k]) => granted[k][i + Limit] >= granted[k][i] + Window

\* Forgetting times changes no answer: the limiter passes and refuses exactly
\* the requests that one which remembers everything does.
ImplementsWindow == WindowSpec

\* What is kept of a client is never more than what it may use up, however
\* many requests it makes.
SlicesAreBounded ==
  \A k \in DOMAIN requests : IsFiniteSet(requests[k]) /\ Cardinality(requests[k]) <= Limit

\* Requests that are refused do not count: one that comes a Window after the
\* last that passed finds room, however many were refused in between.
RefusalsDoNotCount ==
  \A k \in Clients :
    Len(granted[k]) > 0 /\ granted[k][Len(granted[k])] + Window <= now => Valid(k) = {}

\* The map does not grow with the clients that have gone: a client with
\* nothing in the window does not stay in it.
GoneClientsAreDropped ==
  \A k \in Clients :
    (k \in DOMAIN requests /\ Valid(k) = {})
      ~> (k \notin DOMAIN requests \/ Valid(k) # {})
=============================================================================
