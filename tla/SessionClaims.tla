---------------------------- MODULE SessionClaims ----------------------------
(***************************************************************************)
(* What the repository's README says of sessions and their containers,     *)
(* stated over the model of the code.  TLC finds each of them violated.    *)
(***************************************************************************)
EXTENDS SessionLifecycle

\* README:1129, "One Docker container per (user, challenge) pair": two live
\* sessions of one pair do not both have a running container.  Start looks
\* for a session and creates one in two calls (session.go:62, 88).
OneContainerPerPair ==
  \A slot \in Slots :
    Cardinality({k \in FindActiveByUserAndChallenge(slot) : docker[k] = "running"}) <= 1

\* README:48, "containers are automatically killed on expiry or idle
\* timeout": the container of a session still active at its TTL is stopped.  A row
\* marked expired by a handler is never looked at by the reapers again.
ContainersEndOnExpiry ==
  \A k \in Keys :
    (docker[k] = "running" /\ session[k].status = "active" /\ session[k].expires <= now)
      ~> docker[k] # "running"
=============================================================================
