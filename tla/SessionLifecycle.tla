-------------------------- MODULE SessionLifecycle --------------------------
(***************************************************************************)
(* The life of a challenge session: the rows of the session store, the    *)
(* Docker container of each session, the HTTP handlers that start, probe, *)
(* connect to and terminate sessions, and the scheduler's two reapers.     *)
(*                                                                         *)
(* Every HTTP request and every firing of a cron job is a goroutine of its *)
(* own.  One action is one call a goroutine makes on the store or on       *)
(* Docker, so every interleaving of two goroutines between two calls is a  *)
(* behaviour.  A goroutine works on the copy of the row it has read (sess, *)
(* batch), of which the model keeps the fields the goroutine still uses;   *)
(* nothing in the code tells it that the row has changed since.            *)
(*                                                                         *)
(* The session key stands for the key, the row's primary key, the name and *)
(* the identifier of the container: the key is random and unique, a row is *)
(* created for one key, and Docker is asked for one container per key.     *)
(***************************************************************************)
EXTENDS Naturals, FiniteSets

CONSTANTS
  Slots,        \* the (user, challenge) pairs users start sessions for
  DevSlot,      \* the slot of sessions started on the development routes
  DevMode,      \* TRUE when the development routes are registered
  Requests,     \* goroutines serving HTTP requests
  TtlReapers,   \* goroutines running reapExpiredSessions
  IdleReapers,  \* goroutines running reapIdleSessions
  TTL,          \* ContainerMaxLifetimeMinutes, in clock ticks
  IdleTimeout,  \* ContainerIdleTimeoutMinutes, in clock ticks
  Durable,      \* TRUE for the PostgreSQL store, FALSE for MemoryStore
  Faults,       \* the kinds of failure the environment may inject
  MaxSessions,  \* bound: how many sessions are ever created
  MaxTime,      \* bound: the clock stops here
  MaxCrashes    \* bound: how often the server process dies

FaultKinds == {"boot", "stop", "inspect", "exit", "store"}

Procs == Requests \cup TtlReapers \cup IdleReapers
Keys == 1 .. MaxSessions
NoContainer == 0                          \* ContainerID == ""

ASSUME ConstantsAssumption ==
  /\ DevSlot \notin Slots
  /\ DevMode \in BOOLEAN
  /\ Durable \in BOOLEAN
  /\ Faults \subseteq FaultKinds
  /\ TTL \in Nat
  /\ IdleTimeout \in Nat
  /\ MaxSessions \in Nat
  /\ MaxTime \in Nat
  /\ MaxCrashes \in Nat

ASSUME ProcsAssumption ==
  /\ Requests \cap TtlReapers = {}
  /\ Requests \cap IdleReapers = {}
  /\ TtlReapers \cap IdleReapers = {}

VARIABLES
  session,   \* session[k]: the stored row of key k, NoRow if there is none
  docker,    \* docker[k]: the state of the container of key k
  created,   \* how many keys have been handed out
  attached,  \* the sessions with a terminal bridge on their container
  now,       \* the clock
  pc,        \* where each goroutine is, "idle" when there is none
  sess,      \* the row each goroutine holds a copy of
  batch,     \* the rows a reaper has still to terminate
  crashes    \* how often the server has died

vars == <<session, docker, created, attached, now, pc, sess, batch, crashes>>

Statuses == {"booting", "active", "terminating", "expired", "error"}
DockerStates == {"none", "created", "running", "exited", "removed"}

Row == [id : Keys \cup {0}, slot : Slots \cup {DevSlot},
        status : Statuses \cup {"none"}, cid : Keys \cup {NoContainer},
        expires : Nat, lastActive : Nat]

NoRow == [id |-> 0, slot |-> DevSlot, status |-> "none",
          cid |-> NoContainer, expires |-> 0, lastActive |-> 0]

StartPCs == {"docker_create", "docker_start", "start_error", "start_publish"}
KillPCs == {"mark", "stop", "remove", "finish"}
PCs == {"idle", "start_inspect", "start_expire", "start_create", "probe",
        "expire", "attach"} \cup StartPCs \cup KillPCs

TypeOK ==
  /\ session \in [Keys -> Row]
  /\ docker \in [Keys -> DockerStates]
  /\ created \in 0 .. MaxSessions
  /\ attached \in SUBSET Keys
  /\ now \in Nat
  /\ pc \in [Procs -> PCs]
  /\ sess \in [Procs -> Row]
  /\ batch \in [Procs -> SUBSET Row]
  /\ crashes \in Nat

-----------------------------------------------------------------------------
(* The store's queries and writes.                                         *)

Fault(kind) == kind \in Faults

\* isActiveStatus
LiveStatus(s) == s \in {"booting", "active"}

FindActiveByUserAndChallenge(slot) ==
  {k \in Keys : /\ session[k].slot = slot
                /\ LiveStatus(session[k].status)
                /\ session[k].expires > now}

\* Variant: the status list of the query has lost "active".
FindExpiredBootingOnly ==
  {k \in Keys : session[k].status = "booting" /\ session[k].expires <= now}

FindExpired ==
  {k \in Keys : LiveStatus(session[k].status) /\ session[k].expires <= now}

\* Variant: the query asks for booting sessions.
FindIdleExpiredBooting ==
  {k \in Keys : /\ session[k].status = "booting"
                /\ session[k].lastActive + IdleTimeout < now}

FindIdleExpired ==
  {k \in Keys : /\ session[k].status = "active"
                /\ session[k].lastActive + IdleTimeout < now}

\* What a goroutine that has read the row of k uses of it later.
Copy(k) == [NoRow EXCEPT !.id = k, !.slot = session[k].slot, !.cid = session[k].cid]

\* The row's status column is written whatever it held; a failed write is
\* ignored by every caller.
UpdateStatus(k, status) ==
  \/ session' = [session EXCEPT ![k].status = status]
  \/ Fault("store") /\ UNCHANGED session

\* manager.IsRunning as its callers use it: an error counts as "not running".
IsRunning(k) == k # NoContainer /\ docker[k] = "running"
SeenRunning(k, answer) ==
  \/ answer = IsRunning(k)
  \/ Fault("inspect") /\ ~answer

-----------------------------------------------------------------------------
(* Goroutines.                                                             *)

Goto(p, to) == pc' = [pc EXCEPT ![p] = to]
Hold(p, row) == sess' = [sess EXCEPT ![p] = row]
Return(p) == Goto(p, "idle") /\ Hold(p, NoRow)

World == <<attached, now, crashes>>

-----------------------------------------------------------------------------
(* SessionHandler.Start                                                    *)

\* The lookup of a live session of the slot.  A failed query leaves the
\* handler with an empty row, for which the inspection and the status write
\* that follow do nothing: it goes on to create a session.
StartLookup(p, slot) ==
  /\ p \in Requests /\ pc[p] = "idle"
  /\ \/ \E k \in FindActiveByUserAndChallenge(slot) :
          Hold(p, Copy(k)) /\ Goto(p, "start_inspect")
     \/ /\ FindActiveByUserAndChallenge(slot) = {} \/ Fault("store")
        /\ Hold(p, [NoRow EXCEPT !.slot = slot]) /\ Goto(p, "start_create")
  /\ UNCHANGED <<session, docker, created, batch, World>>

StartInspect(p) ==
  /\ pc[p] = "start_inspect"
  /\ \/ SeenRunning(sess[p].cid, TRUE) /\ Return(p)
     \/ SeenRunning(sess[p].cid, FALSE) /\ Goto(p, "start_expire") /\ UNCHANGED sess
  /\ UNCHANGED <<session, docker, created, batch, World>>

\* Variant: the session found dead is left as it is.
StartExpireNothing(p) ==
  /\ pc[p] = "start_expire"
  /\ Goto(p, "start_create")
  /\ UNCHANGED <<session, docker, created, sess, batch, World>>

StartExpire(p) ==
  /\ pc[p] = "start_expire"
  /\ UpdateStatus(sess[p].id, "expired")
  /\ Goto(p, "start_create")
  /\ UNCHANGED <<docker, created, sess, batch, World>>

\* DevHandler.Start creates a session without looking for another one.
DevStart(p) ==
  /\ DevMode /\ p \in Requests /\ pc[p] = "idle"
  /\ Hold(p, NoRow) /\ Goto(p, "start_create")
  /\ UNCHANGED <<session, docker, created, batch, World>>

NewRow(k, slot) ==
  [id |-> k, slot |-> slot, status |-> "booting", cid |-> NoContainer,
   expires |-> now + TTL, lastActive |-> now]

StartCreate(p) ==
  /\ pc[p] = "start_create"
  /\ \/ /\ created < MaxSessions
        /\ created' = created + 1
        /\ session' = [session EXCEPT ![created + 1] = NewRow(created + 1, sess[p].slot)]
        /\ Hold(p, NewRow(created + 1, sess[p].slot))
        /\ Goto(p, "docker_create")
     \/ /\ Fault("store") \/ created = MaxSessions
        /\ Return(p)
        /\ UNCHANGED <<session, created>>
  /\ UNCHANGED <<docker, batch, World>>

\* manager.Create up to ContainerCreate, the image pull included.
ContainerCreate(p) ==
  /\ pc[p] = "docker_create"
  /\ \/ /\ docker' = [docker EXCEPT ![sess[p].id] = "created"]
        /\ Goto(p, "docker_start")
     \/ /\ Fault("boot") /\ Goto(p, "start_error") /\ UNCHANGED docker
  /\ UNCHANGED <<session, created, sess, batch, World>>

\* ContainerStart; when it fails the container is removed, and a failure of
\* that removal is ignored.  A crash between the two leaves what a crash
\* before them does: the container, created and never started.
ContainerStart(p) ==
  /\ pc[p] = "docker_start"
  /\ \/ /\ docker' = [docker EXCEPT ![sess[p].id] = "running"]
        /\ Goto(p, "start_publish")
     \/ /\ Fault("boot") /\ Goto(p, "start_error")
        /\ \/ docker' = [docker EXCEPT ![sess[p].id] = "removed"]
           \/ Fault("stop") /\ UNCHANGED docker
  /\ UNCHANGED <<session, created, sess, batch, World>>

\* Variant: the failed handler returns without marking the row.
StartErrorUnmarked(p) ==
  /\ pc[p] = "start_error"
  /\ Return(p)
  /\ UNCHANGED <<session, docker, created, batch, World>>

StartError(p) ==
  /\ pc[p] = "start_error"
  /\ UpdateStatus(sess[p].id, "error")
  /\ Return(p)
  /\ UNCHANGED <<docker, created, batch, World>>

\* Variant: only the status column is written.
StartPublishStatusOnly(p) ==
  /\ pc[p] = "start_publish"
  /\ UpdateStatus(sess[p].id, "active")
  /\ Return(p)
  /\ UNCHANGED <<docker, created, batch, World>>

\* Variant: the lifetime is counted from the end of the boot.
StartPublishFreshTTL(p) ==
  /\ pc[p] = "start_publish"
  /\ session' = [session EXCEPT ![sess[p].id] =
        [sess[p] EXCEPT !.cid = sess[p].id, !.status = "active", !.expires = now + TTL]]
  /\ Return(p)
  /\ UNCHANGED <<docker, created, batch, World>>

\* store.Update writes the whole row from the handler's copy, the status
\* included, whatever happened to the row while the container was booting.
StartPublish(p) ==
  /\ pc[p] = "start_publish"
  /\ \/ session' = [session EXCEPT ![sess[p].id] =
                      [sess[p] EXCEPT !.cid = sess[p].id, !.status = "active"]]
     \/ Fault("store") /\ UNCHANGED session
  /\ Return(p)
  /\ UNCHANGED <<docker, created, batch, World>>

-----------------------------------------------------------------------------
(* SessionHandler.Status and Reconnect, TerminalHandler.Connect            *)

\* Status changes the store only for a row read as active.
StatusLookup(p, k) ==
  /\ p \in Requests /\ pc[p] = "idle"
  /\ session[k].status = "active"
  /\ Hold(p, Copy(k)) /\ Goto(p, "probe")
  /\ UNCHANGED <<session, docker, created, batch, World>>

ReconnectLookup(p, slot) ==
  /\ p \in Requests /\ pc[p] = "idle"
  /\ \E k \in FindActiveByUserAndChallenge(slot) : Hold(p, Copy(k))
  /\ Goto(p, "probe")
  /\ UNCHANGED <<session, docker, created, batch, World>>

Probe(p) ==
  /\ pc[p] = "probe"
  /\ \/ SeenRunning(sess[p].cid, TRUE) /\ Return(p)
     \/ SeenRunning(sess[p].cid, FALSE) /\ Goto(p, "expire") /\ UNCHANGED sess
  /\ UNCHANGED <<session, docker, created, batch, World>>

\* The row is marked expired; its container is left as it is.
MarkExpired(p) ==
  /\ pc[p] = "expire"
  /\ UpdateStatus(sess[p].id, "expired")
  /\ Return(p)
  /\ UNCHANGED <<docker, created, batch, World>>

ConnectLookup(p, k) ==
  /\ p \in Requests /\ pc[p] = "idle"
  /\ session[k].status = "active"
  /\ Hold(p, Copy(k))
  /\ Goto(p, IF now > session[k].expires THEN "expire" ELSE "attach")
  /\ UNCHANGED <<session, docker, created, batch, World>>

\* ExecAttach succeeds on a running container only.
ConnectAttach(p) ==
  /\ pc[p] = "attach"
  /\ \/ IsRunning(sess[p].cid) /\ attached' = attached \cup {sess[p].cid}
     \/ /\ ~IsRunning(sess[p].cid) \/ Fault("inspect")
        /\ UNCHANGED attached
  /\ Return(p)
  /\ UNCHANGED <<session, docker, created, now, batch, crashes>>

-----------------------------------------------------------------------------
(* Terminal bridges, as far as the lifecycle sees them: output of the shell *)
(* refreshes the row's last_active_at, whatever the status.                 *)

\* Variant: the bridge saves the whole row it was opened with.
ActivitySavesRow(k) ==
  /\ k \in attached /\ docker[k] = "running" /\ session[k].status # "none"
  /\ session' = [session EXCEPT ![k].lastActive = now, ![k].status = "active"]
  /\ UNCHANGED <<docker, created, pc, sess, batch, World>>

Activity(k) ==
  /\ k \in attached /\ docker[k] = "running" /\ session[k].status # "none"
  /\ session' = [session EXCEPT ![k].lastActive = now]
  /\ UNCHANGED <<docker, created, pc, sess, batch, World>>

Detach(k) ==
  /\ k \in attached
  /\ attached' = attached \ {k}
  /\ UNCHANGED <<session, docker, created, now, pc, sess, batch, crashes>>

-----------------------------------------------------------------------------
(* terminateSession, DevHandler.Terminate and terminateAndNotify           *)

\* A user ends a session: any row can be named, whatever its status.
TerminateLookup(p, k) ==
  /\ p \in Requests /\ pc[p] = "idle"
  /\ session[k].status # "none"
  /\ Hold(p, Copy(k)) /\ Goto(p, "mark")
  /\ UNCHANGED <<session, docker, created, batch, World>>

\* A reaper reads the rows to end once, then ends them one after the other.
Reap(p, found) ==
  /\ pc[p] = "idle"
  /\ \E k \in found : /\ Hold(p, Copy(k))
                      /\ batch' = [batch EXCEPT ![p] = {Copy(i) : i \in found \ {k}}]
  /\ Goto(p, "mark")
  /\ UNCHANGED <<session, docker, created, World>>

ReapExpiredSessions(p) == p \in TtlReapers /\ Reap(p, FindExpired)
ReapIdleSessions(p) == p \in IdleReapers /\ Reap(p, FindIdleExpired)

\* Variant: the container is stopped before the row is marked.
MarkTerminatingNot(p) ==
  /\ pc[p] = "mark"
  /\ Goto(p, IF sess[p].cid = NoContainer THEN "finish" ELSE "stop")
  /\ UNCHANGED <<session, docker, created, sess, batch, World>>

MarkTerminating(p) ==
  /\ pc[p] = "mark"
  /\ UpdateStatus(sess[p].id, "terminating")
  /\ Goto(p, IF sess[p].cid = NoContainer THEN "finish" ELSE "stop")
  /\ UNCHANGED <<docker, created, sess, batch, World>>

\* manager.Stop: ContainerStop, whose failure is only logged, ...
ContainerStop(p) ==
  /\ pc[p] = "stop"
  /\ \/ docker' = [docker EXCEPT ![sess[p].cid] = IF @ = "running" THEN "exited" ELSE @]
     \/ Fault("stop") /\ UNCHANGED docker
  /\ Goto(p, "remove")
  /\ UNCHANGED <<session, created, sess, batch, World>>

\* Variant: a failed removal ends the handler.
ContainerRemoveOrGiveUp(p) ==
  /\ pc[p] = "remove"
  /\ \/ /\ docker' = [docker EXCEPT ![sess[p].cid] = "removed"]
        /\ Goto(p, "finish") /\ UNCHANGED <<sess, batch>>
     \/ /\ Fault("stop") /\ Return(p)
        /\ batch' = [batch EXCEPT ![p] = {}] /\ UNCHANGED docker
  /\ UNCHANGED <<session, created, World>>

\* ... then ContainerRemove by force, whose failure the callers only log.
ContainerRemove(p) ==
  /\ pc[p] = "remove"
  /\ \/ docker' = [docker EXCEPT ![sess[p].cid] = "removed"]
     \/ Fault("stop") /\ UNCHANGED docker
  /\ Goto(p, "finish")
  /\ UNCHANGED <<session, created, sess, batch, World>>

Finish(p) ==
  /\ pc[p] = "finish"
  /\ UpdateStatus(sess[p].id, "expired")
  /\ \/ batch[p] = {} /\ Return(p) /\ UNCHANGED batch
     \/ \E row \in batch[p] : /\ Hold(p, row)
                              /\ batch' = [batch EXCEPT ![p] = @ \ {row}]
                              /\ Goto(p, "mark")
  /\ UNCHANGED <<docker, created, World>>

-----------------------------------------------------------------------------
(* The environment.                                                        *)

Tick ==
  /\ now < MaxTime /\ now' = now + 1
  /\ UNCHANGED <<session, docker, created, attached, pc, sess, batch, crashes>>

\* The main process of a container ends by itself (no AutoRemove).
ContainerExit(k) ==
  /\ Fault("exit") /\ docker[k] = "running"
  /\ docker' = [docker EXCEPT ![k] = "exited"]
  /\ UNCHANGED <<session, created, pc, sess, batch, World>>

\* The server process dies and starts again: the goroutines and the bridges
\* are gone, the containers stay, the rows stay only in PostgreSQL.
Crash ==
  /\ crashes < MaxCrashes /\ crashes' = crashes + 1
  /\ session' = IF Durable THEN session ELSE [k \in Keys |-> NoRow]
  /\ attached' = {}
  /\ pc' = [p \in Procs |-> "idle"]
  /\ sess' = [p \in Procs |-> NoRow]
  /\ batch' = [p \in Procs |-> {}]
  /\ UNCHANGED <<docker, created, now>>

-----------------------------------------------------------------------------

Init ==
  /\ session = [k \in Keys |-> NoRow]
  /\ docker = [k \in Keys |-> "none"]
  /\ created = 0
  /\ attached = {}
  /\ now = 0
  /\ pc = [p \in Procs |-> "idle"]
  /\ sess = [p \in Procs |-> NoRow]
  /\ batch = [p \in Procs |-> {}]
  /\ crashes = 0

StartStep(p) ==
  \/ StartInspect(p) \/ StartExpire(p) \/ StartCreate(p) \/ ContainerCreate(p)
  \/ ContainerStart(p) \/ StartError(p) \/ StartPublish(p)

ProbeStep(p) == Probe(p) \/ MarkExpired(p) \/ ConnectAttach(p)

KillStep(p) ==
  \/ MarkTerminating(p) \/ ContainerStop(p) \/ ContainerRemove(p) \/ Finish(p)

Step(p) == StartStep(p) \/ ProbeStep(p) \/ KillStep(p)

Arrive(p) ==
  \/ \E slot \in Slots : StartLookup(p, slot) \/ ReconnectLookup(p, slot)
  \/ DevStart(p)
  \/ \E k \in Keys : StatusLookup(p, k) \/ ConnectLookup(p, k) \/ TerminateLookup(p, k)

Fire(p) == ReapExpiredSessions(p) \/ ReapIdleSessions(p)

Next ==
  \/ \E p \in Procs : Step(p) \/ Arrive(p) \/ Fire(p)
  \/ \E k \in Keys : Activity(k) \/ Detach(k) \/ ContainerExit(k)
  \/ Tick
  \/ Crash

\* Cron fires each job again and again and every goroutine gets on with its
\* work: each call it makes returns or runs into its context's deadline.
Fairness ==
  /\ \A p \in Procs : WF_vars(Step(p)) /\ WF_vars(Fire(p))
  /\ WF_vars(Tick)

Spec == Init /\ [][Next]_vars
FairSpec == Spec /\ Fairness
-----------------------------------------------------------------------------
(* Properties.                                                             *)

StartInFlight(k) == \E p \in Procs : pc[p] \in StartPCs /\ sess[p].id = k

\* A row read as active names a container, also in the copy a terminal
\* handler holds across the WebSocket upgrade: Connect slices the first 12
\* characters of ContainerID and panics on an empty one (terminal.go:117).
ActiveHasContainer ==
  /\ \A k \in Keys : session[k].status = "active" => session[k].cid = k
  /\ \A p \in Procs : pc[p] = "attach" => sess[p].cid # NoContainer

\* Whatever the handlers and reapers do, and however stale the copies they
\* work on, the platform never stops the container of a session it still
\* shows as active.  Needs Docker not to lose containers ("exit") and the
\* store not to drop the terminating mark ("store").
ActiveContainerRuns ==
  \A k \in Keys : session[k].status = "active" => docker[k] = "running"

\* The same when containers may exit: that is all that can happen to the
\* container of an active session, whatever handlers and reapers do with it.
OnlyExitsStopActive ==
  [][\A k \in Keys :
       session[k].status = "active" /\ docker'[k] # docker[k] => ContainerExit(k)]_vars

\* A container is made once and started once, and one that is removed does
\* not come back, whatever fails and whoever works on the same session.
Later(state) ==
  CASE state = "none" -> {"created"}
    [] state = "created" -> {"running", "removed"}
    [] state = "running" -> {"exited", "removed"}
    [] state = "exited" -> {"removed"}
    [] OTHER -> {}

DockerMovesOn ==
  [][\A k \in Keys : docker'[k] # docker[k] => docker'[k] \in Later(docker[k])]_vars

\* What terminals count on once the container of their session is published,
\* whatever fails: the session does not become active again, its container
\* does not run again, and its expiry stays, unless a restart loses the row.
PublishedIsSettled ==
  [][\A k \in Keys : session[k].cid # NoContainer =>
       /\ session[k].status # "active" => session'[k].status # "active"
       /\ docker[k] # "running" => docker'[k] # "running"
       /\ session'[k].expires = session[k].expires \/ Crash]_vars

\* Whoever is about to report a session as expired has seen to the container
\* it knew of: it is removed, and stays so.  Needs Docker not to fail ("stop").
EndedIsRemoved ==
  \A p \in Procs :
    pc[p] = "finish" /\ sess[p].cid # NoContainer => docker[sess[p].cid] = "removed"

\* While the server lives and its writes succeed, every running container is
\* named by its session's row or is about to be (manager.Create and the
\* update that follows it are two calls).  A crash can leave one unowned.
RunningIsOwned ==
  crashes = 0 => \A k \in Keys : docker[k] = "running" =>
    \/ session[k].cid = k
    \/ \E p \in Procs : pc[p] = "start_publish" /\ sess[p].id = k

\* No session is left booting: the handler that created it is still at work,
\* unless the server has crashed under it.
BootingHasStart ==
  crashes = 0 => \A k \in Keys : session[k].status = "booting" => StartInFlight(k)

\* No session is left terminating: whoever wrote the mark last, of all the
\* handlers and reapers that end the same session, has yet to write expired,
\* unless the server has crashed in between.
TerminatingHasKiller ==
  crashes = 0 => \A k \in Keys : session[k].status = "terminating" =>
    \E p \in Procs : pc[p] \in KillPCs /\ sess[p].id = k

\* However old the slice reapExpiredSessions works through, every session in
\* it is still past its TTL: nothing extends expires_at, not even the whole
\* row a booting Start writes back.
TtlReaperJustified ==
  \A p \in TtlReapers : pc[p] # "idle" =>
    \A row \in batch[p] \cup {sess[p]} : session[row.id].expires <= now

\* Once its Start handler has returned, a session that is over stays over:
\* no stale copy brings it back to booting or active.
NeverRevived ==
  [][\A k \in Keys :
       /\ session[k].status # "none" /\ ~LiveStatus(session[k].status)
       /\ ~StartInFlight(k)
       => ~LiveStatus(session'[k].status)]_vars

\* A user has one live, unexpired session per challenge.
OneLivePerSlot ==
  \A slot \in Slots : Cardinality(FindActiveByUserAndChallenge(slot)) <= 1

\* Every session still live when its TTL is over ends up expired.
ExpiredAreReaped ==
  \A k \in Keys :
    (LiveStatus(session[k].status) /\ session[k].expires <= now)
      ~> session[k].status \in {"expired", "error"}

\* An active session that stays idle does not stay active.
IdleAreReaped ==
  \A k \in Keys :
    (session[k].status = "active" /\ session[k].lastActive + IdleTimeout < now)
      ~> (session[k].status # "active" \/ session[k].lastActive + IdleTimeout >= now)

-----------------------------------------------------------------------------
(* The contract the lifecycle implements.                                  *)

Phase(k) ==
  CASE k > created -> "unused"
    [] k <= created /\ StartInFlight(k) -> "starting"
    [] k <= created /\ ~StartInFlight(k) /\ session[k].status = "active" -> "open"
    [] OTHER -> "over"

Box(k) ==
  CASE docker[k] = "running" -> "up"
    [] docker[k] \in {"exited", "removed"} -> docker[k]
    [] OTHER -> "none"

Contract == INSTANCE SessionContract
              WITH phase <- [k \in Keys |-> Phase(k)],
                   box <- [k \in Keys |-> Box(k)],
                   Fragile <- Fault("exit")

\* Every behaviour of handlers, reapers and crashes is one the contract
\* allows, as long as writes of the store do not fail.
ImplementsContract == Contract!ContractSpec

-----------------------------------------------------------------------------
(* The inductive invariant behind the proofs.                              *)

\* Keys not handed out yet have no row, no container and no goroutine.
FreshKeys ==
  /\ \A k \in Keys : k > created => session[k] = NoRow /\ docker[k] = "none"
  /\ \A p \in Procs : /\ sess[p].id <= created
                      /\ \A row \in batch[p] : row.id \in 1 .. created

\* A Start whose container is being made works alone on a key whose row has
\* no container yet.
StartOwnsKey ==
  \A p \in Procs : pc[p] \in StartPCs =>
    /\ sess[p].id \in Keys
    /\ sess[p].cid = NoContainer
    /\ session[sess[p].id].cid = NoContainer
    /\ session[sess[p].id].status \notin {"none", "active"}
    /\ \A q \in Procs : pc[q] \in StartPCs /\ sess[q].id = sess[p].id => q = p

\* A row names no container but its own, and an active row names it.
RowNamesContainer ==
  \A k \in Keys : /\ session[k].cid \in {NoContainer, k}
                  /\ session[k].status = "active" => session[k].cid = k

\* A copy that names a container agrees with the row it was taken from.
CopyNames(row) ==
  row.cid # NoContainer => /\ row.id \in Keys /\ row.cid = row.id
                           /\ session[row.id].cid = row.id

CopiesAgree ==
  \A p \in Procs : /\ CopyNames(sess[p])
                   /\ \A row \in batch[p] : CopyNames(row)
                   /\ pc[p] \in {"attach", "stop", "remove"} => sess[p].cid # NoContainer

StoreInv == FreshKeys /\ StartOwnsKey /\ RowNamesContainer /\ CopiesAgree

\* How a container is found that nobody has taken down: it may have exited.
Up == IF Fault("exit") THEN {"running", "exited"} ELSE {"running"}

\* The container of a session about to be published or published is up, and a
\* container is stopped only after its row has left active for good.
ActiveIsUp == \A k \in Keys : session[k].status = "active" => docker[k] \in Up

ContainerInv ==
  /\ ActiveIsUp
  /\ \A p \in Procs :
       /\ pc[p] = "start_publish" => docker[sess[p].id] \in Up
       /\ pc[p] = "docker_start" => docker[sess[p].id] = "created"
       /\ pc[p] = "docker_create" => docker[sess[p].id] = "none"
       /\ pc[p] \in {"stop", "remove"} => session[sess[p].id].status # "active"

\* A container that a row names has been started, and one that a Start is
\* making is as far as its Start: no fault disturbs that.
MadeInv ==
  /\ \A k \in Keys : session[k].cid = k => docker[k] \in {"running", "exited", "removed"}
  /\ \A p \in Procs :
       /\ pc[p] = "start_publish" => docker[sess[p].id] \in {"running", "exited"}
       /\ pc[p] = "docker_start" => docker[sess[p].id] = "created"
       /\ pc[p] = "docker_create" => docker[sess[p].id] = "none"

\* A reaper at work ends sessions and does nothing else, and the copy a Start
\* will write back has the expiry of its row.
ReaperAtWork ==
  \A p \in TtlReapers : pc[p] # "idle" => pc[p] \in KillPCs /\ sess[p].id \in Keys

BootCopiesAgree ==
  \A p \in Procs : pc[p] \in StartPCs => session[sess[p].id].expires = sess[p].expires

ReaperInv == ReaperAtWork /\ BootCopiesAgree /\ TtlReaperJustified
=============================================================================
