----------------------- MODULE SessionLifecycle_proofs -----------------------
(***************************************************************************)
(* Proofs about SessionLifecycle, for all slots, goroutines, lifetimes and *)
(* bounds.                                                                 *)
(***************************************************************************)
EXTENDS SessionLifecycle, FiniteSetTheorems, TLAPS

USE ConstantsAssumption DEF Keys, NoContainer

\* A copy of a stored row is a row that names the key it was read for.
LEMMA CopyIsRow ==
  ASSUME TypeOK, NEW k \in Keys
  PROVE  /\ Copy(k) \in Row
         /\ Copy(k).id = k
         /\ Copy(k).cid = session[k].cid
BY DEF TypeOK, Copy, Row, NoRow

\* The row a Start inserts is a row.
LEMMA NewRowIsRow ==
  ASSUME TypeOK, NEW k \in Keys, NEW slot \in Slots \cup {DevSlot}
  PROVE  NewRow(k, slot) \in Row
BY DEF TypeOK, NewRow, Row, Statuses

LEMMA NoRowIsRow == NoRow \in Row
BY DEF NoRow, Row

\* Writing a status keeps the store well-typed.
LEMMA UpdateStatusTypeOK ==
  ASSUME session \in [Keys -> Row], NEW k, NEW s \in Statuses, UpdateStatus(k, s)
  PROVE  session' \in [Keys -> Row]
<1>1. CASE session' = [session EXCEPT ![k].status = s]
  <2>1. ASSUME NEW i \in Keys
        PROVE  [session[i] EXCEPT !.status = s] \in Row
    BY DEF Row
  <2>2. QED BY <1>1, <2>1
<1>2. CASE UNCHANGED session
  BY <1>2
<1>3. QED BY <1>1, <1>2 DEF UpdateStatus

\* The steps of a goroutine in Start keep the types.
LEMMA StartTypeOK ==
  ASSUME TypeOK, NEW p \in Procs, StartStep(p)
  PROVE  TypeOK'
<1> USE DEF Goto, Hold, Return, World, PCs, StartPCs, KillPCs, DockerStates
<1>0. NoRow \in Row
  BY NoRowIsRow
<1>1. CASE StartInspect(p)
  BY <1>0, <1>1 DEF StartInspect, TypeOK
<1>2. CASE StartExpire(p)
  <2>1. session' \in [Keys -> Row]
    BY <1>2, UpdateStatusTypeOK DEF StartExpire, TypeOK, Statuses
  <2>2. QED BY <1>2, <2>1 DEF StartExpire, TypeOK
<1>3. CASE StartCreate(p)
  <2>1. CASE created < MaxSessions /\ created' = created + 1
    <3>1. created + 1 \in Keys /\ created \in Nat
      BY <2>1 DEF TypeOK
    <3>2. sess[p].slot \in Slots \cup {DevSlot}
      BY DEF TypeOK, Row
    <3>3. NewRow(created + 1, sess[p].slot) \in Row
      BY <3>1, <3>2, NewRowIsRow
    <3>4. created' # created
      BY <2>1, <3>1
    <3>5. /\ session' = [session EXCEPT ![created + 1] = NewRow(created + 1, sess[p].slot)]
          /\ sess' = [sess EXCEPT ![p] = NewRow(created + 1, sess[p].slot)]
          /\ pc' = [pc EXCEPT ![p] = "docker_create"]
          /\ UNCHANGED <<docker, batch, attached, now, crashes>>
      BY <1>3, <3>4 DEF StartCreate
    <3>6. session' \in [Keys -> Row] /\ sess' \in [Procs -> Row]
      BY <3>3, <3>5 DEF TypeOK
    <3>7. created' \in 0 .. MaxSessions
      BY <2>1, <3>1
    <3>8. QED BY <3>5, <3>6, <3>7 DEF TypeOK
  <2>2. CASE Return(p) /\ UNCHANGED <<session, created>>
    BY <1>0, <1>3, <2>2 DEF StartCreate, TypeOK
  <2>3. QED BY <1>3, <2>1, <2>2 DEF StartCreate
<1>4. CASE ContainerCreate(p)
  BY <1>4 DEF ContainerCreate, TypeOK
<1>5. CASE ContainerStart(p)
  BY <1>5 DEF ContainerStart, TypeOK
<1>6. CASE StartError(p)
  <2>1. session' \in [Keys -> Row]
    BY <1>6, UpdateStatusTypeOK DEF StartError, TypeOK, Statuses
  <2>2. QED BY <1>0, <1>6, <2>1 DEF StartError, TypeOK
<1>7. CASE StartPublish(p)
  <2>1. sess[p].id \in Keys => [sess[p] EXCEPT !.cid = sess[p].id, !.status = "active"] \in Row
    BY ZenonT(40) DEF TypeOK, Row, Statuses
  <2>2. session' \in [Keys -> Row]
    BY <1>7, <2>1 DEF StartPublish, TypeOK
  <2>3. QED BY <1>0, <1>7, <2>2 DEF StartPublish, TypeOK
<1>8. QED BY <1>1, <1>2, <1>3, <1>4, <1>5, <1>6, <1>7 DEF StartStep

\* The steps of Status, Reconnect and Connect keep the types.
LEMMA ProbeTypeOK ==
  ASSUME TypeOK, NEW p \in Procs, ProbeStep(p)
  PROVE  TypeOK'
<1> USE DEF Goto, Hold, Return, World, PCs, StartPCs, KillPCs
<1>0. NoRow \in Row
  BY NoRowIsRow
<1>1. CASE Probe(p)
  BY <1>0, <1>1 DEF Probe, TypeOK
<1>2. CASE MarkExpired(p)
  <2>1. session' \in [Keys -> Row]
    BY <1>2, UpdateStatusTypeOK DEF MarkExpired, TypeOK, Statuses
  <2>2. QED BY <1>0, <1>2, <2>1 DEF MarkExpired, TypeOK
<1>3. CASE ConnectAttach(p)
  <2>1. attached' \in SUBSET Keys
    <3>1. sess[p].cid \in Keys \cup {NoContainer}
      BY DEF TypeOK, Row
    <3>2. QED BY <1>3, <3>1 DEF ConnectAttach, IsRunning, TypeOK
  <2>2. QED BY <1>0, <1>3, <2>1 DEF ConnectAttach, TypeOK
<1>4. QED BY <1>1, <1>2, <1>3 DEF ProbeStep

\* The steps that end a session keep the types.
LEMMA KillTypeOK ==
  ASSUME TypeOK, NEW p \in Procs, KillStep(p)
  PROVE  TypeOK'
<1> USE DEF Goto, Hold, Return, World, PCs, StartPCs, KillPCs, DockerStates
<1>0. NoRow \in Row
  BY NoRowIsRow
<1>1. CASE MarkTerminating(p)
  <2>1. session' \in [Keys -> Row]
    BY <1>1, UpdateStatusTypeOK DEF MarkTerminating, TypeOK, Statuses
  <2>2. QED BY <1>1, <2>1 DEF MarkTerminating, TypeOK
<1>2. CASE ContainerStop(p)
  BY <1>2 DEF ContainerStop, TypeOK
<1>3. CASE ContainerRemove(p)
  BY <1>3 DEF ContainerRemove, TypeOK
<1>4. CASE Finish(p)
  <2>1. session' \in [Keys -> Row]
    BY <1>4, UpdateStatusTypeOK DEF Finish, TypeOK, Statuses
  <2>2. CASE batch[p] = {} /\ Return(p) /\ UNCHANGED batch
    BY <1>0, <1>4, <2>1, <2>2 DEF Finish, TypeOK
  <2>3. ASSUME NEW row \in batch[p], Hold(p, row), Goto(p, "mark"),
               batch' = [batch EXCEPT ![p] = @ \ {row}]
        PROVE  TypeOK'
    BY <1>4, <2>1, <2>3 DEF Finish, TypeOK
  <2>4. QED BY <1>4, <2>2, <2>3 DEF Finish
<1>5. QED BY <1>1, <1>2, <1>3, <1>4 DEF KillStep

\* A request or a cron job that begins keeps the types.
LEMMA BeginTypeOK ==
  ASSUME TypeOK, NEW p \in Procs, Arrive(p) \/ Fire(p)
  PROVE  TypeOK'
<1> USE DEF Goto, Hold, World, PCs, StartPCs, KillPCs
<1>1. ASSUME NEW slot \in Slots, StartLookup(p, slot)
      PROVE  TypeOK'
  <2>1. [NoRow EXCEPT !.slot = slot] \in Row
    BY DEF NoRow, Row
  <2>2. sess' \in [Procs -> Row]
    BY <1>1, <2>1, CopyIsRow DEF StartLookup, TypeOK, FindActiveByUserAndChallenge
  <2>3. QED BY <1>1, <2>2 DEF StartLookup, TypeOK
<1>2. ASSUME NEW slot \in Slots, ReconnectLookup(p, slot)
      PROVE  TypeOK'
  <2>1. sess' \in [Procs -> Row]
    BY <1>2, CopyIsRow DEF ReconnectLookup, TypeOK, FindActiveByUserAndChallenge
  <2>2. QED BY <1>2, <2>1 DEF ReconnectLookup, TypeOK
<1>3. CASE DevStart(p)
  BY <1>3, NoRowIsRow DEF DevStart, TypeOK
<1>4. ASSUME NEW k \in Keys, StatusLookup(p, k) \/ ConnectLookup(p, k) \/ TerminateLookup(p, k)
      PROVE  TypeOK'
  <2>1. Copy(k) \in Row
    BY CopyIsRow
  <2>2. QED BY <1>4, <2>1 DEF StatusLookup, ConnectLookup, TerminateLookup, TypeOK
<1>5. ASSUME NEW found \in SUBSET Keys, Reap(p, found)
      PROVE  TypeOK'
  <2>1. \A k \in found : Copy(k) \in Row
    BY CopyIsRow
  <2>2. sess' \in [Procs -> Row] /\ batch' \in [Procs -> SUBSET Row]
    BY <1>5, <2>1 DEF Reap, TypeOK
  <2>3. QED BY <1>5, <2>2 DEF Reap, TypeOK
<1>6. FindExpired \in SUBSET Keys /\ FindIdleExpired \in SUBSET Keys
  BY DEF FindExpired, FindIdleExpired
<1>7. QED
  BY <1>1, <1>2, <1>3, <1>4, <1>5, <1>6
  DEF Arrive, Fire, ReapExpiredSessions, ReapIdleSessions

\* The steps of bridges, clock, containers and crashes keep the types.
LEMMA WorldTypeOK ==
  ASSUME TypeOK,
         \/ \E k \in Keys : Activity(k) \/ Detach(k) \/ ContainerExit(k)
         \/ Tick
         \/ Crash
  PROVE  TypeOK'
<1> USE DEF World, PCs, DockerStates
<1>1. ASSUME NEW k \in Keys, Activity(k)
      PROVE  TypeOK'
  <2>1. [session[k] EXCEPT !.lastActive = now] \in Row
    <3>1. session[k] \in Row /\ now \in Nat
      BY DEF TypeOK
    <3>2. QED BY <3>1 DEF Row
  <2>2. session' \in [Keys -> Row]
    BY <1>1, <2>1 DEF Activity, TypeOK
  <2>3. QED BY <1>1, <2>2 DEF Activity, TypeOK
<1>2. ASSUME NEW k \in Keys, Detach(k) \/ ContainerExit(k)
      PROVE  TypeOK'
  BY <1>2 DEF Detach, ContainerExit, TypeOK
<1>3. CASE Tick
  BY <1>3 DEF Tick, TypeOK
<1>4. CASE Crash
  <2>1. session' \in [Keys -> Row]
    BY <1>4, NoRowIsRow DEF Crash, TypeOK
  <2>2. crashes' \in Nat
    BY <1>4 DEF Crash, TypeOK
  <2>3. QED BY <1>4, <2>1, <2>2, NoRowIsRow DEF Crash, TypeOK
<1>5. QED BY <1>1, <1>2, <1>3, <1>4

\* Every reachable state is well-typed: statuses stay within the five the
\* model declares and no copy a goroutine holds is anything but a row.
THEOREM TypeCorrect == Spec => []TypeOK
<1>1. Init => TypeOK
  BY NoRowIsRow DEF Init, TypeOK, PCs, DockerStates
<1>2. TypeOK /\ [Next]_vars => TypeOK'
  <2>1. CASE UNCHANGED vars
    BY <2>1 DEF vars, TypeOK
  <2>2. QED
    BY <2>1, StartTypeOK, ProbeTypeOK, KillTypeOK, BeginTypeOK, WorldTypeOK DEF Next, Step
<1>3. QED BY <1>1, <1>2, PTL DEF Spec

-----------------------------------------------------------------------------
(* The store: what every step except StartCreate, StartPublish and Crash   *)
(* leaves alone.                                                           *)

Ended == {"terminating", "expired", "error"}

CopiesQuiet ==
  \A q \in Procs :
    /\ sess'[q].id <= created /\ CopyNames(sess'[q])
    /\ \A row \in batch'[q] : row.id \in 1 .. created /\ CopyNames(row)
    /\ pc'[q] \in {"attach", "stop", "remove"} => sess'[q].cid # NoContainer
    /\ pc'[q] \in StartPCs => pc[q] \in StartPCs /\ sess'[q] = sess[q]

RowsQuiet ==
  /\ \A i \in Keys : /\ session'[i].cid = session[i].cid
                     /\ session'[i].status \in {session[i].status} \cup Ended
  /\ \A i \in Keys : i > created => session'[i] = session[i]

DockerQuiet == \A i \in Keys : i > created => docker'[i] = docker[i]

Quiet == created' = created /\ RowsQuiet /\ DockerQuiet /\ CopiesQuiet

\* A status write that ends a session is quiet on the rows.
LEMMA UpdateStatusQuiet ==
  ASSUME TypeOK, NEW k, k <= created, k \in Keys \cup {0},
         NEW s \in Ended, UpdateStatus(k, s)
  PROVE  RowsQuiet
<1>1. CASE UNCHANGED session
  BY <1>1 DEF RowsQuiet
<1>2. CASE session' = [session EXCEPT ![k].status = s]
  <2>1. session \in [Keys -> Row] /\ created \in Nat
    BY DEF TypeOK
  <2>2. ASSUME NEW i \in Keys
        PROVE  /\ session'[i].cid = session[i].cid
               /\ session'[i].status \in {session[i].status} \cup Ended
               /\ i > created => session'[i] = session[i]
    <3>1. session[i] \in Row
      BY <2>1
    <3>2. CASE i = k
      <4>1. session'[i] = [session[i] EXCEPT !.status = s]
        BY <1>2, <2>1, <3>2
      <4>2. ~(i > created)
        BY <2>1, <3>2
      <4>3. QED BY <3>1, <4>1, <4>2 DEF Row
    <3>3. CASE i # k
      BY <1>2, <2>1, <3>3
    <3>4. QED BY <3>2, <3>3
  <2>3. QED BY <2>2 DEF RowsQuiet
<1>3. QED BY <1>1, <1>2 DEF UpdateStatus

\* The copies the goroutines hold stay as they are when none is replaced.
LEMMA HeldCopies ==
  ASSUME TypeOK, StoreInv
  PROVE  /\ NoRow.id = 0 /\ NoRow.cid = NoContainer /\ CopyNames(NoRow) /\ 0 <= created
         /\ \A q \in Procs :
              /\ sess[q] \in Row /\ sess[q].id \in Keys \cup {0} /\ sess[q].id \in Nat
              /\ sess[q].id <= created /\ CopyNames(sess[q])
              /\ \A row \in batch[q] : row.id \in 1 .. created /\ CopyNames(row)
              /\ pc[q] \in {"attach", "stop", "remove"} => sess[q].cid # NoContainer
         /\ created \in Nat /\ created <= MaxSessions
<1>1. NoRow.id = 0 /\ NoRow.cid = NoContainer
  BY DEF NoRow
<1>2. created \in Nat /\ created <= MaxSessions /\ 0 <= created
  BY DEF TypeOK
<1>3. ASSUME NEW q \in Procs
      PROVE  sess[q] \in Row /\ sess[q].id \in Keys \cup {0} /\ sess[q].id \in Nat
  BY DEF TypeOK, Row
<1>4. CopyNames(NoRow)
  BY <1>1 DEF CopyNames
<1>5. FreshKeys /\ CopiesAgree
  BY DEF StoreInv
<1>6. ASSUME NEW q \in Procs
      PROVE  /\ sess[q].id <= created /\ CopyNames(sess[q])
             /\ \A row \in batch[q] : row.id \in 1 .. created /\ CopyNames(row)
             /\ pc[q] \in {"attach", "stop", "remove"} => sess[q].cid # NoContainer
  BY <1>5 DEF FreshKeys, CopiesAgree
<1>7. QED BY <1>1, <1>2, <1>3, <1>4, <1>6

\* A copy taken now agrees with its row.
LEMMA CopyIsHeld ==
  ASSUME TypeOK, StoreInv, NEW k \in Keys, session[k].status # "none"
  PROVE  /\ Copy(k).id = k /\ k \in 1 .. created /\ k <= created
         /\ CopyNames(Copy(k))
         /\ Copy(k).cid = session[k].cid
         /\ session[k].status = "active" => Copy(k).cid # NoContainer
<1>1. ~(k > created)
  BY DEF StoreInv, FreshKeys, NoRow
<1>2. k <= created
  BY <1>1 DEF TypeOK
<1>3. /\ session[k].cid \in {NoContainer, k}
      /\ session[k].status = "active" => session[k].cid = k
  <2>1. RowNamesContainer
    BY DEF StoreInv
  <2>2. QED BY <2>1 DEF RowNamesContainer
<1>4. Copy(k).id = k /\ Copy(k).cid = session[k].cid
  BY CopyIsRow
<1>5. k \in 1 .. created /\ k # 0
  BY <1>2 DEF TypeOK
<1>6. QED BY <1>2, <1>3, <1>4, <1>5 DEF CopyNames

\* The quiet steps of Start.
LEMMA StartQuiet ==
  ASSUME TypeOK, StoreInv, NEW p \in Procs,
         \/ StartInspect(p) \/ StartExpire(p) \/ ContainerCreate(p)
         \/ ContainerStart(p) \/ StartError(p)
         \/ StartCreate(p) /\ UNCHANGED created
  PROVE  Quiet
<1> USE HeldCopies DEF Goto, Hold, Return, World, StartPCs
<1>t. pc \in [Procs -> PCs] /\ sess \in [Procs -> Row] /\ docker \in [Keys -> DockerStates]
      /\ batch \in [Procs -> SUBSET Row]
  BY DEF TypeOK
<1>1. CASE StartInspect(p)
  BY <1>t, <1>1 DEF StartInspect, Quiet, RowsQuiet, DockerQuiet, CopiesQuiet
<1>2. CASE StartExpire(p)
  <2>1. RowsQuiet
    BY <1>2, UpdateStatusQuiet DEF StartExpire, Ended
  <2>2. QED BY <1>t, <1>2, <2>1 DEF StartExpire, Quiet, DockerQuiet, CopiesQuiet
<1>3. CASE ContainerCreate(p)
  BY <1>t, <1>3 DEF ContainerCreate, Quiet, RowsQuiet, DockerQuiet, CopiesQuiet
<1>4. CASE ContainerStart(p)
  BY <1>t, <1>4 DEF ContainerStart, Quiet, RowsQuiet, DockerQuiet, CopiesQuiet
<1>5. CASE StartError(p)
  <2>1. RowsQuiet
    BY <1>5, UpdateStatusQuiet DEF StartError, Ended
  <2>2. QED BY <1>t, <1>5, <2>1 DEF StartError, Quiet, DockerQuiet, CopiesQuiet
<1>6. CASE StartCreate(p) /\ UNCHANGED created
  <2>1. created # created + 1
    OBVIOUS
  <2>2. Return(p) /\ UNCHANGED <<session, docker, created, batch, World>>
    BY <1>6, <2>1 DEF StartCreate
  <2>3. QED BY <1>t, <2>2 DEF Quiet, RowsQuiet, DockerQuiet, CopiesQuiet
<1>7. QED BY <1>1, <1>2, <1>3, <1>4, <1>5, <1>6

\* The steps of Status, Reconnect and Connect are quiet.
LEMMA ProbeQuiet ==
  ASSUME TypeOK, StoreInv, NEW p \in Procs, ProbeStep(p)
  PROVE  Quiet
<1> USE HeldCopies DEF Goto, Hold, Return, World, StartPCs
<1>t. pc \in [Procs -> PCs] /\ sess \in [Procs -> Row] /\ batch \in [Procs -> SUBSET Row]
  BY DEF TypeOK
<1>1. CASE Probe(p)
  BY <1>t, <1>1 DEF Probe, Quiet, RowsQuiet, DockerQuiet, CopiesQuiet
<1>2. CASE MarkExpired(p)
  <2>1. RowsQuiet
    BY <1>2, UpdateStatusQuiet DEF MarkExpired, Ended
  <2>2. QED BY <1>t, <1>2, <2>1 DEF MarkExpired, Quiet, DockerQuiet, CopiesQuiet
<1>3. CASE ConnectAttach(p)
  BY <1>t, <1>3 DEF ConnectAttach, Quiet, RowsQuiet, DockerQuiet, CopiesQuiet
<1>4. QED BY <1>1, <1>2, <1>3 DEF ProbeStep

\* The steps that end a session are quiet.
LEMMA KillQuiet ==
  ASSUME TypeOK, StoreInv, NEW p \in Procs, KillStep(p)
  PROVE  Quiet
<1> USE HeldCopies DEF Goto, Hold, Return, World, StartPCs
<1>t. pc \in [Procs -> PCs] /\ sess \in [Procs -> Row] /\ batch \in [Procs -> SUBSET Row]
      /\ docker \in [Keys -> DockerStates]
  BY DEF TypeOK
<1>1. CASE MarkTerminating(p)
  <2>1. RowsQuiet
    BY <1>1, UpdateStatusQuiet DEF MarkTerminating, Ended
  <2>2. QED BY <1>t, <1>1, <2>1 DEF MarkTerminating, Quiet, DockerQuiet, CopiesQuiet
<1>2. CASE ContainerStop(p) \/ ContainerRemove(p)
  <2>1. sess[p].cid = sess[p].id \/ sess[p].cid = NoContainer
    BY DEF CopyNames
  <2>2. DockerQuiet
    BY <1>t, <1>2, <2>1 DEF ContainerStop, ContainerRemove, DockerQuiet
  <2>3. QED
    BY <1>t, <1>2, <2>2 DEF ContainerStop, ContainerRemove, Quiet, RowsQuiet, CopiesQuiet
<1>3. CASE Finish(p)
  <2>1. RowsQuiet
    BY <1>3, UpdateStatusQuiet DEF Finish, Ended
  <2>2. CASE batch[p] = {} /\ Return(p) /\ UNCHANGED batch
    BY <1>t, <1>3, <2>1, <2>2 DEF Finish, Quiet, DockerQuiet, CopiesQuiet
  <2>3. ASSUME NEW row \in batch[p], Hold(p, row), Goto(p, "mark"),
               batch' = [batch EXCEPT ![p] = @ \ {row}]
        PROVE  Quiet
    <3>1. row.id <= created /\ CopyNames(row)
      OBVIOUS
    <3>2. QED BY <1>t, <1>3, <2>1, <2>3, <3>1 DEF Finish, Quiet, DockerQuiet, CopiesQuiet
  <2>4. QED BY <1>3, <2>2, <2>3 DEF Finish
<1>4. QED BY <1>1, <1>2, <1>3 DEF KillStep

\* Requests and cron jobs that begin are quiet.
LEMMA BeginQuiet ==
  ASSUME TypeOK, StoreInv, NEW p \in Procs, Arrive(p) \/ Fire(p)
  PROVE  Quiet
<1> USE HeldCopies DEF Goto, Hold, World, StartPCs
<1>t. pc \in [Procs -> PCs] /\ sess \in [Procs -> Row] /\ batch \in [Procs -> SUBSET Row]
  BY DEF TypeOK
<1>1. ASSUME NEW slot \in Slots, StartLookup(p, slot)
      PROVE  Quiet
  <2>1. CASE \E k \in FindActiveByUserAndChallenge(slot) :
               Hold(p, Copy(k)) /\ Goto(p, "start_inspect")
    <3>1. PICK k \in FindActiveByUserAndChallenge(slot) :
               Hold(p, Copy(k)) /\ Goto(p, "start_inspect")
      BY <2>1
    <3>2. k \in Keys /\ session[k].status # "none"
      BY DEF FindActiveByUserAndChallenge, LiveStatus
    <3>3. Copy(k).id <= created /\ CopyNames(Copy(k))
      BY <3>2, CopyIsHeld
    <3>4. QED
      BY <1>t, <1>1, <3>1, <3>3 DEF StartLookup, Quiet, RowsQuiet, DockerQuiet, CopiesQuiet
  <2>2. CASE Hold(p, [NoRow EXCEPT !.slot = slot]) /\ Goto(p, "start_create")
    <3>1. [NoRow EXCEPT !.slot = slot].id = 0 /\ [NoRow EXCEPT !.slot = slot].cid = NoContainer
      BY DEF NoRow
    <3>2. QED
      BY <1>t, <1>1, <2>2, <3>1
      DEF StartLookup, Quiet, RowsQuiet, DockerQuiet, CopiesQuiet, CopyNames
  <2>3. QED BY <1>1, <2>1, <2>2 DEF StartLookup
<1>2. ASSUME NEW slot \in Slots, ReconnectLookup(p, slot)
      PROVE  Quiet
  <2>1. PICK k \in FindActiveByUserAndChallenge(slot) : Hold(p, Copy(k))
    BY <1>2 DEF ReconnectLookup
  <2>2. k \in Keys /\ session[k].status # "none"
    BY DEF FindActiveByUserAndChallenge, LiveStatus
  <2>3. Copy(k).id <= created /\ CopyNames(Copy(k))
    BY <2>2, CopyIsHeld
  <2>4. QED
    BY <1>t, <1>2, <2>1, <2>3 DEF ReconnectLookup, Quiet, RowsQuiet, DockerQuiet, CopiesQuiet
<1>3. CASE DevStart(p)
  BY <1>t, <1>3 DEF DevStart, Quiet, RowsQuiet, DockerQuiet, CopiesQuiet
<1>4. ASSUME NEW k \in Keys, StatusLookup(p, k) \/ ConnectLookup(p, k) \/ TerminateLookup(p, k)
      PROVE  Quiet
  <2>1. session[k].status # "none"
    BY <1>4 DEF StatusLookup, ConnectLookup, TerminateLookup
  <2>2. /\ Copy(k).id <= created /\ CopyNames(Copy(k))
        /\ session[k].status = "active" => Copy(k).cid # NoContainer
    BY <2>1, CopyIsHeld
  <2>3. QED
    BY <1>t, <1>4, <2>2
    DEF StatusLookup, ConnectLookup, TerminateLookup, Quiet, RowsQuiet, DockerQuiet, CopiesQuiet
<1>5. ASSUME NEW found \in SUBSET Keys, \A k \in found : session[k].status # "none",
             Reap(p, found)
      PROVE  Quiet
  <2>1. \A k \in found : /\ Copy(k).id \in 1 .. created /\ Copy(k).id <= created
                         /\ CopyNames(Copy(k))
    BY <1>5, CopyIsHeld
  <2>2. PICK k \in found : /\ Hold(p, Copy(k))
                           /\ batch' = [batch EXCEPT ![p] = {Copy(i) : i \in found \ {k}}]
    BY <1>5 DEF Reap
  <2>3. \A row \in batch'[p] : row.id \in 1 .. created /\ CopyNames(row)
    BY <1>t, <2>1, <2>2
  <2>4. QED
    BY <1>t, <1>5, <2>1, <2>2, <2>3 DEF Reap, Quiet, RowsQuiet, DockerQuiet, CopiesQuiet
<1>6. /\ FindExpired \in SUBSET Keys /\ FindIdleExpired \in SUBSET Keys
      /\ \A k \in FindExpired \cup FindIdleExpired : session[k].status # "none"
  BY DEF FindExpired, FindIdleExpired, LiveStatus
<1>7. QED
  BY <1>1, <1>2, <1>3, <1>4, <1>5, <1>6
  DEF Arrive, Fire, ReapExpiredSessions, ReapIdleSessions

\* Bridges, containers and the clock are quiet.
LEMMA WorldQuiet ==
  ASSUME TypeOK, StoreInv,
         \/ \E k \in Keys : Activity(k) \/ Detach(k) \/ ContainerExit(k)
         \/ Tick
         \/ UNCHANGED vars
  PROVE  Quiet
<1> USE HeldCopies DEF World
<1>1. ASSUME NEW k \in Keys, Activity(k)
      PROVE  Quiet
  <2>1. k <= created
    BY <1>1, CopyIsHeld DEF Activity
  <2>2. session \in [Keys -> Row]
    BY DEF TypeOK
  <2>3. RowsQuiet
    BY <1>1, <2>1, <2>2 DEF Activity, RowsQuiet, Row
  <2>4. QED BY <1>1, <2>3 DEF Activity, Quiet, DockerQuiet, CopiesQuiet
<1>2. ASSUME NEW k \in Keys, ContainerExit(k)
      PROVE  Quiet
  <2>1. ~(k > created)
    BY <1>2 DEF ContainerExit, StoreInv, FreshKeys
  <2>2. DockerQuiet
    BY <1>2, <2>1 DEF ContainerExit, DockerQuiet, TypeOK
  <2>3. QED BY <1>2, <2>2 DEF ContainerExit, Quiet, RowsQuiet, CopiesQuiet
<1>3. ASSUME NEW k \in Keys, Detach(k)
      PROVE  Quiet
  BY <1>3 DEF Detach, Quiet, RowsQuiet, DockerQuiet, CopiesQuiet
<1>4. CASE Tick
  BY <1>4 DEF Tick, Quiet, RowsQuiet, DockerQuiet, CopiesQuiet
<1>5. CASE UNCHANGED vars
  BY <1>5 DEF vars, Quiet, RowsQuiet, DockerQuiet, CopiesQuiet
<1>6. QED BY <1>1, <1>2, <1>3, <1>4, <1>5

\* Every step is quiet, hands out a key, publishes a session or is a crash.
LEMMA StepShape ==
  ASSUME TypeOK, StoreInv, [Next]_vars
  PROVE  \/ Quiet
         \/ \E p \in Procs : StartCreate(p) /\ created' = created + 1
         \/ \E p \in Procs : StartPublish(p)
         \/ Crash
<1>1. ASSUME NEW p \in Procs, Step(p)
      PROVE  \/ Quiet
             \/ StartCreate(p) /\ created' = created + 1
             \/ StartPublish(p)
  <2>1. StartCreate(p) => created' = created + 1 \/ UNCHANGED created
    BY DEF StartCreate
  <2>2. QED BY <1>1, <2>1, StartQuiet, ProbeQuiet, KillQuiet DEF Step, StartStep
<1>2. QED BY <1>1, BeginQuiet, WorldQuiet DEF Next

-----------------------------------------------------------------------------
(* The inductive invariant of the store, under every fault.                *)

\* A quiet step keeps the store invariant.
LEMMA QuietStoreInv ==
  ASSUME TypeOK, StoreInv, Quiet
  PROVE  StoreInv'
<1>0. created' = created /\ created \in Nat
  BY DEF Quiet, TypeOK
<1>1. FreshKeys'
  BY <1>0 DEF Quiet, RowsQuiet, DockerQuiet, CopiesQuiet, StoreInv, FreshKeys
<1>2. StartOwnsKey'
  <2> SUFFICES ASSUME NEW p \in Procs, pc'[p] \in StartPCs
               PROVE  /\ sess'[p].id \in Keys
                      /\ sess'[p].cid = NoContainer
                      /\ session'[sess'[p].id].cid = NoContainer
                      /\ session'[sess'[p].id].status \notin {"none", "active"}
                      /\ \A q \in Procs :
                           pc'[q] \in StartPCs /\ sess'[q].id = sess'[p].id => q = p
    BY DEF StartOwnsKey
  <2>1. pc[p] \in StartPCs /\ sess'[p] = sess[p]
    BY DEF Quiet, CopiesQuiet
  <2>2. /\ sess[p].id \in Keys
        /\ sess[p].cid = NoContainer
        /\ session[sess[p].id].cid = NoContainer
        /\ session[sess[p].id].status \notin {"none", "active"}
        /\ \A q \in Procs : pc[q] \in StartPCs /\ sess[q].id = sess[p].id => q = p
    BY <2>1 DEF StoreInv, StartOwnsKey
  <2>3. \A q \in Procs : pc'[q] \in StartPCs => pc[q] \in StartPCs /\ sess'[q] = sess[q]
    BY DEF Quiet, CopiesQuiet
  <2>4. /\ session'[sess[p].id].cid = NoContainer
        /\ session'[sess[p].id].status \notin {"none", "active"}
    BY <2>2 DEF Quiet, RowsQuiet, Ended
  <2>5. QED BY <2>1, <2>2, <2>3, <2>4
<1>3. RowNamesContainer'
  <2>1. \A k \in Keys : /\ session'[k].cid = session[k].cid
                        /\ session'[k].status = "active" => session[k].status = "active"
    BY DEF Quiet, RowsQuiet, Ended
  <2>2. QED BY <2>1 DEF StoreInv, RowNamesContainer
<1>4. CopiesAgree'
  <2>1. \A q \in Procs : /\ sess'[q].cid # NoContainer => sess'[q].cid = sess'[q].id
                         /\ \A row \in batch'[q] : row.cid # NoContainer => row.cid = row.id
    BY DEF Quiet, CopiesQuiet, CopyNames
  <2>2. ASSUME NEW row, CopyNames(row)
        PROVE  CopyNames(row)'
    <3>1. row.id \in Keys => session'[row.id].cid = session[row.id].cid
      BY DEF Quiet, RowsQuiet
    <3>2. ASSUME row.cid # NoContainer
          PROVE  row.id \in Keys /\ row.cid = row.id /\ session'[row.id].cid = row.id
      BY <2>2, <3>1, <3>2 DEF CopyNames
    <3>3. QED BY <3>2 DEF CopyNames
  <2>3. QED BY <2>2 DEF Quiet, CopiesQuiet, CopiesAgree
<1>5. QED BY <1>1, <1>2, <1>3, <1>4 DEF StoreInv

\* Handing out a key keeps the store invariant.
LEMMA CreateStoreInv ==
  ASSUME TypeOK, StoreInv, NEW p \in Procs, StartCreate(p), created' = created + 1
  PROVE  StoreInv'
<1> USE HeldCopies DEF StartPCs
<1> DEFINE k == created + 1
           new == NewRow(k, sess[p].slot)
<1>1. /\ created < MaxSessions
      /\ session' = [session EXCEPT ![k] = new]
      /\ sess' = [sess EXCEPT ![p] = new]
      /\ pc' = [pc EXCEPT ![p] = "docker_create"]
      /\ UNCHANGED <<docker, batch>>
  <2>1. created' # created
    OBVIOUS
  <2>2. QED BY <2>1 DEF StartCreate, Hold, Goto, World
<1>2. k \in Keys /\ k # 0 /\ k > created /\ created' = k
  BY <1>1
<1>a. \A q \in Procs : sess[q].id # k /\ sess[q].id <= k
  <2>1. ASSUME NEW q \in Procs
        PROVE  sess[q].id # k /\ sess[q].id <= k
    <3>1. sess[q].id <= created /\ sess[q].id \in Nat /\ created \in Nat
      BY HeldCopies
    <3>2. QED BY <3>1
  <2>2. QED BY <2>1
<1>b. \A q \in Procs : \A row \in batch[q] : /\ row.id \in 1 .. created /\ row.id <= created
                                             /\ CopyNames(row)
  OBVIOUS
<1>3. new.id = k /\ new.cid = NoContainer /\ new.status = "booting"
  BY DEF NewRow
<1>4. /\ session'[k] = new /\ sess'[p] = new /\ pc'[p] = "docker_create"
      /\ \A i \in Keys : i # k => session'[i] = session[i]
      /\ \A q \in Procs : q # p => sess'[q] = sess[q] /\ pc'[q] = pc[q]
  BY <1>1, <1>2 DEF TypeOK
<1> HIDE DEF k, new
<1>5. \A i \in Keys : i <= created => session'[i] = session[i]
  BY <1>2, <1>4
<1>6. FreshKeys'
  <2>1. \A i \in Keys : i > created' => session'[i] = NoRow /\ docker'[i] = "none"
    BY <1>1, <1>2, <1>4 DEF StoreInv, FreshKeys, k
  <2>2. \A q \in Procs : sess'[q].id <= created'
    BY <1>2, <1>3, <1>4, <1>a
  <2>3. \A q \in Procs : \A row \in batch'[q] : row.id \in 1 .. created'
    BY <1>1, <1>b
  <2>4. QED BY <2>1, <2>2, <2>3 DEF FreshKeys
<1>7. StartOwnsKey'
  <2> SUFFICES ASSUME NEW r \in Procs, pc'[r] \in StartPCs
               PROVE  /\ sess'[r].id \in Keys
                      /\ sess'[r].cid = NoContainer
                      /\ session'[sess'[r].id].cid = NoContainer
                      /\ session'[sess'[r].id].status \notin {"none", "active"}
                      /\ \A q \in Procs :
                           pc'[q] \in StartPCs /\ sess'[q].id = sess'[r].id => q = r
    BY DEF StartOwnsKey
  <2>1. CASE r = p
    <3>1. \A q \in Procs : q # p => sess'[q].id # k
      BY <1>4, <1>a
    <3>2. QED BY <1>2, <1>3, <1>4, <2>1, <3>1
  <2>2. CASE r # p
    <3>1. pc[r] \in StartPCs /\ sess'[r] = sess[r] /\ sess[r].id # k
      BY <1>4, <1>a, <2>2
    <3>2. /\ sess[r].id \in Keys
          /\ sess[r].cid = NoContainer
          /\ session[sess[r].id].cid = NoContainer
          /\ session[sess[r].id].status \notin {"none", "active"}
          /\ \A q \in Procs : pc[q] \in StartPCs /\ sess[q].id = sess[r].id => q = r
      BY <3>1 DEF StoreInv, StartOwnsKey
    <3>3. QED BY <1>3, <1>4, <3>1, <3>2
  <2>3. QED BY <2>1, <2>2
<1>8. RowNamesContainer'
  BY <1>3, <1>4 DEF StoreInv, RowNamesContainer
<1>9. CopiesAgree'
  <2>1. ASSUME NEW row, row.id <= created, CopyNames(row)
        PROVE  CopyNames(row)'
    <3>1. ASSUME row.cid # NoContainer
          PROVE  row.id \in Keys /\ row.cid = row.id /\ session'[row.id].cid = row.id
      BY <1>5, <2>1, <3>1 DEF CopyNames
    <3>2. QED BY <3>1 DEF CopyNames
  <2>2. CopyNames(sess[p])'
    <3>1. sess'[p].cid = NoContainer
      BY <1>3, <1>4
    <3>2. QED BY <3>1 DEF CopyNames
  <2>3. \A q \in Procs : \A row \in batch'[q] : CopyNames(row)'
    BY <1>1, <1>b, <2>1
  <2>4. ASSUME NEW q \in Procs
        PROVE  CopyNames(sess[q])'
    <3>1. CASE q = p
      BY <2>2, <3>1
    <3>2. CASE q # p
      <4>1. PICK row : row = sess[q]
        OBVIOUS
      <4>2. CopyNames(row)'
        BY <2>1, <4>1
      <4>3. QED BY <1>4, <3>2, <4>1, <4>2 DEF CopyNames
    <3>3. QED BY <3>1, <3>2
  <2>5. \A q \in Procs : pc'[q] \in {"attach", "stop", "remove"} => sess'[q].cid # NoContainer
    BY <1>4
  <2>6. QED BY <2>3, <2>4, <2>5 DEF CopiesAgree
<1>10. QED BY <1>6, <1>7, <1>8, <1>9 DEF StoreInv

\* Publishing a session keeps the store invariant: its Start is alone on the
\* key, and no copy names a container the row has not named yet.
LEMMA PublishStoreInv ==
  ASSUME TypeOK, StoreInv, NEW p \in Procs, StartPublish(p)
  PROVE  StoreInv'
<1> USE HeldCopies DEF StartPCs
<1> DEFINE k == sess[p].id
           new == [sess[p] EXCEPT !.cid = k, !.status = "active"]
<1>1. /\ k \in Keys /\ k <= created
      /\ session[k].cid = NoContainer
      /\ \A q \in Procs : pc[q] \in StartPCs /\ sess[q].id = k => q = p
  BY DEF StartPublish, StoreInv, StartOwnsKey
<1>2. /\ sess' = [sess EXCEPT ![p] = NoRow]
      /\ pc' = [pc EXCEPT ![p] = "idle"]
      /\ UNCHANGED <<docker, created, batch>>
      /\ session' = [session EXCEPT ![k] = new] \/ session' = session
  BY DEF StartPublish, Return, Hold, Goto, World
<1>3. new.id = k /\ new.cid = k /\ new.status = "active"
  BY DEF Row
<1>4. /\ sess'[p] = NoRow /\ pc'[p] = "idle"
      /\ \A q \in Procs : q # p => sess'[q] = sess[q] /\ pc'[q] = pc[q]
      /\ session'[k] = new \/ session'[k] = session[k]
      /\ \A i \in Keys : i # k => session'[i] = session[i]
  BY <1>1, <1>2 DEF TypeOK
<1> HIDE DEF k, new
<1>5. FreshKeys'
  <2>1. \A i \in Keys : i > created => i # k
    BY <1>1
  <2>2. QED BY <1>2, <1>4, <2>1 DEF StoreInv, FreshKeys
<1>6. StartOwnsKey'
  <2> SUFFICES ASSUME NEW r \in Procs, pc'[r] \in StartPCs
               PROVE  /\ sess'[r].id \in Keys
                      /\ sess'[r].cid = NoContainer
                      /\ session'[sess'[r].id].cid = NoContainer
                      /\ session'[sess'[r].id].status \notin {"none", "active"}
                      /\ \A q \in Procs :
                           pc'[q] \in StartPCs /\ sess'[q].id = sess'[r].id => q = r
    BY DEF StartOwnsKey
  <2>1. r # p /\ pc[r] \in StartPCs /\ sess'[r] = sess[r]
    BY <1>4
  <2>2. sess[r].id # k
    BY <1>1, <2>1
  <2>3. /\ sess[r].id \in Keys
        /\ sess[r].cid = NoContainer
        /\ session[sess[r].id].cid = NoContainer
        /\ session[sess[r].id].status \notin {"none", "active"}
        /\ \A q \in Procs : pc[q] \in StartPCs /\ sess[q].id = sess[r].id => q = r
    BY <2>1 DEF StoreInv, StartOwnsKey
  <2>4. QED BY <1>4, <2>1, <2>2, <2>3
<1>7. RowNamesContainer'
  BY <1>3, <1>4 DEF StoreInv, RowNamesContainer
<1>8. CopiesAgree'
  <2>1. ASSUME NEW row, CopyNames(row)
        PROVE  CopyNames(row)'
    <3>1. ASSUME row.cid # NoContainer
          PROVE  row.id \in Keys /\ row.cid = row.id /\ session'[row.id].cid = row.id
      <4>1. row.id \in Keys /\ row.cid = row.id /\ session[row.id].cid = row.id
        BY <2>1, <3>1 DEF CopyNames
      <4>2. row.id # k
        BY <1>1, <4>1
      <4>3. QED BY <1>4, <4>1, <4>2
    <3>2. QED BY <3>1 DEF CopyNames
  <2>2. CopyNames(NoRow)'
    BY DEF CopyNames
  <2>3. QED BY <1>2, <1>4, <2>1, <2>2 DEF CopiesAgree
<1>9. QED BY <1>5, <1>6, <1>7, <1>8 DEF StoreInv

\* A crash keeps the store invariant, whichever store is used.
LEMMA CrashStoreInv ==
  ASSUME TypeOK, StoreInv, Crash
  PROVE  StoreInv'
<1> USE HeldCopies
<1>1. /\ \A q \in Procs : pc'[q] = "idle" /\ sess'[q] = NoRow /\ batch'[q] = {}
      /\ UNCHANGED <<docker, created>>
      /\ \A k \in Keys : session'[k] \in {session[k], NoRow}
  BY DEF Crash
<1>2. NoRow.status = "none"
  BY DEF NoRow
<1>3. FreshKeys'
  BY <1>1 DEF StoreInv, FreshKeys
<1>4. StartOwnsKey'
  BY <1>1 DEF StartOwnsKey, StartPCs
<1>5. RowNamesContainer'
  BY <1>1, <1>2 DEF StoreInv, RowNamesContainer
<1>6. CopiesAgree'
  BY <1>1 DEF CopiesAgree, CopyNames
<1>7. QED BY <1>3, <1>4, <1>5, <1>6 DEF StoreInv

\* The store invariant holds initially.
LEMMA InitStoreInv == Init => StoreInv
<1> SUFFICES ASSUME Init PROVE StoreInv
  OBVIOUS
<1>1. NoRow.id = 0 /\ NoRow.cid = NoContainer /\ NoRow.status = "none"
  BY DEF NoRow
<1>2. FreshKeys /\ CopiesAgree
  BY <1>1 DEF Init, FreshKeys, CopiesAgree, CopyNames
<1>3. StartOwnsKey /\ RowNamesContainer
  BY <1>1 DEF Init, StartOwnsKey, StartPCs, RowNamesContainer
<1>4. QED BY <1>2, <1>3 DEF StoreInv

\* One step keeps the store invariant.
LEMMA NextStoreInv == TypeOK /\ StoreInv /\ [Next]_vars => StoreInv'
BY StepShape, QuietStoreInv, CreateStoreInv, PublishStoreInv, CrashStoreInv

\* The store invariant holds in every reachable state, whatever fails: every
\* Start in flight is alone on its key, a row names no container but its own,
\* and a copy that names a container agrees with its row.
THEOREM StoreCorrect == Spec => []StoreInv
<1>1. Spec => []TypeOK
  BY TypeCorrect
<1>2. QED BY <1>1, InitStoreInv, NextStoreInv, PTL DEF Spec

\* An active row, and the copy a terminal handler attaches with, name a
\* container, whatever fails: slicing ContainerID in Connect cannot panic.
THEOREM ActiveNamesContainer == Spec => []ActiveHasContainer
<1>1. StoreInv => ActiveHasContainer
  BY DEF StoreInv, RowNamesContainer, CopiesAgree, ActiveHasContainer
<1>2. QED BY <1>1, StoreCorrect, PTL

\* The step that NeverRevived is about.
LEMMA StepNeverRevives ==
  ASSUME TypeOK, StoreInv, [Next]_vars,
         NEW k \in Keys, session[k].status # "none", ~LiveStatus(session[k].status),
         ~StartInFlight(k)
  PROVE  ~LiveStatus(session'[k].status)
<1>1. CASE Quiet
  BY <1>1 DEF Quiet, RowsQuiet, Ended, LiveStatus
<1>2. ASSUME NEW p \in Procs, StartCreate(p), created' = created + 1
      PROVE  session'[k] = session[k]
  <2>1. created' # created
    BY <1>2 DEF TypeOK
  <2>2. session' = [session EXCEPT ![created + 1] = NewRow(created + 1, sess[p].slot)]
    BY <1>2, <2>1 DEF StartCreate
  <2>3. k # created + 1
    <3>1. ~(k > created)
      BY DEF StoreInv, FreshKeys, NoRow
    <3>2. QED BY <3>1 DEF TypeOK
  <2>4. QED BY <2>2, <2>3 DEF TypeOK
<1>3. ASSUME NEW p \in Procs, StartPublish(p)
      PROVE  session'[k] = session[k]
  <2>1. sess[p].id # k
    BY <1>3 DEF StartPublish, StartInFlight, StartPCs
  <2>2. QED BY <1>3, <2>1 DEF StartPublish, TypeOK
<1>4. CASE Crash
  BY <1>4 DEF Crash, NoRow, LiveStatus
<1>5. QED BY <1>1, <1>2, <1>3, <1>4, StepShape

\* A session that is over when its Start has returned is never live again,
\* whatever fails and however stale the copies the goroutines hold.
THEOREM SessionsStayOver == Spec => NeverRevived
<1>1. TypeOK /\ StoreInv /\ [Next]_vars =>
        [\A k \in Keys :
           /\ session[k].status # "none" /\ ~LiveStatus(session[k].status)
           /\ ~StartInFlight(k)
           => ~LiveStatus(session'[k].status)]_vars
  BY StepNeverRevives
<1>2. QED BY <1>1, TypeCorrect, StoreCorrect, PTL DEF Spec, NeverRevived

-----------------------------------------------------------------------------
(* Containers, when the writes of the store do not fail.                   *)

BootPCs == {"docker_create", "docker_start", "start_publish"}
StopPCs == {"stop", "remove"}

\* A calm step leaves the containers alone and moves no goroutine to a place
\* the container invariant speaks of.
Calm ==
  /\ docker' = docker
  /\ \A q \in Procs : pc'[q] \in BootPCs \cup StopPCs => pc'[q] = pc[q] /\ sess'[q] = sess[q]

\* What the invariants say of a goroutine booting or stopping a container.
LEMMA BootAndStop ==
  ASSUME TypeOK, StoreInv, ContainerInv
  PROVE  /\ \A q \in Procs : pc[q] \in BootPCs =>
              /\ sess[q].id \in Keys
              /\ session[sess[q].id].cid = NoContainer
              /\ session[sess[q].id].status # "active"
              /\ \A r \in Procs : pc[r] \in BootPCs /\ sess[r].id = sess[q].id => r = q
         /\ \A q \in Procs : sess[q].cid # NoContainer =>
              /\ sess[q].id \in Keys /\ sess[q].cid = sess[q].id
              /\ session[sess[q].id].cid = sess[q].id
         /\ \A q \in Procs : pc[q] \in StopPCs =>
              /\ sess[q].cid # NoContainer
              /\ session[sess[q].id].status # "active"
<1>1. StartOwnsKey /\ CopiesAgree
  BY DEF StoreInv
<1>2. \A q \in Procs : pc[q] \in BootPCs => pc[q] \in StartPCs
  BY DEF BootPCs, StartPCs
<1>3. QED BY <1>1, <1>2 DEF StartOwnsKey, CopiesAgree, CopyNames, ContainerInv, StopPCs

\* A quiet and calm step keeps the container invariant.
LEMMA CalmContainerInv ==
  ASSUME TypeOK, StoreInv, ContainerInv, Quiet, Calm
  PROVE  ContainerInv'
<1>1. \A k \in Keys : session'[k].status = "active" => session[k].status = "active"
  BY DEF Quiet, RowsQuiet, Ended
<1>2. ActiveIsUp'
  BY <1>1 DEF Calm, ContainerInv, ActiveIsUp
<1>3. ASSUME NEW q \in Procs
      PROVE  /\ pc'[q] = "start_publish" => docker'[sess'[q].id] \in Up
             /\ pc'[q] = "docker_start" => docker'[sess'[q].id] = "created"
             /\ pc'[q] = "docker_create" => docker'[sess'[q].id] = "none"
             /\ pc'[q] \in {"stop", "remove"} => session'[sess'[q].id].status # "active"
  <2>1. pc'[q] \in BootPCs \cup StopPCs => pc'[q] = pc[q] /\ sess'[q] = sess[q] /\ docker' = docker
    BY DEF Calm
  <2>2. pc[q] \in StopPCs => sess[q].id \in Keys
    BY BootAndStop
  <2>3. QED BY <1>1, <2>1, <2>2 DEF ContainerInv, BootPCs, StopPCs
<1>4. QED BY <1>2, <1>3 DEF ContainerInv

\* Which steps are calm.
LEMMA CalmSteps ==
  ASSUME TypeOK, NEW p \in Procs,
         \/ StartInspect(p) \/ StartExpire(p) \/ StartError(p)
         \/ StartCreate(p) /\ UNCHANGED created
         \/ ProbeStep(p) \/ Finish(p) \/ Arrive(p) \/ Fire(p)
  PROVE  Calm
<1> USE DEF Goto, Hold, Return, World, BootPCs, StopPCs, Calm
<1>t. pc \in [Procs -> PCs] /\ sess \in [Procs -> Row]
  BY DEF TypeOK
<1>1. CASE StartInspect(p) \/ StartExpire(p) \/ StartError(p)
  BY <1>t, <1>1 DEF StartInspect, StartExpire, StartError
<1>2. CASE StartCreate(p) /\ UNCHANGED created
  <2>1. created # created + 1
    BY DEF TypeOK
  <2>2. QED BY <1>t, <1>2, <2>1 DEF StartCreate
<1>3. CASE ProbeStep(p)
  BY <1>t, <1>3 DEF ProbeStep, Probe, MarkExpired, ConnectAttach
<1>4. CASE Finish(p)
  BY <1>t, <1>4 DEF Finish
<1>5. CASE Arrive(p)
  BY <1>t, <1>5
  DEF Arrive, StartLookup, ReconnectLookup, DevStart, StatusLookup, ConnectLookup,
      TerminateLookup
<1>6. CASE Fire(p)
  BY <1>t, <1>6 DEF Fire, ReapExpiredSessions, ReapIdleSessions, Reap
<1>7. QED BY <1>1, <1>2, <1>3, <1>4, <1>5, <1>6

\* Marking a row makes its container safe to stop.
LEMMA MarkContainerInv ==
  ASSUME TypeOK, StoreInv, ContainerInv, "store" \notin Faults,
         NEW p \in Procs, MarkTerminating(p)
  PROVE  ContainerInv'
<1> USE DEF Goto, World
<1>t. pc \in [Procs -> PCs] /\ session \in [Keys -> Row]
  BY DEF TypeOK
<1>1. /\ session' = [session EXCEPT ![sess[p].id].status = "terminating"]
      /\ UNCHANGED <<docker, sess>>
      /\ pc' = [pc EXCEPT ![p] = IF sess[p].cid = NoContainer THEN "finish" ELSE "stop"]
  BY DEF MarkTerminating, UpdateStatus, Fault
<1>2. \A k \in Keys : session'[k].status = "active" => k # sess[p].id /\ session'[k] = session[k]
  <2>1. ASSUME NEW k \in Keys, k = sess[p].id
        PROVE  session'[k].status = "terminating"
    <3>1. session'[k] = [session[k] EXCEPT !.status = "terminating"] /\ session[k] \in Row
      BY <1>t, <1>1, <2>1
    <3>2. QED BY <3>1 DEF Row
  <2>2. QED BY <1>t, <1>1, <2>1
<1>3. ActiveIsUp'
  BY <1>1, <1>2 DEF ContainerInv, ActiveIsUp
<1>4. ASSUME NEW q \in Procs, pc'[q] \in {"stop", "remove"}
      PROVE  session'[sess'[q].id].status # "active"
  <2>1. sess[q].cid # NoContainer
    BY <1>t, <1>1, <1>4, BootAndStop DEF StopPCs
  <2>2. sess[q].id \in Keys
    BY <2>1, BootAndStop
  <2>3. CASE q = p
    BY <1>1, <1>2, <2>2, <2>3
  <2>4. CASE q # p
    BY <1>t, <1>1, <1>2, <1>4, <2>2, <2>4 DEF ContainerInv
  <2>5. QED BY <2>3, <2>4
<1>5. ASSUME NEW q \in Procs, pc'[q] \in BootPCs
      PROVE  pc[q] = pc'[q]
  BY <1>t, <1>1, <1>5 DEF BootPCs
<1>6. QED BY <1>1, <1>3, <1>4, <1>5 DEF ContainerInv, BootPCs

\* Stopping and removing a container touches no active session and no
\* container being booted.
LEMMA StopContainerInv ==
  ASSUME TypeOK, StoreInv, ContainerInv, NEW p \in Procs,
         ContainerStop(p) \/ ContainerRemove(p)
  PROVE  ContainerInv'
<1> USE DEF Goto, World
<1>t. pc \in [Procs -> PCs] /\ docker \in [Keys -> DockerStates]
  BY DEF TypeOK
<1>1. /\ pc[p] \in StopPCs
      /\ UNCHANGED <<session, sess>>
      /\ \A q \in Procs : q # p => pc'[q] = pc[q]
      /\ pc'[p] \in {"remove", "finish"}
      /\ \A k \in Keys : k # sess[p].cid => docker'[k] = docker[k]
  BY <1>t DEF ContainerStop, ContainerRemove, StopPCs
<1>2. /\ sess[p].cid # NoContainer /\ sess[p].cid = sess[p].id /\ sess[p].id \in Keys
      /\ session[sess[p].id].status # "active"
      /\ session[sess[p].id].cid = sess[p].id
  BY <1>1, BootAndStop
<1>3. ActiveIsUp'
  BY <1>1, <1>2 DEF ContainerInv, ActiveIsUp
<1>4. ASSUME NEW q \in Procs, pc'[q] \in BootPCs
      PROVE  pc[q] = pc'[q] /\ docker'[sess[q].id] = docker[sess[q].id]
  <2>1. q # p /\ pc[q] \in BootPCs
    BY <1>1, <1>4 DEF BootPCs
  <2>2. sess[q].id \in Keys /\ session[sess[q].id].cid = NoContainer
    BY <2>1, BootAndStop
  <2>3. sess[q].id # sess[p].id
    BY <1>2, <2>2
  <2>4. QED BY <1>1, <1>2, <2>1, <2>2, <2>3
<1>5. ASSUME NEW q \in Procs, pc'[q] \in {"stop", "remove"}
      PROVE  session'[sess'[q].id].status # "active"
  BY <1>1, <1>2, <1>5 DEF ContainerInv
<1>6. QED BY <1>1, <1>3, <1>4, <1>5 DEF ContainerInv, BootPCs

\* Creating and starting a container touches no active session.
LEMMA BootContainerInv ==
  ASSUME TypeOK, StoreInv, ContainerInv, NEW p \in Procs,
         ContainerCreate(p) \/ ContainerStart(p)
  PROVE  ContainerInv'
<1> USE DEF Goto, World
<1>t. pc \in [Procs -> PCs] /\ docker \in [Keys -> DockerStates]
  BY DEF TypeOK
<1>1. /\ pc[p] \in BootPCs
      /\ UNCHANGED <<session, sess>>
      /\ \A q \in Procs : q # p => pc'[q] = pc[q]
      /\ \A k \in Keys : k # sess[p].id => docker'[k] = docker[k]
  BY <1>t DEF ContainerCreate, ContainerStart, BootPCs
<1>2. /\ sess[p].id \in Keys
      /\ session[sess[p].id].status # "active"
      /\ \A q \in Procs : pc[q] \in BootPCs /\ sess[q].id = sess[p].id => q = p
  BY <1>1, BootAndStop
<1>3. ActiveIsUp'
  BY <1>1, <1>2 DEF ContainerInv, ActiveIsUp
<1>4. /\ pc'[p] = "start_publish" => docker'[sess[p].id] \in Up
      /\ pc'[p] = "docker_start" => docker'[sess[p].id] = "created"
      /\ pc'[p] \notin {"docker_create", "stop", "remove"}
  BY <1>t, <1>2 DEF ContainerCreate, ContainerStart, Up
<1>5. ASSUME NEW q \in Procs, q # p, pc'[q] \in BootPCs
      PROVE  docker'[sess[q].id] = docker[sess[q].id]
  <2>1. sess[q].id \in Keys /\ sess[q].id # sess[p].id
    BY <1>1, <1>2, <1>5, BootAndStop
  <2>2. QED BY <1>1, <2>1
<1>6. ASSUME NEW q \in Procs
      PROVE  /\ pc'[q] = "start_publish" => docker'[sess'[q].id] \in Up
             /\ pc'[q] = "docker_start" => docker'[sess'[q].id] = "created"
             /\ pc'[q] = "docker_create" => docker'[sess'[q].id] = "none"
             /\ pc'[q] \in {"stop", "remove"} => session'[sess'[q].id].status # "active"
  <2>1. CASE q = p
    BY <1>1, <1>4, <2>1
  <2>2. CASE q # p
    BY <1>1, <1>5, <2>2 DEF ContainerInv, BootPCs
  <2>3. QED BY <2>1, <2>2
<1>7. QED BY <1>3, <1>6 DEF ContainerInv

\* Handing out a key touches no active session: its container does not exist.
LEMMA CreateContainerInv ==
  ASSUME TypeOK, StoreInv, ContainerInv,
         NEW p \in Procs, StartCreate(p), created' = created + 1
  PROVE  ContainerInv'
<1> DEFINE k == created + 1
           new == NewRow(k, sess[p].slot)
<1>1. /\ session' = [session EXCEPT ![k] = new]
      /\ sess' = [sess EXCEPT ![p] = new]
      /\ pc' = [pc EXCEPT ![p] = "docker_create"]
      /\ docker' = docker
      /\ k \in Keys /\ k > created
  <2>1. created' # created /\ created \in Nat
    BY DEF TypeOK
  <2>2. QED BY <2>1 DEF StartCreate, Hold, Goto, World
<1>2. new.id = k /\ new.status = "booting"
  BY DEF NewRow
<1>3. docker[k] = "none"
  BY <1>1 DEF StoreInv, FreshKeys
<1>4. \A q \in Procs : q # p => pc'[q] = pc[q] /\ sess'[q] = sess[q] /\ sess[q].id # k
  <2>1. \A q \in Procs : sess[q].id # k
    BY HeldCopies
  <2>2. QED BY <1>1, <2>1 DEF TypeOK
<1>5. /\ session'[k] = new /\ sess'[p] = new /\ pc'[p] = "docker_create"
      /\ \A i \in Keys : i # k => session'[i] = session[i]
  BY <1>1 DEF TypeOK
<1> HIDE DEF k, new
<1>6. ActiveIsUp'
  BY <1>1, <1>2, <1>5 DEF ContainerInv, ActiveIsUp
<1>7. ASSUME NEW q \in Procs
      PROVE  /\ pc'[q] = "start_publish" => docker'[sess'[q].id] \in Up
             /\ pc'[q] = "docker_start" => docker'[sess'[q].id] = "created"
             /\ pc'[q] = "docker_create" => docker'[sess'[q].id] = "none"
             /\ pc'[q] \in {"stop", "remove"} => session'[sess'[q].id].status # "active"
  <2>1. CASE q = p
    BY <1>1, <1>2, <1>3, <1>5, <2>1
  <2>2. CASE q # p
    <3>1. pc[q] \in StopPCs => sess[q].id \in Keys
      BY BootAndStop
    <3>2. QED BY <1>1, <1>4, <1>5, <2>2, <3>1 DEF ContainerInv, StopPCs
  <2>3. QED BY <2>1, <2>2
<1>8. QED BY <1>6, <1>7 DEF ContainerInv

\* Publishing a session opens it on the container its Start has just started.
LEMMA PublishContainerInv ==
  ASSUME TypeOK, StoreInv, ContainerInv, NEW p \in Procs, StartPublish(p)
  PROVE  ContainerInv'
<1> DEFINE k == sess[p].id
<1>1. /\ pc[p] = "start_publish" /\ k \in Keys
      /\ docker[k] \in Up
      /\ session[k].cid = NoContainer
  BY BootAndStop DEF StartPublish, BootPCs, ContainerInv
<1>2. /\ docker' = docker
      /\ pc'[p] = "idle"
      /\ \A q \in Procs : q # p => pc'[q] = pc[q] /\ sess'[q] = sess[q]
      /\ \A i \in Keys : i # k => session'[i] = session[i]
  BY <1>1 DEF StartPublish, Return, Hold, Goto, World, TypeOK
<1> HIDE DEF k
<1>3. ActiveIsUp'
  BY <1>1, <1>2 DEF ContainerInv, ActiveIsUp
<1>4. ASSUME NEW q \in Procs, q # p, pc[q] \in StopPCs
      PROVE  sess[q].id \in Keys /\ sess[q].id # k
  BY <1>1, <1>4, BootAndStop
<1>5. ASSUME NEW q \in Procs
      PROVE  /\ pc'[q] = "start_publish" => docker'[sess'[q].id] \in Up
             /\ pc'[q] = "docker_start" => docker'[sess'[q].id] = "created"
             /\ pc'[q] = "docker_create" => docker'[sess'[q].id] = "none"
             /\ pc'[q] \in {"stop", "remove"} => session'[sess'[q].id].status # "active"
  BY <1>2, <1>4 DEF ContainerInv, StopPCs
<1>6. QED BY <1>3, <1>5 DEF ContainerInv

\* The steps of bridges and the clock are calm.
LEMMA WorldCalm ==
  ASSUME TypeOK,
         \/ \E k \in Keys : Activity(k) \/ Detach(k)
         \/ Tick
         \/ UNCHANGED vars
  PROVE  Calm
BY DEF Activity, Detach, Tick, vars, World, Calm

\* A container that exits is none that is being made, and an exited one is
\* still its session's.
LEMMA ExitContainerInv ==
  ASSUME TypeOK, StoreInv, ContainerInv, NEW k \in Keys, ContainerExit(k)
  PROVE  ContainerInv'
<1>1. /\ Up = {"running", "exited"}
      /\ docker[k] = "running"
      /\ docker' = [docker EXCEPT ![k] = "exited"]
      /\ UNCHANGED <<session, pc, sess>>
  BY DEF ContainerExit, Up, World
<1>2. /\ docker'[k] = "exited"
      /\ \A i \in Keys : i # k => docker'[i] = docker[i]
  BY <1>1 DEF TypeOK
<1>3. ActiveIsUp'
  BY <1>1, <1>2 DEF ContainerInv, ActiveIsUp, Up
<1>4. ASSUME NEW q \in Procs
      PROVE  /\ pc'[q] = "start_publish" => docker'[sess'[q].id] \in Up
             /\ pc'[q] = "docker_start" => docker'[sess'[q].id] = "created"
             /\ pc'[q] = "docker_create" => docker'[sess'[q].id] = "none"
             /\ pc'[q] \in {"stop", "remove"} => session'[sess'[q].id].status # "active"
  <2>1. pc[q] \in BootPCs => sess[q].id \in Keys
    BY BootAndStop
  <2>2. QED BY <1>1, <1>2, <2>1 DEF ContainerInv, BootPCs
<1>5. QED BY <1>3, <1>4 DEF ContainerInv, Up

\* A crash stops no container.
LEMMA CrashContainerInv ==
  ASSUME TypeOK, ContainerInv, Crash
  PROVE  ContainerInv'
<1>1. /\ docker' = docker
      /\ \A q \in Procs : pc'[q] = "idle"
      /\ \A k \in Keys : session'[k] \in {session[k], NoRow}
  BY DEF Crash
<1>2. NoRow.status = "none"
  BY DEF NoRow
<1>3. QED BY <1>1, <1>2 DEF ContainerInv, ActiveIsUp

\* One step keeps the container invariant.
LEMMA NextContainerInv ==
  ASSUME TypeOK, StoreInv, ContainerInv, [Next]_vars, "store" \notin Faults
  PROVE  ContainerInv'
<1>1. ASSUME NEW p \in Procs, Step(p)
      PROVE  ContainerInv'
  <2>1. CASE StartStep(p)
    <3>1. CASE StartInspect(p) \/ StartExpire(p) \/ StartError(p)
      BY <3>1, CalmSteps, StartQuiet, CalmContainerInv
    <3>2. CASE StartCreate(p)
      <4>1. created' = created + 1 \/ UNCHANGED created
        BY <3>2 DEF StartCreate
      <4>2. QED BY <3>2, <4>1, CreateContainerInv, CalmSteps, StartQuiet, CalmContainerInv
    <3>3. CASE ContainerCreate(p) \/ ContainerStart(p)
      BY <3>3, BootContainerInv
    <3>4. CASE StartPublish(p)
      BY <3>4, PublishContainerInv
    <3>5. QED BY <2>1, <3>1, <3>2, <3>3, <3>4 DEF StartStep
  <2>2. CASE ProbeStep(p)
    BY <2>2, CalmSteps, ProbeQuiet, CalmContainerInv
  <2>3. CASE KillStep(p)
    BY <2>3, MarkContainerInv, StopContainerInv, CalmSteps, KillQuiet, CalmContainerInv
    DEF KillStep
  <2>4. QED BY <1>1, <2>1, <2>2, <2>3 DEF Step
<1>2. ASSUME NEW p \in Procs, Arrive(p) \/ Fire(p)
      PROVE  ContainerInv'
  BY <1>2, CalmSteps, BeginQuiet, CalmContainerInv
<1>3. CASE \/ \E k \in Keys : Activity(k) \/ Detach(k)
           \/ Tick
           \/ UNCHANGED vars
  BY <1>3, WorldCalm, WorldQuiet, CalmContainerInv
<1>4. CASE Crash
  BY <1>4, CrashContainerInv
<1>5. QED BY <1>1, <1>2, <1>3, <1>4, ExitContainerInv DEF Next

\* The container invariant holds initially.
LEMMA InitContainerInv == Init => ContainerInv
BY DEF Init, NoRow, ContainerInv, ActiveIsUp

LEMMA ContainersHold ==
  ASSUME "store" \notin Faults
  PROVE  Spec => []ContainerInv
<1>1. TypeOK /\ StoreInv /\ ContainerInv /\ [Next]_vars => ContainerInv'
  BY NextContainerInv
<1>2. QED BY <1>1, InitContainerInv, TypeCorrect, StoreCorrect, PTL DEF Spec

\* However stale the copies the handlers and reapers work on, the platform
\* never stops the container of a session it shows as active, as long as
\* containers do not exit by themselves and writes of the store do not fail.
THEOREM ContainersRun ==
  ASSUME "exit" \notin Faults, "store" \notin Faults
  PROVE  Spec => []ActiveContainerRuns
<1>1. ContainerInv => ActiveContainerRuns
  BY DEF ContainerInv, ActiveIsUp, ActiveContainerRuns, Up, Fault
<1>2. QED BY <1>1, ContainersHold, PTL

\* The step that OnlyExitsStopActive is about.
LEMMA StepSparesActive ==
  ASSUME TypeOK, StoreInv, ContainerInv, [Next]_vars,
         NEW k \in Keys, session[k].status = "active", docker'[k] # docker[k]
  PROVE  ContainerExit(k)
<1>t. docker \in [Keys -> DockerStates]
  BY DEF TypeOK
<1>1. ASSUME NEW p \in Procs, ContainerCreate(p) \/ ContainerStart(p)
      PROVE  FALSE
  <2>1. pc[p] \in BootPCs
    BY <1>1 DEF ContainerCreate, ContainerStart, BootPCs
  <2>2. k # sess[p].id
    BY <2>1, BootAndStop
  <2>3. QED BY <1>t, <1>1, <2>2 DEF ContainerCreate, ContainerStart
<1>2. ASSUME NEW p \in Procs, ContainerStop(p) \/ ContainerRemove(p)
      PROVE  FALSE
  <2>1. pc[p] \in StopPCs
    BY <1>2 DEF ContainerStop, ContainerRemove, StopPCs
  <2>2. k # sess[p].cid
    BY <2>1, BootAndStop
  <2>3. QED BY <1>t, <1>2, <2>2 DEF ContainerStop, ContainerRemove
<1>3. ASSUME NEW i \in Keys, ContainerExit(i)
      PROVE  ContainerExit(k)
  BY <1>t, <1>3 DEF ContainerExit
<1>4. ASSUME UNCHANGED docker
      PROVE  FALSE
  BY <1>4
<1> USE DEF World
<1>5. ASSUME NEW p \in Procs, Step(p)
      PROVE  FALSE
  BY <1>1, <1>2, <1>4, <1>5
  DEF Step, StartStep, StartInspect, StartExpire, StartCreate, StartError, StartPublish,
      ProbeStep, Probe, MarkExpired, ConnectAttach, KillStep, MarkTerminating, Finish
<1>6. ASSUME NEW p \in Procs, Arrive(p) \/ Fire(p)
      PROVE  FALSE
  BY <1>4, <1>6
  DEF Arrive, StartLookup, ReconnectLookup, DevStart, StatusLookup, ConnectLookup,
      TerminateLookup, Fire, ReapExpiredSessions, ReapIdleSessions, Reap
<1>7. QED BY <1>3, <1>4, <1>5, <1>6 DEF Next, Activity, Detach, Tick, Crash, vars

\* Containers may exit: still no handler and no reaper takes the container of
\* an active session from it, however stale its copy, if writes do not fail.
THEOREM ActiveIsSpared ==
  ASSUME "store" \notin Faults
  PROVE  Spec => OnlyExitsStopActive
<1>1. TypeOK /\ StoreInv /\ ContainerInv /\ [Next]_vars =>
        [\A k \in Keys :
           session[k].status = "active" /\ docker'[k] # docker[k] => ContainerExit(k)]_vars
  BY StepSparesActive
<1>2. QED BY <1>1, TypeCorrect, StoreCorrect, ContainersHold, PTL DEF Spec, OnlyExitsStopActive

-----------------------------------------------------------------------------
(* Who sees to a row or a container, while the server lives and the writes *)
(* of the store do not fail.                                               *)

\* The goroutines at these places stay there, with their copies.
Stay(places) ==
  \A q \in Procs : pc[q] \in places => pc'[q] \in places /\ sess'[q] = sess[q]

\* A status write that cannot fail.
LEMMA StatusWritten ==
  ASSUME TypeOK, "store" \notin Faults, NEW k, NEW s, UpdateStatus(k, s)
  PROVE  /\ \A i \in Keys : i # k => session'[i] = session[i]
         /\ k \in Keys => /\ session'[k].status = s
                          /\ session'[k].cid = session[k].cid
<1>1. session' = [session EXCEPT ![k].status = s] /\ session \in [Keys -> Row]
  BY DEF UpdateStatus, Fault, TypeOK
<1>2. k \in Keys => session'[k] = [session[k] EXCEPT !.status = s] /\ session[k] \in Row
  BY <1>1
<1>3. QED BY <1>1, <1>2 DEF Row

\* A key that is handed out had no row and no container.
LEMMA KeyIsFresh ==
  ASSUME TypeOK, StoreInv, NEW p \in Procs, StartCreate(p)
  PROVE  \/ /\ created + 1 \in Keys
            /\ session[created + 1] = NoRow /\ docker[created + 1] = "none"
            /\ session' = [session EXCEPT ![created + 1] = NewRow(created + 1, sess[p].slot)]
            /\ pc' = [pc EXCEPT ![p] = "docker_create"]
            /\ sess' = [sess EXCEPT ![p] = NewRow(created + 1, sess[p].slot)]
            /\ created' = created + 1
         \/ UNCHANGED <<session, created>> /\ Return(p)
<1>1. CASE created < MaxSessions
  <2>1. created + 1 \in Keys /\ created + 1 > created
    BY <1>1 DEF TypeOK
  <2>2. session[created + 1] = NoRow /\ docker[created + 1] = "none"
    BY <2>1 DEF StoreInv, FreshKeys
  <2>3. QED BY <2>1, <2>2 DEF StartCreate, Hold, Goto
<1>2. CASE ~(created < MaxSessions)
  BY <1>2 DEF StartCreate
<1>3. QED BY <1>1, <1>2

\* Every step but those of Start that change the row or the place of a
\* booting session leaves the booting sessions with their Start.
LEMMA BootingStay ==
  ASSUME TypeOK, StoreInv, NEW p \in Procs,
         \/ StartInspect(p) \/ StartExpire(p) \/ ContainerCreate(p) \/ ContainerStart(p)
         \/ ProbeStep(p) \/ KillStep(p) \/ Arrive(p) \/ Fire(p)
  PROVE  Stay(StartPCs) /\ Quiet /\ UNCHANGED crashes
<1>1. pc \in [Procs -> PCs] /\ sess \in [Procs -> Row]
  BY DEF TypeOK
<1>2. Quiet
  BY StartQuiet, ProbeQuiet, KillQuiet, BeginQuiet
<1>3. CASE StartInspect(p) \/ StartExpire(p) \/ ContainerCreate(p) \/ ContainerStart(p)
  BY <1>1, <1>2, <1>3
  DEF StartInspect, StartExpire, ContainerCreate, ContainerStart, Stay, StartPCs, Goto, Hold,
      Return, World
<1>4. CASE ProbeStep(p)
  BY <1>1, <1>2, <1>4
  DEF ProbeStep, Probe, MarkExpired, ConnectAttach, Stay, StartPCs, Goto, Hold, Return, World
<1>5. CASE KillStep(p)
  BY <1>1, <1>2, <1>5
  DEF KillStep, MarkTerminating, ContainerStop, ContainerRemove, Finish, Stay, StartPCs, Goto,
      Hold, Return, World
<1>6. CASE Arrive(p)
  BY <1>1, <1>2, <1>6
  DEF Arrive, StartLookup, ReconnectLookup, DevStart, StatusLookup, ConnectLookup,
      TerminateLookup, Stay, StartPCs, Goto, Hold, World
<1>7. CASE Fire(p)
  BY <1>1, <1>2, <1>7
  DEF Fire, ReapExpiredSessions, ReapIdleSessions, Reap, Stay, StartPCs, Goto, Hold, World
<1>8. QED BY <1>3, <1>4, <1>5, <1>6, <1>7

\* The clock, the bridges and the containers leave every goroutine alone.
LEMMA WorldStays ==
  ASSUME \/ \E k \in Keys : Activity(k) \/ Detach(k) \/ ContainerExit(k)
         \/ Tick
         \/ UNCHANGED vars
  PROVE  UNCHANGED <<pc, sess, batch, crashes, created>>
BY DEF Activity, Detach, ContainerExit, Tick, vars, World

\* One step keeps a Start at work on every booting session.
LEMMA NextBooting ==
  ASSUME TypeOK, StoreInv, BootingHasStart, [Next]_vars, "store" \notin Faults
  PROVE  BootingHasStart'
<1> SUFFICES ASSUME crashes' = 0, NEW k \in Keys, session'[k].status = "booting"
             PROVE  \E q \in Procs : pc'[q] \in StartPCs /\ sess'[q].id = k
  BY DEF BootingHasStart, StartInFlight
<1>1. pc \in [Procs -> PCs] /\ sess \in [Procs -> Row] /\ session \in [Keys -> Row]
  BY DEF TypeOK
<1>2. ASSUME crashes = 0, session[k].status = "booting"
      PROVE  \E q \in Procs : pc[q] \in StartPCs /\ sess[q].id = k
  BY <1>2 DEF BootingHasStart, StartInFlight
<1>3. CASE Stay(StartPCs) /\ Quiet /\ UNCHANGED crashes
  BY <1>2, <1>3 DEF Stay, Quiet, RowsQuiet, Ended
<1>4. ASSUME NEW p \in Procs, StartCreate(p)
      PROVE  \E q \in Procs : pc'[q] \in StartPCs /\ sess'[q].id = k
  <2>1. crashes = 0
    BY <1>4 DEF StartCreate, World
  <2>2. CASE /\ session' = [session EXCEPT ![created + 1] = NewRow(created + 1, sess[p].slot)]
             /\ pc' = [pc EXCEPT ![p] = "docker_create"]
             /\ sess' = [sess EXCEPT ![p] = NewRow(created + 1, sess[p].slot)]
    <3>1. CASE k = created + 1
      BY <1>1, <2>2, <3>1 DEF NewRow, StartPCs
    <3>2. CASE k # created + 1
      <4>1. PICK q \in Procs : pc[q] \in StartPCs /\ sess[q].id = k
        BY <1>1, <1>2, <2>1, <2>2, <3>2
      <4>2. q # p
        BY <1>4, <4>1 DEF StartCreate, StartPCs
      <4>3. QED BY <1>1, <2>2, <4>1, <4>2
    <3>3. QED BY <3>1, <3>2
  <2>3. CASE UNCHANGED session /\ Return(p)
    <3>1. PICK q \in Procs : pc[q] \in StartPCs /\ sess[q].id = k
      BY <1>2, <2>1, <2>3
    <3>2. q # p
      BY <1>4, <3>1 DEF StartCreate, StartPCs
    <3>3. QED BY <1>1, <2>3, <3>1, <3>2 DEF Return, Goto, Hold
  <2>4. QED BY <1>4, <2>2, <2>3, KeyIsFresh
<1>5. ASSUME NEW p \in Procs, StartError(p) \/ StartPublish(p)
      PROVE  \E q \in Procs : pc'[q] \in StartPCs /\ sess'[q].id = k
  <2>1. Return(p) /\ UNCHANGED crashes
    BY <1>5 DEF StartError, StartPublish, World
  <2>2. k # sess[p].id /\ session'[k] = session[k]
    <3>1. CASE StartError(p)
      BY <3>1, StatusWritten DEF StartError
    <3>2. CASE StartPublish(p)
      BY ZenonT(40), <1>1, <3>2 DEF StartPublish, Fault, Row
    <3>3. QED BY <1>5, <3>1, <3>2
  <2>3. PICK q \in Procs : pc[q] \in StartPCs /\ sess[q].id = k
    BY <1>2, <2>1, <2>2
  <2>4. QED BY <1>1, <2>1, <2>2, <2>3 DEF Return, Goto, Hold
<1>6. CASE \/ \E i \in Keys : Activity(i) \/ Detach(i) \/ ContainerExit(i)
           \/ Tick
           \/ UNCHANGED vars
  BY <1>3, <1>6, WorldStays, WorldQuiet DEF Stay
<1>7. CASE Crash
  BY <1>7 DEF Crash, TypeOK
<1>8. QED BY <1>3, <1>4, <1>5, <1>6, <1>7, BootingStay DEF Next, Step, StartStep

\* Every step but the last of a terminating goroutine leaves those that end
\* a session at it, and only MarkTerminating writes terminating.
LEMMA KillersStay ==
  ASSUME TypeOK, StoreInv, "store" \notin Faults, NEW p \in Procs,
         \/ StartStep(p) \/ ProbeStep(p) \/ Arrive(p) \/ Fire(p)
         \/ ContainerStop(p) \/ ContainerRemove(p)
  PROVE  /\ Stay(KillPCs)
         /\ \A k \in Keys : session'[k].status = "terminating" =>
              session[k].status = "terminating"
         /\ UNCHANGED crashes
<1>1. pc \in [Procs -> PCs] /\ sess \in [Procs -> Row] /\ session \in [Keys -> Row]
  BY DEF TypeOK
<1> USE DEF Stay, KillPCs, Goto, Hold, Return, World
<1>2. CASE StartInspect(p) \/ ContainerCreate(p) \/ ContainerStart(p)
  BY <1>1, <1>2 DEF StartInspect, ContainerCreate, ContainerStart
<1>3. CASE StartExpire(p) \/ StartError(p) \/ MarkExpired(p)
  <2>1. UpdateStatus(sess[p].id, "expired") \/ UpdateStatus(sess[p].id, "error")
    BY <1>3 DEF StartExpire, StartError, MarkExpired
  <2>2. \A k \in Keys : session'[k].status = "terminating" => session[k].status = "terminating"
    BY <2>1, StatusWritten
  <2>3. QED BY <1>1, <1>3, <2>2 DEF StartExpire, StartError, MarkExpired
<1>4. CASE StartCreate(p)
  <2>1. Stay(KillPCs) /\ UNCHANGED crashes
    BY <1>1, <1>4 DEF StartCreate
  <2>2. \A k \in Keys : session'[k].status = "terminating" => session[k].status = "terminating"
    <3>1. CASE UNCHANGED session
      BY <3>1
    <3>2. CASE session' = [session EXCEPT ![created + 1] = NewRow(created + 1, sess[p].slot)]
      <4>1. NewRow(created + 1, sess[p].slot).status = "booting"
        BY DEF NewRow
      <4>2. QED BY <1>1, <3>2, <4>1
    <3>3. QED BY <1>4, <3>1, <3>2, KeyIsFresh
  <2>3. QED BY <2>1, <2>2
<1>5. CASE StartPublish(p)
  <2>1. Stay(KillPCs) /\ UNCHANGED crashes
    BY <1>1, <1>5 DEF StartPublish
  <2>2. \A k \in Keys : session'[k].status = "terminating" => session[k].status = "terminating"
    <3>1. PICK new \in {[sess[p] EXCEPT !.cid = sess[p].id, !.status = "active"]} :
            session' = [session EXCEPT ![sess[p].id] = new]
      BY <1>5 DEF StartPublish, Fault
    <3>2. new.status = "active"
      BY <1>1, <3>1 DEF Row
    <3>3. QED BY <1>1, <3>1, <3>2
  <2>3. QED BY <2>1, <2>2
<1>6. CASE Probe(p) \/ ConnectAttach(p)
  BY <1>1, <1>6 DEF Probe, ConnectAttach
<1>7. CASE Arrive(p)
  BY <1>1, <1>7
  DEF Arrive, StartLookup, ReconnectLookup, DevStart, StatusLookup, ConnectLookup,
      TerminateLookup
<1>8. CASE Fire(p)
  BY <1>1, <1>8 DEF Fire, ReapExpiredSessions, ReapIdleSessions, Reap
<1>9. CASE ContainerStop(p) \/ ContainerRemove(p)
  BY <1>1, <1>9 DEF ContainerStop, ContainerRemove
<1>10. QED BY <1>2, <1>3, <1>4, <1>5, <1>6, <1>7, <1>8, <1>9 DEF StartStep, ProbeStep

\* One step keeps a goroutine at work on every terminating session.
LEMMA NextTerminating ==
  ASSUME TypeOK, StoreInv, TerminatingHasKiller, [Next]_vars, "store" \notin Faults
  PROVE  TerminatingHasKiller'
<1> SUFFICES ASSUME crashes' = 0, NEW k \in Keys, session'[k].status = "terminating"
             PROVE  \E q \in Procs : pc'[q] \in KillPCs /\ sess'[q].id = k
  BY DEF TerminatingHasKiller
<1>1. pc \in [Procs -> PCs] /\ sess \in [Procs -> Row] /\ session \in [Keys -> Row]
  BY DEF TypeOK
<1>2. ASSUME crashes = 0, session[k].status = "terminating"
      PROVE  \E q \in Procs : pc[q] \in KillPCs /\ sess[q].id = k
  BY <1>2 DEF TerminatingHasKiller
<1>3. CASE Stay(KillPCs) /\ session[k].status = "terminating" /\ UNCHANGED crashes
  BY <1>2, <1>3 DEF Stay
<1>4. ASSUME NEW p \in Procs, MarkTerminating(p)
      PROVE  \E q \in Procs : pc'[q] \in KillPCs /\ sess'[q].id = k
  <2>1. Stay(KillPCs) /\ pc'[p] \in KillPCs /\ UNCHANGED <<sess, crashes>>
    BY <1>1, <1>4 DEF MarkTerminating, Stay, KillPCs, Goto, World
  <2>2. CASE k = sess[p].id
    BY <2>1, <2>2
  <2>3. CASE k # sess[p].id
    <3>1. session'[k] = session[k]
      BY <1>4, <2>3, StatusWritten DEF MarkTerminating
    <3>2. QED BY <1>3, <2>1, <3>1
  <2>4. QED BY <2>2, <2>3
<1>5. ASSUME NEW p \in Procs, Finish(p)
      PROVE  \E q \in Procs : pc'[q] \in KillPCs /\ sess'[q].id = k
  <2>1. k # sess[p].id /\ session'[k] = session[k]
    BY <1>5, StatusWritten DEF Finish
  <2>2. /\ UNCHANGED crashes
        /\ \A q \in Procs \ {p} : pc'[q] = pc[q] /\ sess'[q] = sess[q]
    BY <1>1, <1>5 DEF Finish, Return, Goto, Hold, World
  <2>3. PICK q \in Procs : pc[q] \in KillPCs /\ sess[q].id = k
    BY <1>2, <2>1, <2>2
  <2>4. QED BY <2>1, <2>2, <2>3
<1>6. CASE \/ \E i \in Keys : Activity(i) \/ Detach(i) \/ ContainerExit(i)
           \/ Tick
           \/ UNCHANGED vars
  <2>1. Stay(KillPCs) /\ UNCHANGED crashes
    BY <1>6, WorldStays DEF Stay
  <2>2. session'[k].status = session[k].status
    BY SMTT(30), <1>1, <1>6 DEF Activity, Detach, ContainerExit, Tick, vars, Row
  <2>3. QED BY <1>3, <2>1, <2>2
<1>7. CASE Crash
  BY <1>7 DEF Crash, TypeOK
<1>8. QED BY <1>3, <1>4, <1>5, <1>6, <1>7, KillersStay DEF Next, Step, KillStep

\* One step leaves no running container unowned.
LEMMA NextOwned ==
  ASSUME TypeOK, StoreInv, RunningIsOwned, [Next]_vars, "store" \notin Faults
  PROVE  RunningIsOwned'
<1> SUFFICES ASSUME crashes' = 0, NEW k \in Keys, docker'[k] = "running"
             PROVE  \/ session'[k].cid = k
                    \/ \E q \in Procs : pc'[q] = "start_publish" /\ sess'[q].id = k
  BY DEF RunningIsOwned
<1>1. /\ pc \in [Procs -> PCs] /\ sess \in [Procs -> Row] /\ session \in [Keys -> Row]
      /\ docker \in [Keys -> DockerStates]
  BY DEF TypeOK
<1>2. ASSUME crashes = 0, docker[k] = "running"
      PROVE  \/ session[k].cid = k
             \/ \E q \in Procs : pc[q] = "start_publish" /\ sess[q].id = k
  BY <1>2 DEF RunningIsOwned
<1>3. CASE /\ session'[k].cid = session[k].cid /\ docker[k] = "running" /\ UNCHANGED crashes
           /\ Stay({"start_publish"})
  BY <1>2, <1>3 DEF Stay
<1>4. ASSUME NEW p \in Procs, ContainerStart(p)
      PROVE  \/ session'[k].cid = k
             \/ \E q \in Procs : pc'[q] = "start_publish" /\ sess'[q].id = k
  <2>1. /\ UNCHANGED <<session, sess, crashes>> /\ Stay({"start_publish"})
        /\ sess[p].id \in Keys
    BY <1>1, <1>4 DEF ContainerStart, Stay, StartPCs, StoreInv, StartOwnsKey, Goto, World
  <2>2. CASE k = sess[p].id /\ pc'[p] = "start_publish"
    BY <2>1, <2>2
  <2>3. CASE k # sess[p].id \/ pc'[p] # "start_publish"
    <3>1. docker[k] = "running"
      BY <1>1, <1>4, <2>1, <2>3 DEF ContainerStart, Goto
    <3>2. QED BY <1>3, <2>1, <3>1
  <2>4. QED BY <2>2, <2>3
<1>5. ASSUME NEW p \in Procs, StartPublish(p)
      PROVE  \/ session'[k].cid = k
             \/ \E q \in Procs : pc'[q] = "start_publish" /\ sess'[q].id = k
  <2>1. CASE k = sess[p].id
    BY <1>1, <1>5, <2>1 DEF StartPublish, Fault, Row
  <2>2. CASE k # sess[p].id
    BY <1>1, <1>2, <1>5, <2>2 DEF StartPublish, Return, Goto, Hold, World
  <2>3. QED BY <2>1, <2>2
<1>6. ASSUME NEW p \in Procs, StartCreate(p)
      PROVE  \/ session'[k].cid = k
             \/ \E q \in Procs : pc'[q] = "start_publish" /\ sess'[q].id = k
  <2>1. UNCHANGED <<docker, crashes>> /\ Stay({"start_publish"})
    BY <1>1, <1>6 DEF StartCreate, Stay, Return, Goto, Hold, World
  <2>2. session'[k].cid = session[k].cid
    BY <1>1, <1>6, <2>1, KeyIsFresh
  <2>3. QED BY <1>3, <2>1, <2>2
<1>7. ASSUME NEW p \in Procs,
             \/ StartInspect(p) \/ StartExpire(p) \/ ContainerCreate(p) \/ StartError(p)
             \/ ProbeStep(p) \/ KillStep(p) \/ Arrive(p) \/ Fire(p)
      PROVE  /\ session'[k].cid = session[k].cid /\ docker[k] = "running" /\ UNCHANGED crashes
             /\ Stay({"start_publish"})
  <2>1. session'[k].cid = session[k].cid
    BY <1>7, StartQuiet, ProbeQuiet, KillQuiet, BeginQuiet DEF Quiet, RowsQuiet
  <2> USE DEF Stay, Goto, Hold, Return, World
  <2>2. CASE StartInspect(p) \/ StartExpire(p) \/ StartError(p)
    BY <1>1, <2>1, <2>2 DEF StartInspect, StartExpire, StartError
  <2>3. CASE ContainerCreate(p)
    BY <1>1, <2>1, <2>3 DEF ContainerCreate
  <2>4. CASE ProbeStep(p)
    BY <1>1, <2>1, <2>4 DEF ProbeStep, Probe, MarkExpired, ConnectAttach
  <2>5. CASE KillStep(p)
    BY <1>1, <2>1, <2>5
    DEF KillStep, MarkTerminating, ContainerStop, ContainerRemove, Finish
  <2>6. CASE Arrive(p)
    BY <1>1, <2>1, <2>6
    DEF Arrive, StartLookup, ReconnectLookup, DevStart, StatusLookup, ConnectLookup,
        TerminateLookup
  <2>7. CASE Fire(p)
    BY <1>1, <2>1, <2>7 DEF Fire, ReapExpiredSessions, ReapIdleSessions, Reap
  <2>8. QED BY <1>7, <2>2, <2>3, <2>4, <2>5, <2>6, <2>7
<1>8. CASE \/ \E i \in Keys : Activity(i) \/ Detach(i) \/ ContainerExit(i)
           \/ Tick
           \/ UNCHANGED vars
  <2>1. Stay({"start_publish"}) /\ UNCHANGED crashes
    BY <1>8, WorldStays DEF Stay
  <2>2. session'[k].cid = session[k].cid
    BY <1>8, WorldQuiet DEF Quiet, RowsQuiet
  <2>3. docker[k] = "running"
    BY <1>1, <1>8 DEF Activity, Detach, ContainerExit, Tick, vars, World
  <2>4. QED BY <1>3, <2>1, <2>2, <2>3
<1>9. CASE Crash
  BY <1>9 DEF Crash, TypeOK
<1>10. QED BY <1>3, <1>4, <1>5, <1>6, <1>7, <1>8, <1>9 DEF Next, Step, StartStep

\* While the server lives and the writes of the store do not fail, no row is
\* left booting: the Start that created it is still at work.
THEOREM BootingHasItsStart ==
  ASSUME "store" \notin Faults
  PROVE  Spec => []BootingHasStart
<1>1. Init => BootingHasStart
  BY DEF Init, BootingHasStart, NoRow
<1>2. TypeOK /\ StoreInv /\ BootingHasStart /\ [Next]_vars => BootingHasStart'
  BY NextBooting
<1>3. QED BY <1>1, <1>2, TypeCorrect, StoreCorrect, PTL DEF Spec

\* Under the same conditions no row is left terminating: of the goroutines
\* that end one session, whoever marked it last has yet to write expired.
THEOREM TerminatingHasItsKiller ==
  ASSUME "store" \notin Faults
  PROVE  Spec => []TerminatingHasKiller
<1>1. Init => TerminatingHasKiller
  BY DEF Init, TerminatingHasKiller, NoRow
<1>2. TypeOK /\ StoreInv /\ TerminatingHasKiller /\ [Next]_vars => TerminatingHasKiller'
  BY NextTerminating
<1>3. QED BY <1>1, <1>2, TypeCorrect, StoreCorrect, PTL DEF Spec

\* Under the same conditions every running container is named by its row, or
\* its Start is about to name it.
THEOREM ContainersAreOwned ==
  ASSUME "store" \notin Faults
  PROVE  Spec => []RunningIsOwned
<1>1. Init => RunningIsOwned
  BY DEF Init, RunningIsOwned
<1>2. TypeOK /\ StoreInv /\ RunningIsOwned /\ [Next]_vars => RunningIsOwned'
  BY NextOwned
<1>3. QED BY <1>1, <1>2, TypeCorrect, StoreCorrect, PTL DEF Spec

-----------------------------------------------------------------------------
(* The reaper of expired sessions, under every fault.                      *)

\* Only publishing a session, and a crash, can change the expiry of a row.
LEMMA ExpiryKept ==
  ASSUME TypeOK, StoreInv, [Next]_vars, NEW k \in Keys, k <= created
  PROVE  \/ session'[k].expires = session[k].expires
         \/ \E p \in Procs : /\ StartPublish(p) /\ sess[p].id = k
                             /\ session'[k].expires = sess[p].expires
         \/ Crash
<1>1. session \in [Keys -> Row] /\ sess \in [Procs -> Row] /\ created \in Nat
  BY DEF TypeOK
<1>2. ASSUME NEW i, NEW s, UpdateStatus(i, s)
      PROVE  session'[k].expires = session[k].expires
  <2>1. CASE session' = [session EXCEPT ![i].status = s]
    <3>1. session'[k] = session[k] \/ session'[k] = [session[k] EXCEPT !.status = s]
      BY <1>1, <2>1
    <3>2. session[k] \in Row
      BY <1>1
    <3>3. QED BY <3>1, <3>2 DEF Row
  <2>2. CASE UNCHANGED session
    BY <2>2
  <2>3. QED BY <1>2, <2>1, <2>2 DEF UpdateStatus
<1>3. ASSUME NEW p \in Procs, StartStep(p)
      PROVE  \/ session'[k].expires = session[k].expires
             \/ /\ StartPublish(p) /\ sess[p].id = k
                /\ session'[k].expires = sess[p].expires
  <2>1. CASE StartCreate(p)
    <3>1. k # created + 1
      BY <1>1
    <3>2. QED BY <1>1, <2>1, <3>1, KeyIsFresh
  <2>2. CASE StartPublish(p)
    <3>1. CASE sess[p].id = k
      BY <1>1, <2>2, <3>1 DEF StartPublish, Row
    <3>2. CASE sess[p].id # k
      BY <1>1, <2>2, <3>2 DEF StartPublish
    <3>3. QED BY <3>1, <3>2
  <2>3. QED
    BY <1>2, <1>3, <2>1, <2>2
    DEF StartStep, StartInspect, StartExpire, ContainerCreate, ContainerStart, StartError
<1>4. ASSUME NEW p \in Procs, ProbeStep(p) \/ KillStep(p)
      PROVE  session'[k].expires = session[k].expires
  BY <1>2, <1>4
  DEF ProbeStep, Probe, MarkExpired, ConnectAttach, KillStep, MarkTerminating, ContainerStop,
      ContainerRemove, Finish
<1>5. ASSUME NEW p \in Procs, Arrive(p) \/ Fire(p)
      PROVE  session'[k].expires = session[k].expires
  BY <1>5
  DEF Arrive, StartLookup, ReconnectLookup, DevStart, StatusLookup, ConnectLookup,
      TerminateLookup, Fire, ReapExpiredSessions, ReapIdleSessions, Reap
<1>6. CASE \/ \E i \in Keys : Activity(i) \/ Detach(i) \/ ContainerExit(i)
           \/ Tick
           \/ UNCHANGED vars
  <2>1. ASSUME NEW i \in Keys, Activity(i)
        PROVE  session'[k].expires = session[k].expires
    BY <1>1, <2>1 DEF Activity, Row
  <2>2. QED BY <1>6, <2>1 DEF Detach, ContainerExit, Tick, vars
<1>7. QED BY <1>3, <1>4, <1>5, <1>6 DEF Next, Step

\* The copy a booting Start will write back has the expiry of the row.
LEMMA NextBootCopies ==
  ASSUME TypeOK, StoreInv, BootCopiesAgree, [Next]_vars
  PROVE  BootCopiesAgree'
<1> SUFFICES ASSUME NEW q \in Procs, pc'[q] \in StartPCs
             PROVE  session'[sess'[q].id].expires = sess'[q].expires
  BY DEF BootCopiesAgree
<1>1. /\ pc \in [Procs -> PCs] /\ sess \in [Procs -> Row] /\ session \in [Keys -> Row]
      /\ created \in Nat
  BY DEF TypeOK
<1>2. CASE pc[q] \in StartPCs /\ sess'[q] = sess[q]
  <2>1. /\ sess[q].id \in Keys /\ sess[q].id <= created
        /\ session[sess[q].id].expires = sess[q].expires
        /\ \A p \in Procs : pc[p] \in StartPCs /\ sess[p].id = sess[q].id => p = q
    BY <1>2, HeldCopies DEF BootCopiesAgree, StoreInv, StartOwnsKey
  <2>2. ~Crash
    BY DEF Crash, StartPCs
  <2>3. \A p \in Procs : StartPublish(p) => pc[p] \in StartPCs
    BY DEF StartPublish, StartPCs
  <2>4. QED BY <1>2, <2>1, <2>2, <2>3, ExpiryKept
<1>3. CASE ~(pc[q] \in StartPCs /\ sess'[q] = sess[q])
  <2>1. ~Quiet
    BY <1>3 DEF Quiet, CopiesQuiet
  <2>2. ASSUME NEW p \in Procs, StartPublish(p)
        PROVE  FALSE
    BY <1>1, <1>3, <2>2 DEF StartPublish, Return, Goto, Hold, StartPCs
  <2>3. ~Crash
    BY DEF Crash, StartPCs
  <2>4. PICK p \in Procs : StartCreate(p) /\ created' = created + 1
    BY <2>1, <2>2, <2>3, StepShape
  <2>5. /\ created + 1 \in Keys
        /\ session' = [session EXCEPT ![created + 1] = NewRow(created + 1, sess[p].slot)]
        /\ pc' = [pc EXCEPT ![p] = "docker_create"]
        /\ sess' = [sess EXCEPT ![p] = NewRow(created + 1, sess[p].slot)]
    BY <1>1, <2>4, KeyIsFresh
  <2>6. q = p
    BY <1>1, <1>3, <2>5
  <2>7. NewRow(created + 1, sess[p].slot).id = created + 1
    BY DEF NewRow
  <2>8. QED BY <1>1, <2>5, <2>6, <2>7
<1>4. QED BY <1>2, <1>3

\* What a reaper works through after a step, it had before or reads now.
LEMMA ReaperWork ==
  ASSUME TypeOK, StoreInv, ReaperAtWork, [Next]_vars,
         NEW p \in TtlReapers, pc'[p] # "idle"
  PROVE  /\ pc'[p] \in KillPCs
         /\ \/ /\ pc[p] # "idle"
               /\ \A row \in batch'[p] \cup {sess'[p]} : row \in batch[p] \cup {sess[p]}
            \/ /\ UNCHANGED session
               /\ \A row \in batch'[p] \cup {sess'[p]} : \E k \in FindExpired : row = Copy(k)
<1>1. /\ pc \in [Procs -> PCs] /\ sess \in [Procs -> Row] /\ batch \in [Procs -> SUBSET Row]
      /\ p \in Procs /\ p \notin Requests /\ p \notin IdleReapers
  BY ProcsAssumption DEF TypeOK, Procs
<1>2. pc[p] # "idle" => pc[p] \in KillPCs
  BY DEF ReaperAtWork
<1>3. CASE UNCHANGED <<pc, sess, batch>>
  BY <1>1, <1>2, <1>3
<1>4. ASSUME NEW q \in Procs, Step(q) \/ Arrive(q) \/ Fire(q), q # p
      PROVE  pc'[p] = pc[p] /\ sess'[p] = sess[p] /\ batch'[p] = batch[p]
  <2> USE DEF Goto, Hold, Return
  <2>1. CASE StartStep(q)
    BY <1>1, <1>4, <2>1
    DEF StartStep, StartInspect, StartExpire, StartCreate, ContainerCreate, ContainerStart,
        StartError, StartPublish
  <2>2. CASE ProbeStep(q)
    BY <1>1, <1>4, <2>2 DEF ProbeStep, Probe, MarkExpired, ConnectAttach
  <2>3. CASE KillStep(q)
    BY <1>1, <1>4, <2>3
    DEF KillStep, MarkTerminating, ContainerStop, ContainerRemove, Finish
  <2>4. CASE Arrive(q)
    BY <1>1, <1>4, <2>4
    DEF Arrive, StartLookup, ReconnectLookup, DevStart, StatusLookup, ConnectLookup,
        TerminateLookup
  <2>5. CASE Fire(q)
    BY <1>1, <1>4, <2>5 DEF Fire, ReapExpiredSessions, ReapIdleSessions, Reap
  <2>6. QED BY <1>4, <2>1, <2>2, <2>3, <2>4, <2>5 DEF Step
<1>5. CASE Step(p)
  <2>1. pc[p] \in KillPCs
    BY <1>2, <1>5
    DEF Step, StartStep, StartInspect, StartExpire, StartCreate, ContainerCreate,
        ContainerStart, StartError, StartPublish, ProbeStep, Probe, MarkExpired, ConnectAttach,
        KillStep, MarkTerminating, ContainerStop, ContainerRemove, Finish
  <2>2. KillStep(p)
    BY <1>5, <2>1
    DEF Step, StartStep, StartInspect, StartExpire, StartCreate, ContainerCreate,
        ContainerStart, StartError, StartPublish, ProbeStep, Probe, MarkExpired, ConnectAttach,
        KillPCs
  <2>3. CASE MarkTerminating(p) \/ ContainerStop(p) \/ ContainerRemove(p)
    BY <1>1, <2>1, <2>3 DEF MarkTerminating, ContainerStop, ContainerRemove, Goto, KillPCs
  <2>4. CASE Finish(p)
    BY <1>1, <2>1, <2>4 DEF Finish, Return, Goto, Hold, KillPCs
  <2>5. QED BY <2>2, <2>3, <2>4 DEF KillStep
<1>6. CASE Arrive(p)
  BY <1>1, <1>6
  DEF Arrive, StartLookup, ReconnectLookup, DevStart, StatusLookup, ConnectLookup,
      TerminateLookup
<1>7. CASE Fire(p)
  <2>1. PICK k \in FindExpired :
          /\ sess' = [sess EXCEPT ![p] = Copy(k)]
          /\ batch' = [batch EXCEPT ![p] = {Copy(i) : i \in FindExpired \ {k}}]
    BY <1>1, <1>7 DEF Fire, ReapExpiredSessions, ReapIdleSessions, Reap, Hold
  <2>2. pc' = [pc EXCEPT ![p] = "mark"] /\ UNCHANGED session
    BY <1>1, <1>7 DEF Fire, ReapExpiredSessions, ReapIdleSessions, Reap, Goto
  <2>3. QED BY <1>1, <2>1, <2>2 DEF KillPCs
<1>8. CASE Crash
  BY <1>1, <1>8 DEF Crash
<1>9. CASE \/ \E i \in Keys : Activity(i) \/ Detach(i) \/ ContainerExit(i)
           \/ Tick
           \/ UNCHANGED vars
  BY <1>3, <1>9, WorldStays
<1>10. QED BY <1>1, <1>2, <1>4, <1>5, <1>6, <1>7, <1>8, <1>9 DEF Next

\* One step leaves every session a reaper works through past its TTL.
LEMMA NextReaper ==
  ASSUME TypeOK, StoreInv, ReaperInv, [Next]_vars
  PROVE  ReaperInv'
<1>1. BootCopiesAgree'
  BY NextBootCopies DEF ReaperInv
<1>2. now' \in Nat /\ now \in Nat /\ now <= now' /\ created \in Nat /\ created' \in Nat
  <2>1. now' = now \/ now' = now + 1
    BY DEF Next, Step, StartStep, StartInspect, StartExpire, StartCreate, ContainerCreate,
       ContainerStart, StartError, StartPublish, ProbeStep, Probe, MarkExpired, ConnectAttach,
       KillStep, MarkTerminating, ContainerStop, ContainerRemove, Finish, Arrive, StartLookup,
       ReconnectLookup, DevStart, StatusLookup, ConnectLookup, TerminateLookup, Fire,
       ReapExpiredSessions, ReapIdleSessions, Reap, Activity, Detach, ContainerExit, Tick, Crash,
       vars, World
  <2>2. created' = created \/ created' = created + 1
    BY StepShape DEF Quiet, StartPublish, Crash
  <2>3. QED BY <2>1, <2>2 DEF TypeOK
<1>3. ASSUME NEW p \in TtlReapers, pc'[p] # "idle"
      PROVE  /\ pc'[p] \in KillPCs
             /\ \A row \in batch'[p] \cup {sess'[p]} :
                  row.id \in Keys /\ row.id <= created /\ session'[row.id].expires <= now'
  <2>1. pc'[p] \in KillPCs
    BY <1>3, ReaperWork DEF ReaperInv
  <2>2. ASSUME NEW row, row \in batch[p] \cup {sess[p]}, pc[p] # "idle"
        PROVE  row.id \in Keys /\ row.id <= created /\ session'[row.id].expires <= now'
    <3>1. /\ row.id \in Keys /\ row.id <= created
          /\ session[row.id].expires <= now /\ session[row.id].expires \in Nat
      <4>1. row.id \in Keys /\ row.id <= created
        BY <2>2, HeldCopies DEF ReaperInv, ReaperAtWork, Procs
      <4>2. session[row.id].expires <= now
        BY <2>2 DEF ReaperInv, TtlReaperJustified
      <4>3. session[row.id].expires \in Nat
        BY <4>1 DEF TypeOK, Row
      <4>4. QED BY <4>1, <4>2, <4>3
    <3>2. ~Crash
      BY <1>3 DEF Crash, Procs
    <3>3. \A q \in Procs : StartPublish(q) => pc[q] \in StartPCs
      BY DEF StartPublish, StartPCs
    <3>4. session'[row.id].expires = session[row.id].expires
      BY <3>1, <3>2, <3>3, ExpiryKept DEF ReaperInv, BootCopiesAgree
    <3>5. QED BY <1>2, <3>1, <3>4
  <2>3. ASSUME NEW k \in FindExpired, UNCHANGED session
        PROVE  /\ Copy(k).id \in Keys /\ Copy(k).id <= created
               /\ session'[Copy(k).id].expires <= now'
    <3>1. k \in Keys /\ session[k].status # "none" /\ session[k].expires <= now
      BY DEF FindExpired, LiveStatus
    <3>2. Copy(k).id = k /\ k <= created /\ session[k].expires \in Nat
      BY <3>1, CopyIsHeld DEF TypeOK, Row
    <3>3. QED BY <1>2, <2>3, <3>1, <3>2
  <2>4. QED BY <1>3, <2>1, <2>2, <2>3, ReaperWork DEF ReaperInv
<1>4. ReaperAtWork' /\ TtlReaperJustified'
  BY <1>3 DEF ReaperAtWork, TtlReaperJustified
<1>5. QED BY <1>1, <1>4 DEF ReaperInv

\* Whatever fails, every session in the slice a TTL reaper works through is
\* past its TTL, however old the slice is.
THEOREM ReaperIsJustified == Spec => []TtlReaperJustified
<1>1. Init => ReaperInv
  BY DEF Init, ReaperInv, BootCopiesAgree, ReaperAtWork, TtlReaperJustified, StartPCs, Procs
<1>2. TypeOK /\ StoreInv /\ ReaperInv /\ [Next]_vars => ReaperInv'
  BY NextReaper
<1>3. ReaperInv => TtlReaperJustified
  BY DEF ReaperInv
<1>4. QED BY <1>1, <1>2, <1>3, TypeCorrect, StoreCorrect, PTL DEF Spec

-----------------------------------------------------------------------------
(* Containers move on, under every fault.                                  *)

\* What the store invariant says of a goroutine that makes or stops one.
LEMMA MakeAndStop ==
  ASSUME TypeOK, StoreInv
  PROVE  /\ \A q \in Procs : pc[q] \in BootPCs =>
              /\ sess[q].id \in Keys
              /\ session[sess[q].id].cid = NoContainer
              /\ \A r \in Procs : pc[r] \in BootPCs /\ sess[r].id = sess[q].id => r = q
         /\ \A q \in Procs : sess[q].cid # NoContainer =>
              /\ sess[q].cid \in Keys /\ session[sess[q].cid].cid = sess[q].cid
         /\ \A q \in Procs : pc[q] \in StopPCs => sess[q].cid # NoContainer
<1>1. StartOwnsKey /\ CopiesAgree
  BY DEF StoreInv
<1>2. \A q \in Procs : pc[q] \in BootPCs => pc[q] \in StartPCs
  BY DEF BootPCs, StartPCs
<1>3. QED BY <1>1, <1>2 DEF StartOwnsKey, CopiesAgree, CopyNames, StopPCs

\* A step that leaves containers, and the goroutines that make them, alone.
LEMMA StillMade ==
  ASSUME MadeInv, UNCHANGED docker,
         \A k \in Keys : session'[k].cid = k => session[k].cid = k,
         \A q \in Procs : pc'[q] \in BootPCs => pc'[q] = pc[q] /\ sess'[q] = sess[q]
  PROVE  MadeInv'
BY DEF MadeInv, BootPCs

\* Making a container.
LEMMA BootMade ==
  ASSUME TypeOK, StoreInv, MadeInv, NEW p \in Procs,
         ContainerCreate(p) \/ ContainerStart(p)
  PROVE  /\ MadeInv'
         /\ \A k \in Keys : docker'[k] # docker[k] => docker'[k] \in Later(docker[k])
<1>t. pc \in [Procs -> PCs] /\ docker \in [Keys -> DockerStates]
  BY DEF TypeOK
<1>1. /\ pc[p] \in BootPCs
      /\ UNCHANGED <<session, sess>>
      /\ \A q \in Procs : q # p => pc'[q] = pc[q]
      /\ \A k \in Keys : k # sess[p].id => docker'[k] = docker[k]
  BY <1>t DEF ContainerCreate, ContainerStart, BootPCs, Goto
<1>2. /\ sess[p].id \in Keys
      /\ session[sess[p].id].cid = NoContainer
      /\ \A q \in Procs : pc[q] \in BootPCs /\ sess[q].id = sess[p].id => q = p
  BY <1>1, MakeAndStop
<1>3. \/ /\ docker[sess[p].id] = "none" /\ docker'[sess[p].id] \in {"none", "created"}
         /\ pc'[p] = "docker_start" => docker'[sess[p].id] = "created"
         /\ pc'[p] \notin {"docker_create", "start_publish"}
      \/ /\ docker[sess[p].id] = "created"
         /\ docker'[sess[p].id] \in {"created", "running", "removed"}
         /\ pc'[p] = "start_publish" => docker'[sess[p].id] = "running"
         /\ pc'[p] \notin {"docker_create", "docker_start"}
  <2>1. CASE ContainerCreate(p)
    BY <1>t, <1>2, <2>1 DEF ContainerCreate, Goto, MadeInv
  <2>2. CASE ContainerStart(p)
    BY <1>t, <1>2, <2>2 DEF ContainerStart, Goto, MadeInv
  <2>3. QED BY <2>1, <2>2
<1>4. ASSUME NEW k \in Keys, session'[k].cid = k
      PROVE  docker'[k] \in {"running", "exited", "removed"}
  <2>1. k # sess[p].id
    BY <1>1, <1>2, <1>4
  <2>2. QED BY <1>1, <1>4, <2>1 DEF MadeInv
<1>5. ASSUME NEW q \in Procs
      PROVE  /\ pc'[q] = "start_publish" => docker'[sess'[q].id] \in {"running", "exited"}
             /\ pc'[q] = "docker_start" => docker'[sess'[q].id] = "created"
             /\ pc'[q] = "docker_create" => docker'[sess'[q].id] = "none"
  <2>1. CASE q = p
    BY <1>1, <1>3, <2>1
  <2>2. CASE q # p /\ pc'[q] \in BootPCs
    <3>1. sess[q].id \in Keys /\ sess[q].id # sess[p].id /\ pc'[q] = pc[q]
      BY <1>1, <1>2, <2>2, MakeAndStop
    <3>2. QED BY <1>1, <3>1 DEF MadeInv
  <2>3. QED BY <2>1, <2>2 DEF BootPCs
<1>6. \A k \in Keys : docker'[k] # docker[k] => docker'[k] \in Later(docker[k])
  <2>1. docker'[sess[p].id] # docker[sess[p].id]
          => docker'[sess[p].id] \in Later(docker[sess[p].id])
    BY <1>3 DEF Later
  <2>2. QED BY <1>1, <2>1
<1>7. QED BY <1>4, <1>5, <1>6 DEF MadeInv

\* Taking one down, by Docker's own doing or not.
LEMMA StopMade ==
  ASSUME TypeOK, StoreInv, MadeInv,
         \/ \E p \in Procs : ContainerStop(p) \/ ContainerRemove(p)
         \/ \E k \in Keys : ContainerExit(k)
  PROVE  /\ MadeInv'
         /\ \A k \in Keys : docker'[k] # docker[k] => docker'[k] \in Later(docker[k])
<1>t. pc \in [Procs -> PCs] /\ docker \in [Keys -> DockerStates]
  BY DEF TypeOK
<1>1. PICK c \in Keys :
        /\ \A k \in Keys : k # c => docker'[k] = docker[k]
        /\ UNCHANGED <<session, sess>>
        /\ \/ /\ docker[c] \in {"running", "exited", "removed"}
              /\ \/ docker'[c] \in {docker[c], "removed"}
                 \/ docker[c] = "running" /\ docker'[c] = "exited"
              /\ session[c].cid = c
           \/ docker[c] = "running" /\ docker'[c] = "exited"
  <2>1. ASSUME NEW p \in Procs, ContainerStop(p) \/ ContainerRemove(p)
        PROVE  \E c \in Keys :
                 /\ \A k \in Keys : k # c => docker'[k] = docker[k]
                 /\ UNCHANGED <<session, sess>>
                 /\ docker[c] \in {"running", "exited", "removed"}
                 /\ \/ docker'[c] \in {docker[c], "removed"}
                    \/ docker[c] = "running" /\ docker'[c] = "exited"
                 /\ session[c].cid = c
    <3>1. pc[p] \in StopPCs
      BY <2>1 DEF ContainerStop, ContainerRemove, StopPCs
    <3>2. PICK c \in Keys : c = sess[p].cid /\ session[c].cid = c
      BY <3>1, MakeAndStop
    <3>3. docker[c] \in {"running", "exited", "removed"}
      BY <3>2 DEF MadeInv
    <3>4. /\ \A k \in Keys : k # c => docker'[k] = docker[k]
          /\ \/ docker'[c] \in {docker[c], "removed"}
             \/ docker[c] = "running" /\ docker'[c] = "exited"
          /\ UNCHANGED <<session, sess>>
      BY <1>t, <2>1, <3>2 DEF ContainerStop, ContainerRemove
    <3>5. QED BY <3>2, <3>3, <3>4
  <2>2. ASSUME NEW k \in Keys, ContainerExit(k)
        PROVE  /\ \A i \in Keys : i # k => docker'[i] = docker[i]
               /\ UNCHANGED <<session, sess>>
               /\ docker[k] = "running" /\ docker'[k] = "exited"
    BY <1>t, <2>2 DEF ContainerExit
  <2>3. QED BY <2>1, <2>2
<1>2. \A q \in Procs : pc'[q] \in BootPCs => pc'[q] = pc[q]
  BY <1>t DEF ContainerStop, ContainerRemove, ContainerExit, Goto, BootPCs
<1>3. ASSUME NEW q \in Procs, pc'[q] \in BootPCs
      PROVE  /\ sess[q].id \in Keys
             /\ \/ docker'[sess[q].id] = docker[sess[q].id]
                \/ docker[sess[q].id] = "running" /\ docker'[sess[q].id] = "exited"
  <2>1. sess[q].id \in Keys /\ session[sess[q].id].cid = NoContainer
    BY <1>2, <1>3, MakeAndStop
  <2>2. QED BY <1>1, <2>1
<1>4. ASSUME NEW q \in Procs
      PROVE  /\ pc'[q] = "start_publish" => docker'[sess'[q].id] \in {"running", "exited"}
             /\ pc'[q] = "docker_start" => docker'[sess'[q].id] = "created"
             /\ pc'[q] = "docker_create" => docker'[sess'[q].id] = "none"
  BY <1>1, <1>2, <1>3 DEF MadeInv, BootPCs
<1>5. \A k \in Keys : session'[k].cid = k => docker'[k] \in {"running", "exited", "removed"}
  BY <1>1 DEF MadeInv
<1>6. \A k \in Keys : docker'[k] # docker[k] => docker'[k] \in Later(docker[k])
  BY <1>1 DEF Later
<1>7. QED BY <1>4, <1>5, <1>6 DEF MadeInv

\* A key that is handed out has no container yet.
LEMMA CreateMade ==
  ASSUME TypeOK, StoreInv, MadeInv, NEW p \in Procs, StartCreate(p), created' = created + 1
  PROVE  MadeInv'
<1>t. /\ pc \in [Procs -> PCs] /\ sess \in [Procs -> Row] /\ session \in [Keys -> Row]
      /\ created \in Nat
  BY DEF TypeOK
<1>1. PICK c \in Keys, new \in {NewRow(created + 1, sess[p].slot)} :
        /\ c = created + 1 /\ docker[c] = "none" /\ docker' = docker
        /\ session' = [session EXCEPT ![c] = new]
        /\ pc' = [pc EXCEPT ![p] = "docker_create"]
        /\ sess' = [sess EXCEPT ![p] = new]
  <2>1. created' # created
    BY <1>t
  <2>2. QED BY <1>t, <2>1, KeyIsFresh DEF StartCreate
<1>2. new.id = c /\ new.cid = NoContainer
  BY <1>1 DEF NewRow
<1>3. \A k \in Keys : session'[k].cid = k => session[k].cid = k
  BY <1>t, <1>1, <1>2
<1>4. \A q \in Procs \ {p} : pc'[q] = pc[q] /\ sess'[q] = sess[q]
  BY <1>t, <1>1
<1>5. pc'[p] = "docker_create" /\ sess'[p].id = c
  BY <1>t, <1>1, <1>2
<1>6. QED BY <1>1, <1>3, <1>4, <1>5 DEF MadeInv

\* A session is published with the container its Start has started.
LEMMA PublishMade ==
  ASSUME TypeOK, StoreInv, MadeInv, NEW p \in Procs, StartPublish(p)
  PROVE  MadeInv'
<1>t. pc \in [Procs -> PCs] /\ sess \in [Procs -> Row] /\ session \in [Keys -> Row]
  BY DEF TypeOK
<1>1. pc[p] = "start_publish" /\ docker' = docker
  BY DEF StartPublish
<1>2. PICK c \in Keys : c = sess[p].id /\ docker[c] \in {"running", "exited"}
  BY <1>1, MakeAndStop DEF MadeInv, BootPCs
<1>3. \A k \in Keys : k # c => session'[k] = session[k]
  BY <1>t, <1>2 DEF StartPublish
<1>4. \A q \in Procs : pc'[q] \in BootPCs => pc'[q] = pc[q] /\ sess'[q] = sess[q]
  BY <1>t DEF StartPublish, Return, Goto, Hold, BootPCs
<1>5. \A k \in Keys : session'[k].cid = k => docker'[k] \in {"running", "exited", "removed"}
  BY <1>1, <1>2, <1>3 DEF MadeInv
<1>6. QED BY <1>1, <1>4, <1>5 DEF MadeInv, BootPCs

\* The other steps leave docker alone.
LEMMA CalmMade ==
  ASSUME TypeOK, StoreInv, MadeInv,
         \/ \E p \in Procs :
              \/ StartInspect(p) \/ StartExpire(p) \/ StartError(p)
              \/ StartCreate(p) /\ UNCHANGED created
              \/ ProbeStep(p) \/ MarkTerminating(p) \/ Finish(p) \/ Arrive(p) \/ Fire(p)
         \/ \E k \in Keys : Activity(k) \/ Detach(k)
         \/ Tick \/ Crash \/ UNCHANGED vars
  PROVE  MadeInv' /\ UNCHANGED docker
<1>1. Quiet \/ Crash
  BY StartQuiet, ProbeQuiet, KillQuiet, BeginQuiet, WorldQuiet DEF KillStep
<1>2. \A k \in Keys : session'[k].cid = k => session[k].cid = k
  BY <1>1 DEF Quiet, RowsQuiet, Crash, NoRow
<1>3. /\ docker' = docker
      /\ \A q \in Procs : pc'[q] \in BootPCs => pc'[q] = pc[q] /\ sess'[q] = sess[q]
  <2>1. ASSUME NEW p \in Procs, MarkTerminating(p)
        PROVE  /\ docker' = docker
               /\ \A q \in Procs : pc'[q] \in BootPCs => pc'[q] = pc[q] /\ sess'[q] = sess[q]
    BY <2>1 DEF MarkTerminating, Goto, BootPCs, TypeOK
  <2>2. CASE Crash
    BY <2>2 DEF Crash, BootPCs
  <2>3. QED BY <2>1, <2>2, CalmSteps, WorldCalm DEF Calm
<1>4. QED BY <1>2, <1>3, StillMade

LEMMA NextMade ==
  ASSUME TypeOK, StoreInv, MadeInv, [Next]_vars
  PROVE  /\ MadeInv'
         /\ \A k \in Keys : docker'[k] # docker[k] => docker'[k] \in Later(docker[k])
<1>1. ASSUME NEW p \in Procs, StartStep(p)
      PROVE  /\ MadeInv'
             /\ \A k \in Keys : docker'[k] # docker[k] => docker'[k] \in Later(docker[k])
  <2>1. StartCreate(p) => (created' = created + 1 \/ UNCHANGED created) /\ UNCHANGED docker
    BY DEF StartCreate
  <2>2. StartPublish(p) => UNCHANGED docker
    BY DEF StartPublish
  <2>3. QED BY <1>1, <2>1, <2>2, CalmMade, CreateMade, BootMade, PublishMade DEF StartStep
<1>2. ASSUME NEW p \in Procs, ProbeStep(p) \/ KillStep(p) \/ Arrive(p) \/ Fire(p)
      PROVE  /\ MadeInv'
             /\ \A k \in Keys : docker'[k] # docker[k] => docker'[k] \in Later(docker[k])
  BY <1>2, CalmMade, StopMade DEF KillStep
<1>3. QED BY <1>1, <1>2, CalmMade, StopMade DEF Next, Step

LEMMA ContainersMade == Spec => []MadeInv
<1>1. Init => MadeInv
  BY DEF Init, MadeInv, NoRow
<1>2. TypeOK /\ StoreInv /\ MadeInv /\ [Next]_vars => MadeInv'
  BY NextMade
<1>3. QED BY <1>1, <1>2, TypeCorrect, StoreCorrect, PTL DEF Spec

\* A container is made once, started once, and never back once it is removed,
\* under every fault: its key is one Start's alone, and only a container that
\* a row names is stopped.
THEOREM ContainersMoveOn == Spec => DockerMovesOn
<1>1. TypeOK /\ StoreInv /\ MadeInv /\ [Next]_vars =>
        [\A k \in Keys : docker'[k] # docker[k] => docker'[k] \in Later(docker[k])]_vars
  BY NextMade
<1>2. QED BY <1>1, TypeCorrect, StoreCorrect, ContainersMade, PTL DEF Spec, DockerMovesOn

\* Who reports a session as expired, after a step: whoever did before, or has
\* removed the container now.
LEMMA NextEnded ==
  ASSUME TypeOK, StoreInv, MadeInv, EndedIsRemoved, [Next]_vars, "stop" \notin Faults
  PROVE  EndedIsRemoved'
<1>t. pc \in [Procs -> PCs] /\ sess \in [Procs -> Row] /\ docker \in [Keys -> DockerStates]
  BY DEF TypeOK
<1> SUFFICES ASSUME NEW q \in Procs, pc'[q] = "finish", sess'[q].cid # NoContainer
             PROVE  docker'[sess'[q].cid] = "removed"
  BY DEF EndedIsRemoved
<1>1. \A k \in Keys : docker[k] = "removed" => docker'[k] = "removed"
  BY NextMade DEF Later
<1>2. \A r \in Procs : sess[r].cid # NoContainer => sess[r].cid \in Keys
  BY MakeAndStop
<1>3. CASE pc[q] = "finish" /\ sess'[q] = sess[q]
  BY <1>1, <1>2, <1>3 DEF EndedIsRemoved
<1>4. ASSUME NEW p \in Procs, ContainerRemove(p), q = p
      PROVE  docker'[sess'[q].cid] = "removed"
  BY <1>t, <1>2, <1>4 DEF ContainerRemove, Fault
<1>5. ASSUME NEW p \in Procs, MarkTerminating(p), q = p
      PROVE  docker'[sess'[q].cid] = "removed"
  BY <1>t, <1>5 DEF MarkTerminating, Goto
<1>6. ASSUME NEW p \in Procs, StartStep(p) \/ ProbeStep(p) \/ Arrive(p) \/ Fire(p)
      PROVE  pc[q] = "finish" /\ sess'[q] = sess[q]
  BY <1>t, <1>6
  DEF StartStep, StartInspect, StartExpire, StartCreate, ContainerCreate, ContainerStart,
      StartError, StartPublish, ProbeStep, Probe, MarkExpired, ConnectAttach, Arrive,
      StartLookup, ReconnectLookup, DevStart, StatusLookup, ConnectLookup, TerminateLookup, Fire,
      ReapExpiredSessions, ReapIdleSessions, Reap, Goto, Hold, Return
<1>7. ASSUME NEW p \in Procs, KillStep(p), ~(q = p /\ (ContainerRemove(p) \/ MarkTerminating(p)))
      PROVE  pc[q] = "finish" /\ sess'[q] = sess[q]
  BY <1>t, <1>7
  DEF KillStep, MarkTerminating, ContainerStop, ContainerRemove, Finish, Goto, Hold, Return
<1>8. CASE \/ \E k \in Keys : Activity(k) \/ Detach(k) \/ ContainerExit(k)
           \/ Tick \/ UNCHANGED vars
  BY <1>3, <1>8 DEF Activity, Detach, ContainerExit, Tick, vars
<1>9. ~Crash
  BY DEF Crash
<1>10. QED BY <1>3, <1>4, <1>5, <1>6, <1>7, <1>8, <1>9 DEF Next, Step

\* Whoever ends a session writes expired only after the container it knew of
\* is gone for good, whichever handlers and reapers end the same session, when
\* Docker does not fail.
THEOREM EndedAreRemoved ==
  ASSUME "stop" \notin Faults
  PROVE  Spec => []EndedIsRemoved
<1>1. Init => EndedIsRemoved
  BY DEF Init, EndedIsRemoved
<1>2. TypeOK /\ StoreInv /\ MadeInv /\ EndedIsRemoved /\ [Next]_vars => EndedIsRemoved'
  BY NextEnded
<1>3. QED BY <1>1, <1>2, TypeCorrect, StoreCorrect, ContainersMade, PTL DEF Spec

-----------------------------------------------------------------------------
(* What the terminals of a session count on, under every fault.            *)

\* A published session that is not active stays so: only the Start that makes
\* its container publishes it, and has.
LEMMA PublishedStaysOver ==
  ASSUME TypeOK, StoreInv, [Next]_vars,
         NEW k \in Keys, session[k].cid # NoContainer, session[k].status # "active"
  PROVE  session'[k].status # "active"
<1>1. CASE Quiet
  BY <1>1 DEF Quiet, RowsQuiet, Ended
<1>2. ASSUME NEW p \in Procs, StartCreate(p), created' = created + 1
      PROVE  session'[k] = session[k]
  <2>1. k # created + 1
    <3>1. ~(k > created)
      BY DEF StoreInv, FreshKeys, NoRow
    <3>2. QED BY <3>1 DEF TypeOK
  <2>2. created' # created
    BY <1>2 DEF TypeOK
  <2>3. session' = [session EXCEPT ![created + 1] = NewRow(created + 1, sess[p].slot)]
    BY <1>2, <2>2 DEF StartCreate
  <2>4. QED BY <2>1, <2>3 DEF TypeOK
<1>3. ASSUME NEW p \in Procs, StartPublish(p)
      PROVE  session'[k] = session[k]
  <2>1. sess[p].id # k
    BY <1>3 DEF StartPublish, StartPCs, StoreInv, StartOwnsKey
  <2>2. QED BY <1>3, <2>1 DEF StartPublish, TypeOK
<1>4. CASE Crash
  BY <1>4 DEF Crash, NoRow
<1>5. QED BY <1>1, <1>2, <1>3, <1>4, StepShape

LEMMA NextSettled ==
  ASSUME TypeOK, StoreInv, MadeInv, [Next]_vars,
         NEW k \in Keys, session[k].cid # NoContainer
  PROVE  /\ session[k].status # "active" => session'[k].status # "active"
         /\ docker[k] # "running" => docker'[k] # "running"
         /\ session'[k].expires = session[k].expires \/ Crash
<1>1. session[k].cid = k
  BY DEF StoreInv, RowNamesContainer
<1>2. docker[k] # "running" => docker'[k] # "running"
  <2>1. docker[k] \in {"running", "exited", "removed"}
    BY <1>1 DEF MadeInv
  <2>2. docker'[k] # docker[k] => docker'[k] \in Later(docker[k])
    BY NextMade
  <2>3. QED BY <2>1, <2>2 DEF Later
<1>3. session'[k].expires = session[k].expires \/ Crash
  <2>1. k <= created
    <3>1. ~(k > created)
      BY DEF StoreInv, FreshKeys, NoRow
    <3>2. QED BY <3>1 DEF TypeOK
  <2>2. \A p \in Procs : StartPublish(p) => sess[p].id # k
    BY DEF StartPublish, StartPCs, StoreInv, StartOwnsKey
  <2>3. QED BY <2>1, <2>2, ExpiryKept
<1>4. QED BY <1>2, <1>3, PublishedStaysOver

\* Once the container of a session is published, neither the session nor its
\* container comes back, and its expiry stays: what TerminalHub takes for
\* granted of the row and the container, proved of handlers and reapers.
THEOREM PublishedSettles == Spec => PublishedIsSettled
<1>1. TypeOK /\ StoreInv /\ MadeInv /\ [Next]_vars =>
        [\A k \in Keys : session[k].cid # NoContainer =>
           /\ session[k].status # "active" => session'[k].status # "active"
           /\ docker[k] # "running" => docker'[k] # "running"
           /\ session'[k].expires = session[k].expires \/ Crash]_vars
  BY NextSettled
<1>2. QED BY <1>1, TypeCorrect, StoreCorrect, ContainersMade, PTL DEF Spec, PublishedIsSettled
=============================================================================
