----------------------- MODULE SessionContract_proofs -----------------------
(***************************************************************************)
(* The lifecycle of sessions implements SessionContract, for all slots,    *)
(* goroutines, lifetimes and bounds, when the writes of the store do not   *)
(* fail.                                                                   *)
(***************************************************************************)
EXTENDS SessionLifecycle_proofs

USE ConstantsAssumption DEF Keys, NoContainer

\* Steps of the contract, said of the phases and boxes of the keys.
LEMMA SessionsEnd ==
  ASSUME \A k \in Keys : Box(k)' = Box(k),
         \A k \in Keys : \/ Phase(k)' = Phase(k)
                         \/ Phase(k) \in {"starting", "open"} /\ Phase(k)' = "over"
  PROVE  Contract!ContractNext
<1> DEFINE K == {k \in Keys : Phase(k)' # Phase(k)}
<1>1. \A k \in Keys : Phase(k)' = IF k \in K THEN "over" ELSE Phase(k)
  OBVIOUS
<1>2. \A k \in K : k \in Keys /\ Phase(k) \in {"starting", "open"}
  OBVIOUS
<1>3. K \in SUBSET Keys
  OBVIOUS
<1> HIDE DEF K
<1>4. Contract!End(K)
  BY <1>1, <1>2 DEF Contract!End
<1>5. QED BY <1>3, <1>4 DEF Contract!ContractNext

LEMMA BoxChanges ==
  ASSUME NEW c \in Keys, \A k \in Keys : Phase(k)' = Phase(k),
         \A k \in Keys \ {c} : Box(k)' = Box(k),
         \/ Phase(c) = "starting" /\ Box(c) = "none" /\ Box(c)' \in {"up", "removed"}
         \/ Phase(c) = "over" /\ Box(c) = "up" /\ Box(c)' = "exited"
         \/ Phase(c) = "over" /\ Box(c)' = "removed"
         \/ Fault("exit") /\ Box(c) = "up" /\ Box(c)' = "exited"
  PROVE  Contract!ContractNext
<1>1. CASE Phase(c) = "starting" /\ Box(c) = "none" /\ Box(c)' \in {"up", "removed"}
  <2>1. Contract!Boot(c)
    BY <1>1 DEF Contract!Boot
  <2>2. QED BY <2>1 DEF Contract!ContractNext
<1>2. CASE Phase(c) = "over" /\ Box(c) = "up" /\ Box(c)' = "exited"
  <2>1. Contract!Stop(c)
    BY <1>2 DEF Contract!Stop
  <2>2. QED BY <2>1 DEF Contract!ContractNext
<1>3. CASE Phase(c) = "over" /\ Box(c)' = "removed"
  <2>1. Contract!Remove(c)
    BY <1>3 DEF Contract!Remove
  <2>2. QED BY <2>1 DEF Contract!ContractNext
<1>4. CASE Fault("exit") /\ Box(c) = "up" /\ Box(c)' = "exited"
  <2>1. Contract!Exit(c)
    BY <1>4 DEF Contract!Exit
  <2>2. QED BY <2>1 DEF Contract!ContractNext
<1>5. QED BY <1>1, <1>2, <1>3, <1>4

LEMMA PhaseAdvances ==
  ASSUME NEW c \in Keys, \A k \in Keys : Box(k)' = Box(k),
         \A k \in Keys \ {c} : Phase(k)' = Phase(k),
         \/ Phase(c) = "unused" /\ Phase(c)' = "starting"
         \/ Phase(c) = "starting" /\ Box(c) \in {"up", "exited"} /\ Phase(c)' = "open"
  PROVE  Contract!ContractNext
<1>1. CASE Phase(c) = "unused" /\ Phase(c)' = "starting"
  <2>1. Contract!Begin(c)
    BY <1>1 DEF Contract!Begin
  <2>2. QED BY <2>1 DEF Contract!ContractNext
<1>2. CASE Phase(c) = "starting" /\ Box(c) \in {"up", "exited"} /\ Phase(c)' = "open"
  <2>1. Contract!Open(c)
    BY <1>2 DEF Contract!Open
  <2>2. QED BY <2>1 DEF Contract!ContractNext
<1>3. QED BY <1>1, <1>2

\* A quiet step and a crash end sessions, if they change a phase at all.
LEMMA QuietPhases ==
  ASSUME TypeOK, StoreInv, Quiet \/ Crash, NEW k \in Keys
  PROVE  \/ Phase(k)' = Phase(k)
         \/ Phase(k) \in {"starting", "open"} /\ Phase(k)' = "over"
<1>1. created' = created
  BY DEF Quiet, Crash
<1>2. StartInFlight(k)' => StartInFlight(k)
  BY DEF Quiet, CopiesQuiet, Crash, StartInFlight, StartPCs
<1>3. session'[k].status = "active" => session[k].status = "active"
  BY DEF Quiet, RowsQuiet, Ended, Crash, NoRow
<1>4. StartInFlight(k) => session[k].status # "active"
  BY DEF StartInFlight, StoreInv, StartOwnsKey
<1>5. created \in Nat
  BY DEF TypeOK
<1>6. QED BY <1>1, <1>2, <1>3, <1>4, <1>5 DEF Phase

LEMMA BoxKept == docker' = docker => \A k \in Keys : Box(k)' = Box(k)
BY DEF Box

\* A step that leaves rows and copies alone, and every Start where it was,
\* changes no phase.
LEMMA PhaseKept ==
  ASSUME UNCHANGED <<session, created, sess>>,
         \A q \in Procs : pc'[q] \in StartPCs <=> pc[q] \in StartPCs
  PROVE  \A k \in Keys : Phase(k)' = Phase(k)
<1>1. \A k \in Keys : StartInFlight(k)' <=> StartInFlight(k)
  BY DEF StartInFlight
<1>2. QED BY <1>1 DEF Phase

\* The container of a session is made.
LEMMA CreateImplements ==
  ASSUME TypeOK, StoreInv, ContainerInv, NEW p \in Procs, ContainerCreate(p)
  PROVE  Contract!ContractNext
<1>1. docker \in [Keys -> DockerStates] /\ docker[sess[p].id] = "none"
  BY DEF TypeOK, ContainerCreate, ContainerInv
<1>2. \A k \in Keys : docker'[k] = docker[k] \/ (docker[k] = "none" /\ docker'[k] = "created")
  BY <1>1 DEF ContainerCreate
<1>3. \A k \in Keys : Box(k)' = Box(k)
  BY <1>2 DEF Box
<1>4. Quiet
  BY StartQuiet
<1>5. QED BY <1>3, <1>4, QuietPhases, SessionsEnd

\* The container of a session comes up, or is given up.
LEMMA BootImplements ==
  ASSUME TypeOK, StoreInv, ContainerInv, NEW p \in Procs, ContainerStart(p)
  PROVE  Contract!ContractNext
<1>0. PICK c \in Keys : c = sess[p].id
  BY DEF ContainerStart, StoreInv, StartOwnsKey, StartPCs
<1>1. /\ pc \in [Procs -> PCs] /\ docker \in [Keys -> DockerStates] /\ created \in Nat
      /\ pc[p] = "docker_start" /\ docker[c] = "created" /\ c <= created
  BY <1>0, HeldCopies DEF TypeOK, ContainerStart, ContainerInv
<1>2. \A k \in Keys : Phase(k)' = Phase(k)
  <2>1. /\ UNCHANGED <<session, created, sess>>
        /\ \A q \in Procs : pc'[q] \in StartPCs <=> pc[q] \in StartPCs
    BY <1>1 DEF ContainerStart, StartPCs, Goto
  <2>2. QED BY <2>1, PhaseKept
<1>3. Phase(c) = "starting"
  <2>1. StartInFlight(c)
    BY <1>0, <1>1 DEF StartInFlight, StartPCs
  <2>2. QED BY <1>1, <2>1 DEF Phase
<1>4. Box(c) = "none" /\ \A k \in Keys \ {c} : docker'[k] = docker[k]
  BY <1>0, <1>1 DEF Box, ContainerStart
<1>5. \A k \in Keys \ {c} : Box(k)' = Box(k)
  BY <1>4 DEF Box
<1>6. docker'[c] \in {"running", "removed", "created"}
  BY <1>0, <1>1 DEF ContainerStart
<1>7. Box(c)' \in {"up", "removed", "none"}
  BY <1>6 DEF Box
<1>8. CASE Box(c)' = "none"
  BY <1>2, <1>4, <1>5, <1>8, SessionsEnd
<1>9. CASE Box(c)' \in {"up", "removed"}
  BY <1>1, <1>2, <1>3, <1>4, <1>5, <1>9, BoxChanges
<1>10. QED BY <1>7, <1>8, <1>9

\* A container is taken down only when its session is over.
LEMMA StopImplements ==
  ASSUME TypeOK, StoreInv, ContainerInv, NEW p \in Procs,
         ContainerStop(p) \/ ContainerRemove(p)
  PROVE  Contract!ContractNext
<1>1. /\ pc \in [Procs -> PCs] /\ docker \in [Keys -> DockerStates] /\ created \in Nat
      /\ pc[p] \in StopPCs
  BY DEF TypeOK, ContainerStop, ContainerRemove, StopPCs
<1>2. PICK c \in Keys : /\ c = sess[p].id /\ c <= created /\ sess[p].cid = c
                        /\ session[c].cid = c /\ session[c].status # "active"
  BY <1>1, BootAndStop, HeldCopies
<1>3. \A k \in Keys : Phase(k)' = Phase(k)
  <2>1. /\ UNCHANGED <<session, created, sess>>
        /\ \A q \in Procs : pc'[q] \in StartPCs <=> pc[q] \in StartPCs
    BY <1>1 DEF ContainerStop, ContainerRemove, StartPCs, StopPCs, Goto
  <2>2. QED BY <2>1, PhaseKept
<1>4. Phase(c) = "over"
  <2>1. ~StartInFlight(c)
    BY <1>2 DEF StartInFlight, StoreInv, StartOwnsKey
  <2>2. QED BY <1>1, <1>2, <2>1 DEF Phase
<1>5. /\ \A k \in Keys \ {c} : docker'[k] = docker[k]
      /\ \/ docker'[c] \in {docker[c], "removed"}
         \/ docker[c] = "running" /\ docker'[c] = "exited"
  BY <1>1, <1>2 DEF ContainerStop, ContainerRemove
<1>6. \A k \in Keys \ {c} : Box(k)' = Box(k)
  BY <1>5 DEF Box
<1>7. \/ Box(c)' \in {Box(c), "removed"}
      \/ Box(c) = "up" /\ Box(c)' = "exited"
  BY <1>5 DEF Box
<1>8. CASE Box(c)' = Box(c)
  BY <1>3, <1>6, <1>8, SessionsEnd
<1>9. CASE Box(c)' = "removed" \/ (Box(c) = "up" /\ Box(c)' = "exited")
  BY <1>2, <1>3, <1>4, <1>6, <1>9, BoxChanges
<1>10. QED BY <1>7, <1>8, <1>9

\* A container exits by itself.
LEMMA ExitImplements ==
  ASSUME TypeOK, NEW c \in Keys, ContainerExit(c)
  PROVE  Contract!ContractNext
<1>1. /\ Fault("exit") /\ docker[c] = "running" /\ docker'[c] = "exited"
      /\ \A k \in Keys \ {c} : docker'[k] = docker[k]
      /\ UNCHANGED <<session, created, pc, sess>>
  BY DEF ContainerExit, TypeOK
<1>2. /\ Box(c) = "up" /\ Box(c)' = "exited"
      /\ \A k \in Keys \ {c} : Box(k)' = Box(k)
  BY <1>1 DEF Box
<1>3. \A k \in Keys : Phase(k)' = Phase(k)
  BY <1>1, PhaseKept
<1>4. QED BY <1>1, <1>2, <1>3, BoxChanges

\* A session begins with its row.
LEMMA BeginImplements ==
  ASSUME TypeOK, StoreInv, NEW p \in Procs, StartCreate(p), created' = created + 1
  PROVE  Contract!ContractNext
<1>1. /\ pc \in [Procs -> PCs] /\ sess \in [Procs -> Row] /\ session \in [Keys -> Row]
      /\ created \in Nat
  BY DEF TypeOK
<1>2. PICK c \in Keys, new \in {NewRow(created + 1, sess[p].slot)} :
        /\ c = created + 1 /\ created' = c /\ docker' = docker /\ pc[p] = "start_create"
        /\ session' = [session EXCEPT ![c] = new]
        /\ pc' = [pc EXCEPT ![p] = "docker_create"]
        /\ sess' = [sess EXCEPT ![p] = new]
  <2>1. created' # created
    BY <1>1
  <2>2. QED BY <1>1, <2>1 DEF StartCreate, Hold, Goto
<1>3. new.id = c
  BY <1>2 DEF NewRow
<1>4. Phase(c) = "unused"
  BY <1>1, <1>2 DEF Phase
<1>5. Phase(c)' = "starting"
  <2>1. StartInFlight(c)'
    BY <1>1, <1>2, <1>3 DEF StartInFlight, StartPCs
  <2>2. QED BY <1>1, <1>2, <2>1 DEF Phase
<1>6. ASSUME NEW k \in Keys, k # c
      PROVE  Phase(k)' = Phase(k)
  <2>1. session'[k] = session[k] /\ (k > created' <=> k > created)
        /\ (k <= created' <=> k <= created)
    BY <1>1, <1>2, <1>6
  <2>2. StartInFlight(k)' <=> StartInFlight(k)
    <3>1. \A q \in Procs : pc'[q] \in StartPCs /\ sess'[q].id = k <=> pc[q] \in StartPCs /\ sess[q].id = k
      BY <1>1, <1>2, <1>3, <1>6 DEF StartPCs
    <3>2. QED BY <3>1 DEF StartInFlight
  <2>3. QED BY <2>1, <2>2 DEF Phase
<1>7. QED BY <1>2, <1>4, <1>5, <1>6, BoxKept, PhaseAdvances

\* A session is opened on the container its Start has just started.
LEMMA OpenImplements ==
  ASSUME TypeOK, StoreInv, ContainerInv, "store" \notin Faults,
         NEW p \in Procs, StartPublish(p)
  PROVE  Contract!ContractNext
<1>1. /\ pc \in [Procs -> PCs] /\ sess \in [Procs -> Row] /\ session \in [Keys -> Row]
      /\ created \in Nat
  BY DEF TypeOK
<1>2. PICK c \in Keys :
        /\ c = sess[p].id /\ pc[p] = "start_publish" /\ c <= created /\ docker[c] \in Up
        /\ \A q \in Procs : pc[q] \in StartPCs /\ sess[q].id = c => q = p
  BY HeldCopies DEF StartPublish, ContainerInv, StoreInv, StartOwnsKey, StartPCs
<1>3. /\ UNCHANGED <<docker, created>> /\ pc'[p] = "idle"
      /\ \A q \in Procs \ {p} : pc'[q] = pc[q] /\ sess'[q] = sess[q]
      /\ session'[c].status = "active" /\ \A k \in Keys \ {c} : session'[k] = session[k]
  <2>1. /\ UNCHANGED <<docker, created>>
        /\ session' = [session EXCEPT ![c] = [sess[p] EXCEPT !.cid = c, !.status = "active"]]
        /\ pc' = [pc EXCEPT ![p] = "idle"] /\ sess' = [sess EXCEPT ![p] = NoRow]
    BY <1>2 DEF StartPublish, Fault, Return, Hold, Goto
  <2>2. [sess[p] EXCEPT !.cid = c, !.status = "active"].status = "active"
    BY <1>1 DEF Row
  <2>3. QED BY <1>1, <2>1, <2>2
<1>4. Phase(c) = "starting"
  <2>1. StartInFlight(c)
    BY <1>2 DEF StartInFlight, StartPCs
  <2>2. QED BY <1>1, <1>2, <2>1 DEF Phase
<1>5. Phase(c)' = "open"
  <2>1. ~StartInFlight(c)'
    BY <1>2, <1>3 DEF StartInFlight, StartPCs
  <2>2. QED BY <1>1, <1>2, <1>3, <2>1 DEF Phase
<1>6. ASSUME NEW k \in Keys, k # c
      PROVE  Phase(k)' = Phase(k)
  <2>1. StartInFlight(k)' <=> StartInFlight(k)
    <3>1. \A q \in Procs : pc'[q] \in StartPCs /\ sess'[q].id = k <=> pc[q] \in StartPCs /\ sess[q].id = k
      BY <1>2, <1>3, <1>6 DEF StartPCs
    <3>2. QED BY <3>1 DEF StartInFlight
  <2>2. QED BY <1>3, <1>6, <2>1 DEF Phase
<1>7. Box(c) \in {"up", "exited"}
  BY <1>2 DEF Box, Up
<1>8. QED BY <1>2, <1>3, <1>4, <1>5, <1>6, <1>7, BoxKept, PhaseAdvances

\* Every step is one of the contract.
LEMMA NextImplements ==
  ASSUME TypeOK, StoreInv, ContainerInv, [Next]_vars, "store" \notin Faults
  PROVE  Contract!ContractNext
<1>1. CASE (Quiet \/ Crash) /\ docker' = docker
  BY <1>1, QuietPhases, BoxKept, SessionsEnd
<1>2. ASSUME NEW p \in Procs, StartStep(p)
      PROVE  Contract!ContractNext
  <2>1. StartCreate(p) => created' = created + 1 \/ UNCHANGED created
    BY DEF StartCreate
  <2>2. StartInspect(p) \/ StartExpire(p) \/ StartError(p) \/ StartCreate(p) => docker' = docker
    BY DEF StartInspect, StartExpire, StartError, StartCreate
  <2>3. QED
    BY <1>1, <1>2, <2>1, <2>2, StartQuiet, CreateImplements, BootImplements, BeginImplements,
       OpenImplements DEF StartStep
<1>3. ASSUME NEW p \in Procs, ProbeStep(p) \/ Arrive(p) \/ Fire(p)
      PROVE  Contract!ContractNext
  <2>1. Calm /\ Quiet
    BY <1>3, CalmSteps, ProbeQuiet, BeginQuiet
  <2>2. QED BY <1>1, <2>1 DEF Calm
<1>4. ASSUME NEW p \in Procs, KillStep(p)
      PROVE  Contract!ContractNext
  <2>1. MarkTerminating(p) \/ Finish(p) => docker' = docker
    BY DEF MarkTerminating, Finish
  <2>2. QED BY <1>1, <1>4, <2>1, KillQuiet, StopImplements DEF KillStep
<1>5. CASE \/ \E k \in Keys : Activity(k) \/ Detach(k)
           \/ Tick
           \/ UNCHANGED vars
  <2>1. Calm /\ Quiet
    BY <1>5, WorldCalm, WorldQuiet
  <2>2. QED BY <1>1, <2>1 DEF Calm
<1>6. CASE Crash
  BY <1>1, <1>6 DEF Crash
<1>7. QED BY <1>2, <1>3, <1>4, <1>5, <1>6, ExitImplements DEF Next, Step

\* Nothing has begun initially.
LEMMA InitImplements == Init => Contract!ContractInit
<1> SUFFICES ASSUME Init PROVE Contract!ContractInit
  OBVIOUS
<1>1. \A k \in Keys : Phase(k) = "unused"
  BY DEF Init, Phase
<1>2. \A k \in Keys : Box(k) = "none"
  BY DEF Init, Box
<1>3. QED BY <1>1, <1>2 DEF Contract!ContractInit

\* Whatever handlers, reapers and crashes do, every behaviour of the
\* lifecycle is one the contract allows: a session is started once, opened
\* on a container that has come up, and its container is taken down only when
\* it is over, or exits by itself.
THEOREM LifecycleImplementsContract ==
  ASSUME "store" \notin Faults
  PROVE  Spec => ImplementsContract
<1>1. TypeOK /\ StoreInv /\ ContainerInv /\ [Next]_vars
        => [Contract!ContractNext]_Contract!contractVars
  BY NextImplements
<1>2. QED
  BY <1>1, InitImplements, TypeCorrect, StoreCorrect, ContainersHold, PTL
  DEF Spec, ImplementsContract, Contract!ContractSpec
=============================================================================
