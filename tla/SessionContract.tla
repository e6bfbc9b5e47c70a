--------------------------- MODULE SessionContract ---------------------------
(***************************************************************************)
(* What the platform promises about one session and its container, without *)
(* store, goroutines or clock:                                             *)
(*   - a session is started once, opened at most once, and once it is over *)
(*     it stays over;                                                      *)
(*   - a session is opened only on a container that has come up;           *)
(*   - the platform takes a container down only when its session is over:  *)
(*     till then nothing happens to it, unless it exits by itself.         *)
(* It does not promise that the container of a session that is over is     *)
(* taken down: the code does not keep that promise.                        *)
(***************************************************************************)
CONSTANTS Keys,     \* the session keys
          Fragile   \* TRUE when containers may exit by themselves

VARIABLES phase,   \* phase[k]: how far the session has come
          box      \* box[k]: its container

contractVars == <<phase, box>>

Phases == {"unused", "starting", "open", "over"}
Boxes == {"none", "up", "exited", "removed"}

ContractInit ==
  /\ phase = [k \in Keys |-> "unused"]
  /\ box = [k \in Keys |-> "none"]

Begin(k) ==
  /\ phase[k] = "unused"
  /\ phase' = [phase EXCEPT ![k] = "starting"]
  /\ UNCHANGED box

\* The container comes up, or is given up, while the session is starting.
Boot(k) ==
  /\ phase[k] = "starting" /\ box[k] = "none"
  /\ \E b \in {"up", "removed"} : box' = [box EXCEPT ![k] = b]
  /\ UNCHANGED phase

Exit(k) ==
  /\ Fragile /\ box[k] = "up"
  /\ box' = [box EXCEPT ![k] = "exited"]
  /\ UNCHANGED phase

\* The container has come up, and nobody has taken it down since.
Open(k) ==
  /\ phase[k] = "starting" /\ box[k] \in {"up", "exited"}
  /\ phase' = [phase EXCEPT ![k] = "open"]
  /\ UNCHANGED box

\* Sessions end one by one, or together when the server dies.
End(K) ==
  /\ \A k \in K : phase[k] \in {"starting", "open"}
  /\ phase' = [k \in Keys |-> IF k \in K THEN "over" ELSE phase[k]]
  /\ UNCHANGED box

Stop(k) ==
  /\ phase[k] = "over" /\ box[k] = "up"
  /\ box' = [box EXCEPT ![k] = "exited"]
  /\ UNCHANGED phase

Remove(k) ==
  /\ phase[k] = "over"
  /\ box' = [box EXCEPT ![k] = "removed"]
  /\ UNCHANGED phase

ContractNext ==
  \/ \E k \in Keys : Begin(k) \/ Boot(k) \/ Exit(k) \/ Open(k) \/ Stop(k) \/ Remove(k)
  \/ \E K \in SUBSET Keys : End(K)

ContractSpec == ContractInit /\ [][ContractNext]_contractVars
=============================================================================
