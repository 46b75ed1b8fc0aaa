-------------------------- MODULE RecorderService --------------------------
(***************************************************************************)
(* What the recorder promises the rest of the backend, camera by camera:   *)
(* recording happens in sessions; a session is opened on the connection    *)
(* revision its caller read, a new one opens only after the previous one   *)
(* has completely ended, and a session ends for two reasons only: somebody *)
(* asked for it, or the camera's connection was found to have moved on.    *)
(* CameraRecorder shows that CameraWorker and RecorderManager keep it;     *)
(* RecordingControl uses it as the recorder below the schedule manager.    *)
(***************************************************************************)
EXTENDS Naturals

CONSTANTS
  Camera,      \* identities of the cameras
  Revision     \* numbers a connection revision may take, Unusable among them

Unusable == 0  \* no usable connection: row missing or camera disabled

Phase == {"stopped", "running", "leaving", "stopping"}

VARIABLES
  phase,       \* [Camera -> Phase]
  serving,     \* [Camera -> Revision] connection revision of the open session
  connection   \* [Camera -> Revision] the revision persisted in the database now

serviceVars == <<phase, serving, connection>>

ServiceTypeOK ==
  /\ phase \in [Camera -> Phase]
  /\ serving \in [Camera -> Revision]
  /\ connection \in [Camera -> Revision]

\* RecorderManager.is_running: a session nobody has asked to stop.
IsRunning(c) == phase[c] \in {"running", "leaving"}

ServiceInit ==
  /\ phase = [c \in Camera |-> "stopped"]
  /\ serving = [c \in Camera |-> Unusable]
  /\ connection \in [Camera -> Revision]

\* A session opens on whatever revision the caller had read, current or not.
Open(c, r) ==
  /\ phase[c] = "stopped"
  /\ phase' = [phase EXCEPT ![c] = "running"]
  /\ serving' = [serving EXCEPT ![c] = r]
  /\ UNCHANGED connection

\* RecorderManager.stop has been let in.
BeginStop(c) ==
  /\ IsRunning(c)
  /\ phase' = [phase EXCEPT ![c] = "stopping"]
  /\ UNCHANGED <<serving, connection>>

\* The recorder found its revision stale and is on its way out.
Outdate(c) ==
  /\ phase[c] = "running"
  /\ serving[c] # connection[c]
  /\ phase' = [phase EXCEPT ![c] = "leaving"]
  /\ UNCHANGED <<serving, connection>>

Close(c) ==
  /\ phase[c] \in {"leaving", "stopping"}
  /\ phase' = [phase EXCEPT ![c] = "stopped"]
  /\ serving' = [serving EXCEPT ![c] = Unusable]
  /\ UNCHANGED connection

\* The camera row is edited, disabled or enabled by somebody else.
Reconnect(c, r) ==
  /\ connection' = [connection EXCEPT ![c] = r]
  /\ UNCHANGED <<phase, serving>>

ServiceNext ==
  \E c \in Camera :
    \/ \E r \in Revision : Open(c, r) \/ Reconnect(c, r)
    \/ BeginStop(c) \/ Outdate(c) \/ Close(c)

ServiceSpec == ServiceInit /\ [][ServiceNext]_serviceVars
=============================================================================
