--------------------------- MODULE CameraRecorder ---------------------------
(***************************************************************************)
(* RecorderManager and CameraWorker (services/recorder_manager.py): the    *)
(* lifecycle of the long-lived FFmpeg behind each camera.                  *)
(*                                                                         *)
(* One CameraWorker object (here: a member of Worker) is created per start *)
(* that finds no running recorder. Its task loops: check the connection    *)
(* revision, spawn FFmpeg, wait for it, report the failure, back off. The  *)
(* manager serialises start and stop of all cameras under one asyncio.Lock *)
(* held across the awaits of CameraWorker.stop. A step of the model is the *)
(* code between two awaits; FFmpeg itself, the database row and the HTTP   *)
(* or scheduler callers move between any two of them.                      *)
(***************************************************************************)
EXTENDS Naturals, FiniteSets

CONSTANTS
  Camera,       \* cameras with a row in the database
  Worker,       \* CameraWorker objects, allocated one per effective start
  Caller,       \* coroutines that call the RecorderManager
  None,         \* "no worker", "no caller", "no camera"
  MaxRevision,  \* bound: last connection revision of a camera
  MaxRequests,  \* bound: start/stop/restart requests issued in a behaviour
  MaxUnknown    \* bound: failed revision checks per worker

ASSUME BoundsAssumption ==
  /\ MaxRevision \in Nat \ {0}
  /\ MaxRequests \in Nat
  /\ MaxUnknown \in Nat
ASSUME NoneAssumption == None \notin Worker \cup Caller \cup Camera

Revision == 0 .. MaxRevision

VARIABLES
  enabled,        \* [Camera -> BOOLEAN]   Camera.enabled
  revision,       \* [Camera -> Revision]  CameraConnection.revision
  worker,         \* RecorderManager.workers
  lock,           \* RecorderManager._lock: the caller holding it
  call,           \* what each caller is doing
  issued,         \* requests issued so far (bound)
  owner,          \* CameraWorker.camera.id
  expected,       \* CameraWorker.camera.connection_revision
  pc,             \* where the task of the worker is suspended
  stopRequested,  \* CameraWorker.stop_requested
  state,          \* CameraWorker.state
  process,        \* CameraWorker.process is not None
  ffmpeg,         \* workers whose FFmpeg process is alive
  raced,          \* history: workers asked to stop between loop test and spawn
  outdated,       \* history: FFmpegs spawned on a superseded revision
  unknown         \* history: revision checks that failed

rowVars == <<enabled, revision>>
managerVars == <<worker, lock, call, issued>>
taskVars == <<pc, state, process, ffmpeg>>
historyVars == <<raced, outdated, unknown>>
vars == <<rowVars, managerVars, owner, expected, stopRequested, taskVars,
          historyVars>>

-----------------------------------------------------------------------------
\* Suspension points of CameraWorker._run_loop.
Point == {"unused", "ready", "checking", "leaving", "spawning", "recording",
          "spawnFailed", "exited", "done"}
State == {"STOPPED", "STARTING", "RECORDING", "RECONNECTING", "STOPPING"}
Op == {"start", "stop", "restart"}
\* "lock": waiting for the manager's lock; the rest is inside stop().
Inside == {"interrupt", "terminate", "kill", "join"}
At == {"lock"} \cup Inside

Call == [op : Op, camera : Camera, revision : Revision, at : At]
Idle == [op |-> "idle", camera |-> None, revision |-> 0, at |-> "none"]

Live(w) == pc[w] \notin {"unused", "done"}
Running(w) == Live(w) /\ ~stopRequested[w]
\* Mutant: a recorder counts as running only once it has a process.
IsRunningByProcess(c) == worker[c] # None /\ process[worker[c]]

IsRunning(c) == worker[c] # None /\ Running(worker[c])

TypeOK ==
  /\ enabled \in [Camera -> BOOLEAN]
  /\ revision \in [Camera -> Revision]
  /\ worker \in [Camera -> Worker \cup {None}]
  /\ lock \in Caller \cup {None}
  /\ call \in [Caller -> Call \cup {Idle}]
  /\ issued \in 0 .. MaxRequests
  /\ owner \in [Worker -> Camera \cup {None}]
  /\ expected \in [Worker -> Revision]
  /\ pc \in [Worker -> Point]
  /\ stopRequested \in [Worker -> BOOLEAN]
  /\ state \in [Worker -> State]
  /\ process \in [Worker -> BOOLEAN]
  /\ ffmpeg \in SUBSET Worker
  /\ raced \in SUBSET Worker
  /\ outdated \in [Worker -> Nat]
  /\ unknown \in [Worker -> Nat]

Init ==
  /\ enabled = [c \in Camera |-> TRUE]
  /\ revision = [c \in Camera |-> 1]
  /\ worker = [c \in Camera |-> None]
  /\ lock = None
  /\ call = [p \in Caller |-> Idle]
  /\ issued = 0
  /\ owner = [w \in Worker |-> None]
  /\ expected = [w \in Worker |-> 0]
  /\ pc = [w \in Worker |-> "unused"]
  /\ stopRequested = [w \in Worker |-> FALSE]
  /\ state = [w \in Worker |-> "STOPPED"]
  /\ process = [w \in Worker |-> FALSE]
  /\ ffmpeg = {}
  /\ raced = {}
  /\ outdated = [w \in Worker |-> 0]
  /\ unknown = [w \in Worker |-> 0]

-----------------------------------------------------------------------------
(* The database row, written by the camera API.                            *)

EditConnection(c) ==
  /\ revision[c] < MaxRevision
  /\ revision' = [revision EXCEPT ![c] = @ + 1]
  /\ UNCHANGED <<enabled, managerVars, owner, expected, stopRequested,
                 taskVars, historyVars>>

ToggleEnabled(c) ==
  /\ enabled' = [enabled EXCEPT ![c] = ~@]
  /\ UNCHANGED <<revision, managerVars, owner, expected, stopRequested,
                 taskVars, historyVars>>

-----------------------------------------------------------------------------
(* RecorderManager                                                         *)

\* Bound: Worker has an object left for every start already asked for.
SpareWorker ==
  Cardinality({q \in Caller : call[q].op \in {"start", "restart"}})
    < Cardinality({w \in Worker : pc[w] = "unused"})

\* A caller has read the camera row, built the runtime configuration from it
\* and calls start, stop or restart; the first await is the manager's lock.
Request(p, o, c) ==
  /\ call[p] = Idle
  /\ issued < MaxRequests
  /\ o # "stop" => enabled[c] /\ SpareWorker
  /\ call' = [call EXCEPT ![p] =
       [op |-> o, camera |-> c, revision |-> revision[c], at |-> "lock"]]
  /\ issued' = issued + 1
  /\ UNCHANGED <<rowVars, worker, lock, owner, expected, stopRequested,
                 taskVars, historyVars>>

\* Mutant: start() does not take the lock.
StartUnlocked(p) ==
  LET c == call[p].camera IN
  /\ call[p].op = "start" /\ call[p].at = "lock"
  /\ call' = [call EXCEPT ![p] = Idle]
  /\ \/ /\ IsRunning(c)
        /\ UNCHANGED <<worker, owner, expected, stopRequested, taskVars>>
     \/ /\ ~IsRunning(c)
        /\ \E w \in Worker :
             /\ pc[w] = "unused"
             /\ worker' = [worker EXCEPT ![c] = w]
             /\ owner' = [owner EXCEPT ![w] = c]
             /\ expected' = [expected EXCEPT ![w] = call[p].revision]
             /\ pc' = [pc EXCEPT ![w] = "ready"]
             /\ UNCHANGED <<stopRequested, state, process, ffmpeg>>
  /\ UNCHANGED <<rowVars, lock, issued, historyVars>>

\* start(): a running recorder is left alone, else a new worker replaces the
\* old one and its task is scheduled. Nothing is awaited under the lock.
Start(p) ==
  LET c == call[p].camera IN
  /\ call[p].op = "start" /\ call[p].at = "lock" /\ lock = None
  /\ call' = [call EXCEPT ![p] = Idle]
  /\ \/ /\ IsRunning(c)
        /\ UNCHANGED <<worker, owner, expected, stopRequested, taskVars>>
     \/ /\ ~IsRunning(c)
        /\ \E w \in Worker :
             /\ pc[w] = "unused"
             /\ worker' = [worker EXCEPT ![c] = w]
             /\ owner' = [owner EXCEPT ![w] = c]
             /\ expected' = [expected EXCEPT ![w] = call[p].revision]
             /\ pc' = [pc EXCEPT ![w] = "ready"]
             /\ UNCHANGED <<stopRequested, state, process, ffmpeg>>
  /\ UNCHANGED <<rowVars, lock, issued, historyVars>>

\* What is left to the caller when stop() returns: restart() goes on with
\* start(), which has to take the lock again.
Rest(p) == IF call[p].op = "restart"
           THEN [call[p] EXCEPT !.op = "start", !.at = "lock"]
           ELSE Idle

\* stop() up to its first await, the lock having been free.
StopNobody(p) ==
  /\ call[p].op \in {"stop", "restart"} /\ call[p].at = "lock" /\ lock = None
  /\ worker[call[p].camera] = None
  /\ call' = [call EXCEPT ![p] = Rest(p)]
  /\ UNCHANGED <<rowVars, worker, lock, issued, owner, expected,
                 stopRequested, taskVars, historyVars>>

BeginStop(p) ==
  LET w == worker[call[p].camera]
      signalled == process[w] /\ w \in ffmpeg
  IN
  /\ call[p].op \in {"stop", "restart"} /\ call[p].at = "lock" /\ lock = None
  /\ w # None
  /\ stopRequested' = [stopRequested EXCEPT ![w] = TRUE]
  /\ raced' = IF pc[w] \in {"checking", "spawning"} THEN raced \cup {w} ELSE raced
  /\ \/ /\ signalled \/ Live(w)
        /\ lock' = p
        /\ call' = [call EXCEPT ![p].at = IF signalled THEN "interrupt"
                                                       ELSE "join"]
        /\ state' = [state EXCEPT ![w] = "STOPPING"]
        /\ UNCHANGED process
     \/ /\ ~(signalled \/ Live(w))
        /\ call' = [call EXCEPT ![p] = Rest(p)]
        /\ state' = [state EXCEPT ![w] = "STOPPED"]
        /\ process' = [process EXCEPT ![w] = FALSE]
        /\ UNCHANGED lock
  /\ UNCHANGED <<rowVars, worker, issued, owner, expected, pc, ffmpeg,
                 outdated, unknown>>

\* Mutants: terminate() is the last resort; terminate() is trusted blindly.
EscalateTwice(p) ==
  /\ call[p].at = "interrupt"
  /\ worker[call[p].camera] \in ffmpeg
  /\ call' = [call EXCEPT ![p].at = "terminate"]
  /\ UNCHANGED <<rowVars, worker, lock, issued, owner, expected,
                 stopRequested, taskVars, historyVars>>
EscalateBlindly(p) ==
  /\ call[p].at \in {"interrupt", "terminate"}
  /\ worker[call[p].camera] \in ffmpeg
  /\ call' = [call EXCEPT ![p].at = IF @ = "interrupt" THEN "terminate"
                                                      ELSE "join"]
  /\ UNCHANGED <<rowVars, worker, lock, issued, owner, expected,
                 stopRequested, taskVars, historyVars>>

\* 15 s after SIGINT terminate(), 5 s later kill().
Escalate(p) ==
  LET w == worker[call[p].camera] IN
  /\ call[p].at \in {"interrupt", "terminate"}
  /\ w \in ffmpeg
  /\ call' = [call EXCEPT ![p].at =
                IF @ = "interrupt" THEN "terminate" ELSE "kill"]
  /\ UNCHANGED <<rowVars, worker, lock, issued, owner, expected,
                 stopRequested, taskVars, historyVars>>

\* The end of stop(): the lock is released with the worker marked STOPPED.
FinishStop(p) ==
  LET w == worker[call[p].camera] IN
  /\ lock' = None
  /\ call' = [call EXCEPT ![p] = Rest(p)]
  /\ process' = [process EXCEPT ![w] = FALSE]
  /\ state' = [state EXCEPT ![w] = "STOPPED"]

\* stop() resumes after process.wait(): the task is given 5 s to finish.
ProcessGone(p) ==
  LET w == worker[call[p].camera] IN
  /\ call[p].at \in {"interrupt", "terminate", "kill"}
  /\ w \notin ffmpeg
  /\ \/ /\ Live(w)
        /\ call' = [call EXCEPT ![p].at = "join"]
        /\ UNCHANGED <<lock, state, process>>
     \/ ~Live(w) /\ FinishStop(p)
  /\ UNCHANGED <<rowVars, worker, issued, owner, expected, stopRequested,
                 pc, ffmpeg, historyVars>>

Joined(p) ==
  /\ call[p].at = "join"
  /\ ~Live(worker[call[p].camera])
  /\ FinishStop(p)
  /\ UNCHANGED <<rowVars, worker, issued, owner, expected, stopRequested,
                 pc, ffmpeg, historyVars>>

\* wait_for gave up: the task is cancelled wherever it is suspended. A
\* cancelled spawn kills its child; a cancelled process.wait() does not.
JoinTimeout(p) ==
  LET w == worker[call[p].camera] IN
  /\ call[p].at = "join"
  /\ Live(w)
  /\ pc' = [pc EXCEPT ![w] = "done"]
  /\ FinishStop(p)
  /\ UNCHANGED <<rowVars, worker, issued, owner, expected, stopRequested,
                 ffmpeg, historyVars>>

-----------------------------------------------------------------------------
(* CameraWorker._run_loop                                                  *)

workerUnchanged == UNCHANGED <<rowVars, managerVars, owner, expected,
                               stopRequested>>

\* Mutant: the task ends with a state nobody knows.
LeaveUnnamed(w) ==
  /\ pc' = [pc EXCEPT ![w] = "done"]
  /\ state' = [state EXCEPT ![w] = "STALE"]

Leave(w) ==
  /\ pc' = [pc EXCEPT ![w] = "done"]
  /\ state' = [state EXCEPT ![w] = "STOPPED"]

\* The while test, on the first run of the task and after each back-off.
Loop(w) ==
  /\ pc[w] = "ready"
  /\ \/ stopRequested[w] /\ Leave(w)
     \/ /\ ~stopRequested[w]
        /\ pc' = [pc EXCEPT ![w] = "checking"]
        /\ \E s \in {"STARTING", "RECONNECTING"} :
             state' = [state EXCEPT ![w] = s]
  /\ UNCHANGED <<process, ffmpeg, historyVars>> /\ workerUnchanged

\* Mutant: only a disabled camera is stale.
IsStaleIfDisabled(w) == ~enabled[owner[w]]

IsStale(w) == ~enabled[owner[w]] \/ revision[owner[w]] # expected[w]

\* connection_revision_state() reads the row; the verdict is acted on later.
CheckRevision(w) ==
  /\ pc[w] = "checking"
  /\ pc' = [pc EXCEPT ![w] = IF IsStale(w) THEN "leaving" ELSE "spawning"]
  /\ UNCHANGED <<state, process, ffmpeg, historyVars>> /\ workerUnchanged

\* The read raised: "unknown", and the worker carries on.
CheckFails(w) ==
  /\ pc[w] = "checking"
  /\ unknown[w] < MaxUnknown
  /\ pc' = [pc EXCEPT ![w] = "spawning"]
  /\ unknown' = [unknown EXCEPT ![w] = @ + 1]
  /\ UNCHANGED <<state, process, ffmpeg, raced, outdated>> /\ workerUnchanged

\* Mutant: a stale worker tries again instead of leaving.
LeaveStaleLater(w) ==
  /\ pc[w] = "leaving"
  /\ pc' = [pc EXCEPT ![w] = "ready"]
  /\ UNCHANGED <<state, process, ffmpeg, historyVars>> /\ workerUnchanged

LeaveStale(w) ==
  /\ pc[w] = "leaving"
  /\ Leave(w)
  /\ UNCHANGED <<process, ffmpeg, historyVars>> /\ workerUnchanged

\* create_subprocess_exec returned. Nothing is tested again on the way.
Spawn(w) ==
  /\ pc[w] = "spawning"
  /\ pc' = [pc EXCEPT ![w] = "recording"]
  /\ state' = [state EXCEPT ![w] = "RECORDING"]
  /\ process' = [process EXCEPT ![w] = TRUE]
  /\ ffmpeg' = ffmpeg \cup {w}
  /\ outdated' = IF revision[owner[w]] # expected[w]
                 THEN [outdated EXCEPT ![w] = @ + 1] ELSE outdated
  /\ UNCHANGED <<raced, unknown>> /\ workerUnchanged

SpawnFails(w) ==
  /\ pc[w] = "spawning"
  /\ pc' = [pc EXCEPT ![w] = "spawnFailed"]
  /\ UNCHANGED <<state, process, ffmpeg, historyVars>> /\ workerUnchanged

\* Mutant: the reported state survives the process.
ReapQuietly(w) ==
  /\ pc[w] = "recording"
  /\ w \notin ffmpeg
  /\ process' = [process EXCEPT ![w] = FALSE]
  /\ pc' = [pc EXCEPT ![w] = IF stopRequested[w] THEN "done" ELSE "exited"]
  /\ UNCHANGED <<state, ffmpeg, historyVars>> /\ workerUnchanged

\* process.wait() and the stderr reader returned.
Reap(w) ==
  /\ pc[w] = "recording"
  /\ w \notin ffmpeg
  /\ process' = [process EXCEPT ![w] = FALSE]
  /\ \/ stopRequested[w] /\ Leave(w)
     \/ /\ ~stopRequested[w]
        /\ pc' = [pc EXCEPT ![w] = "exited"]
        /\ state' = [state EXCEPT ![w] = "RECONNECTING"]
  /\ UNCHANGED <<ffmpeg, historyVars>> /\ workerUnchanged

\* The failure has been logged and counted; sleep(delay), unless a spawn
\* failure finds the worker stopped.
Report(w) ==
  /\ pc[w] \in {"spawnFailed", "exited"}
  /\ \/ pc[w] = "spawnFailed" /\ stopRequested[w] /\ Leave(w)
     \/ /\ ~(pc[w] = "spawnFailed" /\ stopRequested[w])
        /\ pc' = [pc EXCEPT ![w] = "ready"]
        /\ UNCHANGED state
  /\ UNCHANGED <<process, ffmpeg, historyVars>> /\ workerUnchanged

\* FFmpeg exits: a signal, a lost camera, a full disk.
Exit(w) ==
  /\ w \in ffmpeg
  /\ ffmpeg' = ffmpeg \ {w}
  /\ UNCHANGED <<pc, state, process, historyVars>> /\ workerUnchanged

-----------------------------------------------------------------------------
RowNext == \E c \in Camera : EditConnection(c) \/ ToggleEnabled(c)

ManagerStep(p) ==
  \/ Start(p) \/ StopNobody(p) \/ BeginStop(p) \/ Escalate(p)
  \/ ProcessGone(p) \/ Joined(p) \/ JoinTimeout(p)

ManagerNext ==
  \E p \in Caller :
    \/ ManagerStep(p)
    \/ \E o \in Op, c \in Camera : Request(p, o, c)

\* What the task of a worker does by itself, FFmpeg aside.
TaskStep(w) ==
  \/ Loop(w) \/ CheckRevision(w) \/ CheckFails(w) \/ LeaveStale(w)
  \/ Spawn(w) \/ SpawnFails(w) \/ Reap(w) \/ Report(w)

TaskNext == \E w \in Worker : TaskStep(w) \/ Exit(w)

Next == RowNext \/ ManagerNext \/ TaskNext

\* SIGKILL cannot be refused.
Killed(p) == call[p].at = "kill" /\ Exit(worker[call[p].camera])

(***************************************************************************)
(* The event loop runs every ready task (WF on the task and on what stop   *)
(* does once it has the lock, timeouts included); asyncio.Lock is FIFO, so *)
(* a waiter is not overtaken for ever (SF on entering). Nothing obliges an *)
(* FFmpeg to exit unless it is killed, nor a caller to call.               *)
(***************************************************************************)
Fairness ==
  /\ \A w \in Worker : WF_vars(TaskStep(w))
  /\ \A p \in Caller :
       /\ SF_vars(Start(p) \/ StopNobody(p) \/ BeginStop(p))
       /\ WF_vars(Escalate(p) \/ ProcessGone(p) \/ Joined(p) \/ JoinTimeout(p))
       /\ WF_vars(Killed(p))

Spec == Init /\ [][Next]_vars
FairSpec == Spec /\ Fairness

-----------------------------------------------------------------------------
(* Properties                                                              *)

\* A camera never has two live worker tasks: whatever order starts, stops
\* and restarts arrive in, the only task alive is the registered worker's.
OneTaskPerCamera ==
  \A w \in Worker : Live(w) => owner[w] # None /\ worker[owner[w]] = w

\* An FFmpeg outlives its supervising task only when the stop request came
\* after the worker's loop test and before its spawn returned: any other
\* stop, timed out or not, leaves nothing behind.
OrphanOnlyFromRace ==
  \A w \in ffmpeg : Live(w) \/ w \in raced

\* The doc's promise, and the code's: one FFmpeg per camera at a time.
OneFfmpegPerCamera ==
  \A v, w \in ffmpeg : owner[v] = owner[w] => v = w

\* What the state machine reports is backed by a process: RECORDING means a
\* process handle, and a worker that has ended reports STOPPED, no handle.
StatusHonest ==
  \A w \in Worker :
    /\ state[w] = "RECORDING" => process[w]
    /\ pc[w] = "done" => state[w] = "STOPPED" /\ ~process[w]

\* After its connection was edited a worker spawns FFmpeg on the old
\* revision at most once, plus once for each revision check that failed.
OutdatedSpawnsBounded ==
  \A w \in Worker : outdated[w] <= 1 + unknown[w]

\* Every start, stop and restart is answered, however FFmpeg behaves.
CallsReturn == \A p \in Caller : call[p] # Idle ~> call[p] = Idle

\* A worker backing off on a superseded revision stops by itself once the
\* database can be read.
StaleWorkerLeaves ==
  \A w \in Worker :
    pc[w] = "ready" /\ owner[w] # None /\ expected[w] < revision[owner[w]]
      /\ unknown[w] = MaxUnknown
    ~> ~Live(w)

\* The session of a camera: worker objects, lock and processes left out.
PhaseOf(c) ==
  IF worker[c] = None \/ ~Live(worker[c]) THEN "stopped"
  ELSE IF stopRequested[worker[c]] THEN "stopping"
  ELSE IF pc[worker[c]] = "leaving" THEN "leaving"
  ELSE "running"
ServingOf(c) == IF worker[c] = None \/ ~Live(worker[c]) THEN 0
                ELSE expected[worker[c]]
ConnectionOf(c) == IF enabled[c] THEN revision[c] ELSE 0

Service == INSTANCE RecorderService WITH
  phase <- [c \in Camera |-> PhaseOf(c)],
  serving <- [c \in Camera |-> ServingOf(c)],
  connection <- [c \in Camera |-> ConnectionOf(c)]

\* Workers, lock, timeouts and processes add up to the promise the callers
\* rely on: a session opens only after the last one has ended, keeps its
\* revision, and ends only when asked to or when its connection moved on.
ImplementsService == Service!ServiceSpec
=============================================================================
