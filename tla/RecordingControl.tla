-------------------------- MODULE RecordingControl --------------------------
(***************************************************************************)
(* Who decides that a camera records: the schedule manager                 *)
(* (services/recording_schedule_manager.py), the runtime coordinator that  *)
(* reloads a camera after an edit (services/camera_runtime_coordinator.py) *)
(* and the camera API (api/cameras.py), above the recorder.                *)
(*                                                                         *)
(* All of it runs on one asyncio loop. A task runs until it really has to  *)
(* wait; cpu names the task in the middle of such a stretch, so that the   *)
(* short actions below are atomic where the code has no await. The         *)
(* recorder is RecorderService, and the manager's asyncio.Lock is its      *)
(* queue: the holder is the one task waiting for a stop to complete.       *)
(***************************************************************************)
EXTENDS Naturals, Sequences, FiniteSets

CONSTANTS
  Camera,       \* identities of the cameras
  Caller,       \* coroutines of API requests
  Poll,         \* the schedule manager's own task
  None,         \* "no task", "no camera"
  Probed,       \* cameras whose stream parameters allow recording
  Requests,     \* kinds of API request issued in this instance
  MaxRequests,  \* bound: API requests in a behaviour
  MaxTicks      \* bound: schedule boundaries crossed, per camera

ASSUME ControlAssumption ==
  /\ Probed \subseteq Camera
  /\ Poll \notin Caller /\ None \notin Caller \cup Camera \cup {Poll}
  /\ MaxRequests \in Nat /\ MaxTicks \in Nat

Task == Caller \cup {Poll}
Revision == Nat

\* The row: deleted; disabled; enabled, with or without automatic recording.
Policy == {"gone", "disabled", "manual", "auto"}

VARIABLES
  policy,         \* [Camera -> Policy]  enabled and auto_record of the row
  window,         \* [Camera -> BOOLEAN] the weekly plan allows recording now
  revision,       \* [Camera -> Revision] connection revision of the row
  phase,          \* recorder sessions, as in RecorderService
  serving,        \* connection revision of each open session
  managed,        \* _managed: started by the schedule
  manualRunning,  \* _manual_running: started by a user
  manualPaused,   \* _manual_paused: stopped by a user for this window
  task,           \* what each task is doing
  queue,          \* waiters of RecorderManager._lock, in order
  cpu,            \* task between two awaits, or None
  issued,         \* API requests so far (bound)
  ticks,          \* schedule boundaries so far, per camera (bound)
  stopAsked,      \* history: cameras a user asked to stop
  reloaded,       \* history: cameras edited, switched or deleted
  replanned,      \* history: cameras in a batch change of the plan
  crossed         \* history: cameras one pass met while another stopped them

rowVars == <<policy, window, revision>>
recorderVars == <<phase, serving>>
ownerVars == <<managed, manualRunning, manualPaused>>
askedVars == <<issued, ticks, stopAsked, reloaded, replanned>>
boundVars == <<askedVars, crossed>>
vars == <<rowVars, recorderVars, ownerVars, task, queue, cpu, boundVars>>

Recorder == INSTANCE RecorderService WITH
  connection <- [c \in Camera |->
                   IF policy[c] \in {"gone", "disabled"} THEN 0 ELSE revision[c]]

IsRunning(c) == Recorder!IsRunning(c)

-----------------------------------------------------------------------------
\* Where a task may be suspended, or about to go on.
Point == {"idle", "snapshot", "teardown", "detach", "commit", "erase",
          "restore", "capability", "reset", "load", "visit", "settle", "ring",
          "lock", "queued", "stopping", "again", "noteStart", "noteStop",
          "own", "disown"}
Kind == {"start", "stop", "restart", "edit", "switch", "delete", "batch"}
Owner == {"manual", "schedule", "nobody"}
Row == [policy : Policy, window : BOOLEAN, revision : Revision]
NoView == [c \in Camera |-> [policy |-> "gone", window |-> FALSE, revision |-> 0]]

\* The locals of a task: the request, its camera, the snapshot stop_all took,
\* the rows a reconcile pass loaded and the cameras it has yet to visit.
Local == [kind : Kind \cup {"none"}, camera : Camera \cup {None}, at : Point,
          op : {"start", "stop", "none"}, then : Point, config : Revision,
          was : BOOLEAN, owner : Owner, sched : BOOLEAN,
          view : [Camera -> Row], todo : SUBSET Camera]
Idle == [kind |-> "none", camera |-> None, at |-> "idle", op |-> "none",
         then |-> "idle", config |-> 0, was |-> FALSE, owner |-> "nobody",
         sched |-> FALSE, view |-> NoView, todo |-> {}]

TypeOK ==
  /\ policy \in [Camera -> Policy]
  /\ window \in [Camera -> BOOLEAN]
  /\ revision \in [Camera -> Revision]
  /\ Recorder!ServiceTypeOK
  /\ managed \in SUBSET Camera
  /\ manualRunning \in SUBSET Camera
  /\ manualPaused \in SUBSET Camera
  /\ task \in [Task -> Local]
  /\ queue \in Seq(Task)
  /\ cpu \in Task \cup {None}
  /\ issued \in 0 .. MaxRequests
  /\ ticks \in [Camera -> 0 .. MaxTicks]
  /\ stopAsked \in SUBSET Camera
  /\ reloaded \in SUBSET Camera
  /\ replanned \in SUBSET Camera
  /\ crossed \in SUBSET Camera

Init ==
  /\ policy \in [Camera -> Policy]
  /\ window \in [Camera -> BOOLEAN]
  /\ revision = [c \in Camera |-> 1]
  /\ phase = [c \in Camera |-> "stopped"]
  /\ serving = [c \in Camera |-> 0]
  /\ managed = {} /\ manualRunning = {} /\ manualPaused = {}
  /\ task = [t \in Task |-> Idle]
  /\ queue = <<>>
  /\ cpu = None
  /\ issued = 0
  /\ ticks = [c \in Camera |-> 0]
  /\ stopAsked = {} /\ reloaded = {} /\ replanned = {} /\ crossed = {}

-----------------------------------------------------------------------------
(* The loop: t goes on without awaiting, or waits.                         *)

Runs(t, point) == cpu \in {None, t} /\ task[t].at = point
Continue(t, local) == task' = [task EXCEPT ![t] = local] /\ cpu' = t
Await(t, local) == task' = [task EXCEPT ![t] = local] /\ cpu' = None

\* The locals of t once its lock-protected call is set up.
Call(t, op, then, point) ==
  [task[t] EXCEPT !.op = op, !.then = then, !.at = point]

Free == \A u \in Task : task[u].at # "stopping"

-----------------------------------------------------------------------------
(* RecorderManager, as its callers see it                                  *)

\* acquire() has to wait: the lock is held, or somebody is waiting already.
Queue(t) ==
  /\ Runs(t, "lock")
  /\ ~(Free /\ queue = <<>>)
  /\ queue' = Append(queue, t)
  /\ Await(t, [task[t] EXCEPT !.at = "queued"])
  /\ UNCHANGED <<rowVars, recorderVars, ownerVars, boundVars>>

Acquire(t) ==
  /\ Free
  /\ \/ Runs(t, "lock") /\ queue = <<>> /\ queue' = queue
     \/ /\ Runs(t, "queued") /\ queue # <<>> /\ Head(queue) = t
        /\ queue' = Tail(queue)

\* RecorderManager.start: nothing is awaited once the lock is taken.
StartRecorder(t) ==
  LET c == task[t].camera IN
  /\ task[t].op = "start"
  /\ Acquire(t)
  /\ UNCHANGED <<rowVars, ownerVars, boundVars>>
  /\ \/ IsRunning(c) /\ UNCHANGED recorderVars
     \/ ~IsRunning(c) /\ Recorder!Open(c, task[t].config)
  /\ Continue(t, [task[t] EXCEPT !.at = task[t].then])

\* RecorderManager.stop: awaits the process and the worker under the lock.
StopRecorder(t) ==
  LET c == task[t].camera IN
  /\ task[t].op = "stop"
  /\ Acquire(t)
  /\ UNCHANGED <<rowVars, ownerVars, boundVars>>
  /\ \/ /\ IsRunning(c)
        /\ Recorder!BeginStop(c)
        /\ Await(t, [task[t] EXCEPT !.at = "stopping"])
     \/ /\ ~IsRunning(c)
        /\ UNCHANGED recorderVars
        /\ Continue(t, [task[t] EXCEPT !.at = task[t].then])

StopReturns(t) ==
  /\ Runs(t, "stopping")
  /\ UNCHANGED <<rowVars, ownerVars, queue, boundVars>>
  /\ Recorder!Close(task[t].camera)
  /\ Continue(t, [task[t] EXCEPT !.at = task[t].then])

\* start_regular_recorder stops the event ring before it takes the lock.
RingStopped(t) ==
  /\ Runs(t, "ring")
  /\ Continue(t, [task[t] EXCEPT !.at = "lock"])
  /\ UNCHANGED <<rowVars, recorderVars, ownerVars, queue, boundVars>>

\* CameraWorker finds its connection superseded, and ends by itself.
RecorderLeaves(c) ==
  /\ cpu = None
  /\ UNCHANGED <<rowVars, ownerVars, task, queue, cpu, boundVars>>
  /\ Recorder!Outdate(c)

RecorderGone(c) ==
  /\ cpu = None /\ phase[c] = "leaving"
  /\ UNCHANGED <<rowVars, ownerVars, task, queue, cpu, boundVars>>
  /\ Recorder!Close(c)

-----------------------------------------------------------------------------
(* RecordingScheduleManager                                                *)

clearOverride(c) ==
  /\ managed' = managed \ {c}
  /\ manualRunning' = manualRunning \ {c}
  /\ manualPaused' = manualPaused \ {c}

\* Mutant: a third owner.
recordingOwnerUser(c) == IF c \in manualRunning THEN "user" ELSE "nobody"

recordingOwner(c) == IF c \in manualRunning THEN "manual"
                     ELSE IF c \in managed THEN "schedule" ELSE "nobody"

resetForScheduleChange(C) ==
  /\ manualRunning' = manualRunning \ C
  /\ manualPaused' = manualPaused \ C
  /\ managed' = managed \cup {c \in C : IsRunning(c)}

\* The poll interval has passed.
Wake ==
  /\ Runs(Poll, "idle")
  /\ Await(Poll, [Idle EXCEPT !.at = "load"])
  /\ UNCHANGED <<rowVars, recorderVars, ownerVars, queue, boundVars>>

\* Mutant: what the schedule owns needs no visit.
LoadRowsUnowned(t) ==
  LET known == {c \in Camera : policy[c] # "gone"} IN
  /\ Runs(t, "load")
  /\ managed' = managed \cap known
  /\ manualRunning' = manualRunning \cap known
  /\ manualPaused' = manualPaused \cap known
  /\ Continue(t, [Idle EXCEPT
       !.at = "visit", !.todo = known \ managed,
       !.view = [c \in Camera |-> [policy |-> policy[c], window |-> window[c],
                                   revision |-> revision[c]]]])
  /\ UNCHANGED <<rowVars, recorderVars, queue, boundVars>>

\* reconcile() has read the clock and every row; what it does from here on
\* it does by this view of them.
LoadRows(t) ==
  LET known == {c \in Camera : policy[c] # "gone"} IN
  /\ Runs(t, "load")
  /\ managed' = managed \cap known
  /\ manualRunning' = manualRunning \cap known
  /\ manualPaused' = manualPaused \cap known
  /\ Continue(t, [Idle EXCEPT
       !.at = "visit", !.todo = known,
       !.view = [c \in Camera |-> [policy |-> policy[c], window |-> window[c],
                                   revision |-> revision[c]]]])
  /\ UNCHANGED <<rowVars, recorderVars, queue, boundVars>>

\* Mutant: a disabled camera loses its owner, and goes on.
VisitClears(t, c) ==
  /\ Runs(t, "visit") /\ c \in task[t].todo
  /\ IF task[t].view[c].policy = "disabled" THEN clearOverride(c)
                                            ELSE UNCHANGED ownerVars
  /\ Continue(t, [task[t] EXCEPT !.camera = c, !.todo = @ \ {c},
                                 !.at = "settle"])
  /\ UNCHANGED <<rowVars, recorderVars, queue, boundVars>>

\* _reconcile_camera, the disabled camera first.
Visit(t, c) ==
  /\ Runs(t, "visit") /\ c \in task[t].todo
  /\ LET local == [task[t] EXCEPT !.camera = c, !.todo = @ \ {c},
                                  !.at = "settle"]
     IN
     \/ /\ task[t].view[c].policy = "disabled"
        /\ clearOverride(c)
        /\ Continue(t, IF IsRunning(c)
                       THEN [local EXCEPT !.op = "stop", !.then = "settle",
                                          !.at = "lock"]
                       ELSE local)
     \/ /\ task[t].view[c].policy # "disabled"
        /\ Continue(t, local)
        /\ UNCHANGED ownerVars
  /\ UNCHANGED <<rowVars, recorderVars, queue, boundVars>>

auto_eligible(row) == row.policy = "auto" /\ row.window

\* A schedule-owned recorder found stopped is taken for a user's stop.
takenForStop(c, row) == c \in managed /\ ~IsRunning(c) /\ auto_eligible(row)

\* A pass is stopping c, because its window was over when the pass began.
stoppedByPass(c) ==
  \E u \in Task : task[u].camera = c /\ task[u].at = "stopping" /\ task[u].then = "disown"

\* Mutant: leaving the window releases nothing.
pausedForGood(c, row) == IF takenForStop(c, row) THEN manualPaused \cup {c}
                                                 ELSE manualPaused

\* A pause is released outside the window.
pausedAfter(c, row) == IF ~row.window THEN manualPaused \ {c}
                       ELSE IF takenForStop(c, row) THEN manualPaused \cup {c}
                       ELSE manualPaused

\* The rest of _reconcile_camera: start, stop or leave alone.
Settle(t) ==
  LET c == task[t].camera
      row == task[t].view[c]
      eligible == auto_eligible(row)
      automatic == c \notin manualRunning \cup manualPaused'
      seen == [task[t] EXCEPT !.view[c] = NoView[c], !.op = "none",
                              !.then = "idle"]
  IN
  /\ Runs(t, "settle")
  /\ managed' = IF takenForStop(c, row) THEN managed \ {c} ELSE managed
  /\ manualPaused' = pausedAfter(c, row)
  /\ crossed' = IF takenForStop(c, row) /\ stoppedByPass(c) THEN crossed \cup {c} ELSE crossed
  /\ \/ /\ automatic /\ eligible /\ ~IsRunning(c) /\ c \in Probed
        /\ Await(t, [seen EXCEPT !.op = "start", !.then = "own", !.at = "ring",
                                 !.config = row.revision])
     \/ /\ automatic /\ ~eligible /\ IsRunning(c) /\ c \in managed'
        /\ Continue(t, [seen EXCEPT !.op = "stop", !.then = "disown",
                                    !.at = "lock"])
     \/ /\ ~(automatic /\ eligible /\ ~IsRunning(c) /\ c \in Probed)
        /\ ~(automatic /\ ~eligible /\ IsRunning(c) /\ c \in managed')
        /\ Continue(t, [seen EXCEPT !.camera = None, !.at = "visit"])
  /\ UNCHANGED <<rowVars, recorderVars, manualRunning, queue, askedVars>>

\* The automatic start, or stop, has returned; on to the next camera.
NextVisit(t) == [Call(t, "none", "idle", "visit") EXCEPT !.camera = None,
                                                         !.config = 0]

\* Mutant: what the schedule starts is not remembered.
OwnNothing(t) ==
  /\ Runs(t, "own")
  /\ Continue(t, NextVisit(t))
  /\ UNCHANGED <<rowVars, recorderVars, ownerVars, queue, boundVars>>

Own(t) ==
  /\ Runs(t, "own")
  /\ managed' = managed \cup {task[t].camera}
  /\ Continue(t, NextVisit(t))
  /\ UNCHANGED <<rowVars, recorderVars, manualRunning, manualPaused, queue,
                 boundVars>>

Disown(t) ==
  /\ Runs(t, "disown")
  /\ managed' = managed \ {task[t].camera}
  /\ Continue(t, NextVisit(t))
  /\ UNCHANGED <<rowVars, recorderVars, manualRunning, manualPaused, queue,
                 boundVars>>

EndPass(t) ==
  /\ Runs(t, "visit") /\ task[t].todo = {}
  /\ Await(t, Idle)
  /\ UNCHANGED <<rowVars, recorderVars, ownerVars, queue, boundVars>>

-----------------------------------------------------------------------------
(* CameraRuntimeCoordinator: stop_all, then the row is written, restore.   *)

\* stop_all notes what has to be resumed before it awaits anything.
Snapshot(t) ==
  LET c == task[t].camera IN
  /\ Runs(t, "snapshot")
  /\ Await(t, [task[t] EXCEPT !.was = IsRunning(c), !.owner = recordingOwner(c),
                              !.at = "teardown"])
  /\ UNCHANGED <<rowVars, recorderVars, ownerVars, queue, boundVars>>

\* Previews, detector and event ring are down.
TornDown(t) ==
  /\ Runs(t, "teardown")
  /\ Continue(t, IF task[t].was THEN Call(t, "stop", "detach", "lock")
                 ELSE [task[t] EXCEPT !.at = "detach"])
  /\ UNCHANGED <<rowVars, recorderVars, ownerVars, queue, boundVars>>

\* detach_for_runtime_reload, or forget for a deletion.
Detach(t) ==
  LET c == task[t].camera
      local == Call(t, "none", "idle", "idle")
  IN
  /\ Runs(t, "detach")
  /\ \/ /\ task[t].kind = "delete"
        /\ clearOverride(c)
        /\ Await(t, [local EXCEPT !.at = "erase"])
     \/ /\ task[t].kind # "delete"
        /\ managed' = managed \ {c}
        /\ UNCHANGED <<manualRunning, manualPaused>>
        /\ Await(t, [local EXCEPT !.at = IF task[t].kind = "switch"
                                         THEN "commit" ELSE "restore"])
  /\ UNCHANGED <<rowVars, recorderVars, queue, boundVars>>

\* The plan part of an edit: enabled, auto_record and the weekly plan.
WritePlan(c, sched) ==
  IF sched
  THEN \E p \in Policy \ {"gone"}, w \in BOOLEAN :
         /\ policy' = [policy EXCEPT ![c] = p]
         /\ window' = [window EXCEPT ![c] = w]
  ELSE UNCHANGED <<policy, window>>

\* An adapter switch writes the row between stop_all and restore, or rolls
\* back; it restores either way.
SwitchCommit(t) ==
  LET c == task[t].camera IN
  /\ Runs(t, "commit")
  /\ \/ UNCHANGED rowVars
     \/ /\ policy[c] # "gone"
        /\ revision' = [revision EXCEPT ![c] = @ + 1]
        /\ WritePlan(c, task[t].sched)
  /\ Await(t, [task[t] EXCEPT !.at = "restore"])
  /\ UNCHANGED <<recorderVars, ownerVars, queue, boundVars>>

Erase(t) ==
  /\ Runs(t, "erase")
  /\ policy' = [policy EXCEPT ![task[t].camera] = "gone"]
  /\ Await(t, Idle)
  /\ UNCHANGED <<window, revision, recorderVars, ownerVars, queue, boundVars>>

\* restore() has read the row again.
Restore(t) ==
  LET c == task[t].camera IN
  /\ Runs(t, "restore")
  /\ \/ policy[c] = "gone" /\ Await(t, Idle) /\ UNCHANGED ownerVars
     \/ policy[c] = "disabled" /\ Await(t, Idle) /\ clearOverride(c)
     \/ /\ policy[c] \in {"manual", "auto"}
        /\ Await(t, [task[t] EXCEPT !.at = "capability",
                                    !.config = revision[c]])
        /\ UNCHANGED ownerVars
  /\ UNCHANGED <<rowVars, recorderVars, queue, boundVars>>

\* The adapter has been found unavailable, or available: a user's recorder
\* is started again, anything else is the schedule's.
Capability(t) ==
  LET c == task[t].camera
      users == task[t].owner = "manual" /\ task[t].was /\ ~task[t].sched
  IN
  /\ Runs(t, "capability")
  /\ \/ Await(t, Idle) /\ UNCHANGED ownerVars
     \/ users /\ Await(t, Call(t, "start", "noteStart", "ring"))
        /\ UNCHANGED ownerVars
     \/ /\ ~users
        /\ Await(t, [Idle EXCEPT !.at = "load"])
        /\ IF task[t].sched THEN resetForScheduleChange({c})
                            ELSE UNCHANGED ownerVars
  /\ UNCHANGED <<rowVars, recorderVars, queue, boundVars>>

-----------------------------------------------------------------------------
(* The camera API. A request starts once its row has been read.            *)

Arrives(t, k) ==
  /\ cpu = None /\ t \in Caller /\ task[t] = Idle
  /\ k \in Requests /\ issued < MaxRequests
  /\ issued' = issued + 1
  /\ UNCHANGED <<ticks, crossed>>

Asked(k, c) == [Idle EXCEPT !.kind = k, !.camera = c]

RequestStart(t, c) ==
  /\ Arrives(t, "start")
  /\ policy[c] \in {"manual", "auto"} /\ c \in Probed
  /\ Await(t, [Asked("start", c) EXCEPT !.op = "start", !.then = "noteStart",
                 !.at = "ring", !.config = revision[c]])
  /\ UNCHANGED <<rowVars, recorderVars, ownerVars, queue, stopAsked, reloaded,
                 replanned>>

RequestStop(t, c) ==
  /\ Arrives(t, "stop")
  /\ policy[c] # "gone"
  /\ Continue(t, [Asked("stop", c) EXCEPT !.op = "stop", !.then = "noteStop",
                                          !.at = "lock"])
  /\ stopAsked' = stopAsked \cup {c}
  /\ UNCHANGED <<rowVars, recorderVars, ownerVars, queue, reloaded, replanned>>

\* RecorderManager.restart is stop and then start, the lock taken twice.
RequestRestart(t, c) ==
  /\ Arrives(t, "restart")
  /\ policy[c] \in {"manual", "auto"} /\ c \in Probed
  /\ Continue(t, [Asked("restart", c) EXCEPT !.op = "stop", !.then = "again",
                    !.at = "lock", !.config = revision[c]])
  /\ UNCHANGED <<rowVars, recorderVars, ownerVars, queue, stopAsked, reloaded,
                 replanned>>

\* update_camera, update_unified_camera without a switch: commit, then reload.
RequestEdit(t, c) ==
  /\ Arrives(t, "edit")
  /\ policy[c] # "gone"
  /\ \E sched \in BOOLEAN :
       /\ WritePlan(c, sched)
       /\ Await(t, [Asked("edit", c) EXCEPT !.sched = sched, !.at = "snapshot"])
  /\ \/ revision' = [revision EXCEPT ![c] = @ + 1]
     \/ UNCHANGED revision
  /\ reloaded' = reloaded \cup {c}
  /\ UNCHANGED <<recorderVars, ownerVars, queue, stopAsked, replanned>>

RequestSwitch(t, c) ==
  /\ Arrives(t, "switch")
  /\ policy[c] # "gone"
  /\ \E sched \in BOOLEAN :
       Await(t, [Asked("switch", c) EXCEPT !.sched = sched, !.at = "snapshot"])
  /\ reloaded' = reloaded \cup {c}
  /\ UNCHANGED <<rowVars, recorderVars, ownerVars, queue, stopAsked, replanned>>

RequestDelete(t, c) ==
  /\ Arrives(t, "delete")
  /\ policy[c] # "gone"
  /\ Await(t, [Asked("delete", c) EXCEPT !.at = "snapshot"])
  /\ reloaded' = reloaded \cup {c}
  /\ UNCHANGED <<rowVars, recorderVars, ownerVars, queue, stopAsked, replanned>>

\* A plan applied to several cameras at once; enabled is left alone. The
\* cameras are kept in todo until the commit has returned.
RequestBatch(t, C) ==
  /\ Arrives(t, "batch")
  /\ C # {} /\ \A c \in C : policy[c] # "gone"
  /\ \E p \in {"manual", "auto"}, w \in [C -> BOOLEAN] :
       /\ policy' = [c \in Camera |->
             IF c \in C /\ policy[c] # "disabled" THEN p ELSE policy[c]]
       /\ window' = [c \in Camera |-> IF c \in C THEN w[c] ELSE window[c]]
  /\ Await(t, [Idle EXCEPT !.kind = "batch", !.todo = C, !.at = "reset"])
  /\ replanned' = replanned \cup C
  /\ UNCHANGED <<revision, recorderVars, ownerVars, queue, stopAsked, reloaded>>

BatchReset(t) ==
  /\ Runs(t, "reset")
  /\ resetForScheduleChange(task[t].todo)
  /\ Await(t, [Idle EXCEPT !.at = "load"])
  /\ UNCHANGED <<rowVars, recorderVars, queue, boundVars>>

\* restart: the stop half has returned.
Again(t) ==
  /\ Runs(t, "again")
  /\ Continue(t, Call(t, "start", "noteStart", "lock"))
  /\ UNCHANGED <<rowVars, recorderVars, ownerVars, queue, boundVars>>

\* Mutant: a manual start forgets to lift the pause.
NoteStartOnly(t) ==
  LET c == task[t].camera IN
  /\ Runs(t, "noteStart")
  /\ managed' = managed \ {c}
  /\ manualRunning' = manualRunning \cup {c}
  /\ Await(t, Idle)
  /\ UNCHANGED <<rowVars, recorderVars, manualPaused, queue, boundVars>>

\* note_manual_start and note_manual_stop run as soon as the recorder answers.
NoteStart(t) ==
  LET c == task[t].camera IN
  /\ Runs(t, "noteStart")
  /\ managed' = managed \ {c}
  /\ manualPaused' = manualPaused \ {c}
  /\ manualRunning' = manualRunning \cup {c}
  /\ Await(t, Idle)
  /\ UNCHANGED <<rowVars, recorderVars, queue, boundVars>>

NoteStop(t) ==
  LET c == task[t].camera IN
  /\ Runs(t, "noteStop")
  /\ managed' = managed \ {c}
  /\ manualRunning' = manualRunning \ {c}
  /\ manualPaused' = manualPaused \cup {c}
  /\ Await(t, Idle)
  /\ UNCHANGED <<rowVars, recorderVars, queue, boundVars>>

\* The local time enters or leaves a window of the camera's weekly plan.
Boundary(c) ==
  /\ cpu = None
  /\ ticks[c] < MaxTicks
  /\ ticks' = [ticks EXCEPT ![c] = @ + 1]
  /\ window' = [window EXCEPT ![c] = ~@]
  /\ UNCHANGED <<policy, revision, recorderVars, ownerVars, task, queue, cpu,
                 issued, stopAsked, reloaded, replanned, crossed>>

-----------------------------------------------------------------------------
\* What a task does once it has been started.
Step(t) ==
  \/ Queue(t) \/ StartRecorder(t) \/ StopRecorder(t) \/ StopReturns(t)
  \/ RingStopped(t) \/ LoadRows(t) \/ Settle(t) \/ Own(t) \/ Disown(t)
  \/ EndPass(t) \/ Snapshot(t) \/ TornDown(t) \/ Detach(t) \/ SwitchCommit(t)
  \/ Erase(t) \/ Restore(t) \/ Capability(t) \/ BatchReset(t) \/ Again(t)
  \/ NoteStart(t) \/ NoteStop(t)
  \/ \E c \in Camera : Visit(t, c)

Request(t) ==
  \/ \E c \in Camera :
       \/ RequestStart(t, c) \/ RequestStop(t, c) \/ RequestRestart(t, c)
       \/ RequestEdit(t, c) \/ RequestSwitch(t, c) \/ RequestDelete(t, c)
  \/ \E C \in SUBSET Camera : RequestBatch(t, C)

RecorderStep(c) == RecorderLeaves(c) \/ RecorderGone(c)

Next ==
  \/ Wake
  \/ \E t \in Task : Step(t) \/ Request(t)
  \/ \E c \in Camera : RecorderStep(c) \/ Boundary(c)

(***************************************************************************)
(* The loop resumes every ready task in turn (a task is ready again and    *)
(* again while another holds the cpu, hence SF), and CameraRecorder shows  *)
(* that a stop always returns. The poll interval always elapses, and a     *)
(* worker that has decided to leave is gone soon. Nobody has to send a     *)
(* request, no boundary has to come, no FFmpeg has to fail.                *)
(***************************************************************************)
Fairness ==
  /\ \A t \in Task : SF_vars(Step(t))
  /\ SF_vars(Wake)
  /\ \A c \in Camera : SF_vars(RecorderGone(c))

Spec == Init /\ [][Next]_vars
FairSpec == Spec /\ Fairness

-----------------------------------------------------------------------------
(* Properties                                                              *)

Eligible(c) == policy[c] = "auto" /\ window[c] /\ c \in Probed
Quiet == \A t \in Task : task[t].at = "idle"

\* Between passes, a camera the schedule holds back as "paused by a user" is
\* one a user asked to stop, unless its row was edited meanwhile, or two passes
\* crossed: one found the window open again while the other was still ending
\* the recording of the window before. Nothing else looks like a user's stop:
\* no boundary, no restart, no edit of another camera.
PausesExplained ==
  Quiet => manualPaused \subseteq stopAsked \cup reloaded \cup replanned \cup crossed

\* A camera disabled for good stops recording, whatever starts were in flight.
DisabledStops ==
  \A c \in Camera :
    <>[](policy[c] = "disabled") => <>[](~IsRunning(c))

\* A camera that stays inside its window ends up recording, or is held back
\* by one of the two manual overrides: no start is simply forgotten.
EligibleRecords ==
  \A c \in Camera :
    <>[]Eligible(c) =>
      []<>(IsRunning(c) \/ c \in manualRunning \cup manualPaused)

\* A pause does not outlast the window it was made in.
PauseReleased ==
  \A c \in Camera :
    <>[](~window[c] /\ policy[c] # "gone") => <>[](c \notin manualPaused)

\* A camera that is never reloaded stops once its window is left, unless a
\* user took it over.
WindowEndsRecording ==
  \A c \in Camera :
    <>[](~window[c]) /\ [](c \notin reloaded) =>
      <>[](~IsRunning(c) \/ c \in manualRunning)
=============================================================================
