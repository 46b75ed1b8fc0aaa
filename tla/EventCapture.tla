---------------------------- MODULE EventCapture ----------------------------
(***************************************************************************)
(* Motion events and the ring of footage before them, for one camera:      *)
(*   services/event_recording.py       the ring's FFmpeg, its reconciler,  *)
(*                                     the clip made of an event           *)
(*   services/event_recording_link.py  which recording shows an event      *)
(*   services/motion_manager.py        the supervised detection task       *)
(*   services/motion_worker.py         what its cancellation does          *)
(*   services/recording_start.py       handover to the regular recorder    *)
(*                                                                         *)
(* A step is the code between two awaits.  `lock' is _worker_lock, under    *)
(* which every worker.stop() of the ring runs; `halt' is where in it the    *)
(* holder is.  Other cameras only make the wait for the lock longer.       *)
(***************************************************************************)
EXTENDS Integers, FiniteSets

CONSTANTS Tasks,        \* detection tasks ever created
          Callers,      \* API requests under way
          Loop,         \* the ring manager's own task
          None,
          MaxRequests,  \* bound: requests
          MaxEvents,    \* bound: motion events
          MaxEdits      \* bound: edits of the connection

ASSUME EventAssumption ==
    /\ {MaxRequests, MaxEvents, MaxEdits} \subseteq Nat
    /\ None \notin Tasks \cup Callers \cup {Loop}
    /\ Loop \notin Callers /\ Tasks \cap (Callers \cup {Loop}) = {}

VARIABLES
    wanted,      \* camera enabled and detection enabled, in the database
    revision,    \* of the camera's connection
    recorder,    \* recorder_manager.is_running
    ring,        \* the EventBufferWorker in _workers
    stray,       \* a ring FFmpeg runs that nobody waits for
    pinned,      \* the camera is in _pinned_since
    required,    \* the camera is in _capture_required
    lock, halt,  \* _worker_lock, and the stage of worker.stop() under it
    capturing,   \* the holder of the camera's _capture_locks entry
    pass,        \* reconcile_once: the loop's and each caller's
    task,        \* detection tasks
    table,       \* _tasks[camera]
    call,        \* API requests
    clip,        \* a clip's file without a row: the task making it, if any
    requests, events,
    collided,    \* history: a restart or stop met another restart under way
    raced        \* history: the ring's FFmpeg came to life while being stopped

rows == <<wanted, revision>>
ringVars == <<ring, stray, raced>>
pins == <<pinned, required>>
locks == <<lock, halt>>
motion == <<task, table, capturing, clip, events>>
vars == <<rows, recorder, ringVars, pins, locks, pass, motion, call, requests,
          collided>>

Reconcilers == {Loop} \cup Callers
Sink == {"resolve", "capLock", "ringLock", "ringStop", "clip", "clipped", "query", "insert"}
Open == Sink \cup {"event"}
NoTask == [at |-> "new", revision |-> 0, required |-> FALSE, tried |-> FALSE, ending |-> "no"]
NoCall == [op |-> "none", at |-> "idle", victim |-> None, revision |-> 0]
NoPass == [at |-> "idle", eligible |-> FALSE, revision |-> 0]

TypeOK ==
    /\ wanted \in BOOLEAN /\ revision \in 0..MaxEdits /\ recorder \in BOOLEAN
    /\ ring \in [held : BOOLEAN, task : {"none", "ready", "check", "spawn", "run", "pause"},
                 stop : BOOLEAN, revision : 0..MaxEdits]
    /\ stray \in BOOLEAN /\ pinned \in BOOLEAN /\ required \in BOOLEAN
    /\ lock \in {None} \cup Reconcilers \cup Tasks /\ halt \in {"no", "signal", "join"}
    /\ capturing \in {None} \cup Tasks
    /\ pass \in [Reconcilers -> [at : {"idle", "lock", "act", "replace"}, eligible : BOOLEAN,
                                 revision : 0..MaxEdits]]
    /\ task \in [Tasks -> [at : Sink \cup {"new", "ready", "check", "watch", "event",
                                           "pause", "done"},
                           revision : 0..MaxEdits, required : BOOLEAN, tried : BOOLEAN,
                           ending : {"no", "stream", "cancel"}]]
    /\ table \in {None} \cup Tasks
    /\ call \in [Callers -> [op : {"none", "settings", "reload", "record"},
                             at : {"idle", "motion", "ringLock", "ringStop",
                                   "recorder", "restore", "pass", "restart", "load", "create"},
                             victim : {None} \cup Tasks, revision : -1..MaxEdits]]
    /\ clip \in {None} \cup Tasks
    /\ requests \in 0..MaxRequests /\ events \in 0..MaxEvents
    /\ collided \in BOOLEAN /\ raced \in BOOLEAN

Init ==
    /\ wanted = TRUE /\ revision = 0 /\ recorder = FALSE
    /\ ring = [held |-> FALSE, task |-> "none", stop |-> FALSE, revision |-> 0]
    /\ stray = FALSE /\ pinned = FALSE /\ required = FALSE
    /\ lock = None /\ halt = "no" /\ capturing = None
    /\ pass = [p \in Reconcilers |-> NoPass]
    /\ table \in Tasks
    /\ task = [t \in Tasks |-> IF t = table THEN [NoTask EXCEPT !.at = "ready"] ELSE NoTask]
    /\ call = [c \in Callers |-> NoCall]
    /\ clip = None /\ requests = 0 /\ events = 0
    /\ collided = FALSE /\ raced = FALSE

RingRunning == ring.held /\ ring.task # "none" /\ ~ring.stop
Live(t) == task[t].at \notin {"new", "done"}
OpenEvent(t) == task[t].at \in Open

-----------------------------------------------------------------------------
(* EventBufferWorker._run                                                  *)
RingAt(p) == ring' = [ring EXCEPT !.task = p]
AfterRun == IF ring.stop THEN "none" ELSE "pause"

RingStep ==
    \/ /\ ring.task = "ready" /\ RingAt(IF ring.stop THEN "none" ELSE "check") /\ UNCHANGED raced
    \/ /\ ring.task = "check" /\ RingAt(IF ring.revision # revision THEN "none" ELSE "spawn")
       /\ UNCHANGED raced
    \/ /\ ring.task = "spawn" /\ RingAt("run") /\ raced' = (raced \/ ring.stop)
    \/ /\ ring.task = "spawn" /\ RingAt(AfterRun) /\ UNCHANGED raced
    \/ /\ ring.task = "run" /\ RingAt(AfterRun) /\ UNCHANGED raced
    \/ /\ ring.task = "pause" /\ RingAt(IF ring.stop THEN "none" ELSE "ready") /\ UNCHANGED raced

Ring == RingStep /\ UNCHANGED <<rows, recorder, stray, pins, locks, pass, motion, call,
                                requests, collided>>

\* An FFmpeg that does not end on SIGINT is killed after 5 seconds.
Signalled == halt = "signal" /\ Ring

(* EventBufferWorker.stop(): the process it sees is told to end and waited  *)
(* for, then the task is joined, for at most 5 seconds.                    *)
BeginHalt ==
    /\ ring' = [ring EXCEPT !.stop = TRUE]
    /\ halt' = IF ring.task = "run" THEN "signal" ELSE "join"

Halting == halt = "signal" /\ ring.task # "run"

Halted == halt = "join" /\ ring.task = "none"

\* The join times out and the task is cancelled where it is: a spawn kills its
\* child, a wait for the process leaves it alive.
Cut ==
    /\ ring' = [ring EXCEPT !.task = "none"]
    /\ stray' = (stray \/ ring.task = "run")

\* Mutant: a task that outlives the time limit is never cut off.
HaltForever ==
    /\ Halting /\ halt' = "join" /\ UNCHANGED <<ring, stray>>
    /\ UNCHANGED <<rows, recorder, raced, pins, lock, pass, motion, call, requests,
                   collided>>

HaltSteps ==
    /\ \/ Halting /\ halt' = "join" /\ UNCHANGED <<ring, stray>>
       \/ halt = "join" /\ ring.task # "none" /\ Cut /\ UNCHANGED halt
    /\ UNCHANGED <<rows, recorder, raced, pins, lock, pass, motion, call, requests,
                   collided>>

-----------------------------------------------------------------------------
(* EventRecordingManager.reconcile_once, of the loop or of a reload.        *)
PassAt(p, v) == pass' = [pass EXCEPT ![p].at = v]

\* Mutant: a pass does not ask for the regular recorder.
PassReadRunning(p) ==
    /\ pass[p].at = "idle" /\ (p = Loop \/ (p \in Callers /\ call[p].at = "pass"))
    /\ \E resolved \in BOOLEAN :
          pass' = [pass EXCEPT ![p] =
            [at |-> "lock", revision |-> revision, eligible |-> resolved /\ wanted]]
    /\ UNCHANGED <<rows, recorder, ringVars, pins, locks, motion, call, requests, collided>>

PassRead(p) ==
    /\ pass[p].at = "idle" /\ (p = Loop \/ (p \in Callers /\ call[p].at = "pass"))
    /\ \E resolved \in BOOLEAN :    \* resolve_stream may raise
          pass' = [pass EXCEPT ![p] =
            [at |-> "lock", revision |-> revision,
             eligible |-> resolved /\ wanted /\ (~recorder \/ required)]]
    /\ UNCHANGED <<rows, recorder, ringVars, pins, locks, motion, call, requests,
                   collided>>

NewRing(r) == [held |-> TRUE, task |-> "ready", stop |-> FALSE, revision |-> r]

PassDone(p) ==
    /\ pass' = [pass EXCEPT ![p] = NoPass]
    /\ lock' = None
    /\ call' = IF p \in Callers THEN [call EXCEPT ![p].at = "restart"] ELSE call

PassAct(p) ==
    /\ pass[p].at = "lock" /\ lock = None
    /\ \/ /\ ~pass[p].eligible /\ ring.held
          /\ BeginHalt /\ PassAt(p, "act") /\ lock' = p /\ UNCHANGED <<call>>
       \/ /\ IF pass[p].eligible
             THEN RingRunning /\ ring.revision = pass[p].revision
             ELSE ~ring.held
          /\ PassDone(p) /\ UNCHANGED <<ring, halt>>
       \/ /\ pass[p].eligible /\ ring.held
          /\ ~(RingRunning /\ ring.revision = pass[p].revision)
          /\ BeginHalt /\ PassAt(p, "replace") /\ lock' = p /\ UNCHANGED <<call>>
       \/ /\ pass[p].eligible /\ ~ring.held
          /\ ring' = NewRing(pass[p].revision)
          /\ PassDone(p) /\ UNCHANGED <<halt>>
    /\ UNCHANGED <<rows, recorder, stray, raced, pins, motion, requests, collided>>

PassHalted(p) ==
    /\ lock = p /\ Halted /\ pass[p].at \in {"act", "replace"}
    /\ ring' = IF pass[p].at = "replace" THEN NewRing(pass[p].revision)
               ELSE [ring EXCEPT !.held = FALSE]
    /\ halt' = "no" /\ PassDone(p)
    /\ UNCHANGED <<rows, recorder, stray, raced, pins, motion, requests, collided>>

-----------------------------------------------------------------------------
(* The detection task: _supervise, MotionWorker.run and, when an event has  *)
(* closed, the event sink.                                                 *)
TaskAt(t, p) == task' = [task EXCEPT ![t].at = p]
Quiet == UNCHANGED <<rows, recorder, call, requests, collided, pass>>

Supervise(t) ==
    /\ \/ task[t].at = "ready" /\ TaskAt(t, "check")
       \/ /\ task[t].at = "check"
          /\ TaskAt(t, IF task[t].revision # revision THEN "done" ELSE "watch")
       \/ task[t].at = "watch" /\ TaskAt(t, "pause")      \* stream lost, no event
       \/ task[t].at = "pause" /\ TaskAt(t, "ready")
    /\ UNCHANGED <<table, capturing, clip, events, ringVars, pins, locks>> /\ Quiet

\* An event is confirmed: begin_event.
Confirm(t) ==
    /\ task[t].at = "watch" /\ events < MaxEvents
    /\ events' = events + 1
    /\ pinned' = TRUE
    /\ required' = (required \/ (RingRunning /\ ~recorder))
    /\ TaskAt(t, "event")
    /\ UNCHANGED <<table, capturing, clip, ringVars, locks>> /\ Quiet

\* It closes, by quiet or because the stream was lost.
CloseEvent(t) ==
    /\ task[t].at = "event"
    /\ \E how \in {"no", "stream"} :
          task' = [task EXCEPT ![t] = [@ EXCEPT !.at = "resolve", !.ending = how]]
    /\ UNCHANGED <<table, capturing, clip, events, ringVars, pins, locks>> /\ Quiet

\* resolve_event_recording
Resolve(t) ==
    /\ task[t].at = "resolve"
    /\ task' = [task EXCEPT ![t] =
         [@ EXCEPT !.required = required, !.tried = required,
                   !.at = IF required THEN "capLock" ELSE "query"]]
    /\ UNCHANGED <<table, capturing, clip, events, ringVars, pins, locks>> /\ Quiet

\* An overlapping recording is found, or the ring is asked after all.
Query(t) ==
    /\ task[t].at = "query"
    /\ \/ TaskAt(t, "insert")
       \/ /\ ~recorder /\ ~task[t].required /\ ~task[t].tried
          /\ task' = [task EXCEPT ![t] = [@ EXCEPT !.at = "capLock", !.tried = TRUE]]
    /\ UNCHANGED <<table, capturing, clip, events, ringVars, pins, locks>> /\ Quiet

\* What follows capture() when it has found nothing.
NoClip(t) == TaskAt(t, IF task[t].required THEN "query" ELSE "insert")

CaptureLock(t) ==
    /\ task[t].at = "capLock" /\ capturing = None
    /\ IF recorder /\ ~required
       THEN NoClip(t) /\ UNCHANGED capturing
       ELSE TaskAt(t, "ringLock") /\ capturing' = t
    /\ UNCHANGED <<table, clip, events, ringVars, pins, locks>> /\ Quiet

CaptureStop(t) ==
    /\ task[t].at = "ringLock" /\ lock = None
    /\ IF RingRunning
       THEN BeginHalt /\ lock' = t /\ TaskAt(t, "ringStop") /\ UNCHANGED capturing
       ELSE NoClip(t) /\ capturing' = None /\ UNCHANGED <<ring, locks>>
    /\ UNCHANGED <<table, clip, events, stray, raced, pins>> /\ Quiet

\* The segments are listed; the ring goes on unless the recorder has started.
CaptureSnapshot(t) ==
    /\ task[t].at = "ringStop" /\ lock = t /\ Halted
    /\ ring' = IF recorder THEN ring ELSE [ring EXCEPT !.stop = FALSE, !.task = "ready"]
    /\ lock' = None /\ halt' = "no"
    /\ \/ TaskAt(t, "clip") /\ UNCHANGED capturing
       \/ NoClip(t) /\ capturing' = None          \* no segment
    /\ UNCHANGED <<table, clip, events, stray, raced, pins>> /\ Quiet

\* Mutant: what fails leaves its clip behind.
MaterializeDirty(t) ==
    /\ \/ task[t].at = "clip" /\ TaskAt(t, "clipped") /\ clip' = t /\ UNCHANGED capturing
       \/ task[t].at = "clipped" /\ TaskAt(t, "insert") /\ clip' = None /\ capturing' = None
       \/ /\ task[t].at \in {"clip", "clipped"}
          /\ NoClip(t) /\ capturing' = None /\ UNCHANGED clip
    /\ UNCHANGED <<table, events, ringVars, pins, locks>> /\ Quiet

\* _materialize_clip: remux into place, then commit the row; any exception
\* removes the file.
Materialize(t) ==
    /\ \/ task[t].at = "clip" /\ TaskAt(t, "clipped") /\ clip' = t /\ UNCHANGED capturing
       \/ task[t].at = "clipped" /\ TaskAt(t, "insert") /\ clip' = None /\ capturing' = None
       \/ /\ task[t].at \in {"clip", "clipped"}
          /\ NoClip(t) /\ capturing' = None
          /\ clip' = IF clip = t THEN None ELSE clip
    /\ UNCHANGED <<table, events, ringVars, pins, locks>> /\ Quiet

\* The MotionEvent row is written (or raises): end_event, whatever happens.
\* Mutant: a task that stored its last event reaches no known end.
AfterSinkUnnamed(t) == IF task[t].ending = "no" THEN "watch" ELSE "ended"
AfterSink(t) == CASE task[t].ending = "no" -> "watch"
                  [] task[t].ending = "stream" -> "pause"
                  [] task[t].ending = "cancel" -> "done"

\* Mutant: the pin is not released.
InsertPinned(t) ==
    /\ task[t].at = "insert"
    /\ required' = FALSE /\ UNCHANGED pinned
    /\ task' = [task EXCEPT ![t] =
         [NoTask EXCEPT !.at = AfterSink(t), !.revision = task[t].revision]]
    /\ UNCHANGED <<table, capturing, clip, events, ringVars, locks>> /\ Quiet

Insert(t) ==
    /\ task[t].at = "insert"
    /\ pinned' = FALSE /\ required' = FALSE
    /\ task' = [task EXCEPT ![t] =
         [NoTask EXCEPT !.at = AfterSink(t), !.revision = task[t].revision]]
    /\ UNCHANGED <<table, capturing, clip, events, ringVars, locks>> /\ Quiet

\* task.cancel(): an active event is flushed, and its sink still runs; a sink
\* that is running is cut off, its event is lost, and end_event runs.  Cut off
\* in worker.stop(), it leaves the ring half stopped.
CancelTask(t) ==
    IF ~OpenEvent(t)
    THEN /\ TaskAt(t, "done") /\ UNCHANGED <<capturing, ring, stray, pins, locks>>
    ELSE IF task[t].at = "event"
    THEN /\ task' = [task EXCEPT ![t] = [@ EXCEPT !.at = "resolve", !.ending = "cancel"]]
         /\ UNCHANGED <<capturing, ring, stray, pins, locks>>
    ELSE /\ TaskAt(t, "done")
         /\ pinned' = FALSE /\ required' = FALSE
         /\ capturing' = IF capturing = t THEN None ELSE capturing
         /\ IF lock = t
            THEN /\ lock' = None /\ halt' = "no"
                 /\ IF halt = "join" THEN Cut ELSE UNCHANGED <<ring, stray>>
            ELSE UNCHANGED <<locks, ring, stray>>

-----------------------------------------------------------------------------
(* Requests: motion settings and zones (restart_camera), reloads by the     *)
(* coordinator (stop_all, restore), starts of the regular recorder.        *)
CallAt(c, p) == call' = [call EXCEPT ![c].at = p]
CallDone(c) == call' = [call EXCEPT ![c] = NoCall]

Request(c) ==
    /\ call[c].op = "none" /\ requests < MaxRequests
    /\ requests' = requests + 1
    /\ \/ /\ wanted' \in BOOLEAN /\ UNCHANGED revision
          /\ call' = [call EXCEPT ![c] = [NoCall EXCEPT !.op = "settings", !.at = "restart"]]
       \/ /\ wanted' \in BOOLEAN
          /\ revision' \in {revision} \cup ({revision + 1} \cap 0..MaxEdits)
          /\ call' = [call EXCEPT ![c] = [NoCall EXCEPT !.op = "reload", !.at = "motion"]]
       \/ /\ wanted /\ ~recorder /\ UNCHANGED rows
          /\ call' = [call EXCEPT ![c] = [NoCall EXCEPT !.op = "record",
                                    !.at = IF required THEN "recorder" ELSE "ringLock"]]
    /\ UNCHANGED <<recorder, ringVars, pins, locks, pass, motion, collided>>

Restarting == {c \in Callers : call[c].victim # None \/ call[c].at \in {"load", "create"}}

\* stop_camera and restart_camera: the task is taken from the table, cancelled
\* and waited for.
TakeMotion(c) ==
    /\ call[c].at \in {"motion", "restart"} /\ call[c].victim = None
    /\ collided' = (collided \/ Restarting \ {c} # {})
    /\ table' = None
    /\ IF table # None /\ Live(table)
       THEN /\ CancelTask(table)
            /\ call' = [call EXCEPT ![c].victim = table]
       ELSE /\ CallAt(c, IF call[c].at = "motion" THEN "ringLock" ELSE "load")
            /\ UNCHANGED <<task, capturing, ring, stray, pins, locks>>
    /\ UNCHANGED <<rows, recorder, raced, pass, clip, events, requests>>

\* Mutant: a restart does not wait for the task it cancels.
MotionCancelled(c) ==
    /\ call[c].victim # None
    /\ call' = [call EXCEPT ![c].victim = None, ![c].at =
                 IF call[c].at = "motion" THEN "ringLock" ELSE "load"]
    /\ UNCHANGED <<rows, recorder, ringVars, pins, locks, pass, motion, requests, collided>>

MotionEnded(c) ==
    /\ call[c].victim # None /\ ~Live(call[c].victim)
    /\ call' = [call EXCEPT ![c].victim = None, ![c].at =
                 IF call[c].at = "motion" THEN "ringLock" ELSE "load"]
    /\ UNCHANGED <<rows, recorder, ringVars, pins, locks, pass, motion, requests,
                   collided>>

\* config_loader reads the rows some awaits before the new task is entered.
Load(c) ==
    /\ call[c].at = "load"
    /\ \E r \in {-1} \cup {n \in {revision} : wanted} :    \* -1: disabled, or it raised
         call' = [call EXCEPT ![c].at = "create", ![c].revision = r]
    /\ UNCHANGED <<rows, recorder, ringVars, pins, locks, pass, motion, requests,
                   collided>>

Create(c) ==
    /\ call[c].at = "create"
    /\ IF call[c].revision = -1
       THEN UNCHANGED <<task, table>>
       ELSE \E t \in Tasks :
              /\ task[t].at = "new"
              /\ task' = [task EXCEPT ![t] =
                   [NoTask EXCEPT !.at = "ready", !.revision = call[c].revision]]
              /\ table' = t
    /\ CallDone(c)
    /\ UNCHANGED <<rows, recorder, ringVars, pins, locks, pass, capturing, clip, events,
                   requests, collided>>

\* event_recording_manager.stop_camera
RingLock(c) ==
    /\ call[c].at = "ringLock" /\ lock = None
    /\ IF ring.held
       THEN BeginHalt /\ lock' = c /\ CallAt(c, "ringStop")
       ELSE CallAt(c, "recorder") /\ UNCHANGED <<ring, locks>>
    /\ UNCHANGED <<rows, recorder, stray, raced, pins, pass, motion, requests,
                   collided>>

RingStopped(c) ==
    /\ call[c].at = "ringStop" /\ lock = c /\ Halted
    /\ ring' = [ring EXCEPT !.held = FALSE]
    /\ lock' = None /\ halt' = "no" /\ CallAt(c, "recorder")
    /\ UNCHANGED <<rows, recorder, stray, raced, pins, pass, motion, requests,
                   collided>>

\* A start makes the recorder run; a reload stops it and restores what the
\* camera needs: the recorder perhaps, the ring, then detection.
Recorder(c) ==
    /\ call[c].at = "recorder"
    /\ IF call[c].op = "record"
       THEN recorder' = TRUE /\ CallDone(c)
       ELSE recorder' = FALSE /\ CallAt(c, "restore")
    /\ UNCHANGED <<rows, ringVars, pins, locks, pass, motion, requests, collided>>

Restore(c) ==
    /\ call[c].at = "restore"
    /\ \/ ~wanted /\ CallDone(c) /\ UNCHANGED recorder
       \/ wanted /\ recorder' \in BOOLEAN /\ CallAt(c, "pass")
    /\ UNCHANGED <<rows, ringVars, pins, locks, pass, motion, requests, collided>>

RecorderStops ==
    /\ recorder /\ recorder' = FALSE
    /\ UNCHANGED <<rows, ringVars, pins, locks, pass, motion, call, requests, collided>>

-----------------------------------------------------------------------------
MotionTask(t) ==
    Supervise(t) \/ Confirm(t) \/ CloseEvent(t) \/ Resolve(t) \/ Query(t) \/ CaptureLock(t)
    \/ CaptureStop(t) \/ CaptureSnapshot(t) \/ Materialize(t) \/ Insert(t)
Pass(p) == PassRead(p) \/ PassAct(p) \/ PassHalted(p)
Serve(c) ==
    TakeMotion(c) \/ MotionEnded(c) \/ Load(c) \/ Create(c) \/ RingLock(c) \/ RingStopped(c)
    \/ Recorder(c) \/ Restore(c)

Next ==
    \/ Ring \/ HaltSteps \/ RecorderStops
    \/ \E p \in Reconcilers : Pass(p)
    \/ \E t \in Tasks : MotionTask(t)
    \/ \E c \in Callers : Request(c) \/ Serve(c)

\* asyncio.Lock is first come, first served, hence the strong fairness of its
\* takers; everything else that is ready to run is run.
Fairness ==
    /\ WF_vars(HaltSteps) /\ WF_vars(Signalled)
    /\ \A p \in Reconcilers : WF_vars(PassRead(p)) /\ SF_vars(PassAct(p)) /\ WF_vars(PassHalted(p))
    /\ \A t \in Tasks :
         /\ WF_vars(Resolve(t) \/ Query(t) \/ Materialize(t) \/ Insert(t) \/ CaptureSnapshot(t))
         /\ SF_vars(CaptureLock(t)) /\ SF_vars(CaptureStop(t))
    /\ \A c \in Callers : WF_vars(Serve(c)) /\ SF_vars(RingLock(c))
Safety == Init /\ [][Next]_vars
Spec == Safety /\ Fairness

-----------------------------------------------------------------------------
(* Properties                                                              *)

(* A camera has one detection task, through edits, reloads and events that  *)
(* are still being stored: restart_camera waits for the task it cancels.    *)
(* Two restarts under way at once are the exception.                       *)
OneMotionTask == collided \/ Cardinality({t \in Tasks : Live(t)}) <= 1

(* The ring's pre-roll is pinned from the confirmation of an event until    *)
(* its row is written or its task is cut off, and no longer; the promise to *)
(* capture it from the ring (capture_required) ends with the pin.           *)
PinsMatch ==
    collided \/ (/\ pinned <=> \E t \in Tasks : OpenEvent(t)
                 /\ required => pinned)

(* Neither an FFmpeg nor a clip is left behind by what fails or is cut off, *)
(* but for two cases: the ring's FFmpeg came to life while its worker was   *)
(* being stopped, or detection was cancelled between the remux of a clip    *)
(* and the commit of its row.                                              *)
NothingLeft ==
    /\ stray => raced
    /\ clip # None => task[clip].at \in {"clipped", "done"}

(* Storing an event comes to its end whatever recorder, reconciler, reloads *)
(* and FFmpegs do: the supervised task never waits for good for a lock or a *)
(* worker being stopped.                                                   *)
Sinking(t) == task[t].at \in Sink
SinkEnds == \A t \in Tasks : Sinking(t) ~> ~Sinking(t)

(* The ring and the regular recorder read the camera together for a while   *)
(* at most, once no event needs the ring.                                  *)
Both == recorder /\ ring.task = "run" /\ ~required
BothBriefly == Both ~> ~Both

(* Both together: event_recording.py finishes what it began, and gives the   *)
(* camera back to the recorder.                                            *)
RingSettles == SinkEnds /\ BothBriefly
=============================================================================
