-------------------------- MODULE EventCapture_proofs -------------------------
(***************************************************************************)
(* Safety of EventCapture for any number of detection tasks and requests.   *)
(***************************************************************************)
EXTENDS EventCapture, FiniteSetTheorems, TLAPS

-----------------------------------------------------------------------------
(* Types                                                                   *)
TaskStage == Sink \cup {"new", "ready", "check", "watch", "event", "pause", "done"}
TaskType == [at : TaskStage, revision : 0..MaxEdits, required : BOOLEAN, tried : BOOLEAN,
             ending : {"no", "stream", "cancel"}]
CallType ==
  [op : {"none", "settings", "reload", "record"},
   at : {"idle", "motion", "ringLock", "ringStop",
         "recorder", "restore", "pass", "restart", "load", "create"},
   victim : {None} \cup Tasks, revision : -1..MaxEdits]
PassType == [at : {"idle", "lock", "act", "replace"}, eligible : BOOLEAN, revision : 0..MaxEdits]
RingType ==
  [held : BOOLEAN, task : {"none", "ready", "check", "spawn", "run", "pause"},
   stop : BOOLEAN, revision : 0..MaxEdits]

\* TypeOK, part by part.
RowsTyped ==
  /\ wanted \in BOOLEAN /\ revision \in 0..MaxEdits /\ recorder \in BOOLEAN
  /\ requests \in 0..MaxRequests /\ events \in 0..MaxEvents /\ collided \in BOOLEAN
RingTyped == ring \in RingType /\ stray \in BOOLEAN /\ raced \in BOOLEAN
PinsTyped == pinned \in BOOLEAN /\ required \in BOOLEAN
LockTyped == lock \in {None} \cup Reconcilers \cup Tasks /\ halt \in {"no", "signal", "join"}
TasksTyped == task \in [Tasks -> TaskType]
NamesTyped == {table, capturing, clip} \subseteq {None} \cup Tasks
PassTyped == pass \in [Reconcilers -> PassType]
CallTyped == call \in [Callers -> CallType]

\* TypeOK is the conjunction of its parts.
LEMMA TypeParts ==
  TypeOK <=> /\ RowsTyped /\ RingTyped /\ PinsTyped /\ LockTyped /\ TasksTyped /\ NamesTyped
             /\ PassTyped /\ CallTyped
BY DEF TypeOK, RowsTyped, RingTyped, PinsTyped, LockTyped, TasksTyped, NamesTyped, PassTyped,
       CallTyped, TaskStage, TaskType, CallType, PassType, RingType

LEMMA TypePartsNext ==
  TypeOK' <=> /\ RowsTyped' /\ RingTyped' /\ PinsTyped' /\ LockTyped' /\ TasksTyped'
              /\ NamesTyped' /\ PassTyped' /\ CallTyped'
BY DEF TypeOK, RowsTyped, RingTyped, PinsTyped, LockTyped, TasksTyped, NamesTyped, PassTyped,
       CallTyped, TaskStage, TaskType, CallType, PassType, RingType

LEMMA BoundsNat == MaxRequests \in Nat /\ MaxEvents \in Nat /\ MaxEdits \in Nat
BY EventAssumption

\* The fields of a detection task.
LEMMA TaskFields ==
  ASSUME TasksTyped, NEW t \in Tasks
  PROVE  /\ task[t] \in TaskType /\ task[t].at \in TaskStage
         /\ task[t].revision \in 0..MaxEdits
         /\ task[t].required \in BOOLEAN /\ task[t].tried \in BOOLEAN
         /\ task[t].ending \in {"no", "stream", "cancel"}
BY DEF TasksTyped, TaskType

\* A detection task is replaced by a record of its type.
LEMMA TaskPut ==
  ASSUME TasksTyped, NEW t \in Tasks, NEW v \in TaskType, task' = [task EXCEPT ![t] = v]
  PROVE  TasksTyped' /\ task'[t] = v /\ \A u \in Tasks \ {t} : task'[u] = task[u]
BY DEF TasksTyped

\* A detection task goes to another stage (TaskAt).
LEMMA TaskMoved ==
  ASSUME TasksTyped, NEW t \in Tasks, NEW at \in TaskStage, TaskAt(t, at)
  PROVE  TasksTyped' /\ task'[t].at = at /\ \A u \in Tasks \ {t} : task'[u] = task[u]
BY TaskFields DEF TasksTyped, TaskType, TaskAt

\* A request is replaced by a record of its type.
LEMMA CallPut ==
  ASSUME CallTyped, NEW c \in Callers, NEW v \in CallType, call' = [call EXCEPT ![c] = v]
  PROVE  CallTyped' /\ call'[c] = v /\ \A d \in Callers \ {c} : call'[d] = call[d]
BY DEF CallTyped

\* A request goes to another stage (CallAt).
LEMMA CallMoved ==
  ASSUME CallTyped, NEW c \in Callers,
         NEW at \in {"idle", "motion", "ringLock", "ringStop", "recorder", "restore", "pass",
                     "restart", "load", "create"},
         CallAt(c, at)
  PROVE  /\ CallTyped' /\ call'[c].at = at /\ call'[c].victim = call[c].victim
         /\ \A d \in Callers \ {c} : call'[d] = call[d]
BY DEF CallTyped, CallType, CallAt

\* The records that stand for no task, no request, no pass and a new ring.
LEMMA EmptyRecords ==
  /\ NoTask \in TaskType /\ NoCall \in CallType /\ NoPass \in PassType
  /\ \A r \in 0..MaxEdits : NewRing(r) \in RingType
BY EventAssumption
   DEF NoTask, NoCall, NoPass, NewRing, TaskType, TaskStage, Sink, CallType, PassType, RingType

LEMMA InitTyped == Init => TypeOK
<1> SUFFICES ASSUME Init PROVE TypeOK
  OBVIOUS
<1>1. [NoTask EXCEPT !.at = "ready"] \in TaskType
  BY EmptyRecords DEF NoTask, TaskType, TaskStage
<1>2. TasksTyped
  BY <1>1, EmptyRecords DEF Init, TasksTyped
<1>3. PassTyped /\ CallTyped
  BY EmptyRecords DEF Init, PassTyped, CallTyped
<1>4. 0 \in 0..MaxRequests /\ 0 \in 0..MaxEvents /\ 0 \in 0..MaxEdits
  BY EventAssumption
<1>5. RingTyped
  <2>1. [held |-> FALSE, task |-> "none", stop |-> FALSE, revision |-> 0] \in RingType
    BY <1>4 DEF RingType
  <2> QED BY <2>1 DEF Init, RingTyped
<1>6. RowsTyped /\ PinsTyped
  <2>1. wanted = TRUE /\ recorder = FALSE /\ collided = FALSE /\ pinned = FALSE /\ required = FALSE
    BY DEF Init
  <2>2. revision = 0 /\ requests = 0 /\ events = 0
    BY DEF Init
  <2> QED BY <1>4, <2>1, <2>2 DEF RowsTyped, PinsTyped
<1>7. LockTyped /\ NamesTyped
  <2>1. lock = None /\ halt = "no" /\ table \in Tasks /\ capturing = None /\ clip = None
    BY DEF Init
  <2> QED BY <2>1 DEF LockTyped, NamesTyped
<1> QED BY <1>2, <1>3, <1>5, <1>6, <1>7, TypeParts

-----------------------------------------------------------------------------
(* A detection task goes to one of the stages S; the others stay.           *)
Moves(t, S) ==
  TasksTyped' /\ task'[t].at \in S /\ \A u \in Tasks \ {t} : task'[u] = task[u]

(* Where each step of a detection task takes it.                            *)
LEMMA TaskStep ==
  ASSUME TypeOK, NEW t \in Tasks
  PROVE  /\ Supervise(t) => Moves(t, {"ready", "check", "watch", "pause", "done"})
         /\ Confirm(t) => Moves(t, {"event"})
         /\ CloseEvent(t) \/ Resolve(t) \/ Query(t) => Moves(t, Sink \ {"clipped"})
         /\ CaptureLock(t) \/ CaptureStop(t) \/ CaptureSnapshot(t) => Moves(t, Sink \ {"clipped"})
         /\ Materialize(t) => \/ task[t].at = "clip" /\ clip' = t /\ Moves(t, {"clipped"})
                              \/ clip' \in {None, clip} \ {t} /\ Moves(t, Sink \ {"clipped"})
         /\ Insert(t) => Moves(t, {"watch", "pause", "done"})
<1> USE TypeParts
<1>1. ASSUME Supervise(t) PROVE Moves(t, {"ready", "check", "watch", "pause", "done"})
  <2> DEFINE at == CASE task[t].at = "ready" -> "check"
                     [] task[t].at = "pause" -> "ready"
                     [] task[t].at = "watch" -> "pause"
                     [] OTHER -> IF task[t].revision # revision THEN "done" ELSE "watch"
  <2>1. \/ TaskAt(t, at)
        \/ TaskAt(t, "pause")
    BY <1>1 DEF Supervise
  <2>2. at \in {"ready", "check", "watch", "pause", "done"}
    OBVIOUS
  <2> HIDE DEF at
  <2> QED BY <2>1, <2>2, TaskMoved DEF TaskStage, Moves
<1>2. ASSUME Confirm(t) PROVE Moves(t, {"event"})
  BY <1>2, TaskMoved DEF Confirm, TaskStage, Moves
<1>3. ASSUME CloseEvent(t) PROVE Moves(t, Sink \ {"clipped"})
  <2>1. PICK how \in {"no", "stream"} :
          task' = [task EXCEPT ![t] = [task[t] EXCEPT !.at = "resolve", !.ending = how]]
    BY <1>3 DEF CloseEvent
  <2> DEFINE v == [task[t] EXCEPT !.at = "resolve", !.ending = how]
  <2>2. v \in TaskType /\ v.at = "resolve"
    BY TaskFields DEF TaskType, TaskStage, Sink
  <2>3. task' = [task EXCEPT ![t] = v]
    BY <2>1
  <2> HIDE DEF v
  <2> QED BY <2>2, <2>3, TaskPut DEF Moves, Sink
<1>4. ASSUME Resolve(t) PROVE Moves(t, Sink \ {"clipped"})
  <2> DEFINE v == [task[t] EXCEPT !.required = required, !.tried = required,
                                  !.at = IF required THEN "capLock" ELSE "query"]
  <2>1. task' = [task EXCEPT ![t] = v]
    BY <1>4 DEF Resolve
  <2>2. v \in TaskType /\ v.at \in Sink \ {"clipped"}
    BY TaskFields DEF TaskType, TaskStage, Sink, PinsTyped
  <2> HIDE DEF v
  <2> QED BY <2>1, <2>2, TaskPut DEF Moves
<1>5. ASSUME NEW at \in TaskStage, TaskAt(t, at) PROVE Moves(t, {at})
  BY <1>5, TaskMoved DEF Moves
<1>6. ASSUME Query(t) PROVE Moves(t, Sink \ {"clipped"})
  <2>1. CASE TaskAt(t, "insert")
    BY <1>5, <2>1 DEF TaskStage, Sink, Moves
  <2>2. CASE task' = [task EXCEPT ![t] = [task[t] EXCEPT !.at = "capLock", !.tried = TRUE]]
    <3> DEFINE v == [task[t] EXCEPT !.at = "capLock", !.tried = TRUE]
    <3>1. v \in TaskType /\ v.at = "capLock"
      BY TaskFields DEF TaskType, TaskStage, Sink
    <3>2. task' = [task EXCEPT ![t] = v]
      BY <2>2
    <3> HIDE DEF v
    <3> QED BY <3>1, <3>2, TaskPut DEF Moves, Sink
  <2> QED BY <1>6, <2>1, <2>2 DEF Query
<1>7. ASSUME NoClip(t) PROVE Moves(t, Sink \ {"clipped"})
  <2> DEFINE at == IF task[t].required THEN "query" ELSE "insert"
  <2>1. TaskAt(t, at) /\ at \in TaskStage /\ at \in Sink \ {"clipped"}
    BY <1>7 DEF NoClip, TaskStage, Sink
  <2> QED BY <1>5, <2>1 DEF Moves
<1>8. ASSUME NEW at \in {"ringLock", "ringStop", "clip", "insert"}, TaskAt(t, at)
      PROVE  Moves(t, Sink \ {"clipped"})
  BY <1>8, <1>5 DEF TaskStage, Sink, Moves
<1>9. ASSUME CaptureLock(t) \/ CaptureStop(t) \/ CaptureSnapshot(t)
      PROVE  Moves(t, Sink \ {"clipped"})
  BY <1>7, <1>8, <1>9 DEF CaptureLock, CaptureStop, CaptureSnapshot
<1>10. ASSUME Materialize(t)
       PROVE  \/ task[t].at = "clip" /\ clip' = t /\ Moves(t, {"clipped"})
              \/ clip' \in {None, clip} \ {t} /\ Moves(t, Sink \ {"clipped"})
  BY <1>5, <1>7, <1>8, <1>10, EventAssumption DEF Materialize, TaskStage, Sink
<1>11. ASSUME Insert(t) PROVE Moves(t, {"watch", "pause", "done"})
  <2> DEFINE v == [NoTask EXCEPT !.at = AfterSink(t), !.revision = task[t].revision]
  <2>1. AfterSink(t) \in {"watch", "pause", "done"}
    BY TaskFields DEF AfterSink
  <2>2. v \in TaskType /\ v.at = AfterSink(t)
    BY <2>1, TaskFields, EventAssumption DEF NoTask, TaskType, TaskStage
  <2>3. task' = [task EXCEPT ![t] = v]
    BY <1>11 DEF Insert
  <2> HIDE DEF v
  <2> QED BY <2>1, <2>2, <2>3, TaskPut DEF Moves
<1> QED BY <1>1, <1>2, <1>3, <1>4, <1>6, <1>9, <1>10, <1>11

(* A cancelled task is done, or flushes its event with its sink ahead.      *)
LEMMA Cancelled ==
  ASSUME TypeOK, NEW t \in Tasks, CancelTask(t)
  PROVE  /\ TasksTyped'
         /\ \A u \in Tasks \ {t} : task'[u] = task[u]
         /\ \/ ~OpenEvent(t) /\ task'[t].at = "done" /\ UNCHANGED <<pins, locks, ring, stray>>
            \/ /\ task[t].at = "event" /\ task'[t].at = "resolve"
               /\ UNCHANGED <<pins, locks, ring, stray>>
            \/ /\ OpenEvent(t) /\ task[t].at # "event" /\ task'[t].at = "done"
               /\ ~pinned' /\ ~required'
<1> USE TypeParts
<1>1. CASE TaskAt(t, "done")
  <2>1. /\ TasksTyped' /\ task'[t].at = "done" /\ \A u \in Tasks \ {t} : task'[u] = task[u]
    BY <1>1, TaskMoved DEF TaskStage
  <2>2. CASE ~OpenEvent(t)
    BY <2>1, <2>2 DEF CancelTask
  <2>3. CASE OpenEvent(t)
    <3>1. task[t].at # "event"
      <4>1. SUFFICES ASSUME task[t].at = "event" PROVE FALSE
        OBVIOUS
      <4>2. task' = [task EXCEPT ![t] = [task[t] EXCEPT !.at = "resolve", !.ending = "cancel"]]
        BY <4>1, <2>3 DEF CancelTask
      <4>3. [task[t] EXCEPT !.at = "resolve", !.ending = "cancel"] \in TaskType
        BY TaskFields DEF TaskType, TaskStage, Sink
      <4>4. task'[t].at = "resolve"
        BY <4>2, TaskFields DEF TasksTyped, TaskType
      <4> QED BY <2>1, <4>4
    <3> QED BY <2>1, <2>3, <3>1 DEF CancelTask
  <2> QED BY <2>2, <2>3
<1>2. CASE task[t].at = "event" /\ OpenEvent(t)
  <2> DEFINE v == [task[t] EXCEPT !.at = "resolve", !.ending = "cancel"]
  <2>1. task' = [task EXCEPT ![t] = v] /\ UNCHANGED <<pins, locks, ring, stray>>
    BY <1>2 DEF CancelTask
  <2>2. v \in TaskType /\ v.at = "resolve"
    BY TaskFields DEF TaskType, TaskStage, Sink
  <2> HIDE DEF v
  <2> QED BY <1>2, <2>1, <2>2, TaskPut
<1> QED BY <1>1, <1>2 DEF CancelTask

(* A reconciling pass takes its decision; the requests and the lock follow.  *)
LEMMA PassTypedStep ==
  ASSUME TypeOK, NEW p \in Reconcilers, Pass(p)
  PROVE  PassTyped' /\ CallTyped' /\ RingTyped' /\ LockTyped'
<1> USE TypeParts
<1>1. pass[p].revision \in 0..MaxEdits
  BY DEF PassTyped, PassType
<1>2. CASE PassRead(p)
  <2>1. CallTyped' /\ RingTyped' /\ LockTyped'
    BY <1>2 DEF PassRead, CallTyped, RingTyped, LockTyped, ringVars, locks
  <2>2. PICK resolved \in BOOLEAN : pass' = [pass EXCEPT ![p] =
            [at |-> "lock", revision |-> revision,
             eligible |-> resolved /\ wanted /\ (~recorder \/ required)]]
    BY <1>2 DEF PassRead
  <2>3. (resolved /\ wanted /\ (~recorder \/ required)) \in BOOLEAN
    BY Zenon
  <2>4. PICK e \in BOOLEAN : pass' = [pass EXCEPT ![p] =
            [at |-> "lock", revision |-> revision, eligible |-> e]]
    BY <2>2, <2>3, Zenon
  <2>5. [at |-> "lock", revision |-> revision, eligible |-> e] \in PassType
    BY DEF PassType, RowsTyped
  <2> QED BY <2>1, <2>4, <2>5 DEF PassTyped
<1>3. ASSUME PassDone(p) PROVE PassTyped' /\ CallTyped' /\ lock' = None
  BY <1>3, EmptyRecords DEF PassDone, PassTyped, CallTyped, CallType
<1>4. ASSUME BeginHalt PROVE RingTyped' \/ ~UNCHANGED <<stray, raced>>
  BY <1>4 DEF BeginHalt, RingTyped, RingType
<1>5. CASE PassAct(p)
  <2>1. RingTyped'
    BY <1>1, <1>4, <1>5, EmptyRecords DEF PassAct, RingTyped
  <2>2. CASE PassDone(p)
    BY <1>3, <1>5, <2>1, <2>2 DEF PassAct, BeginHalt, LockTyped
  <2>3. CASE BeginHalt /\ lock' = p /\ UNCHANGED call /\ (PassAt(p, "act") \/ PassAt(p, "replace"))
    BY <1>5, <2>1, <2>3 DEF BeginHalt, LockTyped, PassAt, PassTyped, PassType, CallTyped
  <2> QED BY <1>5, <2>2, <2>3 DEF PassAct
<1>6. CASE PassHalted(p)
  <2>1. [ring EXCEPT !.held = FALSE] \in RingType
    BY DEF RingTyped, RingType
  <2>2. RingTyped'
    BY <1>1, <1>6, <2>1, EmptyRecords DEF PassHalted, RingTyped
  <2> QED BY <1>3, <1>6, <2>2 DEF PassHalted, LockTyped
<1> QED BY <1>2, <1>5, <1>6 DEF Pass

(* What a step of the ring, its stop or its lock leaves is typed.           *)
LEMMA RingTypedStep ==
  ASSUME TypeOK
  PROVE  /\ Ring => RingTyped'
         /\ HaltSteps => RingTyped' /\ LockTyped'
         /\ BeginHalt => ring' \in RingType /\ halt' \in {"signal", "join"}
         /\ Cut => ring' \in RingType /\ stray' \in BOOLEAN
         /\ [ring EXCEPT !.held = FALSE] \in RingType
         /\ [ring EXCEPT !.stop = FALSE, !.task = "ready"] \in RingType
<1> USE TypeParts
<1>1. Ring => RingTyped'
  BY DEF RingTyped, RingType, Ring, RingStep, RingAt, AfterRun
<1>2. BeginHalt => ring' \in RingType /\ halt' \in {"signal", "join"}
  BY DEF BeginHalt, RingTyped, RingType
<1>3. Cut => ring' \in RingType /\ stray' \in BOOLEAN
  BY DEF Cut, RingTyped, RingType
<1>4. /\ [ring EXCEPT !.held = FALSE] \in RingType
      /\ [ring EXCEPT !.stop = FALSE, !.task = "ready"] \in RingType
  BY DEF RingTyped, RingType
<1>5. HaltSteps => RingTyped' /\ LockTyped'
  BY <1>3 DEF HaltSteps, RingTyped, LockTyped
<1> QED BY <1>1, <1>2, <1>3, <1>4, <1>5

(* A request's step replaces its record by one of the type.                 *)
LEMMA CallStepTyped ==
  ASSUME TypeOK, NEW c \in Callers, Request(c) \/ Serve(c)
  PROVE  CallTyped' /\ RowsTyped'
<1> USE TypeParts
<1>1. call[c].victim \in {None} \cup Tasks /\ call[c].op \in {"none", "settings", "reload", "record"}
  BY DEF CallTyped, CallType
<1>2. ASSUME NEW op \in {"settings", "reload", "record"},
             NEW at \in {"restart", "motion", "recorder", "ringLock"},
             call' = [call EXCEPT ![c] = [NoCall EXCEPT !.op = op, !.at = at]]
      PROVE  CallTyped'
  <2>1. [NoCall EXCEPT !.op = op, !.at = at] \in CallType
    BY EmptyRecords DEF NoCall, CallType
  <2> QED BY <1>2, <2>1, CallPut
<1>3. CASE Request(c)
  <2>1. CallTyped'
    <3>1. CASE call' = [call EXCEPT ![c] = [NoCall EXCEPT !.op = "record",
                                    !.at = IF required THEN "recorder" ELSE "ringLock"]]
      BY <1>2, <3>1
    <3> QED BY <1>2, <1>3, <3>1 DEF Request
  <2>2. wanted' \in BOOLEAN /\ UNCHANGED <<recorder, events, collided>>
    BY <1>3 DEF Request, RowsTyped, rows, motion
  <2>3. revision' \in 0..MaxEdits
    BY <1>3 DEF Request, RowsTyped, rows
  <2>4. requests' \in 0..MaxRequests
    BY <1>3, EventAssumption DEF Request, RowsTyped
  <2> QED BY <2>1, <2>2, <2>3, <2>4 DEF RowsTyped
<1>4. CallDone(c) => CallTyped'
  BY EmptyRecords, CallPut DEF CallDone
<1>5. CASE TakeMotion(c)
  <2>1. RowsTyped'
    BY <1>5 DEF TakeMotion, RowsTyped, rows
  <2>2. CASE call' = [call EXCEPT ![c].victim = table]
    BY <2>1, <2>2 DEF CallTyped, CallType, NamesTyped
  <2>3. CASE CallAt(c, IF call[c].at = "motion" THEN "ringLock" ELSE "load")
    BY <2>1, <2>3 DEF CallAt, CallTyped, CallType
  <2> QED BY <1>5, <2>2, <2>3 DEF TakeMotion
<1>6. CASE MotionEnded(c)
  <2> DEFINE v == [call[c] EXCEPT !.victim = None, !.at =
                     IF call[c].at = "motion" THEN "ringLock" ELSE "load"]
  <2>1. call' = [call EXCEPT ![c] = v]
    BY <1>6 DEF MotionEnded, CallTyped
  <2>2. v \in CallType
    BY DEF CallTyped, CallType
  <2> HIDE DEF v
  <2> QED BY <1>6, <2>1, <2>2, CallPut DEF MotionEnded, RowsTyped, rows, motion
<1>7. CASE Load(c)
  <2>1. PICK r \in {-1} \cup {n \in {revision} : wanted} :
          call' = [call EXCEPT ![c].at = "create", ![c].revision = r]
    BY <1>7 DEF Load
  <2>2. r \in -1..MaxEdits
    BY BoundsNat DEF RowsTyped
  <2>3. CallTyped'
    BY <2>1, <2>2, ZenonT(60) DEF CallTyped, CallType
  <2> QED BY <1>7, <2>3 DEF Load, RowsTyped, rows, motion
<1>8. CASE Create(c)
  BY <1>4, <1>8 DEF Create, RowsTyped, rows
<1>9. CASE RingLock(c) \/ RingStopped(c)
  BY <1>9, CallMoved DEF RingLock, RingStopped, RowsTyped, rows, motion
<1>10. CASE Recorder(c) \/ Restore(c)
  BY <1>4, <1>10, CallMoved DEF Recorder, Restore, RowsTyped, rows, motion
<1> QED BY <1>3, <1>5, <1>6, <1>7, <1>8, <1>9, <1>10 DEF Serve

(* The rest of the type invariant under a step of a detection task.         *)
LEMMA TaskStepRest ==
  ASSUME TypeOK, NEW t \in Tasks, MotionTask(t)
  PROVE  RowsTyped' /\ RingTyped' /\ PinsTyped' /\ LockTyped' /\ NamesTyped'
         /\ PassTyped' /\ CallTyped'
<1> USE TypeParts
<1> USE DEF Quiet, pins, locks, ringVars, rows
<1>1. CASE Supervise(t) \/ CloseEvent(t) \/ Resolve(t) \/ Query(t) \/ CaptureLock(t)
  BY <1>1 DEF Supervise, CloseEvent, Resolve, Query, CaptureLock, RowsTyped, RingTyped,
              PinsTyped, LockTyped, NamesTyped, PassTyped, CallTyped
<1>2. CASE Confirm(t)
  <2>1. events' \in 0..MaxEvents
    BY <1>2, EventAssumption DEF Confirm, RowsTyped
  <2>2. required' \in BOOLEAN /\ pinned' \in BOOLEAN
    <3>1. required' = (required \/ (RingRunning /\ ~recorder))
      BY <1>2 DEF Confirm
    <3>2. (required \/ (RingRunning /\ ~recorder)) \in BOOLEAN
      BY Zenon
    <3> QED BY <1>2, <3>1, <3>2 DEF Confirm
  <2> QED BY <1>2, <2>1, <2>2 DEF Confirm, RowsTyped, RingTyped,
              PinsTyped, LockTyped, NamesTyped, PassTyped, CallTyped
<1>3. CASE CaptureStop(t) \/ CaptureSnapshot(t)
  <2>1. RingTyped' /\ LockTyped'
    BY <1>3, RingTypedStep DEF CaptureStop, CaptureSnapshot, RingTyped, LockTyped
  <2> QED BY <1>3, <2>1 DEF CaptureStop, CaptureSnapshot, RowsTyped,
              PinsTyped, NamesTyped, PassTyped, CallTyped
<1>4. CASE Materialize(t) \/ Insert(t)
  BY <1>4, ZenonT(60) DEF Materialize, Insert, RowsTyped, RingTyped,
              PinsTyped, LockTyped, NamesTyped, PassTyped, CallTyped
<1> QED BY <1>1, <1>2, <1>3, <1>4 DEF MotionTask

LEMMA StepTyped == TypeOK /\ [Next]_vars => TypeOK'
<1> SUFFICES ASSUME TypeOK, [Next]_vars PROVE TypeOK'
  OBVIOUS
<1> USE TypeParts, TypePartsNext
<1> USE DEF pins, locks, ringVars, rows, motion
<1>1. CASE Ring \/ HaltSteps \/ RecorderStops
  BY <1>1, RingTypedStep DEF Ring, HaltSteps, RecorderStops, RowsTyped, RingTyped, LockTyped,
              TasksTyped, PinsTyped, NamesTyped, PassTyped, CallTyped
<1>2. ASSUME NEW p \in Reconcilers, Pass(p) PROVE TypeOK'
  BY <1>2, PassTypedStep DEF Pass, PassRead, PassAct, PassHalted, RowsTyped, TasksTyped,
              PinsTyped, NamesTyped
<1>3. ASSUME NEW t \in Tasks, MotionTask(t) PROVE TypeOK'
  BY <1>3, TaskStep, TaskStepRest DEF MotionTask, Moves
<1>4. ASSUME NEW c \in Callers, TakeMotion(c) PROVE TypeOK'
  <2>1. CallTyped' /\ RowsTyped'
    BY <1>4, CallStepTyped DEF Serve
  <2>2. CASE CancelTask(table) /\ table # None
    <3>1. table \in Tasks
      BY <2>2 DEF NamesTyped
    <3>2. TasksTyped'
      BY <2>2, <3>1, Cancelled
    <3>3. RingTyped' /\ LockTyped' /\ PinsTyped' /\ NamesTyped'
      BY <1>4, <2>2, RingTypedStep
         DEF TakeMotion, CancelTask, RingTyped, LockTyped, PinsTyped, NamesTyped
    <3> QED BY <1>4, <2>1, <3>2, <3>3 DEF TakeMotion, PassTyped
  <2>3. CASE UNCHANGED <<task, capturing, ring, stray, pins, locks>>
    BY <1>4, <2>1, <2>3 DEF TakeMotion, PassTyped, RingTyped, LockTyped, PinsTyped, NamesTyped,
                            TasksTyped
  <2> QED BY <1>4, <2>2, <2>3 DEF TakeMotion
<1>5. ASSUME NEW c \in Callers, Create(c) PROVE TypeOK'
  <2>1. CallTyped' /\ RowsTyped'
    BY <1>5, CallStepTyped DEF Serve
  <2>2. TasksTyped' /\ NamesTyped'
    <3>1. CASE UNCHANGED <<task, table>>
      BY <1>5, <3>1 DEF Create, TasksTyped, NamesTyped
    <3>2. CASE call[c].revision # -1
      <4>1. PICK t \in Tasks :
              /\ task' = [task EXCEPT ![t] =
                   [NoTask EXCEPT !.at = "ready", !.revision = call[c].revision]]
              /\ table' = t
        BY <1>5, <3>2 DEF Create
      <4>2. call[c].revision \in 0..MaxEdits
        BY <3>2, EventAssumption DEF CallTyped, CallType
      <4>3. [NoTask EXCEPT !.at = "ready", !.revision = call[c].revision] \in TaskType
        BY <4>2 DEF NoTask, TaskType, TaskStage
      <4> QED BY <1>5, <4>1, <4>3, TaskPut DEF Create, NamesTyped
    <3> QED BY <1>5, <3>1, <3>2 DEF Create
  <2> QED BY <1>5, <2>1, <2>2 DEF Create, PassTyped, RingTyped, LockTyped, PinsTyped
<1>6. ASSUME NEW c \in Callers,
             Request(c) \/ MotionEnded(c) \/ Load(c) \/ Recorder(c) \/ Restore(c)
      PROVE  TypeOK'
  BY <1>6, CallStepTyped DEF Serve, Request, MotionEnded, Load, Recorder, Restore, PassTyped,
                             RingTyped, LockTyped, PinsTyped, NamesTyped, TasksTyped
<1>7. ASSUME NEW c \in Callers, RingLock(c) \/ RingStopped(c) PROVE TypeOK'
  <2>1. RingTyped' /\ LockTyped'
    BY <1>7, RingTypedStep DEF RingLock, RingStopped, RingTyped, LockTyped, Reconcilers
  <2> QED BY <1>7, <2>1, CallStepTyped
          DEF Serve, RingLock, RingStopped, PassTyped, PinsTyped, NamesTyped, TasksTyped
<1>8. CASE UNCHANGED vars
  BY <1>8 DEF vars, RowsTyped, RingTyped, LockTyped, TasksTyped, PinsTyped, NamesTyped,
              PassTyped, CallTyped
<1> QED
  BY <1>1, <1>2, <1>3, <1>4, <1>5, <1>6, <1>7, <1>8 DEF Next, Serve

(* Every variable keeps its type.                                          *)
THEOREM Typed == Spec => []TypeOK
BY InitTyped, StepTyped, PTL DEF Spec, Safety

-----------------------------------------------------------------------------
(* What is left behind                                                     *)
(* Whoever stops the ring holds its lock and has asked it to stop; while it  *)
(* waits for the ring's task, FFmpeg can only run if it came to life after  *)
(* that, and only then can one be left running.                            *)
HaltInv ==
  /\ lock = None => halt = "no"
  /\ halt # "no" => ring.stop
  /\ halt = "join" /\ ring.task = "run" => raced
  /\ stray => raced

(* The file of a clip without a row is its task's, which is about to commit *)
(* the row or has been cut off there.                                      *)
ClipInv == clip # None => task[clip].at \in {"clipped", "done"}

LEMMA InitClean == Init => HaltInv /\ ClipInv
BY DEF Init, HaltInv, ClipInv

LEMMA StepHalt == TypeOK /\ HaltInv /\ [Next]_vars => HaltInv'
<1> SUFFICES ASSUME TypeOK, HaltInv, [Next]_vars PROVE HaltInv'
  OBVIOUS
<1> USE TypeParts
<1> USE DEF pins, locks, ringVars, rows, motion, RingTyped, RingType
<1>1. ASSUME BeginHalt, UNCHANGED <<stray, raced>>, lock' # None PROVE HaltInv'
  BY <1>1 DEF BeginHalt, HaltInv
<1>2. CASE Ring
  BY <1>2 DEF Ring, RingStep, RingAt, AfterRun, HaltInv
<1>3. CASE HaltSteps
  BY <1>3 DEF HaltSteps, Halting, Cut, HaltInv
<1>4. ASSUME NEW p \in Reconcilers, Pass(p) PROVE HaltInv'
  <2>1. p # None
    BY EventAssumption DEF Reconcilers
  <2>2. CASE PassRead(p)
    BY <2>2 DEF PassRead, HaltInv
  <2>3. CASE PassAct(p)
    BY <1>1, <2>1, <2>3 DEF PassAct, PassDone, HaltInv, NewRing
  <2>4. CASE PassHalted(p)
    BY <2>4 DEF PassHalted, PassDone, HaltInv
  <2> QED BY <1>4, <2>2, <2>3, <2>4 DEF Pass
<1>5. ASSUME NEW t \in Tasks, MotionTask(t) PROVE HaltInv'
  <2>1. t # None
    BY EventAssumption
  <2>2. CASE CaptureStop(t)
    BY <1>1, <2>1, <2>2 DEF CaptureStop, HaltInv
  <2>3. CASE CaptureSnapshot(t)
    BY <2>3 DEF CaptureSnapshot, HaltInv
  <2> QED BY <1>5, <2>2, <2>3
          DEF MotionTask, Supervise, Confirm, CloseEvent, Resolve, Query, CaptureLock,
              Materialize, Insert, HaltInv
<1>6. ASSUME NEW c \in Callers, TakeMotion(c) PROVE HaltInv'
  BY <1>6 DEF TakeMotion, CancelTask, Cut, HaltInv
<1>7. ASSUME NEW c \in Callers, RingLock(c) \/ RingStopped(c) PROVE HaltInv'
  BY <1>1, <1>7, EventAssumption DEF RingLock, RingStopped, HaltInv
<1>8. ASSUME NEW c \in Callers, Request(c) \/ MotionEnded(c) \/ Load(c) \/ Create(c)
                                \/ Recorder(c) \/ Restore(c)
      PROVE  HaltInv'
  BY <1>8 DEF Request, MotionEnded, Load, Create, Recorder, Restore, HaltInv
<1>9. CASE RecorderStops \/ UNCHANGED vars
  BY <1>9 DEF RecorderStops, vars, HaltInv
<1> QED
  BY <1>2, <1>3, <1>4, <1>5, <1>6, <1>7, <1>8, <1>9 DEF Next, Serve

LEMMA StepClip == TypeOK /\ ClipInv /\ [Next]_vars => ClipInv'
<1> SUFFICES ASSUME TypeOK, ClipInv, [Next]_vars, clip' # None
             PROVE  task'[clip'].at \in {"clipped", "done"}
  BY DEF ClipInv
<1> USE TypeParts
<1>1. clip \in {None} \cup Tasks
  BY DEF NamesTyped
<1>2. CASE UNCHANGED <<task, clip>>
  BY <1>2 DEF ClipInv
<1>3. ASSUME NEW t \in Tasks, MotionTask(t) PROVE task'[clip'].at \in {"clipped", "done"}
  <2>1. CASE Materialize(t)
    BY <1>1, <2>1, TaskStep DEF Moves, ClipInv
  <2>2. CASE ~Materialize(t)
    <3>1. clip' = clip /\ task[t].at \notin {"clipped", "done"}
      BY <1>3, <2>2 DEF MotionTask, Supervise, Confirm, CloseEvent, Resolve, Query, CaptureLock,
                        CaptureStop, CaptureSnapshot, Insert
    <3>2. \A u \in Tasks \ {t} : task'[u] = task[u]
      BY <1>3, <2>2, TaskStep DEF MotionTask, Moves
    <3> QED BY <1>1, <3>1, <3>2 DEF ClipInv
  <2> QED BY <2>1, <2>2
<1>4. ASSUME NEW c \in Callers, TakeMotion(c) PROVE task'[clip'].at \in {"clipped", "done"}
  <2>1. CASE CancelTask(table) /\ table # None
    <3>1. table \in Tasks
      BY <2>1 DEF NamesTyped
    <3> QED BY <1>1, <1>4, <2>1, <3>1, Cancelled DEF ClipInv, TakeMotion, OpenEvent, Open, Sink
  <2> QED BY <1>2, <1>4, <2>1 DEF TakeMotion
<1>5. ASSUME NEW c \in Callers, Create(c) PROVE task'[clip'].at \in {"clipped", "done"}
  BY <1>1, <1>5, EventAssumption DEF Create, ClipInv, TasksTyped
<1>6. ASSUME NEW c \in Callers, Request(c) \/ MotionEnded(c) \/ Load(c) \/ RingLock(c)
                                \/ RingStopped(c) \/ Recorder(c) \/ Restore(c)
      PROVE  UNCHANGED <<task, clip>>
  BY <1>6 DEF Request, MotionEnded, Load, RingLock, RingStopped, Recorder, Restore, motion
<1>7. ASSUME NEW p \in Reconcilers, Pass(p) PROVE UNCHANGED <<task, clip>>
  BY <1>7 DEF Pass, PassRead, PassAct, PassHalted, motion
<1>8. CASE Ring \/ HaltSteps \/ RecorderStops \/ UNCHANGED vars
  BY <1>2, <1>8 DEF Ring, HaltSteps, RecorderStops, vars, motion
<1> QED
  BY <1>2, <1>3, <1>4, <1>5, <1>6, <1>7, <1>8 DEF Next, Serve

(* Neither FFmpeg nor a clip is left behind, but for the two cases           *)
(* NothingLeft names.                                                      *)
THEOREM NothingIsLeft == Spec => []NothingLeft
<1>1. Init => TypeOK /\ HaltInv /\ ClipInv
  BY InitTyped, InitClean
<1>2. TypeOK /\ HaltInv /\ ClipInv /\ [Next]_vars => (TypeOK /\ HaltInv /\ ClipInv)'
  BY StepTyped, StepHalt, StepClip
<1>3. HaltInv /\ ClipInv => NothingLeft
  BY DEF HaltInv, ClipInv, NothingLeft
<1> QED BY <1>1, <1>2, <1>3, PTL DEF Spec, Safety

-----------------------------------------------------------------------------
(* One detection task                                                      *)
(* A request that has taken a task from the table waits for it where it has *)
(* taken it, and one whose pass is under way is at its pass.               *)
RestartInv ==
  /\ \A c \in Callers : /\ call[c].op = "none" => call[c].at = "idle"
                        /\ call[c].victim # None => call[c].at \in {"motion", "restart"}
  /\ \A c \in Callers : pass[c].at # "idle" => call[c].at = "pass"

(* Unless two of them met, at most one request is between taking the task   *)
(* and entering the next; the table is empty meanwhile, and every live task *)
(* is the table's or one being waited for.  The pin follows the open event. *)
MotionInv == ~collided =>
  /\ \A c, d \in Restarting : c = d
  /\ Restarting # {} => table = None
  /\ \A t \in Tasks : Live(t) => t = table \/ \E c \in Callers : call[c].victim = t
  /\ pinned <=> \E t \in Tasks : OpenEvent(t)
  /\ required => pinned

LEMMA InitMotion == Init => RestartInv /\ MotionInv
<1> SUFFICES ASSUME Init PROVE RestartInv /\ MotionInv
  OBVIOUS
<1>1. \A c \in Callers : call[c] = NoCall /\ pass[c] = NoPass
  BY DEF Init, Reconcilers
<1>2. RestartInv /\ Restarting = {}
  BY <1>1 DEF RestartInv, NoCall, NoPass, Restarting
<1>3. \A t \in Tasks : task[t].at = IF t = table THEN "ready" ELSE "new"
  BY DEF Init, NoTask
<1>4. /\ \A t \in Tasks : Live(t) => t = table
      /\ ~ \E t \in Tasks : OpenEvent(t)
  BY <1>3 DEF Live, OpenEvent, Open, Sink
<1> QED BY <1>2, <1>4 DEF Init, MotionInv

\* A request that keeps its task and stays on its side of load and create.
SameRestart(c) ==
  /\ call'[c].victim = call[c].victim
  /\ call'[c].at \in {"load", "create"} <=> call[c].at \in {"load", "create"}

LEMMA MotionStill ==
  ASSUME MotionInv, UNCHANGED <<task, table, pins, collided>>, \A c \in Callers : SameRestart(c)
  PROVE  MotionInv'
<1>1. Restarting' = Restarting
  BY DEF Restarting, SameRestart
<1> QED BY <1>1 DEF MotionInv, SameRestart, Live, OpenEvent, pins

LEMMA OneLive ==
  ASSUME TypeOK, MotionInv, ~collided, NEW t \in Tasks, NEW u \in Tasks, Live(t), Live(u)
  PROVE  t = u
<1>1. \A c \in Callers : call[c].victim # None => c \in Restarting
  BY DEF Restarting
<1> QED BY <1>1, EventAssumption DEF MotionInv

LEMMA StepRestart == TypeOK /\ RestartInv /\ [Next]_vars => RestartInv'
<1> SUFFICES ASSUME TypeOK, RestartInv, [Next]_vars PROVE RestartInv'
  OBVIOUS
<1> USE TypeParts
<1> USE DEF PassTyped, PassType
<1>1. CASE UNCHANGED <<call, pass>>
  BY <1>1 DEF RestartInv
<1>2. ASSUME NEW p \in Reconcilers, Pass(p) PROVE RestartInv'
  <2>1. CASE PassRead(p)
    BY <2>1, EventAssumption DEF PassRead, RestartInv, Reconcilers
  <2>2. ASSUME PassDone(p), pass[p].at # "idle" PROVE RestartInv'
    BY <2>2, EventAssumption
       DEF PassDone, RestartInv, Reconcilers, CallTyped, CallType, NoPass
  <2>3. ASSUME UNCHANGED call, pass[p].at # "idle", PassAt(p, "act") \/ PassAt(p, "replace")
        PROVE  RestartInv'
    BY <2>3, EventAssumption DEF PassAt, RestartInv, Reconcilers
  <2> QED BY <1>2, <2>1, <2>2, <2>3 DEF Pass, PassAct, PassHalted
<1>3. ASSUME NEW t \in Tasks, MotionTask(t) PROVE UNCHANGED <<call, pass>>
  BY <1>3 DEF MotionTask, Supervise, Confirm, CloseEvent, Resolve, Query, CaptureLock,
              CaptureStop, CaptureSnapshot, Materialize, Insert, Quiet
<1>4. ASSUME NEW c \in Callers, Request(c) \/ Serve(c), UNCHANGED pass,
             call[c].at # "pass",
             \A d \in Callers \ {c} : call'[d] = call[d],
             /\ call'[c].op = "none" => call'[c].at = "idle"
             /\ call'[c].victim # None => call'[c].at \in {"motion", "restart"}
      PROVE  RestartInv'
  BY <1>4 DEF RestartInv
<1>5. ASSUME NEW c \in Callers, Request(c) PROVE RestartInv'
  <2>1. \E at \in {"restart", "motion", "recorder", "ringLock"},
           op \in {"settings", "reload", "record"} :
             call' = [call EXCEPT ![c] = [NoCall EXCEPT !.op = op, !.at = at]]
    BY <1>5 DEF Request
  <2> QED BY <1>4, <1>5, <2>1 DEF Request, RestartInv, CallTyped, NoCall
<1>6. ASSUME NEW c \in Callers, TakeMotion(c) PROVE RestartInv'
  <2>1. CASE call' = [call EXCEPT ![c].victim = table]
    BY <1>4, <1>6, <2>1 DEF Serve, TakeMotion, RestartInv, CallTyped, CallType
  <2>2. CASE CallAt(c, IF call[c].at = "motion" THEN "ringLock" ELSE "load")
    BY <1>4, <1>6, <2>2 DEF Serve, TakeMotion, RestartInv, CallTyped, CallType, CallAt
  <2> QED BY <1>6, <2>1, <2>2 DEF TakeMotion
<1>7. ASSUME NEW c \in Callers, MotionEnded(c) PROVE RestartInv'
  <2>1. /\ call'[c].op = call[c].op /\ call'[c].victim = None
        /\ \A d \in Callers \ {c} : call'[d] = call[d]
    BY <1>7 DEF MotionEnded, CallTyped, CallType
  <2> QED BY <1>4, <1>7, <2>1 DEF Serve, MotionEnded, RestartInv
<1>8. ASSUME NEW c \in Callers, Load(c) PROVE RestartInv'
  <2>1. PICK r \in {-1} \cup {n \in {revision} : wanted} :
          call' = [call EXCEPT ![c].at = "create", ![c].revision = r]
    BY <1>8 DEF Load
  <2>2. /\ call'[c].op = call[c].op /\ call'[c].victim = call[c].victim
        /\ \A d \in Callers \ {c} : call'[d] = call[d]
    BY <2>1 DEF CallTyped, CallType
  <2> QED BY <1>4, <1>8, <2>2 DEF Serve, Load, RestartInv
<1>9. ASSUME NEW c \in Callers,
             RingLock(c) \/ RingStopped(c) \/ Create(c) \/ Recorder(c) \/ Restore(c)
      PROVE  RestartInv'
  <2>1. UNCHANGED pass /\ call[c].at \notin {"pass", "idle", "motion", "restart"}
    BY <1>9 DEF RingLock, RingStopped, Create, Recorder, Restore
  <2>2. CASE CallDone(c)
    <3>1. call'[c] = NoCall /\ \A d \in Callers \ {c} : call'[d] = call[d]
      BY <2>2 DEF CallDone, CallTyped
    <3> QED BY <1>4, <1>9, <2>1, <3>1 DEF Serve, NoCall
  <2>3. ASSUME NEW at \in {"ringStop", "recorder", "restore", "pass"}, CallAt(c, at)
        PROVE  RestartInv'
    <3>1. /\ call'[c].op = call[c].op /\ call'[c].victim = call[c].victim
          /\ \A d \in Callers \ {c} : call'[d] = call[d]
      BY <2>3 DEF CallAt, CallTyped, CallType
    <3> QED BY <1>4, <1>9, <2>1, <3>1 DEF Serve, RestartInv
  <2> QED BY <1>9, <2>2, <2>3 DEF RingLock, RingStopped, Create, Recorder, Restore
<1>10. CASE Ring \/ HaltSteps \/ RecorderStops \/ UNCHANGED vars
  BY <1>1, <1>10 DEF Ring, HaltSteps, RecorderStops, vars
<1> QED
  BY <1>1, <1>2, <1>3, <1>5, <1>6, <1>7, <1>8, <1>9, <1>10 DEF Next, Serve

(* A step of a detection task: it is the one live task, and moves the pin   *)
(* with its event.                                                         *)
LEMMA TaskMotion ==
  ASSUME TypeOK, MotionInv, ~collided, NEW t \in Tasks, MotionTask(t)
  PROVE  MotionInv'
<1> USE TypeParts
<1>1. UNCHANGED <<table, call, collided>>
  BY DEF MotionTask, Supervise, Confirm, CloseEvent, Resolve, Query, CaptureLock, CaptureStop,
         CaptureSnapshot, Materialize, Insert, Quiet
<1>2. Live(t) /\ \A u \in Tasks \ {t} : ~Live(u) /\ task'[u] = task[u]
  <2>1. Live(t)
    BY DEF MotionTask, Supervise, Confirm, CloseEvent, Resolve, Query, CaptureLock, CaptureStop,
           CaptureSnapshot, Materialize, Insert, Live
  <2>2. \A u \in Tasks \ {t} : task'[u] = task[u]
    BY TaskStep DEF MotionTask, Moves
  <2> QED BY <2>1, <2>2, OneLive
<1>3. \A u \in Tasks \ {t} : ~OpenEvent(u) /\ ~OpenEvent(u)' /\ ~Live(u)'
  BY <1>2 DEF OpenEvent, Open, Sink, Live
<1>4. (pinned <=> OpenEvent(t)) /\ (required => pinned)
  BY <1>3 DEF MotionInv
<1>5. (pinned' <=> OpenEvent(t)') /\ (required' => pinned')
  <2>1. CASE Supervise(t)
    BY <1>4, <2>1, TaskStep DEF Supervise, Moves, OpenEvent, Open, Sink, pins
  <2>2. CASE Confirm(t)
    BY <2>2, TaskStep DEF Confirm, Moves, OpenEvent, Open
  <2>3. CASE Insert(t)
    BY <2>3, TaskStep DEF Insert, Moves, OpenEvent, Open, Sink
  <2>4. CASE CloseEvent(t) \/ Resolve(t) \/ Query(t) \/ CaptureLock(t) \/ CaptureStop(t)
             \/ CaptureSnapshot(t) \/ Materialize(t)
    <3>1. OpenEvent(t) /\ UNCHANGED pins
      BY <2>4 DEF CloseEvent, Resolve, Query, CaptureLock, CaptureStop, CaptureSnapshot,
                  Materialize, OpenEvent, Open, Sink
    <3>2. OpenEvent(t)'
      BY <2>4, TaskStep DEF Moves, OpenEvent, Open, Sink
    <3> QED BY <1>4, <3>1, <3>2 DEF pins
  <2> QED BY <2>1, <2>2, <2>3, <2>4 DEF MotionTask
<1>6. Restarting' = Restarting
  BY <1>1 DEF Restarting
<1> QED BY <1>1, <1>2, <1>3, <1>5, <1>6 DEF MotionInv

(* A request that takes the task: no other restart is under way, the task   *)
(* in the table is the only one alive, and it is waited for if it was.      *)
LEMMA TakeMotionInv ==
  ASSUME TypeOK, RestartInv, MotionInv, ~collided', NEW c \in Callers, TakeMotion(c)
  PROVE  MotionInv'
<1> USE TypeParts
<1>1. ~collided /\ Restarting = {} /\ table' = None /\ call[c].victim = None
  <2>1. ~collided /\ Restarting \ {c} = {} /\ c \notin Restarting
    BY DEF TakeMotion, Restarting
  <2> QED BY <2>1 DEF TakeMotion
<1>2. \A t \in Tasks : Live(t) => t = table
  BY <1>1, EventAssumption DEF MotionInv, Restarting
<1>3. CASE table # None /\ Live(table)
  <2>1. PICK t \in Tasks : t = table /\ CancelTask(t) /\ call' = [call EXCEPT ![c].victim = t]
    BY <1>3 DEF TakeMotion, NamesTyped
  <2>2. call'[c].victim = t /\ \A d \in Callers \ {c} : call'[d] = call[d]
    BY <2>1 DEF CallTyped, CallType
  <2>3. Restarting' \subseteq {c}
    BY <1>1, <2>2 DEF Restarting
  <2>4. \A u \in Tasks \ {t} : ~Live(u) /\ ~OpenEvent(u) /\ ~Live(u)' /\ ~OpenEvent(u)'
    BY <1>2, <2>1, Cancelled DEF Live, OpenEvent, Open, Sink
  <2>5. (pinned' <=> OpenEvent(t)') /\ (required' => pinned')
    <3>1. (pinned <=> OpenEvent(t)) /\ (required => pinned)
      BY <1>1, <2>1, <2>4 DEF MotionInv
    <3>2. CASE ~OpenEvent(t) /\ task'[t].at = "done" /\ UNCHANGED pins
      BY <3>1, <3>2 DEF OpenEvent, Open, Sink, pins
    <3>3. CASE task[t].at = "event" /\ task'[t].at = "resolve" /\ UNCHANGED pins
      BY <3>1, <3>3 DEF OpenEvent, Open, Sink, pins
    <3>4. CASE task'[t].at = "done" /\ ~pinned' /\ ~required'
      BY <3>4 DEF OpenEvent, Open, Sink
    <3> QED BY <2>1, <3>2, <3>3, <3>4, Cancelled
  <2>6. \A u \in Tasks : Live(u)' => call'[c].victim = u
    BY <2>2, <2>4
  <2>7. pinned' <=> \E u \in Tasks : OpenEvent(u)'
    BY <2>1, <2>4, <2>5
  <2> QED BY <1>1, <2>3, <2>5, <2>6, <2>7 DEF MotionInv
<1>4. CASE ~(table # None /\ Live(table))
  <2>1. UNCHANGED <<task, pins>> /\ CallAt(c, IF call[c].at = "motion" THEN "ringLock" ELSE "load")
    BY <1>4 DEF TakeMotion
  <2>2. call'[c].victim = None /\ \A d \in Callers \ {c} : call'[d] = call[d]
    BY <1>1, <2>1 DEF CallAt, CallTyped, CallType
  <2>3. Restarting' \subseteq {c}
    BY <1>1, <2>2 DEF Restarting
  <2>4. \A t \in Tasks : ~Live(t) /\ ~OpenEvent(t) /\ ~Live(t)' /\ ~OpenEvent(t)'
    BY <1>2, <1>4, <2>1, EventAssumption DEF Live, OpenEvent, Open, Sink
  <2> QED BY <1>1, <2>1, <2>3, <2>4 DEF MotionInv, pins
<1> QED BY <1>3, <1>4

(* A request that enters the next task: the last one is over.               *)
LEMMA CreateInv ==
  ASSUME TypeOK, RestartInv, MotionInv, ~collided, NEW c \in Callers, Create(c)
  PROVE  MotionInv'
<1> USE TypeParts
<1>1. c \in Restarting /\ call[c].victim = None
  BY DEF Create, Restarting, RestartInv
<1>2. Restarting = {c} /\ table = None
  BY <1>1 DEF MotionInv, Restarting
<1>3. \A t \in Tasks : ~Live(t) /\ ~OpenEvent(t)
  BY <1>1, <1>2, EventAssumption DEF MotionInv, Live, OpenEvent, Open, Sink, Restarting
<1>4. call'[c] = NoCall /\ \A d \in Callers \ {c} : call'[d] = call[d]
  BY DEF Create, CallDone, CallTyped
<1>5. Restarting' = {}
  BY <1>2, <1>4 DEF Restarting, NoCall
<1>6. ~pinned' /\ ~required' /\ UNCHANGED collided
  BY <1>3 DEF Create, MotionInv, pins
<1>7. CASE UNCHANGED <<task, table>>
  BY <1>3, <1>5, <1>6, <1>7 DEF MotionInv, Live, OpenEvent
<1>8. ASSUME NEW t \in Tasks, table' = t, task' = [task EXCEPT ![t] =
               [NoTask EXCEPT !.at = "ready", !.revision = call[c].revision]]
      PROVE  MotionInv'
  <2>1. task'[t].at = "ready" /\ \A u \in Tasks \ {t} : task'[u] = task[u]
    BY <1>8 DEF TasksTyped, NoTask
  <2> QED BY <1>3, <1>5, <1>6, <1>8, <2>1 DEF MotionInv, Live, OpenEvent, Open, Sink
<1> QED BY <1>7, <1>8 DEF Create

LEMMA StepMotion == TypeOK /\ RestartInv /\ MotionInv /\ [Next]_vars => MotionInv'
<1> SUFFICES ASSUME TypeOK, RestartInv, MotionInv, [Next]_vars, ~collided' PROVE MotionInv'
  BY DEF MotionInv
<1> USE TypeParts
<1>1. ASSUME UNCHANGED call, UNCHANGED <<task, table, pins, collided>> PROVE MotionInv'
  BY <1>1, MotionStill DEF SameRestart
<1>2. CASE Ring \/ HaltSteps \/ RecorderStops \/ UNCHANGED vars
  BY <1>1, <1>2 DEF Ring, HaltSteps, RecorderStops, vars, motion
<1>3. ASSUME NEW p \in Reconcilers, Pass(p) PROVE MotionInv'
  <2>1. UNCHANGED <<task, table, pins, collided>>
    BY <1>3 DEF Pass, PassRead, PassAct, PassHalted, motion
  <2>2. ASSUME PassDone(p), pass[p].at # "idle" PROVE \A d \in Callers : SameRestart(d)
    BY <2>2 DEF PassDone, SameRestart, RestartInv, CallTyped, CallType
  <2>3. CASE UNCHANGED call
    BY <1>1, <2>1, <2>3
  <2> QED BY <1>3, <2>1, <2>2, <2>3, MotionStill DEF Pass, PassRead, PassAct, PassHalted
<1>4. ASSUME NEW t \in Tasks, MotionTask(t) PROVE MotionInv'
  <2>1. ~collided
    BY <1>4 DEF MotionTask, Supervise, Confirm, CloseEvent, Resolve, Query, CaptureLock,
                CaptureStop, CaptureSnapshot, Materialize, Insert, Quiet
  <2> QED BY <1>4, <2>1, TaskMotion
<1>5. ASSUME NEW c \in Callers, TakeMotion(c) PROVE MotionInv'
  BY <1>5, TakeMotionInv
<1>6. ASSUME NEW c \in Callers, Create(c) PROVE MotionInv'
  BY <1>6, CreateInv DEF Create
<1>7. ASSUME NEW c \in Callers, UNCHANGED <<task, table, pins, collided>>,
             \A d \in Callers \ {c} : call'[d] = call[d], SameRestart(c)
      PROVE  MotionInv'
  BY <1>7, MotionStill DEF SameRestart
<1>8. ASSUME NEW c \in Callers, Request(c) PROVE MotionInv'
  <2>1. \E at \in {"restart", "motion", "recorder", "ringLock"},
           op \in {"settings", "reload", "record"} :
             call' = [call EXCEPT ![c] = [NoCall EXCEPT !.op = op, !.at = at]]
    BY <1>8 DEF Request
  <2> QED BY <1>7, <1>8, <2>1
          DEF Request, RestartInv, CallTyped, NoCall, SameRestart, motion
<1>9. ASSUME NEW c \in Callers, MotionEnded(c) PROVE MotionInv'
  <2>1. /\ call'[c].victim = None /\ \A d \in Callers \ {c} : call'[d] = call[d]
        /\ call'[c].at \in {"ringLock", "load"} /\ ~Live(call[c].victim) /\ call[c].victim # None
    BY <1>9 DEF MotionEnded, CallTyped, CallType
  <2>2. UNCHANGED <<task, table, pins, collided>>
    BY <1>9 DEF MotionEnded, motion
  <2>3. Restarting' \subseteq Restarting
    BY <2>1 DEF Restarting
  <2>4. ASSUME NEW t \in Tasks, Live(t) PROVE t = table \/ \E d \in Callers : call'[d].victim = t
    BY <2>1, <2>2, <2>4 DEF MotionInv
  <2> QED BY <2>2, <2>3, <2>4 DEF MotionInv, Live, OpenEvent, pins
<1>10. ASSUME NEW c \in Callers, Load(c) PROVE MotionInv'
  <2>1. PICK r \in {-1} \cup {n \in {revision} : wanted} :
          call' = [call EXCEPT ![c].at = "create", ![c].revision = r]
    BY <1>10 DEF Load
  <2>2. SameRestart(c) /\ \A d \in Callers \ {c} : call'[d] = call[d]
    BY <1>10, <2>1 DEF Load, CallTyped, CallType, SameRestart
  <2> QED BY <1>7, <1>10, <2>2 DEF Load, motion
<1>11. ASSUME NEW c \in Callers, RingLock(c) \/ RingStopped(c) \/ Recorder(c) \/ Restore(c)
       PROVE  MotionInv'
  <2>1. /\ UNCHANGED <<task, table, pins, collided>>
        /\ call[c].at \in {"ringLock", "ringStop", "recorder", "restore"} /\ call[c].victim = None
    BY <1>11 DEF RingLock, RingStopped, Recorder, Restore, motion, RestartInv
  <2>2. CASE CallDone(c)
    <3>1. call'[c] = NoCall /\ \A d \in Callers \ {c} : call'[d] = call[d]
      BY <2>2 DEF CallDone, CallTyped
    <3> QED BY <1>7, <2>1, <3>1 DEF NoCall, SameRestart
  <2>3. ASSUME NEW at \in {"ringStop", "recorder", "restore", "pass"}, CallAt(c, at)
        PROVE  MotionInv'
    <3>1. /\ call'[c].at = at /\ call'[c].victim = call[c].victim
          /\ \A d \in Callers \ {c} : call'[d] = call[d]
      BY <2>3 DEF CallAt, CallTyped, CallType
    <3> QED BY <1>7, <2>1, <3>1 DEF SameRestart
  <2> QED BY <1>11, <2>2, <2>3 DEF RingLock, RingStopped, Recorder, Restore
<1> QED
  BY <1>2, <1>3, <1>4, <1>5, <1>6, <1>8, <1>9, <1>10, <1>11 DEF Next, Serve

\* No two live tasks: at most one, whether or not there are finitely many.
LEMMA AtMostOne ==
  ASSUME TypeOK, MotionInv PROVE OneMotionTask
<1> SUFFICES ASSUME ~collided PROVE Cardinality({t \in Tasks : Live(t)}) <= 1
  BY DEF OneMotionTask
<1>1. CASE {t \in Tasks : Live(t)} = {}
  BY <1>1, FS_EmptySet
<1>2. ASSUME NEW t \in Tasks, Live(t) PROVE Cardinality({u \in Tasks : Live(u)}) <= 1
  <2>1. {u \in Tasks : Live(u)} = {t}
    BY <1>2, OneLive
  <2>2. Cardinality({t}) = 1
    BY FS_Singleton
  <2> QED BY <2>1, <2>2
<1> QED BY <1>1, <1>2

LEMMA MotionSafe == Spec => [](OneMotionTask /\ PinsMatch)
<1> DEFINE IInv == TypeOK /\ RestartInv /\ MotionInv
<1>1. Init => IInv
  BY InitTyped, InitMotion
<1>2. IInv /\ [Next]_vars => IInv'
  BY StepTyped, StepRestart, StepMotion
<1>3. IInv => OneMotionTask /\ PinsMatch
  BY AtMostOne DEF MotionInv, PinsMatch
<1> QED BY <1>1, <1>2, <1>3, PTL DEF Spec, Safety

(* A camera has one detection task at any time, unless two restarts met.   *)
THEOREM OneTask == Spec => []OneMotionTask
BY MotionSafe, PTL

(* The pin of an event's pre-roll lasts as long as the event is open,      *)
(* unless two restarts met.                                                *)
THEOREM OnePin == Spec => []PinsMatch
BY MotionSafe, PTL
=============================================================================
