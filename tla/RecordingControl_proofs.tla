------------------------ MODULE RecordingControl_proofs -----------------------
(***************************************************************************)
(* Safety of RecordingControl for any number of cameras and requests.       *)
(***************************************************************************)
EXTENDS RecordingControl, TLAPS

-----------------------------------------------------------------------------
(* Types                                                                   *)
\* A task has a camera in hand, except between requests, passes and visits.
Unassigned == {"idle", "load", "visit", "reset"}
Locals == {l \in Local : l.at \notin Unassigned => l.camera \in Camera}

RowsTyped == policy \in [Camera -> Policy] /\ window \in [Camera -> BOOLEAN]
             /\ revision \in [Camera -> Nat]
PhaseType == {"stopped", "running", "leaving", "stopping"}
RecorderTyped == phase \in [Camera -> PhaseType] /\ serving \in [Camera -> Nat]
OwnersTyped == {managed, manualRunning, manualPaused} \subseteq SUBSET Camera
TaskTyped == task \in [Task -> Locals]
CpuTyped == cpu \in Task \cup {None}
QueueTyped == queue \in Seq(Task)
BoundsTyped ==
  /\ issued \in 0 .. MaxRequests /\ ticks \in [Camera -> 0 .. MaxTicks]
  /\ {stopAsked, reloaded, replanned, crossed} \subseteq SUBSET Camera

\* TypeOK, part by part, with the camera in hand.
Typed ==
  /\ RowsTyped /\ RecorderTyped /\ OwnersTyped /\ TaskTyped /\ CpuTyped /\ QueueTyped
  /\ BoundsTyped

LEMMA TypedIsTypeOK == Typed => TypeOK
<1>1. RowsTyped => [c \in Camera |-> IF policy[c] \in {"gone", "disabled"} THEN 0 ELSE revision[c]]
                     \in [Camera -> Nat]
  BY DEF RowsTyped
<1>2. TaskTyped => task \in [Task -> Local]
  BY DEF TaskTyped, Locals
<1> QED BY <1>1, <1>2
        DEF Typed, TypeOK, RowsTyped, RecorderTyped, OwnersTyped, CpuTyped, QueueTyped,
             BoundsTyped, Recorder!ServiceTypeOK, Recorder!Phase, PhaseType, Revision

\* The fields of a task's locals.
LEMMA LocalFields ==
  ASSUME NEW l \in Local
  PROVE  /\ l.kind \in Kind \cup {"none"} /\ l.camera \in Camera \cup {None} /\ l.at \in Point
         /\ l.op \in {"start", "stop", "none"} /\ l.then \in Point /\ l.config \in Nat
         /\ l.was \in BOOLEAN /\ l.owner \in Owner /\ l.sched \in BOOLEAN
         /\ l.view \in [Camera -> Row] /\ l.todo \in SUBSET Camera
BY DEF Local, Revision

\* Locals that go to another point, with or without a call of the recorder.
LEMMA LocalMoved ==
  ASSUME NEW l \in Locals, NEW at \in Point, at \in Unassigned \/ l.at \notin Unassigned
  PROVE  /\ [l EXCEPT !.at = at] \in Locals
         /\ \A op \in {"start", "stop", "none"}, then \in Point :
              [l EXCEPT !.op = op, !.then = then, !.at = at] \in Locals
BY DEF Local, Locals

\* Locals with a camera in hand that are about to call the recorder.
LEMMA LocalCalls ==
  ASSUME NEW l \in Local, l.camera \in Camera, NEW at \in Point,
         NEW op \in {"start", "stop", "none"}, NEW then \in Point, NEW n \in Nat
  PROVE  /\ [l EXCEPT !.op = op, !.then = then, !.at = at] \in Locals
         /\ [l EXCEPT !.op = op, !.then = then, !.at = at, !.config = n] \in Locals
         /\ [l EXCEPT !.camera = None, !.at = "visit"] \in Locals
<1>1. [l EXCEPT !.op = op, !.then = then, !.at = at] \in Locals
  BY DEF Local, Locals
<1>2. [l EXCEPT !.op = op, !.then = then, !.at = at, !.config = n] \in Locals
  BY DEF Local, Locals, Revision
<1>3. [l EXCEPT !.camera = None, !.at = "visit"] \in Locals
  BY DEF Local, Locals, Unassigned, Point
<1> QED BY <1>1, <1>2, <1>3

LEMMA IdleTyped ==
  /\ Idle \in Locals /\ Idle.at = "idle"
  /\ \A k \in Kind, c \in Camera : Asked(k, c) \in Local /\ Asked(k, c).camera = c
<1>1. NoView \in [Camera -> Row]
  BY DEF NoView, Row, Policy, Revision
<1> QED BY <1>1 DEF Idle, Asked, Local, Locals, Unassigned, Point, Owner, Revision

\* A task goes on with other locals (Continue, Await).
LEMMA TaskPut ==
  ASSUME Typed, NEW t \in Task, NEW v \in Locals, Continue(t, v) \/ Await(t, v)
  PROVE  TaskTyped' /\ CpuTyped' /\ task'[t] = v /\ \A u \in Task \ {t} : task'[u] = task[u]
BY DEF Typed, TaskTyped, CpuTyped, Continue, Await

LEMMA InitTyped == Init => Typed
<1> SUFFICES ASSUME Init PROVE Typed
  OBVIOUS
<1>1. TaskTyped
  BY IdleTyped DEF Init, TaskTyped
<1>2. RowsTyped /\ RecorderTyped /\ OwnersTyped
  BY DEF Init, RowsTyped, RecorderTyped, OwnersTyped, PhaseType
<1>3. 0 \in 0 .. MaxRequests /\ 0 \in 0 .. MaxTicks
  BY ControlAssumption
<1>4. BoundsTyped /\ CpuTyped /\ QueueTyped
  BY <1>3 DEF Init, BoundsTyped, CpuTyped, QueueTyped
<1> QED BY <1>1, <1>2, <1>4 DEF Typed

\* What a step that leaves the rows, the recorder, the owners, the queue or
\* the bounds alone keeps of the type invariant.
LEMMA PartsKept ==
  ASSUME Typed
  PROVE  /\ UNCHANGED rowVars => RowsTyped'
         /\ UNCHANGED recorderVars => RecorderTyped'
         /\ UNCHANGED ownerVars => OwnersTyped'
         /\ UNCHANGED task => TaskTyped'
         /\ UNCHANGED cpu => CpuTyped'
         /\ UNCHANGED queue => QueueTyped'
         /\ UNCHANGED boundVars => BoundsTyped'
BY DEF Typed, rowVars, recorderVars, ownerVars, boundVars, askedVars, RowsTyped, RecorderTyped,
                 OwnersTyped, TaskTyped, CpuTyped, QueueTyped, BoundsTyped

\* The recorder's own steps.
LEMMA RecorderStepsTyped ==
  ASSUME Typed, NEW c
  PROVE  /\ \A r \in Nat : Recorder!Open(c, r) => RecorderTyped'
         /\ Recorder!BeginStop(c) => RecorderTyped'
         /\ Recorder!Outdate(c) => RecorderTyped'
         /\ Recorder!Close(c) => RecorderTyped'
<1> USE DEF Typed
<1>1. ASSUME NEW r \in Nat, Recorder!Open(c, r) PROVE RecorderTyped'
  BY <1>1 DEF RecorderTyped, PhaseType, Recorder!Open
<1>2. Recorder!BeginStop(c) => RecorderTyped'
  BY DEF RecorderTyped, PhaseType, Recorder!BeginStop
<1>3. Recorder!Outdate(c) => RecorderTyped'
  BY DEF RecorderTyped, PhaseType, Recorder!Outdate
<1>4. ASSUME Recorder!Close(c) PROVE RecorderTyped'
  <2>1. phase' = [phase EXCEPT ![c] = "stopped"] /\ serving' = [serving EXCEPT ![c] = 0]
    BY <1>4 DEF Recorder!Close, Recorder!Unusable
  <2> QED BY <2>1 DEF RecorderTyped, PhaseType
<1> QED BY <1>1, <1>2, <1>3, <1>4

\* The steps around the recorder's lock.
LEMMA LockTyped ==
  ASSUME Typed, NEW t \in Task,
         Queue(t) \/ StartRecorder(t) \/ StopRecorder(t) \/ StopReturns(t) \/ RingStopped(t)
         \/ Again(t)
  PROVE  Typed'
<1> USE PartsKept
<1> USE DEF Typed
<1>1. task[t] \in Locals
  BY DEF TaskTyped
<1> DEFINE goes(at) == [task[t] EXCEPT !.at = at]
<1>2. task[t].at \notin Unassigned
  BY DEF Queue, StartRecorder, StopRecorder, StopReturns, RingStopped, Again, Acquire, Runs, Unassigned
<1>3. \A at \in Point : goes(at) \in Locals
  BY <1>1, <1>2, LocalMoved
<1>4. task[t].then \in Point /\ task[t].config \in Nat
  BY <1>1, LocalFields DEF Locals
<1>5. ASSUME NEW v \in Locals, Continue(t, v) \/ Await(t, v) PROVE TaskTyped' /\ CpuTyped'
  BY <1>5, TaskPut
<1>6. Acquire(t) => QueueTyped'
  BY DEF Acquire, QueueTyped
<1>7. CASE Queue(t)
  <2>1. QueueTyped'
    BY <1>7 DEF Queue, QueueTyped
  <2>2. goes("queued") \in Locals
    BY <1>3 DEF Point
  <2> QED BY <1>5, <1>7, <2>1, <2>2 DEF Queue
<1>8. CASE StartRecorder(t) \/ StopRecorder(t) \/ StopReturns(t)
  <2>1. RecorderTyped'
    BY <1>4, <1>8, RecorderStepsTyped DEF StartRecorder, StopRecorder, StopReturns
  <2>2. goes(task[t].then) \in Locals /\ goes("stopping") \in Locals
    BY <1>3, <1>4 DEF Point
  <2>3. TaskTyped' /\ CpuTyped'
    BY <1>5, <1>8, <2>2 DEF StartRecorder, StopRecorder, StopReturns
  <2> QED BY <1>6, <1>8, <2>1, <2>3 DEF StartRecorder, StopRecorder, StopReturns
<1>9. CASE RingStopped(t)
  <2>1. goes("lock") \in Locals
    BY <1>3 DEF Point
  <2> QED BY <1>5, <1>9, <2>1 DEF RingStopped
<1>10. CASE Again(t)
  <2>1. Call(t, "start", "noteStart", "lock") \in Locals
    BY <1>1, <1>2, LocalMoved DEF Call, Point
  <2> QED BY <1>5, <1>10, <2>1 DEF Again
<1> QED BY <1>7, <1>8, <1>9, <1>10

\* The steps of a pass, and of the manager's own task.
LEMMA PassStepsTyped ==
  ASSUME Typed, NEW t \in Task,
         Wake \/ LoadRows(t) \/ (\E c \in Camera : Visit(t, c)) \/ Settle(t) \/ Own(t)
         \/ Disown(t) \/ EndPass(t)
  PROVE  Typed'
<1> USE PartsKept
<1> USE DEF Typed
<1>1. task[t] \in Local /\ task[t] \in Locals
  BY DEF TaskTyped, Locals
<1>2. ASSUME NEW u \in Task, NEW v \in Locals, Continue(u, v) \/ Await(u, v)
      PROVE  TaskTyped' /\ CpuTyped'
  BY <1>2, TaskPut
<1>3. Idle \in Local
  BY IdleTyped DEF Locals
<1>4. CASE Wake
  <2>1. [Idle EXCEPT !.at = "load"] \in Locals
    BY <1>3 DEF Local, Locals, Unassigned, Point
  <2> QED BY <1>2, <1>4, <2>1 DEF Wake, Task
<1>5. CASE LoadRows(t)
  <2> DEFINE known == {c \in Camera : policy[c] # "gone"}
             rows == [c \in Camera |-> [policy |-> policy[c], window |-> window[c],
                                        revision |-> revision[c]]]
             v == [Idle EXCEPT !.at = "visit", !.todo = known, !.view = rows]
  <2>1. rows \in [Camera -> Row] /\ known \in SUBSET Camera
    BY DEF RowsTyped, Row, Revision
  <2> HIDE DEF known, rows
  <2>2. v \in Locals
    BY <1>3, <2>1 DEF Local, Locals, Unassigned, Point
  <2>3. Continue(t, v) /\ OwnersTyped'
    BY <1>5 DEF LoadRows, known, rows, OwnersTyped
  <2> HIDE DEF v
  <2> QED BY <1>2, <1>5, <2>2, <2>3 DEF LoadRows
<1>6. ASSUME NEW c \in Camera, Visit(t, c) PROVE Typed'
  <2> DEFINE local == [task[t] EXCEPT !.camera = c, !.todo = @ \ {c}, !.at = "settle"]
             stops == [local EXCEPT !.op = "stop", !.then = "settle", !.at = "lock"]
  <2>1. local \in Locals /\ stops \in Locals
    BY <1>1 DEF Local, Locals, Unassigned, Point
  <2>2. Continue(t, local) \/ Continue(t, stops)
    BY <1>6 DEF Visit
  <2>3. OwnersTyped'
    BY <1>6 DEF Visit, OwnersTyped, clearOverride, ownerVars
  <2> HIDE DEF local, stops
  <2> QED BY <1>2, <1>6, <2>1, <2>2, <2>3 DEF Visit
<1>7. CASE Settle(t)
  <2> DEFINE c == task[t].camera
             seen == [task[t] EXCEPT !.view[c] = NoView[c], !.op = "none", !.then = "idle"]
  <2>1. c \in Camera /\ task[t].at = "settle"
    BY <1>1, <1>7 DEF Settle, Runs, Locals, Unassigned
  <2>2. NoView[c] \in Row /\ task[t].view[c].revision \in Nat
    BY <1>1, <2>1 DEF NoView, Row, Policy, Revision, Local
  <2>3. [task[t].view EXCEPT ![c] = NoView[c]] \in [Camera -> Row]
    BY <1>1, <2>1, <2>2 DEF Local
  <2>4. seen \in Local /\ seen.camera = c
    BY <1>1, <2>3 DEF Local, Point
  <2> DEFINE starts == [seen EXCEPT !.op = "start", !.then = "own", !.at = "ring",
                                    !.config = task[t].view[c].revision]
             stops == [seen EXCEPT !.op = "stop", !.then = "disown", !.at = "lock"]
             passes == [seen EXCEPT !.camera = None, !.at = "visit"]
  <2>5. Await(t, starts) \/ Continue(t, stops) \/ Continue(t, passes)
    BY <1>7 DEF Settle
  <2>6. starts \in Locals /\ stops \in Locals /\ passes \in Locals
    <3> HIDE DEF seen, c
    <3>1. {"ring", "lock", "own", "disown"} \subseteq Point
      BY DEF Point
    <3>2. starts \in Locals
      BY <2>1, <2>2, <2>4, <3>1 DEF Local, Locals, Revision
    <3>3. stops \in Locals
      BY <2>1, <2>4, <3>1 DEF Local, Locals
    <3>4. passes \in Locals
      BY <2>4 DEF Local, Locals, Unassigned, Point
    <3> QED BY <3>2, <3>3, <3>4
  <2>7. OwnersTyped'
    BY <1>7, <2>1 DEF Settle, OwnersTyped, pausedAfter
  <2>8. BoundsTyped'
    BY <1>7, <2>1 DEF Settle, BoundsTyped, askedVars
  <2> HIDE DEF starts, stops, passes
  <2> QED BY <1>2, <1>7, <2>5, <2>6, <2>7, <2>8 DEF Settle
<1>8. CASE Own(t) \/ Disown(t)
  <2>1. NextVisit(t) \in Locals
    BY <1>1 DEF NextVisit, Call, Local, Locals, Unassigned, Point, Revision
  <2>2. task[t].camera \in Camera
    BY <1>1, <1>8 DEF Own, Disown, Runs, Locals, Unassigned
  <2>3. OwnersTyped'
    BY <1>8, <2>2 DEF Own, Disown, OwnersTyped
  <2> QED BY <1>2, <1>8, <2>1, <2>3 DEF Own, Disown
<1>9. CASE EndPass(t)
  BY <1>2, <1>9, IdleTyped DEF EndPass
<1> QED BY <1>4, <1>5, <1>6, <1>7, <1>8, <1>9

\* The steps of a reload by the coordinator, and of a batch change.
LEMMA ReloadStepsTyped ==
  ASSUME Typed, NEW t \in Task,
         Snapshot(t) \/ TornDown(t) \/ Detach(t) \/ SwitchCommit(t) \/ Erase(t) \/ Restore(t)
         \/ Capability(t) \/ BatchReset(t)
  PROVE  Typed'
<1> USE PartsKept
<1> USE DEF Typed
<1> DEFINE c == task[t].camera
<1>1. task[t] \in Local /\ task[t] \in Locals /\ task[t].todo \in SUBSET Camera
  BY DEF TaskTyped, Locals, Local
<1>2. ASSUME NEW v \in Locals, Continue(t, v) \/ Await(t, v) PROVE TaskTyped' /\ CpuTyped'
  BY <1>2, TaskPut
<1>3. task[t].at # "reset" => c \in Camera
  BY <1>1 DEF Snapshot, TornDown, Detach, SwitchCommit, Erase, Restore, Capability, BatchReset,
              Runs, Locals, Unassigned
<1>4. c \in Camera /\ clearOverride(c) => OwnersTyped'
  BY DEF clearOverride, OwnersTyped
<1>5. \A C \in SUBSET Camera : resetForScheduleChange(C) => OwnersTyped'
  BY DEF resetForScheduleChange, OwnersTyped
<1>6. /\ Idle \in Locals
      /\ [Idle EXCEPT !.at = "load"] \in Locals
  BY IdleTyped DEF Local, Locals, Unassigned, Point
<1>7. CASE Snapshot(t)
  <2>1. recordingOwner(c) \in Owner /\ IsRunning(c) \in BOOLEAN
    BY DEF recordingOwner, Owner, IsRunning, Recorder!IsRunning
  <2> DEFINE v == [task[t] EXCEPT !.was = IsRunning(c), !.owner = recordingOwner(c),
                                  !.at = "teardown"]
  <2>2. v \in Locals
    <3>1. PICK was \in BOOLEAN, owner \in Owner : was = IsRunning(c) /\ owner = recordingOwner(c)
      BY <2>1
    <3>2. [task[t] EXCEPT !.was = was, !.owner = owner, !.at = "teardown"] \in Locals
      BY <1>1, <1>3, <1>7 DEF Local, Locals, Point, Snapshot, Runs
    <3> QED BY <3>1, <3>2
  <2>3. Await(t, v)
    BY <1>7 DEF Snapshot
  <2> HIDE DEF v
  <2> QED BY <1>2, <1>7, <2>2, <2>3 DEF Snapshot
<1>8. CASE TornDown(t)
  <2>1. Call(t, "stop", "detach", "lock") \in Locals
        /\ [task[t] EXCEPT !.at = "detach"] \in Locals
    BY <1>1, <1>8, LocalMoved DEF TornDown, Runs, Call, Unassigned, Point
  <2> QED BY <1>2, <1>8, <2>1 DEF TornDown
<1>9. CASE Detach(t)
  <2> DEFINE local == Call(t, "none", "idle", "idle")
  <2>1. local \in Local /\ local.camera = c
    BY <1>1 DEF Call, Local, Point
  <2>2. /\ [local EXCEPT !.at = "erase"] \in Locals
        /\ [local EXCEPT !.at = "commit"] \in Locals
        /\ [local EXCEPT !.at = "restore"] \in Locals
    <3> HIDE DEF local
    <3> QED BY <1>3, <1>9, <2>1 DEF Local, Locals, Point, Detach, Runs
  <2>3. OwnersTyped'
    BY <1>3, <1>4, <1>9 DEF Detach, Runs, OwnersTyped
  <2>4. TaskTyped' /\ CpuTyped'
    <3>1. \/ Await(t, [local EXCEPT !.at = "erase"])
          \/ Await(t, [local EXCEPT !.at = "commit"])
          \/ Await(t, [local EXCEPT !.at = "restore"])
      BY <1>9 DEF Detach
    <3> HIDE DEF local
    <3> QED BY <1>2, <2>2, <3>1
  <2> QED BY <1>9, <2>3, <2>4 DEF Detach
<1>10. CASE SwitchCommit(t)
  <2>1. [task[t] EXCEPT !.at = "restore"] \in Locals
    BY <1>1, <1>10, LocalMoved DEF SwitchCommit, Runs, Unassigned, Point
  <2>2. RowsTyped'
    BY <1>10 DEF SwitchCommit, WritePlan, RowsTyped, Policy, rowVars
  <2> QED BY <1>2, <1>10, <2>1, <2>2 DEF SwitchCommit
<1>11. CASE Erase(t)
  BY <1>2, <1>6, <1>11 DEF Erase, RowsTyped, Policy
<1>12. CASE Restore(t)
  <2>1. revision[c] \in Nat
    BY <1>3, <1>12 DEF Restore, Runs, RowsTyped
  <2>2. [task[t] EXCEPT !.at = "capability", !.config = revision[c]] \in Locals
    <3> HIDE DEF c
    <3> QED BY <1>1, <1>3, <1>12, <2>1 DEF Restore, Runs, Local, Locals, Point, Revision, c
  <2> QED BY <1>2, <1>3, <1>4, <1>6, <1>12, <2>2 DEF Restore, Runs
<1>13. CASE Capability(t)
  <2>1. Call(t, "start", "noteStart", "ring") \in Locals
    BY <1>1, <1>13, LocalMoved DEF Capability, Runs, Call, Unassigned, Point
  <2>2. OwnersTyped'
    BY <1>3, <1>5, <1>13 DEF Capability, Runs
  <2> QED BY <1>2, <1>6, <1>13, <2>1, <2>2 DEF Capability
<1>14. CASE BatchReset(t)
  BY <1>1, <1>2, <1>5, <1>6, <1>14 DEF BatchReset
<1> QED BY <1>7, <1>8, <1>9, <1>10, <1>11, <1>12, <1>13, <1>14

\* What a finished request notes, and the requests themselves.
LEMMA RequestStepsTyped ==
  ASSUME Typed, NEW t \in Task, NoteStart(t) \/ NoteStop(t) \/ Request(t)
  PROVE  Typed'
<1> USE PartsKept
<1> USE DEF Typed
<1>1. ASSUME NEW v \in Locals, Continue(t, v) \/ Await(t, v) PROVE TaskTyped' /\ CpuTyped'
  BY <1>1, TaskPut
<1>2. CASE NoteStart(t) \/ NoteStop(t)
  <2>1. task[t].camera \in Camera
    BY <1>2 DEF NoteStart, NoteStop, Runs, TaskTyped, Locals, Unassigned
  <2>2. OwnersTyped'
    BY <1>2, <2>1 DEF NoteStart, NoteStop, OwnersTyped
  <2> QED BY <1>1, <1>2, <2>2, IdleTyped DEF NoteStart, NoteStop
<1>3. ASSUME NEW k \in Kind, Arrives(t, k), UNCHANGED <<stopAsked, reloaded, replanned>>
      PROVE  BoundsTyped'
  BY <1>3, ControlAssumption DEF Arrives, BoundsTyped
<1>4. ASSUME NEW k \in Kind, Arrives(t, k),
             {stopAsked', reloaded', replanned'} \subseteq SUBSET Camera
      PROVE  BoundsTyped'
  BY <1>4, ControlAssumption DEF Arrives, BoundsTyped
<1>5. ASSUME NEW k \in Kind, NEW c \in Camera, NEW op \in {"start", "stop"}, NEW then \in Point,
             NEW at \in Point, NEW n \in Nat
      PROVE  /\ [Asked(k, c) EXCEPT !.op = op, !.then = then, !.at = at] \in Locals
             /\ [Asked(k, c) EXCEPT !.op = op, !.then = then, !.at = at, !.config = n] \in Locals
  BY IdleTyped, LocalCalls
<1>6. ASSUME NEW c \in Camera, NEW k \in {"edit", "switch", "delete"}, NEW sched \in BOOLEAN
      PROVE  /\ [Asked(k, c) EXCEPT !.at = "snapshot"] \in Locals
             /\ [Asked(k, c) EXCEPT !.sched = sched, !.at = "snapshot"] \in Locals
  <2>1. Asked(k, c) \in Local /\ Asked(k, c).camera = c
    BY IdleTyped DEF Kind
  <2> QED BY <2>1, ZenonT(60) DEF Local, Locals, Point
<1>7. /\ "start" \in Kind /\ "stop" \in Kind /\ "restart" \in Kind /\ "edit" \in Kind
       /\ "switch" \in Kind /\ "delete" \in Kind /\ "ring" \in Point /\ "lock" \in Point
       /\ "snapshot" \in Point /\ "noteStart" \in Point /\ "noteStop" \in Point
       /\ "again" \in Point /\ "start" \in {"start", "stop"} /\ "stop" \in {"start", "stop"}
       /\ 0 \in Nat /\ TRUE \in BOOLEAN
  BY DEF Kind, Point
<1>8. ASSUME NEW c \in Camera, RequestStart(t, c) PROVE Typed'
  <2>1. BoundsTyped' /\ revision[c] \in Nat
    BY <1>3, <1>8 DEF RequestStart, Kind, RowsTyped
  <2>2. [Asked("start", c) EXCEPT !.op = "start", !.then = "noteStart",
                 !.at = "ring", !.config = revision[c]] \in Locals
    BY <1>5, <1>7, <2>1, Zenon
  <2> QED BY <1>1, <1>8, <2>1, <2>2 DEF RequestStart
<1>9. ASSUME NEW c \in Camera, RequestStop(t, c) PROVE Typed'
  <2>1. BoundsTyped'
    <3>1. {stopAsked', reloaded', replanned'} \subseteq SUBSET Camera
      BY <1>9 DEF RequestStop, BoundsTyped
    <3> QED BY <1>4, <1>9, <3>1 DEF RequestStop, Kind
  <2>2. [Asked("stop", c) EXCEPT !.op = "stop", !.then = "noteStop", !.at = "lock"] \in Locals
    BY <1>5, <1>7, Zenon
  <2> QED BY <1>1, <1>9, <2>1, <2>2 DEF RequestStop
<1>10. ASSUME NEW c \in Camera, RequestRestart(t, c) PROVE Typed'
  <2>1. BoundsTyped' /\ revision[c] \in Nat
    BY <1>3, <1>10 DEF RequestRestart, Kind, RowsTyped
  <2>2. [Asked("restart", c) EXCEPT !.op = "stop", !.then = "again",
                    !.at = "lock", !.config = revision[c]] \in Locals
    BY <1>5, <1>7, <2>1, Zenon
  <2> QED BY <1>1, <1>10, <2>1, <2>2 DEF RequestRestart
<1>11. ASSUME NEW c \in Camera, RequestEdit(t, c) \/ RequestSwitch(t, c) PROVE Typed'
  <2>1. BoundsTyped'
    <3>1. {stopAsked', reloaded', replanned'} \subseteq SUBSET Camera
      BY <1>11 DEF RequestEdit, RequestSwitch, BoundsTyped
    <3> QED BY <1>4, <1>11, <3>1 DEF RequestEdit, RequestSwitch, Kind
  <2>2. ASSUME NEW sched \in BOOLEAN
        PROVE  /\ [Asked("edit", c) EXCEPT !.sched = sched, !.at = "snapshot"] \in Locals
               /\ [Asked("switch", c) EXCEPT !.sched = sched, !.at = "snapshot"] \in Locals
    BY <1>6, Zenon
  <2>3. RowsTyped'
    <3>1. CASE RequestEdit(t, c)
      <4>1. PICK sched \in BOOLEAN : WritePlan(c, sched)
        BY <3>1 DEF RequestEdit
      <4>2. policy' \in [Camera -> Policy] /\ window' \in [Camera -> BOOLEAN]
        BY <4>1 DEF WritePlan, RowsTyped
      <4>3. revision' \in [Camera -> Nat]
        BY <3>1 DEF RequestEdit, RowsTyped
      <4> QED BY <4>2, <4>3 DEF RowsTyped
    <3>2. CASE RequestSwitch(t, c)
      BY <3>2 DEF RequestSwitch
    <3> QED BY <1>11, <3>1, <3>2
  <2> QED BY <1>1, <1>11, <2>1, <2>2, <2>3 DEF RequestEdit, RequestSwitch
<1>12. ASSUME NEW c \in Camera, RequestDelete(t, c) PROVE Typed'
  <2>1. BoundsTyped'
    <3>1. {stopAsked', reloaded', replanned'} \subseteq SUBSET Camera
      BY <1>12 DEF RequestDelete, BoundsTyped
    <3> QED BY <1>4, <1>12, <3>1 DEF RequestDelete, Kind
  <2>2. [Asked("delete", c) EXCEPT !.at = "snapshot"] \in Locals
    BY <1>6
  <2> QED BY <1>1, <1>12, <2>1, <2>2 DEF RequestDelete
<1>13. ASSUME NEW C \in SUBSET Camera, RequestBatch(t, C) PROVE Typed'
  <2>1. BoundsTyped'
    <3>1. {stopAsked', reloaded', replanned'} \subseteq SUBSET Camera
      BY <1>13 DEF RequestBatch, BoundsTyped
    <3> QED BY <1>4, <1>13, <3>1 DEF RequestBatch, Kind
  <2>2. [Idle EXCEPT !.kind = "batch", !.todo = C, !.at = "reset"] \in Locals
    <3>1. Idle \in Locals
      BY IdleTyped
    <3> QED BY <3>1, ZenonT(60) DEF Local, Locals, Unassigned, Point, Kind
  <2>3. RowsTyped'
    <3>1. PICK p \in {"manual", "auto"}, w \in [C -> BOOLEAN] :
       /\ policy' = [c \in Camera |->
             IF c \in C /\ policy[c] # "disabled" THEN p ELSE policy[c]]
       /\ window' = [c \in Camera |-> IF c \in C THEN w[c] ELSE window[c]]
      BY <1>13 DEF RequestBatch
    <3> QED BY <1>13, <3>1 DEF RequestBatch, RowsTyped, Policy
  <2> QED BY <1>1, <1>13, <2>1, <2>2, <2>3 DEF RequestBatch
<1> QED BY <1>2, <1>8, <1>9, <1>10, <1>11, <1>12, <1>13 DEF Request

LEMMA StepTyped == Typed /\ [Next]_vars => Typed'
<1> SUFFICES ASSUME Typed, [Next]_vars PROVE Typed'
  OBVIOUS
<1> USE PartsKept
<1>1. ASSUME NEW t \in Task, Step(t) \/ Request(t) PROVE Typed'
  BY <1>1, LockTyped, PassStepsTyped, ReloadStepsTyped, RequestStepsTyped DEF Step
<1>2. CASE Wake
  BY <1>2, PassStepsTyped DEF Wake, Task
<1>3. ASSUME NEW c \in Camera, RecorderStep(c) PROVE Typed'
  BY <1>3, RecorderStepsTyped DEF RecorderStep, RecorderLeaves, RecorderGone, Typed
<1>4. ASSUME NEW c \in Camera, Boundary(c) PROVE Typed'
  <2>1. RowsTyped' /\ BoundsTyped'
    BY <1>4, ControlAssumption DEF Boundary, Typed, RowsTyped, BoundsTyped
  <2> QED BY <1>4, <2>1 DEF Boundary, Typed
<1>5. CASE UNCHANGED vars
  BY <1>5 DEF vars, Typed
<1> QED BY <1>1, <1>2, <1>3, <1>4, <1>5 DEF Next

(* Every variable keeps its type.                                          *)
THEOREM TypesKept == Spec => []TypeOK
BY InitTyped, StepTyped, TypedIsTypeOK, PTL DEF Spec

-----------------------------------------------------------------------------
(***************************************************************************)
(* Pauses. Of a camera that no request has stopped, edited or planned anew *)
(* every task and the recorder know the first row. What is left to tell is *)
(* why the schedule may own it while its recorder is not running: a user's *)
(* restart is between its stop and its start, or a pass between its stop   *)
(* and disowning it. The first makes a pause that the restart lifts when   *)
(* it is answered, the second the one kept in crossed.                     *)
(***************************************************************************)
\* A camera that no request has stopped, edited or planned anew.
Untouched(c) == c \notin stopAsked \cup reloaded \cup replanned

\* Only a pass visits cameras, and only a batch request resets them.
VisitsByPass(l) ==
  /\ {l.at, l.then} \cap {"visit", "settle", "own", "disown"} # {} => l.kind = "none"
  /\ l.then # "reset" /\ (l.at = "reset" => l.kind = "batch")
Enabled(c) == policy[c] \in {"manual", "auto"}

\* Its row is the first one, and it records from that row.
CameraPart(c) ==
  /\ revision[c] = 1
  /\ phase[c] \in {"stopped", "running", "stopping"}
  /\ phase[c] # "stopped" => serving[c] = 1 /\ Enabled(c)

\* The row a pass has loaded of it is its row.
ViewPart(l, c) == l.view[c].policy = policy[c] /\ l.view[c].revision = 1

\* What a task with the camera in hand may be doing.
Settles(l) == l.kind = "none" /\ l.at = "settle"
AutoStarts(l) == l.kind = "none" /\ l.op = "start" /\ l.then = "own"
                 /\ l.at \in {"ring", "lock", "queued", "own"}
AutoStops(l) == l.kind = "none" /\ l.op = "stop" /\ l.then = "disown"
                /\ l.at \in {"lock", "queued", "stopping", "disown"}
UserStarts(l) == l.kind \in {"start", "restart"} /\ l.op = "start" /\ l.then = "noteStart"
                 /\ l.at \in {"ring", "lock", "queued", "noteStart"}
RestartStops(l) == l.kind = "restart" /\ l.op = "stop" /\ l.then = "again"
                   /\ l.at \in {"lock", "queued", "stopping", "again"}
LocalPart(l, c) ==
  /\ c \in l.todo => l.kind = "none" /\ ViewPart(l, c) /\ l.camera # c
  /\ l.camera = c =>
       \/ Settles(l) /\ ViewPart(l, c)
       \/ AutoStops(l)
       \/ (AutoStarts(l) \/ UserStarts(l) \/ RestartStops(l)) /\ l.config = 1 /\ Enabled(c)

\* A task at own or disown has not awaited since the recorder answered it.
CpuPart(t, c) ==
  task[t].camera = c =>
    /\ task[t].at = "own" => cpu = t /\ IsRunning(c)
    /\ task[t].at = "disown" => cpu = t

\* Between its stop and its start a restart leaves the owner as it was, and a
\* pass disowns the camera once its stop has returned.
Excuses(l, c) ==
  /\ l.camera = c
  /\ \/ l.kind = "restart" /\ l.op = "stop" /\ l.at \in {"stopping", "again"}
     \/ l.kind = "restart" /\ l.op = "start" /\ l.at \in {"lock", "queued"}
     \/ l.then = "disown" /\ l.at \in {"stopping", "disown"}
ManagedPart(c) ==
  c \in managed /\ ~IsRunning(c) => \E t \in Task : Excuses(task[t], c)
PausedPart(c) ==
  c \in manualPaused \ crossed => \E t \in Task : task[t].camera = c /\ task[t].kind = "restart"

Explained(c) ==
  /\ CameraPart(c)
  /\ \A t \in Task : LocalPart(task[t], c) /\ CpuPart(t, c)
  /\ ManagedPart(c) /\ PausedPart(c)
PauseInv ==
  /\ \A t \in Task : VisitsByPass(task[t])
  /\ \A c \in Camera : Untouched(c) => Explained(c)

\* What t does not have in hand, it leaves as it is, but for what is recorded of c.
SameCamera(c) ==
  /\ policy'[c] = policy[c] /\ revision'[c] = revision[c]
  /\ phase'[c] = phase[c] /\ serving'[c] = serving[c]

LEMMA Moves ==
  ASSUME Typed, NEW t \in Task, NEW v, Continue(t, v) \/ Await(t, v)
  PROVE  task'[t] = v /\ (\A u \in Task \ {t} : task'[u] = task[u]) /\ cpu' \in {None, t}
BY DEF Typed, TaskTyped, Continue, Await

\* A step of t leaves to the others what they know of c.
LEMMA OthersKept ==
  ASSUME NEW c \in Camera, Explained(c), NEW t \in Task, cpu \in {None, t},
         \A u \in Task \ {t} : task'[u] = task[u], policy'[c] = policy[c]
  PROVE  \A u \in Task \ {t} : LocalPart(task[u], c)' /\ CpuPart(u, c)'
<1> SUFFICES ASSUME NEW u \in Task \ {t} PROVE LocalPart(task[u], c)' /\ CpuPart(u, c)'
  OBVIOUS
<1>1. LocalPart(task[u], c) /\ CpuPart(u, c) /\ task'[u] = task[u]
  BY DEF Explained
<1>2. LocalPart(task[u], c)'
  BY <1>1 DEF LocalPart, ViewPart, Settles, AutoStarts, AutoStops, UserStarts, RestartStops, Enabled
<1>3. None \notin Task
  BY ControlAssumption DEF Task
<1>4. CpuPart(u, c)'
  BY <1>1, <1>3 DEF CpuPart
<1> QED BY <1>2, <1>4

\* A step of t that starts and stops nothing on c.
LEMMA StillExplained ==
  ASSUME NEW c \in Camera, Explained(c), NEW t \in Task, cpu \in {None, t}, cpu' \in {None, t},
         \A u \in Task \ {t} : task'[u] = task[u], SameCamera(c),
         c \in managed' => c \in managed \/ IsRunning(c),
         c \in manualPaused' \ crossed' => c \in manualPaused \ crossed \/ PausedPart(c)',
         LocalPart(task[t], c)', CpuPart(t, c)',
         c \in managed' /\ Excuses(task[t], c) => Excuses(task[t], c)',
         c \in manualPaused' /\ task[t].camera = c /\ task[t].kind = "restart" =>
           task'[t].camera = c /\ task'[t].kind = "restart"
  PROVE  Explained(c)'
<1>1. CameraPart(c)'
  BY DEF Explained, CameraPart, SameCamera, Enabled
<1>2. \A u \in Task : LocalPart(task[u], c)' /\ CpuPart(u, c)'
  BY OthersKept DEF SameCamera
<1>3. ManagedPart(c)'
  <2> SUFFICES ASSUME c \in managed', ~IsRunning(c)' PROVE \E u \in Task : Excuses(task[u], c)'
    BY DEF ManagedPart
  <2>1. PICK u \in Task : Excuses(task[u], c)
    BY DEF Explained, ManagedPart, IsRunning, Recorder!IsRunning, SameCamera
  <2>2. Excuses(task[u], c)'
    BY <2>1 DEF Excuses
  <2> QED BY <2>2
<1>4. PausedPart(c)'
  BY DEF Explained, PausedPart
<1> QED BY <1>1, <1>2, <1>3, <1>4 DEF Explained

\* The same, when t has another camera in hand, or none.
LEMMA Elsewhere ==
  ASSUME NEW c \in Camera, Explained(c), NEW t \in Task, cpu \in {None, t}, cpu' \in {None, t},
         \A u \in Task \ {t} : task'[u] = task[u], SameCamera(c),
         c \in managed' => c \in managed,
         c \in manualPaused' \ crossed' => c \in manualPaused \ crossed,
         task[t].camera # c, task'[t].camera # c,
         c \in task'[t].todo => task'[t].kind = "none" /\ ViewPart(task[t], c)'
  PROVE  Explained(c)'
<1>1. LocalPart(task[t], c)'
  BY DEF LocalPart
<1>2. CpuPart(t, c)' /\ ~Excuses(task[t], c)
  BY DEF CpuPart, Excuses
<1> QED BY <1>1, <1>2, StillExplained

\* Locals that keep the view and what is left to visit.
SameVisits(l, m) == m.kind = l.kind /\ m.view = l.view /\ m.todo = l.todo

\* A reload, a stop and a batch change have another camera in hand.
LEMMA ReloadExplained ==
  ASSUME Typed, NEW c \in Camera, Explained(c), NEW t \in Task, VisitsByPass(task[t]),
         Snapshot(t) \/ TornDown(t) \/ Detach(t) \/ SwitchCommit(t) \/ Erase(t) \/ Restore(t)
         \/ Capability(t) \/ BatchReset(t) \/ NoteStop(t)
  PROVE  Explained(c)'
<1> DEFINE d == task[t].camera
           C == IF task[t].at = "reset" THEN task[t].todo ELSE {d}
<1>1. LocalPart(task[t], c)
  BY DEF Explained
<1>2. d # c /\ cpu \in {None, t} /\ task[t].at \notin {"visit", "idle"}
  BY <1>1 DEF LocalPart, Settles, AutoStarts, AutoStops, UserStarts, RestartStops, VisitsByPass,
       Snapshot, TornDown, Detach, SwitchCommit, Erase, Restore, Capability, BatchReset, NoteStop, Runs
<1>3. c \notin C
  BY <1>1, <1>2 DEF LocalPart, VisitsByPass
<1>4. task[t] \in Local
  BY DEF Typed, TaskTyped, Locals
<1>5. PICK v : /\ Continue(t, v) \/ Await(t, v)
               /\ v.camera \in {d, None}
               /\ v.todo = {} \/ SameVisits(task[t], v)
  <2>1. Idle.camera = None /\ Idle.todo = {} /\ [Idle EXCEPT !.at = "load"].camera = None
        /\ [Idle EXCEPT !.at = "load"].todo = {}
    BY DEF Idle
  <2>2. ASSUME NEW x PROVE LET m == [task[t] EXCEPT !.at = x] IN m.camera = d /\ SameVisits(task[t], m)
    BY <1>4 DEF Local, SameVisits
  <2>3. ASSUME NEW op, NEW then, NEW x
        PROVE  LET m == Call(t, op, then, x) IN m.camera = d /\ SameVisits(task[t], m)
    BY <1>4 DEF Local, Call, SameVisits
  <2>4. CASE Snapshot(t)
    <3>1. ASSUME NEW was, NEW owner
          PROVE  LET m == [task[t] EXCEPT !.was = was, !.owner = owner, !.at = "teardown"]
                 IN  m.camera = d /\ SameVisits(task[t], m)
      BY <1>4 DEF Local, SameVisits
    <3> QED BY <2>4, <3>1, Zenon DEF Snapshot
  <2>5. CASE TornDown(t)
    BY <2>2, <2>3, <2>5 DEF TornDown, Point
  <2>6. CASE Detach(t)
    <3>1. ASSUME NEW x
          PROVE  LET m == [Call(t, "none", "idle", "idle") EXCEPT !.at = x]
                 IN  m.camera = d /\ SameVisits(task[t], m)
      BY <1>4 DEF Local, Call, SameVisits
    <3> QED BY <2>6, <3>1, Zenon DEF Detach
  <2>7. CASE SwitchCommit(t)
    BY <2>2, <2>7 DEF SwitchCommit, Point
  <2>8. CASE Erase(t) \/ NoteStop(t) \/ BatchReset(t)
    BY <2>1, <2>8 DEF Erase, NoteStop, BatchReset
  <2>9. CASE Restore(t)
    <3>1. ASSUME NEW x
          PROVE  LET m == [task[t] EXCEPT !.at = "capability", !.config = x]
                 IN  m.camera = d /\ SameVisits(task[t], m)
      BY <1>4 DEF Local, SameVisits
    <3> QED BY <2>1, <2>9, <3>1, Zenon DEF Restore
  <2>10. CASE Capability(t)
    BY <2>1, <2>3, <2>10 DEF Capability
  <2> QED BY <2>4, <2>5, <2>6, <2>7, <2>8, <2>9, <2>10
<1>6. task'[t] = v /\ (\A u \in Task \ {t} : task'[u] = task[u]) /\ cpu' \in {None, t}
  BY <1>5, Moves
<1>7. SameCamera(c)
  <2>1. CASE SwitchCommit(t)
    BY <1>2, <2>1 DEF SwitchCommit, WritePlan, SameCamera, rowVars, recorderVars, Typed, RowsTyped
  <2>2. CASE Erase(t)
    BY <1>2, <2>2 DEF Erase, SameCamera, recorderVars, Typed, RowsTyped
  <2>3. CASE UNCHANGED <<rowVars, recorderVars>>
    BY <2>3 DEF SameCamera, rowVars, recorderVars
  <2> QED BY <2>1, <2>2, <2>3
          DEF Snapshot, TornDown, Detach, Restore, Capability, BatchReset, NoteStop
<1>8. /\ c \in managed' => c \in managed
      /\ c \in manualPaused' => c \in manualPaused
      /\ crossed' = crossed
  BY <1>2, <1>3 DEF Snapshot, TornDown, Detach, SwitchCommit, Erase, Restore, Capability, BatchReset,
       NoteStop, ownerVars, boundVars, clearOverride, resetForScheduleChange, Runs
<1>9. c \in v.todo => v.kind = "none" /\ ViewPart(task[t], c)'
  BY <1>1, <1>5, <1>6, <1>7 DEF LocalPart, SameVisits, ViewPart, SameCamera
<1>10. v.camera # c
  BY <1>2, <1>5, ControlAssumption
<1> QED BY <1>2, <1>6, <1>7, <1>8, <1>9, <1>10, Elsewhere

\* A pass that begins, ends or goes to the next camera.
LEMMA VisitExplained ==
  ASSUME Typed, NEW c \in Camera, Explained(c), NEW t \in Task, VisitsByPass(task[t]),
         LoadRows(t) \/ EndPass(t) \/ (\E d \in Camera : Visit(t, d)) \/ (Wake /\ t = Poll)
  PROVE  Explained(c)'
<1>1. LocalPart(task[t], c) /\ CameraPart(c)
  BY DEF Explained
<1>2. task[t] \in Local
  BY DEF Typed, TaskTyped, Locals
<1>3. task[t].camera # c /\ cpu \in {None, t}
  BY <1>1 DEF LocalPart, Settles, AutoStarts, AutoStops, UserStarts, RestartStops, LoadRows, EndPass,
              Visit, Wake, Runs
<1>4. SameCamera(c)
  BY DEF SameCamera, LoadRows, EndPass, Visit, Wake, rowVars, recorderVars
<1>5. c \in managed' => c \in managed
  BY DEF LoadRows, EndPass, Visit, Wake, ownerVars, clearOverride
<1>6. c \in manualPaused' \ crossed' => c \in manualPaused \ crossed
  BY DEF LoadRows, EndPass, Visit, Wake, ownerVars, clearOverride, boundVars
<1>7. CASE EndPass(t) \/ (Wake /\ t = Poll)
  <2>1. PICK v : (Continue(t, v) \/ Await(t, v)) /\ v.camera = None /\ v.todo = {}
    BY <1>7 DEF EndPass, Wake, Idle
  <2>2. task'[t] = v /\ (\A u \in Task \ {t} : task'[u] = task[u]) /\ cpu' \in {None, t}
    BY <2>1, Moves
  <2> QED BY <1>3, <1>4, <1>5, <1>6, <2>1, <2>2, Elsewhere, ControlAssumption
<1>8. CASE LoadRows(t)
  <2> DEFINE rows == [d \in Camera |-> [policy |-> policy[d], window |-> window[d],
                                        revision |-> revision[d]]]
             known == {d \in Camera : policy[d] # "gone"}
             v == [Idle EXCEPT !.at = "visit", !.todo = known, !.view = rows]
  <2>1. Continue(t, v)
    BY <1>8 DEF LoadRows
  <2>2. v.camera = None /\ v.view = rows /\ v.kind = "none"
    BY DEF Idle
  <2>3. rows[c].policy = policy[c] /\ rows[c].revision = 1
    BY <1>1 DEF CameraPart
  <2> HIDE DEF v
  <2>4. task'[t] = v /\ (\A u \in Task \ {t} : task'[u] = task[u]) /\ cpu' \in {None, t}
    BY <2>1, Moves
  <2>5. ViewPart(task[t], c)'
    BY <1>4, <2>2, <2>3, <2>4 DEF ViewPart, SameCamera
  <2> QED BY <1>3, <1>4, <1>5, <1>6, <2>2, <2>4, <2>5, Elsewhere, ControlAssumption
<1>9. ASSUME NEW d \in Camera, Visit(t, d) PROVE Explained(c)'
  <2>1. task[t].kind = "none" /\ d \in task[t].todo
    BY <1>9 DEF VisitsByPass, Visit, Runs
  <2> DEFINE local == [task[t] EXCEPT !.camera = d, !.todo = @ \ {d}, !.at = "settle"]
             stops == [local EXCEPT !.op = "stop", !.then = "settle", !.at = "lock"]
  <2>2. PICK v : /\ Continue(t, v) \/ Await(t, v)
                 /\ v.camera = d /\ v.kind = "none" /\ v.view = task[t].view
                 /\ v.todo = task[t].todo \ {d}
                 /\ v.at = "settle" \/ (task[t].view[d].policy = "disabled" /\ IsRunning(d))
    <3>1. local.camera = d /\ local.kind = "none" /\ local.view = task[t].view
          /\ local.todo = task[t].todo \ {d} /\ local.at = "settle"
      BY <1>2, <2>1 DEF Local
    <3>2. stops.camera = d /\ stops.kind = "none" /\ stops.view = task[t].view
          /\ stops.todo = task[t].todo \ {d}
      BY <1>2, <2>1 DEF Local
    <3>3. Continue(t, local) \/ (Continue(t, stops) /\ task[t].view[d].policy = "disabled" /\ IsRunning(d))
      BY <1>9 DEF Visit
    <3> HIDE DEF local, stops
    <3>4. CASE Continue(t, local)
      BY <3>1, <3>4, Zenon
    <3>5. CASE Continue(t, stops) /\ task[t].view[d].policy = "disabled" /\ IsRunning(d)
      BY <3>2, <3>5, Zenon
    <3> QED BY <3>3, <3>4, <3>5, Zenon
  <2>3. task'[t] = v /\ (\A u \in Task \ {t} : task'[u] = task[u]) /\ cpu' \in {None, t}
    BY <2>2, Moves
  <2>4. c \in task[t].todo => ViewPart(task[t], c)'
    BY <1>1, <1>4, <2>2, <2>3 DEF LocalPart, ViewPart, SameCamera
  <2>5. CASE d # c
    BY <1>3, <1>4, <1>5, <1>6, <2>2, <2>3, <2>4, <2>5, Elsewhere
  <2>6. CASE d = c
    <3>1. v.at = "settle"
      BY <1>1, <2>1, <2>2, <2>6
      DEF LocalPart, ViewPart, CameraPart, Enabled, IsRunning, Recorder!IsRunning
    <3>2. LocalPart(task[t], c)' /\ CpuPart(t, c)'
      BY <2>1, <2>2, <2>3, <2>4, <2>6, <3>1 DEF LocalPart, Settles, CpuPart
    <3>3. ~Excuses(task[t], c)
      BY <1>3 DEF Excuses
    <3> QED BY <1>3, <1>4, <1>5, <1>6, <2>3, <3>2, <3>3, StillExplained
  <2> QED BY <2>5, <2>6
<1> QED BY <1>7, <1>8, <1>9

\* The rest of a visit: what is found stopped is explained before it is paused.
LEMMA SettleExplained ==
  ASSUME Typed, NEW c \in Camera, Explained(c), NEW t \in Task, VisitsByPass(task[t]), Settle(t)
  PROVE  Explained(c)'
<1> DEFINE d == task[t].camera
           row == task[t].view[d]
           seen == [task[t] EXCEPT !.view[d] = NoView[d], !.op = "none", !.then = "idle"]
<1>1. LocalPart(task[t], c) /\ CameraPart(c) /\ CpuPart(t, c)
  BY DEF Explained
<1>2. task[t] \in Local /\ d \in Camera /\ task[t].kind = "none" /\ task[t].at = "settle"
      /\ cpu \in {None, t}
  BY DEF Typed, TaskTyped, Locals, Settle, Runs, Unassigned, VisitsByPass
<1>3. SameCamera(c)
  BY DEF SameCamera, Settle, rowVars, recorderVars
<1>4. /\ seen.kind = "none" /\ seen.camera = d /\ seen.todo = task[t].todo
      /\ \A e \in Camera \ {d} : seen.view[e] = task[t].view[e]
  BY <1>2 DEF Local
<1>5. seen \in Local
  <2>1. [task[t].view EXCEPT ![d] = NoView[d]] \in [Camera -> Row]
    BY <1>2 DEF Local, NoView, Row, Policy, Revision
  <2> QED BY <1>2, <2>1 DEF Local, Point
<1> DEFINE starts == [seen EXCEPT !.op = "start", !.then = "own", !.at = "ring",
                                  !.config = row.revision]
           stops == [seen EXCEPT !.op = "stop", !.then = "disown", !.at = "lock"]
           passes == [seen EXCEPT !.camera = None, !.at = "visit"]
<1>6. \/ Await(t, starts) /\ auto_eligible(row)
      \/ Continue(t, stops)
      \/ Continue(t, passes)
  BY DEF Settle
<1> HIDE DEF seen
<1>7. /\ AutoStarts(starts) /\ starts.config = row.revision /\ starts.camera = d
      /\ starts.view = seen.view /\ starts.todo = seen.todo /\ starts.kind = "none"
      /\ starts.at = "ring"
  BY <1>4, <1>5 DEF Local, AutoStarts
<1>8. /\ AutoStops(stops) /\ stops.camera = d
      /\ stops.view = seen.view /\ stops.todo = seen.todo /\ stops.kind = "none"
      /\ stops.at = "lock"
  BY <1>4, <1>5 DEF Local, AutoStops
<1>9. /\ passes.camera = None /\ passes.at = "visit"
      /\ passes.view = seen.view /\ passes.todo = seen.todo /\ passes.kind = "none"
  BY <1>4, <1>5 DEF Local
<1> HIDE DEF starts, stops, passes
<1>10. PICK v : /\ Continue(t, v) \/ Await(t, v)
                /\ v.camera \in {d, None} /\ v.kind = "none" /\ v.todo = task[t].todo
                /\ \A e \in Camera \ {d} : v.view[e] = task[t].view[e]
                /\ v.at \in {"ring", "lock", "visit"}
                /\ \/ AutoStarts(v) /\ v.config = row.revision /\ auto_eligible(row)
                   \/ AutoStops(v)
                   \/ v.camera = None
  <2>1. CASE Await(t, starts) /\ auto_eligible(row)
    BY <1>4, <1>7, <2>1, Zenon
  <2>2. CASE Continue(t, stops)
    BY <1>4, <1>8, <2>2, Zenon
  <2>3. CASE Continue(t, passes)
    BY <1>4, <1>9, <2>3, Zenon
  <2> QED BY <1>6, <2>1, <2>2, <2>3
<1>11. task'[t] = v /\ (\A u \in Task \ {t} : task'[u] = task[u]) /\ cpu' \in {None, t}
  BY <1>10, Moves
<1>12. c \in managed' => c \in managed
  BY DEF Settle
<1>13. CASE d # c
  <2>1. v.camera # c
    BY <1>10, <1>13, ControlAssumption
  <2>2. c \in v.todo => v.kind = "none" /\ ViewPart(task[t], c)'
    BY <1>1, <1>3, <1>10, <1>11, <1>13 DEF LocalPart, ViewPart, SameCamera
  <2>3. c \in manualPaused' \ crossed' => c \in manualPaused \ crossed
    BY <1>13 DEF Settle, pausedAfter
  <2> QED BY <1>2, <1>3, <1>11, <1>12, <1>13, <2>1, <2>2, <2>3, Elsewhere
<1>14. CASE d = c
  <2>1. ViewPart(task[t], c) /\ c \notin task[t].todo
    BY <1>1, <1>2, <1>14 DEF LocalPart, AutoStarts, AutoStops, UserStarts, RestartStops
  <2>2. LocalPart(task[t], c)' /\ CpuPart(t, c)'
    <3>1. v.camera = c => AutoStops(v) \/ (AutoStarts(v) /\ v.config = 1 /\ Enabled(c)')
      BY <1>3, <1>10, <1>14, <2>1, ControlAssumption
      DEF ViewPart, auto_eligible, Enabled, SameCamera
    <3>2. LocalPart(task[t], c)'
      BY <1>10, <1>11, <2>1, <3>1 DEF LocalPart, AutoStarts, AutoStops
    <3> QED BY <1>10, <1>11, <3>2 DEF CpuPart
  <2>3. ~Excuses(task[t], c)
    BY <1>2, <2>1 DEF Excuses
  <2>4. c \in manualPaused' \ crossed' => c \in manualPaused \ crossed \/ PausedPart(c)'
    <3> SUFFICES ASSUME c \in manualPaused' \ crossed', c \notin manualPaused \ crossed
                 PROVE  PausedPart(c)'
      OBVIOUS
    <3>1. c \in managed /\ ~IsRunning(c) /\ ~stoppedByPass(c)
      BY <1>14 DEF Settle, pausedAfter, takenForStop
    <3>2. PICK u \in Task : Excuses(task[u], c)
      BY <3>1 DEF Explained, ManagedPart
    <3>3. u # t /\ CpuPart(u, c)
      BY <2>3, <3>2 DEF Explained
    <3>4. None \notin Task
      BY ControlAssumption DEF Task
    <3>5. task[u].kind = "restart" /\ task[u].camera = c
      BY <1>2, <3>1, <3>2, <3>3, <3>4 DEF Excuses, CpuPart, stoppedByPass
    <3> QED BY <1>11, <3>3, <3>5 DEF PausedPart
  <2> QED BY <1>2, <1>3, <1>11, <1>12, <2>2, <2>3, <2>4, StillExplained
<1> QED BY <1>13, <1>14

\* A call of the recorder has been answered: its owner is noted.
LEMMA NotedExplained ==
  ASSUME Typed, NEW c \in Camera, Explained(c), NEW t \in Task, VisitsByPass(task[t]),
         Own(t) \/ Disown(t) \/ NoteStart(t)
  PROVE  Explained(c)'
<1> DEFINE d == task[t].camera
<1>1. LocalPart(task[t], c) /\ CpuPart(t, c)
  BY DEF Explained
<1>2. task[t] \in Local /\ cpu \in {None, t} /\ task[t].at \in {"own", "disown", "noteStart"}
      /\ d \in Camera
  BY DEF Typed, TaskTyped, Locals, Own, Disown, NoteStart, Runs, Unassigned
<1>3. SameCamera(c)
  BY DEF SameCamera, Own, Disown, NoteStart, rowVars, recorderVars
<1>4. PICK v : /\ Continue(t, v) \/ Await(t, v)
               /\ v.camera = None /\ v.at \in {"visit", "idle"}
               /\ v.todo = {} \/ SameVisits(task[t], v)
  <2>1. CASE Own(t) \/ Disown(t)
    <3>1. NextVisit(t).camera = None /\ NextVisit(t).at = "visit" /\ SameVisits(task[t], NextVisit(t))
      BY <1>2 DEF NextVisit, Call, Local, SameVisits
    <3> QED BY <2>1, <3>1, Zenon DEF Own, Disown
  <2>2. CASE NoteStart(t)
    BY <2>2 DEF NoteStart, Idle
  <2> QED BY <2>1, <2>2
<1>5. task'[t] = v /\ (\A u \in Task \ {t} : task'[u] = task[u]) /\ cpu' \in {None, t}
  BY <1>4, Moves
<1>6. v.camera # c
  BY <1>4, ControlAssumption
<1>7. c \in v.todo => v.kind = "none" /\ ViewPart(task[t], c)'
  BY <1>1, <1>3, <1>4, <1>5 DEF LocalPart, SameVisits, ViewPart, SameCamera
<1>8. LocalPart(task[t], c)' /\ CpuPart(t, c)'
  BY <1>5, <1>6, <1>7 DEF LocalPart, CpuPart
<1>9. c \in managed' => c \in managed \/ IsRunning(c)
  BY <1>1 DEF Own, Disown, NoteStart, CpuPart, Runs
<1>10. c \in manualPaused' \ crossed' => c \in manualPaused \ crossed
  BY DEF Own, Disown, NoteStart, boundVars
<1>11. c \in managed' => ~Excuses(task[t], c)
  BY <1>2 DEF Excuses, Own, Disown, NoteStart, Runs
<1>12. ~(c \in manualPaused' /\ d = c /\ task[t].kind = "restart")
  BY DEF Own, Disown, NoteStart, Runs, VisitsByPass
<1> QED BY <1>2, <1>3, <1>5, <1>8, <1>9, <1>10, <1>11, <1>12, StillExplained

\* A request that arrives: of a start or a restart of the camera, or for another.
LEMMA RequestExplained ==
  ASSUME Typed, NEW c \in Camera, Explained(c), Untouched(c)', NEW t \in Task, Request(t)
  PROVE  Explained(c)'
<1>1. task[t] = Idle /\ cpu = None
  BY DEF Request, RequestStart, RequestStop, RequestRestart, RequestEdit, RequestSwitch,
         RequestDelete, RequestBatch, Arrives
<1>2. task[t].camera # c /\ CameraPart(c) /\ ~Excuses(task[t], c)
  BY <1>1, ControlAssumption DEF Idle, Explained, Excuses
<1>3. UNCHANGED <<recorderVars, ownerVars, crossed>>
  BY DEF Request, RequestStart, RequestStop, RequestRestart, RequestEdit, RequestSwitch,
         RequestDelete, RequestBatch, Arrives
<1>4. /\ c \in managed' => c \in managed
      /\ c \in manualPaused' \ crossed' => c \in manualPaused \ crossed
  BY <1>3 DEF ownerVars
<1>5. ASSUME NEW v, Continue(t, v) \/ Await(t, v), v.todo = {}, SameCamera(c),
             v.camera # c \/ (v.config = 1 /\ Enabled(c) /\ v.at \in {"ring", "lock"}
                              /\ (UserStarts(v) \/ RestartStops(v)))
      PROVE  Explained(c)'
  <2>1. task'[t] = v /\ (\A u \in Task \ {t} : task'[u] = task[u]) /\ cpu' \in {None, t}
    BY <1>5, Moves
  <2>2. Enabled(c) => Enabled(c)'
    BY <1>5 DEF Enabled, SameCamera
  <2>3. LocalPart(task[t], c)' /\ CpuPart(t, c)'
    BY <1>5, <2>1, <2>2 DEF LocalPart, CpuPart
  <2> QED BY <1>1, <1>2, <1>4, <1>5, <2>1, <2>3, StillExplained
<1>6. UNCHANGED rowVars => SameCamera(c)
  BY <1>3 DEF SameCamera, rowVars, recorderVars
<1>7. ASSUME NEW d \in Camera, RequestStart(t, d) PROVE Explained(c)'
  <2> DEFINE v == [Asked("start", d) EXCEPT !.op = "start", !.then = "noteStart",
                     !.at = "ring", !.config = revision[d]]
  <2>1. v.camera = d /\ v.todo = {} /\ UserStarts(v) /\ v.config = revision[d] /\ v.at = "ring"
    BY DEF Asked, Idle, UserStarts
  <2>2. Await(t, v) /\ SameCamera(c) /\ Enabled(d)
    BY <1>6, <1>7 DEF RequestStart, Enabled
  <2> HIDE DEF v
  <2> QED BY <1>2, <1>5, <2>1, <2>2 DEF CameraPart
<1>8. ASSUME NEW d \in Camera, RequestRestart(t, d) PROVE Explained(c)'
  <2> DEFINE v == [Asked("restart", d) EXCEPT !.op = "stop", !.then = "again",
                     !.at = "lock", !.config = revision[d]]
  <2>1. v.camera = d /\ v.todo = {} /\ RestartStops(v) /\ v.config = revision[d] /\ v.at = "lock"
    BY DEF Asked, Idle, RestartStops
  <2>2. Continue(t, v) /\ SameCamera(c) /\ Enabled(d)
    BY <1>6, <1>8 DEF RequestRestart, Enabled
  <2> HIDE DEF v
  <2> QED BY <1>2, <1>5, <2>1, <2>2 DEF CameraPart
<1>9. ASSUME NEW d \in Camera, RequestStop(t, d) PROVE Explained(c)'
  <2> DEFINE v == [Asked("stop", d) EXCEPT !.op = "stop", !.then = "noteStop", !.at = "lock"]
  <2>1. v.camera = d /\ v.todo = {}
    BY DEF Asked, Idle
  <2>2. Continue(t, v) /\ SameCamera(c) /\ d # c
    BY <1>6, <1>9 DEF RequestStop, Untouched
  <2> HIDE DEF v
  <2> QED BY <1>5, <2>1, <2>2
<1>10. ASSUME NEW d \in Camera, RequestEdit(t, d) \/ RequestSwitch(t, d) \/ RequestDelete(t, d)
       PROVE  Explained(c)'
  <2>1. PICK k \in {"edit", "switch", "delete"}, sched \in BOOLEAN :
          Await(t, [Asked(k, d) EXCEPT !.sched = sched, !.at = "snapshot"])
          \/ Await(t, [Asked(k, d) EXCEPT !.at = "snapshot"])
    BY <1>10 DEF RequestEdit, RequestSwitch, RequestDelete
  <2>2. /\ [Asked(k, d) EXCEPT !.sched = sched, !.at = "snapshot"].camera = d
        /\ [Asked(k, d) EXCEPT !.sched = sched, !.at = "snapshot"].todo = {}
        /\ [Asked(k, d) EXCEPT !.at = "snapshot"].camera = d
        /\ [Asked(k, d) EXCEPT !.at = "snapshot"].todo = {}
    BY DEF Asked, Idle
  <2>3. d # c
    BY <1>10 DEF RequestEdit, RequestSwitch, RequestDelete, Untouched
  <2>4. SameCamera(c)
    <3>1. CASE RequestEdit(t, d)
      <4>1. PICK sched1 \in BOOLEAN : WritePlan(d, sched1)
        BY <3>1 DEF RequestEdit
      <4>2. policy'[c] = policy[c]
        BY <2>3, <4>1 DEF WritePlan, Typed, RowsTyped
      <4>3. revision'[c] = revision[c]
        BY <2>3, <3>1 DEF RequestEdit, Typed, RowsTyped
      <4> QED BY <1>3, <4>2, <4>3 DEF SameCamera, recorderVars
    <3>2. CASE RequestSwitch(t, d) \/ RequestDelete(t, d)
      BY <1>6, <3>2 DEF RequestSwitch, RequestDelete
    <3> QED BY <1>10, <3>1, <3>2
  <2> QED BY <1>5, <2>1, <2>2, <2>3, <2>4
<1>11. ASSUME NEW C \in SUBSET Camera, RequestBatch(t, C) PROVE Explained(c)'
  <2> DEFINE v == [Idle EXCEPT !.kind = "batch", !.todo = C, !.at = "reset"]
  <2>1. v.camera = None /\ v.todo = C /\ Await(t, v) /\ c \notin C
    BY <1>11 DEF RequestBatch, Idle, Untouched
  <2>2. policy'[c] = policy[c] /\ revision' = revision
    BY <1>11, <2>1 DEF RequestBatch
  <2>3. SameCamera(c)
    BY <1>3, <2>2 DEF SameCamera, recorderVars
  <2> HIDE DEF v
  <2>4. task'[t] = v /\ (\A u \in Task \ {t} : task'[u] = task[u]) /\ cpu' \in {None, t}
    BY <2>1, Moves
  <2> QED BY <1>1, <1>2, <1>4, <2>1, <2>3, <2>4, Elsewhere, ControlAssumption
<1> QED BY <1>7, <1>8, <1>9, <1>10, <1>11 DEF Request

\* Before the lock, and between the halves of a restart.
LEMMA WaitExplained ==
  ASSUME Typed, NEW c \in Camera, Explained(c), NEW t \in Task,
         Queue(t) \/ RingStopped(t) \/ Again(t)
  PROVE  Explained(c)'
<1>1. LocalPart(task[t], c)
  BY DEF Explained
<1>2. task[t] \in Local /\ cpu \in {None, t}
  BY DEF Typed, TaskTyped, Locals, Queue, RingStopped, Again, Runs
<1>3. SameCamera(c) /\ UNCHANGED ownerVars /\ crossed' = crossed
  BY DEF SameCamera, Queue, RingStopped, Again, rowVars, recorderVars, boundVars
<1>4. PICK v : /\ Continue(t, v) \/ Await(t, v)
               /\ v.camera = task[t].camera /\ v.config = task[t].config
               /\ SameVisits(task[t], v)
               /\ v.at \in {"queued", "lock"}
               /\ \/ /\ v.op = task[t].op /\ v.then = task[t].then
                     /\ task[t].at \in {"lock", "ring"}
                  \/ v.op = "start" /\ v.then = "noteStart" /\ v.at = "lock" /\ task[t].at = "again"
  <2>1. ASSUME NEW at \in {"queued", "lock"}
        PROVE  LET m == [task[t] EXCEPT !.at = at]
               IN  /\ m.camera = task[t].camera /\ m.config = task[t].config
                   /\ SameVisits(task[t], m) /\ m.at = at
                   /\ m.op = task[t].op /\ m.then = task[t].then
    BY <1>2 DEF Local, SameVisits
  <2>2. LET m == Call(t, "start", "noteStart", "lock")
        IN  /\ m.camera = task[t].camera /\ m.config = task[t].config
            /\ SameVisits(task[t], m) /\ m.at = "lock"
            /\ m.op = "start" /\ m.then = "noteStart"
    BY <1>2 DEF Local, Call, SameVisits
  <2>3. CASE Queue(t)
    BY <2>1, <2>3 DEF Queue, Runs
  <2>4. CASE RingStopped(t)
    BY <2>1, <2>4 DEF RingStopped, Runs
  <2>5. CASE Again(t)
    BY <2>2, <2>5 DEF Again, Runs
  <2> QED BY <2>3, <2>4, <2>5
<1>5. task'[t] = v /\ (\A u \in Task \ {t} : task'[u] = task[u]) /\ cpu' \in {None, t}
  BY <1>4, Moves
<1>6. LocalPart(task[t], c)'
  <2>1. ViewPart(task[t], c) => ViewPart(task[t], c)'
    BY <1>3, <1>4, <1>5 DEF ViewPart, SameVisits, SameCamera
  <2>2. Enabled(c) => Enabled(c)'
    BY <1>3 DEF Enabled, SameCamera
  <2>3. task[t].camera = c =>
          \/ AutoStops(v)
          \/ (AutoStarts(v) \/ UserStarts(v) \/ RestartStops(v)) /\ v.config = 1 /\ Enabled(c)
    BY <1>1, <1>4
    DEF LocalPart, Settles, AutoStarts, AutoStops, UserStarts, RestartStops, SameVisits
  <2> QED BY <1>1, <1>4, <1>5, <2>1, <2>2, <2>3 DEF LocalPart, SameVisits
<1>7. CpuPart(t, c)'
  BY <1>4, <1>5 DEF CpuPart
<1>8. Excuses(task[t], c) => Excuses(task[t], c)'
  BY <1>1, <1>4, <1>5 DEF Excuses, SameVisits, LocalPart, Settles, AutoStarts, AutoStops, UserStarts, RestartStops
<1>9. task[t].camera = c /\ task[t].kind = "restart" => task'[t].camera = c /\ task'[t].kind = "restart"
  BY <1>4, <1>5 DEF SameVisits
<1> QED BY <1>2, <1>3, <1>5, <1>6, <1>7, <1>8, <1>9, StillExplained DEF ownerVars

\* The recorder of the camera itself starts, stops, or has stopped.
LEMMA RecorderExplained ==
  ASSUME NEW c \in Camera, Explained(c), NEW t \in Task, cpu \in {None, t},
         \A u \in Task \ {t} : task'[u] = task[u], policy'[c] = policy[c],
         UNCHANGED ownerVars, crossed' = crossed, CameraPart(c)',
         LocalPart(task[t], c)', CpuPart(t, c)',
         IsRunning(c)' \/ Excuses(task[t], c)',
         task'[t].camera = task[t].camera, task'[t].kind = task[t].kind
  PROVE  Explained(c)'
<1>1. \A u \in Task : LocalPart(task[u], c)' /\ CpuPart(u, c)'
  BY OthersKept
<1>2. ManagedPart(c)'
  BY DEF ManagedPart
<1>3. PausedPart(c)'
  BY DEF Explained, PausedPart, ownerVars
<1> QED BY <1>1, <1>2, <1>3 DEF Explained

\* The steps of the recorder under its lock.
LEMMA LockExplained ==
  ASSUME Typed, NEW c \in Camera, Explained(c), NEW t \in Task, VisitsByPass(task[t]),
         StartRecorder(t) \/ StopRecorder(t) \/ StopReturns(t)
  PROVE  Explained(c)'
<1> DEFINE d == task[t].camera
<1>1. LocalPart(task[t], c) /\ CameraPart(c)
  BY DEF Explained
<1>2. task[t] \in Local /\ cpu \in {None, t} /\ task[t].at \in {"lock", "queued", "stopping"}
      /\ d \in Camera
  BY DEF Typed, TaskTyped, Locals, Unassigned, StartRecorder, StopRecorder, StopReturns, Acquire, Runs
<1>3. UNCHANGED <<rowVars, ownerVars, crossed>>
  BY DEF StartRecorder, StopRecorder, StopReturns, boundVars
<1>4. policy'[c] = policy[c] /\ revision'[c] = revision[c] /\ (Enabled(c) => Enabled(c)')
  BY <1>3 DEF rowVars, Enabled
<1>5. ASSUME NEW at
      PROVE  LET m == [task[t] EXCEPT !.at = at]
             IN  /\ m.camera = d /\ m.config = task[t].config /\ SameVisits(task[t], m)
                 /\ m.at = at /\ m.op = task[t].op /\ m.then = task[t].then
  BY <1>2 DEF Local, SameVisits
<1>6. ASSUME NEW at, Continue(t, [task[t] EXCEPT !.at = at]) \/ Await(t, [task[t] EXCEPT !.at = at])
      PROVE  /\ task'[t].camera = d /\ task'[t].config = task[t].config
             /\ SameVisits(task[t], task'[t])
             /\ task'[t].at = at /\ task'[t].op = task[t].op /\ task'[t].then = task[t].then
             /\ \A u \in Task \ {t} : task'[u] = task[u]
             /\ cpu' \in {None, t}
  <2> DEFINE v == [task[t] EXCEPT !.at = at]
  <2>1. /\ v.camera = d /\ v.config = task[t].config /\ SameVisits(task[t], v)
        /\ v.at = at /\ v.op = task[t].op /\ v.then = task[t].then
    BY <1>5
  <2> HIDE DEF v
  <2>2. Continue(t, v) \/ Await(t, v)
    BY <1>6 DEF v
  <2>3. task'[t] = v /\ (\A u \in Task \ {t} : task'[u] = task[u]) /\ cpu' \in {None, t}
    BY <2>2, Moves
  <2> QED BY <2>1, <2>3
<1>7. CASE d # c
  <2>1. SameCamera(c)
    <3>1. \/ UNCHANGED recorderVars
          \/ \E r : Recorder!Open(d, r)
          \/ Recorder!BeginStop(d) \/ Recorder!Close(d)
      BY DEF StartRecorder, StopRecorder, StopReturns
    <3>2. phase'[c] = phase[c] /\ serving'[c] = serving[c]
      BY <1>7, <3>1 DEF recorderVars, Recorder!Open, Recorder!BeginStop, Recorder!Close, Typed,
                        RecorderTyped
    <3> QED BY <1>4, <3>2 DEF SameCamera
  <2>2. PICK at : Continue(t, [task[t] EXCEPT !.at = at]) \/ Await(t, [task[t] EXCEPT !.at = at])
    BY DEF StartRecorder, StopRecorder, StopReturns
  <2>3. c \in task'[t].todo => task'[t].kind = "none" /\ ViewPart(task[t], c)'
    BY <1>1, <1>6, <2>1, <2>2 DEF LocalPart, SameVisits, ViewPart, SameCamera
  <2> QED BY <1>2, <1>3, <1>6, <1>7, <2>1, <2>2, <2>3, Elsewhere DEF ownerVars
<1> DEFINE calls == \/ AutoStops(task[t])
                    \/ /\ AutoStarts(task[t]) \/ UserStarts(task[t]) \/ RestartStops(task[t])
                       /\ task[t].config = 1 /\ Enabled(c)
<1>8. d = c => calls /\ c \notin task[t].todo
  BY <1>1, <1>2 DEF LocalPart, Settles
<1>9. CASE d = c /\ StartRecorder(t)
  <2>1. (AutoStarts(task[t]) \/ UserStarts(task[t])) /\ task[t].config = 1 /\ Enabled(c)
    BY <1>8, <1>9 DEF StartRecorder, AutoStops, RestartStops
  <2>2. phase'[c] = "running" /\ serving'[c] = 1
    BY <1>1, <1>9, <2>1
    DEF StartRecorder, CameraPart, IsRunning, Recorder!IsRunning, Recorder!Open, recorderVars,
        Typed, RecorderTyped
  <2>3. CameraPart(c)' /\ IsRunning(c)'
    BY <1>1, <1>4, <2>1, <2>2 DEF CameraPart, IsRunning, Recorder!IsRunning
  <2>4. Continue(t, [task[t] EXCEPT !.at = task[t].then]) /\ cpu' = t
    BY <1>9 DEF StartRecorder, Continue
  <2>5. LocalPart(task[t], c)' /\ CpuPart(t, c)'
    BY <1>4, <1>6, <1>8, <1>9, <2>1, <2>3, <2>4
    DEF LocalPart, CpuPart, AutoStarts, UserStarts, SameVisits
  <2> QED BY <1>2, <1>3, <1>4, <1>6, <2>3, <2>4, <2>5, RecorderExplained DEF SameVisits
<1>10. CASE d = c /\ StopRecorder(t) /\ IsRunning(c)
  <2>1. AutoStops(task[t]) \/ (RestartStops(task[t]) /\ task[t].config = 1 /\ Enabled(c))
    BY <1>8, <1>10 DEF StopRecorder, AutoStarts, UserStarts
  <2>2. phase'[c] = "stopping" /\ serving' = serving
    BY <1>10 DEF StopRecorder, Recorder!BeginStop, Typed, RecorderTyped
  <2>3. CameraPart(c)'
    BY <1>1, <1>4, <1>10, <2>2 DEF CameraPart, IsRunning, Recorder!IsRunning
  <2>4. Await(t, [task[t] EXCEPT !.at = "stopping"])
    BY <1>10 DEF StopRecorder
  <2>5. LocalPart(task[t], c)' /\ CpuPart(t, c)' /\ Excuses(task[t], c)'
    BY <1>4, <1>6, <1>8, <1>10, <2>1, <2>4
    DEF LocalPart, CpuPart, AutoStops, RestartStops, SameVisits, Excuses
  <2> QED BY <1>2, <1>3, <1>4, <1>6, <2>3, <2>4, <2>5, RecorderExplained DEF SameVisits
<1>11. CASE d = c /\ StopRecorder(t) /\ ~IsRunning(c)
  <2>1. AutoStops(task[t]) \/ (RestartStops(task[t]) /\ task[t].config = 1 /\ Enabled(c))
    BY <1>8, <1>11 DEF StopRecorder, AutoStarts, UserStarts
  <2>2. SameCamera(c)
    BY <1>4, <1>11 DEF StopRecorder, recorderVars, SameCamera
  <2>3. Continue(t, [task[t] EXCEPT !.at = task[t].then]) /\ cpu' = t
    BY <1>11 DEF StopRecorder, Continue
  <2>4. LocalPart(task[t], c)' /\ CpuPart(t, c)'
    BY <1>4, <1>6, <1>8, <1>11, <2>1, <2>3
    DEF LocalPart, CpuPart, AutoStops, RestartStops, SameVisits
  <2>5. ~Excuses(task[t], c)
    BY <1>2, <1>11 DEF Excuses, StopRecorder, Acquire, Runs
  <2> QED BY <1>2, <1>3, <1>6, <2>2, <2>3, <2>4, <2>5, StillExplained DEF ownerVars, SameVisits
<1>12. CASE d = c /\ StopReturns(t)
  <2>1. AutoStops(task[t]) \/ (RestartStops(task[t]) /\ task[t].config = 1 /\ Enabled(c))
    BY <1>8, <1>12 DEF StopReturns, Runs, AutoStarts, UserStarts
  <2>2. phase'[c] = "stopped"
    BY <1>12 DEF StopReturns, Recorder!Close, Typed, RecorderTyped
  <2>3. CameraPart(c)'
    BY <1>1, <1>4, <2>2 DEF CameraPart
  <2>4. Continue(t, [task[t] EXCEPT !.at = task[t].then]) /\ cpu' = t
    BY <1>12 DEF StopReturns, Continue
  <2>5. LocalPart(task[t], c)' /\ CpuPart(t, c)' /\ Excuses(task[t], c)'
    BY <1>4, <1>6, <1>8, <1>12, <2>1, <2>4
    DEF LocalPart, CpuPart, AutoStops, RestartStops, SameVisits, Excuses
  <2> QED BY <1>2, <1>3, <1>4, <1>6, <2>3, <2>4, <2>5, RecorderExplained DEF SameVisits
<1> QED BY <1>7, <1>9, <1>10, <1>11, <1>12

\* Every step leaves visits to the passes, and resets to the batch requests.
LEMMA VisitsKept ==
  ASSUME Typed, NEW t \in Task, VisitsByPass(task[t]), Step(t) \/ Request(t) \/ (Wake /\ t = Poll)
  PROVE  VisitsByPass(task[t])' /\ \A u \in Task \ {t} : task'[u] = task[u]
<1>1. task[t] \in Local
  BY DEF Typed, TaskTyped, Locals
<1> DEFINE P(v) == VisitsByPass(v) /\ (Continue(t, v) \/ Await(t, v))
<1>2. ASSUME NEW v, P(v)
      PROVE  VisitsByPass(task[t])' /\ \A u \in Task \ {t} : task'[u] = task[u]
  <2>1. task'[t] = v /\ \A u \in Task \ {t} : task'[u] = task[u]
    BY <1>2, Moves
  <2> QED BY <1>2, <2>1 DEF VisitsByPass
<1>3. VisitsByPass(Idle) /\ VisitsByPass([Idle EXCEPT !.at = "load"])
  BY DEF Idle, VisitsByPass
<1>4. CASE Queue(t) \/ RingStopped(t) \/ Again(t)
  <2>1. /\ VisitsByPass([task[t] EXCEPT !.at = "queued"])
        /\ VisitsByPass([task[t] EXCEPT !.at = "lock"])
        /\ VisitsByPass(Call(t, "start", "noteStart", "lock"))
    BY <1>1 DEF Local, Call, VisitsByPass
  <2> QED BY <1>2, <1>4, <2>1 DEF Queue, RingStopped, Again
<1>5. CASE StartRecorder(t) \/ StopRecorder(t) \/ StopReturns(t)
  <2>1. /\ VisitsByPass([task[t] EXCEPT !.at = task[t].then])
        /\ VisitsByPass([task[t] EXCEPT !.at = "stopping"])
    BY <1>1 DEF Local, VisitsByPass
  <2> QED BY <1>2, <1>5, <2>1 DEF StartRecorder, StopRecorder, StopReturns
<1>6. CASE LoadRows(t)
  <2> DEFINE v == [Idle EXCEPT
       !.at = "visit", !.todo = {c \in Camera : policy[c] # "gone"},
       !.view = [c \in Camera |-> [policy |-> policy[c], window |-> window[c],
                                   revision |-> revision[c]]]]
  <2>1. VisitsByPass(v) /\ Continue(t, v)
    BY <1>6 DEF LoadRows, Idle, VisitsByPass
  <2> HIDE DEF v
  <2> QED BY <1>2, <2>1
<1>7. ASSUME NEW c \in Camera, Visit(t, c)
      PROVE  VisitsByPass(task[t])' /\ \A u \in Task \ {t} : task'[u] = task[u]
  <2> DEFINE local == [task[t] EXCEPT !.camera = c, !.todo = @ \ {c}, !.at = "settle"]
             stops == [local EXCEPT !.op = "stop", !.then = "settle", !.at = "lock"]
  <2>1. task[t].kind = "none"
    BY <1>7 DEF Visit, Runs, VisitsByPass
  <2>2. VisitsByPass(local) /\ VisitsByPass(stops)
    BY <1>1, <2>1 DEF Local, VisitsByPass
  <2>3. Continue(t, local) \/ Continue(t, stops)
    BY <1>7 DEF Visit
  <2> HIDE DEF local, stops
  <2> QED BY <1>2, <2>2, <2>3
<1>8. CASE Settle(t)
  <2> DEFINE d == task[t].camera
             seen == [task[t] EXCEPT !.view[d] = NoView[d], !.op = "none", !.then = "idle"]
             starts == [seen EXCEPT !.op = "start", !.then = "own", !.at = "ring",
                                    !.config = task[t].view[d].revision]
             stops == [seen EXCEPT !.op = "stop", !.then = "disown", !.at = "lock"]
             passes == [seen EXCEPT !.camera = None, !.at = "visit"]
  <2>1. task[t].kind = "none"
    BY <1>8 DEF Settle, Runs, VisitsByPass
  <2>2. VisitsByPass(starts) /\ VisitsByPass(stops) /\ VisitsByPass(passes)
    BY <1>1, <2>1 DEF Local, VisitsByPass
  <2>3. Await(t, starts) \/ Continue(t, stops) \/ Continue(t, passes)
    BY <1>8 DEF Settle
  <2> HIDE DEF starts, stops, passes
  <2> QED BY <1>2, <2>2, <2>3
<1>9. CASE Own(t) \/ Disown(t)
  <2>1. task[t].kind = "none"
    BY <1>9 DEF Own, Disown, Runs, VisitsByPass
  <2>2. VisitsByPass(NextVisit(t))
    BY <1>1, <2>1 DEF NextVisit, Call, Local, VisitsByPass
  <2> QED BY <1>2, <1>9, <2>2 DEF Own, Disown
<1>10. CASE EndPass(t) \/ Erase(t) \/ NoteStart(t) \/ NoteStop(t) \/ BatchReset(t)
            \/ (Wake /\ t = Poll)
  BY <1>2, <1>3, <1>10 DEF EndPass, Erase, NoteStart, NoteStop, BatchReset, Wake
<1>11. CASE Snapshot(t)
  <2>1. ASSUME NEW was, NEW owner
        PROVE  VisitsByPass([task[t] EXCEPT !.was = was, !.owner = owner, !.at = "teardown"])
    BY <1>1 DEF Local, VisitsByPass
  <2>2. PICK was, owner : Await(t, [task[t] EXCEPT !.was = was, !.owner = owner, !.at = "teardown"])
    BY <1>11, Zenon DEF Snapshot
  <2> QED BY <1>2, <2>1, <2>2
<1>12. CASE TornDown(t)
  <2>1. /\ VisitsByPass(Call(t, "stop", "detach", "lock"))
        /\ VisitsByPass([task[t] EXCEPT !.at = "detach"])
    BY <1>1 DEF Local, Call, VisitsByPass
  <2> QED BY <1>2, <1>12, <2>1 DEF TornDown
<1>13. CASE Detach(t)
  <2>1. ASSUME NEW at \in {"erase", "commit", "restore"}
        PROVE  VisitsByPass([Call(t, "none", "idle", "idle") EXCEPT !.at = at])
    BY <1>1 DEF Local, Call, VisitsByPass
  <2>2. PICK at \in {"erase", "commit", "restore"} :
          Await(t, [Call(t, "none", "idle", "idle") EXCEPT !.at = at])
    BY <1>13 DEF Detach
  <2> QED BY <1>2, <2>1, <2>2
<1>14. CASE SwitchCommit(t)
  <2>1. VisitsByPass([task[t] EXCEPT !.at = "restore"])
    BY <1>1 DEF Local, VisitsByPass
  <2> QED BY <1>2, <1>14, <2>1 DEF SwitchCommit
<1>15. CASE Restore(t)
  <2>1. ASSUME NEW n PROVE VisitsByPass([task[t] EXCEPT !.at = "capability", !.config = n])
    BY <1>1 DEF Local, VisitsByPass
  <2> QED BY <1>2, <1>3, <1>15, <2>1 DEF Restore
<1>16. CASE Capability(t)
  <2>1. VisitsByPass(Call(t, "start", "noteStart", "ring"))
    BY <1>1 DEF Local, Call, VisitsByPass
  <2> QED BY <1>2, <1>3, <1>16, <2>1 DEF Capability
<1>17. CASE Request(t)
  <2>1. ASSUME NEW k, NEW c, NEW at \in {"ring", "lock", "snapshot"}, NEW op, NEW sched,
               NEW then \in {"noteStart", "noteStop", "again"}, NEW n
        PROVE  /\ VisitsByPass([Asked(k, c) EXCEPT !.op = op, !.then = then, !.at = at, !.config = n])
               /\ VisitsByPass([Asked(k, c) EXCEPT !.op = op, !.then = then, !.at = at])
               /\ VisitsByPass([Asked(k, c) EXCEPT !.sched = sched, !.at = at])
               /\ VisitsByPass([Asked(k, c) EXCEPT !.at = at])
    BY DEF Asked, Idle, VisitsByPass
  <2>2. ASSUME NEW C PROVE VisitsByPass([Idle EXCEPT !.kind = "batch", !.todo = C, !.at = "reset"])
    BY DEF Idle, VisitsByPass
  <2>3. ASSUME NEW c \in Camera, RequestStart(t, c) \/ RequestStop(t, c) \/ RequestRestart(t, c)
        PROVE  VisitsByPass(task[t])' /\ \A u \in Task \ {t} : task'[u] = task[u]
    <3>1. PICK k \in {"start", "stop", "restart"}, op \in {"start", "stop"},
               then \in {"noteStart", "noteStop", "again"}, at \in {"ring", "lock"}, n \in Nat :
            \/ Await(t, [Asked(k, c) EXCEPT !.op = op, !.then = then, !.at = at, !.config = n])
            \/ Continue(t, [Asked(k, c) EXCEPT !.op = op, !.then = then, !.at = at, !.config = n])
            \/ Continue(t, [Asked(k, c) EXCEPT !.op = op, !.then = then, !.at = at])
      <4>1. CASE RequestStart(t, c)
        BY <4>1 DEF RequestStart, Typed, RowsTyped
      <4>2. CASE RequestStop(t, c)
        BY <4>2 DEF RequestStop
      <4>3. CASE RequestRestart(t, c)
        BY <4>3 DEF RequestRestart, Typed, RowsTyped
      <4> QED BY <2>3, <4>1, <4>2, <4>3
    <3> DEFINE a == [Asked(k, c) EXCEPT !.op = op, !.then = then, !.at = at, !.config = n]
               b == [Asked(k, c) EXCEPT !.op = op, !.then = then, !.at = at]
    <3>2. at \in {"ring", "lock", "snapshot"}
      OBVIOUS
    <3>3. VisitsByPass(a) /\ VisitsByPass(b)
      BY <2>1, <3>2, Zenon
    <3>4. Await(t, a) \/ Continue(t, a) \/ Continue(t, b)
      BY <3>1
    <3> HIDE DEF a, b
    <3> QED BY <1>2, <3>3, <3>4
  <2>4. ASSUME NEW c \in Camera, RequestEdit(t, c) \/ RequestSwitch(t, c) \/ RequestDelete(t, c)
        PROVE  VisitsByPass(task[t])' /\ \A u \in Task \ {t} : task'[u] = task[u]
    <3>1. PICK k, sched :
            \/ Await(t, [Asked(k, c) EXCEPT !.sched = sched, !.at = "snapshot"])
            \/ Await(t, [Asked(k, c) EXCEPT !.at = "snapshot"])
      BY <2>4 DEF RequestEdit, RequestSwitch, RequestDelete
    <3> QED BY <1>2, <2>1, <3>1
  <2>5. ASSUME NEW C \in SUBSET Camera, RequestBatch(t, C)
        PROVE  VisitsByPass(task[t])' /\ \A u \in Task \ {t} : task'[u] = task[u]
    BY <1>2, <2>2, <2>5 DEF RequestBatch
  <2> QED BY <1>17, <2>3, <2>4, <2>5 DEF Request
<1> QED BY <1>4, <1>5, <1>6, <1>7, <1>8, <1>9, <1>10, <1>11, <1>12, <1>13, <1>14, <1>15, <1>16, <1>17
        DEF Step

\* The recorder's own end and a boundary change nothing for an untouched camera.
LEMMA WorldExplained ==
  ASSUME Typed, NEW c \in Camera, Explained(c), NEW d \in Camera, RecorderStep(d) \/ Boundary(d)
  PROVE  Explained(c)'
<1>1. CameraPart(c) /\ LocalPart(task[Poll], c) /\ CpuPart(Poll, c) /\ Poll \in Task
  BY DEF Explained, Task
<1>2. UNCHANGED <<ownerVars, task, cpu, crossed>> /\ cpu = None
  BY DEF RecorderStep, RecorderLeaves, RecorderGone, Boundary, boundVars
<1>3. SameCamera(c)
  <2>1. CASE RecorderLeaves(d)
    <3>1. d # c
      BY <1>1, <2>1 DEF RecorderLeaves, Recorder!Outdate, CameraPart, Enabled
    <3> QED BY <2>1, <3>1 DEF RecorderLeaves, Recorder!Outdate, SameCamera, rowVars, Typed, RecorderTyped
  <2>2. CASE RecorderGone(d)
    <3>1. d # c
      BY <1>1, <2>2 DEF RecorderGone, CameraPart
    <3> QED BY <2>2, <3>1 DEF RecorderGone, Recorder!Close, SameCamera, rowVars, Typed, RecorderTyped
  <2>3. CASE Boundary(d)
    BY <2>3 DEF Boundary, SameCamera, recorderVars
  <2> QED BY <2>1, <2>2, <2>3 DEF RecorderStep
<1>4. LocalPart(task[Poll], c)' /\ CpuPart(Poll, c)'
  BY <1>1, <1>2, <1>3 DEF LocalPart, CpuPart, ViewPart, Settles, AutoStarts, AutoStops, UserStarts,
                          RestartStops, Enabled, SameCamera, IsRunning, Recorder!IsRunning
<1>5. Excuses(task[Poll], c) => Excuses(task[Poll], c)'
  BY <1>2 DEF Excuses
<1> QED BY <1>1, <1>2, <1>3, <1>4, <1>5, StillExplained DEF ownerVars

LEMMA InitExplained == Init => PauseInv
<1> SUFFICES ASSUME Init PROVE PauseInv
  OBVIOUS
<1>1. \A t \in Task : task[t] = Idle
  BY DEF Init
<1>2. \A t \in Task : VisitsByPass(task[t])
  BY <1>1 DEF Idle, VisitsByPass
<1>3. ASSUME NEW c \in Camera PROVE Explained(c)
  <2>1. CameraPart(c) /\ ManagedPart(c) /\ PausedPart(c)
    BY DEF Init, CameraPart, ManagedPart, PausedPart
  <2>2. \A t \in Task : LocalPart(task[t], c) /\ CpuPart(t, c)
    BY <1>1, ControlAssumption DEF Idle, LocalPart, CpuPart
  <2> QED BY <2>1, <2>2 DEF Explained
<1> QED BY <1>2, <1>3 DEF PauseInv

LEMMA StepExplained == Typed /\ PauseInv /\ [Next]_vars => PauseInv'
<1> SUFFICES ASSUME Typed, PauseInv, [Next]_vars PROVE PauseInv'
  OBVIOUS
<1>1. \A t \in Task : VisitsByPass(task[t])
  BY DEF PauseInv
<1>2. ASSUME NEW t \in Task, Step(t) \/ Request(t) \/ (Wake /\ t = Poll) PROVE PauseInv'
  <2>1. \A u \in Task : VisitsByPass(task[u])'
    <3>1. VisitsByPass(task[t])' /\ \A u \in Task \ {t} : task'[u] = task[u]
      BY <1>1, <1>2, VisitsKept
    <3> QED BY <1>1, <3>1 DEF VisitsByPass
  <2>2. stopAsked \subseteq stopAsked' /\ reloaded \subseteq reloaded' /\ replanned \subseteq replanned'
    <3>1. CASE Request(t)
      BY <3>1 DEF Request, RequestStart, RequestStop, RequestRestart, RequestEdit, RequestSwitch,
                  RequestDelete, RequestBatch
    <3>2. CASE Step(t) \/ Wake
      BY <3>2 DEF Step, Queue, StartRecorder, StopRecorder, StopReturns, RingStopped, LoadRows, Settle,
                  Own, Disown, EndPass, Snapshot, TornDown, Detach, SwitchCommit, Erase, Restore,
                  Capability, BatchReset, Again, NoteStart, NoteStop, Visit, Wake, boundVars, askedVars
    <3> QED BY <1>2, <3>1, <3>2
  <2>3. ASSUME NEW c \in Camera, Untouched(c)' PROVE Explained(c)'
    <3>1. Explained(c)
      BY <2>2, <2>3 DEF Untouched, PauseInv
    <3>2. CASE Request(t)
      BY <2>3, <3>1, <3>2, RequestExplained
    <3>3. CASE Step(t) \/ (Wake /\ t = Poll)
      BY <1>1, <3>1, <3>3, ReloadExplained, VisitExplained, SettleExplained, NotedExplained,
         WaitExplained, LockExplained DEF Step
    <3> QED BY <1>2, <3>2, <3>3
  <2> QED BY <2>1, <2>3 DEF PauseInv
<1>3. ASSUME NEW d \in Camera, RecorderStep(d) \/ Boundary(d) PROVE PauseInv'
  <2>1. UNCHANGED <<task, stopAsked, reloaded, replanned>>
    BY <1>3 DEF RecorderStep, RecorderLeaves, RecorderGone, Boundary, boundVars, askedVars
  <2>2. ASSUME NEW c \in Camera, Untouched(c)' PROVE Explained(c)'
    BY <1>3, <2>1, <2>2, WorldExplained DEF Untouched, PauseInv
  <2> QED BY <1>1, <2>1, <2>2 DEF PauseInv, VisitsByPass
<1>4. CASE UNCHANGED vars
  BY <1>4 DEF vars, rowVars, recorderVars, ownerVars, boundVars, askedVars, PauseInv, VisitsByPass,
       Untouched, Explained, CameraPart, LocalPart, CpuPart, ManagedPart, PausedPart, ViewPart, Settles,
       AutoStarts, AutoStops, UserStarts, RestartStops, Excuses, Enabled, IsRunning, Recorder!IsRunning
<1>5. Poll \in Task
  BY DEF Task
<1> QED BY <1>2, <1>3, <1>4, <1>5 DEF Next

\* Between passes no restart is under way, so that a pause of an untouched
\* camera is one of two passes that crossed.
LEMMA ExplainedIsEnough == Typed /\ PauseInv => PausesExplained
<1> SUFFICES ASSUME Typed, PauseInv, Quiet, NEW c \in manualPaused, Untouched(c)
             PROVE  c \in crossed
  BY DEF PausesExplained, Untouched
<1>1. c \in Camera
  BY DEF Typed, OwnersTyped
<1>2. \A t \in Task : task[t].camera # c
  <2> SUFFICES ASSUME NEW t \in Task, task[t].camera = c PROVE FALSE
    OBVIOUS
  <2>1. LocalPart(task[t], c) /\ task[t].at = "idle"
    BY <1>1 DEF PauseInv, Explained, Quiet
  <2> QED BY <2>1 DEF LocalPart, Settles, AutoStarts, AutoStops, UserStarts, RestartStops
<1> QED BY <1>1, <1>2 DEF PauseInv, Explained, PausedPart

(* Between passes, a pause that no user asked for is explained.            *)
THEOREM PausesAreExplained == Spec => []PausesExplained
<1>1. Typed /\ PauseInv /\ [Next]_vars => (Typed /\ PauseInv)'
  BY StepTyped, StepExplained
<1> QED BY <1>1, InitTyped, InitExplained, ExplainedIsEnough, PTL DEF Spec
=============================================================================
