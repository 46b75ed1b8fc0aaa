------------------------ MODULE CameraRecorder_proofs ------------------------
(***************************************************************************)
(* Proofs about CameraRecorder, for any number of cameras, worker objects  *)
(* and callers and any bounds. The inductive invariant Inv says what the   *)
(* manager's lock buys: a stop in progress owns the lock and the worker it *)
(* stops, a worker asked to stop is alive only during such a stop, and a   *)
(* worker's program point determines its process handle.  The last part     *)
(* shows that the recorder implements the sessions of RecorderService.     *)
(***************************************************************************)
EXTENDS CameraRecorder, TLAPS

Stopping(p) == worker[call[p].camera]

\* A call carries a revision its camera has had; inside stop() it holds the
\* lock and its worker has been told to stop.
CallOK(p) ==
  /\ call[p].op \in Op => call[p].revision <= revision[call[p].camera]
  /\ call[p].at \in Inside =>
       /\ lock = p
       /\ Stopping(p) \in Worker
       /\ stopRequested[Stopping(p)]
CallInv == \A p \in Caller : CallOK(p)

\* Only the registered worker of a camera may be alive.
WorkerInv ==
  /\ \A c \in Camera : worker[c] # None => owner[worker[c]] = c
                                        /\ pc[worker[c]] # "unused"
  /\ \A w \in Worker :
       /\ Live(w) => owner[w] \in Camera /\ worker[owner[w]] = w
       /\ stopRequested[w] => pc[w] # "unused"
       /\ stopRequested[w] /\ Live(w) =>
            /\ lock \in Caller
            /\ call[lock].at \in Inside
            /\ Stopping(lock) = w

\* The program point of a worker, its process handle and its state agree.
ProcessInv ==
  \A w \in Worker :
    /\ process[w] <=> pc[w] = "recording"
    /\ w \in ffmpeg => pc[w] \in {"recording", "done"}
    /\ state[w] = "RECORDING" => process[w]
    /\ pc[w] = "done" => state[w] = "STOPPED"

\* Where an FFmpeg that nobody will signal can come from.
RaceInv ==
  /\ OrphanOnlyFromRace
  /\ \A w \in Worker :
       stopRequested[w] /\ pc[w] \in {"checking", "spawning"} => w \in raced
  /\ \A p \in Caller :
       call[p].at = "join" /\ Stopping(p) \in ffmpeg => Stopping(p) \in raced

\* A revision once superseded stays superseded, and is then only spawned on
\* after a check that failed.
RevisionInv ==
  \A w \in Worker :
    /\ outdated[w] <= 1 + unknown[w]
    /\ pc[w] = "spawning" => outdated[w] <= unknown[w]
    /\ pc[w] = "unused" => outdated[w] = 0
    /\ owner[w] \in Camera => expected[w] <= revision[owner[w]]
    /\ owner[w] \in Camera /\ outdated[w] > 0 =>
         expected[w] < revision[owner[w]]
    /\ pc[w] # "unused" => owner[w] \in Camera

Inv == TypeOK /\ CallInv /\ WorkerInv /\ ProcessInv /\ RaceInv /\ RevisionInv

-----------------------------------------------------------------------------
\* The types, step by step; what every other proof starts from.
LEMMA InitType == Init => TypeOK
  BY BoundsAssumption, SMT DEF Init, TypeOK, Revision, Idle, Point, State

\* Records of calls stay calls through the updates the actions make.
LEMMA CallTypes ==
  ASSUME TypeOK, NEW p \in Caller
  PROVE  /\ call[p] \in Call \/ call[p] = Idle
         /\ call[p].at \in At => call[p] \in Call
         /\ Rest(p) \in Call \cup {Idle}
         /\ \A a \in At : call[p] \in Call => [call[p] EXCEPT !.at = a] \in Call
         /\ \A k \in Call \cup {Idle} :
              [call EXCEPT ![p] = k] \in [Caller -> Call \cup {Idle}]
<1>1. call[p] \in Call \/ call[p] = Idle
  BY DEF TypeOK
<1>2. call[p].at \in At => call[p] \in Call
  BY <1>1 DEF Idle, At, Inside
<1>3. \A a \in At : call[p] \in Call => [call[p] EXCEPT !.at = a] \in Call
  BY DEF Call
<1>4. Rest(p) \in Call \cup {Idle}
  <2>1. CASE call[p].op = "restart"
    <3>1. call[p] \in Call
      BY <1>1, <2>1 DEF Idle
    <3>2. "start" \in Op /\ "lock" \in At
      BY DEF Op, At
    <3> QED
      BY <2>1, <3>1, <3>2 DEF Rest, Call
  <2>2. CASE call[p].op # "restart"
    BY <2>2 DEF Rest
  <2> QED
    BY <2>1, <2>2
<1>5. \A k \in Call \cup {Idle} :
        [call EXCEPT ![p] = k] \in [Caller -> Call \cup {Idle}]
  BY DEF TypeOK
<1> QED
  BY <1>1, <1>2, <1>3, <1>4, <1>5

LEMMA NextType == TypeOK /\ [Next]_vars => TypeOK'
<1> SUFFICES ASSUME TypeOK, [Next]_vars PROVE TypeOK'
  OBVIOUS
<1> USE BoundsAssumption
    DEF Point, State, workerUnchanged, rowVars, managerVars, taskVars,
        historyVars
<1>1. ASSUME NEW c \in Camera, EditConnection(c) PROVE TypeOK'
  BY <1>1 DEF EditConnection, TypeOK, Revision
<1>2. ASSUME NEW c \in Camera, ToggleEnabled(c) PROVE TypeOK'
  BY <1>2 DEF ToggleEnabled, TypeOK
<1>3. ASSUME NEW p \in Caller, NEW o \in Op, NEW c \in Camera,
             Request(p, o, c)
      PROVE TypeOK'
  <2>1. [op |-> o, camera |-> c, revision |-> revision[c], at |-> "lock"]
          \in Call
    BY DEF TypeOK, Call, At
  <2> QED
    BY <1>3, <2>1, CallTypes DEF Request, TypeOK
<1>4. ASSUME NEW p \in Caller, Start(p) PROVE TypeOK'
  <2>1. call[p].camera \in Camera /\ call[p].revision \in Revision
    BY <1>4, CallTypes DEF Start, Call, At
  <2> QED
    BY <1>4, <2>1, CallTypes DEF Start, TypeOK
<1>5. ASSUME NEW p \in Caller, StopNobody(p) PROVE TypeOK'
  BY <1>5, CallTypes DEF StopNobody, TypeOK
<1>6. ASSUME NEW p \in Caller, BeginStop(p) PROVE TypeOK'
  <2> DEFINE w == worker[call[p].camera]
             signalled == process[w] /\ w \in ffmpeg
  <2>. call[p] \in Call /\ w \in Worker
    BY <1>6, CallTypes DEF BeginStop, Call, At, TypeOK
  <2>1. call' \in [Caller -> Call \cup {Idle}]
    <3>1. CASE call' = [call EXCEPT ![p].at = IF signalled THEN "interrupt"
                                                            ELSE "join"]
      BY <3>1, CallTypes DEF At, Inside
    <3>2. CASE call' = [call EXCEPT ![p] = Rest(p)]
      BY <3>2, CallTypes
    <3> QED
      BY <1>6, <3>1, <3>2 DEF BeginStop
  <2>2. lock' \in Caller \cup {None}
    BY <1>6 DEF BeginStop, TypeOK
  <2>3. /\ stopRequested' \in [Worker -> BOOLEAN]
        /\ raced' \in SUBSET Worker
    BY <1>6 DEF BeginStop, TypeOK
  <2>4. state' \in [Worker -> State] /\ process' \in [Worker -> BOOLEAN]
    <3>1. \/ state' = [state EXCEPT ![w] = "STOPPING"]
          \/ state' = [state EXCEPT ![w] = "STOPPED"]
      BY <1>6 DEF BeginStop
    <3>2. process' = process \/ process' = [process EXCEPT ![w] = FALSE]
      BY <1>6 DEF BeginStop
    <3> QED
      BY <3>1, <3>2 DEF TypeOK
  <2> QED
    BY <1>6, <2>1, <2>2, <2>3, <2>4 DEF BeginStop, TypeOK
<1>7. ASSUME NEW p \in Caller, Escalate(p) PROVE TypeOK'
  <2>1. call[p] \in Call /\ worker[call[p].camera] \in Worker \cup {None}
    BY <1>7, CallTypes DEF Escalate, Call, At, Inside, TypeOK
  <2> QED
    BY <1>7, <2>1, CallTypes DEF Escalate, TypeOK, At, Inside
<1>8. ASSUME NEW p \in Caller, ProcessGone(p) PROVE TypeOK'
  <2>1. call[p] \in Call /\ worker[call[p].camera] \in Worker \cup {None}
    <3>1. call[p].at \in At
      BY <1>8 DEF ProcessGone, At, Inside
    <3>2. call[p] \in Call
      BY <3>1, CallTypes
    <3>3. call[p].camera \in Camera
      BY <3>2 DEF Call
    <3> QED
      BY <3>2, <3>3 DEF TypeOK
  <2>2. CASE Live(worker[call[p].camera])
    <3>1. call' = [call EXCEPT ![p].at = "join"]
      BY <1>8, <2>2 DEF ProcessGone
    <3>2. call' \in [Caller -> Call \cup {Idle}]
      BY <2>1, <3>1, CallTypes DEF At, Inside
    <3> QED
      BY <1>8, <2>2, <3>2 DEF ProcessGone, TypeOK
  <2>3. CASE ~Live(worker[call[p].camera])
    <3>1. FinishStop(p)
      BY <1>8, <2>3 DEF ProcessGone
    <3>2. call' \in [Caller -> Call \cup {Idle}]
      BY <3>1, CallTypes DEF FinishStop
    <3> QED
      BY <1>8, <2>1, <3>1, <3>2 DEF ProcessGone, FinishStop, TypeOK
  <2> QED
    BY <2>2, <2>3
<1>9. ASSUME NEW p \in Caller, Joined(p) PROVE TypeOK'
  <2>1. call[p] \in Call /\ worker[call[p].camera] \in Worker \cup {None}
    BY <1>9, CallTypes DEF Joined, Call, At, Inside, TypeOK
  <2> QED
    BY <1>9, <2>1, CallTypes DEF Joined, FinishStop, TypeOK, At, Inside
<1>10. ASSUME NEW p \in Caller, JoinTimeout(p) PROVE TypeOK'
  <2>1. call[p] \in Call /\ worker[call[p].camera] \in Worker \cup {None}
    BY <1>10, CallTypes DEF JoinTimeout, Call, At, Inside, TypeOK
  <2> QED
    BY <1>10, <2>1, CallTypes DEF JoinTimeout, FinishStop, TypeOK, At, Inside
<1>11. ASSUME NEW w \in Worker, TaskStep(w) PROVE TypeOK'
  <2>1. CASE Loop(w)
    BY <2>1 DEF Loop, Leave, TypeOK
  <2>2. CASE CheckRevision(w) \/ CheckFails(w)
    BY <2>2 DEF CheckRevision, CheckFails, TypeOK
  <2>3. CASE LeaveStale(w) \/ SpawnFails(w)
    BY <2>3 DEF LeaveStale, SpawnFails, Leave, TypeOK
  <2>4. CASE Spawn(w)
    BY <2>4 DEF Spawn, TypeOK
  <2>5. CASE Reap(w)
    BY <2>5 DEF Reap, Leave, TypeOK
  <2>6. CASE Report(w)
    BY <2>6 DEF Report, Leave, TypeOK
  <2> QED
    BY <1>11, <2>1, <2>2, <2>3, <2>4, <2>5, <2>6 DEF TaskStep
<1>12. ASSUME NEW w \in Worker, Exit(w) PROVE TypeOK'
  BY <1>12 DEF Exit, TypeOK
<1>13. CASE UNCHANGED vars
  BY <1>13 DEF vars, TypeOK
<1> QED
  BY <1>1, <1>2, <1>3, <1>4, <1>5, <1>6, <1>7, <1>8, <1>9, <1>10, <1>11,
     <1>12, <1>13
     DEF Next, RowNext, ManagerNext, ManagerStep, TaskNext

\* Every variable of the recorder keeps its type.
THEOREM TypeCorrect == Spec => []TypeOK
  BY InitType, NextType, PTL DEF Spec

-----------------------------------------------------------------------------
\* What Rest leaves of a call: nothing, or the start half of a restart.
LEMMA RestShape ==
  ASSUME TypeOK, NEW p \in Caller
  PROVE  /\ \/ Rest(p) = Idle
            \/ /\ call[p] \in Call
               /\ Rest(p) = [op |-> "start", camera |-> call[p].camera,
                             revision |-> call[p].revision, at |-> "lock"]
         /\ Idle.op \notin Op /\ Idle.at \notin Inside
<1>1. CASE call[p].op = "restart"
  <2>1. call[p] \in Call
    BY <1>1 DEF TypeOK, Idle
  <2>2. Rest(p) = [op |-> "start", camera |-> call[p].camera,
                   revision |-> call[p].revision, at |-> "lock"]
    BY <1>1, <2>1 DEF Rest, Call
  <2> QED
    BY <2>1, <2>2 DEF Idle, Op, Inside
<1>2. CASE call[p].op # "restart"
  BY <1>2 DEF Rest, Idle, Op, Inside
<1> QED
  BY <1>1, <1>2

\* A call that returns gives up the lock and is no longer inside stop().
LEMMA Returned ==
  ASSUME TypeOK, CallInv, NEW p \in Caller,
         call' = [call EXCEPT ![p] = Rest(p)] \/ call' = [call EXCEPT ![p] = Idle],
         \A q \in Caller : call[q].at \in Inside => q = p
  PROVE  /\ \A q \in Caller : call'[q].at \notin Inside
         /\ \A q \in Caller : call'[q].op \in Op =>
              /\ call[q].op \in Op
              /\ call'[q].camera = call[q].camera
              /\ call'[q].revision = call[q].revision
<1>1. /\ call'[p].at \notin Inside
      /\ call'[p].op \in Op => /\ call[p].op \in Op
                               /\ call'[p].camera = call[p].camera
                               /\ call'[p].revision = call[p].revision
  <2>1. call'[p] = Rest(p) \/ call'[p] = Idle
    BY DEF TypeOK
  <2> QED
    BY <2>1, RestShape DEF Call, Inside
<1>2. \A q \in Caller \ {p} : call'[q] = call[q]
  BY DEF TypeOK
<1> QED
  BY <1>1, <1>2

\* After a step that ends a call, or its stop half, nobody is inside stop().
LEMMA NobodyInside ==
  ASSUME TypeOK, CallInv, NEW p \in Caller,
         \/ Start(p) \/ StopNobody(p) \/ Joined(p) \/ JoinTimeout(p)
         \/ ProcessGone(p) /\ FinishStop(p)
  PROVE  /\ \A q \in Caller : call'[q].at \notin Inside
         /\ \A q \in Caller : call'[q].op \in Op =>
              /\ call[q].op \in Op
              /\ call'[q].camera = call[q].camera
              /\ call'[q].revision = call[q].revision
<1>1. \A q \in Caller : call[q].at \in Inside => q = p
  <2>1. CASE Start(p) \/ StopNobody(p)
    BY <2>1, NoneAssumption DEF Start, StopNobody, CallInv, CallOK
  <2>2. CASE Joined(p) \/ JoinTimeout(p) \/ ProcessGone(p)
    BY <2>2 DEF Joined, JoinTimeout, ProcessGone, CallInv, CallOK, Inside
  <2> QED
    BY <2>1, <2>2
<1>2. \/ call' = [call EXCEPT ![p] = Rest(p)]
      \/ call' = [call EXCEPT ![p] = Idle]
  BY DEF Start, StopNobody, Joined, JoinTimeout, FinishStop
<1> QED
  BY <1>1, <1>2, Returned

\* The lock's owner is the one call inside stop().
LEMMA CallStep == Inv /\ [Next]_vars => CallInv'
<1> SUFFICES ASSUME Inv, [Next]_vars PROVE CallInv'
  OBVIOUS
<1> TypeOK /\ TypeOK'
  BY NextType DEF Inv
<1> USE BoundsAssumption, NoneAssumption
    DEF Inv, CallInv, CallOK, Stopping, rowVars, managerVars, taskVars,
        historyVars, workerUnchanged
<1>1. ASSUME NEW c \in Camera, EditConnection(c) PROVE CallInv'
  <2> SUFFICES ASSUME NEW q \in Caller PROVE CallOK(q)'
    OBVIOUS
  <2>1. call[q].op \in Op => call[q] \in Call
    BY DEF TypeOK, Idle, Op
  <2> QED
    BY <1>1, <2>1 DEF EditConnection, TypeOK, Revision, Call
<1>2. ASSUME NEW c \in Camera, ToggleEnabled(c) PROVE CallInv'
  BY <1>2 DEF ToggleEnabled
<1>3. ASSUME NEW p \in Caller, NEW o \in Op, NEW c \in Camera,
             Request(p, o, c)
      PROVE CallInv'
  <2>1. /\ \A q \in Caller \ {p} : call'[q] = call[q]
        /\ call'[p] = [op |-> o, camera |-> c, revision |-> revision[c],
                       at |-> "lock"]
    BY <1>3 DEF Request, TypeOK
  <2>2. revision[c] <= revision[c]
    BY DEF TypeOK, Revision
  <2> QED
    BY <1>3, <2>1, <2>2 DEF Request, Inside
<1>4. ASSUME NEW p \in Caller, Start(p) PROVE CallInv'
  BY <1>4, NobodyInside DEF Start
<1>5. ASSUME NEW p \in Caller, StopNobody(p) PROVE CallInv'
  BY <1>5, NobodyInside DEF StopNobody
<1>6. ASSUME NEW p \in Caller, BeginStop(p) PROVE CallInv'
  <2> DEFINE w == worker[call[p].camera]
  <2>1. \A q \in Caller : call[q].at \notin Inside
    BY <1>6 DEF BeginStop, TypeOK
  <2>2. call[p] \in Call /\ w \in Worker
    BY <1>6, CallTypes DEF BeginStop, At, TypeOK, Call
  <2>3. CASE call' = [call EXCEPT ![p] = Rest(p)]
    <3>1. /\ \A q \in Caller : call'[q].at \notin Inside
          /\ \A q \in Caller : call'[q].op \in Op =>
               /\ call[q].op \in Op
               /\ call'[q].camera = call[q].camera
               /\ call'[q].revision = call[q].revision
      BY <2>1, <2>3, Returned
    <3> QED
      BY <1>6, <3>1 DEF BeginStop
  <2>4. CASE /\ \E a \in Inside : call' = [call EXCEPT ![p].at = a]
             /\ lock' = p
    <3>1. /\ \A q \in Caller \ {p} : call'[q] = call[q]
          /\ call'[p].camera = call[p].camera
          /\ call'[p].revision = call[p].revision
          /\ call'[p].op = call[p].op
      BY <2>2, <2>4 DEF TypeOK, Call
    <3> QED
      BY <1>6, <2>1, <2>2, <2>4, <3>1 DEF BeginStop, TypeOK
  <2> QED
    BY <1>6, <2>3, <2>4 DEF BeginStop, Inside
<1>7. ASSUME NEW p \in Caller, Escalate(p) PROVE CallInv'
  <2>1. call[p] \in Call /\ call[p].at \in Inside
    BY <1>7, CallTypes DEF Escalate, Inside, At
  <2>2. /\ \A q \in Caller \ {p} : call'[q] = call[q]
        /\ call'[p].camera = call[p].camera
        /\ call'[p].revision = call[p].revision
        /\ call'[p].op = call[p].op
    BY <1>7, <2>1 DEF Escalate, TypeOK, Call
  <2> QED
    BY <1>7, <2>1, <2>2 DEF Escalate
<1>8. ASSUME NEW p \in Caller, ProcessGone(p) PROVE CallInv'
  <2>1. CASE FinishStop(p)
    BY <1>8, <2>1, NobodyInside DEF ProcessGone
  <2>2. CASE call' = [call EXCEPT ![p].at = "join"] /\ UNCHANGED lock
    BY <1>8, <2>2 DEF ProcessGone, TypeOK, Call, Inside, Idle
  <2> QED
    BY <1>8, <2>1, <2>2 DEF ProcessGone
<1>9. ASSUME NEW p \in Caller, Joined(p) PROVE CallInv'
  BY <1>9, NobodyInside DEF Joined, FinishStop
<1>10. ASSUME NEW p \in Caller, JoinTimeout(p) PROVE CallInv'
  BY <1>10, NobodyInside DEF JoinTimeout, FinishStop
<1>11. ASSUME NEW w \in Worker, Loop(w) PROVE CallInv'
  BY <1>11 DEF Loop, Leave
<1>12. ASSUME NEW w \in Worker, CheckRevision(w) PROVE CallInv'
  BY <1>12 DEF CheckRevision, IsStale
<1>13. ASSUME NEW w \in Worker, CheckFails(w) PROVE CallInv'
  BY <1>13 DEF CheckFails
<1>14. ASSUME NEW w \in Worker, LeaveStale(w) PROVE CallInv'
  BY <1>14 DEF LeaveStale, Leave
<1>15. ASSUME NEW w \in Worker, Spawn(w) PROVE CallInv'
  BY <1>15 DEF Spawn
<1>16. ASSUME NEW w \in Worker, SpawnFails(w) PROVE CallInv'
  BY <1>16 DEF SpawnFails
<1>17. ASSUME NEW w \in Worker, Reap(w) PROVE CallInv'
  BY <1>17 DEF Reap, Leave
<1>18. ASSUME NEW w \in Worker, Report(w) PROVE CallInv'
  BY <1>18 DEF Report, Leave
<1>19. ASSUME NEW w \in Worker, Exit(w) PROVE CallInv'
  BY <1>19 DEF Exit
<1>20. CASE UNCHANGED vars
  BY <1>20 DEF vars
<1> QED
  BY <1>1, <1>2, <1>3, <1>4, <1>5, <1>6, <1>7, <1>8, <1>9, <1>10,
     <1>11, <1>12, <1>13, <1>14, <1>15, <1>16, <1>17, <1>18, <1>19, <1>20
     DEF Next, RowNext, ManagerNext, ManagerStep, TaskNext, TaskStep

\* Starting needs the lock, so nobody is being stopped: a new worker is alone.
LEMMA WorkerStep == Inv /\ [Next]_vars => WorkerInv'
<1> SUFFICES ASSUME Inv, [Next]_vars PROVE WorkerInv'
  OBVIOUS
<1> TypeOK /\ TypeOK'
  BY NextType DEF Inv
<1> USE BoundsAssumption, NoneAssumption
    DEF Inv, CallInv, CallOK, WorkerInv, Live, Stopping, rowVars, managerVars,
        taskVars, historyVars, workerUnchanged, TypeOK
<1>1. ASSUME NEW c \in Camera, EditConnection(c) PROVE WorkerInv'
  BY <1>1 DEF EditConnection
<1>2. ASSUME NEW c \in Camera, ToggleEnabled(c) PROVE WorkerInv'
  BY <1>2 DEF ToggleEnabled
<1>3. ASSUME NEW p \in Caller, NEW o \in Op, NEW c \in Camera,
             Request(p, o, c)
      PROVE WorkerInv'
  <2>1. lock \in Caller /\ call[lock].at \in Inside =>
          call'[lock] = call[lock]
    BY <1>3 DEF Request, Idle, Inside, TypeOK
  <2> QED
    BY <1>3, <2>1 DEF Request
<1>4. ASSUME NEW p \in Caller, Start(p) PROVE WorkerInv'
  <2> DEFINE c == call[p].camera
  <2>1. \A w \in Worker : Live(w) => ~stopRequested[w]
    BY <1>4 DEF Start, TypeOK, WorkerInv
  <2>2. CASE IsRunning(c)
    BY <1>4, <2>1, <2>2 DEF Start, WorkerInv, Live
  <2>3. CASE ~IsRunning(c)
    <3>1. PICK v \in Worker :
            /\ pc[v] = "unused"
            /\ worker' = [worker EXCEPT ![c] = v]
            /\ owner' = [owner EXCEPT ![v] = c]
            /\ pc' = [pc EXCEPT ![v] = "ready"]
            /\ UNCHANGED stopRequested
      BY <1>4, <2>3 DEF Start
    <3>2. c \in Camera
      BY <1>4, CallTypes DEF Start, At, Call
    <3>3. worker[c] = None \/ ~Live(worker[c])
      BY <2>1, <2>3, <3>2 DEF IsRunning, Running, TypeOK
    <3>4. \A w \in Worker : Live(w) => owner[w] # c
      BY <3>3, NoneAssumption DEF WorkerInv
    <3>5. ~stopRequested[v]
      BY <3>1 DEF WorkerInv
    <3> QED
      BY <2>1, <3>1, <3>2, <3>4, <3>5, NoneAssumption
         DEF WorkerInv, Live, TypeOK
  <2> QED
    BY <2>2, <2>3
<1>5. ASSUME NEW p \in Caller, StopNobody(p) PROVE WorkerInv'
  BY <1>5 DEF StopNobody, Rest
<1>6. ASSUME NEW p \in Caller, BeginStop(p) PROVE WorkerInv'
  <2> DEFINE w == worker[call[p].camera]
  <2>1. \A v \in Worker : Live(v) => ~stopRequested[v]
    BY <1>6 DEF BeginStop, TypeOK, WorkerInv
  <2>2. call[p] \in Call /\ call[p].camera \in Camera /\ w \in Worker
    BY <1>6, CallTypes DEF BeginStop, At, TypeOK, Call
  <2>3. stopRequested' = [stopRequested EXCEPT ![w] = TRUE]
    BY <1>6 DEF BeginStop
  <2>4. pc[w] # "unused"
    BY <2>2, <1>6 DEF BeginStop, WorkerInv
  <2>5. Live(w) => /\ lock' = p
                   /\ call'[p].at \in Inside
                   /\ call'[p].camera = call[p].camera
    BY <1>6, <2>2 DEF BeginStop, TypeOK, Inside, Call
  <2> QED
    BY <1>6, <2>1, <2>2, <2>3, <2>4, <2>5 DEF BeginStop, WorkerInv, Live, TypeOK
<1>7. ASSUME NEW p \in Caller, Escalate(p) PROVE WorkerInv'
  BY <1>7 DEF Escalate, Inside, At, Call
<1>8. ASSUME NEW p \in Caller, ProcessGone(p) PROVE WorkerInv'
  BY <1>8 DEF ProcessGone, FinishStop, Rest, Inside, At, Call
<1>9. ASSUME NEW p \in Caller, Joined(p) PROVE WorkerInv'
  BY <1>9 DEF Joined, FinishStop, Rest, Inside, At, Call
<1>10. ASSUME NEW p \in Caller, JoinTimeout(p) PROVE WorkerInv'
  BY <1>10 DEF JoinTimeout, FinishStop, Rest, Inside, At, Call
<1>11. ASSUME NEW w \in Worker, Loop(w) PROVE WorkerInv'
  BY <1>11 DEF Loop, Leave
<1>12. ASSUME NEW w \in Worker, CheckRevision(w) PROVE WorkerInv'
  BY <1>12 DEF CheckRevision, IsStale
<1>13. ASSUME NEW w \in Worker, CheckFails(w) PROVE WorkerInv'
  BY <1>13 DEF CheckFails
<1>14. ASSUME NEW w \in Worker, LeaveStale(w) PROVE WorkerInv'
  BY <1>14 DEF LeaveStale, Leave
<1>15. ASSUME NEW w \in Worker, Spawn(w) PROVE WorkerInv'
  BY <1>15 DEF Spawn
<1>16. ASSUME NEW w \in Worker, SpawnFails(w) PROVE WorkerInv'
  BY <1>16 DEF SpawnFails
<1>17. ASSUME NEW w \in Worker, Reap(w) PROVE WorkerInv'
  BY <1>17 DEF Reap, Leave
<1>18. ASSUME NEW w \in Worker, Report(w) PROVE WorkerInv'
  BY <1>18 DEF Report, Leave
<1>19. ASSUME NEW w \in Worker, Exit(w) PROVE WorkerInv'
  BY <1>19 DEF Exit
<1>20. CASE UNCHANGED vars
  BY <1>20 DEF vars
<1> QED
  BY <1>1, <1>2, <1>3, <1>4, <1>5, <1>6, <1>7, <1>8, <1>9, <1>10,
     <1>11, <1>12, <1>13, <1>14, <1>15, <1>16, <1>17, <1>18, <1>19, <1>20
     DEF Next, RowNext, ManagerNext, ManagerStep, TaskNext, TaskStep

\* Handle, program point and state move together.
LEMMA ProcessStep == Inv /\ [Next]_vars => ProcessInv'
<1> SUFFICES ASSUME Inv, [Next]_vars PROVE ProcessInv'
  OBVIOUS
<1> TypeOK /\ TypeOK'
  BY NextType DEF Inv
<1> USE BoundsAssumption, NoneAssumption
    DEF Inv, CallInv, CallOK, WorkerInv, ProcessInv, Live, Stopping, rowVars,
        managerVars, taskVars, historyVars, workerUnchanged, TypeOK
<1>1. ASSUME NEW c \in Camera, EditConnection(c) PROVE ProcessInv'
  BY <1>1 DEF EditConnection
<1>2. ASSUME NEW c \in Camera, ToggleEnabled(c) PROVE ProcessInv'
  BY <1>2 DEF ToggleEnabled
<1>3. ASSUME NEW p \in Caller, NEW o \in Op, NEW c \in Camera,
             Request(p, o, c)
      PROVE ProcessInv'
  BY <1>3 DEF Request
<1>4. ASSUME NEW p \in Caller, Start(p) PROVE ProcessInv'
  BY <1>4 DEF Start, IsRunning, Running
<1>5. ASSUME NEW p \in Caller, StopNobody(p) PROVE ProcessInv'
  BY <1>5 DEF StopNobody, Rest
<1>6. ASSUME NEW p \in Caller, BeginStop(p) PROVE ProcessInv'
  BY <1>6 DEF BeginStop, Rest
<1>7. ASSUME NEW p \in Caller, Escalate(p) PROVE ProcessInv'
  BY <1>7 DEF Escalate
<1>8. ASSUME NEW p \in Caller, ProcessGone(p) PROVE ProcessInv'
  BY <1>8 DEF ProcessGone, FinishStop, Rest
<1>9. ASSUME NEW p \in Caller, Joined(p) PROVE ProcessInv'
  BY <1>9 DEF Joined, FinishStop, Rest
<1>10. ASSUME NEW p \in Caller, JoinTimeout(p) PROVE ProcessInv'
  BY <1>10 DEF JoinTimeout, FinishStop, Rest
<1>11. ASSUME NEW w \in Worker, Loop(w) PROVE ProcessInv'
  BY <1>11 DEF Loop, Leave
<1>12. ASSUME NEW w \in Worker, CheckRevision(w) PROVE ProcessInv'
  BY <1>12 DEF CheckRevision, IsStale
<1>13. ASSUME NEW w \in Worker, CheckFails(w) PROVE ProcessInv'
  BY <1>13 DEF CheckFails
<1>14. ASSUME NEW w \in Worker, LeaveStale(w) PROVE ProcessInv'
  BY <1>14 DEF LeaveStale, Leave
<1>15. ASSUME NEW w \in Worker, Spawn(w) PROVE ProcessInv'
  BY <1>15 DEF Spawn
<1>16. ASSUME NEW w \in Worker, SpawnFails(w) PROVE ProcessInv'
  BY <1>16 DEF SpawnFails
<1>17. ASSUME NEW w \in Worker, Reap(w) PROVE ProcessInv'
  BY <1>17 DEF Reap, Leave
<1>18. ASSUME NEW w \in Worker, Report(w) PROVE ProcessInv'
  BY <1>18 DEF Report, Leave
<1>19. ASSUME NEW w \in Worker, Exit(w) PROVE ProcessInv'
  BY <1>19 DEF Exit
<1>20. CASE UNCHANGED vars
  BY <1>20 DEF vars
<1> QED
  BY <1>1, <1>2, <1>3, <1>4, <1>5, <1>6, <1>7, <1>8, <1>9, <1>10,
     <1>11, <1>12, <1>13, <1>14, <1>15, <1>16, <1>17, <1>18, <1>19, <1>20
     DEF Next, RowNext, ManagerNext, ManagerStep, TaskNext, TaskStep

\* A check that passes on a superseded revision is a check that failed.
LEMMA RevisionStep == Inv /\ [Next]_vars => RevisionInv'
<1> SUFFICES ASSUME Inv, [Next]_vars PROVE RevisionInv'
  OBVIOUS
<1> TypeOK /\ TypeOK'
  BY NextType DEF Inv
<1> USE BoundsAssumption, NoneAssumption
    DEF Inv, CallInv, CallOK, WorkerInv, RevisionInv, Live, Revision, rowVars,
        managerVars, taskVars, historyVars, workerUnchanged, TypeOK
<1>1. ASSUME NEW c \in Camera, EditConnection(c) PROVE RevisionInv'
  BY <1>1 DEF EditConnection
<1>2. ASSUME NEW c \in Camera, ToggleEnabled(c) PROVE RevisionInv'
  BY <1>2 DEF ToggleEnabled
<1>3. ASSUME NEW p \in Caller, NEW o \in Op, NEW c \in Camera,
             Request(p, o, c)
      PROVE RevisionInv'
  BY <1>3 DEF Request
<1>4. ASSUME NEW p \in Caller, Start(p) PROVE RevisionInv'
  <2> DEFINE c == call[p].camera
  <2>1. CASE IsRunning(c)
    BY <1>4, <2>1 DEF Start
  <2>2. CASE ~IsRunning(c)
    <3>1. PICK v \in Worker :
            /\ pc[v] = "unused"
            /\ owner' = [owner EXCEPT ![v] = c]
            /\ expected' = [expected EXCEPT ![v] = call[p].revision]
            /\ pc' = [pc EXCEPT ![v] = "ready"]
      BY <1>4, <2>2 DEF Start
    <3>2. c \in Camera /\ call[p].revision <= revision[c]
      BY <1>4, CallTypes DEF Start, At, Call, CallInv, CallOK
    <3> QED
      BY <1>4, <3>1, <3>2 DEF Start
  <2> QED
    BY <2>1, <2>2
<1>5. ASSUME NEW p \in Caller, StopNobody(p) PROVE RevisionInv'
  BY <1>5 DEF StopNobody, Rest
<1>6. ASSUME NEW p \in Caller, BeginStop(p) PROVE RevisionInv'
  BY <1>6 DEF BeginStop, Rest
<1>7. ASSUME NEW p \in Caller, Escalate(p) PROVE RevisionInv'
  BY <1>7 DEF Escalate
<1>8. ASSUME NEW p \in Caller, ProcessGone(p) PROVE RevisionInv'
  BY <1>8 DEF ProcessGone, FinishStop, Rest
<1>9. ASSUME NEW p \in Caller, Joined(p) PROVE RevisionInv'
  BY <1>9 DEF Joined, FinishStop, Rest
<1>10. ASSUME NEW p \in Caller, JoinTimeout(p) PROVE RevisionInv'
  BY <1>10 DEF JoinTimeout, FinishStop, Rest
<1>11. ASSUME NEW w \in Worker, Loop(w) PROVE RevisionInv'
  BY <1>11 DEF Loop, Leave
<1>12. ASSUME NEW w \in Worker, CheckRevision(w) PROVE RevisionInv'
  BY <1>12 DEF CheckRevision, IsStale
<1>13. ASSUME NEW w \in Worker, CheckFails(w) PROVE RevisionInv'
  BY <1>13 DEF CheckFails
<1>14. ASSUME NEW w \in Worker, LeaveStale(w) PROVE RevisionInv'
  BY <1>14 DEF LeaveStale, Leave
<1>15. ASSUME NEW w \in Worker, Spawn(w) PROVE RevisionInv'
  BY <1>15 DEF Spawn
<1>16. ASSUME NEW w \in Worker, SpawnFails(w) PROVE RevisionInv'
  BY <1>16 DEF SpawnFails
<1>17. ASSUME NEW w \in Worker, Reap(w) PROVE RevisionInv'
  BY <1>17 DEF Reap, Leave
<1>18. ASSUME NEW w \in Worker, Report(w) PROVE RevisionInv'
  BY <1>18 DEF Report, Leave
<1>19. ASSUME NEW w \in Worker, Exit(w) PROVE RevisionInv'
  BY <1>19 DEF Exit
<1>20. CASE UNCHANGED vars
  BY <1>20 DEF vars
<1> QED
  BY <1>1, <1>2, <1>3, <1>4, <1>5, <1>6, <1>7, <1>8, <1>9, <1>10,
     <1>11, <1>12, <1>13, <1>14, <1>15, <1>16, <1>17, <1>18, <1>19, <1>20
     DEF Next, RowNext, ManagerNext, ManagerStep, TaskNext, TaskStep

\* A task is cancelled with its FFmpeg alive only after the spawn race.
LEMMA RaceStep == Inv /\ [Next]_vars => RaceInv'
<1> SUFFICES ASSUME Inv, [Next]_vars PROVE RaceInv'
  OBVIOUS
<1> TypeOK /\ TypeOK'
  BY NextType DEF Inv
<1> USE BoundsAssumption, NoneAssumption
    DEF Inv, CallInv, CallOK, WorkerInv, ProcessInv, RaceInv,
        OrphanOnlyFromRace, Live, Stopping, rowVars, managerVars, taskVars,
        historyVars, workerUnchanged, TypeOK
<1>1. ASSUME NEW c \in Camera, EditConnection(c) PROVE RaceInv'
  BY <1>1 DEF EditConnection
<1>2. ASSUME NEW c \in Camera, ToggleEnabled(c) PROVE RaceInv'
  BY <1>2 DEF ToggleEnabled
<1>3. ASSUME NEW p \in Caller, NEW o \in Op, NEW c \in Camera,
             Request(p, o, c)
      PROVE RaceInv'
  BY <1>3 DEF Request
<1>4. ASSUME NEW p \in Caller, Start(p) PROVE RaceInv'
  <2>1. \A q \in Caller : call'[q].at \notin Inside
    BY <1>4, NobodyInside
  <2> QED
    BY <1>4, <2>1 DEF Start, Inside
<1>5. ASSUME NEW p \in Caller, StopNobody(p) PROVE RaceInv'
  <2>1. \A q \in Caller : call'[q].at \notin Inside
    BY <1>5, NobodyInside
  <2> QED
    BY <1>5, <2>1 DEF StopNobody, Inside
<1>6. ASSUME NEW p \in Caller, BeginStop(p) PROVE RaceInv'
  <2> DEFINE w == worker[call[p].camera]
  <2>1. \A q \in Caller : call[q].at \notin Inside
    BY <1>6 DEF BeginStop
  <2>2. call[p] \in Call /\ w \in Worker
    BY <1>6, CallTypes DEF BeginStop, At, Call
  <2>3. /\ OrphanOnlyFromRace'
        /\ \A v \in Worker :
             stopRequested'[v] /\ pc'[v] \in {"checking", "spawning"}
               => v \in raced'
    BY <1>6, <2>2 DEF BeginStop
  <2>4. \A q \in Caller \ {p} : call'[q].at \notin Inside
    BY <1>6, <2>1 DEF BeginStop
  <2>5. call'[p].at = "join" => /\ call'[p].camera = call[p].camera
                                /\ ~(process[w] /\ w \in ffmpeg)
                                /\ Live(w)
    BY <1>6, <2>2, RestShape DEF BeginStop, Call, Inside
  <2>6. call'[p].at = "join" => w \notin ffmpeg
    BY <2>2, <2>5
  <2> QED
    BY <1>6, <2>3, <2>4, <2>5, <2>6 DEF BeginStop, Inside
<1>7. ASSUME NEW p \in Caller, Escalate(p) PROVE RaceInv'
  BY <1>7 DEF Escalate
<1>8. ASSUME NEW p \in Caller, ProcessGone(p) PROVE RaceInv'
  <2>1. CASE FinishStop(p)
    <3>1. \A q \in Caller : call'[q].at \notin Inside
      BY <1>8, <2>1, NobodyInside
    <3> QED
      BY <1>8, <3>1 DEF ProcessGone, Inside
  <2>2. CASE call' = [call EXCEPT ![p].at = "join"]
    <3>1. \A q \in Caller : call[q].at \in Inside => q = p
      BY <1>8 DEF ProcessGone, Inside
    <3>2. /\ \A q \in Caller \ {p} : call'[q] = call[q]
          /\ call'[p].camera = call[p].camera
      BY <1>8, <2>2, CallTypes DEF ProcessGone, Inside, At, Call
    <3> QED
      BY <1>8, <3>1, <3>2 DEF ProcessGone, Inside
  <2> QED
    BY <1>8, <2>1, <2>2 DEF ProcessGone
<1>9. ASSUME NEW p \in Caller, Joined(p) PROVE RaceInv'
  <2>1. \A q \in Caller : call'[q].at \notin Inside
    BY <1>9, NobodyInside
  <2> QED
    BY <1>9, <2>1 DEF Joined, FinishStop, Inside
<1>10. ASSUME NEW p \in Caller, JoinTimeout(p) PROVE RaceInv'
  <2>1. \A q \in Caller : call'[q].at \notin Inside
    BY <1>10, NobodyInside
  <2> QED
    BY <1>10, <2>1 DEF JoinTimeout, FinishStop, Inside
<1>11. ASSUME NEW w \in Worker, Loop(w) PROVE RaceInv'
  BY <1>11 DEF Loop, Leave
<1>12. ASSUME NEW w \in Worker, CheckRevision(w) PROVE RaceInv'
  BY <1>12 DEF CheckRevision, IsStale
<1>13. ASSUME NEW w \in Worker, CheckFails(w) PROVE RaceInv'
  BY <1>13 DEF CheckFails
<1>14. ASSUME NEW w \in Worker, LeaveStale(w) PROVE RaceInv'
  BY <1>14 DEF LeaveStale, Leave
<1>15. ASSUME NEW w \in Worker, Spawn(w) PROVE RaceInv'
  <2>1. stopRequested[w] => w \in raced
    BY <1>15 DEF Spawn
  <2>2. \A p \in Caller : call[p].at = "join" => stopRequested[Stopping(p)]
    BY DEF Inside
  <2> QED
    BY <1>15, <2>1, <2>2 DEF Spawn
<1>16. ASSUME NEW w \in Worker, SpawnFails(w) PROVE RaceInv'
  BY <1>16 DEF SpawnFails
<1>17. ASSUME NEW w \in Worker, Reap(w) PROVE RaceInv'
  BY <1>17 DEF Reap, Leave
<1>18. ASSUME NEW w \in Worker, Report(w) PROVE RaceInv'
  BY <1>18 DEF Report, Leave
<1>19. ASSUME NEW w \in Worker, Exit(w) PROVE RaceInv'
  BY <1>19 DEF Exit
<1>20. CASE UNCHANGED vars
  BY <1>20 DEF vars
<1> QED
  BY <1>1, <1>2, <1>3, <1>4, <1>5, <1>6, <1>7, <1>8, <1>9, <1>10,
     <1>11, <1>12, <1>13, <1>14, <1>15, <1>16, <1>17, <1>18, <1>19, <1>20
     DEF Next, RowNext, ManagerNext, ManagerStep, TaskNext, TaskStep

\* Nothing runs at first.
LEMMA InitInv == Init => Inv
<1> SUFFICES ASSUME Init PROVE Inv
  OBVIOUS
<1>1. TypeOK
  BY InitType
<1>2. CallInv
  BY DEF Init, CallInv, CallOK, Idle, Op, Inside
<1>3. WorkerInv
  BY DEF Init, WorkerInv, Live
<1>4. ProcessInv
  BY DEF Init, ProcessInv
<1>5. RaceInv
  BY DEF Init, RaceInv, OrphanOnlyFromRace, Idle
<1>6. RevisionInv
  BY NoneAssumption, SMT DEF Init, RevisionInv
<1> QED
  BY <1>1, <1>2, <1>3, <1>4, <1>5, <1>6 DEF Inv

\* The parts of Inv keep each other.
LEMMA InvStep == Inv /\ [Next]_vars => Inv'
  BY NextType, CallStep, WorkerStep, ProcessStep, RevisionStep, RaceStep DEF Inv

\* Inv holds in every reachable state.
THEOREM Invariance == Spec => []Inv
  BY InitInv, InvStep, PTL DEF Spec

-----------------------------------------------------------------------------
\* However starts, stops and restarts interleave, the only task alive for a
\* camera is its registered worker's.
THEOREM OneTask == Spec => []OneTaskPerCamera
<1>1. Inv => OneTaskPerCamera
  BY NoneAssumption DEF Inv, WorkerInv, OneTaskPerCamera
<1> QED
  BY <1>1, Invariance, PTL

\* An FFmpeg without a supervising task comes from one race only: a stop
\* that arrived between the worker's loop test and the end of its spawn.
THEOREM OrphanCause == Spec => []OrphanOnlyFromRace
<1>1. Inv => OrphanOnlyFromRace
  BY DEF Inv, RaceInv
<1> QED
  BY <1>1, Invariance, PTL

\* The reported state is backed by a process handle, and an ended worker
\* reports STOPPED.
THEOREM HonestStatus == Spec => []StatusHonest
<1>1. Inv => StatusHonest
  BY DEF Inv, ProcessInv, StatusHonest
<1> QED
  BY <1>1, Invariance, PTL

\* A worker spawns on a superseded revision at most once more than its
\* revision checks failed.
THEOREM BoundedOutdated == Spec => []OutdatedSpawnsBounded
<1>1. Inv => OutdatedSpawnsBounded
  BY DEF Inv, RevisionInv, OutdatedSpawnsBounded
<1> QED
  BY <1>1, Invariance, PTL

-----------------------------------------------------------------------------
(* CameraRecorder implements RecorderService: every step of the workers,    *)
(* the manager, FFmpeg and the database row is one step of the session of  *)
(* one camera, or none.                                                    *)

\* Revision 0 means "no usable connection": no row, call or worker has it.
UsableInv ==
  /\ \A c \in Camera : revision[c] # 0
  /\ \A p \in Caller : call[p].op \in Op => call[p].revision # 0
  /\ \A w \in Worker : pc[w] # "unused" => expected[w] # 0

IInv == Inv /\ UsableInv

-----------------------------------------------------------------------------
\* Revisions only grow from 1, and calls and workers copy them.
LEMMA UsableStep == IInv /\ [Next]_vars => UsableInv'
<1> SUFFICES ASSUME IInv, [Next]_vars PROVE UsableInv'
  OBVIOUS
<1> TypeOK /\ TypeOK'
  BY NextType DEF IInv, Inv
<1> USE BoundsAssumption, NoneAssumption
    DEF IInv, Inv, UsableInv, workerUnchanged, rowVars, managerVars, taskVars,
        historyVars
<1>1. ASSUME NEW c \in Camera, EditConnection(c) \/ ToggleEnabled(c)
      PROVE UsableInv'
  BY <1>1 DEF EditConnection, ToggleEnabled, TypeOK, Revision
<1>2. ASSUME NEW p \in Caller, NEW o \in Op, NEW c \in Camera,
             Request(p, o, c)
      PROVE UsableInv'
  <2>1. \A q \in Caller \ {p} : call'[q] = call[q]
    BY <1>2 DEF Request, TypeOK
  <2>2. call'[p].revision = revision[c]
    BY <1>2 DEF Request, TypeOK
  <2> QED
    BY <1>2, <2>1, <2>2 DEF Request
<1>3. ASSUME NEW p \in Caller,
             \/ Start(p) \/ StopNobody(p) \/ Joined(p) \/ JoinTimeout(p)
             \/ ProcessGone(p) /\ FinishStop(p)
      PROVE UsableInv'
  <2>1. \A q \in Caller : call'[q].op \in Op => call'[q].revision # 0
    BY <1>3, NobodyInside
  <2>2. \A w \in Worker : pc'[w] # "unused" => expected'[w] # 0
    <3>1. CASE Start(p)
      <4>1. call[p].revision # 0
        BY <3>1 DEF Start, Op
      <4> QED
        BY <3>1, <4>1 DEF Start, TypeOK
    <3>2. CASE ~Start(p)
      <4>1. expected' = expected
        BY <1>3, <3>2 DEF StopNobody, Joined, JoinTimeout, ProcessGone
      <4>2. \A w \in Worker : pc'[w] # "unused" => pc[w] # "unused"
        BY <1>3, <3>2
           DEF StopNobody, Joined, JoinTimeout, ProcessGone, Live, TypeOK
      <4> QED
        BY <4>1, <4>2
    <3> QED
      BY <3>1, <3>2
  <2>3. revision' = revision
    BY <1>3 DEF Start, StopNobody, Joined, JoinTimeout, ProcessGone
  <2> QED
    BY <2>1, <2>2, <2>3
<1>4. ASSUME NEW p \in Caller,
             BeginStop(p) \/ Escalate(p) \/ (ProcessGone(p) /\ ~FinishStop(p))
      PROVE UsableInv'
  <2>1. \A q \in Caller : call'[q].op \in Op =>
          call[q].op \in Op /\ call'[q].revision = call[q].revision
    <3>1. \/ call'[p] = Rest(p)
          \/ \E a \in At : call'[p] = [call[p] EXCEPT !.at = a]
      BY <1>4 DEF BeginStop, Escalate, ProcessGone, At, Inside, TypeOK
    <3>2. call'[p].op \in Op =>
            call[p].op \in Op /\ call'[p].revision = call[p].revision
      BY <3>1, RestShape DEF TypeOK, Call, Idle
    <3>3. \A q \in Caller \ {p} : call'[q] = call[q]
      BY <1>4 DEF BeginStop, Escalate, ProcessGone, TypeOK
    <3> QED
      BY <3>2, <3>3
  <2> QED
    BY <1>4, <2>1 DEF BeginStop, Escalate, ProcessGone
<1>5. ASSUME NEW w \in Worker, TaskStep(w) \/ Exit(w) PROVE UsableInv'
  BY <1>5 DEF TaskStep, Loop, CheckRevision, CheckFails, LeaveStale, Spawn,
              SpawnFails, Reap, Report, Exit, Leave, TypeOK
<1>6. CASE UNCHANGED vars
  BY <1>6 DEF vars
<1> QED
  BY <1>1, <1>2, <1>3, <1>4, <1>5, <1>6
     DEF Next, RowNext, ManagerNext, ManagerStep, TaskNext

\* The strengthened invariant holds in every reachable state.
THEOREM UsableInvariance == Spec => []IInv
<1>1. Init => IInv
  <2>1. Init => UsableInv
    BY BoundsAssumption DEF Init, UsableInv, Idle, Op
  <2> QED
    BY <2>1, InitInv DEF IInv
<1>2. IInv /\ [Next]_vars => IInv'
  BY InvStep, UsableStep DEF IInv
<1> QED
  BY <1>1, <1>2, PTL DEF Spec

-----------------------------------------------------------------------------
\* What a step may do to the session of one camera.
Same(c) == /\ PhaseOf(c)' = PhaseOf(c)
           /\ ServingOf(c)' = ServingOf(c)
           /\ ConnectionOf(c)' = ConnectionOf(c)
Opens(c) == /\ PhaseOf(c) = "stopped" /\ PhaseOf(c)' = "running"
            /\ ServingOf(c)' \in Revision
            /\ ConnectionOf(c)' = ConnectionOf(c)
Stops(c) == /\ PhaseOf(c) \in {"running", "leaving"}
            /\ PhaseOf(c)' = "stopping"
            /\ ServingOf(c)' = ServingOf(c)
            /\ ConnectionOf(c)' = ConnectionOf(c)
Outdates(c) == /\ PhaseOf(c) = "running" /\ PhaseOf(c)' = "leaving"
               /\ ServingOf(c) # ConnectionOf(c)
               /\ ServingOf(c)' = ServingOf(c)
               /\ ConnectionOf(c)' = ConnectionOf(c)
Closes(c) == /\ PhaseOf(c) \in {"leaving", "stopping"}
             /\ PhaseOf(c)' = "stopped"
             /\ ServingOf(c)' = 0
             /\ ConnectionOf(c)' = ConnectionOf(c)
Reconnects(c) == /\ PhaseOf(c)' = PhaseOf(c)
                 /\ ServingOf(c)' = ServingOf(c)
                 /\ ConnectionOf(c)' \in Revision

\* A step that moves one session so, and no other, is a step of the service.
LEMMA OneSession ==
  ASSUME NEW c \in Camera,
         \A d \in Camera \ {c} : Same(d),
         \/ Same(c) \/ Opens(c) \/ Stops(c) \/ Outdates(c) \/ Closes(c)
         \/ Reconnects(c)
  PROVE  [Service!ServiceNext]_(Service!serviceVars)
<1> DEFINE ph == [d \in Camera |-> PhaseOf(d)]
           sv == [d \in Camera |-> ServingOf(d)]
           cn == [d \in Camera |-> ConnectionOf(d)]
<1>1. CASE Same(c)
  <2>1. \A d \in Camera : Same(d)
    BY <1>1
  <2>2. ph' = ph /\ sv' = sv /\ cn' = cn
    BY <2>1 DEF Same
  <2> QED
    BY <2>2 DEF Service!serviceVars
<1>2. CASE Opens(c)
  <2>1. /\ ph[c] = "stopped"
        /\ ph' = [ph EXCEPT ![c] = "running"]
        /\ sv' = [sv EXCEPT ![c] = ServingOf(c)']
        /\ cn' = cn
    BY <1>2 DEF Same, Opens
  <2>2. Service!Open(c, ServingOf(c)')
    BY <2>1 DEF Service!Open
  <2>3. ServingOf(c)' \in Revision
    BY <1>2 DEF Opens
  <2> QED
    BY <2>2, <2>3 DEF Service!ServiceNext
<1>3. CASE Stops(c)
  <2>1. /\ ph[c] \in {"running", "leaving"}
        /\ ph' = [ph EXCEPT ![c] = "stopping"]
        /\ sv' = sv /\ cn' = cn
    BY <1>3 DEF Same, Stops
  <2>2. Service!BeginStop(c)
    BY <2>1 DEF Service!BeginStop, Service!IsRunning
  <2> QED
    BY <2>2 DEF Service!ServiceNext
<1>4. CASE Outdates(c)
  <2>1. /\ ph[c] = "running" /\ sv[c] # cn[c]
        /\ ph' = [ph EXCEPT ![c] = "leaving"]
        /\ sv' = sv /\ cn' = cn
    BY <1>4 DEF Same, Outdates
  <2>2. Service!Outdate(c)
    BY <2>1 DEF Service!Outdate
  <2> QED
    BY <2>2 DEF Service!ServiceNext
<1>5. CASE Closes(c)
  <2>1. /\ ph[c] \in {"leaving", "stopping"}
        /\ ph' = [ph EXCEPT ![c] = "stopped"]
        /\ sv' = [sv EXCEPT ![c] = 0]
        /\ cn' = cn
    BY <1>5 DEF Same, Closes
  <2>2. Service!Close(c)
    BY <2>1 DEF Service!Close, Service!Unusable
  <2> QED
    BY <2>2 DEF Service!ServiceNext
<1>6. CASE Reconnects(c)
  <2>1. /\ ph' = ph /\ sv' = sv
        /\ cn' = [cn EXCEPT ![c] = ConnectionOf(c)']
    BY <1>6 DEF Same, Reconnects
  <2>2. Service!Reconnect(c, ConnectionOf(c)')
    BY <2>1 DEF Service!Reconnect
  <2>3. ConnectionOf(c)' \in Revision
    BY <1>6 DEF Reconnects
  <2> QED
    BY <2>2, <2>3 DEF Service!ServiceNext
<1> QED
  BY <1>1, <1>2, <1>3, <1>4, <1>5, <1>6

\* A step that moves no session is a stutter of the service.
LEMMA NoSession ==
  ASSUME \A d \in Camera : Same(d)
  PROVE  [Service!ServiceNext]_(Service!serviceVars)
<1> DEFINE ph == [d \in Camera |-> PhaseOf(d)]
           sv == [d \in Camera |-> ServingOf(d)]
           cn == [d \in Camera |-> ConnectionOf(d)]
<1>1. ph' = ph /\ sv' = sv /\ cn' = cn
  BY DEF Same
<1> QED
  BY <1>1 DEF Service!serviceVars

\* A step of one worker is seen by the camera it is registered for only.
LEMMA OneWorker ==
  ASSUME IInv, NEW w \in Worker, UNCHANGED <<rowVars, worker>>,
         \A v \in Worker \ {w} : /\ pc'[v] = pc[v]
                                 /\ stopRequested'[v] = stopRequested[v]
                                 /\ expected'[v] = expected[v]
  PROVE  /\ \A d \in Camera : worker[d] # w => Same(d)
         /\ \A c, d \in Camera : worker[c] = w /\ worker[d] = w => c = d
<1>1. \A d \in Camera : worker[d] \in Worker \cup {None}
  BY DEF IInv, Inv, TypeOK
<1>2. \A d \in Camera : worker[d] # w => Same(d)
  BY <1>1 DEF Same, PhaseOf, ServingOf, ConnectionOf, Live, rowVars
<1>3. \A c, d \in Camera : worker[c] = w /\ worker[d] = w => c = d
  BY NoneAssumption DEF IInv, Inv, WorkerInv
<1> QED
  BY <1>2, <1>3

\* Every step of the recorder is a step of the service or a stutter.
LEMMA ServiceStep ==
  IInv /\ [Next]_vars => [Service!ServiceNext]_(Service!serviceVars)
<1> SUFFICES ASSUME IInv, [Next]_vars
             PROVE  [Service!ServiceNext]_(Service!serviceVars)
  OBVIOUS
<1> TypeOK /\ TypeOK'
  BY NextType DEF IInv, Inv
<1> USE BoundsAssumption, NoneAssumption
    DEF workerUnchanged, rowVars, managerVars, taskVars, historyVars
<1>1. ASSUME NEW c \in Camera, EditConnection(c) \/ ToggleEnabled(c)
      PROVE  [Service!ServiceNext]_(Service!serviceVars)
  <2>1. \A d \in Camera \ {c} : Same(d)
    BY <1>1 DEF EditConnection, ToggleEnabled, Same, PhaseOf, ServingOf,
                ConnectionOf, Live, TypeOK
  <2>2. ConnectionOf(c)' \in Revision
    BY DEF ConnectionOf, TypeOK, Revision
  <2>3. Reconnects(c)
    BY <1>1, <2>2 DEF EditConnection, ToggleEnabled, Reconnects, PhaseOf,
                      ServingOf, Live
  <2> QED
    BY <2>1, <2>3, OneSession
<1>2. ASSUME UNCHANGED <<rowVars, worker, pc, stopRequested, expected>>
      PROVE  [Service!ServiceNext]_(Service!serviceVars)
  <2>1. \A d \in Camera : Same(d)
    BY <1>2 DEF Same, PhaseOf, ServingOf, ConnectionOf, Live
  <2> QED
    BY <2>1, NoSession
<1>3. ASSUME NEW p \in Caller, Start(p), ~IsRunning(call[p].camera)
      PROVE  [Service!ServiceNext]_(Service!serviceVars)
  <2>0. call[p].camera \in Camera /\ call[p].revision \in Revision
    BY <1>3, CallTypes DEF Start, Call, At
  <2>1. PICK c \in Camera : c = call[p].camera
    BY <2>0
  <2>2. PICK w \in Worker :
          /\ pc[w] = "unused"
          /\ worker' = [worker EXCEPT ![c] = w]
          /\ expected' = [expected EXCEPT ![w] = call[p].revision]
          /\ pc' = [pc EXCEPT ![w] = "ready"]
          /\ UNCHANGED <<rowVars, stopRequested>>
    BY <1>3, <2>1 DEF Start
  <2>3. \A d \in Camera : worker[d] # w
    BY <2>2 DEF IInv, Inv, WorkerInv
  <2>4. \A d \in Camera \ {c} : Same(d)
    BY <2>1, <2>2, <2>3
       DEF Same, PhaseOf, ServingOf, ConnectionOf, Live, TypeOK
  <2>5. PhaseOf(c) = "stopped"
    <3>1. \A v \in Worker : stopRequested[v] => ~Live(v)
      BY <1>3 DEF Start, IInv, Inv, WorkerInv
    <3>2. worker[c] \in Worker \cup {None}
      BY <2>1 DEF TypeOK
    <3> QED
      BY <1>3, <2>1, <3>1, <3>2 DEF IsRunning, Running, PhaseOf
  <2>6. PhaseOf(c)' = "running" /\ ServingOf(c)' = call[p].revision
    <3>1. worker'[c] = w /\ pc'[w] = "ready"
          /\ expected'[w] = call[p].revision
      BY <2>1, <2>2 DEF TypeOK
    <3>2. ~stopRequested'[w]
      BY <2>2 DEF IInv, Inv, WorkerInv
    <3> QED
      BY <3>1, <3>2 DEF PhaseOf, ServingOf, Live
  <2>7. ConnectionOf(c)' = ConnectionOf(c)
    BY <2>2 DEF ConnectionOf
  <2>8. Opens(c)
    BY <2>0, <2>5, <2>6, <2>7 DEF Opens
  <2> QED
    BY <2>1, <2>4, <2>8, OneSession
<1>4. ASSUME NEW p \in Caller, BeginStop(p)
      PROVE  [Service!ServiceNext]_(Service!serviceVars)
  <2>0. call[p].camera \in Camera
    BY <1>4, CallTypes DEF BeginStop, Call, At
  <2>1. PICK c \in Camera, w \in Worker :
          c = call[p].camera /\ w = worker[c]
    BY <1>4, <2>0 DEF BeginStop, TypeOK
  <2>2. /\ UNCHANGED <<rowVars, worker, pc, expected>>
        /\ stopRequested' = [stopRequested EXCEPT ![w] = TRUE]
    BY <1>4, <2>1 DEF BeginStop
  <2>3. \A d \in Camera \ {c} : Same(d)
    <3>1. \A v \in Worker \ {w} : /\ pc'[v] = pc[v]
                                  /\ stopRequested'[v] = stopRequested[v]
                                  /\ expected'[v] = expected[v]
      BY <2>2 DEF TypeOK
    <3>2. UNCHANGED <<rowVars, worker>>
      BY <2>2
    <3>3. /\ \A d \in Camera : worker[d] # w => Same(d)
          /\ \A a, d \in Camera : worker[a] = w /\ worker[d] = w => a = d
      BY <2>1, <3>1, <3>2, OneWorker
    <3> QED
      BY <2>1, <3>3
  <2>4. CASE Live(w)
    <3>1. ~stopRequested[w]
      <4>1. lock \notin Caller
        BY <1>4 DEF BeginStop
      <4>2. w \in Worker
        BY <2>1
      <4> QED
        BY <2>4, <4>1, <4>2 DEF IInv, Inv, WorkerInv
    <3>2. stopRequested'[w]
      BY <2>1, <2>2 DEF TypeOK
    <3>3. Stops(c)
      BY <2>1, <2>2, <2>4, <3>1, <3>2
         DEF Stops, PhaseOf, ServingOf, ConnectionOf, Live
    <3> QED
      BY <2>1, <2>3, <3>3, OneSession
  <2>5. CASE ~Live(w)
    <3>1. Same(c)
      BY <2>1, <2>2, <2>5 DEF Same, PhaseOf, ServingOf, ConnectionOf, Live
    <3> QED
      BY <2>1, <2>3, <3>1, OneSession
  <2> QED
    BY <2>4, <2>5
<1>5. ASSUME NEW p \in Caller, JoinTimeout(p)
      PROVE  [Service!ServiceNext]_(Service!serviceVars)
  <2>0. /\ call[p].camera \in Camera
        /\ worker[call[p].camera] \in Worker
        /\ stopRequested[worker[call[p].camera]]
    BY <1>5, CallTypes DEF JoinTimeout, Call, At, Inside, IInv, Inv, CallInv,
                           CallOK, Stopping
  <2>1. PICK c \in Camera, w \in Worker :
          c = call[p].camera /\ w = worker[c] /\ stopRequested[w]
    BY <2>0
  <2>2. /\ UNCHANGED <<rowVars, worker, stopRequested, expected>>
        /\ pc' = [pc EXCEPT ![w] = "done"]
        /\ Live(w)
    BY <1>5, <2>1 DEF JoinTimeout
  <2>3. \A d \in Camera \ {c} : Same(d)
    BY <2>1, <2>2, OneWorker DEF TypeOK
  <2>4. pc'[w] = "done"
    BY <2>1, <2>2 DEF TypeOK
  <2>5. Closes(c)
    BY <2>1, <2>2, <2>4 DEF Closes, PhaseOf, ServingOf, ConnectionOf, Live
  <2> QED
    BY <2>1, <2>3, <2>5, OneSession
<1>6. ASSUME NEW w \in Worker, TaskStep(w)
      PROVE  [Service!ServiceNext]_(Service!serviceVars)
  <2>1. Live(w) /\ pc' = [pc EXCEPT ![w] = pc'[w]]
        /\ UNCHANGED <<rowVars, worker, stopRequested, expected>>
    BY <1>6 DEF TaskStep, Loop, CheckRevision, CheckFails, LeaveStale, Spawn,
                SpawnFails, Reap, Report, Leave, Live, TypeOK
  <2>2. PICK c \in Camera : c = owner[w] /\ worker[c] = w
    BY <2>1 DEF IInv, Inv, WorkerInv
  <2>3. \A d \in Camera \ {c} : Same(d)
    BY <2>1, <2>2, OneWorker DEF TypeOK
  <2>4. CASE pc'[w] = "done"
    <3>1. stopRequested[w] \/ pc[w] = "leaving"
      BY <1>6, <2>4 DEF TaskStep, Loop, CheckRevision, CheckFails, LeaveStale,
                        Spawn, SpawnFails, Reap, Report, Leave, TypeOK
    <3>2. Closes(c)
      BY <2>1, <2>2, <2>4, <3>1
         DEF Closes, PhaseOf, ServingOf, ConnectionOf, Live
    <3> QED
      BY <2>2, <2>3, <3>2, OneSession
  <2>5. CASE pc'[w] = "leaving"
    <3>1. CheckRevision(w) /\ IsStale(w) /\ pc[w] = "checking"
      BY <1>6, <2>5 DEF TaskStep, Loop, CheckRevision, CheckFails, LeaveStale,
                        Spawn, SpawnFails, Reap, Report, Leave, TypeOK
    <3>2. CASE stopRequested[w]
      <4>1. Same(c)
        BY <2>1, <2>2, <2>5, <3>1, <3>2
           DEF Same, PhaseOf, ServingOf, ConnectionOf, Live
      <4> QED
        BY <2>2, <2>3, <4>1, OneSession
    <3>3. CASE ~stopRequested[w]
      <4>1. expected[w] # ConnectionOf(c)
        BY <2>2, <3>1 DEF IsStale, ConnectionOf, IInv, UsableInv
      <4>2. Outdates(c)
        BY <2>1, <2>2, <2>5, <3>1, <3>3, <4>1
           DEF Outdates, PhaseOf, ServingOf, ConnectionOf, Live
      <4> QED
        BY <2>2, <2>3, <4>2, OneSession
    <3> QED
      BY <3>2, <3>3
  <2>6. CASE pc'[w] \notin {"done", "leaving"}
    <3>1. pc[w] # "leaving" /\ pc'[w] # "unused"
      BY <1>6, <2>6 DEF TaskStep, Loop, CheckRevision, CheckFails, LeaveStale,
                        Spawn, SpawnFails, Reap, Report, Leave, TypeOK
    <3>2. Same(c)
      BY <2>1, <2>2, <2>6, <3>1
         DEF Same, PhaseOf, ServingOf, ConnectionOf, Live
    <3> QED
      BY <2>2, <2>3, <3>2, OneSession
  <2> QED
    BY <2>4, <2>5, <2>6
<1>7. ASSUME NEW p \in Caller, Start(p), IsRunning(call[p].camera)
      PROVE  UNCHANGED <<rowVars, worker, pc, stopRequested, expected>>
  BY <1>7 DEF Start
<1>8. ASSUME NEW p \in Caller, NEW o \in Op, NEW c \in Camera,
             Request(p, o, c)
      PROVE  UNCHANGED <<rowVars, worker, pc, stopRequested, expected>>
  BY <1>8 DEF Request
<1>9. ASSUME NEW w \in Worker, Exit(w)
      PROVE  UNCHANGED <<rowVars, worker, pc, stopRequested, expected>>
  BY <1>9 DEF Exit
<1>10. UNCHANGED vars =>
         UNCHANGED <<rowVars, worker, pc, stopRequested, expected>>
  BY DEF vars
<1>11. ASSUME NEW p \in Caller, ManagerStep(p)
       PROVE  [Service!ServiceNext]_(Service!serviceVars)
  <2>1. CASE Start(p)
    BY <2>1, <1>2, <1>3, <1>7
  <2>2. CASE BeginStop(p)
    BY <2>2, <1>4
  <2>3. CASE JoinTimeout(p)
    BY <2>3, <1>5
  <2>4. CASE ~(Start(p) \/ BeginStop(p) \/ JoinTimeout(p))
    <3>1. StopNobody(p) \/ Escalate(p) \/ ProcessGone(p) \/ Joined(p)
      BY <1>11, <2>4 DEF ManagerStep
    <3>2. UNCHANGED <<rowVars, worker, pc, stopRequested, expected>>
      BY <3>1 DEF StopNobody, Escalate, ProcessGone, Joined
    <3> QED
      BY <3>2, <1>2
  <2> QED
    BY <2>1, <2>2, <2>3, <2>4
<1>12. CASE RowNext
  BY <1>12, <1>1 DEF RowNext
<1>13. CASE ManagerNext
  <2>1. ASSUME NEW p \in Caller, NEW o \in Op, NEW c \in Camera,
               Request(p, o, c)
        PROVE  [Service!ServiceNext]_(Service!serviceVars)
    BY <2>1, <1>2, <1>8
  <2> QED
    BY <2>1, <1>11, <1>13 DEF ManagerNext
<1>14. CASE TaskNext
  <2>1. ASSUME NEW w \in Worker, Exit(w)
        PROVE  [Service!ServiceNext]_(Service!serviceVars)
    BY <2>1, <1>2, <1>9
  <2> QED
    BY <2>1, <1>6, <1>14 DEF TaskNext
<1>15. CASE UNCHANGED vars
  BY <1>15, <1>2, <1>10
<1> QED
  BY <1>12, <1>13, <1>14, <1>15 DEF Next

\* The recorder keeps the promise of RecorderService, whatever its cameras,
\* callers and workers.
THEOREM Refinement == Spec => ImplementsService
<1>1. Init => Service!ServiceInit
  BY BoundsAssumption
     DEF Init, Service!ServiceInit, Service!Unusable, PhaseOf, ServingOf,
         ConnectionOf, Revision
<1> QED
  BY <1>1, ServiceStep, UsableInvariance, PTL
     DEF Spec, ImplementsService, Service!ServiceSpec
=============================================================================
