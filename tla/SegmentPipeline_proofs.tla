----------------------- MODULE SegmentPipeline_proofs -----------------------
(***************************************************************************)
(* What SegmentPipeline keeps for any cameras, names, segments, renames,   *)
(* faults and restarts: its types, that no segment is lost without one of  *)
(* three causes, that what is listed is there, and that an open file is    *)
(* only taken from a camera whose recorder was stopped.                    *)
(***************************************************************************)
EXTENDS SegmentPipeline, TLAPS

(***************************************************************************)
(* The inductive invariant                                                 *)
(***************************************************************************)

\* Jobs and files belong to segments that were opened; an open file is the
\* newest of its camera.
OpenedInv ==
  /\ staging \subseteq 1 .. opened
  /\ open \subseteq 1 .. opened
  /\ \A s \in Segment : job[s] # NoJob => s \in 1 .. opened
  /\ \A s \in 1 .. opened : camera[s] \in Camera /\ start[s] \in Start
  /\ \A s \in open, q \in 1 .. opened : camera[q] = camera[s] => q <= s

\* The source of a job stays where it is until the job has done with it; past
\* the lookup the job has a target that is its own, or shared with rivals.
JobInv == \A s \in Segment :
  /\ job[s] # NoJob => s \in staging \cup discarded
  /\ job[s].at \in {"remuxing", "replaced", "committed"} =>
       job[s].path \in Path /\ s \in claimed[job[s].path]

\* A row is deleted only when archived, and archived only with a cloud copy.
RowInv == \A p \in Path : row[p] # NoRow =>
  /\ row[p].status \in {"ready", "deleted"}
  /\ row[p].camera \in Camera /\ row[p].source \in Segment
  /\ row[p].status = "deleted" => row[p].up = "success"
  /\ row[p].up = "success" => cloud[p] # {}

\* A path holds footage of those that claimed it, one segment or rivals.
FootageInv == \A p \in Path :
  /\ part[p] \subseteq claimed[p]
  /\ mp4[p] \subseteq claimed[p]
  /\ cloud[p] \subseteq claimed[p]
  /\ \A s \in claimed[p] : s \in rivals \/ claimed[p] = {s}

\* The row of a path leads to this segment.
Leads(p, s) ==
  \/ row[p].status = "ready" /\ mp4[p] = {s}
  \/ row[p].status # "none" /\ row[p].up = "success" /\ cloud[p] = {s}

\* What is about to be removed from the staging directory can be found.
CommittedInv == \A s \in Segment :
  job[s].at = "committed" => s \in Exempt \/ Leads(job[s].path, s)

\* A row without rivals becomes ready with its file, not before.
ListedInv ==
  /\ ListedIsThere
  /\ rivals = {} => \A s \in Segment :
       job[s].at \in {"remuxing", "replaced"} => row[job[s].path].status # "ready"

Inv ==
  /\ TypeOK /\ OpenedInv /\ JobInv /\ RowInv /\ FootageInv
  /\ CommittedInv /\ LossExplained /\ ListedInv

(***************************************************************************)
(* Types                                                                   *)
(***************************************************************************)

\* A job that only moves on, or leaves, is still a job.
LEMMA JobTypes ==
  ASSUME TypeOK, NEW s \in Segment
  PROVE  /\ NoRow \in Row /\ NoJob \in Job
         /\ \A point \in At : GoTo(s, point) => job' \in [Segment -> Job]
         /\ Leave(s) => job' \in [Segment -> Job]
<1>1. NoRow \in Row
  BY DEF NoRow, Row
<1>2. NoJob \in Job
  BY <1>1 DEF NoJob, Job, At
<1>3. ASSUME NEW point \in At, GoTo(s, point)
      PROVE  job' \in [Segment -> Job]
  BY <1>3, ZenonT(60) DEF TypeOK, GoTo, Job
<1> QED
  BY <1>1, <1>2, <1>3 DEF TypeOK, Leave

LEMMA TypeInit == Init => TypeOK
<1> SUFFICES ASSUME Init
             PROVE  TypeOK
  OBVIOUS
<1>1. NoRow \in Row
  BY DEF NoRow, Row
<1>2. NoJob \in Job
  BY <1>1 DEF NoJob, Job, At
<1> QED
  BY <1>1, <1>2, PipelineAssumption DEF Init, TypeOK, NoFootage

\* Every step leaves every variable within its type.
LEMMA TypeStep == TypeOK /\ OpenedInv /\ JobInv /\ RowInv /\ [Next]_vars => TypeOK'
<1> SUFFICES ASSUME TypeOK, OpenedInv, JobInv, RowInv, [Next]_vars
             PROVE  TypeOK'
  OBVIOUS
<1> USE DEF recorderVars, fileVars, historyVars
<1>1. CASE RecorderStep
  <2>1. ASSUME NEW c \in Camera, StartRecorder(c) \/ StopRecorder(c)
        PROVE  TypeOK'
    BY <2>1 DEF TypeOK, StartRecorder, StopRecorder
  <2>2. ASSUME NEW c \in Camera, OpenSegment(c)
        PROVE  TypeOK'
    <3>1. opened + 1 \in Segment /\ opened' = opened + 1
      BY <2>2 DEF OpenSegment
    <3>2. camera' = [camera EXCEPT ![opened + 1] = c]
      BY <2>2 DEF OpenSegment
    <3>3. PICK k \in Start : start' = [start EXCEPT ![opened + 1] = k]
      BY <2>2 DEF OpenSegment
    <3>4. camera' \in [Segment -> Camera \cup {None}]
      BY <3>1, <3>2 DEF TypeOK
    <3>5. start' \in [Segment -> Start \cup {None}]
      BY <3>1, <3>3 DEF TypeOK
    <3>6. opened' \in 0 .. MaxSegments
      BY <3>1, PipelineAssumption DEF Segment
    <3>7. open' \in SUBSET Segment /\ staging' \in SUBSET Segment
      BY <2>2, <3>1 DEF OpenSegment, TypeOK
    <3> QED
      BY <2>2, <3>4, <3>5, <3>6, <3>7 DEF TypeOK, OpenSegment
  <2>3. ASSUME NEW s \in Segment, CloseSegment(s) \/ GoQuiet(s) \/ Write(s)
        PROVE  TypeOK'
    BY <2>3 DEF TypeOK, CloseSegment, GoQuiet, Write
  <2> QED
    BY <1>1, <2>1, <2>2, <2>3 DEF RecorderStep
<1>2. ASSUME NEW by \in {"loop", "exit"}, Scan(by)
      PROVE  TypeOK'
  <2>1. [NoJob EXCEPT !.at = "waiting", !.by = by] \in Job
    BY DEF NoJob, NoRow, Row, Job, At
  <2>2. job' \in [Segment -> Job]
    BY <1>2, <2>1 DEF Scan, TypeOK
  <2>3. issued' \in [renames : Nat, faults : Nat, exits : Nat]
    BY <1>2 DEF Scan, TypeOK
  <2>4. cut' \in SUBSET Segment
    BY <1>2 DEF Scan, TypeOK, Finished
  <2> QED
    BY <1>2, <2>2, <2>3, <2>4 DEF Scan, TypeOK
<1>3. ASSUME NEW s \in Segment, Look(s)
      PROVE  TypeOK'
  <2> DEFINE p == <<name[camera[s]], start[s]>>
  <2>1. job[s] # NoJob
    BY <1>3 DEF Look, NoJob
  <2>2. camera[s] \in Camera /\ start[s] \in Start
    BY <2>1 DEF OpenedInv
  <2>3. CASE name[camera[s]] = None
    <3>1. GoTo(s, "failing")
      BY <1>3, <2>3 DEF Look
    <3>2. job' \in [Segment -> Job]
      BY <3>1, JobTypes DEF At
    <3> QED
      BY <1>3, <2>3, <3>2 DEF Look, TypeOK
  <2>4. CASE name[camera[s]] # None
    <3>1. p \in Path
      BY <2>2, <2>4 DEF TypeOK, Path
    <3>2. job' \in [Segment -> Job]
      <4>1. CASE GoTo(s, "failing") \/ Leave(s)
        BY <4>1, JobTypes DEF At
      <4>2. CASE job' = [job EXCEPT ![s] = [at |-> "remuxing", by |-> job[s].by,
                                            path |-> p, seen |-> row[p]]]
        BY <3>1, <4>2 DEF TypeOK, Job, At
      <4> QED
        BY <1>3, <2>4, <4>1, <4>2 DEF Look
    <3>3. claimed[p] \in SUBSET Segment /\ part[p] \in SUBSET Segment
      BY <3>1 DEF TypeOK
    <3>4. claimed' \in [Path -> SUBSET Segment]
      <4>1. claimed' = [claimed EXCEPT ![p] = claimed[p] \cup {s}]
        BY <1>3, <2>4 DEF Look
      <4> QED
        BY <3>1, <3>3, <4>1 DEF TypeOK
    <3>5. rivals' \in SUBSET Segment /\ staging' \in SUBSET Segment
      <4>1. rivals' = rivals \/ rivals' = rivals \cup claimed[p] \cup {s}
        BY <1>3, <2>4 DEF Look
      <4>2. staging' = staging \/ staging' = staging \ {s}
        BY <1>3, <2>4 DEF Look
      <4> QED
        BY <3>3, <4>1, <4>2 DEF TypeOK
    <3>6. part' \in [Path -> SUBSET Segment]
      <4>1. PICK F \in SUBSET Segment :
              part' = part \/ part' = [part EXCEPT ![p] = F]
        <5>1. \/ part' = part
              \/ part' = [part EXCEPT ![p] = {}]
              \/ part' = [part EXCEPT ![p] = {s}]
              \/ part' = [part EXCEPT ![p] = part[p] \cup {s}]
          BY <1>3, <2>4 DEF Look
        <5> QED
          BY <3>3, <5>1
      <4> QED
        BY <3>1, <4>1 DEF TypeOK
    <3> QED
      BY <1>3, <3>2, <3>4, <3>5, <3>6 DEF Look, TypeOK
  <2> QED
    BY <2>3, <2>4
<1>4. ASSUME NEW s \in Segment, Replace(s)
      PROVE  TypeOK'
  <2>1. GoTo(s, "replaced") /\ job[s].path \in Path
    BY <1>4 DEF Replace, JobInv
  <2>2. job' \in [Segment -> Job]
    BY <2>1, JobTypes DEF At
  <2> QED
    BY <1>4, <2>1, <2>2 DEF Replace, TypeOK
<1>5. ASSUME NEW s \in Segment, Persist(s)
      PROVE  TypeOK'
  <2> DEFINE p == job[s].path
  <2>1. GoTo(s, "committed") /\ p \in Path /\ job[s] # NoJob
    BY <1>5 DEF Persist, JobInv, NoJob
  <2>2. job' \in [Segment -> Job]
    BY <2>1, JobTypes DEF At
  <2>3. camera[s] \in Camera
    BY <2>1 DEF OpenedInv
  <2>4. row' \in [Path -> Row]
    BY <1>5, <2>1, <2>3, SMTT(30) DEF Persist, TypeOK, Row
  <2> QED
    BY <1>5, <2>2, <2>4 DEF Persist, TypeOK
<1>6. ASSUME NEW s \in Segment, Finish(s)
      PROVE  TypeOK'
  BY <1>6, JobTypes DEF Finish, TypeOK
<1>7. ASSUME NEW s \in Segment, Reject(s)
      PROVE  TypeOK'
  <2>1. GoTo(s, "failing") /\ job[s].path \in Path
    BY <1>7 DEF Reject, JobInv
  <2>2. job' \in [Segment -> Job]
    BY <2>1, JobTypes DEF At
  <2>3. part' \in [Path -> SUBSET Segment] /\ mp4' \in [Path -> SUBSET Segment]
    BY <1>7, <2>1 DEF Reject, TypeOK
  <2> QED
    BY <1>7, <2>2, <2>3 DEF Reject, TypeOK
<1>8. ASSUME NEW s \in Segment, Move(s)
      PROVE  TypeOK'
  <2>1. job' \in [Segment -> Job]
    BY <1>8, JobTypes DEF Move
  <2>2. job[s] # NoJob
    BY <1>8 DEF Move, NoJob
  <2>3. camera[s] \in Camera
    BY <2>2 DEF OpenedInv
  <2>4. eventful' \in SUBSET Camera
    BY <1>8, <2>3 DEF Move, TypeOK
  <2>5. staging' \in SUBSET Segment /\ failed' \in SUBSET Segment /\ rivals' \in SUBSET Segment
    BY <1>8 DEF Move, TypeOK
  <2> QED
    BY <1>8, <2>1, <2>4, <2>5 DEF Move, TypeOK
<1>9. ASSUME NEW s \in Segment, MoveFails(s)
      PROVE  TypeOK'
  <2>1. job' \in [Segment -> Job]
    <3>1. ASSUME NEW q \in Segment
          PROVE  [job[q] EXCEPT !.by = "loose"] \in Job
      BY SMTT(30) DEF TypeOK, Job
    <3>2. job' = [q \in Segment |->
                    IF q = s THEN NoJob
                    ELSE IF job[q].by = job[s].by
                    THEN [job[q] EXCEPT !.by = "loose"] ELSE job[q]]
      BY <1>9 DEF MoveFails
    <3> QED
      BY <3>1, <3>2, JobTypes DEF TypeOK
  <2> QED
    BY <1>9, <2>1 DEF MoveFails, TypeOK
<1>10. CASE UserStep
  <2>1. ASSUME NEW c \in Camera, Rename(c) \/ DeleteCamera(c)
        PROVE  TypeOK'
    BY <2>1 DEF Rename, DeleteCamera, TypeOK
  <2>2. ASSUME NEW p \in Path, Archive(p) \/ Clean(p)
        PROVE  TypeOK'
    <3>1. /\ [row[p] EXCEPT !.up = "success"] \in Row
          /\ [row[p] EXCEPT !.status = "deleted"] \in Row
      BY ZenonT(60) DEF TypeOK, Row
    <3>2. \/ row' = [row EXCEPT ![p] = [row[p] EXCEPT !.up = "success"]]
          \/ row' = [row EXCEPT ![p] = [row[p] EXCEPT !.status = "deleted"]]
      BY <2>2 DEF Archive, Clean
    <3>3. row' \in [Path -> Row]
      BY <3>1, <3>2 DEF TypeOK
    <3> QED
      BY <2>2, <3>3 DEF Archive, Clean, TypeOK
  <2>3. ASSUME NEW p \in Path, Discard(p)
        PROVE  TypeOK'
    <3>1. row[p] # NoRow
      BY <2>3 DEF Discard, NoRow
    <3>2. row' \in [Path -> Row]
      <4>1. [row[p] EXCEPT !.status = "deleted"] \in Row /\ NoRow \in Row
        BY ZenonT(60) DEF TypeOK, Row, NoRow
      <4>2. \/ row' = [row EXCEPT ![p] = [row[p] EXCEPT !.status = "deleted"]]
            \/ row' = [row EXCEPT ![p] = NoRow]
        BY <2>3 DEF Discard
      <4> QED
        BY <4>1, <4>2 DEF TypeOK
    <3>3. discarded' \in SUBSET Segment /\ eventful' \in SUBSET Camera
      BY <2>3, <3>1 DEF Discard, TypeOK, RowInv
    <3> QED
      BY <2>3, <3>2, <3>3 DEF Discard, TypeOK
  <2> QED
    BY <1>10, <2>1, <2>2, <2>3 DEF UserStep
<1>11. CASE Crash
  <2>1. NoJob \in Job
    BY DEF NoJob, NoRow, Row, Job, At
  <2> QED
    BY <1>11, <2>1 DEF Crash, TypeOK
<1>12. CASE UNCHANGED vars
  BY <1>12 DEF vars, TypeOK
<1> QED
  BY <1>1, <1>2, <1>3, <1>4, <1>5, <1>6, <1>7, <1>8, <1>9, <1>10, <1>11, <1>12
  DEF Next, JobStep

(***************************************************************************)
(* What a step of a job leaves alone                                       *)
(***************************************************************************)

\* A step of one job changes no other, but for who waits for it.
LEMMA OtherJobs ==
  ASSUME TypeOK, NEW s \in Segment, JobStep(s) \/ MoveFails(s),
         NEW q \in Segment, q # s
  PROVE  /\ job'[q].at = job[q].at /\ job'[q].path = job[q].path
         /\ job'[q] # NoJob => job[q] # NoJob
<1>1. CASE MoveFails(s)
  <2>1. job'[q] = IF job[q].by = job[s].by
                  THEN [job[q] EXCEPT !.by = "loose"] ELSE job[q]
    BY <1>1 DEF MoveFails
  <2>2. job[q] \in Job
    BY DEF TypeOK
  <2> QED
    BY <2>1, <2>2 DEF Job, NoJob
<1>2. CASE JobStep(s)
  <2>1. job'[q] = job[q]
    BY <1>2 DEF JobStep, Look, Replace, Persist, Finish, Reject, Move, GoTo,
                Leave, TypeOK
  <2> QED
    BY <2>1
<1> QED
  BY <1>1, <1>2

\* Where a step takes its own job.
LEMMA OwnJob ==
  ASSUME TypeOK, NEW s \in Segment
  PROVE  /\ JobStep(s) \/ MoveFails(s) => job[s] # NoJob
         /\ Replace(s) => job'[s].at = "replaced" /\ job'[s].path = job[s].path
         /\ Persist(s) => job'[s].at = "committed" /\ job'[s].path = job[s].path
         /\ Reject(s) => job'[s].at = "failing"
         /\ Finish(s) \/ Move(s) \/ MoveFails(s) => job'[s] = NoJob
<1>1. ASSUME JobStep(s) \/ MoveFails(s)
      PROVE  job[s] # NoJob
  BY <1>1 DEF JobStep, Look, Replace, Persist, Finish, Reject, Move, MoveFails,
              NoJob
<1>2. ASSUME NEW point \in At, GoTo(s, point)
      PROVE  job'[s].at = point /\ job'[s].path = job[s].path
  BY <1>2 DEF GoTo, TypeOK, Job
<1>3. Replace(s) => job'[s].at = "replaced" /\ job'[s].path = job[s].path
  BY <1>2 DEF Replace, At
<1>4. Persist(s) => job'[s].at = "committed" /\ job'[s].path = job[s].path
  BY <1>2 DEF Persist, At
<1>5. Reject(s) => job'[s].at = "failing"
  BY <1>2 DEF Reject, At
<1>6. Finish(s) \/ Move(s) \/ MoveFails(s) => job'[s] = NoJob
  BY DEF Finish, Move, MoveFails, Leave, TypeOK
<1> QED
  BY <1>1, <1>3, <1>4, <1>5, <1>6

\* The lookup fails, finds the segment done, or begins a remux.
LEMMA LookCases ==
  ASSUME TypeOK, OpenedInv, NEW s \in Segment, Look(s)
  PROVE  \/ /\ job'[s].at = "failing"
            /\ UNCHANGED <<staging, claimed, rivals>>
            /\ UNCHANGED part
         \/ \E p \in Path :
              /\ claimed' = [claimed EXCEPT ![p] = claimed[p] \cup {s}]
              /\ rivals' = IF claimed[p] \subseteq {s} THEN rivals
                           ELSE rivals \cup claimed[p] \cup {s}
              /\ \/ /\ Done(p) /\ job'[s] = NoJob /\ staging' = staging \ {s}
                    /\ UNCHANGED part
                 \/ /\ ~Done(p) /\ job'[s].at = "failing" /\ UNCHANGED staging
                    /\ part' = [part EXCEPT ![p] = {}]
                 \/ /\ ~Done(p) /\ job'[s].at = "remuxing" /\ job'[s].path = p
                    /\ UNCHANGED staging
                    /\ \/ part' = [part EXCEPT ![p] = {s}]
                       \/ part' = [part EXCEPT ![p] = part[p] \cup {s}]
<1> DEFINE p == <<name[camera[s]], start[s]>>
<1>1. job[s] # NoJob
  BY DEF Look, NoJob
<1>2. camera[s] \in Camera /\ start[s] \in Start
  BY <1>1 DEF OpenedInv
<1>3. GoTo(s, "failing") => job'[s].at = "failing"
  BY DEF GoTo, TypeOK, Job
<1>4. Leave(s) => job'[s] = NoJob
  BY DEF Leave, TypeOK
<1>5. CASE name[camera[s]] = None
  BY <1>3, <1>5 DEF Look
<1>6. CASE name[camera[s]] # None
  <2>1. p \in Path
    BY <1>2, <1>6 DEF TypeOK, Path
  <2>2. /\ claimed' = [claimed EXCEPT ![p] = claimed[p] \cup {s}]
        /\ rivals' = IF claimed[p] \subseteq {s} THEN rivals
                     ELSE rivals \cup claimed[p] \cup {s}
    BY <1>6 DEF Look
  <2>3. \/ Done(p) /\ staging' = staging \ {s} /\ Leave(s) /\ UNCHANGED part
        \/ /\ ~Done(p) /\ GoTo(s, "failing") /\ UNCHANGED staging
           /\ part' = [part EXCEPT ![p] = {}]
        \/ /\ ~Done(p) /\ UNCHANGED staging
           /\ \/ part' = [part EXCEPT ![p] = {s}]
              \/ part' = [part EXCEPT ![p] = part[p] \cup {s}]
           /\ job' = [job EXCEPT ![s] = [at |-> "remuxing", by |-> job[s].by,
                                         path |-> p, seen |-> row[p]]]
    BY <1>6 DEF Look
  <2>4. job' = [job EXCEPT ![s] = [at |-> "remuxing", by |-> job[s].by,
                                   path |-> p, seen |-> row[p]]]
        => job'[s].at = "remuxing" /\ job'[s].path = p
    BY DEF TypeOK
  <2> HIDE DEF p
  <2> QED
    BY <1>3, <1>4, <2>1, <2>2, <2>3, <2>4
<1> QED
  BY <1>5, <1>6

\* What has happened has happened.
LEMMA HistoryGrows ==
  ASSUME TypeOK, OpenedInv, [Next]_vars
  PROVE  /\ \A p \in Path : claimed[p] \subseteq claimed'[p]
         /\ rivals \subseteq rivals' /\ cut \subseteq cut'
         /\ discarded \subseteq discarded'
<1> USE DEF historyVars
<1>1. ASSUME NEW s \in Segment, Look(s)
      PROVE  /\ \A p \in Path : claimed[p] \subseteq claimed'[p]
             /\ rivals \subseteq rivals' /\ UNCHANGED <<cut, discarded>>
  <2>1. UNCHANGED <<cut, discarded>>
    BY <1>1 DEF Look
  <2>2. \/ UNCHANGED <<claimed, rivals>>
        \/ \E p \in Path :
             /\ claimed' = [claimed EXCEPT ![p] = claimed[p] \cup {s}]
             /\ rivals' = IF claimed[p] \subseteq {s} THEN rivals
                          ELSE rivals \cup claimed[p] \cup {s}
    BY <1>1, LookCases
  <2> QED
    BY <2>1, <2>2 DEF TypeOK
<1>2. CASE RecorderStep \/ Crash \/ UNCHANGED vars
  BY <1>2 DEF RecorderStep, StartRecorder, StopRecorder, OpenSegment,
              CloseSegment, GoQuiet, Write, Crash, vars
<1>3. CASE UserStep
  BY <1>3 DEF UserStep, Rename, DeleteCamera, Archive, Clean, Discard
<1>4. CASE Scan("loop") \/ Scan("exit")
  BY <1>4 DEF Scan
<1>5. ASSUME NEW s \in Segment,
             \/ Replace(s) \/ Persist(s) \/ Finish(s) \/ Reject(s) \/ Move(s)
             \/ MoveFails(s)
      PROVE  /\ UNCHANGED <<claimed, cut, discarded>>
             /\ rivals \subseteq rivals'
  BY <1>5 DEF Replace, Persist, Finish, Reject, Move, MoveFails
<1> QED
  BY <1>1, <1>2, <1>3, <1>4, <1>5 DEF Next, JobStep

(***************************************************************************)
(* The parts of the invariant that everything else rests on                *)
(***************************************************************************)

\* Only opening a segment and a scan add to what OpenedInv is about.
LEMMA OpenedStep == TypeOK /\ OpenedInv /\ [Next]_vars => OpenedInv'
<1> SUFFICES ASSUME TypeOK, OpenedInv, [Next]_vars
             PROVE  OpenedInv'
  OBVIOUS
<1> USE DEF recorderVars, fileVars, historyVars
<1>1. ASSUME UNCHANGED <<camera, start, opened>>,
             open' \subseteq open, staging' \subseteq staging,
             \A s \in Segment : job'[s] # NoJob => job[s] # NoJob \/ s \in staging
      PROVE  OpenedInv'
  BY <1>1 DEF OpenedInv, Segment
<1>2. ASSUME NEW s \in Segment, JobStep(s) \/ MoveFails(s)
      PROVE  OpenedInv'
  <2>1. UNCHANGED <<camera, start, opened, open>> /\ staging' \subseteq staging
    BY <1>2 DEF JobStep, Look, Replace, Persist, Finish, Reject, Move, MoveFails
  <2>2. \A q \in Segment : job'[q] # NoJob => job[q] # NoJob
    BY <1>2, OtherJobs, OwnJob
  <2> QED
    BY <2>1, <2>2, <1>1
<1>3. ASSUME NEW by \in {"loop", "exit"}, Scan(by)
      PROVE  OpenedInv'
  <2>1. \A s \in Segment : job'[s] # NoJob => job[s] # NoJob \/ s \in staging
    BY <1>3 DEF Scan, Finished
  <2> QED
    BY <1>3, <2>1, <1>1 DEF Scan
<1>4. ASSUME NEW c \in Camera, OpenSegment(c)
      PROVE  OpenedInv'
  <2>1. /\ opened + 1 \in Segment /\ opened' = opened + 1
        /\ camera' = [camera EXCEPT ![opened + 1] = c]
        /\ open' = {q \in open : camera[q] # c} \cup {opened + 1}
        /\ staging' = staging \cup {opened + 1}
        /\ UNCHANGED job
    BY <1>4 DEF OpenSegment
  <2>2. PICK k \in Start : start' = [start EXCEPT ![opened + 1] = k]
    BY <1>4 DEF OpenSegment
  <2>3. opened \in Nat /\ 1 .. opened' = 1 .. opened \cup {opened + 1}
    BY <2>1 DEF TypeOK, Segment
  <2>4. /\ opened + 1 \notin 1 .. opened
        /\ 1 .. opened \subseteq Segment
    BY <2>1, <2>3, PipelineAssumption DEF Segment
  <2>5. /\ camera'[opened + 1] = c /\ start'[opened + 1] = k
        /\ \A q \in 1 .. opened : camera'[q] = camera[q] /\ start'[q] = start[q]
    BY <2>1, <2>2, <2>4 DEF TypeOK
  <2>6. \A s \in open' : s \in 1 .. opened'
    BY <2>1, <2>3 DEF OpenedInv
  <2>7. ASSUME NEW s \in open', NEW q \in 1 .. opened', camera'[q] = camera'[s]
        PROVE  q <= s
    <3>1. CASE s = opened + 1
      BY <2>3, <3>1
    <3>2. CASE s # opened + 1
      <4>1. s \in open /\ camera[s] # c /\ s \in 1 .. opened
        BY <2>1, <3>2 DEF OpenedInv
      <4>2. q # opened + 1
        BY <2>5, <2>7, <4>1
      <4> QED
        BY <2>3, <2>5, <2>7, <4>1, <4>2 DEF OpenedInv
    <3> QED
      BY <3>1, <3>2
  <2>8. \A s \in 1 .. opened' : camera'[s] \in Camera /\ start'[s] \in Start
    BY <2>3, <2>5 DEF OpenedInv
  <2> QED
    BY <2>1, <2>3, <2>6, <2>7, <2>8 DEF OpenedInv
<1>5. ASSUME NEW c \in Camera, StartRecorder(c) \/ StopRecorder(c)
      PROVE  OpenedInv'
  BY <1>5, <1>1 DEF StartRecorder, StopRecorder
<1>6. ASSUME NEW s \in Segment, CloseSegment(s) \/ GoQuiet(s) \/ Write(s)
      PROVE  OpenedInv'
  BY <1>6, <1>1 DEF CloseSegment, GoQuiet, Write
<1>7. CASE UserStep
  BY <1>7, <1>1 DEF UserStep, Rename, DeleteCamera, Archive, Clean, Discard
<1>8. CASE Crash
  BY <1>8, <1>1 DEF Crash
<1>9. CASE UNCHANGED vars
  BY <1>9, <1>1 DEF vars
<1> QED
  BY <1>2, <1>3, <1>4, <1>5, <1>6, <1>7, <1>8, <1>9 DEF Next, RecorderStep

\* A job gives its source up as it ends, or finds it deleted by a user.
LEMMA JobInvStep ==
  TypeOK /\ OpenedInv /\ JobInv /\ [Next]_vars => JobInv'
<1> SUFFICES ASSUME TypeOK, OpenedInv, JobInv, [Next]_vars
             PROVE  JobInv'
  OBVIOUS
<1> USE DEF recorderVars, fileVars, historyVars
<1>1. ASSUME staging \subseteq staging' \cup discarded', UNCHANGED job
      PROVE  JobInv'
  BY <1>1, HistoryGrows DEF JobInv
<1>2. CASE RecorderStep
  BY <1>2, <1>1 DEF RecorderStep, StartRecorder, StopRecorder, OpenSegment,
                    CloseSegment, GoQuiet, Write
<1>3. CASE UserStep
  BY <1>3, <1>1 DEF UserStep, Rename, DeleteCamera, Archive, Clean, Discard
<1>4. CASE UNCHANGED vars
  BY <1>4, <1>1 DEF vars
<1>5. CASE Crash
  BY <1>5 DEF Crash, JobInv, NoJob
<1>6. ASSUME NEW by \in {"loop", "exit"}, Scan(by)
      PROVE  JobInv'
  <2>1. UNCHANGED <<staging, discarded, claimed>>
    BY <1>6 DEF Scan
  <2>2. ASSUME NEW s \in Segment
        PROVE  \/ job'[s] = job[s]
               \/ s \in staging /\ job'[s].at = "waiting"
    BY <1>6 DEF Scan, Finished, NoJob
  <2> QED
    BY <2>1, <2>2 DEF JobInv
<1>7. ASSUME NEW s \in Segment, JobStep(s) \/ MoveFails(s)
      PROVE  JobInv'
  <2>1. /\ staging \subseteq staging' \cup {s}
        /\ UNCHANGED discarded
    BY <1>7 DEF JobStep, Look, Replace, Persist, Finish, Reject, Move, MoveFails
  <2>2. ASSUME NEW q \in Segment, q # s
        PROVE  /\ job'[q] # NoJob => q \in staging' \cup discarded'
               /\ job'[q].at \in {"remuxing", "replaced", "committed"} =>
                    job'[q].path \in Path /\ q \in claimed'[job'[q].path]
    BY <1>7, <2>1, <2>2, OtherJobs, HistoryGrows DEF JobInv
  <2>3. /\ job'[s] # NoJob => s \in staging' \cup discarded'
        /\ job'[s].at \in {"remuxing", "replaced", "committed"} =>
             job'[s].path \in Path /\ s \in claimed'[job'[s].path]
    <3>1. s \in staging \cup discarded
      BY <1>7, OwnJob DEF JobInv
    <3>2. CASE Look(s)
      <4>1. \/ job'[s] = NoJob
            \/ job'[s].at = "failing" /\ UNCHANGED staging
            \/ \E p \in Path :
                 /\ claimed' = [claimed EXCEPT ![p] = claimed[p] \cup {s}]
                 /\ job'[s].at = "remuxing" /\ job'[s].path = p
                 /\ UNCHANGED staging
        BY <3>2, LookCases
      <4> QED
        BY <2>1, <3>1, <4>1 DEF NoJob, TypeOK
    <3>3. CASE Replace(s) \/ Persist(s)
      <4>1. /\ UNCHANGED <<staging, claimed>> /\ job'[s].path = job[s].path
            /\ job[s].at \in {"remuxing", "replaced"}
        BY <3>3, OwnJob DEF Replace, Persist
      <4> QED
        BY <2>1, <3>1, <4>1 DEF JobInv
    <3>4. CASE Reject(s)
      <4>1. UNCHANGED staging /\ job'[s].at = "failing"
        BY <3>4, OwnJob DEF Reject
      <4> QED
        BY <2>1, <3>1, <4>1
    <3>5. CASE Finish(s) \/ Move(s) \/ MoveFails(s)
      BY <3>5, OwnJob DEF NoJob
    <3> QED
      BY <1>7, <3>2, <3>3, <3>4, <3>5 DEF JobStep
  <2> QED
    BY <2>2, <2>3 DEF JobInv
<1> QED
  BY <1>2, <1>3, <1>4, <1>5, <1>6, <1>7 DEF Next

\* Cleaning and deletion leave rows only where there is a cloud copy.
LEMMA RowStep ==
  TypeOK /\ OpenedInv /\ JobInv /\ RowInv /\ [Next]_vars => RowInv'
<1> SUFFICES ASSUME TypeOK, OpenedInv, JobInv, RowInv, [Next]_vars
             PROVE  RowInv'
  OBVIOUS
<1> USE DEF recorderVars, fileVars, historyVars
<1>1. ASSUME UNCHANGED <<row, cloud>>
      PROVE  RowInv'
  BY <1>1 DEF RowInv
<1>2. CASE RecorderStep \/ Crash \/ UNCHANGED vars
  BY <1>2, <1>1 DEF RecorderStep, StartRecorder, StopRecorder, OpenSegment,
                    CloseSegment, GoQuiet, Write, Crash, vars
<1>3. CASE Scan("loop") \/ Scan("exit")
  BY <1>3, <1>1 DEF Scan
<1>4. ASSUME NEW s \in Segment,
             \/ Look(s) \/ Replace(s) \/ Finish(s) \/ Reject(s) \/ Move(s)
             \/ MoveFails(s)
      PROVE  RowInv'
  BY <1>4, <1>1 DEF Look, Replace, Finish, Reject, Move, MoveFails
<1>5. ASSUME NEW s \in Segment, Persist(s)
      PROVE  RowInv'
  <2> DEFINE p == job[s].path
  <2>1. p \in Path /\ job[s] # NoJob /\ UNCHANGED cloud
    BY <1>5 DEF Persist, JobInv, NoJob
  <2>2. camera[s] \in Camera
    BY <2>1 DEF OpenedInv
  <2>3. \A q \in Path : q # p => row'[q] = row[q]
    BY <1>5 DEF Persist, TypeOK
  <2>4. \/ row'[p] = [status |-> "ready", up |-> "pending",
                      camera |-> camera[s], source |-> s]
        \/ /\ row[p] # NoRow
           /\ row'[p].camera = row[p].camera /\ row'[p].up = row[p].up
           /\ row'[p].source \in {row[p].source, s}
           /\ row'[p].status \in {row[p].status, "ready"}
    BY <1>5, <2>1 DEF Persist, TypeOK, Row
  <2> HIDE DEF p
  <2> QED
    BY <2>1, <2>2, <2>3, <2>4 DEF RowInv
<1>6. ASSUME NEW p \in Path, Archive(p)
      PROVE  RowInv'
  <2>1. /\ \A q \in Path : q # p => row'[q] = row[q] /\ cloud'[q] = cloud[q]
        /\ row'[p] = [row[p] EXCEPT !.up = "success"] /\ cloud'[p] # {}
        /\ row[p].status = "ready" /\ row[p] # NoRow
    BY <1>6 DEF Archive, TypeOK, NoRow
  <2>2. row[p] \in Row
    BY DEF TypeOK
  <2>3. /\ row'[p].status = "ready" /\ row'[p].camera = row[p].camera
        /\ row'[p].source = row[p].source
    BY <2>1, <2>2 DEF Row
  <2>4. /\ row'[p].camera \in Camera /\ row'[p].source \in Segment
    BY <2>1, <2>3 DEF RowInv
  <2>5. /\ cloud'[p] # {}
        /\ \A q \in Path : q # p => row'[q] = row[q] /\ cloud'[q] = cloud[q]
    BY <2>1
  <2> QED
    BY <2>3, <2>4, <2>5 DEF RowInv
<1>7. ASSUME NEW p \in Path, Clean(p) \/ Discard(p)
      PROVE  RowInv'
  <2>1. /\ \A q \in Path : q # p => row'[q] = row[q]
        /\ UNCHANGED cloud
        /\ row[p] # NoRow
        /\ \/ row'[p] = NoRow
           \/ /\ row'[p] = [row[p] EXCEPT !.status = "deleted"]
              /\ row[p].up = "success"
    BY <1>7 DEF Clean, Discard, TypeOK, NoRow
  <2>2. row'[p] = [row[p] EXCEPT !.status = "deleted"] =>
          /\ row'[p].status = "deleted" /\ row'[p].camera = row[p].camera
          /\ row'[p].source = row[p].source /\ row'[p].up = row[p].up
    BY DEF TypeOK, Row
  <2> QED
    BY <2>1, <2>2 DEF RowInv
<1>8. ASSUME NEW c \in Camera, Rename(c) \/ DeleteCamera(c)
      PROVE  RowInv'
  BY <1>8, <1>1 DEF Rename, DeleteCamera
<1> QED
  BY <1>2, <1>3, <1>4, <1>5, <1>6, <1>7, <1>8 DEF Next, JobStep, UserStep

\* Footage only gets from a path's temporary file to its MP4 and its copy.
LEMMA FootageStep ==
  TypeOK /\ OpenedInv /\ JobInv /\ FootageInv /\ [Next]_vars => FootageInv'
<1> SUFFICES ASSUME TypeOK, OpenedInv, JobInv, FootageInv, [Next]_vars
             PROVE  FootageInv'
  OBVIOUS
<1> USE DEF recorderVars, fileVars, historyVars
<1>1. ASSUME UNCHANGED claimed, rivals \subseteq rivals',
             \A p \in Path : /\ part'[p] \subseteq claimed[p]
                             /\ mp4'[p] \subseteq claimed[p]
                             /\ cloud'[p] \subseteq claimed[p]
      PROVE  FootageInv'
  BY <1>1 DEF FootageInv
<1>2. ASSUME UNCHANGED <<part, mp4, cloud, claimed>>, rivals \subseteq rivals'
      PROVE  FootageInv'
  BY <1>2 DEF FootageInv
<1>3. CASE RecorderStep \/ Crash \/ UNCHANGED vars
  BY <1>3, <1>2 DEF RecorderStep, StartRecorder, StopRecorder, OpenSegment,
                    CloseSegment, GoQuiet, Write, Crash, vars
<1>4. CASE Scan("loop") \/ Scan("exit")
  BY <1>4, <1>2 DEF Scan
<1>5. ASSUME NEW s \in Segment,
             Persist(s) \/ Finish(s) \/ Move(s) \/ MoveFails(s)
      PROVE  FootageInv'
  BY <1>5, <1>2 DEF Persist, Finish, Move, MoveFails
<1>6. ASSUME NEW s \in Segment, Look(s)
      PROVE  FootageInv'
  <2>1. UNCHANGED <<mp4, cloud>>
    BY <1>6 DEF Look
  <2>2. CASE UNCHANGED <<claimed, rivals, part>>
    BY <2>1, <2>2, <1>2
  <2>3. ASSUME NEW p \in Path,
               claimed' = [claimed EXCEPT ![p] = claimed[p] \cup {s}],
               rivals' = IF claimed[p] \subseteq {s} THEN rivals
                         ELSE rivals \cup claimed[p] \cup {s},
               \/ UNCHANGED part
               \/ part' = [part EXCEPT ![p] = {}]
               \/ part' = [part EXCEPT ![p] = {s}]
               \/ part' = [part EXCEPT ![p] = part[p] \cup {s}]
        PROVE  FootageInv'
    <3>1. ASSUME NEW q \in Path, q # p
          PROVE  /\ claimed'[q] = claimed[q] /\ part'[q] = part[q]
                 /\ rivals \subseteq rivals'
      BY <2>3, <3>1 DEF TypeOK
    <3>2. /\ claimed'[p] = claimed[p] \cup {s}
          /\ part'[p] \subseteq part[p] \cup {s}
      BY <2>3 DEF TypeOK
    <3>3. \A q \in claimed'[p] : q \in rivals' \/ claimed'[p] = {q}
      BY <2>3, <3>2
    <3> QED
      BY <2>1, <3>1, <3>2, <3>3 DEF FootageInv
  <2> QED
    BY <1>6, <2>2, <2>3, LookCases
<1>7. ASSUME NEW s \in Segment, Replace(s)
      PROVE  FootageInv'
  <2>1. UNCHANGED <<cloud, claimed, rivals>>
    BY <1>7 DEF Replace
  <2>2. \A p \in Path : mp4'[p] \in {mp4[p], part[p]} /\ part'[p] \in {part[p], {}}
    BY <1>7 DEF Replace, TypeOK
  <2> QED
    BY <2>1, <2>2, <1>1 DEF FootageInv
<1>8. ASSUME NEW s \in Segment, Reject(s)
      PROVE  FootageInv'
  <2>1. UNCHANGED <<cloud, claimed, rivals>>
    BY <1>8 DEF Reject
  <2>2. \A p \in Path : mp4'[p] \in {mp4[p], {}} /\ part'[p] \in {part[p], {}}
    BY <1>8 DEF Reject, TypeOK
  <2> QED
    BY <2>1, <2>2, <1>1 DEF FootageInv
<1>9. CASE UserStep
  <2>1. UNCHANGED <<part, claimed, rivals>>
    BY <1>9 DEF UserStep, Rename, DeleteCamera, Archive, Clean, Discard
  <2>2. \A p \in Path : mp4'[p] \in {mp4[p], {}} /\ cloud'[p] \in {cloud[p], mp4[p]}
    BY <1>9 DEF UserStep, Rename, DeleteCamera, Archive, Clean, Discard, TypeOK
  <2> QED
    BY <2>1, <2>2, <1>1 DEF FootageInv
<1> QED
  BY <1>3, <1>4, <1>5, <1>6, <1>7, <1>8, <1>9 DEF Next, JobStep

(***************************************************************************)
(* No segment is lost                                                      *)
(***************************************************************************)

Basics == TypeOK /\ OpenedInv /\ JobInv /\ RowInv /\ FootageInv

\* Apart from rivals, a path is the path of one segment.
LEMMA OwnPath ==
  ASSUME Basics, NEW s \in Segment, s \notin rivals, NEW p \in Path,
         s \in claimed[p]
  PROVE  /\ claimed[p] = {s}
         /\ part[p] \subseteq {s} /\ mp4[p] \subseteq {s} /\ cloud[p] \subseteq {s}
         /\ \A j \in Segment :
              /\ job[j].at \in {"remuxing", "replaced", "committed"}
              /\ job[j].path = p
              => j = s
<1>1. claimed[p] = {s}
  BY DEF Basics, FootageInv
<1> QED
  BY <1>1 DEF Basics, FootageInv, JobInv

\* A row that leads to a segment goes on to do so, unless the segment's own
\* job removes the MP4 and keeps the MKV.
LEMMA LeadsStep ==
  ASSUME Basics, [Next]_vars, NEW p \in Path, NEW s \in Segment, Leads(p, s)
  PROVE  \/ Leads(p, s)' \/ s \in Exempt'
         \/ job[s].at = "replaced" /\ s \in staging'
<1> SUFFICES ASSUME s \notin rivals', s \notin discarded'
             PROVE  \/ Leads(p, s)'
                    \/ job[s].at = "replaced" /\ s \in staging'
  BY DEF Exempt
<1> USE DEF recorderVars, fileVars, historyVars
<1>1. s \notin rivals /\ s \notin discarded
  BY HistoryGrows DEF Basics
<1>2. s \in claimed[p]
  BY DEF Basics, FootageInv, Leads
<1>3. ASSUME UNCHANGED <<row, mp4, cloud>>
      PROVE  Leads(p, s)'
  BY <1>3 DEF Leads
<1>4. CASE RecorderStep \/ Crash \/ UNCHANGED vars
  BY <1>4, <1>3 DEF RecorderStep, StartRecorder, StopRecorder, OpenSegment,
                    CloseSegment, GoQuiet, Write, Crash, vars
<1>5. CASE Scan("loop") \/ Scan("exit")
  BY <1>5, <1>3 DEF Scan
<1>6. ASSUME NEW j \in Segment, Look(j) \/ Finish(j) \/ Move(j) \/ MoveFails(j)
      PROVE  Leads(p, s)'
  BY <1>6, <1>3 DEF Look, Finish, Move, MoveFails
<1>7. ASSUME NEW j \in Segment, Replace(j)
      PROVE  Leads(p, s)'
  <2>1. UNCHANGED <<row, cloud>>
    BY <1>7 DEF Replace
  <2>2. CASE job[j].path = p
    <3>1. part[p] # {} /\ mp4'[p] = part[p]
      BY <1>7, <2>2 DEF Replace, Basics, TypeOK
    <3>2. mp4'[p] = {s}
      BY <1>1, <1>2, <3>1, OwnPath
    <3> QED
      BY <2>1, <3>2 DEF Leads
  <2>3. CASE job[j].path # p
    BY <1>7, <2>1, <2>3 DEF Replace, Basics, TypeOK, Leads
  <2> QED
    BY <2>2, <2>3
<1>8. ASSUME NEW j \in Segment, Persist(j)
      PROVE  Leads(p, s)'
  <2>1. UNCHANGED <<mp4, cloud>> /\ row[p] # NoRow
    BY <1>8 DEF Persist, Leads, NoRow
  <2>2. \/ row'[p] = row[p]
        \/ /\ row'[p].up = row[p].up
           /\ row'[p].status \in {row[p].status, "ready"}
    BY <1>8, <2>1 DEF Persist, Basics, TypeOK, Row
  <2> QED
    BY <2>1, <2>2 DEF Leads
<1>9. ASSUME NEW j \in Segment, Reject(j)
      PROVE  \/ Leads(p, s)'
             \/ job[s].at = "replaced" /\ s \in staging'
  <2>1. UNCHANGED <<row, cloud, staging>>
    BY <1>9 DEF Reject
  <2>2. CASE mp4'[p] = mp4[p]
    BY <2>1, <2>2 DEF Leads
  <2>3. CASE mp4'[p] # mp4[p]
    <3>1. job[j].at = "replaced" /\ job[j].path = p
      BY <1>9, <2>3 DEF Reject, Basics, TypeOK
    <3>2. j = s
      BY <1>1, <1>2, <3>1, OwnPath
    <3>3. s \in staging
      BY <1>1, <3>1, <3>2 DEF Basics, JobInv, NoJob
    <3> QED
      BY <2>1, <3>1, <3>2, <3>3
  <2> QED
    BY <2>2, <2>3
<1>10. ASSUME NEW q \in Path, Archive(q)
       PROVE  Leads(p, s)'
  <2>1. CASE q = p
    <3>1. /\ row[p].status = "ready" /\ mp4[p] # {}
          /\ cloud'[p] = mp4[p] /\ row'[p] = [row[p] EXCEPT !.up = "success"]
      BY <1>10, <2>1 DEF Archive, Basics, TypeOK
    <3>2. row[p] \in Row
      BY DEF Basics, TypeOK
    <3>3. row'[p].status = "ready" /\ row'[p].up = "success"
      BY <3>1, <3>2 DEF Row
    <3>4. cloud'[p] = {s}
      BY <1>1, <1>2, <3>1, OwnPath
    <3> QED
      BY <3>3, <3>4 DEF Leads
  <2>2. CASE q # p
    BY <1>10, <2>2 DEF Archive, Basics, TypeOK, Leads
  <2> QED
    BY <2>1, <2>2
<1>11. ASSUME NEW q \in Path, Clean(q) \/ Discard(q)
       PROVE  Leads(p, s)'
  <2>1. CASE q = p
    <3>1. row[p].up = "success"
      <4>1. CASE Clean(q)
        BY <2>1, <4>1 DEF Clean
      <4>2. CASE Discard(q)
        <5>1. mp4[p] \subseteq discarded'
          BY <2>1, <4>2 DEF Discard
        <5> QED
          BY <5>1 DEF Leads
      <4> QED
        BY <1>11, <4>1, <4>2
    <3>2. row'[p] = [row[p] EXCEPT !.status = "deleted"] /\ UNCHANGED cloud
      BY <1>11, <2>1, <3>1 DEF Clean, Discard, Basics, TypeOK
    <3>3. row[p] \in Row
      BY DEF Basics, TypeOK
    <3>4. row'[p].status = "deleted" /\ row'[p].up = "success"
      BY <3>1, <3>2, <3>3 DEF Row
    <3>5. row[p] # NoRow
      BY <3>1 DEF NoRow
    <3>6. cloud[p] = {s}
      BY <1>1, <1>2, <3>1, <3>5, OwnPath DEF Basics, RowInv
    <3> QED
      BY <3>2, <3>4, <3>6 DEF Leads
  <2>2. CASE q # p
    BY <1>11, <2>2 DEF Clean, Discard, Basics, TypeOK, Leads
  <2> QED
    BY <2>1, <2>2
<1>12. ASSUME NEW c \in Camera, Rename(c) \/ DeleteCamera(c)
       PROVE  Leads(p, s)'
  BY <1>12, <1>3 DEF Rename, DeleteCamera
<1> QED
  BY <1>4, <1>5, <1>6, <1>7, <1>8, <1>9, <1>10, <1>11, <1>12
  DEF Next, JobStep, UserStep

\* A segment that has just been committed is led to by its row.
LEMMA PersistLeads ==
  ASSUME Basics, NEW s \in Segment, Persist(s)
  PROVE  s \in Exempt \/ Leads(job[s].path, s)'
<1> SUFFICES ASSUME s \notin rivals
             PROVE  Leads(job[s].path, s)'
  BY DEF Exempt
<1> DEFINE p == job[s].path
<1>1. /\ p \in Path /\ s \in claimed[p] /\ mp4[p] # {}
      /\ UNCHANGED <<mp4, cloud>>
  BY DEF Persist, Basics, JobInv, fileVars
<1>2. mp4[p] = {s} /\ cloud[p] \subseteq {s} /\ job'[s].path = job[s].path
  BY <1>1, OwnPath, OwnJob DEF Basics
<1>3. row[p] \in Row
  BY <1>1 DEF Basics, TypeOK
<1>4. CASE job[s].seen = NoRow /\ row[p] = NoRow
  <2>1. row'[p].status = "ready"
    BY <1>1, <1>4 DEF Persist, Basics, TypeOK
  <2> QED
    BY <1>1, <1>2, <2>1 DEF Leads
<1>5. CASE row[p] # NoRow
  <2>1. /\ row'[p].up = row[p].up
        /\ row'[p].status \in {row[p].status, "ready"}
    BY <1>1, <1>3, <1>5 DEF Persist, Basics, TypeOK, Row
  <2>2. CASE row'[p].status = "ready"
    BY <1>1, <1>2, <2>2 DEF Leads
  <2>3. CASE row'[p].status = row[p].status /\ row[p].status # "ready"
    <3>1. row[p].status = "deleted" /\ row[p].up = "success" /\ cloud[p] # {}
      BY <1>1, <1>5, <2>3 DEF Basics, RowInv
    <3> QED
      BY <1>1, <1>2, <2>1, <2>3, <3>1 DEF Leads
  <2> QED
    BY <2>1, <2>2, <2>3
<1> QED
  BY <1>4, <1>5 DEF Persist

\* Only Persist leads to the point before the unlink.
LEMMA CommittedStep == Basics /\ CommittedInv /\ [Next]_vars => CommittedInv'
<1> SUFFICES ASSUME Basics, CommittedInv, [Next]_vars,
                    NEW s \in Segment, job'[s].at = "committed"
             PROVE  s \in Exempt' \/ Leads(job[s].path, s)'
  BY DEF CommittedInv
<1> USE DEF recorderVars, fileVars, historyVars
<1>1. Exempt \subseteq Exempt'
  BY HistoryGrows DEF Exempt, Basics
<1>2. CASE Persist(s)
  BY <1>1, <1>2, PersistLeads, OwnJob DEF Basics
<1>3. ASSUME job[s].at = "committed", job'[s].path = job[s].path
      PROVE  s \in Exempt' \/ Leads(job[s].path, s)'
  <2>1. PICK p \in Path : p = job[s].path
    BY <1>3 DEF Basics, JobInv
  <2>2. s \in Exempt \/ Leads(p, s)
    BY <1>3, <2>1 DEF CommittedInv
  <2>3. s \in Exempt' \/ Leads(p, s)'
    BY <1>1, <1>3, <2>2, LeadsStep
  <2> QED
    BY <1>3, <2>1, <2>3
<1>4. ~Persist(s) => job[s].at = "committed" /\ job'[s].path = job[s].path
  <2>1. CASE RecorderStep \/ UserStep \/ UNCHANGED vars
    BY <2>1 DEF RecorderStep, StartRecorder, StopRecorder, OpenSegment,
                CloseSegment, GoQuiet, Write, UserStep, Rename, DeleteCamera,
                Archive, Clean, Discard, vars
  <2>2. CASE Crash
    BY <2>2 DEF Crash, NoJob
  <2>3. ASSUME NEW by \in {"loop", "exit"}, Scan(by)
        PROVE  job'[s] = job[s]
    BY <2>3 DEF Scan, NoJob
  <2>4. ASSUME NEW j \in Segment, j # s, JobStep(j) \/ MoveFails(j)
        PROVE  job[s].at = "committed" /\ job'[s].path = job[s].path
    BY <2>4, OtherJobs DEF Basics
  <2>5. CASE Look(s)
    <3>1. job'[s].at \in {"failing", "remuxing"} \/ job'[s] = NoJob
      BY <2>5, LookCases DEF Basics
    <3> QED
      BY <3>1 DEF NoJob
  <2>6. CASE Replace(s) \/ Reject(s) \/ Finish(s) \/ Move(s) \/ MoveFails(s)
    BY <2>6, OwnJob DEF NoJob, Basics
  <2> QED
    BY <2>1, <2>2, <2>3, <2>4, <2>5, <2>6 DEF Next, JobStep
<1> QED
  BY <1>2, <1>3, <1>4

\* An MKV leaves the staging directory with its row leading to its footage,
\* for the failed directory, or for a cause that is recorded.
LEMMA LossStep ==
  Basics /\ CommittedInv /\ LossExplained /\ [Next]_vars => LossExplained'
<1> SUFFICES ASSUME Basics, CommittedInv, LossExplained, [Next]_vars,
                    NEW s \in 1 .. opened', s \notin Exempt'
             PROVE  Kept(s)'
  BY DEF LossExplained
<1> USE DEF recorderVars, fileVars, historyVars
<1>1. ASSUME s \in staging' \cup failed'
      PROVE  Kept(s)'
  BY <1>1 DEF Kept
<1>2. ASSUME NEW p \in Path, Leads(p, s)'
      PROVE  Kept(s)'
  BY <1>2 DEF Kept, Leads
<1>3. CASE s \notin 1 .. opened
  <2>1. PICK c \in Camera : OpenSegment(c)
    BY <1>3 DEF Next, RecorderStep, StartRecorder, StopRecorder, CloseSegment,
                GoQuiet, Write, UserStep, Rename, DeleteCamera, Archive, Clean,
                Discard, Scan, Crash, JobStep, Look, Replace, Persist, Finish,
                Reject, Move, MoveFails, vars
  <2>2. opened \in Nat /\ opened' = opened + 1 /\ opened + 1 \in staging'
    BY <2>1 DEF OpenSegment, Basics, TypeOK
  <2> QED
    BY <1>1, <1>3, <2>2
<1>4. CASE s \in 1 .. opened
  <2>1. s \in Segment
    BY <1>4, PipelineAssumption DEF Segment, Basics, TypeOK
  <2>2. s \notin Exempt
    BY HistoryGrows DEF Basics, Exempt
  <2>3. Kept(s)
    BY <1>4, <2>2 DEF LossExplained
  <2>4. ASSUME NEW p \in Path, Leads(p, s)
        PROVE  Kept(s)'
    BY <1>1, <1>2, <2>1, <2>4, LeadsStep
  <2>5. CASE s \in failed
    <3>1. s \in failed'
      BY <2>5 DEF Next, RecorderStep, StartRecorder, StopRecorder, OpenSegment,
                  CloseSegment, GoQuiet, Write, UserStep, Rename, DeleteCamera,
                  Archive, Clean, Discard, Scan, Crash, JobStep, Look, Replace,
                  Persist, Finish, Reject, Move, MoveFails, Exempt, vars
    <3> QED
      BY <1>1, <3>1
  <2>6. CASE s \in staging
    <3>1. CASE Look(s)
      <4>1. UNCHANGED <<row, mp4, cloud>>
        BY <3>1 DEF Look
      <4>2. CASE s \in staging'
        BY <1>1, <4>2
      <4>3. CASE s \notin staging'
        <5>1. PICK p \in Path :
                /\ claimed' = [claimed EXCEPT ![p] = claimed[p] \cup {s}]
                /\ rivals' = IF claimed[p] \subseteq {s} THEN rivals
                             ELSE rivals \cup claimed[p] \cup {s}
                /\ Done(p)
          BY <2>1, <2>6, <3>1, <4>3, LookCases DEF Basics
        <5>2. claimed[p] \subseteq {s}
          BY <5>1 DEF Exempt
        <5>3. mp4[p] = {s} /\ cloud[p] \subseteq {s} /\ row[p] # NoRow
          BY <5>1, <5>2 DEF Done, NoRow, Basics, FootageInv
        <5>4. Leads(p, s)
          BY <5>3 DEF Basics, RowInv, Leads
        <5> QED
          BY <2>4, <5>4
      <4> QED
        BY <4>2, <4>3
    <3>2. CASE Finish(s)
      <4>1. job[s].path \in Path /\ Leads(job[s].path, s)
        BY <2>1, <2>2, <3>2 DEF Finish, CommittedInv, Basics, JobInv
      <4> QED
        BY <2>4, <4>1
    <3>3. CASE Move(s)
      BY <1>1, <2>6, <3>3 DEF Move
    <3>4. ASSUME NEW p \in Path, Discard(p)
          PROVE  s \in staging'
      BY <2>6, <3>4 DEF Discard, Exempt
    <3>5. ASSUME NEW j \in Segment, j # s, JobStep(j)
          PROVE  s \in staging'
      BY <2>6, <3>5 DEF JobStep, Look, Replace, Persist, Finish, Reject, Move
    <3>6. ASSUME NEW j \in Segment,
                 Replace(j) \/ Persist(j) \/ Reject(j) \/ MoveFails(j)
          PROVE  s \in staging'
      BY <2>6, <3>6 DEF Replace, Persist, Reject, MoveFails
    <3>7. CASE RecorderStep \/ Crash \/ UNCHANGED vars
      BY <1>1, <2>6, <3>7 DEF RecorderStep, StartRecorder, StopRecorder,
           OpenSegment, CloseSegment, GoQuiet, Write, Crash, vars
    <3>8. CASE Scan("loop") \/ Scan("exit")
      BY <1>1, <2>6, <3>8 DEF Scan
    <3>9. ASSUME \/ \E c \in Camera : Rename(c) \/ DeleteCamera(c)
                 \/ \E p \in Path : Archive(p) \/ Clean(p)
          PROVE  s \in staging'
      BY <2>6, <3>9 DEF Rename, DeleteCamera, Archive, Clean
    <3> QED
      BY <1>1, <3>1, <3>2, <3>3, <3>4, <3>5, <3>6, <3>7, <3>8, <3>9
      DEF Next, JobStep, UserStep
  <2>7. CASE s \notin staging \cup failed
    BY <2>3, <2>4, <2>7 DEF Kept, Leads
  <2> QED
    BY <2>5, <2>6, <2>7
<1> QED
  BY <1>3, <1>4

(***************************************************************************)
(* What is listed is there                                                 *)
(***************************************************************************)

\* A file that is missing, or a copy that differs, belongs to no ready row.
LEMMA ListedStep ==
  Basics /\ Basics' /\ ListedInv /\ [Next]_vars => ListedInv'
<1> SUFFICES ASSUME Basics, Basics', ListedInv, [Next]_vars, rivals' = {}
             PROVE  /\ \A p \in Path : row'[p].status = "ready" =>
                         /\ mp4'[p] # {}
                         /\ row'[p].up = "success" => cloud'[p] = mp4'[p]
                    /\ \A s \in Segment :
                         job'[s].at \in {"remuxing", "replaced"} =>
                           row'[job'[s].path].status # "ready"
  BY DEF ListedInv, ListedIsThere
<1> USE DEF recorderVars, fileVars, historyVars
<1> DEFINE Good(p) == row[p].status = "ready" =>
                        /\ mp4[p] # {}
                        /\ row[p].up = "success" => cloud[p] = mp4[p]
           Early(s) == job[s].at \in {"remuxing", "replaced"} =>
                         row[job[s].path].status # "ready"
<1>1. rivals = {}
  BY HistoryGrows DEF Basics
<1>2. \A p \in Path : Good(p)
  BY <1>1 DEF ListedInv, ListedIsThere
<1>3. \A s \in Segment : Early(s)
  BY <1>1 DEF ListedInv
<1> SUFFICES (\A p \in Path : Good(p)') /\ (\A s \in Segment : Early(s)')
  OBVIOUS
<1>4. ASSUME UNCHANGED <<row, mp4, cloud>>
      PROVE  \A p \in Path : Good(p)'
  BY <1>2, <1>4
<1>5. ASSUME UNCHANGED row,
             \A s \in Segment : job'[s].at \in {"remuxing", "replaced"} =>
               job[s].at \in {"remuxing", "replaced"} /\ job'[s].path = job[s].path
      PROVE  \A s \in Segment : Early(s)'
  BY <1>3, <1>5
<1>6. CASE RecorderStep \/ UNCHANGED vars
  <2>1. UNCHANGED <<row, mp4, cloud, job>>
    BY <1>6 DEF RecorderStep, StartRecorder, StopRecorder, OpenSegment,
                CloseSegment, GoQuiet, Write, vars
  <2> QED
    BY <2>1, <1>4, <1>5
<1>7. CASE Crash
  <2>1. UNCHANGED <<row, mp4, cloud>> /\ \A s \in Segment : job'[s].at = "none"
    BY <1>7 DEF Crash, NoJob
  <2> QED
    BY <2>1, <1>4, <1>5
<1>8. ASSUME NEW by \in {"loop", "exit"}, Scan(by)
      PROVE  (\A p \in Path : Good(p)') /\ (\A s \in Segment : Early(s)')
  <2>1. UNCHANGED <<row, mp4, cloud>>
    BY <1>8 DEF Scan
  <2>2. \A s \in Segment : job'[s] = job[s] \/ job'[s].at = "waiting"
    BY <1>8 DEF Scan, NoJob
  <2> QED
    BY <2>1, <2>2, <1>4, <1>5
<1>9. ASSUME NEW s \in Segment, Look(s)
      PROVE  (\A p \in Path : Good(p)') /\ (\A q \in Segment : Early(q)')
  <2>1. UNCHANGED <<row, mp4, cloud>>
    BY <1>9 DEF Look
  <2>2. Early(s)'
    <3>1. ASSUME NEW p \in Path, ~Done(p), job'[s].path = p
          PROVE  row[p].status # "ready"
      BY <1>2, <3>1 DEF Done
    <3>2. \/ job'[s].at = "failing" \/ job'[s] = NoJob
          \/ \E p \in Path : ~Done(p) /\ job'[s].path = p
      BY <1>9, LookCases DEF Basics
    <3> QED
      BY <2>1, <3>1, <3>2 DEF NoJob
  <2>3. ASSUME NEW q \in Segment, q # s
        PROVE  Early(q)'
    <3>1. job'[q].at = job[q].at /\ job'[q].path = job[q].path
      BY <1>9, <2>3, OtherJobs DEF JobStep, Basics
    <3> QED
      BY <1>3, <2>1, <3>1
  <2> QED
    BY <2>1, <2>2, <2>3, <1>4
<1>10. ASSUME NEW s \in Segment,
              \/ Replace(s) \/ Reject(s) \/ Finish(s) \/ Move(s) \/ MoveFails(s)
       PROVE  (\A p \in Path : Good(p)') /\ (\A q \in Segment : Early(q)')
  <2>1. UNCHANGED <<row, cloud>>
    BY <1>10 DEF Replace, Reject, Finish, Move, MoveFails
  <2>2. \A q \in Segment : job'[q].at \in {"remuxing", "replaced"} =>
          job[q].at \in {"remuxing", "replaced"} /\ job'[q].path = job[q].path
    <3>1. job'[s].at \in {"remuxing", "replaced"} =>
            job[s].at \in {"remuxing", "replaced"} /\ job'[s].path = job[s].path
      BY <1>10, OwnJob DEF Replace, NoJob, Basics
    <3> QED
      BY <1>10, <3>1, OtherJobs DEF JobStep, Basics
  <2>3. ASSUME NEW p \in Path
        PROVE  Good(p)'
    <3>1. CASE mp4'[p] = mp4[p]
      BY <1>2, <2>1, <3>1
    <3>2. CASE mp4'[p] # mp4[p]
      <4>1. job[s].path = p /\ job[s].at \in {"remuxing", "replaced"}
        BY <1>10, <3>2
        DEF Replace, Reject, Finish, Move, MoveFails, Basics, TypeOK
      <4>2. row[p].status # "ready"
        BY <1>3, <4>1
      <4> QED
        BY <2>1, <4>2
    <3> QED
      BY <3>1, <3>2
  <2> QED
    BY <2>1, <2>2, <2>3, <1>5
<1>11. ASSUME NEW s \in Segment, Persist(s)
       PROVE  (\A p \in Path : Good(p)') /\ (\A q \in Segment : Early(q)')
  <2> DEFINE p == job[s].path
  <2>1. /\ p \in Path /\ s \in claimed[p] /\ s \notin rivals
        /\ UNCHANGED <<mp4, cloud, claimed>> /\ mp4[p] # {}
    BY <1>1, <1>11 DEF Persist, Basics, JobInv
  <2>2. mp4[p] = {s} /\ cloud[p] \subseteq {s}
    BY <2>1, OwnPath
  <2>3. \A q \in Path : q # p => row'[q] = row[q]
    BY <1>11 DEF Persist, Basics, TypeOK
  <2>4. Good(p)'
    <3>1. row'[p].status = "ready" /\ row'[p].up = "success" => cloud'[p] # {}
      <4>1. row'[p].status = "ready" => row'[p] # NoRow
        BY DEF NoRow
      <4> QED
        BY <2>1, <4>1 DEF Basics, RowInv
    <3>2. job'[s].path = job[s].path
      BY <1>11, OwnJob DEF Basics
    <3> QED
      BY <2>1, <2>2, <3>1, <3>2
  <2>5. \A q \in Path : Good(q)'
    <3>1. ASSUME NEW q \in Path, q # p
          PROVE  Good(q)'
      BY <1>2, <2>1, <2>3, <3>1
    <3>2. job'[s].path = job[s].path
      BY <1>11, OwnJob DEF Basics
    <3> QED
      BY <2>4, <3>1, <3>2
  <2>6. ASSUME NEW q \in Segment, job'[q].at \in {"remuxing", "replaced"}
        PROVE  row'[job'[q].path].status # "ready"
    <3>1. q # s
      BY <1>11, <2>6, OwnJob DEF Basics
    <3>2. job'[q].at = job[q].at /\ job'[q].path = job[q].path
      BY <1>11, <3>1, OtherJobs DEF JobStep, Basics
    <3>3. job[q].path \in Path /\ job[q].path # p
      BY <2>1, <2>6, <3>1, <3>2, OwnPath DEF Basics, JobInv
    <3> QED
      BY <1>3, <2>3, <2>6, <3>2, <3>3
  <2> QED
    BY <2>5, <2>6
<1>12. ASSUME NEW c \in Camera, Rename(c) \/ DeleteCamera(c)
       PROVE  (\A p \in Path : Good(p)') /\ (\A q \in Segment : Early(q)')
  <2>1. UNCHANGED <<row, mp4, cloud, job>>
    BY <1>12 DEF Rename, DeleteCamera
  <2> QED
    BY <2>1, <1>4, <1>5
<1>13. ASSUME NEW p \in Path, Archive(p) \/ Clean(p) \/ Discard(p)
       PROVE  (\A q \in Path : Good(q)') /\ (\A q \in Segment : Early(q)')
  <2>1. /\ \A q \in Path : q # p =>
             row'[q] = row[q] /\ mp4'[q] = mp4[q] /\ cloud'[q] = cloud[q]
        /\ UNCHANGED job
    BY <1>13 DEF Archive, Clean, Discard, Basics, TypeOK
  <2>2. row[p] \in Row
    BY DEF Basics, TypeOK
  <2>3. \/ /\ row[p].status = "ready" /\ row'[p].status = "ready"
           /\ mp4'[p] = mp4[p] /\ cloud'[p] = mp4[p]
        \/ row'[p].status # "ready"
    BY <1>13, <2>2
    DEF Archive, Clean, Discard, NoRow, Row, Basics, TypeOK
  <2>4. \A q \in Path : Good(q)'
    <3>1. Good(p)'
      BY <1>2, <2>3
    <3>2. ASSUME NEW q \in Path, q # p
          PROVE  Good(q)'
      BY <1>2, <2>1, <3>2
    <3> QED
      BY <3>1, <3>2
  <2>5. ASSUME NEW q \in Segment, job[q].at \in {"remuxing", "replaced"}
        PROVE  row'[job[q].path].status # "ready"
    BY <1>3, <2>1, <2>3, <2>5 DEF Basics, JobInv
  <2> QED
    BY <2>1, <2>4, <2>5
<1> QED
  BY <1>6, <1>7, <1>8, <1>9, <1>10, <1>11, <1>12, <1>13
  DEF Next, JobStep, UserStep

-----------------------------------------------------------------------------
(* The theorems                                                            *)

\* Nothing has happened yet.
LEMMA InvInit == Init => Inv
<1> SUFFICES ASSUME Init
             PROVE  Inv
  OBVIOUS
<1>1. TypeOK
  BY TypeInit
<1>2. /\ opened = 0 /\ open = {} /\ staging = {} /\ failed = {}
      /\ \A s \in Segment : job[s] = NoJob
      /\ \A p \in Path : /\ row[p] = NoRow /\ part[p] = {} /\ mp4[p] = {}
                         /\ cloud[p] = {} /\ claimed[p] = {}
  BY DEF Init, NoFootage
<1>3. 1 .. opened = {}
  BY <1>2
<1>4. OpenedInv /\ LossExplained
  BY <1>2, <1>3 DEF OpenedInv, LossExplained
<1>5. JobInv /\ RowInv /\ FootageInv /\ CommittedInv /\ ListedInv
  BY <1>2 DEF JobInv, RowInv, FootageInv, CommittedInv, ListedInv,
              ListedIsThere, NoJob, NoRow
<1> QED
  BY <1>1, <1>4, <1>5 DEF Inv

LEMMA InvStep == Inv /\ [Next]_vars => Inv'
<1> SUFFICES ASSUME Inv, [Next]_vars
             PROVE  Inv'
  OBVIOUS
<1>1. Basics
  BY DEF Inv, Basics
<1>2. Basics'
  BY <1>1, TypeStep, OpenedStep, JobInvStep, RowStep, FootageStep DEF Basics
<1>3. CommittedInv' /\ LossExplained'
  BY <1>1, CommittedStep, LossStep DEF Inv
<1>4. ListedInv'
  BY <1>1, <1>2, ListedStep DEF Inv
<1> QED
  BY <1>2, <1>3, <1>4 DEF Inv, Basics

LEMMA InvAlways == Spec => []Inv
<1>1. Init => Inv
  BY InvInit
<1>2. Inv /\ [Next]_vars => Inv'
  BY InvStep
<1> QED
  BY <1>1, <1>2, PTL DEF Spec

\* Every variable keeps its type.
THEOREM TypeCorrect == Spec => []TypeOK
<1>1. Inv => TypeOK
  BY DEF Inv
<1> QED
  BY <1>1, InvAlways, PTL

\* For any number of cameras and segments, and whatever fails, restarts, is
\* renamed, archived or cleaned between two steps: a segment that is neither an
\* MKV nor behind a row that leads to it shared its name with another, was
\* taken while FFmpeg wrote it, or was deleted by a user.
THEOREM NoOtherLoss == Spec => []LossExplained
<1>1. Inv => LossExplained
  BY DEF Inv
<1> QED
  BY <1>1, InvAlways, PTL

\* Without two segments of one name, a row that is ready has its MP4, and one
\* that is archived, which the cleaners go by, has the same footage in the
\* cloud.
THEOREM ListedThere == Spec => []ListedIsThere
<1>1. Inv => ListedIsThere
  BY DEF Inv, ListedInv
<1> QED
  BY <1>1, InvAlways, PTL

\* The file taken for the active one is the one FFmpeg writes, as long as the
\* recorder runs.
THEOREM OpenWhenStopped == Spec => TakenOpenOnlyStopped
<1>1. ASSUME Inv, [Next]_vars
      PROVE  [\A s \in cut' \ cut : camera[s] \notin running]_vars
  <2> SUFFICES ASSUME NEW s \in cut' \ cut
               PROVE  camera[s] \notin running
    OBVIOUS
  <2>1. PICK by \in {"loop", "exit"} : Scan(by)
    BY <1>1 DEF Next, RecorderStep, StartRecorder, StopRecorder, OpenSegment,
       CloseSegment, GoQuiet, Write, UserStep, Rename, DeleteCamera, Archive,
       Clean, Discard, Crash, JobStep, Look, Replace, Persist, Finish, Reject,
       Move, MoveFails, vars, historyVars
  <2>2. s \in open /\ ~Active(s)
    BY <2>1 DEF Scan, Finished
  <2>3. Last(s)
    BY <1>1, <2>2 DEF Inv, OpenedInv, Last
  <2> QED
    BY <2>2, <2>3 DEF Active
<1> QED
  BY <1>1, InvAlways, PTL DEF Spec, TakenOpenOnlyStopped
=============================================================================
