--------------------------- MODULE SegmentPipeline ---------------------------
(***************************************************************************)
(* From an MKV segment FFmpeg writes into the staging directory to a       *)
(* Recording row with its MP4 (services/segment_processor.py), with what   *)
(* happens to both afterwards: archiving, cleaning, deletion.              *)
(*                                                                         *)
(* A scan is one stretch without an await and takes every finished MKV at  *)
(* once; each becomes a job of its own, one step per subprocess, session   *)
(* or move. The MP4's path is made of the camera's name, simplified, and   *)
(* of the start of the segment in local time, so that two segments may     *)
(* have the same one. The footage of a file is the set of segments it was  *)
(* made of. Upload, cleaning and deletion are single steps here; their     *)
(* details are the subject of UploadArchive. Local time may be set back,    *)
(* the order of the files' modification times is that of their opening.    *)
(***************************************************************************)
EXTENDS Naturals, FiniteSets

CONSTANTS
  Camera,       \* identities of the cameras
  Name,         \* simplified camera names (safe_camera_name)
  None,         \* no name (a camera without a row), no camera, no start
  Start,        \* starts of segments, to the second, in local time
  MaxSegments,  \* bound: segments written
  Concurrency,  \* remux_concurrency
  MaxRenames,   \* bound: cameras renamed
  MaxFaults,    \* bound: moves that fail
  MaxExits      \* bound: ends of the process, and scans on shutdown

ASSUME PipelineAssumption ==
  /\ None \notin Name \cup Camera \cup Start
  /\ MaxSegments \in Nat /\ Concurrency \in Nat \ {0}
  /\ MaxRenames \in Nat /\ MaxFaults \in Nat /\ MaxExits \in Nat

Segment == 1 .. MaxSegments   \* in the order in which they were opened
Path == Name \X Start
NoPath == <<None, None>>

VARIABLES
  name,       \* [Camera -> Name \cup {None}]
  running,    \* cameras for which RecorderManager.is_running
  camera,     \* the directory of each segment opened
  start,      \* its file name
  opened,     \* number of segments opened so far
  open,       \* segments FFmpeg has open
  quiet,      \* segments not written to for the finalize grace period
  staging,    \* segments whose MKV is in the staging directory
  failed,     \* segments whose MKV is in the failed directory
  part,       \* [Path -> footage] the temporary file of each target
  mp4,        \* [Path -> footage] the MP4 file; {} where there is none
  cloud,      \* [Path -> footage] its cloud copy
  row,        \* [Path -> Row]     the Recording row
  job,        \* [Segment -> Job]  process_segment
  eventful,   \* cameras with an event that blocks their deletion
  issued,     \* renames, faults, exits so far (bounds)
  claimed,    \* history: segments that were to become the MP4 of each path
  rivals,     \* history: segments that had to share a file name
  cut,        \* history: segments taken while FFmpeg had them open
  discarded   \* history: segments a user deleted

recorderVars == <<running, camera, start, opened, open, quiet>>
fileVars == <<staging, failed, part, mp4, cloud>>
historyVars == <<claimed, rivals, cut, discarded>>
vars == <<name, recorderVars, fileVars, row, job, eventful, issued, historyVars>>

\* camera: that of the segment the row was made for; source: the last one.
NoRow == [status |-> "none", up |-> "pending", camera |-> None, source |-> 0]
Row == [status : {"none", "ready", "deleted"}, up : {"pending", "success"},
        camera : Camera \cup {None}, source : Segment \cup {0}]

\* by: the scan whose semaphore the job uses; loose when nobody awaits it.
\* path, seen: its target, and what process_segment found there at first.
At == {"none", "waiting", "remuxing", "replaced", "committed", "failing"}
Job == [at : At, by : {"loop", "exit", "loose"}, path : Path \cup {NoPath},
        seen : Row]
NoJob == [at |-> "none", by |-> "loose", path |-> NoPath, seen |-> NoRow]

TypeOK ==
  /\ name \in [Camera -> Name \cup {None}]
  /\ running \in SUBSET Camera
  /\ camera \in [Segment -> Camera \cup {None}]
  /\ start \in [Segment -> Start \cup {None}]
  /\ opened \in 0 .. MaxSegments
  /\ open \in SUBSET Segment
  /\ quiet \in SUBSET Segment
  /\ staging \in SUBSET Segment
  /\ failed \in SUBSET Segment
  /\ part \in [Path -> SUBSET Segment]
  /\ mp4 \in [Path -> SUBSET Segment]
  /\ cloud \in [Path -> SUBSET Segment]
  /\ row \in [Path -> Row]
  /\ job \in [Segment -> Job]
  /\ eventful \in SUBSET Camera
  /\ issued \in [renames : Nat, faults : Nat, exits : Nat]
  /\ claimed \in [Path -> SUBSET Segment]
  /\ rivals \in SUBSET Segment
  /\ cut \in SUBSET Segment
  /\ discarded \in SUBSET Segment

NoFootage == [p \in Path |-> {}]

Init ==
  /\ name \in [Camera -> Name]
  /\ running = {}
  /\ camera = [s \in Segment |-> None]
  /\ start = [s \in Segment |-> None]
  /\ opened = 0
  /\ open = {} /\ quiet = {} /\ staging = {} /\ failed = {}
  /\ part = NoFootage /\ mp4 = NoFootage /\ cloud = NoFootage
  /\ row = [p \in Path |-> NoRow]
  /\ job = [s \in Segment |-> NoJob]
  /\ eventful = {}
  /\ issued = [renames |-> 0, faults |-> 0, exits |-> 0]
  /\ claimed = NoFootage
  /\ rivals = {} /\ cut = {} /\ discarded = {}

-----------------------------------------------------------------------------
(* The recorder and its FFmpeg                                             *)

StartRecorder(c) ==
  /\ c \notin running /\ name[c] # None
  /\ \A s \in open : camera[s] # c
  /\ running' = running \cup {c}
  /\ UNCHANGED <<name, camera, start, opened, open, quiet, fileVars, row, job,
                 eventful, issued, historyVars>>

\* stop has been asked for; FFmpeg may take its time.
StopRecorder(c) ==
  /\ c \in running
  /\ running' = running \ {c}
  /\ UNCHANGED <<name, camera, start, opened, open, quiet, fileVars, row, job,
                 eventful, issued, historyVars>>

\* FFmpeg opens the next file, and has closed the last. Local time may have
\* been set back; a file still in the directory is not written over.
OpenSegment(c) ==
  LET s == opened + 1 IN
  /\ s \in Segment
  /\ c \in running
  /\ opened' = s
  /\ camera' = [camera EXCEPT ![s] = c]
  /\ \E k \in Start :
       /\ \A q \in staging : camera[q] # c \/ start[q] # k
       /\ start' = [start EXCEPT ![s] = k]
  /\ open' = {q \in open : camera[q] # c} \cup {s}
  /\ staging' = staging \cup {s}
  /\ UNCHANGED <<name, running, quiet, failed, part, mp4, cloud, row, job,
                 eventful, issued, historyVars>>

\* FFmpeg exits, asked to or not.
CloseSegment(s) ==
  /\ s \in open
  /\ open' = open \ {s}
  /\ UNCHANGED <<name, running, camera, start, opened, quiet, fileVars, row,
                 job, eventful, issued, historyVars>>

\* A closed file ages; an open one does when the camera sends nothing.
GoQuiet(s) ==
  /\ s \in staging \ quiet
  /\ quiet' = quiet \cup {s}
  /\ UNCHANGED <<name, running, camera, start, opened, open, fileVars, row,
                 job, eventful, issued, historyVars>>

Write(s) ==
  /\ s \in open \cap quiet
  /\ quiet' = quiet \ {s}
  /\ UNCHANGED <<name, running, camera, start, opened, open, fileVars, row,
                 job, eventful, issued, historyVars>>

-----------------------------------------------------------------------------
(* scan_once                                                               *)

\* files[-1]
Last(s) == \A q \in staging : camera[q] = camera[s] => q <= s

\* Mutant: a stopped camera's last file is active, too.
ActiveForGood(s) == Last(s)

\* Mutant: no file is active.
ActiveNever(s) == FALSE

\* The file last written of a camera that is running.
Active(s) == camera[s] \in running /\ Last(s)

Finished == {s \in staging \cap quiet : job[s] = NoJob /\ ~Active(s)}

\* The loop awaits its jobs before it scans again; the scan on shutdown,
\* with every recorder stopped, does not know about the loop's.
Scan(by) ==
  /\ \/ by = "loop" /\ (\A s \in Segment : job[s].by # "loop")
        /\ UNCHANGED issued
     \/ /\ by = "exit" /\ running = {} /\ open = {}
        /\ issued.exits < MaxExits
        /\ issued' = [issued EXCEPT !.exits = @ + 1]
  /\ Finished # {}
  /\ job' = [s \in Segment |-> IF s \in Finished
                                THEN [NoJob EXCEPT !.at = "waiting", !.by = by]
                                ELSE job[s]]
  /\ cut' = cut \cup (Finished \cap open)
  /\ UNCHANGED <<name, recorderVars, fileVars, row, eventful, claimed, rivals,
                 discarded>>

-----------------------------------------------------------------------------
(* process_segment                                                         *)

Places(s) == {q \in Segment : /\ job[q].at \in {"remuxing", "replaced", "committed"}
                              /\ job[q].by = job[s].by}

GoTo(s, point) == job' = [job EXCEPT ![s].at = point]

\* Mutant: a file that is done is still kept among those in progress.
LeaveMarked(s) == job' = [job EXCEPT ![s].at = "done"]

Leave(s) == job' = [job EXCEPT ![s] = NoJob]

\* A target whose row and file exist means that the segment was done before:
\* its MKV is removed. Mutant: the file is enough.
DoneByFile(p) == mp4[p] # {}

Done(p) == row[p].status # "none" /\ mp4[p] # {}

\* Camera, target and row are read, and the remux begins on a fresh temporary
\* file, or on one another FFmpeg has just opened.
Look(s) ==
  LET p == <<name[camera[s]], start[s]>> IN
  /\ job[s].at = "waiting"
  /\ Cardinality(Places(s)) < Concurrency
  /\ \/ /\ name[camera[s]] = None
        /\ GoTo(s, "failing")
        /\ UNCHANGED <<staging, part, claimed, rivals>>
     \/ /\ name[camera[s]] # None
        /\ claimed' = [claimed EXCEPT ![p] = @ \cup {s}]
        /\ rivals' = IF claimed[p] \subseteq {s} THEN rivals
                     ELSE rivals \cup claimed[p] \cup {s}
        /\ \/ /\ Done(p)
              /\ staging' = staging \ {s}
              /\ Leave(s)
              /\ UNCHANGED part
           \/ /\ ~Done(p) /\ s \notin staging
              /\ part' = [part EXCEPT ![p] = {}]
              /\ GoTo(s, "failing")
              /\ UNCHANGED staging
           \/ /\ ~Done(p) /\ s \in staging
              /\ part' \in {[part EXCEPT ![p] = {s}], [part EXCEPT ![p] = @ \cup {s}]}
              /\ job' = [job EXCEPT ![s] = [at |-> "remuxing", by |-> job[s].by,
                                            path |-> p, seen |-> row[p]]]
              /\ UNCHANGED staging
  /\ UNCHANGED <<name, recorderVars, failed, mp4, cloud, row, eventful, issued,
                 cut, discarded>>

\* The remux has succeeded; whatever is in the temporary file is renamed.
Replace(s) ==
  LET p == job[s].path IN
  /\ job[s].at = "remuxing" /\ part[p] # {}
  /\ mp4' = [mp4 EXCEPT ![p] = part[p]]
  /\ part' = [part EXCEPT ![p] = {}]
  /\ GoTo(s, "replaced")
  /\ UNCHANGED <<name, recorderVars, staging, failed, cloud, row, eventful,
                 issued, historyVars>>

\* The MP4 has been probed and read. A new row, even of a camera deleted since
\* (foreign keys are enforced on the connections the API has used), or the old
\* one, of which only what differs from what was seen is written.
Persist(s) ==
  LET p == job[s].path IN
  /\ job[s].at = "replaced" /\ mp4[p] # {}
  /\ \/ /\ job[s].seen = NoRow /\ row[p] = NoRow
        /\ row' = [row EXCEPT ![p] = [status |-> "ready", up |-> "pending",
                                      camera |-> camera[s], source |-> s]]
     \/ /\ job[s].seen # NoRow /\ row[p] # NoRow
        /\ row' = [row EXCEPT
             ![p].source = IF job[s].seen.source = s THEN @ ELSE s,
             ![p].status = IF job[s].seen.status = "ready" THEN @ ELSE "ready"]
  /\ GoTo(s, "committed")
  /\ UNCHANGED <<name, recorderVars, fileVars, eventful, issued, historyVars>>

Finish(s) ==
  /\ job[s].at = "committed"
  /\ staging' = staging \ {s}
  /\ Leave(s)
  /\ UNCHANGED <<name, recorderVars, failed, part, mp4, cloud, row, eventful,
                 issued, historyVars>>

\* Mutant: whatever fails, the target is removed.
RejectRemovesTarget(s) ==
  LET p == job[s].path IN
  /\ job[s].at \in {"remuxing", "replaced", "committed"}
  /\ part' = [part EXCEPT ![p] = {}]
  /\ mp4' = [mp4 EXCEPT ![p] = {}]
  /\ GoTo(s, "failing")
  /\ UNCHANGED <<name, recorderVars, staging, failed, cloud, row, eventful,
                 issued, historyVars>>

\* Any step fails: FFmpeg, which takes its temporary file along; the probe,
\* which takes the MP4 along; a read of the MP4, the commit, the unlink.
Reject(s) ==
  LET p == job[s].path IN
  /\ \/ /\ job[s].at = "remuxing"
        /\ part' = [part EXCEPT ![p] = {}]
        /\ UNCHANGED mp4
     \/ /\ job[s].at = "replaced"
        /\ mp4' \in {mp4, [mp4 EXCEPT ![p] = {}]}
        /\ UNCHANGED part
     \/ job[s].at = "committed" /\ UNCHANGED <<part, mp4>>
  /\ GoTo(s, "failing")
  /\ UNCHANGED <<name, recorderVars, staging, failed, cloud, row, eventful,
                 issued, historyVars>>

\* _process_guarded: the MKV, if it exists, goes to the failed directory,
\* over one of the same name. An event says so, if it can be written.
Move(s) ==
  LET same == {q \in failed : camera[q] = camera[s] /\ start[q] = start[s]} IN
  /\ job[s].at = "failing"
  /\ Leave(s)
  /\ \/ /\ s \notin staging /\ UNCHANGED <<staging, failed, rivals>>
     \/ /\ s \in staging
        /\ staging' = staging \ {s}
        /\ failed' = (failed \ same) \cup {s}
        /\ rivals' = IF same \subseteq {s} THEN rivals ELSE rivals \cup same \cup {s}
  /\ eventful' \in {eventful, eventful \cup {c \in {camera[s]} : name[c] # None}}
  /\ UNCHANGED <<name, recorderVars, part, mp4, cloud, row, issued, claimed,
                 cut, discarded>>

\* The move raises: gather() ends the scan, whose other jobs go on alone.
MoveFails(s) ==
  /\ job[s].at = "failing" /\ s \in staging
  /\ issued.faults < MaxFaults
  /\ issued' = [issued EXCEPT !.faults = @ + 1]
  /\ job' = [q \in Segment |->
               IF q = s THEN NoJob
               ELSE IF job[q].by = job[s].by
               THEN [job[q] EXCEPT !.by = "loose"] ELSE job[q]]
  /\ UNCHANGED <<name, recorderVars, fileVars, row, eventful, historyVars>>

-----------------------------------------------------------------------------
(* What else touches rows and files                                        *)

Rename(c) ==
  /\ issued.renames < MaxRenames
  /\ issued' = [issued EXCEPT !.renames = @ + 1]
  /\ name[c] # None
  /\ \E n \in Name : name' = [name EXCEPT ![c] = n]
  /\ UNCHANGED <<recorderVars, fileVars, row, job, eventful, historyVars>>

\* A camera without recordings and events may be deleted; its recorder has
\* been stopped by then. What is in the staging directory is not looked at.
DeleteCamera(c) ==
  /\ name[c] # None /\ c \notin running \cup eventful
  /\ \A s \in open : camera[s] # c
  /\ \A p \in Path : row[p].camera # c
  /\ name' = [name EXCEPT ![c] = None]
  /\ UNCHANGED <<recorderVars, fileVars, row, job, eventful, issued,
                 historyVars>>

Archive(p) ==
  /\ row[p].status = "ready" /\ row[p].up # "success" /\ mp4[p] # {}
  /\ cloud' = [cloud EXCEPT ![p] = mp4[p]]
  /\ row' = [row EXCEPT ![p].up = "success"]
  /\ UNCHANGED <<name, recorderVars, staging, failed, part, mp4, job, eventful,
                 issued, historyVars>>

Clean(p) ==
  /\ row[p].status = "ready" /\ row[p].up = "success"
  /\ mp4' = [mp4 EXCEPT ![p] = {}]
  /\ row' = [row EXCEPT ![p].status = "deleted"]
  /\ UNCHANGED <<name, recorderVars, staging, failed, part, cloud, job,
                 eventful, issued, historyVars>>

\* MP4 and source MKV are removed; the row stays if there is a cloud copy.
Discard(p) ==
  /\ row[p].status # "none"
  /\ ~(row[p].status = "deleted" /\ row[p].up = "success")
  /\ mp4' = [mp4 EXCEPT ![p] = {}]
  /\ staging' = staging \ {row[p].source}
  /\ discarded' = discarded \cup mp4[p] \cup {row[p].source}
  /\ row' = [row EXCEPT ![p] = IF row[p].up = "success"
                               THEN [row[p] EXCEPT !.status = "deleted"] ELSE NoRow]
  /\ eventful' = eventful \cup {row[p].camera}
  /\ UNCHANGED <<name, recorderVars, failed, part, cloud, job, issued, claimed,
                 rivals, cut>>

\* The process ends, and its FFmpegs with it; a new one starts.
Crash ==
  /\ issued.exits < MaxExits
  /\ issued' = [issued EXCEPT !.exits = @ + 1]
  /\ running' = {} /\ open' = {}
  /\ job' = [s \in Segment |-> NoJob]
  /\ UNCHANGED <<name, camera, start, opened, quiet, fileVars, row, eventful,
                 historyVars>>

-----------------------------------------------------------------------------
JobStep(s) ==
  \/ Look(s) \/ Replace(s) \/ Persist(s) \/ Finish(s) \/ Reject(s) \/ Move(s)

RecorderStep ==
  \/ \E c \in Camera : StartRecorder(c) \/ StopRecorder(c) \/ OpenSegment(c)
  \/ \E s \in Segment : CloseSegment(s) \/ GoQuiet(s) \/ Write(s)

UserStep ==
  \/ \E c \in Camera : Rename(c) \/ DeleteCamera(c)
  \/ \E p \in Path : Archive(p) \/ Clean(p) \/ Discard(p)

Next ==
  \/ RecorderStep \/ UserStep \/ Crash
  \/ Scan("loop") \/ Scan("exit")
  \/ \E s \in Segment : JobStep(s) \/ MoveFails(s)

(***************************************************************************)
(* The loop scans again and again, FFmpeg and ffprobe come to an end on a  *)
(* local file, and a closed file grows old. Nothing has to succeed.        *)
(***************************************************************************)
Fairness ==
  /\ WF_vars(Scan("loop"))
  /\ \A s \in Segment : WF_vars(JobStep(s)) /\ WF_vars(s \notin open /\ GoQuiet(s))

Spec == Init /\ [][Next]_vars
FairSpec == Spec /\ Fairness

-----------------------------------------------------------------------------
(* Properties                                                              *)

Exempt == rivals \cup cut \cup discarded

\* A segment can be found: as an MKV, or through a row that leads to it.
Kept(s) ==
  \/ s \in staging \cup failed
  \/ \E p \in Path :
       \/ row[p].status = "ready" /\ mp4[p] = {s}
       \/ row[p].status # "none" /\ row[p].up = "success" /\ cloud[p] = {s}

\* Whatever fails, is renamed, cleaned or restarted in between, no segment is
\* lost, except when two share a file name, FFmpeg was still writing it, or a
\* user deleted it.
LossExplained == \A s \in 1 .. opened : s \in Exempt \/ Kept(s)

\* Without two segments of one name, what the list offers is there, and what
\* it calls archived, and will clean, is what the cloud has.
ListedIsThere ==
  rivals = {} => \A p \in Path : row[p].status = "ready" =>
    /\ mp4[p] # {}
    /\ row[p].up = "success" => cloud[p] = mp4[p]

\* A file FFmpeg still writes is only taken after its recorder was stopped.
TakenOpenOnlyStopped ==
  [][\A s \in cut' \ cut : camera[s] \notin running]_vars

\* Every closed segment leaves the staging directory, unless its camera keeps
\* running without opening another.
SegmentsSettle ==
  \A s \in Segment :
    s \in staging /\ s \notin open ~>
      s \notin staging \/ (camera[s] \in running /\ Last(s))
=============================================================================
