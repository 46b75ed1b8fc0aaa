-------------------------- MODULE RecordingExport --------------------------
(***************************************************************************)
(* Export jobs: services/recording_export.py (RecordingExportManager) and  *)
(* api/exports.py.  One worker task takes job ids from a queue, renders    *)
(* each continuous group of footage with FFmpeg into the job's directory,  *)
(* publishes the result and, between jobs, expires old ones.               *)
(*                                                                         *)
(* A step is the code between two awaits.  A session that reads a row and  *)
(* commits later is two steps: a camera may be deleted in between, and its *)
(* jobs go with it (ON DELETE CASCADE).  Ids are SQLite's: one more than   *)
(* the largest in the table, so that the id of a deleted job comes back.   *)
(***************************************************************************)
EXTENDS Integers, Sequences, FiniteSets

CONSTANTS Cameras,       \* camera ids, 1..n
          Jobs,          \* job ids, 1..n
          MaxRequests,   \* bound: POST /api/exports
          MaxGroups,     \* bound: continuous groups in a range
          MaxDeletions,  \* bound: cameras deleted
          MaxRestarts    \* bound: restarts of the process

VARIABLES
    footage,    \* camera -> "absent" (no camera), "none" or "local" recordings
    job,        \* ExportJob rows; request identifies the POST a row was made by
    artifacts,  \* ExportArtifact rows: job id and directory of the file
    disk,       \* directory camera-C/../export-J -> stage, request rendered there
    queue,      \* _queue
    queued,     \* _queued
    active,     \* _active_job_id, 0 for None
    at,         \* where the worker's task is
    run,        \* its locals: what it read of the job, groups yet to render
    expiring,   \* rows cleanup_expired has selected
    due,        \* ready jobs whose expires_at has passed
    requests, deletions, restarts,   \* counts of what is bounded
    reused,     \* history: ids given again while the worker held them
    littered    \* history: directories a restart or deletion left behind

rows   == <<job, artifacts, due>>
loop   == <<queue, queued, active, at, run, expiring>>
counts == <<requests, deletions, restarts>>
vars   == <<footage, rows, disk, loop, counts, reused, littered>>

Status == {"pending", "processing", "ready", "failed", "expired"}
Request == 0..MaxRequests
NoRow == [status |-> "none", camera |-> 0, request |-> 0]
Row == [status : Status, camera : Cameras, request : Request] \cup {NoRow}
Directory == Cameras \X Jobs
Empty == [stage |-> "none", request |-> 0]
NoRun == [camera |-> 0, request |-> 0, groups |-> 0]
Point == {"idle", "open", "begin", "giveUp", "givingUp", "render", "progress",
          "saving", "pack", "publish", "publishing", "fail", "failing", "close",
          "clean", "expire", "dead"}

TypeOK ==
    /\ footage \in [Cameras -> {"absent", "none", "local"}]
    /\ job \in [Jobs -> Row]
    /\ artifacts \subseteq [job : Jobs, directory : Directory]
    /\ disk \in [Directory -> [stage : {"none", "work", "final"}, request : Request]]
    /\ queue \in Seq(Jobs) /\ queued \subseteq Jobs /\ active \in Jobs \cup {0}
    /\ at \in Point
    /\ run \in [camera : Cameras \cup {0}, request : Request, groups : 0..MaxGroups]
    /\ expiring \subseteq Jobs /\ due \subseteq Jobs
    /\ requests \in 0..MaxRequests /\ deletions \in 0..MaxDeletions
    /\ restarts \in 0..MaxRestarts
    /\ reused \subseteq Jobs /\ littered \subseteq Directory

Exists(j) == job[j].status # "none"
JobDirectory(j) == <<job[j].camera, j>>
NextId(taken) == IF taken = {} THEN 1 ELSE 1 + CHOOSE m \in taken : \A n \in taken : n <= m
Finished == {"ready", "failed", "expired"}

Init ==
    /\ footage = [c \in Cameras |-> IF c = 1 THEN "local" ELSE "absent"]
    /\ job = [j \in Jobs |-> NoRow] /\ artifacts = {} /\ due = {}
    /\ disk = [d \in Directory |-> Empty]
    /\ queue = <<>> /\ queued = {} /\ active = 0
    /\ at = "idle" /\ run = NoRun /\ expiring = {}
    /\ requests = 0 /\ deletions = 0 /\ restarts = 0
    /\ reused = {} /\ littered = {}

-----------------------------------------------------------------------------
(* Requests.  A job is made only for a range with local footage, and put in *)
(* the queue unless its id is queued or active already.                    *)
Create(c) ==
    /\ footage[c] = "local" /\ requests < MaxRequests
    /\ LET j == NextId({k \in Jobs : Exists(k)}) IN
       /\ j \in Jobs
       /\ job' = [job EXCEPT ![j] =
            [status |-> "pending", camera |-> c, request |-> requests + 1]]
       /\ IF j \in queued \/ active = j
          THEN UNCHANGED <<queue, queued>>
          ELSE queue' = Append(queue, j) /\ queued' = queued \cup {j}
       /\ reused' = IF active = j \/ j \in expiring THEN reused \cup {j} ELSE reused
    /\ requests' = requests + 1
    /\ UNCHANGED <<footage, artifacts, due, disk, active, at, run, expiring,
                   deletions, restarts, littered>>

\* What GET /api/exports/J/artifacts/A/download answers: the files a ready,
\* unexpired job lists that are there.
Download(j) ==
    IF job[j].status = "ready" /\ j \notin due
    THEN {disk[a.directory].request :
            a \in {b \in artifacts : b.job = j /\ disk[b.directory].stage = "final"}}
    ELSE {}

\* Recordings are deleted, archived or recorded anew.
Footage(c) ==
    /\ footage[c] # "absent"
    /\ footage' = [footage EXCEPT ![c] = IF @ = "local" THEN "none" ELSE "local"]
    /\ UNCHANGED <<rows, disk, loop, counts, reused, littered>>

\* The camera's directories, and those of its jobs: a job whose id was given
\* again may have been rendered into the directory of another camera.
Left(c, d) == d[1] = c \/ (job[d[2]].status # "none" /\ job[d[2]].camera = c)

\* A camera without recordings may be deleted, whatever its export jobs do.
DeleteCamera(c) ==
    /\ footage[c] = "none" /\ deletions < MaxDeletions
    /\ footage' = [footage EXCEPT ![c] = "absent"]
    /\ LET gone == {j \in Jobs : Exists(j) /\ job[j].camera = c} IN
       /\ job' = [j \in Jobs |-> IF j \in gone THEN NoRow ELSE job[j]]
       /\ artifacts' = {a \in artifacts : a.job \notin gone}
       /\ due' = due \ gone
       /\ reused' = reused \ gone
    /\ deletions' = deletions + 1
    /\ littered' = littered \cup {d \in Directory : disk[d].stage # "none" /\ Left(c, d)}
    /\ UNCHANGED <<disk, loop, requests, restarts>>

CreateCamera ==
    /\ LET c == NextId({d \in Cameras : footage[d] # "absent"}) IN
       /\ c \in Cameras
       /\ footage' = [footage EXCEPT ![c] = "none"]
    /\ UNCHANGED <<rows, disk, loop, counts, reused, littered>>

\* EXPORT_TTL has passed since the job was completed.
Elapse(j) ==
    /\ job[j].status = "ready" /\ j \notin due
    /\ due' = due \cup {j}
    /\ UNCHANGED <<footage, job, artifacts, disk, loop, counts, reused, littered>>

-----------------------------------------------------------------------------
(* The worker: _run, process_job, _fail_job and cleanup_expired.           *)
Goto(p) == at' = p

\* shutil.rmtree of a directory
Remove(d) ==
    /\ disk' = [disk EXCEPT ![d] = Empty]
    /\ littered' = littered \ {d}

Here == <<run.camera, active>>
Outside == UNCHANGED <<footage, counts, reused>>
Still == UNCHANGED <<queue, queued, active, expiring>>

Take ==
    /\ at = "idle" /\ queue # <<>>
    /\ active' = Head(queue) /\ queue' = Tail(queue) /\ queued' = queued \ {Head(queue)}
    /\ Goto("open")
    /\ UNCHANGED <<rows, disk, run, expiring, littered>> /\ Outside

\* Nothing came for 60 seconds.
Idle ==
    /\ at = "idle" /\ queue = <<>>
    /\ Goto("clean")
    /\ UNCHANGED <<rows, disk, run, littered>> /\ Still /\ Outside

\* The row is read and the range analysed; n groups are found in it.
Open(n) ==
    /\ at = "open"
    /\ IF job[active].status \in {"pending", "processing"}
       THEN /\ (n = 0) <=> (footage[job[active].camera] # "local")
            /\ run' = [camera |-> job[active].camera, request |-> job[active].request,
                       groups |-> n]
            /\ Goto("begin")
       ELSE n = 0 /\ run' = run /\ Goto("close")
    /\ UNCHANGED <<rows, disk, littered>> /\ Still /\ Outside

\* Marked as processing, and the directory made anew; if the row is gone the
\* commit raises.
Begin ==
    /\ at = "begin"
    /\ IF Exists(active)
       THEN /\ job' = [job EXCEPT ![active].status = "processing"]
            /\ disk' = [disk EXCEPT ![Here] = [stage |-> "work", request |-> run.request]]
            /\ littered' = littered \ {Here}
            /\ Goto(IF run.groups = 0 THEN "giveUp" ELSE "render")
       ELSE UNCHANGED <<job, disk, littered>> /\ Goto("close")
    /\ UNCHANGED <<artifacts, due, run>> /\ Still /\ Outside

\* Nothing to export: the job fails and its directory is removed, unless the
\* row vanishes between the read and the commit of _fail_job.
GiveUp ==
    /\ \/ /\ at = "giveUp" /\ Exists(active)
          /\ Goto("givingUp") /\ UNCHANGED <<job, disk, littered>>
       \/ /\ at = "giveUp" /\ ~Exists(active)
          /\ Remove(Here) /\ Goto("close") /\ UNCHANGED job
       \/ /\ at = "givingUp" /\ Exists(active)
          /\ job' = [job EXCEPT ![active].status = "failed"]
          /\ Remove(Here) /\ Goto("close")
       \/ /\ at = "givingUp" /\ ~Exists(active)
          /\ littered' = littered \cup {Here}
          /\ Goto("close") /\ UNCHANGED <<job, disk>>
    /\ UNCHANGED <<artifacts, due, run>> /\ Still /\ Outside

\* An exception inside process_job's try: the directory goes first, then the
\* job is marked as failed.
AbortKeeping == Goto("fail") /\ UNCHANGED <<disk, littered>>  \* mutant: no rmtree
AbortQuietly == Remove(Here) /\ Goto("close")    \* mutant: no _fail_job
Abort == Remove(Here) /\ Goto("fail")

Render ==
    /\ at = "render"
    /\ \/ Goto("progress") /\ run' = [run EXCEPT !.groups = @ - 1]
                           /\ UNCHANGED <<disk, littered>>
       \/ Abort /\ run' = run
    /\ UNCHANGED rows /\ Still /\ Outside

AfterGroup == IF run.groups = 0 THEN "pack" ELSE "render"

\* The progress is written through a session of its own.
Progress ==
    /\ \/ at = "progress" /\ Exists(active) /\ Goto("saving")
                          /\ UNCHANGED <<disk, littered>>
       \/ at = "progress" /\ ~Exists(active) /\ Goto(AfterGroup)
                          /\ UNCHANGED <<disk, littered>>
       \/ at = "saving" /\ Exists(active) /\ Goto(AfterGroup)
                        /\ UNCHANGED <<disk, littered>>
       \/ at = "saving" /\ ~Exists(active) /\ Abort
    /\ UNCHANGED <<rows, run>> /\ Still /\ Outside

\* Groups are merged, moved or zipped into final/ and work/ is removed.
Pack ==
    /\ at = "pack"
    /\ \/ /\ disk' = [disk EXCEPT ![Here].stage = "final"]
          /\ Goto("publish") /\ UNCHANGED littered
       \/ Abort
    /\ UNCHANGED <<rows, run>> /\ Still /\ Outside

\* Artifacts and status are committed together, if the row is still there.
Publish ==
    /\ \/ /\ at = "publish" /\ Exists(active)
          /\ Goto("publishing") /\ UNCHANGED <<rows, disk, littered>>
       \/ /\ at = "publish" /\ ~Exists(active)
          /\ Remove(Here) /\ Goto("close") /\ UNCHANGED rows
       \/ /\ at = "publishing" /\ Exists(active)
          /\ job' = [job EXCEPT ![active].status = "ready"]
          /\ artifacts' = artifacts \cup {[job |-> active, directory |-> Here]}
          /\ due' = due \ {active}
          /\ Goto("close") /\ UNCHANGED <<disk, littered>>
       \/ /\ at = "publishing" /\ ~Exists(active)
          /\ Abort /\ UNCHANGED rows
    /\ UNCHANGED run /\ Still /\ Outside

Fail ==
    /\ \/ at = "fail" /\ Exists(active) /\ Goto("failing") /\ UNCHANGED job
       \/ at = "fail" /\ ~Exists(active) /\ Goto("close") /\ UNCHANGED job
       \/ /\ at = "failing" /\ Goto("close")
          /\ IF Exists(active)
             THEN job' = [job EXCEPT ![active].status = "failed"]
             ELSE UNCHANGED job
    /\ UNCHANGED <<artifacts, due, run, disk, littered>> /\ Still /\ Outside

Close ==
    /\ at = "close" /\ active' = 0 /\ run' = NoRun /\ Goto("clean")
    /\ UNCHANGED <<rows, disk, queue, queued, expiring, littered>> /\ Outside

\* cleanup_expired: select, remove every directory, and mark in one commit.
Clean ==
    /\ at = "clean"
    /\ expiring' = due
    /\ LET gone == {JobDirectory(j) : j \in due} IN
       /\ disk' = [d \in Directory |-> IF d \in gone THEN Empty ELSE disk[d]]
       /\ littered' = littered \ gone
    /\ Goto(IF due = {} THEN "idle" ELSE "expire")
    /\ UNCHANGED <<rows, queue, queued, active, run>> /\ Outside

\* A row deleted since then makes the commit raise, and nothing catches that.
Expire ==
    /\ at = "expire"
    /\ IF \A j \in expiring : Exists(j)
       THEN /\ job' = [j \in Jobs |->
                        IF j \in expiring THEN [job[j] EXCEPT !.status = "expired"] ELSE job[j]]
            /\ due' = due \ expiring
            /\ Goto("idle")
       ELSE UNCHANGED <<job, due>> /\ Goto("dead")
    /\ expiring' = {}
    /\ UNCHANGED <<artifacts, disk, queue, queued, active, run, littered>> /\ Outside

-----------------------------------------------------------------------------
\* The process ends and starts again: _recover_jobs fails what was processing
\* and queues what is pending.
Restart ==
    /\ restarts < MaxRestarts
    /\ restarts' = restarts + 1
    /\ job' = [j \in Jobs |-> IF job[j].status = "processing"
                               THEN [job[j] EXCEPT !.status = "failed"] ELSE job[j]]
    /\ LET pending == {j \in Jobs : job[j].status = "pending"} IN
       /\ queued' = pending
       /\ queue' = [i \in 1..Cardinality(pending) |->
                     CHOOSE j \in pending : Cardinality({k \in pending : k < j}) = i - 1]
    /\ active' = 0 /\ at' = "idle" /\ run' = NoRun /\ expiring' = {}
    /\ littered' = IF run.camera # 0 /\ disk[Here].stage # "none"
                   THEN littered \cup {Here} ELSE littered
    /\ UNCHANGED <<footage, artifacts, due, disk, requests, deletions, reused>>

Environment ==
    \/ \E c \in Cameras : Create(c) \/ Footage(c) \/ DeleteCamera(c)
    \/ CreateCamera
    \/ \E j \in Jobs : Elapse(j)
    \/ Restart

Worker ==
    \/ Take \/ Idle \/ (\E n \in 0..MaxGroups : Open(n)) \/ Begin \/ GiveUp
    \/ Render \/ Progress \/ Pack \/ Publish \/ Fail \/ Close \/ Clean \/ Expire

Next == Environment \/ Worker

\* The task is scheduled, FFmpeg ends (it reads finite files), and a queue
\* that is not empty is served before the 60 seconds are over.
Fairness == WF_vars(Worker)
Spec == Init /\ [][Next]_vars /\ Fairness

-----------------------------------------------------------------------------
(* A job that is ready and not yet due can be downloaded, through restarts, *)
(* deletions, failures of others and their cleaning: publication and expiry *)
(* take files and rows in the right order.                                 *)
ReadyIsServed == \A j \in Jobs : job[j].status = "ready" /\ j \notin due => Download(j) # {}

(* What is downloaded from a job is what that job's request asked for.  The *)
(* only way out is an id that SQLite gives again to a new job while the     *)
(* worker still carries the deleted one under it.                          *)
ServesOwnRequest ==
    \A j \in Jobs \ reused : Download(j) \subseteq {job[j].request}

(* A directory is in use by the worker, belongs to a job that is ready, or  *)
(* was left behind by a restart, a deleted camera or an id carried twice:  *)
(* no path of process_job, failing at any point, forgets its directory.    *)
LitterExplained ==
    \A d \in Directory : disk[d].stage # "none" =>
        \/ d \in littered \/ d[2] \in reused
        \/ active = d[2] /\ run.camera = d[1]
        \/ job[d[2]].status = "ready" /\ [job |-> d[2], directory |-> d] \in artifacts

(* The worker's task ends for good only because a camera was deleted while  *)
(* cleanup_expired was about to commit.                                    *)
DiesOfDeletionOnly == at = "dead" => deletions > 0

(* Whatever fails, every job is ready, failed, expired or deleted in the    *)
(* end, as long as the worker lives and the id is not carried twice.        *)
Unsettled ==
    at # "dead" /\ \E j \in Jobs \ reused : job[j].status \in {"pending", "processing"}
JobsSettle == Unsettled ~> ~Unsettled
=============================================================================
