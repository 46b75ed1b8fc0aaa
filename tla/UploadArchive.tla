--------------------------- MODULE UploadArchive ---------------------------
(***************************************************************************)
(* From a finished local MP4 to its cloud copy and back to free disk space *)
(* (services/upload_manager.py, services/storage_cleanup.py, api/uploads.py*)
(* and the manual deletion of api/recording_management.py).                *)
(*                                                                         *)
(* The upload loop scans, uploads and then cleans; POST /uploads/scan runs *)
(* the same scan in a request of its own. The emergency cleaner, users who *)
(* delete or retry, and the end of the process come in between. A step is  *)
(* one database session that does nothing but read and commit, or one file *)
(* or network operation; sessions that span such operations are split.     *)
(*                                                                         *)
(* UploadTask.status and Recording.upload_status are always written        *)
(* together and are one variable here; a recording has at most one task.   *)
(***************************************************************************)
EXTENDS Naturals, FiniteSets

CONSTANTS
  Recording,    \* recordings the segment processor has finished
  Api,          \* requests that may run a scan
  Loop,         \* the upload manager's own task
  Emergency,    \* the emergency cleaner's task
  Concurrency,  \* upload_concurrency
  RetryMax,     \* upload_retry_max
  MaxScans,     \* bound: scans requested by users
  MaxRetries,   \* bound: retries requested by users
  MaxCrashes    \* bound: ends of the process

ASSUME UploadAssumption ==
  /\ Loop \notin Api \cup {Emergency}
  /\ Concurrency \in Nat \ {0} /\ RetryMax \in Nat \ {0}
  /\ MaxScans \in Nat /\ MaxRetries \in Nat /\ MaxCrashes \in Nat

Scanner == Api \cup {Loop}
Cleaner == {Loop, Emergency}

VARIABLES
  row,       \* Recording.status; "gone" without a row
  status,    \* upload_status of the recording, and status of its task
  tasked,    \* recordings with an UploadTask row
  retries,   \* UploadTask.retry_count
  due,       \* recordings whose next_retry_at is empty or past
  expired,   \* recordings older than local_retention_hours
  local,     \* recordings whose MP4 exists
  remote,    \* what WebDAV holds under the task's remote_path
  scan,      \* where each scanner is
  fresh,     \* recordings each scanner found without a task
  job,       \* process_task of each scanner for each recording
  clean,     \* rows each cleaner has selected, and rows it has marked
  deletion,  \* manual deletion of each recording
  issued,    \* user scans, user retries and crashes so far (bounds)
  archived,  \* history: recordings that were once uploaded successfully
  again,     \* history: recordings handed to an upload once too often
  discarded  \* history: recordings a user asked to delete

rowVars == <<row, status, tasked, retries>>
timeVars == <<due, expired>>
scanVars == <<scan, fresh, job>>
historyVars == <<archived, again, discarded>>
vars == <<rowVars, timeVars, local, remote, scanVars, clean, deletion, issued,
          historyVars>>

Status == {"pending", "uploading", "retry_wait", "failed", "success"}
Job == {"none", "waiting", "opened", "sending", "sent"}
Scan == {"idle", "ensure", "select", "upload", "clean", "dead"}

TypeOK ==
  /\ row \in [Recording -> {"ready", "deleted", "gone"}]
  /\ status \in [Recording -> Status]
  /\ tasked \in SUBSET Recording
  /\ retries \in [Recording -> Nat]
  /\ due \in SUBSET Recording
  /\ expired \in SUBSET Recording
  /\ local \in SUBSET Recording
  /\ remote \in [Recording -> {"absent", "partial", "whole"}]
  /\ scan \in [Scanner -> Scan]
  /\ fresh \in [Scanner -> SUBSET Recording]
  /\ job \in [Scanner -> [Recording -> Job]]
  /\ clean \in [Cleaner -> [busy : BOOLEAN, todo : SUBSET Recording,
                            marked : SUBSET Recording]]
  /\ deletion \in [Recording -> {"none", "keepRow", "dropRow",
                                 "keptRow", "droppedRow"}]
  /\ issued \in [scans : Nat, retries : Nat, crashes : Nat]
  /\ archived \in SUBSET Recording
  /\ again \in SUBSET Recording
  /\ discarded \in SUBSET Recording

NoJob == [r \in Recording |-> "none"]
Rest == [busy |-> FALSE, todo |-> {}, marked |-> {}]

Init ==
  /\ row = [r \in Recording |-> "ready"]
  /\ status = [r \in Recording |-> "pending"]
  /\ tasked = {}
  /\ retries = [r \in Recording |-> 0]
  /\ due = Recording
  /\ expired = {}
  /\ local = Recording
  /\ remote = [r \in Recording |-> "absent"]
  /\ scan = [s \in Scanner |-> "idle"]
  /\ fresh = [s \in Scanner |-> {}]
  /\ job = [s \in Scanner |-> NoJob]
  /\ clean = [k \in Cleaner |-> Rest]
  /\ deletion = [r \in Recording |-> "none"]
  /\ issued = [scans |-> 0, retries |-> 0, crashes |-> 0]
  /\ archived = {} /\ again = {} /\ discarded = {}

-----------------------------------------------------------------------------
(* scan_once: a task for every recording, then the ones that are due       *)

Goto(s, point) == scan' = [scan EXCEPT ![s] = point]

\* Mutant: every unfinished recording gets a task, again.
MissingOrNot ==
  {r \in Recording :
     row[r] = "ready" /\ status[r] \in {"pending", "failed", "retry_wait"}}

Missing ==
  {r \in Recording \ tasked :
     row[r] = "ready" /\ status[r] \in {"pending", "failed", "retry_wait"}}

\* The interval of the loop has passed, or a user asks for a scan.
StartScan(s) ==
  /\ scan[s] = "idle"
  /\ \/ s = Loop /\ UNCHANGED issued
     \/ /\ s \in Api /\ issued.scans < MaxScans
        /\ issued' = [issued EXCEPT !.scans = @ + 1]
  /\ Goto(s, "ensure")
  /\ fresh' = [fresh EXCEPT ![s] = Missing]
  /\ UNCHANGED <<rowVars, timeVars, local, remote, job, clean, deletion,
                 historyVars>>

\* An exception ends a request, and the loop for good: _run does not catch.
Raise(s) == Goto(s, IF s = Loop THEN "dead" ELSE "idle")

\* The tasks are inserted. Another scan may have inserted one meanwhile: the
\* unique constraint fails and nothing is inserted. A recording deleted
\* meanwhile fails the foreign key where the connection enforces it; where it
\* does not, its task is one that process_task will give up on.
EnsureTasks(s) ==
  /\ scan[s] = "ensure"
  /\ fresh' = [fresh EXCEPT ![s] = {}]
  /\ \/ /\ fresh[s] \cap tasked = {}
        /\ tasked' = tasked \cup {r \in fresh[s] : row[r] # "gone"}
        /\ Goto(s, "select")
     \/ /\ \E r \in fresh[s] : r \in tasked \/ row[r] = "gone"
        /\ Raise(s)
        /\ UNCHANGED tasked
  /\ UNCHANGED <<row, status, retries, timeVars, local, remote, job, clean,
                 deletion, issued, historyVars>>

Selectable == {r \in tasked \cap due :
                 status[r] \in {"pending", "retry_wait"} /\ retries[r] < RetryMax}

\* Bound to twice the concurrency; which ones come first is left open.
SelectTasks(s) ==
  /\ scan[s] = "select"
  /\ \E S \in SUBSET Selectable :
       /\ \/ S = Selectable /\ Cardinality(S) <= 2 * Concurrency
          \/ Cardinality(S) = 2 * Concurrency
       /\ job' = [job EXCEPT ![s] =
                    [r \in Recording |-> IF r \in S THEN "waiting" ELSE "none"]]
  /\ Goto(s, "upload")
  /\ UNCHANGED <<rowVars, timeVars, local, remote, fresh, clean, deletion,
                 issued, historyVars>>

EndScan(s) ==
  /\ scan[s] = "upload" /\ job[s] = NoJob
  /\ Goto(s, IF s = Loop THEN "clean" ELSE "idle")
  /\ UNCHANGED <<rowVars, timeVars, local, remote, fresh, job, clean, deletion,
                 issued, historyVars>>

-----------------------------------------------------------------------------
(* process_task                                                            *)

SetJob(s, r, point) == job' = [job EXCEPT ![s][r] = point]
InFlight(s, r) == job[s][r] \in {"opened", "sending", "sent"}

\* The semaphore lets the task in. Its status, as it is now, is not tested.
Open(s, r) ==
  /\ job[s][r] = "waiting"
  /\ Cardinality({q \in Recording : InFlight(s, q)}) < Concurrency
  /\ \/ r \notin tasked /\ SetJob(s, r, "none") /\ UNCHANGED <<status, again>>
     \/ /\ r \in tasked
        /\ SetJob(s, r, IF r \in local THEN "opened" ELSE "none")
        /\ status' = [status EXCEPT ![r] =
                        IF r \in local THEN "uploading" ELSE "failed"]
        /\ again' = IF r \in archived \/ \E u \in Scanner \ {s} : InFlight(u, r)
                    THEN again \cup {r} ELSE again
  /\ UNCHANGED <<row, tasked, retries, timeVars, local, remote, scan, fresh,
                 clean, deletion, issued, archived, discarded>>

\* The PUT opens the file, which it can read to its end from here on. The
\* server may or may not show the old object until the new one is complete.
Put(s, r) ==
  /\ job[s][r] = "opened" /\ r \in local
  /\ SetJob(s, r, "sending")
  /\ remote' \in {remote, [remote EXCEPT ![r] = "partial"]}
  /\ UNCHANGED <<rowVars, timeVars, local, scan, fresh, clean, deletion,
                 issued, historyVars>>

\* Mutant: an accepted PUT is enough.
VerifyNot(s, r) ==
  /\ job[s][r] = "sending"
  /\ SetJob(s, r, "sent")
  /\ UNCHANGED <<rowVars, timeVars, local, remote, scan, fresh, clean, deletion,
                 issued, historyVars>>

\* The PUT was accepted and HEAD reported the right size.
Verify(s, r) ==
  /\ job[s][r] = "sending"
  /\ SetJob(s, r, "sent")
  /\ remote' = [remote EXCEPT ![r] = "whole"]
  /\ UNCHANGED <<rowVars, timeVars, local, scan, fresh, clean, deletion,
                 issued, historyVars>>

Succeed(s, r) ==
  /\ job[s][r] = "sent"
  /\ SetJob(s, r, "none")
  /\ \/ r \notin tasked /\ UNCHANGED <<status, archived, due>>
     \/ /\ r \in tasked
        /\ status' = [status EXCEPT ![r] = "success"]
        /\ archived' = archived \cup {r}
        /\ due' = due \cup {r}
  /\ UNCHANGED <<row, tasked, retries, expired, local, remote, scan, fresh,
                 clean, deletion, issued, again, discarded>>

\* Mutants: the last attempt waits for a retry, too; a status nobody reads.
VerdictAlwaysWait(r) == "retry_wait"
VerdictGivenUp(r) == IF retries[r] + 1 >= RetryMax THEN "given_up" ELSE "retry_wait"

Verdict(r) == IF retries[r] + 1 >= RetryMax THEN "failed" ELSE "retry_wait"

\* Any exception of the upload: no file, no server, a refused PUT, a HEAD that
\* fails or disagrees. What the PUT has left behind is unknown.
Fail(s, r) ==
  /\ job[s][r] \in {"opened", "sending"}
  /\ SetJob(s, r, "none")
  /\ \/ UNCHANGED remote
     \/ /\ job[s][r] = "sending"
        /\ \E left \in {"partial", "whole"} : remote' = [remote EXCEPT ![r] = left]
  /\ \/ r \notin tasked /\ UNCHANGED <<status, retries, due>>
     \/ /\ r \in tasked
        /\ retries' = [retries EXCEPT ![r] = @ + 1]
        /\ status' = [status EXCEPT ![r] = Verdict(r)]
        /\ due' = IF Verdict(r) = "failed" THEN due \cup {r} ELSE due \ {r}
  /\ UNCHANGED <<row, tasked, expired, local, scan, fresh, clean, deletion,
                 issued, historyVars>>

-----------------------------------------------------------------------------
(* The two cleaners: cleanup_uploaded_files and the emergency cleaner      *)

\* Mutant: only the age of a recording matters.
CleanableByAge == {r \in expired : row[r] = "ready"}

Cleanable == {r \in expired : row[r] = "ready" /\ status[r] = "success"}

\* The rows are selected once; their files go one by one.
StartClean(k) ==
  /\ ~clean[k].busy
  /\ k = Loop => scan[Loop] = "clean"
  /\ Cleanable # {}
  /\ clean' = [clean EXCEPT ![k] = [busy |-> TRUE, todo |-> Cleanable,
                                    marked |-> {}]]
  /\ UNCHANGED <<rowVars, timeVars, local, remote, scanVars, deletion, issued,
                 historyVars>>

\* The file is removed, or was missing; or removing it failed.
Unlink(k, r) ==
  /\ r \in clean[k].todo
  /\ \/ /\ local' = local \ {r}
        /\ clean' = [clean EXCEPT ![k] =
             [busy |-> @.busy, todo |-> @.todo \ {r}, marked |-> @.marked \cup {r}]]
     \/ /\ r \in local
        /\ clean' = [clean EXCEPT ![k] =
             [busy |-> @.busy, todo |-> @.todo \ {r}, marked |-> @.marked]]
        /\ UNCHANGED local
  /\ UNCHANGED <<rowVars, timeVars, remote, scanVars, deletion, issued,
                 historyVars>>

\* All marked rows in one commit, which fails as a whole when one of them no
\* longer exists. The emergency cleaner stops as soon as there is room.
EndClean(k) ==
  /\ clean[k].busy
  /\ k = Loop => clean[k].todo = {}
  /\ clean' = [clean EXCEPT ![k] = Rest]
  /\ \/ /\ \A r \in clean[k].marked : row[r] # "gone"
        /\ row' = [r \in Recording |->
                     IF r \in clean[k].marked THEN "deleted" ELSE row[r]]
        /\ IF k = Loop THEN Goto(Loop, "idle") ELSE UNCHANGED scan
     \/ /\ \E r \in clean[k].marked : row[r] = "gone"
        /\ UNCHANGED row
        /\ IF k = Loop THEN Raise(Loop) ELSE UNCHANGED scan
  /\ UNCHANGED <<status, tasked, retries, timeVars, local, remote, fresh, job,
                 deletion, issued, historyVars>>

\* Nothing to clean: the loop waits for its interval.
SkipClean ==
  /\ scan[Loop] = "clean" /\ ~clean[Loop].busy
  /\ Cleanable = {}
  /\ Goto(Loop, "idle")
  /\ UNCHANGED <<rowVars, timeVars, local, remote, fresh, job, clean, deletion,
                 issued, historyVars>>

-----------------------------------------------------------------------------
(* Users: a retry, and the deletion of one recording                       *)

Retry(r) ==
  /\ r \in tasked /\ issued.retries < MaxRetries
  /\ issued' = [issued EXCEPT !.retries = @ + 1]
  /\ status' = [status EXCEPT ![r] = "pending"]
  /\ retries' = [retries EXCEPT ![r] = 0]
  /\ due' = due \cup {r}
  /\ again' = IF r \in archived THEN again \cup {r} ELSE again
  /\ UNCHANGED <<row, tasked, expired, local, remote, scanVars, clean, deletion,
                 archived, discarded>>

\* _delete_recordings reads the row once; what it saw decides what is kept.
AskDelete(r) ==
  /\ deletion[r] = "none"
  /\ row[r] # "gone" /\ status[r] # "uploading"
  /\ ~(row[r] = "deleted" /\ status[r] = "success")
  /\ deletion' = [deletion EXCEPT ![r] =
                    IF status[r] = "success" THEN "keepRow" ELSE "dropRow"]
  /\ discarded' = discarded \cup {r}
  /\ UNCHANGED <<rowVars, timeVars, local, remote, scanVars, clean, issued,
                 archived, again>>

\* Players have been stopped; the file goes, unless the system refuses.
DeleteFile(r) ==
  /\ \/ /\ deletion[r] = "keepRow"
        /\ deletion' = [deletion EXCEPT ![r] = "keptRow"]
        /\ local' = local \ {r}
     \/ /\ deletion[r] = "dropRow"
        /\ deletion' = [deletion EXCEPT ![r] = "droppedRow"]
        /\ local' = local \ {r}
     \/ /\ deletion[r] \in {"keepRow", "dropRow"} /\ r \in local
        /\ deletion' = [deletion EXCEPT ![r] = "none"]
        /\ UNCHANGED local
  /\ UNCHANGED <<rowVars, timeVars, remote, scanVars, clean, issued,
                 historyVars>>

\* A row that is no longer there cannot be marked; it can be deleted twice.
DeleteCommit(r) ==
  /\ deletion[r] \in {"keptRow", "droppedRow"}
  /\ deletion' = [deletion EXCEPT ![r] = "none"]
  /\ \/ /\ deletion[r] = "keptRow"
        /\ row' = [row EXCEPT ![r] = IF @ = "gone" THEN "gone" ELSE "deleted"]
        /\ UNCHANGED tasked
     \/ /\ deletion[r] = "droppedRow"
        /\ row' = [row EXCEPT ![r] = "gone"]
        /\ tasked' = tasked \ {r}
  /\ UNCHANGED <<status, retries, timeVars, local, remote, scanVars, clean,
                 issued, historyVars>>

-----------------------------------------------------------------------------
(* Time, and the end of the process                                        *)

BackoffOver(r) ==
  /\ r \notin due /\ due' = due \cup {r}
  /\ UNCHANGED <<rowVars, expired, local, remote, scanVars, clean, deletion,
                 issued, historyVars>>

Expire(r) ==
  /\ r \notin expired /\ expired' = expired \cup {r}
  /\ UNCHANGED <<rowVars, due, local, remote, scanVars, clean, deletion, issued,
                 historyVars>>

\* Rows and files survive, tasks and sessions do not. start() resets nothing.
Crash ==
  /\ issued.crashes < MaxCrashes
  /\ issued' = [issued EXCEPT !.crashes = @ + 1]
  /\ scan' = [s \in Scanner |-> "idle"]
  /\ fresh' = [s \in Scanner |-> {}]
  /\ job' = [s \in Scanner |-> NoJob]
  /\ clean' = [k \in Cleaner |-> Rest]
  /\ deletion' = [r \in Recording |-> "none"]
  /\ UNCHANGED <<rowVars, timeVars, local, remote, historyVars>>

-----------------------------------------------------------------------------
JobStep(s, r) == Open(s, r) \/ Put(s, r) \/ Verify(s, r) \/ Succeed(s, r) \/ Fail(s, r)

ScanStep(s) ==
  \/ EnsureTasks(s) \/ SelectTasks(s) \/ EndScan(s)
  \/ \E r \in Recording : JobStep(s, r)

CleanStep(k) == StartClean(k) \/ EndClean(k) \/ \E r \in Recording : Unlink(k, r)

UserStep(r) == Retry(r) \/ AskDelete(r) \/ DeleteFile(r) \/ DeleteCommit(r)

Next ==
  \/ \E s \in Scanner : StartScan(s) \/ ScanStep(s)
  \/ \E k \in Cleaner : CleanStep(k)
  \/ SkipClean
  \/ \E r \in Recording : UserStep(r) \/ BackoffOver(r) \/ Expire(r)
  \/ Crash

(***************************************************************************)
(* The loop's task runs and its interval passes; HTTP calls have timeouts, *)
(* so an upload ends one way or the other; back-offs end. Nobody has to    *)
(* ask for anything, and no upload has to succeed.                         *)
(***************************************************************************)
Fairness ==
  /\ \A s \in Scanner : WF_vars(ScanStep(s))
  /\ WF_vars(StartScan(Loop))
  /\ WF_vars(CleanStep(Loop) \/ SkipClean)
  /\ \A r \in Recording : WF_vars(BackoffOver(r))

Spec == Init /\ [][Next]_vars
FairSpec == Spec /\ Fairness

-----------------------------------------------------------------------------
(* Properties                                                              *)

Playable(r) == status[r] = "success" /\ remote[r] = "whole"

\* Two uploads of one recording are the only danger: what was uploaded once
\* and is marked uploaded has a complete cloud copy, and a recording whose
\* file is gone can be played from the cloud, whatever cleaners, crashes and
\* failed uploads came together. A row that still says ready without a file
\* and without a cloud copy is left by a user's deletion cut short.
OnlyReuploadEndangers ==
  \A r \in Recording \ again :
    /\ status[r] = "success" => remote[r] = "whole"
    /\ row[r] = "deleted" => Playable(r)
    /\ r \notin local /\ row[r] = "ready" => Playable(r) \/ r \in discarded

\* No file is removed that was not once uploaded successfully and has come of
\* age, unless a user asked for it; stale selections do not change that.
RemovalsJustified ==
  \A r \in local \ local' : r \in discarded \/ (r \in archived /\ r \in expired)
RetentionRespected == [][RemovalsJustified]_vars

\* The loop outlives every failure of disk and network: what kills it takes
\* a user's scan or a user's deletion at the wrong moment.
LoopDiesOfUsersOnly ==
  scan[Loop] = "dead" => issued.scans > 0 \/ discarded # {}

\* A recording that waits for its upload is uploaded or given up on, as long
\* as the loop lives and the process is not restarted.
UploadsSettle ==
  \A r \in Recording :
    status[r] \in {"pending", "retry_wait"} /\ row[r] = "ready" ~>
      \/ status[r] \in {"success", "failed"} \/ row[r] = "gone"
      \/ scan[Loop] = "dead" \/ issued.crashes > 0

\* The docs' promise about a restart: an upload that was under way goes on.
InterruptedResume ==
  \A r \in Recording :
    status[r] = "uploading" /\ r \notin discarded ~>
      status[r] # "uploading" \/ r \in discarded
=============================================================================
