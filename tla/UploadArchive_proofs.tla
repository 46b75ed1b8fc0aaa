------------------------ MODULE UploadArchive_proofs ------------------------
(***************************************************************************)
(* What UploadArchive keeps for any set of recordings and of requests, any *)
(* concurrency and any number of retries and restarts: its types, that     *)
(* only a second upload endangers a cloud copy, that cleaning respects     *)
(* uploads and age, and that disk and network cannot end the upload loop.  *)
(***************************************************************************)
EXTENDS UploadArchive, TLAPS

\* Every step leaves every variable within its type.
LEMMA TypeStep == TypeOK /\ [Next]_vars => TypeOK'
<1> SUFFICES ASSUME TypeOK, [Next]_vars
             PROVE  TypeOK'
  OBVIOUS
<1> USE DEF TypeOK, rowVars, timeVars, scanVars, historyVars, Scanner, Cleaner
<1>1. ASSUME NEW s \in Scanner, StartScan(s)
      PROVE  TypeOK'
  BY <1>1, UploadAssumption DEF StartScan, Goto, Missing, Scan
<1>2. ASSUME NEW s \in Scanner, EnsureTasks(s)
      PROVE  TypeOK'
  BY <1>2 DEF EnsureTasks, Goto, Raise, Scan
<1>3. ASSUME NEW s \in Scanner, SelectTasks(s)
      PROVE  TypeOK'
  BY <1>3 DEF SelectTasks, Goto, Scan, Job
<1>4. ASSUME NEW s \in Scanner, EndScan(s)
      PROVE  TypeOK'
  BY <1>4 DEF EndScan, Goto, Scan
<1>5. ASSUME NEW s \in Scanner, NEW r \in Recording, JobStep(s, r)
      PROVE  TypeOK'
  <2>1. CASE Open(s, r)
    BY <2>1 DEF Open, SetJob, Job, Status
  <2>2. CASE Put(s, r)
    BY <2>2 DEF Put, SetJob, Job
  <2>3. CASE Verify(s, r)
    BY <2>3 DEF Verify, SetJob, Job
  <2>4. CASE Succeed(s, r)
    BY <2>4 DEF Succeed, SetJob, Job, Status
  <2>5. CASE Fail(s, r)
    BY <2>5 DEF Fail, SetJob, Job, Status, Verdict
  <2> QED
    BY <1>5, <2>1, <2>2, <2>3, <2>4, <2>5 DEF JobStep
<1>6. ASSUME NEW k \in Cleaner, StartClean(k)
      PROVE  TypeOK'
  BY <1>6 DEF StartClean, Cleanable
<1>7. ASSUME NEW k \in Cleaner, NEW r \in Recording, Unlink(k, r)
      PROVE  TypeOK'
  <2>1. clean' \in [Cleaner -> [busy : BOOLEAN, todo : SUBSET Recording,
                                marked : SUBSET Recording]]
    <3>1. clean[k] \in [busy : BOOLEAN, todo : SUBSET Recording,
                        marked : SUBSET Recording]
      OBVIOUS
    <3>2. PICK b \in BOOLEAN, T \in SUBSET Recording, M \in SUBSET Recording :
            clean' = [clean EXCEPT ![k] = [busy |-> b, todo |-> T, marked |-> M]]
      BY <1>7, <3>1 DEF Unlink
    <3> QED
      BY <3>2
  <2> QED
    BY <1>7, <2>1 DEF Unlink
<1>8. ASSUME NEW k \in Cleaner, EndClean(k)
      PROVE  TypeOK'
  BY <1>8 DEF EndClean, Goto, Raise, Rest, Scan
<1>9. CASE SkipClean
  BY <1>9 DEF SkipClean, Goto, Scan
<1>10. ASSUME NEW r \in Recording, UserStep(r)
       PROVE  TypeOK'
  BY <1>10 DEF UserStep, Retry, AskDelete, DeleteFile, DeleteCommit, Status
<1>11. ASSUME NEW r \in Recording, BackoffOver(r) \/ Expire(r)
       PROVE  TypeOK'
  BY <1>11 DEF BackoffOver, Expire
<1>12. CASE Crash
  BY <1>12, SMTT(30) DEF Crash, Rest, NoJob, Scan, Job
<1>13. CASE UNCHANGED vars
  BY <1>13 DEF vars
<1> QED
  BY <1>1, <1>2, <1>3, <1>4, <1>5, <1>6, <1>7, <1>8, <1>9, <1>10, <1>11,
     <1>12, <1>13 DEF Next, ScanStep, CleanStep

LEMMA TypeInit == Init => TypeOK
  BY DEF Init, TypeOK, NoJob, Rest, Scan, Job, Status

\* UploadArchive stays within its types, for every value of the constants.
THEOREM TypeCorrect == Spec => []TypeOK
  BY TypeInit, TypeStep, PTL DEF Spec

-----------------------------------------------------------------------------
(***************************************************************************)
(* The strengthening. A recording not handed out again is in the hands of  *)
(* one scanner at most, of none once it is archived, and its verified PUT  *)
(* is on the server. Everything that removes a file or marks a row works   *)
(* from what was once read; that it was archived when it was read is       *)
(* remembered by the selection, the row and the pending deletion.          *)
(***************************************************************************)
ArchivedStays ==
  \A r \in Recording \ again :
    r \in archived => Playable(r) /\ \A s \in Scanner : ~InFlight(s, r)

OneUploadEach ==
  \A r \in Recording \ again :
    /\ \A s, u \in Scanner : InFlight(s, r) /\ InFlight(u, r) => s = u
    /\ \A s \in Scanner : job[s][r] = "sent" => remote[r] = "whole"

SuccessArchived == \A r \in Recording : status[r] = "success" => r \in archived

SelectionsArchived ==
  \A k \in Cleaner : clean[k].todo \cup clean[k].marked \subseteq archived \cap expired

DeletionsAsked ==
  \A r \in Recording :
    /\ deletion[r] # "none" => r \in discarded
    /\ deletion[r] \in {"keepRow", "keptRow"} => r \in archived

RowsExplained ==
  \A r \in Recording :
    /\ row[r] = "deleted" => r \in archived
    /\ row[r] = "gone" => r \in discarded
    /\ r \notin local => r \in archived \cup discarded

\* Without a user's scan the loop is the only one to insert tasks.
LoopAlone ==
  /\ \A s \in Api : scan[s] # "idle" => issued.scans > 0
  /\ issued.scans = 0 => fresh[Loop] \cap tasked = {}
  /\ LoopDiesOfUsersOnly

IInv ==
  /\ ArchivedStays /\ OneUploadEach /\ SuccessArchived
  /\ SelectionsArchived /\ DeletionsAsked /\ RowsExplained /\ LoopAlone

LEMMA InvInit == Init => IInv
  BY DEF Init, IInv, ArchivedStays, OneUploadEach, SuccessArchived,
         SelectionsArchived, DeletionsAsked, RowsExplained, LoopAlone,
         LoopDiesOfUsersOnly, InFlight, NoJob, Rest, Scanner, Cleaner

-----------------------------------------------------------------------------
LEMMA InvStep == TypeOK /\ IInv /\ [Next]_vars => IInv'
<1> SUFFICES ASSUME TypeOK, IInv, [Next]_vars
             PROVE  IInv'
  OBVIOUS
<1> USE DEF TypeOK, rowVars, timeVars, scanVars, historyVars, Scanner, Cleaner,
            IInv, ArchivedStays, OneUploadEach, SuccessArchived,
            SelectionsArchived, DeletionsAsked, RowsExplained, LoopAlone,
            LoopDiesOfUsersOnly, InFlight, Playable
<1>1. ASSUME NEW s \in Scanner, StartScan(s)
      PROVE  IInv'
  BY <1>1, UploadAssumption DEF StartScan, Goto, Missing
<1>2. ASSUME NEW s \in Scanner, EnsureTasks(s)
      PROVE  IInv'
  BY <1>2, UploadAssumption DEF EnsureTasks, Goto, Raise
<1>3. ASSUME NEW s \in Scanner, SelectTasks(s)
      PROVE  IInv'
  BY <1>3 DEF SelectTasks, Goto
<1>4. ASSUME NEW s \in Scanner, EndScan(s)
      PROVE  IInv'
  BY <1>4 DEF EndScan, Goto
<1>5. ASSUME NEW s \in Scanner, NEW r \in Recording, JobStep(s, r)
      PROVE  IInv'
  <2>1. CASE Open(s, r)
    BY <2>1 DEF Open, SetJob
  <2>2. CASE Put(s, r)
    BY <2>2 DEF Put, SetJob
  <2>3. CASE Verify(s, r)
    BY <2>3 DEF Verify, SetJob
  <2>4. CASE Succeed(s, r)
    BY <2>4 DEF Succeed, SetJob
  <2>5. CASE Fail(s, r)
    BY <2>5 DEF Fail, SetJob, Verdict
  <2> QED
    BY <1>5, <2>1, <2>2, <2>3, <2>4, <2>5 DEF JobStep
<1>6. ASSUME NEW k \in Cleaner, StartClean(k)
      PROVE  IInv'
  BY <1>6 DEF StartClean, Cleanable
<1>7. ASSUME NEW k \in Cleaner, NEW r \in Recording, Unlink(k, r)
      PROVE  IInv'
  BY <1>7 DEF Unlink
<1>8. ASSUME NEW k \in Cleaner, EndClean(k)
      PROVE  IInv'
  BY <1>8, UploadAssumption DEF EndClean, Goto, Raise, Rest
<1>9. CASE SkipClean
  BY <1>9, UploadAssumption DEF SkipClean, Goto
<1>10. ASSUME NEW r \in Recording, UserStep(r)
       PROVE  IInv'
  <2>1. CASE Retry(r)
    BY <2>1 DEF Retry
  <2>2. CASE AskDelete(r)
    BY <2>2 DEF AskDelete
  <2>3. CASE DeleteFile(r)
    BY <2>3 DEF DeleteFile
  <2>4. CASE DeleteCommit(r)
    BY <2>4 DEF DeleteCommit
  <2> QED
    BY <1>10, <2>1, <2>2, <2>3, <2>4 DEF UserStep
<1>11. ASSUME NEW r \in Recording, BackoffOver(r) \/ Expire(r)
       PROVE  IInv'
  BY <1>11 DEF BackoffOver, Expire
<1>12. CASE Crash
  BY <1>12 DEF Crash, Rest, NoJob
<1>13. CASE UNCHANGED vars
  BY <1>13 DEF vars
<1> QED
  BY <1>1, <1>2, <1>3, <1>4, <1>5, <1>6, <1>7, <1>8, <1>9, <1>10, <1>11,
     <1>12, <1>13 DEF Next, ScanStep, CleanStep

LEMMA Invariance == Spec => [](TypeOK /\ IInv)
<1>1. Init => TypeOK /\ IInv
  BY TypeInit, InvInit
<1>2. TypeOK /\ IInv /\ [Next]_vars => (TypeOK /\ IInv)'
  BY TypeStep, InvStep
<1> QED
  BY <1>1, <1>2, PTL DEF Spec

\* What is marked uploaded has a whole cloud copy, and what has lost its file
\* can be played from the cloud or was deleted by a user, unless the same
\* recording was handed to an upload again: cleanup_uploaded_files, check_once
\* and _delete_recordings are safe on selections that went stale.
THEOREM OnlyReupload == Spec => []OnlyReuploadEndangers
<1>1. TypeOK /\ IInv => OnlyReuploadEndangers
  BY DEF TypeOK, IInv, ArchivedStays, SuccessArchived, RowsExplained, Playable,
         OnlyReuploadEndangers
<1> QED
  BY <1>1, Invariance, PTL

\* No step removes a file that was not archived and of age, or asked for.
THEOREM Retention == Spec => RetentionRespected
<1>1. TypeOK /\ IInv /\ [Next]_vars => [RemovalsJustified]_vars
  <2> SUFFICES ASSUME TypeOK, IInv, Next, NEW r \in local \ local'
               PROVE  r \in discarded \/ (r \in archived /\ r \in expired)
    BY DEF RemovalsJustified
  <2> USE DEF rowVars, timeVars, scanVars, historyVars
  <2>1. ASSUME NEW k \in Cleaner, NEW q \in Recording, Unlink(k, q)
        PROVE  r \in archived /\ r \in expired
    BY <2>1 DEF Unlink, IInv, SelectionsArchived, TypeOK
  <2>2. ASSUME NEW q \in Recording, DeleteFile(q)
        PROVE  r \in discarded
    BY <2>2 DEF DeleteFile, IInv, DeletionsAsked, TypeOK
  <2>3. \A s \in Scanner : ~StartScan(s) /\ ~ScanStep(s)
    BY ZenonT(60) DEF StartScan, ScanStep, EnsureTasks, SelectTasks, EndScan, JobStep,
           Open, Put, Verify, Succeed, Fail
  <2>4. \A k \in Cleaner : ~StartClean(k) /\ ~EndClean(k)
    BY DEF StartClean, EndClean
  <2>5. \A q \in Recording : ~Retry(q) /\ ~AskDelete(q) /\ ~DeleteCommit(q)
                             /\ ~BackoffOver(q) /\ ~Expire(q)
    BY DEF Retry, AskDelete, DeleteCommit, BackoffOver, Expire
  <2>6. ~SkipClean /\ ~Crash
    BY DEF SkipClean, Crash
  <2> QED
    BY <2>1, <2>2, <2>3, <2>4, <2>5, <2>6 DEF Next, CleanStep, UserStep
<1> QED
  BY <1>1, Invariance, PTL DEF Spec, RetentionRespected

\* The upload loop ends for a user's scan or deletion only: failed uploads,
\* cleaners and restarts leave it running.
THEOREM LoopLives == Spec => []LoopDiesOfUsersOnly
<1>1. IInv => LoopDiesOfUsersOnly
  BY DEF IInv, LoopAlone
<1> QED
  BY <1>1, Invariance, PTL
=============================================================================
