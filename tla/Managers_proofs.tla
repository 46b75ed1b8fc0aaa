---------------------------- MODULE Managers_proofs ---------------------------
(***************************************************************************)
(* What Managers states, for all values of its constants that its          *)
(* assumption allows: for each manager an inductive invariant and a lemma   *)
(* per action, and at the end the theorems.                                *)
(***************************************************************************)
EXTENDS Managers, TLAPS, FiniteSetTheorems, WellFoundedInduction, SequenceTheorems
-----------------------------------------------------------------------------
(* The largest of finitely many numbers, and the one after it.             *)
LEMMA LeastNumber ==
  ASSUME NEW T, T \subseteq Nat, T # {}
  PROVE  \E x \in T : \A y \in T : x <= y
<1> DEFINE less == {p \in Nat \X Nat : p[1] < p[2]}
<1>1. IsWellFoundedOn(less, Nat)
  BY NatLessThanWellFounded DEF OpToRel
<1>2. PICK x \in T : \A y \in T : <<y, x>> \notin less
  <2> HIDE DEF less
  <2> QED BY <1>1, WFMin
<1>3. ASSUME NEW y \in T
      PROVE  x <= y
  <2>1. <<y, x>> \in Nat \X Nat /\ <<y, x>>[1] = y /\ <<y, x>>[2] = x
    OBVIOUS
  <2>2. ~(y < x)
    BY <1>2, <2>1
  <2> QED BY <2>2
<1> QED BY <1>3

\* How many of S are below n.
Below(S, n) == {k \in S : k < n}

LEMMA BelowGrows ==
  ASSUME NEW S \in SUBSET Nat, IsFiniteSet(S), NEW m \in S, NEW n \in S, m < n
  PROVE  /\ Cardinality(Below(S, m)) \in Nat /\ Cardinality(Below(S, n)) \in Nat
         /\ Cardinality(Below(S, m)) < Cardinality(Below(S, n))
<1>1. IsFiniteSet(Below(S, m)) /\ IsFiniteSet(Below(S, n))
  BY FS_Subset DEF Below
<1>0. \A k \in S : k \in Nat
  OBVIOUS
<1>2. Below(S, m) \cup {m} \subseteq Below(S, n) /\ m \notin Below(S, m)
  <2>1. \A k \in S : k < m => k < n
    BY <1>0
  <2>2. ~(m < m)
    BY <1>0
  <2> QED BY <2>1, <2>2 DEF Below
<1>3. /\ IsFiniteSet(Below(S, m) \cup {m})
      /\ Cardinality(Below(S, m) \cup {m}) = Cardinality(Below(S, m)) + 1
  BY <1>1, <1>2, FS_AddElement
<1>4. Cardinality(Below(S, m) \cup {m}) <= Cardinality(Below(S, n))
  BY <1>1, <1>2, FS_Subset
<1> QED BY <1>1, <1>3, <1>4, FS_CardinalityType

LEMMA Largest ==
  ASSUME NEW S \in SUBSET Nat, IsFiniteSet(S), S # {}
  PROVE  \E m \in S : \A n \in S : n <= m
<1> DEFINE Rest(m) == Cardinality(S) - Cardinality(Below(S, m))
           All == {Rest(m) : m \in S}
<1>1. ASSUME NEW m \in S
      PROVE  Rest(m) \in Nat
  <2>1. Below(S, m) \subseteq S
    BY DEF Below
  <2>2. IsFiniteSet(Below(S, m)) /\ Cardinality(Below(S, m)) <= Cardinality(S)
    BY <2>1, FS_Subset
  <2> QED BY <2>2, FS_CardinalityType
<1>2. All \in SUBSET Nat /\ All # {}
  BY <1>1
<1>3. PICK least \in All : \A n \in All : least <= n
  BY <1>2, LeastNumber
<1>4. PICK m \in S : least = Rest(m)
  OBVIOUS
<1>5. ASSUME NEW n \in S, m < n
      PROVE  FALSE
  <2>1. Rest(m) <= Rest(n)
    BY <1>3, <1>4
  <2>2. /\ Cardinality(Below(S, m)) \in Nat /\ Cardinality(Below(S, n)) \in Nat
        /\ Cardinality(Below(S, m)) < Cardinality(Below(S, n))
    BY <1>5, BelowGrows
  <2>3. Cardinality(S) \in Nat
    BY FS_CardinalityType
  <2> QED BY <2>1, <2>2, <2>3
<1> QED BY <1>5

LEMMA NextIsFree ==
  ASSUME NEW S \in SUBSET Jobs
  PROVE  Export!NextId(S) \notin S
<1>1. CASE S = {}
  BY <1>1 DEF Export!NextId
<1>2. CASE S # {}
  <2>1. S \in SUBSET Nat /\ IsFiniteSet(S)
    BY ManagersAssumption, FS_Subset
  <2>2. \E m \in S : \A n \in S : n <= m
    BY <1>2, <2>1, Largest
  <2> DEFINE last == CHOOSE m \in S : \A n \in S : n <= m
  <2>3. last \in S /\ \A n \in S : n <= last
    BY <2>2
  <2>4. Export!NextId(S) = 1 + last
    BY <1>2 DEF Export!NextId
  <2> HIDE DEF last
  <2> QED BY <2>1, <2>3, <2>4
<1> QED BY <1>1, <1>2

\* What _recover_jobs puts in the queue: the pending jobs in the order of their ids.
LEMMA Ranked ==
  ASSUME NEW S \in SUBSET Nat, IsFiniteSet(S), NEW i \in 1..Cardinality(S)
  PROVE  \E j \in S : Cardinality(Below(S, j)) = i - 1
<1> DEFINE Missing == {n \in 1..Cardinality(S) : ~\E j \in S : Cardinality(Below(S, j)) = n - 1}
<1> SUFFICES ASSUME Missing # {}
             PROVE  FALSE
  OBVIOUS
<1>0. Cardinality(S) \in Nat
  BY FS_CardinalityType
<1>a. \A k \in S : k \in Nat
  OBVIOUS
<1>1. Missing \in SUBSET Nat
  BY <1>0
<1>2. PICK n \in Missing : \A k \in Missing : n <= k
  BY <1>1, LeastNumber
<1>3. CASE n = 1
  <2>1. S # {}
    BY <1>0, <1>2, FS_EmptySet
  <2>2. PICK j \in S : \A k \in S : j <= k
    BY <2>1, LeastNumber
  <2>3. Below(S, j) = {}
    <3>1. \A k \in S : ~(k < j)
      BY <1>a, <2>2
    <3> QED BY <3>1 DEF Below
  <2> QED BY <1>2, <1>3, <2>3, FS_EmptySet
<1>4. CASE n # 1
  <2>1. n - 1 \in 1..Cardinality(S) /\ n - 1 \notin Missing
    BY <1>0, <1>2, <1>4
  <2>2. PICK j \in S : Cardinality(Below(S, j)) = n - 2
    BY <1>0, <2>1
  <2> DEFINE upTo == Below(S, j) \cup {j}
             above == {k \in S : k > j}
  <2>3. IsFiniteSet(upTo) /\ Cardinality(upTo) = n - 1
    <3>1. IsFiniteSet(Below(S, j)) /\ j \notin Below(S, j)
      BY FS_Subset DEF Below
    <3> QED BY <1>0, <2>1, <2>2, <3>1, FS_AddElement
  <2>4. above # {}
    <3> SUFFICES ASSUME above = {}
                 PROVE  FALSE
      OBVIOUS
    <3>0. \A k \in S : k < j \/ k = j
      BY <1>a
    <3>1. upTo = S
      BY <3>0 DEF Below
    <3> QED BY <1>0, <1>2, <2>3, <3>1
  <2>5. PICK m \in above : \A k \in above : m <= k
    BY <2>4, LeastNumber
  <2>6. Below(S, m) = upTo
    <3>1. \A k \in S : (k < m) <=> (k < j \/ k = j)
      BY <1>a, <2>5
    <3> QED BY <3>1 DEF Below
  <2> QED BY <1>0, <1>2, <2>3, <2>5, <2>6
<1> QED BY <1>3, <1>4
-----------------------------------------------------------------------------
(* RecordingExport                                                         *)
\* The worker between reading a job and leaving it, and while the job's
\* directory is its own.
Carrying == {"begin", "giveUp", "givingUp", "render", "progress", "saving", "pack",
             "publish", "publishing", "fail", "failing"}
Making == {"giveUp", "givingUp", "render", "progress", "saving", "pack", "publish",
           "publishing"}
Mine == <<run.camera, activeJob>>

\* The worker's locals.
WorkerSane ==
  /\ workerAt \in {"idle", "clean", "expire", "dead"} => activeJob = 0 /\ run = Export!NoRun
  /\ workerAt = "open" => run = Export!NoRun
  /\ workerAt \in Carrying \cup {"open"} => activeJob \in Jobs
  /\ workerAt \in Carrying => run.camera \in Cameras
  /\ workerAt = "close" => run = Export!NoRun \/ (activeJob \in Jobs /\ run.camera \in Cameras)
  /\ workerAt = "render" => run.groups > 0
  /\ workerAt \in Making =>
       /\ disk[Mine].request = run.request
       /\ disk[Mine].stage = IF workerAt \in {"publish", "publishing"} THEN "final" ELSE "work"

\* The job carried is not finished and, unless its id was given again, is the
\* one that was read.
CarriedSane ==
  workerAt \in Carrying =>
    /\ job[activeJob].status \in {"none", "pending", "processing"}
    /\ Export!Exists(activeJob) /\ activeJob \notin reused =>
         run.camera = job[activeJob].camera /\ run.request = job[activeJob].request

\* Of what is published: whose it is, where it is and what it shows.
PublishedSane ==
  /\ \A a \in artifacts :
       /\ a.directory[2] = a.job /\ job[a.job].status \in {"ready", "expired"}
       /\ a.job \notin reused =>
            /\ a.directory = Export!JobDirectory(a.job)
            /\ job[a.job].status = "ready" /\ disk[a.directory].stage = "final" =>
                 disk[a.directory].request = job[a.job].request
  /\ \A j \in Jobs : job[j].status = "ready" =>
       \E a \in artifacts : a.job = j /\ (j \notin due => disk[a.directory].stage = "final")
  /\ \A j \in due : job[j].status = "ready"

\* What cleanup_expired has selected lost its directory, and its row only with
\* its camera.
ExpiringSane ==
  /\ workerAt # "expire" => expiring = {}
  /\ \A j \in expiring \ reused : Export!Exists(j) =>
       disk[Export!JobDirectory(j)].stage = "none"
  /\ deletions = 0 => \A j \in expiring : Export!Exists(j)
  /\ Export!DiesOfDeletionOnly

\* Why a directory is there that is not the worker's.
Explained(d) ==
  \/ d \in littered \/ d[2] \in reused
  \/ job[d[2]].status = "ready" /\ [job |-> d[2], directory |-> d] \in artifacts
LitterSane ==
  \A d \in Export!Directory :
    disk[d].stage # "none" => Explained(d) \/ (workerAt \in Making /\ d = Mine)

ExportInv ==
  /\ Export!TypeOK
  /\ WorkerSane /\ CarriedSane /\ PublishedSane /\ ExpiringSane /\ LitterSane

LEMMA ExportNumbers ==
  /\ {MaxPosts, MaxGroups, MaxDeletions, MaxRestarts} \subseteq Nat
  /\ Cameras \subseteq Nat \ {0} /\ Jobs \subseteq Nat \ {0} /\ IsFiniteSet(Jobs)
BY ManagersAssumption

LEMMA ExportTypes ==
  ASSUME ExportInv
  PROVE  /\ \A j \in Jobs : /\ job[j].status \in Export!Status \cup {"none"}
                            /\ job[j].camera \in Cameras \cup {0} /\ job[j].request \in Export!Request
                            /\ Export!Exists(j) => job[j].camera \in Cameras
                            /\ job[j] \in Export!Row
         /\ \A d \in Export!Directory : /\ disk[d] \in [stage : {"none", "work", "final"}, request : Export!Request]
                                        /\ d[1] \in Cameras /\ d[2] \in Jobs /\ d = <<d[1], d[2]>>
         /\ workerAt \in Carrying => Mine \in Export!Directory /\ Mine[1] = run.camera /\ Mine[2] = activeJob
         /\ \A a \in artifacts : a.job \in Jobs /\ a.directory \in Export!Directory
<1>1. \A j \in Jobs : job[j] \in Export!Row
  BY DEF ExportInv, Export!TypeOK
<1>2. \A r \in Export!Row : /\ r.status \in Export!Status \cup {"none"}
                            /\ r.camera \in Cameras \cup {0} /\ r.request \in Export!Request
                            /\ r.status # "none" => r.camera \in Cameras
  BY ExportNumbers DEF Export!Row, Export!NoRow, Export!Status, Export!Request
<1>3. \A d \in Export!Directory : d[1] \in Cameras /\ d[2] \in Jobs /\ d = <<d[1], d[2]>>
  BY DEF Export!Directory
<1>4. \A d \in Export!Directory : disk[d] \in [stage : {"none", "work", "final"}, request : Export!Request]
  BY DEF ExportInv, Export!TypeOK
<1>5. workerAt \in Carrying => Mine \in Export!Directory /\ Mine[1] = run.camera /\ Mine[2] = activeJob
  BY DEF ExportInv, WorkerSane, Mine, Export!Directory
<1>6. \A a \in artifacts : a.job \in Jobs /\ a.directory \in Export!Directory
  BY DEF ExportInv, Export!TypeOK
<1> QED BY <1>1, <1>2, <1>3, <1>4, <1>5, <1>6 DEF Export!Exists

\* What an assignment to one field of one row, or to one directory, leaves.
LEMMA StatusSet ==
  ASSUME ExportInv, NEW k \in Jobs, Export!Exists(k), NEW x \in Export!Status,
         job' = [job EXCEPT ![k].status = x]
  PROVE  /\ job' \in [Jobs -> Export!Row]
         /\ \A i \in Jobs : /\ job'[i].status = IF i = k THEN x ELSE job[i].status
                            /\ job'[i].camera = job[i].camera /\ job'[i].request = job[i].request
<1>1. job \in [Jobs -> Export!Row] /\ job[k] \in [status : Export!Status, camera : Cameras, request : Export!Request]
  BY DEF ExportInv, Export!TypeOK, Export!Row, Export!NoRow, Export!Exists
<1>2. [job[k] EXCEPT !.status = x] \in [status : Export!Status, camera : Cameras, request : Export!Request]
  BY <1>1
<1>3. /\ [job[k] EXCEPT !.status = x].status = x /\ [job[k] EXCEPT !.status = x].camera = job[k].camera
      /\ [job[k] EXCEPT !.status = x].request = job[k].request
  BY <1>1
<1> DEFINE r == [job[k] EXCEPT !.status = x]
<1>4. job' = [job EXCEPT ![k] = r] /\ r \in Export!Row
  BY <1>2 DEF Export!Row
<1> HIDE DEF r
<1> QED BY <1>1, <1>3, <1>4 DEF r

LEMMA DiskSet ==
  ASSUME ExportInv, NEW e \in Export!Directory,
         NEW v \in [stage : {"none", "work", "final"}, request : Export!Request],
         disk' = [disk EXCEPT ![e] = v]
  PROVE  /\ disk' \in [Export!Directory -> [stage : {"none", "work", "final"}, request : Export!Request]]
         /\ \A d \in Export!Directory : disk'[d] = IF d = e THEN v ELSE disk[d]
BY DEF ExportInv, Export!TypeOK

LEMMA EmptyDirectory ==
  /\ Export!Empty \in [stage : {"none", "work", "final"}, request : Export!Request]
  /\ Export!Empty.stage = "none"
BY ExportNumbers DEF Export!Empty, Export!Request

\* What is published is not the job being carried.
LEMMA PublishedElsewhere ==
  ASSUME ExportInv, workerAt \in Carrying, NEW a \in artifacts
  PROVE  /\ a.job \in Jobs /\ a.job # activeJob /\ a.directory[2] = a.job
         /\ a.directory \in Export!Directory /\ a.directory # Mine
<1>1. a.job \in Jobs /\ a.directory \in Export!Directory
  BY ExportTypes
<1>2. a.directory[2] = a.job /\ job[a.job].status \in {"ready", "expired"}
  BY DEF ExportInv, PublishedSane
<1>3. job[activeJob].status \in {"none", "pending", "processing"}
  BY DEF ExportInv, CarriedSane
<1>4. Mine[2] = activeJob
  BY ExportTypes
<1> QED BY <1>1, <1>2, <1>3, <1>4

\* The worker goes on without a change of rows or files.
LEMMA WorkerGoes ==
  ASSUME ExportInv, workerAt \in Carrying, workerAt' \in Carrying \cup {"close"},
         UNCHANGED <<job, artifacts, due, disk, littered>>,
         UNCHANGED <<footage, queue, inQueue, activeJob, expiring, posts, deletions,
                     restarts, reused>>,
         run' \in [camera : Cameras \cup {0}, request : Export!Request, groups : 0..MaxGroups],
         run'.camera = run.camera, run'.request = run.request,
         workerAt' = "render" => run'.groups > 0,
         workerAt \in Making <=> workerAt' \in Making,
         workerAt' \in {"publish", "publishing"} <=> workerAt \in {"publish", "publishing"}
  PROVE  ExportInv'
<1>a. /\ activeJob \in Jobs /\ run.camera \in Cameras
      /\ Mine \in Export!Directory /\ Mine[1] = run.camera /\ Mine[2] = activeJob
      /\ job[activeJob].status \in {"none", "pending", "processing"}
      /\ workerAt \in Carrying
  BY ExportTypes DEF ExportInv, WorkerSane, CarriedSane, Carrying
<1>1. Export!TypeOK'
  BY <1>a, ExportTypes, ExportNumbers DEF ExportInv, Export!TypeOK, Export!Point, Carrying
<1>2. WorkerSane'
  BY <1>a, ExportTypes, ExportNumbers DEF ExportInv, WorkerSane, Carrying, Making, Export!NoRun,
     Mine
<1>3. CarriedSane'
  BY <1>a, ExportTypes, ExportNumbers DEF ExportInv, CarriedSane, Carrying, Making, Export!Exists
<1>4. PublishedSane'
  BY <1>a, ExportTypes, ExportNumbers DEF ExportInv, CarriedSane, PublishedSane, Carrying, Making,
     Export!Exists, Export!JobDirectory, Mine
<1>5. ExpiringSane'
  BY <1>a, ExportTypes, ExportNumbers DEF ExportInv, WorkerSane, ExpiringSane, Carrying, Making,
     Export!Exists, Export!JobDirectory, Export!DiesOfDeletionOnly
<1>6. LitterSane'
  BY <1>a, ExportTypes, ExportNumbers DEF ExportInv, CarriedSane, PublishedSane, LitterSane,
     Explained, Carrying, Making, Export!Exists, Mine
<1> QED BY <1>1, <1>2, <1>3, <1>4, <1>5, <1>6 DEF ExportInv

\* It removes its directory and leaves the job, or goes on to mark it.
LEMMA WorkerDrops ==
  ASSUME ExportInv, workerAt \in Carrying, workerAt' \in {"fail", "close"},
         disk' = [disk EXCEPT ![Mine] = Export!Empty], littered' = littered \ {Mine},
         UNCHANGED <<job, artifacts, due, run>>,
         UNCHANGED <<footage, queue, inQueue, activeJob, expiring, posts, deletions,
                     restarts, reused>>
  PROVE  ExportInv'
<1>a. /\ activeJob \in Jobs /\ run.camera \in Cameras
      /\ Mine \in Export!Directory /\ Mine[1] = run.camera /\ Mine[2] = activeJob
      /\ job[activeJob].status \in {"none", "pending", "processing"}
      /\ workerAt \in Carrying
  BY ExportTypes DEF ExportInv, WorkerSane, CarriedSane, Carrying
<1>b. /\ disk' \in [Export!Directory -> [stage : {"none", "work", "final"}, request : Export!Request]]
      /\ \A d \in Export!Directory : disk'[d] = IF d = Mine THEN Export!Empty ELSE disk[d]
  BY <1>a, DiskSet, EmptyDirectory
<1>1. Export!TypeOK'
  BY <1>a, <1>b, EmptyDirectory, ExportTypes, ExportNumbers DEF ExportInv, Export!TypeOK,
     Export!Point, Carrying
<1>2. WorkerSane'
  BY <1>a, <1>b, EmptyDirectory, ExportTypes, ExportNumbers DEF ExportInv, WorkerSane, Carrying,
     Making, Export!NoRun, Mine
<1>3. CarriedSane'
  BY <1>a, <1>b, EmptyDirectory, ExportTypes, ExportNumbers DEF ExportInv, CarriedSane, Carrying,
     Making, Export!Exists
<1>4. PublishedSane'
  BY <1>a, <1>b, EmptyDirectory, ExportTypes, ExportNumbers DEF ExportInv, CarriedSane,
     PublishedSane, Carrying, Making, Export!Exists, Export!JobDirectory, Mine
<1>5. ExpiringSane'
  BY <1>a, <1>b, EmptyDirectory, ExportTypes, ExportNumbers DEF ExportInv, WorkerSane,
     ExpiringSane, Carrying, Making, Export!Exists, Export!JobDirectory, Export!DiesOfDeletionOnly
<1>6. LitterSane'
  BY <1>a, <1>b, EmptyDirectory, ExportTypes, ExportNumbers DEF ExportInv, CarriedSane,
     PublishedSane, LitterSane, Explained, Carrying, Making, Export!Exists, Mine
<1> QED BY <1>1, <1>2, <1>3, <1>4, <1>5, <1>6 DEF ExportInv

\* The job is marked as failed.
LEMMA WorkerFails ==
  ASSUME ExportInv, workerAt \in Carrying, workerAt' = "close", Export!Exists(activeJob),
         job' = [job EXCEPT ![activeJob].status = "failed"],
         \/ disk' = [disk EXCEPT ![Mine] = Export!Empty] /\ littered' = littered \ {Mine}
         \/ UNCHANGED <<disk, littered>> /\ workerAt \notin Making,
         UNCHANGED <<artifacts, due, run>>,
         UNCHANGED <<footage, queue, inQueue, activeJob, expiring, posts, deletions,
                     restarts, reused>>
  PROVE  ExportInv'
<1>a. /\ activeJob \in Jobs /\ run.camera \in Cameras
      /\ Mine \in Export!Directory /\ Mine[1] = run.camera /\ Mine[2] = activeJob
      /\ job[activeJob].status \in {"none", "pending", "processing"}
      /\ workerAt \in Carrying
  BY ExportTypes DEF ExportInv, WorkerSane, CarriedSane, Carrying
<1>b. /\ disk' \in [Export!Directory -> [stage : {"none", "work", "final"}, request : Export!Request]]
      /\ \A d \in Export!Directory : disk'[d] = disk[d] \/ (d = Mine /\ disk'[d] = Export!Empty)
      /\ workerAt \in Making => disk'[Mine] = Export!Empty
      /\ littered' \subseteq littered
      /\ \A d \in littered : d \in littered' \/ (d = Mine /\ disk'[d] = Export!Empty)
  <2>1. CASE disk' = [disk EXCEPT ![Mine] = Export!Empty] /\ littered' = littered \ {Mine}
    <3>1. /\ disk' \in [Export!Directory -> [stage : {"none", "work", "final"}, request : Export!Request]]
          /\ \A d \in Export!Directory : disk'[d] = IF d = Mine THEN Export!Empty ELSE disk[d]
      BY <1>a, <2>1, DiskSet, EmptyDirectory
    <3>2. \A d \in littered : d \in littered' \/ d = Mine
      BY <2>1
    <3> QED BY <1>a, <2>1, <3>1, <3>2
  <2>2. CASE UNCHANGED <<disk, littered>> /\ workerAt \notin Making
    BY <2>2 DEF ExportInv, Export!TypeOK
  <2> QED BY <2>1, <2>2
<1>c. /\ job' \in [Jobs -> Export!Row]
      /\ \A i \in Jobs : /\ job'[i].status = IF i = activeJob THEN "failed" ELSE job[i].status
                         /\ job'[i].camera = job[i].camera /\ job'[i].request = job[i].request
  BY <1>a, StatusSet DEF Export!Status
<1>1. Export!TypeOK'
  BY <1>a, <1>b, <1>c, EmptyDirectory, ExportTypes, ExportNumbers DEF ExportInv, Export!TypeOK,
     Export!Point, Carrying
<1>2. WorkerSane'
  BY <1>a, <1>b, <1>c, EmptyDirectory, ExportTypes, ExportNumbers DEF ExportInv, WorkerSane,
     Carrying, Making, Export!NoRun, Mine
<1>3. CarriedSane'
  BY <1>a, <1>b, <1>c, EmptyDirectory, ExportTypes, ExportNumbers DEF ExportInv, CarriedSane,
     Carrying, Making, Export!Exists
<1>4. PublishedSane'
  <2>1. ASSUME NEW a \in artifacts'
        PROVE  /\ a.directory[2] = a.job /\ job'[a.job].status \in {"ready", "expired"}
               /\ a.job \notin reused' =>
                    /\ a.directory = Export!JobDirectory(a.job)'
                    /\ job'[a.job].status = "ready" /\ disk'[a.directory].stage = "final" =>
                         disk'[a.directory].request = job'[a.job].request
    BY <1>a, <1>b, <1>c, EmptyDirectory, ExportTypes DEF ExportInv, PublishedSane, CarriedSane,
       Export!JobDirectory, Export!Exists
  <2>2. ASSUME NEW j \in Jobs, job'[j].status = "ready"
        PROVE  \E a \in artifacts' : a.job = j /\ (j \notin due' => disk'[a.directory].stage = "final")
    BY <1>a, <1>b, <1>c, EmptyDirectory, <2>2, ExportTypes DEF ExportInv, PublishedSane, CarriedSane
  <2>3. ASSUME NEW j \in due'
        PROVE  job'[j].status = "ready"
    BY <1>a, <1>b, <1>c, EmptyDirectory, <2>3, ExportTypes DEF ExportInv, Export!TypeOK,
       PublishedSane, CarriedSane
  <2> QED BY <2>1, <2>2, <2>3 DEF PublishedSane, Export!JobDirectory
<1>5. ExpiringSane'
  BY <1>a, <1>b, <1>c, EmptyDirectory, ExportTypes, ExportNumbers DEF ExportInv, WorkerSane,
     ExpiringSane, Carrying, Making, Export!Exists, Export!JobDirectory, Export!DiesOfDeletionOnly
<1>6. LitterSane'
  <2> SUFFICES ASSUME NEW d \in Export!Directory, disk'[d].stage # "none"
               PROVE  Explained(d)'
    BY DEF LitterSane
  <2>1. disk[d].stage # "none" /\ ~(workerAt \in Making /\ d = Mine)
    BY <1>a, <1>b, EmptyDirectory
  <2>2. Explained(d)
    BY <2>1 DEF ExportInv, LitterSane
  <2>3. d \in littered => d \in littered'
    BY <1>b, EmptyDirectory
  <2>4. job[d[2]].status = "ready" => job'[d[2]].status = "ready"
    BY <1>a, <1>c, ExportTypes
  <2> QED BY <2>2, <2>3, <2>4 DEF Explained
<1> QED BY <1>1, <1>2, <1>3, <1>4, <1>5, <1>6 DEF ExportInv

\* Where the worker is tells what it may do next.
LEMMA RunTyped == ExportInv => run \in [camera : Cameras \cup {0}, request : Export!Request, groups : 0..MaxGroups]
BY DEF ExportInv, Export!TypeOK

LEMMA ExportRender ==
  ASSUME ExportInv, Export!Render
  PROVE  ExportInv'
<1>0. /\ workerAt = "render" /\ UNCHANGED <<job, artifacts, due>> /\ run.groups > 0
      /\ UNCHANGED <<footage, queue, inQueue, activeJob, expiring, posts, deletions,
                     restarts, reused>>
  BY DEF Export!Render, Export!rows, Export!loop, Export!counts, Export!Outside, Export!Still,
     Export!Goto, ExportInv, WorkerSane
<1>1. CASE workerAt' = "progress" /\ run' = [run EXCEPT !.groups = @ - 1] /\ UNCHANGED <<disk, littered>>
  <2>1. run' \in [camera : Cameras \cup {0}, request : Export!Request, groups : 0..MaxGroups] /\ run'.camera = run.camera /\ run'.request = run.request
    BY <1>0, <1>1, RunTyped, ExportNumbers
  <2> QED BY <1>0, <1>1, <2>1, WorkerGoes DEF Carrying, Making
<1>2. CASE Export!Abort /\ run' = run
  BY <1>0, <1>2, WorkerDrops DEF Carrying, Export!Abort, Export!Remove, Export!Goto, Export!Here,
     Mine
<1> QED BY <1>1, <1>2 DEF Export!Render, Export!Goto

LEMMA ExportProgress ==
  ASSUME ExportInv, Export!Progress
  PROVE  ExportInv'
<1>0. /\ workerAt \in {"progress", "saving"} /\ UNCHANGED <<job, artifacts, due, run>>
      /\ UNCHANGED <<footage, queue, inQueue, activeJob, expiring, posts, deletions,
                     restarts, reused>>
  BY DEF Export!Progress, Export!rows, Export!loop, Export!counts, Export!Outside, Export!Still,
     Export!Goto
<1>1. CASE workerAt' \in {"saving", Export!AfterGroup} /\ UNCHANGED <<disk, littered>>
  <2>1. Export!AfterGroup \in {"pack", "render"} /\ (Export!AfterGroup = "render" => run.groups > 0)
    BY RunTyped, ExportNumbers DEF Export!AfterGroup
  <2> QED BY <1>0, <1>1, <2>1, RunTyped, WorkerGoes DEF Carrying, Making
<1>2. CASE Export!Abort
  BY <1>0, <1>2, WorkerDrops DEF Carrying, Export!Abort, Export!Remove, Export!Goto, Export!Here,
     Mine
<1> QED BY <1>1, <1>2 DEF Export!Progress, Export!Goto

LEMMA ExportFail ==
  ASSUME ExportInv, Export!Fail
  PROVE  ExportInv'
<1>0. /\ workerAt \in {"fail", "failing"} /\ UNCHANGED <<artifacts, due, run, disk, littered>>
      /\ UNCHANGED <<footage, queue, inQueue, activeJob, expiring, posts, deletions,
                     restarts, reused>> /\ workerAt' \in {"failing", "close"}
  BY DEF Export!Fail, Export!rows, Export!loop, Export!counts, Export!Outside, Export!Still,
     Export!Goto
<1>1. CASE UNCHANGED job
  BY <1>0, <1>1, RunTyped, WorkerGoes DEF Carrying, Making
<1>2. CASE /\ workerAt' = "close" /\ Export!Exists(activeJob)
           /\ job' = [job EXCEPT ![activeJob].status = "failed"]
  BY <1>0, <1>2, WorkerFails DEF Carrying, Making
<1> QED BY <1>1, <1>2 DEF Export!Fail, Export!Goto

LEMMA ExportGiveUp ==
  ASSUME ExportInv, Export!GiveUp
  PROVE  ExportInv'
<1>0. /\ workerAt \in {"giveUp", "givingUp"} /\ UNCHANGED <<artifacts, due, run>>
      /\ UNCHANGED <<footage, queue, inQueue, activeJob, expiring, posts, deletions,
                     restarts, reused>>
  BY DEF Export!GiveUp, Export!rows, Export!loop, Export!counts, Export!Outside, Export!Still,
     Export!Goto
<1>1. CASE workerAt' = "givingUp" /\ UNCHANGED <<job, disk, littered>>
  BY <1>0, <1>1, RunTyped, WorkerGoes DEF Carrying, Making
<1>2. CASE Export!Remove(Export!Here) /\ workerAt' = "close" /\ UNCHANGED job
  BY <1>0, <1>2, WorkerDrops DEF Carrying, Export!Remove, Export!Here, Mine
<1>3. CASE /\ Export!Remove(Export!Here) /\ workerAt' = "close" /\ Export!Exists(activeJob)
           /\ job' = [job EXCEPT ![activeJob].status = "failed"]
  BY <1>0, <1>3, WorkerFails DEF Carrying, Export!Remove, Export!Here, Mine
<1>4. CASE /\ littered' = littered \cup {Export!Here} /\ workerAt' = "close"
           /\ UNCHANGED <<job, disk>>
  <2>a. /\ activeJob \in Jobs /\ run.camera \in Cameras
        /\ Mine \in Export!Directory /\ Mine[1] = run.camera /\ Mine[2] = activeJob
        /\ job[activeJob].status \in {"none", "pending", "processing"}
    BY <1>0, ExportTypes DEF ExportInv, WorkerSane, CarriedSane, Carrying
  <2>b. Export!Here = Mine
    BY DEF Export!Here, Mine
  <2>1. Export!TypeOK'
    BY <1>0, <1>4, <2>a, <2>b, ExportTypes, ExportNumbers DEF ExportInv, Export!TypeOK,
       Export!Point, Carrying
  <2>2. WorkerSane'
    BY <1>0, <1>4, <2>a, <2>b, ExportTypes, ExportNumbers DEF ExportInv, WorkerSane, Carrying,
       Making, Export!NoRun, Mine
  <2>3. CarriedSane'
    BY <1>0, <1>4, <2>a, <2>b, ExportTypes, ExportNumbers DEF ExportInv, CarriedSane, Carrying,
       Making, Export!Exists
  <2>4. PublishedSane'
    BY <1>0, <1>4, <2>a, <2>b, ExportTypes, ExportNumbers DEF ExportInv, CarriedSane,
       PublishedSane, Carrying, Making, Export!Exists, Export!JobDirectory, Mine
  <2>5. ExpiringSane'
    BY <1>0, <1>4, <2>a, <2>b, ExportTypes, ExportNumbers DEF ExportInv, WorkerSane, ExpiringSane,
       Carrying, Making, Export!Exists, Export!JobDirectory, Export!DiesOfDeletionOnly
  <2>6. LitterSane'
    BY <1>0, <1>4, <2>a, <2>b, ExportTypes, ExportNumbers DEF ExportInv, CarriedSane,
       PublishedSane, LitterSane, Explained, Carrying, Making, Export!Exists, Mine
  <2> QED BY <2>1, <2>2, <2>3, <2>4, <2>5, <2>6 DEF ExportInv
<1> QED BY <1>1, <1>2, <1>3, <1>4 DEF Export!GiveUp, Export!Goto

LEMMA ExportBegin ==
  ASSUME ExportInv, Export!Begin
  PROVE  ExportInv'
<1>0. /\ workerAt = "begin" /\ UNCHANGED <<artifacts, due, run>>
      /\ UNCHANGED <<footage, queue, inQueue, activeJob, expiring, posts, deletions,
                     restarts, reused>>
  BY DEF Export!Begin, Export!rows, Export!loop, Export!counts, Export!Outside, Export!Still,
     Export!Goto
<1>1. CASE workerAt' = "close" /\ UNCHANGED <<job, disk, littered>>
  BY <1>0, <1>1, RunTyped, WorkerGoes DEF Carrying, Making
<1>2. CASE /\ Export!Exists(activeJob)
           /\ job' = [job EXCEPT ![activeJob].status = "processing"]
           /\ disk' = [disk EXCEPT ![Mine] = [stage |-> "work", request |-> run.request]]
           /\ littered' = littered \ {Mine}
           /\ workerAt' = IF run.groups = 0 THEN "giveUp" ELSE "render"
  <2>a. /\ activeJob \in Jobs /\ run.camera \in Cameras
      /\ Mine \in Export!Directory /\ Mine[1] = run.camera /\ Mine[2] = activeJob
      /\ job[activeJob].status \in {"none", "pending", "processing"}
    BY <1>0, ExportTypes DEF ExportInv, WorkerSane, CarriedSane, Carrying
  <2>b. run.request \in Export!Request /\ run.groups \in Nat
    BY RunTyped, ExportNumbers
  <2>c. /\ job' \in [Jobs -> Export!Row]
        /\ \A i \in Jobs : /\ job'[i].status = IF i = activeJob THEN "processing" ELSE job[i].status
                           /\ job'[i].camera = job[i].camera /\ job'[i].request = job[i].request
    BY <1>2, <2>a, StatusSet DEF Export!Status
  <2>d. /\ disk' \in [Export!Directory -> [stage : {"none", "work", "final"}, request : Export!Request]]
        /\ \A d \in Export!Directory :
             disk'[d] = IF d = Mine THEN [stage |-> "work", request |-> run.request] ELSE disk[d]
    <3>1. [stage |-> "work", request |-> run.request] \in [stage : {"none", "work", "final"}, request : Export!Request]
      BY <2>b
    <3> QED BY <1>2, <2>a, <3>1, DiskSet
  <2>e. workerAt' \in {"giveUp", "render"} /\ (workerAt' = "render" => run'.groups > 0)
    BY <1>0, <1>2, <2>b
  <2>f. littered' = littered \ {Mine} /\ Mine' = Mine
    BY <1>0, <1>2 DEF Mine
  <2>1. Export!TypeOK'
    <3>1. workerAt' \in Export!Point
      BY <2>e DEF Export!Point
    <3>2. littered' \subseteq Export!Directory
      BY <2>f DEF ExportInv, Export!TypeOK
    <3> QED BY <1>0, <2>c, <2>d, <3>1, <3>2 DEF ExportInv, Export!TypeOK
  <2>2. WorkerSane'
    BY <1>0, <2>a, <2>b, <2>c, <2>d, <2>e, <2>f, ExportTypes, ExportNumbers DEF ExportInv,
       WorkerSane, Carrying, Making, Export!NoRun, Mine
  <2>3. CarriedSane'
    <3>1. /\ job'[activeJob].status = "processing"
          /\ job'[activeJob].camera = job[activeJob].camera
          /\ job'[activeJob].request = job[activeJob].request
      BY <2>a, <2>c
    <3>2. activeJob \notin reused =>
            run.camera = job[activeJob].camera /\ run.request = job[activeJob].request
      BY <1>0, <1>2 DEF ExportInv, CarriedSane, Carrying
    <3>3. UNCHANGED <<activeJob, run, reused>>
      BY <1>0
    <3> QED BY <3>1, <3>2, <3>3 DEF CarriedSane
  <2>4. PublishedSane'
    <3>1. ASSUME NEW a \in artifacts'
          PROVE  /\ a.directory[2] = a.job /\ job'[a.job].status \in {"ready", "expired"}
                 /\ a.job \notin reused' =>
                      /\ a.directory = Export!JobDirectory(a.job)'
                      /\ job'[a.job].status = "ready" /\ disk'[a.directory].stage = "final" =>
                           disk'[a.directory].request = job'[a.job].request
      <4>1. a \in artifacts /\ UNCHANGED <<artifacts, reused>>
        BY <1>0
      <4>2. /\ a.job \in Jobs /\ a.job # activeJob /\ a.directory[2] = a.job
            /\ a.directory \in Export!Directory /\ a.directory # Mine
        BY <1>0, <4>1, PublishedElsewhere DEF Carrying
      <4>3. /\ job'[a.job].status = job[a.job].status /\ job'[a.job].camera = job[a.job].camera
            /\ job'[a.job].request = job[a.job].request /\ disk'[a.directory] = disk[a.directory]
        BY <2>c, <2>d, <4>2
      <4>4. Export!JobDirectory(a.job)' = Export!JobDirectory(a.job)
        BY <4>3 DEF Export!JobDirectory
      <4> QED BY <4>1, <4>3, <4>4 DEF ExportInv, PublishedSane
    <3>2. ASSUME NEW j \in Jobs, job'[j].status = "ready"
          PROVE  \E a \in artifacts' : a.job = j /\ (j \notin due' => disk'[a.directory].stage = "final")
      BY <1>0, <2>a, <2>c, <2>d, <2>f, <3>2, ExportTypes DEF ExportInv, PublishedSane, CarriedSane
    <3>3. ASSUME NEW j \in due'
          PROVE  job'[j].status = "ready"
      <4>1. j \in Jobs /\ job[j].status = "ready"
        BY <1>0, <3>3 DEF ExportInv, Export!TypeOK, PublishedSane
      <4> QED BY <2>a, <2>c, <4>1
    <3> QED BY <3>1, <3>2, <3>3 DEF PublishedSane, Export!JobDirectory
  <2>5. ExpiringSane'
    BY <1>0, <2>a, <2>b, <2>c, <2>d, <2>e, <2>f, ExportTypes, ExportNumbers DEF ExportInv,
       WorkerSane, ExpiringSane, Carrying, Making, Export!Exists, Export!JobDirectory,
       Export!DiesOfDeletionOnly
  <2>6. LitterSane'
    BY <1>0, <2>a, <2>b, <2>c, <2>d, <2>e, <2>f, ExportTypes, ExportNumbers DEF ExportInv,
       CarriedSane, PublishedSane, LitterSane, Explained, Carrying, Making, Export!Exists, Mine
  <2> QED BY <2>1, <2>2, <2>3, <2>4, <2>5, <2>6 DEF ExportInv
<1> QED BY <1>1, <1>2 DEF Export!Begin, Export!Goto, Export!Here, Mine

LEMMA ExportPack ==
  ASSUME ExportInv, Export!Pack
  PROVE  ExportInv'
<1>0. /\ workerAt = "pack" /\ UNCHANGED <<job, artifacts, due, run>>
      /\ UNCHANGED <<footage, queue, inQueue, activeJob, expiring, posts, deletions,
                     restarts, reused>>
  BY DEF Export!Pack, Export!rows, Export!loop, Export!counts, Export!Outside, Export!Still,
     Export!Goto
<1>1. CASE Export!Abort
  BY <1>0, <1>1, WorkerDrops DEF Carrying, Export!Abort, Export!Remove, Export!Goto, Export!Here,
     Mine
<1>2. CASE /\ disk' = [disk EXCEPT ![Mine].stage = "final"]
           /\ workerAt' = "publish" /\ UNCHANGED littered
  <2>a. /\ activeJob \in Jobs /\ run.camera \in Cameras
      /\ Mine \in Export!Directory /\ Mine[1] = run.camera /\ Mine[2] = activeJob
      /\ job[activeJob].status \in {"none", "pending", "processing"}
    BY <1>0, ExportTypes DEF ExportInv, WorkerSane, CarriedSane, Carrying
  <2>b. disk[Mine].request = run.request
    BY <1>0 DEF ExportInv, WorkerSane, Making
  <2>c. disk[Mine] \in [stage : {"none", "work", "final"}, request : Export!Request]
    BY <2>a, ExportTypes
  <2> DEFINE v == [disk[Mine] EXCEPT !.stage = "final"]
  <2>d. /\ v \in [stage : {"none", "work", "final"}, request : Export!Request]
        /\ v.stage = "final" /\ v.request = run.request
    BY <2>b, <2>c
  <2>e. disk' = [disk EXCEPT ![Mine] = v]
    BY <1>2
  <2> HIDE DEF v
  <2>f. /\ disk' \in [Export!Directory -> [stage : {"none", "work", "final"}, request : Export!Request]]
        /\ \A d \in Export!Directory : disk'[d] = IF d = Mine THEN v ELSE disk[d]
    BY <2>a, <2>d, <2>e, DiskSet
  <2>g. workerAt' = "publish" /\ UNCHANGED littered /\ Mine' = Mine
    BY <1>0, <1>2 DEF Mine
  <2>1. Export!TypeOK'
    BY <1>0, <2>a, <2>d, <2>f, <2>g, ExportTypes, ExportNumbers DEF ExportInv, Export!TypeOK,
       Export!Point, Carrying
  <2>2. WorkerSane'
    BY <1>0, <2>a, <2>d, <2>f, <2>g, ExportTypes, ExportNumbers DEF ExportInv, WorkerSane,
       Carrying, Making, Export!NoRun, Mine
  <2>3. CarriedSane'
    BY <1>0, <2>a, <2>d, <2>f, <2>g, ExportTypes, ExportNumbers DEF ExportInv, CarriedSane,
       Carrying, Making, Export!Exists
  <2>4. PublishedSane'
    <3>1. ASSUME NEW a \in artifacts'
          PROVE  /\ a.directory[2] = a.job /\ job'[a.job].status \in {"ready", "expired"}
                 /\ a.job \notin reused' =>
                      /\ a.directory = Export!JobDirectory(a.job)'
                      /\ job'[a.job].status = "ready" /\ disk'[a.directory].stage = "final" =>
                           disk'[a.directory].request = job'[a.job].request
      <4>1. a \in artifacts /\ UNCHANGED <<artifacts, reused, job>>
        BY <1>0
      <4>2. a.directory \in Export!Directory /\ a.directory # Mine
        BY <1>0, <4>1, PublishedElsewhere DEF Carrying
      <4>3. disk'[a.directory] = disk[a.directory]
        BY <2>f, <4>2
      <4>4. Export!JobDirectory(a.job)' = Export!JobDirectory(a.job)
        BY <4>1 DEF Export!JobDirectory
      <4> QED BY <4>1, <4>3, <4>4 DEF ExportInv, PublishedSane
    <3>2. ASSUME NEW j \in Jobs, job'[j].status = "ready"
          PROVE  \E a \in artifacts' : a.job = j /\ (j \notin due' => disk'[a.directory].stage = "final")
      BY <1>0, <2>a, <2>d, <2>f, <2>g, <3>2, ExportTypes DEF ExportInv, PublishedSane, CarriedSane
    <3>3. ASSUME NEW j \in due'
          PROVE  job'[j].status = "ready"
      BY <1>0, <3>3 DEF ExportInv, PublishedSane
    <3> QED BY <3>1, <3>2, <3>3 DEF PublishedSane, Export!JobDirectory
  <2>5. ExpiringSane'
    BY <1>0, <2>a, <2>d, <2>f, <2>g, ExportTypes, ExportNumbers DEF ExportInv, WorkerSane,
       ExpiringSane, Carrying, Making, Export!Exists, Export!JobDirectory, Export!DiesOfDeletionOnly
  <2>6. LitterSane'
    BY <1>0, <2>a, <2>d, <2>f, <2>g, ExportTypes, ExportNumbers DEF ExportInv, CarriedSane,
       PublishedSane, LitterSane, Explained, Carrying, Making, Export!Exists, Mine
  <2> QED BY <2>1, <2>2, <2>3, <2>4, <2>5, <2>6 DEF ExportInv
<1> QED BY <1>1, <1>2 DEF Export!Pack, Export!Goto, Export!Here, Mine


LEMMA ExportPublish ==
  ASSUME ExportInv, Export!Publish
  PROVE  ExportInv'
<1>0. /\ workerAt \in {"publish", "publishing"} /\ UNCHANGED run
      /\ UNCHANGED <<footage, queue, inQueue, activeJob, expiring, posts, deletions,
                     restarts, reused>>
  BY DEF Export!Publish, Export!rows, Export!loop, Export!counts, Export!Outside, Export!Still,
     Export!Goto
<1>1. CASE workerAt' = "publishing" /\ UNCHANGED <<job, artifacts, due, disk, littered>>
  BY <1>0, <1>1, RunTyped, WorkerGoes DEF Carrying, Making
<1>2. CASE Export!Remove(Export!Here) /\ workerAt' \in {"close", "fail"} /\ UNCHANGED <<job, artifacts, due>>
  BY <1>0, <1>2, WorkerDrops DEF Carrying, Export!Remove, Export!Here, Mine
<1>3. CASE /\ Export!Exists(activeJob) /\ workerAt' = "close"
           /\ job' = [job EXCEPT ![activeJob].status = "ready"]
           /\ artifacts' = artifacts \cup {[job |-> activeJob, directory |-> Mine]}
           /\ due' = due \ {activeJob} /\ UNCHANGED <<disk, littered>>
  <2>a. /\ activeJob \in Jobs /\ run.camera \in Cameras
      /\ Mine \in Export!Directory /\ Mine[1] = run.camera /\ Mine[2] = activeJob
      /\ job[activeJob].status \in {"none", "pending", "processing"}
    BY <1>0, ExportTypes DEF ExportInv, WorkerSane, CarriedSane, Carrying
  <2>b. disk[Mine].request = run.request /\ disk[Mine].stage = "final"
    BY <1>0 DEF ExportInv, WorkerSane, Making
  <2>c. /\ job' \in [Jobs -> Export!Row]
        /\ \A i \in Jobs : /\ job'[i].status = IF i = activeJob THEN "ready" ELSE job[i].status
                           /\ job'[i].camera = job[i].camera /\ job'[i].request = job[i].request
    BY <1>3, <2>a, StatusSet DEF Export!Status
  <2>d. /\ artifacts' \subseteq [job : Jobs, directory : Export!Directory]
        /\ \A a \in artifacts' : a \in artifacts \/ (a.job = activeJob /\ a.directory = Mine)
        /\ \A a \in artifacts : a \in artifacts'
        /\ [job |-> activeJob, directory |-> Mine] \in artifacts'
        /\ [job |-> activeJob, directory |-> Mine].job = activeJob
        /\ [job |-> activeJob, directory |-> Mine].directory = Mine
    BY <1>3, <2>a DEF ExportInv, Export!TypeOK
  <2>e. /\ activeJob \notin reused => run.camera = job[activeJob].camera /\ run.request = job[activeJob].request
    BY <1>0, <1>3 DEF ExportInv, CarriedSane, Carrying
  <2>f. /\ due' = due \ {activeJob} /\ UNCHANGED <<disk, littered>> /\ workerAt' = "close"
        /\ Mine = <<run.camera, activeJob>>
    BY <1>3 DEF Mine
  <2>1. Export!TypeOK'
    BY <1>0, <2>a, <2>b, <2>c, <2>d, <2>f, ExportTypes, ExportNumbers DEF ExportInv,
       Export!TypeOK, Export!Point, Carrying
  <2>2. WorkerSane'
    BY <1>0, <2>a, <2>b, <2>c, <2>d, <2>f, ExportTypes, ExportNumbers DEF ExportInv, WorkerSane,
       Carrying, Making, Export!NoRun, Mine
  <2>3. CarriedSane'
    BY <1>0, <2>a, <2>b, <2>c, <2>d, <2>f, ExportTypes, ExportNumbers DEF ExportInv, CarriedSane,
       Carrying, Making, Export!Exists
  <2>4. PublishedSane'
    <3>1. ASSUME NEW a \in artifacts'
          PROVE  /\ a.directory[2] = a.job /\ job'[a.job].status \in {"ready", "expired"}
                 /\ a.job \notin reused' =>
                      /\ a.directory = Export!JobDirectory(a.job)'
                      /\ job'[a.job].status = "ready" /\ disk'[a.directory].stage = "final" =>
                           disk'[a.directory].request = job'[a.job].request
      <4>0. UNCHANGED reused
        BY <1>0
      <4>1. CASE a \in artifacts
        <5>1. a.job \in Jobs /\ a.job # activeJob
          BY <1>0, <4>1, PublishedElsewhere DEF Carrying
        <5>2. /\ job'[a.job].status = job[a.job].status /\ job'[a.job].camera = job[a.job].camera
              /\ job'[a.job].request = job[a.job].request
          BY <2>c, <5>1
        <5>3. Export!JobDirectory(a.job)' = Export!JobDirectory(a.job)
          BY <5>2 DEF Export!JobDirectory
        <5> QED BY <2>f, <4>0, <4>1, <5>2, <5>3 DEF ExportInv, PublishedSane
      <4>2. CASE a.job = activeJob /\ a.directory = Mine
        <5>1. activeJob \notin reused => Export!JobDirectory(a.job)' = Mine
          BY <2>a, <2>c, <2>e, <2>f, <4>2 DEF Export!JobDirectory
        <5> QED BY <2>a, <2>b, <2>c, <2>e, <2>f, <4>0, <4>2, <5>1
      <4> QED BY <2>d, <4>1, <4>2
    <3>2. ASSUME NEW j \in Jobs, job'[j].status = "ready"
          PROVE  \E a \in artifacts' : a.job = j /\ (j \notin due' => disk'[a.directory].stage = "final")
      <4>1. CASE j = activeJob
        BY <2>b, <2>d, <2>f, <4>1
      <4>2. CASE j # activeJob
        <5>1. job[j].status = "ready"
          BY <2>c, <3>2, <4>2
        <5>2. PICK a \in artifacts : a.job = j /\ (j \notin due => disk[a.directory].stage = "final")
          BY <5>1 DEF ExportInv, PublishedSane
        <5> QED BY <2>d, <2>f, <4>2, <5>2
      <4> QED BY <4>1, <4>2
    <3>3. ASSUME NEW j \in due'
          PROVE  job'[j].status = "ready"
      <4>1. j \in Jobs /\ job[j].status = "ready"
        BY <2>f, <3>3 DEF ExportInv, Export!TypeOK, PublishedSane
      <4> QED BY <2>a, <2>c, <4>1
    <3> QED BY <3>1, <3>2, <3>3 DEF PublishedSane, Export!JobDirectory
  <2>5. ExpiringSane'
    BY <1>0, <2>a, <2>b, <2>c, <2>d, <2>f, ExportTypes, ExportNumbers DEF ExportInv, WorkerSane,
       ExpiringSane, Carrying, Making, Export!Exists, Export!JobDirectory, Export!DiesOfDeletionOnly
  <2>6. LitterSane'
    <3> SUFFICES ASSUME NEW d \in Export!Directory, disk'[d].stage # "none"
                 PROVE  Explained(d)'
      BY <2>f DEF LitterSane
    <3>1. CASE d = Mine
      BY <2>a, <2>c, <2>d, <3>1 DEF Explained
    <3>2. CASE d # Mine
      <4>1. Explained(d)
        BY <2>f, <3>2 DEF ExportInv, LitterSane
      <4>2. job[d[2]].status = "ready" => job'[d[2]].status = "ready"
        BY <2>a, <2>c, ExportTypes
      <4> QED BY <1>0, <2>d, <2>f, <4>1, <4>2 DEF Explained
    <3> QED BY <3>1, <3>2
  <2> QED BY <2>1, <2>2, <2>3, <2>4, <2>5, <2>6 DEF ExportInv
<1> QED BY <1>1, <1>2, <1>3
      DEF Export!Publish, Export!Goto, Export!Here, Mine, Export!Abort, Export!rows

\* Requests that touch neither rows, files nor the worker, and steps of others.
LEMMA ExportAside ==
  ASSUME ExportInv, footage' \in [Cameras -> {"absent", "none", "local"}],
         UNCHANGED <<job, artifacts, due, disk, queue, inQueue, activeJob, workerAt>>,
         UNCHANGED <<run, expiring, posts, deletions, restarts, reused, littered>>
  PROVE  ExportInv'
<1>1. UNCHANGED Mine
  BY DEF Mine
<1>2. Export!TypeOK'
  BY DEF ExportInv, Export!TypeOK
<1>3. WorkerSane'
  BY <1>1 DEF ExportInv, WorkerSane
<1>4. CarriedSane'
  BY DEF ExportInv, CarriedSane, Export!Exists
<1>5. PublishedSane'
  BY DEF ExportInv, PublishedSane, Export!JobDirectory
<1>6. ExpiringSane'
  BY DEF ExportInv, ExpiringSane, Export!Exists, Export!JobDirectory, Export!DiesOfDeletionOnly
<1>7. LitterSane'
  BY <1>1 DEF ExportInv, LitterSane, Explained
<1> QED BY <1>2, <1>3, <1>4, <1>5, <1>6, <1>7 DEF ExportInv

LEMMA ExportFootage ==
  ASSUME ExportInv, NEW c \in Cameras, Export!Footage(c)
  PROVE  ExportInv'
<1>1. footage' \in [Cameras -> {"absent", "none", "local"}]
  BY DEF Export!Footage, ExportInv, Export!TypeOK
<1> QED BY <1>1, ExportAside DEF Export!Footage, Export!rows, Export!loop, Export!counts

LEMMA ExportCreateCamera ==
  ASSUME ExportInv, Export!CreateCamera
  PROVE  ExportInv'
<1>1. footage' \in [Cameras -> {"absent", "none", "local"}]
  BY DEF Export!CreateCamera, ExportInv, Export!TypeOK
<1> QED BY <1>1, ExportAside DEF Export!CreateCamera, Export!rows, Export!loop, Export!counts

LEMMA ExportElapse ==
  ASSUME ExportInv, NEW j \in Jobs, Export!Elapse(j)
  PROVE  ExportInv'
<1>1. /\ job[j].status = "ready" /\ due' = due \cup {j}
      /\ UNCHANGED <<footage, job, artifacts, disk, queue, inQueue, activeJob, workerAt>>
      /\ UNCHANGED <<run, expiring, posts, deletions, restarts, reused, littered>>
  BY DEF Export!Elapse, Export!loop, Export!counts
<1>2. UNCHANGED Mine
  BY <1>1 DEF Mine
<1>3. Export!TypeOK'
  BY <1>1 DEF ExportInv, Export!TypeOK
<1>4. WorkerSane'
  BY <1>1, <1>2 DEF ExportInv, WorkerSane
<1>5. CarriedSane'
  BY <1>1 DEF ExportInv, CarriedSane, Export!Exists
<1>6. PublishedSane'
  BY <1>1 DEF ExportInv, PublishedSane, Export!JobDirectory
<1>7. ExpiringSane'
  BY <1>1 DEF ExportInv, ExpiringSane, Export!Exists, Export!JobDirectory, Export!DiesOfDeletionOnly
<1>8. LitterSane'
  BY <1>1, <1>2 DEF ExportInv, LitterSane, Explained
<1> QED BY <1>3, <1>4, <1>5, <1>6, <1>7, <1>8 DEF ExportInv

\* The worker between jobs: the queue and where it is are all that changes.
LEMMA WorkerRests ==
  ASSUME ExportInv, workerAt \in {"idle", "close"}, workerAt' \in {"open", "clean"},
         run' = Export!NoRun, activeJob' \in (IF workerAt' = "open" THEN Jobs ELSE {0}),
         queue' \in Seq(Jobs), inQueue' \subseteq Jobs,
         UNCHANGED <<footage, job, artifacts, due, disk, expiring, littered>>,
         UNCHANGED <<posts, deletions, restarts, reused>>
  PROVE  ExportInv'
<1>1. Export!NoRun \in [camera : Cameras \cup {0}, request : Export!Request, groups : 0..MaxGroups]
  BY ExportNumbers DEF Export!NoRun, Export!Request
<1>2. Export!TypeOK'
  BY <1>1 DEF ExportInv, Export!TypeOK, Export!Point
<1>3. WorkerSane' /\ CarriedSane'
  BY DEF WorkerSane, CarriedSane, Carrying, Making
<1>4. PublishedSane'
  BY DEF ExportInv, PublishedSane, Export!JobDirectory
<1>5. ExpiringSane'
  BY DEF ExportInv, ExpiringSane, Export!Exists, Export!JobDirectory, Export!DiesOfDeletionOnly
<1>6. LitterSane'
  BY DEF ExportInv, LitterSane, Explained, Making
<1> QED BY <1>2, <1>3, <1>4, <1>5, <1>6 DEF ExportInv

LEMMA ExportTake ==
  ASSUME ExportInv, Export!Take
  PROVE  ExportInv'
<1>1. queue \in Seq(Jobs) /\ queue # <<>> /\ inQueue \subseteq Jobs /\ run = Export!NoRun
  BY DEF Export!Take, ExportInv, Export!TypeOK, WorkerSane
<1>2. Head(queue) \in Jobs /\ Tail(queue) \in Seq(Jobs)
  BY <1>1
<1> QED BY <1>1, <1>2, WorkerRests DEF Export!Take, Export!Goto, Export!rows, Export!Outside,
           Export!counts

LEMMA ExportIdle ==
  ASSUME ExportInv, Export!Idle
  PROVE  ExportInv'
<1>1. queue \in Seq(Jobs) /\ inQueue \subseteq Jobs /\ run = Export!NoRun /\ activeJob = 0
  BY DEF Export!Idle, ExportInv, Export!TypeOK, WorkerSane
<1> QED BY <1>1, WorkerRests DEF Export!Idle, Export!Goto, Export!rows, Export!Outside,
           Export!Still, Export!counts

LEMMA ExportClose ==
  ASSUME ExportInv, Export!Close
  PROVE  ExportInv'
<1>1. queue \in Seq(Jobs) /\ inQueue \subseteq Jobs
  BY DEF ExportInv, Export!TypeOK
<1> QED BY <1>1, WorkerRests DEF Export!Close, Export!Goto, Export!rows, Export!Outside,
           Export!counts

LEMMA ExportOpen ==
  ASSUME ExportInv, NEW n \in 0..MaxGroups, Export!Open(n)
  PROVE  ExportInv'
<1>0. /\ workerAt = "open" /\ UNCHANGED <<job, artifacts, due, disk, littered>>
      /\ UNCHANGED <<footage, queue, inQueue, activeJob, expiring, posts, deletions,
                     restarts, reused>> /\ activeJob \in Jobs /\ run = Export!NoRun
  BY DEF Export!Open, Export!rows, Export!loop, Export!counts, Export!Outside, Export!Still,
     Export!Goto, ExportInv, WorkerSane
<1>1. CASE /\ job[activeJob].status \in {"pending", "processing"} /\ workerAt' = "begin"
           /\ run' = [camera |-> job[activeJob].camera, request |-> job[activeJob].request, groups |-> n]
  <2>a. job[activeJob].camera \in Cameras /\ job[activeJob].request \in Export!Request
    <3>1. Export!Exists(activeJob)
      BY <1>1 DEF Export!Exists
    <3> QED BY <1>0, <3>1, ExportTypes
  <2>b. /\ run' \in [camera : Cameras \cup {0}, request : Export!Request, groups : 0..MaxGroups]
        /\ run'.camera = job[activeJob].camera /\ run'.request = job[activeJob].request
    BY <1>1, <2>a
  <2>1. Export!TypeOK'
    BY <1>0, <2>a, <2>b, <1>1, ExportTypes, ExportNumbers DEF ExportInv, Export!TypeOK,
       Export!Point, Carrying
  <2>2. WorkerSane'
    BY <1>0, <2>a, <2>b, <1>1, ExportTypes, ExportNumbers DEF ExportInv, WorkerSane, Carrying,
       Making, Export!NoRun, Mine
  <2>3. CarriedSane'
    BY <1>0, <2>a, <2>b, <1>1, ExportTypes, ExportNumbers DEF ExportInv, CarriedSane, Carrying,
       Making, Export!Exists
  <2>4. PublishedSane'
    BY <1>0, <2>a, <2>b, <1>1, ExportTypes, ExportNumbers DEF ExportInv, CarriedSane,
       PublishedSane, Carrying, Making, Export!Exists, Export!JobDirectory, Mine
  <2>5. ExpiringSane'
    BY <1>0, <2>a, <2>b, <1>1, ExportTypes, ExportNumbers DEF ExportInv, WorkerSane, ExpiringSane,
       Carrying, Making, Export!Exists, Export!JobDirectory, Export!DiesOfDeletionOnly
  <2>6. LitterSane'
    BY <1>0, <2>a, <2>b, <1>1, ExportTypes, ExportNumbers DEF ExportInv, CarriedSane,
       PublishedSane, LitterSane, Explained, Carrying, Making, Export!Exists, Mine
  <2> QED BY <2>1, <2>2, <2>3, <2>4, <2>5, <2>6 DEF ExportInv
<1>2. CASE workerAt' = "close" /\ UNCHANGED run
  <2>1. Export!TypeOK'
    BY <1>0, <1>2, RunTyped, ExportTypes, ExportNumbers DEF ExportInv, Export!TypeOK,
       Export!Point, Carrying
  <2>2. WorkerSane'
    BY <1>0, <1>2, RunTyped, ExportTypes, ExportNumbers DEF ExportInv, WorkerSane, Carrying,
       Making, Export!NoRun, Mine
  <2>3. CarriedSane'
    BY <1>0, <1>2, RunTyped, ExportTypes, ExportNumbers DEF ExportInv, CarriedSane, Carrying,
       Making, Export!Exists
  <2>4. PublishedSane'
    BY <1>0, <1>2, RunTyped, ExportTypes, ExportNumbers DEF ExportInv, CarriedSane, PublishedSane,
       Carrying, Making, Export!Exists, Export!JobDirectory, Mine
  <2>5. ExpiringSane'
    BY <1>0, <1>2, RunTyped, ExportTypes, ExportNumbers DEF ExportInv, WorkerSane, ExpiringSane,
       Carrying, Making, Export!Exists, Export!JobDirectory, Export!DiesOfDeletionOnly
  <2>6. LitterSane'
    BY <1>0, <1>2, RunTyped, ExportTypes, ExportNumbers DEF ExportInv, CarriedSane, PublishedSane,
       LitterSane, Explained, Carrying, Making, Export!Exists, Mine
  <2> QED BY <2>1, <2>2, <2>3, <2>4, <2>5, <2>6 DEF ExportInv
<1> QED BY <1>1, <1>2 DEF Export!Open, Export!Goto

LEMMA ExportClean ==
  ASSUME ExportInv, Export!Clean
  PROVE  ExportInv'
<1> DEFINE gone == {Export!JobDirectory(j) : j \in due}
<1>0. /\ workerAt = "clean" /\ workerAt' = (IF due = {} THEN "idle" ELSE "expire")
      /\ UNCHANGED <<footage, job, artifacts, due, queue, inQueue, activeJob, run>>
      /\ UNCHANGED <<posts, deletions, restarts, reused>>
      /\ expiring' = due
      /\ disk' = [d \in Export!Directory |-> IF d \in gone THEN Export!Empty ELSE disk[d]]
      /\ littered' = littered \ gone
      /\ activeJob = 0 /\ run = Export!NoRun /\ workerAt' \in {"idle", "expire"}
  BY DEF Export!Clean, Export!Goto, Export!rows, Export!Outside, Export!counts, ExportInv,
     WorkerSane
<1>1. /\ disk' \in [Export!Directory -> [stage : {"none", "work", "final"}, request : Export!Request]]
      /\ \A d \in Export!Directory : disk'[d] = IF d \in gone THEN Export!Empty ELSE disk[d]
  BY <1>0, ExportTypes, EmptyDirectory
<1>2. \A j \in due : /\ j \in Jobs /\ Export!Exists(j) /\ Export!JobDirectory(j) \in Export!Directory \cap gone
                     /\ job[j].status = "ready"
  <2> SUFFICES ASSUME NEW j \in due
               PROVE  /\ j \in Jobs /\ Export!Exists(j) /\ job[j].status = "ready"
                      /\ Export!JobDirectory(j) \in Export!Directory \cap gone
    OBVIOUS
  <2>1. j \in Jobs /\ job[j].status = "ready"
    BY DEF ExportInv, Export!TypeOK, PublishedSane
  <2>2. Export!Exists(j) /\ job[j].camera \in Cameras
    BY <2>1, ExportTypes DEF Export!Exists
  <2> QED BY <2>1, <2>2 DEF Export!JobDirectory, Export!Directory
<1>3. \A d \in gone : d[2] \in due /\ d = Export!JobDirectory(d[2])
  BY DEF Export!JobDirectory
<1> HIDE DEF gone
<1>4. Export!TypeOK'
  BY <1>0, <1>1 DEF ExportInv, Export!TypeOK, Export!Point
<1>5. WorkerSane' /\ CarriedSane'
  BY <1>0 DEF WorkerSane, CarriedSane, Carrying, Making
<1>6. PublishedSane'
  <2>1. \A a \in artifacts : disk'[a.directory].stage = "final" => disk'[a.directory] = disk[a.directory]
    BY <1>1, ExportTypes, EmptyDirectory
  <2>2. \A a \in artifacts : a.job \notin due => disk'[a.directory] = disk[a.directory]
    <3> SUFFICES ASSUME NEW a \in artifacts, a.job \notin due
                 PROVE  disk'[a.directory] = disk[a.directory]
      OBVIOUS
    <3>0. a.directory[2] = a.job
      BY DEF ExportInv, PublishedSane
    <3>1. a.directory \notin gone /\ a.directory \in Export!Directory
      <4>1. a.directory \in gone => a.directory[2] \in due
        BY <1>3
      <4>2. a.directory \in Export!Directory
        BY ExportTypes
      <4> QED BY <3>0, <4>1, <4>2
    <3> QED BY <1>1, <3>1
  <2>3. \A j \in Jobs : Export!JobDirectory(j)' = Export!JobDirectory(j)
    BY <1>0 DEF Export!JobDirectory
  <2>4. ASSUME NEW a \in artifacts
        PROVE  /\ a.directory[2] = a.job /\ job[a.job].status \in {"ready", "expired"}
               /\ a.job \notin reused =>
                    /\ a.directory = Export!JobDirectory(a.job)'
                    /\ job[a.job].status = "ready" /\ disk'[a.directory].stage = "final" =>
                         disk'[a.directory].request = job[a.job].request
    BY <2>1, <2>3, ExportTypes DEF ExportInv, PublishedSane
  <2>5. ASSUME NEW j \in Jobs, job[j].status = "ready"
        PROVE  \E a \in artifacts : a.job = j /\ (j \notin due => disk'[a.directory].stage = "final")
    BY <2>2, <2>5 DEF ExportInv, PublishedSane
  <2>6. \A j \in due : job[j].status = "ready"
    BY DEF ExportInv, PublishedSane
  <2> QED BY <1>0, <2>4, <2>5, <2>6 DEF PublishedSane, Export!JobDirectory
<1>7. ExpiringSane'
  <2>1. workerAt' # "expire" => expiring' = {}
    BY <1>0
  <2>2. \A j \in due : disk'[Export!JobDirectory(j)].stage = "none"
    BY <1>1, <1>2, EmptyDirectory
  <2>3. Export!DiesOfDeletionOnly'
    BY <1>0 DEF Export!DiesOfDeletionOnly
  <2> QED BY <1>0, <1>2, <2>1, <2>2, <2>3 DEF ExpiringSane, Export!JobDirectory, Export!Exists
<1>8. LitterSane'
  <2> SUFFICES ASSUME NEW d \in Export!Directory, disk'[d].stage # "none"
               PROVE  Explained(d)'
    BY DEF LitterSane
  <2>1. d \notin gone /\ disk[d].stage # "none"
    BY <1>1, EmptyDirectory
  <2>2. Explained(d)
    BY <1>0, <2>1 DEF ExportInv, LitterSane, Making
  <2> QED BY <1>0, <2>1, <2>2 DEF Explained
<1> QED BY <1>4, <1>5, <1>6, <1>7, <1>8 DEF ExportInv

LEMMA ExportExpire ==
  ASSUME ExportInv, Export!Expire
  PROVE  ExportInv'
<1>0. /\ workerAt = "expire" /\ expiring' = {}
      /\ UNCHANGED <<footage, artifacts, disk, queue, inQueue, activeJob, run, littered>>
      /\ UNCHANGED <<posts, deletions, restarts, reused>>
      /\ activeJob = 0 /\ run = Export!NoRun
  BY DEF Export!Expire, Export!Outside, Export!counts, ExportInv, WorkerSane
<1>1. CASE /\ ~\A j \in expiring : Export!Exists(j)
           /\ UNCHANGED <<job, due>> /\ workerAt' = "dead"
  <2>a. Export!DiesOfDeletionOnly'
    <3>1. deletions # 0 /\ deletions \in Nat
      BY <1>1, ExportNumbers DEF ExportInv, ExpiringSane, Export!TypeOK
    <3> QED BY <1>0, <3>1 DEF Export!DiesOfDeletionOnly
  <2>1. Export!TypeOK'
    BY <1>0, <1>1, ExportTypes, ExportNumbers DEF ExportInv, Export!TypeOK, Export!Point, Carrying
  <2>2. WorkerSane'
    BY <1>0, <1>1, ExportTypes, ExportNumbers DEF ExportInv, WorkerSane, Carrying, Making,
       Export!NoRun, Mine
  <2>3. CarriedSane'
    BY <1>0, <1>1, ExportTypes, ExportNumbers DEF ExportInv, CarriedSane, Carrying, Making,
       Export!Exists
  <2>4. PublishedSane'
    BY <1>0, <1>1, ExportTypes, ExportNumbers DEF ExportInv, CarriedSane, PublishedSane, Carrying,
       Making, Export!Exists, Export!JobDirectory, Mine
  <2>5. ExpiringSane'
    BY <1>0, <1>1, <2>a DEF ExpiringSane
  <2>6. LitterSane'
    <3> SUFFICES ASSUME NEW d \in Export!Directory, disk'[d].stage # "none"
                 PROVE  Explained(d)'
      BY DEF LitterSane
    <3>1. Explained(d)
      BY <1>0 DEF ExportInv, LitterSane, Making
    <3> QED BY <1>0, <1>1, <3>1 DEF Explained
  <2> QED BY <2>1, <2>2, <2>3, <2>4, <2>5, <2>6 DEF ExportInv
<1>2. CASE /\ \A j \in expiring : Export!Exists(j)
           /\ job' = [j \in Jobs |->
                        IF j \in expiring THEN [job[j] EXCEPT !.status = "expired"] ELSE job[j]]
           /\ due' = due \ expiring /\ workerAt' = "idle"
  <2>a. /\ job' \in [Jobs -> Export!Row]
        /\ \A i \in Jobs : /\ job'[i].status = IF i \in expiring THEN "expired" ELSE job[i].status
                           /\ job'[i].camera = job[i].camera /\ job'[i].request = job[i].request
    <3>1. ASSUME NEW i \in Jobs
          PROVE  /\ job'[i] \in Export!Row
                 /\ job'[i].status = IF i \in expiring THEN "expired" ELSE job[i].status
                 /\ job'[i].camera = job[i].camera /\ job'[i].request = job[i].request
      <4>1. CASE i \notin expiring
        <5>1. job'[i] = job[i]
          BY <1>2, <4>1
        <5> QED BY <4>1, <5>1, ExportTypes
      <4>2. CASE i \in expiring
        <5>1. job[i] \in [status : Export!Status, camera : Cameras, request : Export!Request]
          <6>1. job[i].status # "none" /\ job[i] \in Export!Row
            BY <1>2, <4>2, ExportTypes DEF Export!Exists
          <6> QED BY <6>1 DEF Export!Row, Export!NoRow
        <5>2. job'[i] = [job[i] EXCEPT !.status = "expired"]
          BY <1>2, <4>2
        <5> QED BY <4>2, <5>1, <5>2 DEF Export!Row, Export!Status
      <4> QED BY <4>1, <4>2
    <3>2. job' = [i \in Jobs |-> job'[i]]
      BY <1>2
    <3> QED BY <3>1, <3>2
  <2>b. due' = due \ expiring /\ workerAt' = "idle"
    BY <1>2
  <2>1. Export!TypeOK'
    BY <1>0, <2>a, <2>b, ExportTypes, ExportNumbers DEF ExportInv, Export!TypeOK, Export!Point,
       Carrying
  <2>2. WorkerSane'
    BY <1>0, <2>a, <2>b, ExportTypes, ExportNumbers DEF ExportInv, WorkerSane, Carrying, Making,
       Export!NoRun, Mine
  <2>3. CarriedSane'
    BY <1>0, <2>a, <2>b, ExportTypes, ExportNumbers DEF ExportInv, CarriedSane, Carrying, Making,
       Export!Exists
  <2>4. PublishedSane'
    <3>1. ASSUME NEW a \in artifacts'
          PROVE  /\ a.directory[2] = a.job /\ job'[a.job].status \in {"ready", "expired"}
                 /\ a.job \notin reused' =>
                      /\ a.directory = Export!JobDirectory(a.job)'
                      /\ job'[a.job].status = "ready" /\ disk'[a.directory].stage = "final" =>
                           disk'[a.directory].request = job'[a.job].request
      BY <1>0, <2>a, <2>b, ExportTypes DEF ExportInv, PublishedSane, CarriedSane,
         Export!JobDirectory, Export!Exists
    <3>2. ASSUME NEW j \in Jobs, job'[j].status = "ready"
          PROVE  \E a \in artifacts' : a.job = j /\ (j \notin due' => disk'[a.directory].stage = "final")
      BY <1>0, <2>a, <2>b, <3>2, ExportTypes DEF ExportInv, PublishedSane, CarriedSane
    <3>3. ASSUME NEW j \in due'
          PROVE  job'[j].status = "ready"
      BY <1>0, <2>a, <2>b, <3>3, ExportTypes DEF ExportInv, Export!TypeOK, PublishedSane,
         CarriedSane
    <3> QED BY <3>1, <3>2, <3>3 DEF PublishedSane, Export!JobDirectory
  <2>5. ExpiringSane'
    BY <1>0, <2>a, <2>b, ExportTypes, ExportNumbers DEF ExportInv, WorkerSane, ExpiringSane,
       Carrying, Making, Export!Exists, Export!JobDirectory, Export!DiesOfDeletionOnly
  <2>6. LitterSane'
    <3> SUFFICES ASSUME NEW d \in Export!Directory, disk'[d].stage # "none"
                 PROVE  Explained(d)'
      BY DEF LitterSane
    <3>1. Explained(d) /\ d[2] \in Jobs
      BY <1>0, ExportTypes DEF ExportInv, LitterSane, Making
    <3>2. CASE job[d[2]].status = "ready" /\ [job |-> d[2], directory |-> d] \in artifacts /\ d[2] \notin reused
      <4>1. d = Export!JobDirectory(d[2]) /\ Export!Exists(d[2])
        BY <3>2 DEF ExportInv, PublishedSane, Export!Exists
      <4>2. d[2] \notin expiring
        BY <1>0, <3>2, <4>1 DEF ExportInv, ExpiringSane
      <4> QED BY <1>0, <2>a, <3>1, <3>2, <4>2 DEF Explained
    <3> QED BY <1>0, <3>1, <3>2 DEF Explained
  <2> QED BY <2>1, <2>2, <2>3, <2>4, <2>5, <2>6 DEF ExportInv
<1> QED BY <1>1, <1>2 DEF Export!Expire, Export!Goto

LEMMA ExportCreate ==
  ASSUME ExportInv, NEW c \in Cameras, Export!Create(c)
  PROVE  ExportInv'
<1> DEFINE j == Export!NextId({k \in Jobs : Export!Exists(k)})
           new == [status |-> "pending", camera |-> c, request |-> posts + 1]
<1>1. /\ j \in Jobs /\ job' = [job EXCEPT ![j] = new] /\ posts' = posts + 1 /\ posts < MaxPosts
      /\ \/ UNCHANGED <<queue, inQueue>>
         \/ queue' = Append(queue, j) /\ inQueue' = inQueue \cup {j}
      /\ reused' = IF activeJob = j \/ j \in expiring THEN reused \cup {j} ELSE reused
      /\ UNCHANGED <<footage, artifacts, due, disk, activeJob, workerAt, run>>
      /\ UNCHANGED <<expiring, deletions, restarts, littered>>
  BY DEF Export!Create
<1>2. ~Export!Exists(j)
  <2> HIDE DEF j
  <2>1. j \in {k \in Jobs : Export!Exists(k)} => FALSE
    BY NextIsFree DEF j
  <2> QED BY <1>1, <2>1
<1> HIDE DEF j
<1>3. /\ new.status = "pending" /\ new.camera = c /\ new.request = posts + 1
      /\ posts + 1 \in Export!Request /\ new \in Export!Row
  <2>1. posts + 1 \in Export!Request
    BY <1>1, ExportNumbers DEF Export!Request, ExportInv, Export!TypeOK
  <2> QED BY <2>1 DEF Export!Row, Export!Status
<1> HIDE DEF new
<1>4. /\ job' \in [Jobs -> Export!Row]
      /\ \A i \in Jobs : job'[i] = IF i = j THEN new ELSE job[i]
  BY <1>1, <1>3 DEF ExportInv, Export!TypeOK
<1>5. job[j].status = "none"
  BY <1>2 DEF Export!Exists
<1>6. /\ \A i \in Jobs : i \notin reused' => i \notin reused
      /\ activeJob = j \/ j \in expiring => j \in reused'
      /\ reused' \subseteq Jobs
  BY <1>1 DEF ExportInv, Export!TypeOK
<1>7. \A a \in artifacts : a.job \in Jobs /\ a.job # j /\ job'[a.job] = job[a.job]
  <2> SUFFICES ASSUME NEW a \in artifacts
               PROVE  a.job \in Jobs /\ a.job # j
    BY <1>4
  <2>1. a.job \in Jobs
    BY ExportTypes
  <2>2. job[a.job].status \in {"ready", "expired"}
    BY DEF ExportInv, PublishedSane
  <2> QED BY <1>5, <2>1, <2>2
<1>a. Export!TypeOK'
  <2>0. queue \in Seq(Jobs) /\ inQueue \subseteq Jobs
    BY DEF ExportInv, Export!TypeOK
  <2>1. queue' \in Seq(Jobs) /\ inQueue' \subseteq Jobs
    <3>1. CASE UNCHANGED <<queue, inQueue>>
      BY <2>0, <3>1
    <3>2. CASE queue' = Append(queue, j) /\ inQueue' = inQueue \cup {j}
      <4>1. j \in Jobs
        BY <1>1
      <4> QED BY <2>0, <3>2, <4>1
    <3> QED BY <1>1, <3>1, <3>2
  <2>2. posts' \in 0..MaxPosts
    BY <1>1, <1>3 DEF Export!Request
  <2> QED BY <1>1, <1>4, <1>6, <2>1, <2>2 DEF ExportInv, Export!TypeOK
<1>b. WorkerSane'
  BY <1>1 DEF ExportInv, WorkerSane, Mine
<1>c. CarriedSane'
  <2> SUFFICES ASSUME workerAt \in Carrying
               PROVE  /\ job'[activeJob].status \in {"none", "pending", "processing"}
                      /\ Export!Exists(activeJob)' /\ activeJob \notin reused' =>
                           run.camera = job'[activeJob].camera /\ run.request = job'[activeJob].request
    BY <1>1 DEF CarriedSane
  <2>1. activeJob \in Jobs
    BY DEF ExportInv, WorkerSane
  <2>2. CASE activeJob = j
    BY <1>3, <1>4, <1>6, <2>1, <2>2
  <2>3. CASE activeJob # j
    <3>1. job'[activeJob] = job[activeJob]
      BY <1>4, <2>1, <2>3
    <3> QED BY <1>1, <1>6, <2>1, <3>1 DEF ExportInv, CarriedSane, Export!Exists
  <2> QED BY <2>2, <2>3
<1>d. PublishedSane'
  <2>1. ASSUME NEW a \in artifacts
        PROVE  /\ a.directory[2] = a.job /\ job'[a.job].status \in {"ready", "expired"}
               /\ a.job \notin reused' =>
                    /\ a.directory = Export!JobDirectory(a.job)'
                    /\ job'[a.job].status = "ready" /\ disk[a.directory].stage = "final" =>
                         disk[a.directory].request = job'[a.job].request
    BY <1>6, <1>7 DEF ExportInv, PublishedSane, Export!JobDirectory
  <2>2. ASSUME NEW i \in Jobs, job'[i].status = "ready"
        PROVE  \E a \in artifacts : a.job = i /\ (i \notin due => disk[a.directory].stage = "final")
    <3>1. job[i].status = "ready"
      BY <1>3, <1>4, <2>2
    <3> QED BY <3>1 DEF ExportInv, PublishedSane
  <2>3. ASSUME NEW i \in due
        PROVE  job'[i].status = "ready"
    <3>1. i \in Jobs /\ job[i].status = "ready"
      BY DEF ExportInv, PublishedSane, Export!TypeOK
    <3> QED BY <1>4, <1>5, <3>1
  <2> QED BY <1>1, <2>1, <2>2, <2>3 DEF PublishedSane, Export!JobDirectory
<1>e. ExpiringSane'
  <2>1. ASSUME NEW i \in expiring, i \notin reused', Export!Exists(i)'
        PROVE  disk[Export!JobDirectory(i)'].stage = "none"
    <3>1. i \in Jobs /\ i # j /\ i \notin reused
      BY <1>6, <2>1 DEF ExportInv, Export!TypeOK
    <3>2. job'[i] = job[i]
      BY <1>4, <3>1
    <3> QED BY <2>1, <3>1, <3>2 DEF ExportInv, ExpiringSane, Export!Exists, Export!JobDirectory
  <2>2. deletions = 0 => \A i \in expiring : Export!Exists(i)'
    <3> SUFFICES ASSUME deletions = 0, NEW i \in expiring
                 PROVE  Export!Exists(i)'
      OBVIOUS
    <3>1. i \in Jobs /\ Export!Exists(i)
      BY DEF ExportInv, Export!TypeOK, ExpiringSane
    <3> QED BY <1>3, <1>4, <3>1 DEF Export!Exists
  <2>3. (workerAt # "expire" => expiring = {}) /\ Export!DiesOfDeletionOnly'
    BY <1>1 DEF ExportInv, ExpiringSane, Export!DiesOfDeletionOnly
  <2> QED BY <1>1, <2>1, <2>2, <2>3 DEF ExpiringSane, Export!JobDirectory
<1>f. LitterSane'
  <2> SUFFICES ASSUME NEW d \in Export!Directory, disk[d].stage # "none"
               PROVE  Explained(d)' \/ (workerAt \in Making /\ d = Mine)
    BY <1>1 DEF LitterSane, Mine
  <2>1. d[2] \in Jobs
    BY ExportTypes
  <2>2. Explained(d) \/ (workerAt \in Making /\ d = Mine)
    BY DEF ExportInv, LitterSane
  <2>3. ASSUME Explained(d)
        PROVE  Explained(d)'
    <3>1. job[d[2]].status = "ready" => job'[d[2]].status = "ready"
      BY <1>4, <1>5, <2>1
    <3> QED BY <1>1, <1>6, <2>1, <2>3, <3>1 DEF Explained
  <2> QED BY <2>2, <2>3
<1> QED BY <1>a, <1>b, <1>c, <1>d, <1>e, <1>f DEF ExportInv

LEMMA ExportDeleteCamera ==
  ASSUME ExportInv, NEW c \in Cameras, Export!DeleteCamera(c)
  PROVE  ExportInv'
<1> DEFINE gone == {j \in Jobs : Export!Exists(j) /\ job[j].camera = c}
<1>1. /\ footage' = [footage EXCEPT ![c] = "absent"]
      /\ job' = [j \in Jobs |-> IF j \in gone THEN Export!NoRow ELSE job[j]]
      /\ artifacts' = {a \in artifacts : a.job \notin gone}
      /\ due' = due \ gone /\ reused' = reused \ gone
      /\ deletions' = deletions + 1 /\ deletions < MaxDeletions
      /\ littered' = littered \cup
           {d \in Export!Directory : disk[d].stage # "none" /\ Export!Left(c, d)}
      /\ UNCHANGED <<disk, queue, inQueue, activeJob, workerAt, run>>
      /\ UNCHANGED <<expiring, posts, restarts>>
  BY DEF Export!DeleteCamera, Export!loop
<1>2. /\ \A i \in Jobs : i \in gone => job'[i] = Export!NoRow
      /\ \A i \in Jobs : i \notin gone => job'[i] = job[i]
      /\ job' \in [Jobs -> Export!Row]
  <2>1. Export!NoRow \in Export!Row
    BY DEF Export!Row
  <2> QED BY <1>1, <2>1, ExportTypes
<1>3. Export!NoRow.status = "none"
  BY DEF Export!NoRow
<1>4. \A d \in Export!Directory : disk[d].stage # "none" /\ d[2] \in gone => d \in littered'
  BY <1>1 DEF Export!Left, Export!Exists
<1>5. deletions' \in 1..MaxDeletions /\ deletions' # 0 /\ deletions' > 0
  BY <1>1, ExportNumbers DEF ExportInv, Export!TypeOK
<1>6. littered' \subseteq Export!Directory /\ littered \subseteq littered'
  BY <1>1 DEF ExportInv, Export!TypeOK
<1> HIDE DEF gone
<1>a. Export!TypeOK'
  BY <1>1, <1>2, <1>5, <1>6 DEF ExportInv, Export!TypeOK
<1>b. WorkerSane'
  BY <1>1 DEF ExportInv, WorkerSane, Mine
<1>c. CarriedSane'
  <2> SUFFICES ASSUME workerAt \in Carrying
               PROVE  /\ job'[activeJob].status \in {"none", "pending", "processing"}
                      /\ Export!Exists(activeJob)' /\ activeJob \notin reused' =>
                           run.camera = job'[activeJob].camera /\ run.request = job'[activeJob].request
    BY <1>1 DEF CarriedSane
  <2>1. activeJob \in Jobs
    BY DEF ExportInv, WorkerSane
  <2>2. CASE activeJob \in gone
    BY <1>1, <1>2, <1>3, <2>1, <2>2 DEF Export!Exists
  <2>3. CASE activeJob \notin gone
    <3>1. job'[activeJob] = job[activeJob]
      BY <1>2, <2>1, <2>3
    <3>2. activeJob \notin reused' => activeJob \notin reused
      BY <1>1, <2>3
    <3> QED BY <1>1, <3>1, <3>2 DEF ExportInv, CarriedSane, Export!Exists
  <2> QED BY <2>2, <2>3
<1>d. PublishedSane'
  <2>1. ASSUME NEW a \in artifacts'
        PROVE  /\ a.directory[2] = a.job /\ job'[a.job].status \in {"ready", "expired"}
               /\ a.job \notin reused' =>
                    /\ a.directory = Export!JobDirectory(a.job)'
                    /\ job'[a.job].status = "ready" /\ disk[a.directory].stage = "final" =>
                         disk[a.directory].request = job'[a.job].request
    <3>1. a \in artifacts /\ a.job \notin gone /\ a.job \in Jobs
      BY <1>1, ExportTypes
    <3>2. job'[a.job] = job[a.job]
      BY <1>2, <3>1
    <3>3. a.job \notin reused' => a.job \notin reused
      BY <1>1, <3>1
    <3> QED BY <3>1, <3>2, <3>3 DEF ExportInv, PublishedSane, Export!JobDirectory
  <2>2. ASSUME NEW i \in Jobs, job'[i].status = "ready"
        PROVE  \E a \in artifacts' : a.job = i /\ (i \notin due' => disk[a.directory].stage = "final")
    <3>1. i \notin gone /\ job[i].status = "ready"
      BY <1>2, <1>3, <2>2
    <3>2. PICK a \in artifacts : a.job = i /\ (i \notin due => disk[a.directory].stage = "final")
      BY <3>1 DEF ExportInv, PublishedSane
    <3>3. a \in artifacts'
      BY <1>1, <3>1, <3>2
    <3> QED BY <1>1, <3>1, <3>2, <3>3
  <2>3. ASSUME NEW i \in due'
        PROVE  job'[i].status = "ready"
    <3>1. i \in Jobs /\ i \notin gone /\ job[i].status = "ready"
      BY <1>1, <2>3 DEF ExportInv, PublishedSane, Export!TypeOK
    <3> QED BY <1>2, <3>1
  <2> QED BY <1>1, <2>1, <2>2, <2>3 DEF PublishedSane, Export!JobDirectory
<1>e. ExpiringSane'
  <2>1. ASSUME NEW i \in expiring, i \notin reused', Export!Exists(i)'
        PROVE  disk[Export!JobDirectory(i)'].stage = "none"
    <3>1. i \in Jobs
      BY DEF ExportInv, Export!TypeOK
    <3>2. i \notin gone
      BY <1>2, <1>3, <2>1, <3>1 DEF Export!Exists
    <3>3. job'[i] = job[i] /\ i \notin reused
      BY <1>1, <1>2, <2>1, <3>1, <3>2
    <3> QED BY <2>1, <3>3 DEF ExportInv, ExpiringSane, Export!Exists, Export!JobDirectory
  <2>2. (workerAt # "expire" => expiring = {}) /\ Export!DiesOfDeletionOnly'
    BY <1>5 DEF ExportInv, ExpiringSane, Export!DiesOfDeletionOnly
  <2> QED BY <1>1, <1>5, <2>1, <2>2 DEF ExpiringSane, Export!JobDirectory
<1>f. LitterSane'
  <2> SUFFICES ASSUME NEW d \in Export!Directory, disk[d].stage # "none"
               PROVE  Explained(d)' \/ (workerAt \in Making /\ d = Mine)
    BY <1>1 DEF LitterSane, Mine
  <2>1. d[2] \in Jobs
    BY ExportTypes
  <2>2. CASE d[2] \in gone
    BY <1>4, <2>2 DEF Explained
  <2>3. CASE d[2] \notin gone
    <3>1. job'[d[2]] = job[d[2]] /\ (d[2] \in reused => d[2] \in reused')
      BY <1>1, <1>2, <2>1, <2>3
    <3>2. [job |-> d[2], directory |-> d] \in artifacts => [job |-> d[2], directory |-> d] \in artifacts'
      <4>1. [job |-> d[2], directory |-> d].job = d[2]
        OBVIOUS
      <4> QED BY <1>1, <2>3, <4>1
    <3>3. Explained(d) \/ (workerAt \in Making /\ d = Mine)
      BY DEF ExportInv, LitterSane
    <3> QED BY <1>6, <3>1, <3>2, <3>3 DEF Explained
  <2> QED BY <2>2, <2>3
<1> QED BY <1>a, <1>b, <1>c, <1>d, <1>e, <1>f DEF ExportInv

\* The queue _recover_jobs makes holds jobs.
LEMMA RecoveredQueue ==
  ASSUME NEW S \in SUBSET Jobs
  PROVE  [i \in 1..Cardinality(S) |->
            CHOOSE j \in S : Cardinality({k \in S : k < j}) = i - 1] \in Seq(Jobs)
<1>1. S \in SUBSET Nat /\ IsFiniteSet(S)
  BY ManagersAssumption, FS_Subset
<1>2. Cardinality(S) \in Nat
  BY <1>1, FS_CardinalityType
<1> DEFINE At(i) == CHOOSE j \in S : Cardinality({k \in S : k < j}) = i - 1
           made == [i \in 1..Cardinality(S) |-> At(i)]
<1>3. ASSUME NEW i \in 1..Cardinality(S)
      PROVE  At(i) \in Jobs
  <2>1. \E j \in S : Cardinality({k \in S : k < j}) = i - 1
    BY <1>1, Ranked DEF Below
  <2>2. At(i) \in S
    BY <2>1
  <2> QED BY <2>2
<1> HIDE DEF At
<1>4. made \in [1..Cardinality(S) -> Jobs]
  BY <1>3
<1> HIDE DEF made
<1>5. made \in Seq(Jobs)
  BY <1>2, <1>4, SeqDef
<1> QED BY <1>5 DEF made, At

LEMMA ExportRestart ==
  ASSUME ExportInv, Export!Restart
  PROVE  ExportInv'
<1>1. /\ restarts < MaxRestarts /\ restarts' = restarts + 1
      /\ job' = [j \in Jobs |-> IF job[j].status = "processing"
                                 THEN [job[j] EXCEPT !.status = "failed"] ELSE job[j]]
      /\ activeJob' = 0 /\ workerAt' = "idle" /\ run' = Export!NoRun /\ expiring' = {}
      /\ littered' = IF run.camera # 0 /\ disk[Mine].stage # "none"
                     THEN littered \cup {Mine} ELSE littered
      /\ UNCHANGED <<footage, artifacts, due, disk, posts, deletions, reused>>
  BY DEF Export!Restart, Export!Here, Mine
<1> DEFINE pending == {j \in Jobs : job[j].status = "pending"}
<1>2. queue' \in Seq(Jobs) /\ inQueue' \subseteq Jobs
  <2>1. /\ inQueue' = pending
        /\ queue' = [i \in 1..Cardinality(pending) |->
             CHOOSE j \in pending : Cardinality({k \in pending : k < j}) = i - 1]
    BY Zenon DEF Export!Restart, Export!Cardinality, Cardinality
  <2>2. pending \in SUBSET Jobs
    OBVIOUS
  <2> HIDE DEF pending
  <2>3. [i \in 1..Cardinality(pending) |->
             CHOOSE j \in pending : Cardinality({k \in pending : k < j}) = i - 1] \in Seq(Jobs)
    BY <2>2, RecoveredQueue
  <2> QED BY <2>1, <2>2, <2>3
<1>3. /\ job' \in [Jobs -> Export!Row]
      /\ \A i \in Jobs : /\ job'[i].status = IF job[i].status = "processing" THEN "failed"
                                                                             ELSE job[i].status
                         /\ job'[i].camera = job[i].camera /\ job'[i].request = job[i].request
  <2>1. ASSUME NEW i \in Jobs
        PROVE  /\ job'[i] \in Export!Row
               /\ job'[i].status = IF job[i].status = "processing" THEN "failed" ELSE job[i].status
               /\ job'[i].camera = job[i].camera /\ job'[i].request = job[i].request
    <3>1. CASE job[i].status # "processing"
      <4>1. job'[i] = job[i]
        BY <1>1, <3>1
      <4> QED BY <3>1, <4>1, ExportTypes
    <3>2. CASE job[i].status = "processing"
      <4>1. job[i] \in [status : Export!Status, camera : Cameras, request : Export!Request]
        <5>1. job[i] \in Export!Row
          BY ExportTypes
        <5> QED BY <3>2, <5>1 DEF Export!Row, Export!NoRow
      <4>2. job'[i] = [job[i] EXCEPT !.status = "failed"]
        BY <1>1, <3>2
      <4> QED BY <3>2, <4>1, <4>2 DEF Export!Row, Export!Status
    <3> QED BY <3>1, <3>2
  <2>2. job' = [i \in Jobs |-> job'[i]]
    BY <1>1
  <2> QED BY <2>1, <2>2
<1>4. Export!NoRun \in [camera : Cameras \cup {0}, request : Export!Request, groups : 0..MaxGroups]
  BY ExportNumbers DEF Export!NoRun, Export!Request
<1>5. littered' \subseteq Export!Directory /\ littered \subseteq littered'
  <2>1. CASE run.camera # 0 /\ disk[Mine].stage # "none"
    <3>1. activeJob \in Jobs /\ run.camera \in Cameras
      <4>1. run # Export!NoRun
        BY <2>1 DEF Export!NoRun
      <4>2. workerAt \in Carrying \cup {"close"}
        BY <4>1 DEF ExportInv, Export!TypeOK, Export!Point, WorkerSane, Carrying
      <4> QED BY <4>1, <4>2 DEF ExportInv, WorkerSane
    <3>2. Mine \in Export!Directory
      BY <3>1 DEF Mine, Export!Directory
    <3> QED BY <1>1, <2>1, <3>2 DEF ExportInv, Export!TypeOK
  <2>2. CASE ~(run.camera # 0 /\ disk[Mine].stage # "none")
    BY <1>1, <2>2 DEF ExportInv, Export!TypeOK
  <2> QED BY <2>1, <2>2
<1>a. Export!TypeOK'
  <2>1. restarts' \in 0..MaxRestarts
    BY <1>1, ExportNumbers DEF ExportInv, Export!TypeOK
  <2> QED BY <1>1, <1>2, <1>3, <1>4, <1>5, <2>1 DEF ExportInv, Export!TypeOK, Export!Point
<1>b. WorkerSane' /\ CarriedSane'
  BY <1>1 DEF WorkerSane, CarriedSane, Carrying, Making
<1>d. PublishedSane'
  <2>1. ASSUME NEW a \in artifacts
        PROVE  /\ a.directory[2] = a.job /\ job'[a.job].status \in {"ready", "expired"}
               /\ a.job \notin reused =>
                    /\ a.directory = Export!JobDirectory(a.job)'
                    /\ job'[a.job].status = "ready" /\ disk[a.directory].stage = "final" =>
                         disk[a.directory].request = job'[a.job].request
    <3>1. a.job \in Jobs /\ job[a.job].status \in {"ready", "expired"}
      BY ExportTypes DEF ExportInv, PublishedSane
    <3>2. /\ job'[a.job].status = job[a.job].status /\ job'[a.job].camera = job[a.job].camera
          /\ job'[a.job].request = job[a.job].request
      BY <1>3, <3>1
    <3> QED BY <3>2 DEF ExportInv, PublishedSane, Export!JobDirectory
  <2>2. ASSUME NEW i \in Jobs, job'[i].status = "ready"
        PROVE  \E a \in artifacts : a.job = i /\ (i \notin due => disk[a.directory].stage = "final")
    <3>1. job[i].status = "ready"
      BY <1>3, <2>2
    <3> QED BY <3>1 DEF ExportInv, PublishedSane
  <2>3. ASSUME NEW i \in due
        PROVE  job'[i].status = "ready"
    <3>1. i \in Jobs /\ job[i].status = "ready"
      BY DEF ExportInv, PublishedSane, Export!TypeOK
    <3> QED BY <1>3, <3>1
  <2> QED BY <1>1, <2>1, <2>2, <2>3 DEF PublishedSane, Export!JobDirectory
<1>e. ExpiringSane'
  BY <1>1 DEF ExpiringSane, Export!DiesOfDeletionOnly
<1>f. LitterSane'
  <2> SUFFICES ASSUME NEW d \in Export!Directory, disk[d].stage # "none"
               PROVE  Explained(d)'
    BY <1>1 DEF LitterSane
  <2>1. d[2] \in Jobs
    BY ExportTypes
  <2>2. CASE Explained(d)
    BY <1>1, <1>3, <1>5, <2>1, <2>2 DEF Explained
  <2>3. CASE workerAt \in Making /\ d = Mine
    <3>1. run.camera # 0
      <4>1. run.camera \in Cameras
        BY <2>3 DEF ExportInv, WorkerSane, Making, Carrying
      <4> QED BY <4>1, ExportNumbers
    <3> QED BY <1>1, <2>3, <3>1 DEF Explained
  <2> QED BY <2>2, <2>3 DEF ExportInv, LitterSane
<1> QED BY <1>a, <1>b, <1>d, <1>e, <1>f DEF ExportInv


LEMMA ExportInit == Export!Init => ExportInv
<1> SUFFICES ASSUME Export!Init
             PROVE  ExportInv
  OBVIOUS
<1>1. /\ artifacts = {} /\ due = {} /\ queue = <<>> /\ inQueue = {} /\ activeJob = 0
      /\ workerAt = "idle" /\ run = Export!NoRun /\ expiring = {}
      /\ posts = 0 /\ deletions = 0 /\ restarts = 0 /\ reused = {} /\ littered = {}
      /\ footage = [c \in Cameras |-> IF c = 1 THEN "local" ELSE "absent"]
      /\ job = [j \in Jobs |-> Export!NoRow]
      /\ disk = [d \in Export!Directory |-> Export!Empty]
  BY DEF Export!Init
<1>2. Export!NoRow \in Export!Row /\ Export!NoRow.status = "none"
  BY DEF Export!Row, Export!NoRow
<1>3. Export!NoRun \in [camera : Cameras \cup {0}, request : Export!Request, groups : 0..MaxGroups]
  BY ExportNumbers DEF Export!NoRun, Export!Request
<1>4. \A j \in Jobs : job[j].status = "none"
  BY <1>1, <1>2
<1>5. \A d \in Export!Directory : disk[d].stage = "none"
  BY <1>1, EmptyDirectory
<1>6. Export!TypeOK
  <2>1. disk \in [Export!Directory -> [stage : {"none", "work", "final"}, request : Export!Request]]
    BY <1>1, EmptyDirectory
  <2>2. queue \in Seq(Jobs)
    BY <1>1
  <2>3. posts \in 0..MaxPosts /\ deletions \in 0..MaxDeletions /\ restarts \in 0..MaxRestarts
    BY <1>1, ExportNumbers
  <2>4. job \in [Jobs -> Export!Row] /\ footage \in [Cameras -> {"absent", "none", "local"}]
    BY <1>1, <1>2
  <2> QED BY <1>1, <1>3, <2>1, <2>2, <2>3, <2>4 DEF Export!TypeOK, Export!Point
<1>7. WorkerSane /\ CarriedSane
  BY <1>1 DEF WorkerSane, CarriedSane, Carrying, Making
<1>8. PublishedSane /\ ExpiringSane
  BY <1>1, <1>4 DEF PublishedSane, ExpiringSane, Export!DiesOfDeletionOnly
<1>9. LitterSane
  BY <1>5 DEF LitterSane
<1> QED BY <1>6, <1>7, <1>8, <1>9 DEF ExportInv

LEMMA ExportStep ==
  ASSUME ExportInv, [Export!Next]_(Export!vars)
  PROVE  ExportInv'
<1>1. CASE UNCHANGED Export!vars
  <2>1. footage' \in [Cameras -> {"absent", "none", "local"}]
    BY <1>1 DEF Export!vars, ExportInv, Export!TypeOK
  <2> QED BY <1>1, <2>1, ExportAside DEF Export!vars, Export!rows, Export!loop, Export!counts
<1>2. CASE Export!Environment
  BY <1>2, ExportCreate, ExportFootage, ExportDeleteCamera, ExportCreateCamera,
     ExportElapse, ExportRestart DEF Export!Environment
<1>3. CASE Export!Worker
  BY <1>3, ExportTake, ExportIdle, ExportOpen, ExportBegin, ExportGiveUp, ExportRender,
     ExportProgress, ExportPack, ExportPublish, ExportFail, ExportClose, ExportClean,
     ExportExpire DEF Export!Worker
<1> QED BY <1>1, <1>2, <1>3 DEF Export!Next

LEMMA ExportHonest ==
  ASSUME ExportInv
  PROVE  /\ Export!TypeOK /\ Export!ReadyIsServed /\ Export!ServesOwnRequest
         /\ Export!LitterExplained /\ Export!DiesOfDeletionOnly
<1> DEFINE Files(j) == {b \in artifacts : b.job = j /\ disk[b.directory].stage = "final"}
<1>1. ASSUME NEW j \in Jobs, job[j].status = "ready", j \notin due
      PROVE  Export!Download(j) # {}
  <2>1. PICK a \in artifacts : a.job = j /\ disk[a.directory].stage = "final"
    BY <1>1 DEF ExportInv, PublishedSane
  <2>2. disk[a.directory].request \in {disk[b.directory].request : b \in Files(j)}
    BY <2>1
  <2>3. Export!Download(j) = {disk[b.directory].request : b \in Files(j)}
    BY <1>1 DEF Export!Download
  <2> QED BY <2>2, <2>3
<1>2. ASSUME NEW j \in Jobs \ reused
      PROVE  Export!Download(j) \subseteq {job[j].request}
  <2>1. CASE job[j].status = "ready" /\ j \notin due
    <3>1. Export!Download(j) = {disk[b.directory].request : b \in Files(j)}
      BY <2>1 DEF Export!Download
    <3>2. ASSUME NEW a \in Files(j)
          PROVE  disk[a.directory].request = job[j].request
      BY <2>1, <3>2 DEF ExportInv, PublishedSane
    <3> HIDE DEF Files
    <3> QED BY <3>1, <3>2
  <2>2. CASE ~(job[j].status = "ready" /\ j \notin due)
    BY <2>2 DEF Export!Download
  <2> QED BY <2>1, <2>2
<1>3. ASSUME NEW d \in Export!Directory, disk[d].stage # "none"
      PROVE  \/ d \in littered \/ d[2] \in reused
             \/ activeJob = d[2] /\ run.camera = d[1]
             \/ job[d[2]].status = "ready" /\ [job |-> d[2], directory |-> d] \in artifacts
  <2>1. CASE Explained(d)
    BY <2>1 DEF Explained
  <2>2. CASE workerAt \in Making /\ d = Mine
    BY <2>2 DEF Mine
  <2> QED BY <1>3, <2>1, <2>2 DEF ExportInv, LitterSane
<1> QED BY <1>1, <1>2, <1>3 DEF ExportInv, ExpiringSane, Export!ReadyIsServed,
        Export!ServesOwnRequest, Export!LitterExplained

-----------------------------------------------------------------------------
(* OutageAlert                                                             *)
\* An alert that is past its delay belongs to an outage that is on, and what
\* was told of an outage is marked as alerted while it lasts.
ToldOnce ==
  /\ told \in {0, 1}
  /\ alert \in {"reload", "record"} => offline /\ told = 0
  /\ alert = "reload" => ~alerted
  /\ alert = "record" => alerted
  /\ offline /\ told = 1 => alerted

\* FFmpeg is watched for stability only while the loop takes it for running.
Watching ==
  /\ stability # "none" => loop = "up"
  /\ loop = "streak" => streak

\* The dispatcher, once it has seen what is written, has no streak as active.
Quiet ==
  IF unseen = <<>> THEN ~incident ELSE unseen[Len(unseen)] = "stable"

\* Before the end of a streak has gone unsaid, streaks and their ends alternate
\* in what is written, and the next streak finds the one before ended.
Alternating ==
  /\ \A i \in 1..(Len(unseen) - 1) : unseen[i] = "streak" => unseen[i + 1] = "stable"
  /\ unseen # <<>> /\ incident => unseen[1] = "stable"
  /\ loop = "streak" \/ (~streak /\ stability # "record") => Quiet
  /\ ~(loop = "off" /\ streak)

OutageInv ==
  /\ Outage!TypeOK /\ Outage!StoppedIsSilent
  /\ ToldOnce /\ Watching
  /\ ~hushed => Alternating
  /\ Outage!WithheldExplained

LEMMA OutageNumbers == Threshold \in Nat \ {0} /\ {MaxExits, MaxStops, MaxLapses} \subseteq Nat
BY ManagersAssumption

\* The state without what is written and not seen, and without the counters.
OutagePlaces ==
  /\ loop \in {"off", "spawn", "up", "exited", "lost", "check", "streak", "backoff"}
  /\ {stopAsked, alive, streak, offline, alerted, mailing, incident, hushed, withheld}
       \subseteq BOOLEAN
  /\ alert \in {"none", "load", "sleep", "reload", "record", "send"}
  /\ recovery \in {"none", "load", "sleep", "restored", "wasAlerted", "recovered", "send"}
  /\ stability \in {"none", "sleep", "record"}
OutageCounts ==
  /\ failures \in 0..Threshold
  /\ exits \in 0..MaxExits /\ stops \in 0..MaxStops /\ faults \in 0..MaxLapses
Written == unseen \in Seq({"streak", "stable"})

LEMMA OutageTypes == OutageInv =>
  OutagePlaces /\ OutageCounts /\ Written /\ Outage!StoppedIsSilent /\ ToldOnce /\ Watching
BY DEF OutageInv, Outage!TypeOK, OutagePlaces, OutageCounts, Written

LEMMA OutageInit ==
  ASSUME Outage!Init
  PROVE  OutageInv
<1>1. OutagePlaces /\ ToldOnce /\ Watching /\ Outage!StoppedIsSilent /\ Outage!WithheldExplained
  BY DEF Outage!Init, OutagePlaces, ToldOnce, Watching, Outage!StoppedIsSilent,
         Outage!WithheldExplained
<1>2. OutageCounts
  BY OutageNumbers DEF Outage!Init, OutageCounts
<1>3. Written
  BY DEF Outage!Init, Written
<1>4. Alternating
  BY DEF Outage!Init, Alternating, Quiet
<1>5. told \in Nat
  BY DEF Outage!Init
<1> QED BY <1>1, <1>2, <1>3, <1>4, <1>5
        DEF OutageInv, Outage!TypeOK, OutagePlaces, OutageCounts, Written

LEMMA PlacesKept ==
  ASSUME OutagePlaces, Outage!Next \/ UNCHANGED Outage!alertVars
  PROVE  OutagePlaces'
<1> USE DEF OutagePlaces, Outage!worker, Outage!tasks, Outage!dispatch, Outage!alertCounts,
        Outage!Works, Outage!Breaks
<1>1. CASE Outage!Start
  BY <1>1 DEF Outage!Start
<1>2. CASE Outage!SpawnFails
  BY <1>2 DEF Outage!SpawnFails, Outage!Grown
<1>3. CASE Outage!Spawned
  BY <1>3 DEF Outage!Spawned
<1>4. CASE Outage!Exit
  BY <1>4 DEF Outage!Exit
<1>5. CASE Outage!Noticed
  BY <1>5 DEF Outage!Noticed, Outage!Grown
<1>6. CASE Outage!MarkDisconnected
  BY <1>6 DEF Outage!MarkDisconnected
<1>7. CASE Outage!ScheduleAlert
  BY <1>7 DEF Outage!ScheduleAlert
<1>8. CASE Outage!CheckStreak
  BY <1>8 DEF Outage!CheckStreak
<1>9. CASE Outage!Again
  BY <1>9 DEF Outage!Again
<1>10. CASE Outage!Stop
  BY <1>10 DEF Outage!Stop
<1>11. CASE Outage!Stopped
  BY <1>11 DEF Outage!Stopped
<1>12. CASE Outage!OfflineAlert
  BY <1>12 DEF Outage!OfflineAlert, Outage!AlertUnless, Outage!AlertAt, Outage!AlertKeeps
<1>13. CASE Outage!ConfirmRecovery
  BY <1>13 DEF Outage!ConfirmRecovery, Outage!Confirmable
<1>14. CASE Outage!ConfirmStable
  BY <1>14 DEF Outage!ConfirmStable
<1>15. CASE Outage!Dispatch
  BY <1>15 DEF Outage!Dispatch
<1>16. CASE Outage!SwitchMail
  BY <1>16 DEF Outage!SwitchMail
<1>17. CASE UNCHANGED Outage!alertVars
  BY <1>17 DEF Outage!alertVars
<1> QED BY <1>1, <1>2, <1>3, <1>4, <1>5, <1>6, <1>7, <1>8, <1>9, <1>10, <1>11, <1>12, <1>13,
           <1>14, <1>15, <1>16, <1>17
      DEF Outage!Next, Outage!LoopStep, Outage!TaskStep

LEMMA CountsKept ==
  ASSUME OutageCounts, Outage!Next \/ UNCHANGED Outage!alertVars
  PROVE  OutageCounts'
<1> USE OutageNumbers DEF OutageCounts, Outage!worker, Outage!tasks, Outage!dispatch,
        Outage!alertCounts, Outage!Works, Outage!Breaks
<1>1. CASE Outage!Start
  BY <1>1 DEF Outage!Start
<1>2. CASE Outage!SpawnFails
  BY <1>2 DEF Outage!SpawnFails, Outage!Grown
<1>3. CASE Outage!Spawned
  BY <1>3 DEF Outage!Spawned
<1>4. CASE Outage!Exit
  BY <1>4 DEF Outage!Exit
<1>5. CASE Outage!Noticed
  BY <1>5 DEF Outage!Noticed, Outage!Grown
<1>6. CASE Outage!MarkDisconnected
  BY <1>6 DEF Outage!MarkDisconnected
<1>7. CASE Outage!ScheduleAlert
  BY <1>7 DEF Outage!ScheduleAlert
<1>8. CASE Outage!CheckStreak
  BY <1>8 DEF Outage!CheckStreak
<1>9. CASE Outage!Again
  BY <1>9 DEF Outage!Again
<1>10. CASE Outage!Stop
  BY <1>10 DEF Outage!Stop
<1>11. CASE Outage!Stopped
  BY <1>11 DEF Outage!Stopped
<1>12. CASE Outage!OfflineAlert
  BY <1>12 DEF Outage!OfflineAlert, Outage!AlertUnless, Outage!AlertAt, Outage!AlertKeeps
<1>13. CASE Outage!ConfirmRecovery
  BY <1>13 DEF Outage!ConfirmRecovery, Outage!Confirmable
<1>14. CASE Outage!ConfirmStable
  BY <1>14 DEF Outage!ConfirmStable
<1>15. CASE Outage!Dispatch
  BY <1>15 DEF Outage!Dispatch
<1>16. CASE Outage!SwitchMail
  BY <1>16 DEF Outage!SwitchMail
<1>17. CASE UNCHANGED Outage!alertVars
  BY <1>17 DEF Outage!alertVars
<1> QED BY <1>1, <1>2, <1>3, <1>4, <1>5, <1>6, <1>7, <1>8, <1>9, <1>10, <1>11, <1>12, <1>13,
           <1>14, <1>15, <1>16, <1>17
      DEF Outage!Next, Outage!LoopStep, Outage!TaskStep

LEMMA WrittenKept ==
  ASSUME Written, Outage!Next \/ UNCHANGED Outage!alertVars
  PROVE  Written'
<1>1. \/ unseen' \in {unseen, Append(unseen, "streak"), Append(unseen, "stable")}
      \/ unseen # <<>> /\ unseen' = Tail(unseen)
  <2> USE DEF Outage!worker, Outage!tasks, Outage!dispatch, Outage!alertCounts, Outage!Works,
          Outage!Breaks
  <2>1. CASE Outage!Start
    BY <2>1 DEF Outage!Start
  <2>2. CASE Outage!SpawnFails
    BY <2>2 DEF Outage!SpawnFails, Outage!Grown
  <2>3. CASE Outage!Spawned
    BY <2>3 DEF Outage!Spawned
  <2>4. CASE Outage!Exit
    BY <2>4 DEF Outage!Exit
  <2>5. CASE Outage!Noticed
    BY <2>5 DEF Outage!Noticed, Outage!Grown
  <2>6. CASE Outage!MarkDisconnected
    BY <2>6 DEF Outage!MarkDisconnected
  <2>7. CASE Outage!ScheduleAlert
    BY <2>7 DEF Outage!ScheduleAlert
  <2>8. CASE Outage!CheckStreak
    BY <2>8 DEF Outage!CheckStreak
  <2>9. CASE Outage!Again
    BY <2>9 DEF Outage!Again
  <2>10. CASE Outage!Stop
    BY <2>10 DEF Outage!Stop
  <2>11. CASE Outage!Stopped
    BY <2>11 DEF Outage!Stopped
  <2>12. CASE Outage!OfflineAlert
    BY <2>12 DEF Outage!OfflineAlert, Outage!AlertUnless, Outage!AlertAt, Outage!AlertKeeps
  <2>13. CASE Outage!ConfirmRecovery
    BY <2>13 DEF Outage!ConfirmRecovery, Outage!Confirmable
  <2>14. CASE Outage!ConfirmStable
    BY <2>14 DEF Outage!ConfirmStable
  <2>15. CASE Outage!Dispatch
    BY <2>15 DEF Outage!Dispatch
  <2>16. CASE Outage!SwitchMail
    BY <2>16 DEF Outage!SwitchMail
  <2>17. CASE UNCHANGED Outage!alertVars
    BY <2>17 DEF Outage!alertVars
  <2> QED BY <2>1, <2>2, <2>3, <2>4, <2>5, <2>6, <2>7, <2>8, <2>9, <2>10, <2>11, <2>12, <2>13,
             <2>14, <2>15, <2>16, <2>17
        DEF Outage!Next, Outage!LoopStep, Outage!TaskStep
<1> QED BY <1>1 DEF Written

LEMMA ToldOnceKept ==
  ASSUME OutagePlaces, ToldOnce, Outage!StoppedIsSilent, Watching,
         Outage!Next \/ UNCHANGED Outage!alertVars
  PROVE  ToldOnce' /\ Outage!StoppedIsSilent' /\ Watching'
<1> USE DEF OutagePlaces, ToldOnce, Outage!StoppedIsSilent, Watching, Outage!worker, Outage!tasks,
        Outage!dispatch, Outage!alertCounts, Outage!Works, Outage!Breaks
<1>1. CASE Outage!Start
  BY <1>1 DEF Outage!Start
<1>2. CASE Outage!SpawnFails
  BY <1>2 DEF Outage!SpawnFails, Outage!Grown
<1>3. CASE Outage!Spawned
  BY <1>3 DEF Outage!Spawned
<1>4. CASE Outage!Exit
  BY <1>4 DEF Outage!Exit
<1>5. CASE Outage!Noticed
  BY <1>5 DEF Outage!Noticed, Outage!Grown
<1>6. CASE Outage!MarkDisconnected
  BY <1>6 DEF Outage!MarkDisconnected
<1>7. CASE Outage!ScheduleAlert
  BY <1>7 DEF Outage!ScheduleAlert
<1>8. CASE Outage!CheckStreak
  BY <1>8 DEF Outage!CheckStreak
<1>9. CASE Outage!Again
  BY <1>9 DEF Outage!Again
<1>10. CASE Outage!Stop
  BY <1>10 DEF Outage!Stop
<1>11. CASE Outage!Stopped
  BY <1>11 DEF Outage!Stopped
<1>12. CASE Outage!OfflineAlert
  BY <1>12 DEF Outage!OfflineAlert, Outage!AlertUnless, Outage!AlertAt, Outage!AlertKeeps
<1>13. CASE Outage!ConfirmRecovery
  BY <1>13 DEF Outage!ConfirmRecovery, Outage!Confirmable
<1>14. CASE Outage!ConfirmStable
  BY <1>14 DEF Outage!ConfirmStable
<1>15. CASE Outage!Dispatch
  BY <1>15 DEF Outage!Dispatch
<1>16. CASE Outage!SwitchMail
  BY <1>16 DEF Outage!SwitchMail
<1>17. CASE UNCHANGED Outage!alertVars
  BY <1>17 DEF Outage!alertVars
<1> QED BY <1>1, <1>2, <1>3, <1>4, <1>5, <1>6, <1>7, <1>8, <1>9, <1>10, <1>11, <1>12, <1>13,
           <1>14, <1>15, <1>16, <1>17
      DEF Outage!Next, Outage!LoopStep, Outage!TaskStep

\* Alternating, of what is written and of where the worker is.
Order ==
  /\ \A i \in 1..(Len(unseen) - 1) : unseen[i] = "streak" => unseen[i + 1] = "stable"
  /\ unseen # <<>> /\ incident => unseen[1] = "stable"
Settled == (loop = "streak" \/ (~streak /\ stability # "record")) => Quiet

\* Nothing is written and nothing seen.
LEMMA QuietStep ==
  ASSUME OutagePlaces, Watching, ~hushed => Alternating,
         UNCHANGED <<unseen, incident>>, hushed => hushed',
         hushed' \in BOOLEAN,
         loop' = "streak" => loop = "streak" \/ (~streak /\ stability # "record"),
         ~streak' /\ stability' # "record" /\ ~hushed' => ~streak /\ stability # "record",
         ~hushed' => ~(loop' = "off" /\ streak')
  PROVE  ~hushed' => Alternating'
<1> SUFFICES ASSUME ~hushed'
             PROVE  Alternating'
  OBVIOUS
<1>1. Alternating
  BY DEF OutagePlaces
<1>2. Quiet' <=> Quiet
  BY DEF Quiet
<1>3. loop = "streak" \/ (~streak /\ stability # "record") => Quiet
  BY <1>1 DEF Alternating
<1>4. loop' = "streak" \/ (~streak' /\ stability' # "record") => Quiet'
  BY <1>2, <1>3
<1>5. /\ \A i \in 1..(Len(unseen') - 1) : unseen'[i] = "streak" => unseen'[i + 1] = "stable"
      /\ unseen' # <<>> /\ incident' => unseen'[1] = "stable"
  BY <1>1 DEF Alternating
<1> QED BY <1>4, <1>5 DEF Alternating

LEMMA AppendStreak ==
  ASSUME Written, Order, Quiet, unseen' = Append(unseen, "streak"), UNCHANGED incident
  PROVE  Order'
BY DEF Written, Order, Quiet

LEMMA AppendStable ==
  ASSUME Written, Order, unseen' = Append(unseen, "stable"), UNCHANGED incident
  PROVE  Order' /\ Quiet'
BY DEF Written, Order, Quiet

LEMMA SeeOne ==
  ASSUME Written, Order, unseen # <<>>, unseen' = Tail(unseen), incident \in BOOLEAN,
         mailing \in BOOLEAN,
         incident' = (IF Head(unseen) = "stable" THEN FALSE ELSE incident \/ mailing)
  PROVE  Order' /\ (Quiet => Quiet') /\ (Head(unseen) # "stable" => ~incident)
<1>a. Len(unseen) \in Nat \ {0} /\ Len(unseen') = Len(unseen) - 1
  BY DEF Written
<1>b. \A i \in 1..(Len(unseen) - 1) : unseen'[i] = unseen[i + 1]
  BY <1>a DEF Written
<1>c. Head(unseen) = unseen[1] /\ \A i \in 1..Len(unseen) : unseen[i] \in {"streak", "stable"}
  BY DEF Written
<1>d. unseen' \in Seq({"streak", "stable"})
  BY DEF Written
<1>e. (unseen' = <<>>) <=> (Len(unseen) = 1)
  <2>1. \A s \in Seq({"streak", "stable"}) : (s = <<>>) <=> (Len(s) = 0)
    OBVIOUS
  <2>2. (unseen' = <<>>) <=> (Len(unseen') = 0)
    BY <1>d, <2>1
  <2> QED BY <1>a, <2>2
<1>1. /\ Len(unseen) \in Nat \ {0} /\ Len(unseen') = Len(unseen) - 1
      /\ \A i \in 1..(Len(unseen) - 1) : unseen'[i] = unseen[i + 1]
      /\ Head(unseen) = unseen[1]
      /\ \A i \in 1..Len(unseen) : unseen[i] \in {"streak", "stable"}
      /\ (unseen' = <<>>) <=> (Len(unseen) = 1)
  BY <1>a, <1>b, <1>c, <1>e
<1>2. \A i \in 1..(Len(unseen') - 1) : unseen'[i] = "streak" => unseen'[i + 1] = "stable"
  <2> SUFFICES ASSUME NEW i \in 1..(Len(unseen') - 1), unseen'[i] = "streak"
               PROVE  unseen'[i + 1] = "stable"
    OBVIOUS
  <2>1. unseen'[i] = unseen[i + 1] /\ unseen'[i + 1] = unseen[i + 2]
    BY <1>1
  <2>2. i + 1 \in 1..(Len(unseen) - 1)
    BY <1>1
  <2> QED BY <2>1, <2>2 DEF Order
<1>3. Head(unseen) # "stable" => ~incident
  BY <1>1 DEF Order
<1>4. unseen' # <<>> /\ incident' => unseen'[1] = "stable"
  <2> SUFFICES ASSUME unseen' # <<>>, incident'
               PROVE  unseen'[1] = "stable"
    OBVIOUS
  <2>0. Head(unseen) # "stable"
    OBVIOUS
  <2>1. unseen[1] = "streak"
    BY <1>a, <1>c, <2>0
  <2>2. 1 \in 1..(Len(unseen) - 1)
    BY <1>1
  <2> QED BY <1>1, <2>1, <2>2 DEF Order
<1>5. Quiet => Quiet'
  <2> SUFFICES ASSUME Quiet
               PROVE  Quiet'
    OBVIOUS
  <2>1. unseen[Len(unseen)] = "stable"
    BY DEF Quiet
  <2>2. CASE unseen' = <<>>
    BY <1>1, <2>1, <2>2 DEF Quiet
  <2>3. CASE unseen' # <<>>
    <3>1. Len(unseen') \in 1..(Len(unseen) - 1)
      BY <1>1, <2>3
    <3>2. unseen'[Len(unseen')] = unseen[Len(unseen') + 1]
      BY <1>1, <3>1
    <3> QED BY <1>1, <2>1, <2>3, <3>2 DEF Quiet
  <2> QED BY <2>2, <2>3
<1> QED BY <1>2, <1>3, <1>4, <1>5 DEF Order

LEMMA AlternatingKept ==
  ASSUME OutagePlaces, Written, Watching, ~hushed => Alternating, Outage!StoppedIsSilent,
         Outage!WithheldExplained,
         Outage!Next \/ UNCHANGED Outage!alertVars
  PROVE  (~hushed' => Alternating') /\ Outage!WithheldExplained'
<1>a. Alternating <=> Order /\ Settled /\ ~(loop = "off" /\ streak)
  BY DEF Alternating, Order, Settled
<1>b. Alternating' <=> Order' /\ Settled' /\ ~(loop' = "off" /\ streak')
  BY DEF Alternating, Order, Settled
<1>q. ASSUME UNCHANGED <<unseen, incident, withheld>>, hushed => hushed',
             hushed' \in BOOLEAN,
         loop' = "streak" => loop = "streak" \/ (~streak /\ stability # "record"),
             ~streak' /\ stability' # "record" /\ ~hushed' => ~streak /\ stability # "record",
             ~hushed' => ~(loop' = "off" /\ streak')
      PROVE  (~hushed' => Alternating') /\ Outage!WithheldExplained'
  <2>1. ~hushed' => Alternating'
    BY <1>q, QuietStep
  <2> QED BY <1>q, <2>1 DEF Outage!WithheldExplained
<1>1. CASE Outage!Start
  <2>1. /\ UNCHANGED <<unseen, incident, withheld>> /\ hushed' \in BOOLEAN /\ (hushed => hushed')
        /\ loop' = "streak" => loop = "streak" \/ (~streak /\ stability # "record")
        /\ ~streak' /\ stability' # "record" /\ ~hushed' => ~streak /\ stability # "record"
        /\ ~hushed' => ~(loop' = "off" /\ streak')
    BY <1>1, <1>a DEF Outage!Start, OutagePlaces, Watching, Outage!StoppedIsSilent,
       Outage!worker, Outage!tasks, Outage!dispatch, Outage!alertCounts, Outage!Works, Outage!Breaks
  <2> QED BY <1>q, <2>1
<1>2. CASE Outage!SpawnFails
  <2>1. /\ UNCHANGED <<unseen, incident, withheld>> /\ hushed' \in BOOLEAN /\ (hushed => hushed')
        /\ loop' = "streak" => loop = "streak" \/ (~streak /\ stability # "record")
        /\ ~streak' /\ stability' # "record" /\ ~hushed' => ~streak /\ stability # "record"
        /\ ~hushed' => ~(loop' = "off" /\ streak')
    BY <1>2, <1>a DEF Outage!SpawnFails, Outage!Grown, OutagePlaces, Watching,
       Outage!StoppedIsSilent,
       Outage!worker, Outage!tasks, Outage!dispatch, Outage!alertCounts, Outage!Works, Outage!Breaks
  <2> QED BY <1>q, <2>1
<1>3. CASE Outage!Spawned
  <2>1. /\ UNCHANGED <<unseen, incident, withheld>> /\ hushed' \in BOOLEAN /\ (hushed => hushed')
        /\ loop' = "streak" => loop = "streak" \/ (~streak /\ stability # "record")
        /\ ~streak' /\ stability' # "record" /\ ~hushed' => ~streak /\ stability # "record"
        /\ ~hushed' => ~(loop' = "off" /\ streak')
    BY <1>3, <1>a DEF Outage!Spawned, OutagePlaces, Watching, Outage!StoppedIsSilent,
       Outage!worker, Outage!tasks, Outage!dispatch, Outage!alertCounts, Outage!Works, Outage!Breaks
  <2> QED BY <1>q, <2>1
<1>4. CASE Outage!Exit
  <2>1. /\ UNCHANGED <<unseen, incident, withheld>> /\ hushed' \in BOOLEAN /\ (hushed => hushed')
        /\ loop' = "streak" => loop = "streak" \/ (~streak /\ stability # "record")
        /\ ~streak' /\ stability' # "record" /\ ~hushed' => ~streak /\ stability # "record"
        /\ ~hushed' => ~(loop' = "off" /\ streak')
    BY <1>4, <1>a DEF Outage!Exit, OutagePlaces, Watching, Outage!StoppedIsSilent,
       Outage!worker, Outage!tasks, Outage!dispatch, Outage!alertCounts, Outage!Works, Outage!Breaks
  <2> QED BY <1>q, <2>1
<1>5. CASE Outage!Noticed
  <2>1. /\ UNCHANGED <<unseen, incident, withheld>> /\ hushed' \in BOOLEAN /\ (hushed => hushed')
        /\ loop' = "streak" => loop = "streak" \/ (~streak /\ stability # "record")
        /\ ~streak' /\ stability' # "record" /\ ~hushed' => ~streak /\ stability # "record"
        /\ ~hushed' => ~(loop' = "off" /\ streak')
    BY <1>5, <1>a DEF Outage!Noticed, Outage!Grown, OutagePlaces, Watching, Outage!StoppedIsSilent,
       Outage!worker, Outage!tasks, Outage!dispatch, Outage!alertCounts, Outage!Works, Outage!Breaks
  <2> QED BY <1>q, <2>1
<1>6. CASE Outage!MarkDisconnected
  <2>1. /\ UNCHANGED <<unseen, incident, withheld>> /\ hushed' \in BOOLEAN /\ (hushed => hushed')
        /\ loop' = "streak" => loop = "streak" \/ (~streak /\ stability # "record")
        /\ ~streak' /\ stability' # "record" /\ ~hushed' => ~streak /\ stability # "record"
        /\ ~hushed' => ~(loop' = "off" /\ streak')
    BY <1>6, <1>a DEF Outage!MarkDisconnected, OutagePlaces, Watching, Outage!StoppedIsSilent,
       Outage!worker, Outage!tasks, Outage!dispatch, Outage!alertCounts, Outage!Works, Outage!Breaks
  <2> QED BY <1>q, <2>1
<1>7. CASE Outage!ScheduleAlert
  <2>1. /\ UNCHANGED <<unseen, incident, withheld>> /\ hushed' \in BOOLEAN /\ (hushed => hushed')
        /\ loop' = "streak" => loop = "streak" \/ (~streak /\ stability # "record")
        /\ ~streak' /\ stability' # "record" /\ ~hushed' => ~streak /\ stability # "record"
        /\ ~hushed' => ~(loop' = "off" /\ streak')
    BY <1>7, <1>a DEF Outage!ScheduleAlert, OutagePlaces, Watching, Outage!StoppedIsSilent,
       Outage!worker, Outage!tasks, Outage!dispatch, Outage!alertCounts, Outage!Works, Outage!Breaks
  <2> QED BY <1>q, <2>1
<1>8. CASE Outage!Again
  <2>1. /\ UNCHANGED <<unseen, incident, withheld>> /\ hushed' \in BOOLEAN /\ (hushed => hushed')
        /\ loop' = "streak" => loop = "streak" \/ (~streak /\ stability # "record")
        /\ ~streak' /\ stability' # "record" /\ ~hushed' => ~streak /\ stability # "record"
        /\ ~hushed' => ~(loop' = "off" /\ streak')
    BY <1>8, <1>a DEF Outage!Again, OutagePlaces, Watching, Outage!StoppedIsSilent,
       Outage!worker, Outage!tasks, Outage!dispatch, Outage!alertCounts, Outage!Works, Outage!Breaks
  <2> QED BY <1>q, <2>1
<1>9. CASE Outage!Stop
  <2>1. /\ UNCHANGED <<unseen, incident, withheld>> /\ hushed' \in BOOLEAN /\ (hushed => hushed')
        /\ loop' = "streak" => loop = "streak" \/ (~streak /\ stability # "record")
        /\ ~streak' /\ stability' # "record" /\ ~hushed' => ~streak /\ stability # "record"
        /\ ~hushed' => ~(loop' = "off" /\ streak')
    BY <1>9, <1>a DEF Outage!Stop, OutagePlaces, Watching, Outage!StoppedIsSilent,
       Outage!worker, Outage!tasks, Outage!dispatch, Outage!alertCounts, Outage!Works, Outage!Breaks
  <2> QED BY <1>q, <2>1
<1>10. CASE Outage!Stopped
  <2>1. /\ UNCHANGED <<unseen, incident, withheld>> /\ hushed' \in BOOLEAN /\ (hushed => hushed')
        /\ loop' = "streak" => loop = "streak" \/ (~streak /\ stability # "record")
        /\ ~streak' /\ stability' # "record" /\ ~hushed' => ~streak /\ stability # "record"
        /\ ~hushed' => ~(loop' = "off" /\ streak')
    BY <1>10, <1>a DEF Outage!Stopped, OutagePlaces, Watching, Outage!StoppedIsSilent,
       Outage!worker, Outage!tasks, Outage!dispatch, Outage!alertCounts, Outage!Works, Outage!Breaks
  <2> QED BY <1>q, <2>1
<1>11. CASE Outage!OfflineAlert
  <2>1. /\ UNCHANGED <<unseen, incident, withheld>> /\ hushed' \in BOOLEAN /\ (hushed => hushed')
        /\ loop' = "streak" => loop = "streak" \/ (~streak /\ stability # "record")
        /\ ~streak' /\ stability' # "record" /\ ~hushed' => ~streak /\ stability # "record"
        /\ ~hushed' => ~(loop' = "off" /\ streak')
    BY <1>11, <1>a DEF Outage!OfflineAlert, Outage!AlertUnless, Outage!AlertAt, Outage!AlertKeeps,
       OutagePlaces, Watching, Outage!StoppedIsSilent,
       Outage!worker, Outage!tasks, Outage!dispatch, Outage!alertCounts, Outage!Works, Outage!Breaks
  <2> QED BY <1>q, <2>1
<1>12. CASE Outage!ConfirmRecovery
  <2>1. /\ UNCHANGED <<unseen, incident, withheld>> /\ hushed' \in BOOLEAN /\ (hushed => hushed')
        /\ loop' = "streak" => loop = "streak" \/ (~streak /\ stability # "record")
        /\ ~streak' /\ stability' # "record" /\ ~hushed' => ~streak /\ stability # "record"
        /\ ~hushed' => ~(loop' = "off" /\ streak')
    BY <1>12, <1>a DEF Outage!ConfirmRecovery, Outage!Confirmable, OutagePlaces, Watching,
       Outage!StoppedIsSilent,
       Outage!worker, Outage!tasks, Outage!dispatch, Outage!alertCounts, Outage!Works, Outage!Breaks
  <2> QED BY <1>q, <2>1
<1>13. CASE Outage!SwitchMail
  <2>1. /\ UNCHANGED <<unseen, incident, withheld>> /\ hushed' \in BOOLEAN /\ (hushed => hushed')
        /\ loop' = "streak" => loop = "streak" \/ (~streak /\ stability # "record")
        /\ ~streak' /\ stability' # "record" /\ ~hushed' => ~streak /\ stability # "record"
        /\ ~hushed' => ~(loop' = "off" /\ streak')
    BY <1>13, <1>a DEF Outage!SwitchMail, OutagePlaces, Watching, Outage!StoppedIsSilent,
       Outage!worker, Outage!tasks, Outage!dispatch, Outage!alertCounts, Outage!Works, Outage!Breaks
  <2> QED BY <1>q, <2>1
<1>14. CASE Outage!CheckStreak
  <2>1. CASE loop = "check"
    <3>1. /\ UNCHANGED <<unseen, incident, withheld, hushed, stability>> /\ hushed' \in BOOLEAN
          /\ loop' \in {"streak", "backoff"} /\ (loop' = "streak" => ~streak)
          /\ ~streak' => ~streak
      BY <1>14, <2>1 DEF Outage!CheckStreak, OutagePlaces, Outage!tasks
    <3>2. stability # "record"
      BY <2>1 DEF Watching
    <3>3. /\ hushed => hushed'
          /\ loop' = "streak" => loop = "streak" \/ (~streak /\ stability # "record")
          /\ ~streak' /\ stability' # "record" /\ ~hushed' => ~streak /\ stability # "record"
          /\ ~hushed' => ~(loop' = "off" /\ streak')
      BY <3>1, <3>2
    <3> QED BY <1>q, <3>1, <3>3
  <2>2. CASE loop = "streak"
    <3>1. /\ unseen' = unseen \/ unseen' = Append(unseen, "streak")
          /\ UNCHANGED <<incident, withheld, hushed, streak, stability>> /\ loop' = "backoff"
      BY <1>14, <2>2 DEF Outage!CheckStreak, OutagePlaces, Outage!tasks
    <3>2. streak
      BY <2>2 DEF Watching
    <3>3. ~hushed => Order'
      <4>1. CASE unseen' = unseen
        BY <1>a, <3>1, <4>1 DEF Order
      <4>2. CASE unseen' = Append(unseen, "streak")
        BY <1>a, <2>2, <3>1, <4>2, AppendStreak DEF Settled
      <4> QED BY <3>1, <4>1, <4>2
    <3>4. Settled' /\ ~(loop' = "off" /\ streak')
      BY <3>1, <3>2 DEF Settled
    <3> QED BY <1>b, <3>1, <3>3, <3>4 DEF Outage!WithheldExplained
  <2> QED BY <1>14, <2>1, <2>2 DEF Outage!CheckStreak
<1>15. CASE Outage!ConfirmStable
  <2>1. UNCHANGED <<incident, withheld, loop>>
    BY <1>15 DEF Outage!ConfirmStable
  <2>2. CASE stability = "sleep"
    <3>1. /\ UNCHANGED <<unseen, hushed>>
          /\ ~streak' /\ stability' # "record" => ~streak
          /\ streak' => streak
      BY <1>15, <2>2 DEF Outage!ConfirmStable, OutagePlaces
    <3>2. hushed' \in BOOLEAN /\ (~hushed' => ~(loop' = "off" /\ streak'))
      BY <1>a, <2>1, <3>1 DEF OutagePlaces
    <3> QED BY <1>q, <2>1, <2>2, <3>1, <3>2
  <2>3. CASE stability = "record"
    <3>1. /\ UNCHANGED <<streak>>
          /\ \/ unseen' = Append(unseen, "stable") /\ UNCHANGED hushed
             \/ hushed' = TRUE
      BY <1>15, <2>3 DEF Outage!ConfirmStable, OutagePlaces
    <3>2. CASE hushed' = TRUE
      BY <3>2 DEF Outage!WithheldExplained
    <3>3. CASE unseen' = Append(unseen, "stable") /\ UNCHANGED hushed
      <4>1. ~hushed => Order' /\ Quiet'
        BY <1>a, <2>1, <3>3, AppendStable
      <4> QED BY <1>a, <1>b, <2>1, <3>1, <3>3, <4>1 DEF Settled, Outage!WithheldExplained
    <3> QED BY <3>1, <3>2, <3>3
  <2> QED BY <1>15, <2>2, <2>3 DEF Outage!ConfirmStable
<1>16. CASE Outage!Dispatch
  <2>1. /\ unseen # <<>> /\ unseen' = Tail(unseen)
        /\ incident' = (IF Head(unseen) = "stable" THEN FALSE ELSE incident \/ mailing)
        /\ withheld' => withheld \/ (Head(unseen) # "stable" /\ incident)
        /\ UNCHANGED <<loop, streak, stability, hushed>>
    <3>1. CASE Head(unseen) = "stable"
      BY <1>16, <3>1 DEF Outage!Dispatch, Outage!worker, Outage!tasks
    <3>2. CASE Head(unseen) # "stable"
      BY <1>16, <3>2 DEF Outage!Dispatch, Outage!worker, Outage!tasks
    <3> QED BY <3>1, <3>2
  <2>2. incident \in BOOLEAN /\ mailing \in BOOLEAN
    BY DEF OutagePlaces
  <2>3. ~hushed => Order' /\ (Quiet => Quiet') /\ (Head(unseen) # "stable" => ~incident)
    BY <1>a, <2>1, <2>2, SeeOne
  <2>4. ~hushed' => Alternating'
    BY <1>a, <1>b, <2>1, <2>3 DEF Settled
  <2>5. withheld' => hushed'
    BY <2>1, <2>3 DEF Outage!WithheldExplained
  <2> QED BY <2>4, <2>5 DEF Outage!WithheldExplained
<1>17. CASE UNCHANGED Outage!alertVars
  <2>1. UNCHANGED <<unseen, incident, withheld, hushed, loop, streak, stability>>
    BY <1>17 DEF Outage!worker, Outage!tasks, Outage!dispatch, Outage!alertCounts, Outage!Works,
       Outage!Breaks, Outage!alertVars
  <2>2. hushed' \in BOOLEAN
    BY <2>1 DEF OutagePlaces
  <2> QED BY <1>a, <1>q, <2>1, <2>2
<1> QED BY <1>1, <1>2, <1>3, <1>4, <1>5, <1>6, <1>7, <1>8, <1>9, <1>10, <1>11, <1>12, <1>13,
           <1>14, <1>15, <1>16, <1>17
        DEF Outage!Next, Outage!LoopStep, Outage!TaskStep

LEMMA OutageStep ==
  ASSUME OutageInv, [Outage!Next]_(Outage!alertVars)
  PROVE  OutageInv'
<1>1. /\ OutagePlaces /\ OutageCounts /\ Written /\ Outage!StoppedIsSilent /\ ToldOnce /\ Watching
      /\ ~hushed => Alternating
      /\ Outage!WithheldExplained
  BY OutageTypes DEF OutageInv
<1>2. Outage!Next \/ UNCHANGED Outage!alertVars
  OBVIOUS
<1>3. OutagePlaces' /\ OutageCounts' /\ Written'
  BY <1>1, <1>2, PlacesKept, CountsKept, WrittenKept
<1>4. ToldOnce' /\ Outage!StoppedIsSilent' /\ Watching'
  BY <1>1, <1>2, ToldOnceKept
<1>5. (~hushed' => Alternating') /\ Outage!WithheldExplained'
  BY <1>1, <1>2, AlternatingKept
<1>6. Outage!TypeOK'
  BY <1>3, <1>4 DEF OutagePlaces, OutageCounts, Written, ToldOnce, Outage!TypeOK
<1> QED BY <1>4, <1>5, <1>6 DEF OutageInv

-----------------------------------------------------------------------------
(* AlertIncidents                                                          *)
\* Whatever is not alerted has been found well since it last was, and whatever
\* is alerted was mailed.
IncidentsInv ==
  /\ Incidents!TypeOK
  /\ incidents \subseteq mailed /\ Incidents!Keys \ incidents \subseteq calm
  /\ Incidents!IncidentsHonest

LEMMA Percentages ==
  /\ Full \in Nat /\ Critical \in 1..Full /\ MaxEvents \in Nat /\ MaxRaises \in Nat
  /\ Warning \in Nat
BY ManagersAssumption

LEMMA IncidentsInit ==
  ASSUME Incidents!Init
  PROVE  IncidentsInv
<1>1. Incidents!TypeOK
  <2>1. used \in 0..Full /\ 0 \in 0..MaxEvents /\ 0 \in 0..MaxRaises
    BY Percentages DEF Incidents!Init
  <2>2. cleanups \in Seq({"blocked", "failed", "completed"})
    BY DEF Incidents!Init
  <2>3. /\ {archiving, failing, mailable, flooded, unasked} \subseteq BOOLEAN
        /\ stage = "rest" /\ incidents = {} /\ mailed = {} /\ calm = Incidents!Keys
        /\ results = 0 /\ roundRaises = 0
    BY DEF Incidents!Init
  <2> QED BY <2>1, <2>2, <2>3 DEF Incidents!TypeOK
<1>2. /\ incidents \subseteq mailed /\ Incidents!Keys \ incidents \subseteq calm
      /\ ~flooded /\ ~unasked
  BY DEF Incidents!Init
<1> QED BY <1>1, <1>2 DEF IncidentsInv, Incidents!IncidentsHonest,
       Incidents!OneMailPerIncident, Incidents!RecoveryWasAnnounced

\* The lists of AlertDispatcher, which every part of check_once that touches
\* them leaves in order.
Lists ==
  /\ incidents \subseteq mailed /\ mailed \subseteq Incidents!Keys /\ calm \subseteq Incidents!Keys
  /\ Incidents!Keys \ incidents \subseteq calm
  /\ {flooded, unasked} \subseteq BOOLEAN
  /\ ~flooded /\ ~unasked

LEMMA AlertKeeps ==
  ASSUME Lists, NEW key \in Incidents!Keys, Incidents!Alert(key)
  PROVE  Lists'
BY DEF Lists, Incidents!Alert

LEMMA ClearKeeps ==
  ASSUME Lists, NEW key \in Incidents!Keys, Incidents!Clear(key), Incidents!Well({key})
  PROVE  Lists'
BY DEF Lists, Incidents!Clear, Incidents!Well

LEMMA RecoverKeeps ==
  ASSUME Lists, NEW key \in Incidents!Keys, Incidents!Recover(key), Incidents!Well({key})
  PROVE  Lists'
BY DEF Lists, Incidents!Recover, Incidents!Announce, Incidents!Well

LEMMA StillKeeps ==
  ASSUME Lists, UNCHANGED <<incidents, mailed, calm, flooded, unasked>>
  PROVE  Lists'
BY DEF Lists

\* The rest of the state.
Monitor == /\ used \in 0..Full /\ {archiving, failing, mailable} \subseteq BOOLEAN
         /\ cleanups \in Seq({"blocked", "failed", "completed"})
         /\ stage \in {"rest", "events", "storage", "recovered", "uploads"}
         /\ results \in 0..MaxEvents /\ roundRaises \in 0..MaxRaises

LEMMA IncidentsParts == IncidentsInv => Lists /\ Monitor
BY DEF IncidentsInv, Incidents!TypeOK, Lists, Monitor, Incidents!IncidentsHonest,
       Incidents!OneMailPerIncident, Incidents!RecoveryWasAnnounced

LEMMA IncidentsPartsNext == ASSUME Lists', Monitor' PROVE IncidentsInv'
BY DEF IncidentsInv, Incidents!TypeOK, Lists, Monitor, Incidents!IncidentsHonest,
       Incidents!OneMailPerIncident, Incidents!RecoveryWasAnnounced

LEMMA IncidentsStep ==
  ASSUME IncidentsInv, [Incidents!Next]_(Incidents!incidentVars)
  PROVE  IncidentsInv'
<1> USE Percentages
<1>0. Lists /\ Monitor
  BY IncidentsParts
<1>k. {"cleanup", "critical", "upload"} \subseteq Incidents!Keys
  BY DEF Incidents!Keys
<1>1. CASE Incidents!World
  <2>1. Lists'
    BY <1>0, <1>1, StillKeeps DEF Incidents!World, Incidents!Disk, Incidents!Uploads,
       Incidents!EditMail, Incidents!Cleanup, Incidents!incidentHistory
  <2>2. Monitor'
    <3>1. CASE Incidents!Disk
      BY <1>0, <3>1 DEF Monitor, Incidents!Disk
    <3>2. CASE Incidents!Uploads
      BY <1>0, <3>2 DEF Monitor, Incidents!Uploads
    <3>3. CASE Incidents!EditMail
      BY <1>0, <3>3 DEF Monitor, Incidents!EditMail
    <3>4. CASE Incidents!Cleanup
      BY <1>0, <3>4 DEF Monitor, Incidents!Cleanup, Incidents!outside
    <3> QED BY <1>1, <3>1, <3>2, <3>3, <3>4 DEF Incidents!World
  <2> QED BY <2>1, <2>2, IncidentsPartsNext
<1>2. CASE Incidents!Begin
  <2>1. Lists'
    BY <1>0, <1>2, StillKeeps DEF Incidents!Begin, Incidents!incidentHistory
  <2>2. Monitor'
    BY <1>0, <1>2 DEF Monitor, Incidents!Begin, Incidents!Goto, Incidents!outside
  <2> QED BY <2>1, <2>2, IncidentsPartsNext
<1>3. CASE Incidents!ProcessEvent
  <2>1. Lists'
    <3>1. CASE cleanups = <<>>
      BY <1>0, <1>3, <3>1, StillKeeps DEF Incidents!ProcessEvent
    <3>2. CASE cleanups # <<>> /\ Head(cleanups) = "completed"
      BY <1>0, <1>k, <1>3, <3>2, ClearKeeps DEF Incidents!ProcessEvent
    <3>3. CASE cleanups # <<>> /\ Head(cleanups) # "completed"
      BY <1>0, <1>k, <1>3, <3>3, AlertKeeps DEF Incidents!ProcessEvent
    <3> QED BY <3>1, <3>2, <3>3
  <2>2. /\ UNCHANGED <<used, archiving, failing, mailable, results, roundRaises>>
        /\ \/ cleanups' = cleanups
           \/ cleanups # <<>> /\ cleanups' = Tail(cleanups)
        /\ stage' \in {"storage", stage}
    BY <1>3 DEF Incidents!ProcessEvent, Incidents!outside, Incidents!Goto
  <2>3. Monitor'
    BY <1>0, <2>2 DEF Monitor
  <2> QED BY <2>1, <2>3, IncidentsPartsNext
<1>4. CASE Incidents!CheckStorage
  <2>1. /\ \/ Incidents!Alert("critical")
           \/ Incidents!Recover("critical") /\ Incidents!Well({"critical"})
           \/ UNCHANGED <<incidents, mailed, calm, flooded, unasked>>
        /\ stage' \in {"recovered", "uploads"}
        /\ UNCHANGED <<used, archiving, failing, mailable, cleanups, results, roundRaises>>
    <3>1. CASE Incidents!DiskState = "critical"
      BY <1>4, <3>1 DEF Incidents!CheckStorage, Incidents!outside, Incidents!Goto
    <3>2. CASE Incidents!DiskState # "critical" /\ used <= Warning
      BY <1>4, <3>2 DEF Incidents!CheckStorage, Incidents!outside, Incidents!Goto
    <3>3. CASE Incidents!DiskState # "critical" /\ ~(used <= Warning)
      BY <1>4, <3>3 DEF Incidents!CheckStorage, Incidents!outside, Incidents!Goto
    <3> QED BY <3>1, <3>2, <3>3
  <2>2. Lists'
    BY <1>0, <1>k, <2>1, AlertKeeps, RecoverKeeps, StillKeeps
  <2>3. Monitor'
    BY <1>0, <2>1 DEF Monitor
  <2> QED BY <2>2, <2>3, IncidentsPartsNext
<1>5. CASE Incidents!ClearCleanup
  <2>1. Lists'
    BY <1>0, <1>k, <1>5, ClearKeeps DEF Incidents!ClearCleanup
  <2>2. Monitor'
    BY <1>0, <1>5 DEF Monitor, Incidents!ClearCleanup, Incidents!outside, Incidents!Goto
  <2> QED BY <2>1, <2>2, IncidentsPartsNext
<1>6. CASE Incidents!CheckUploads
  <2>1. /\ \/ Incidents!Clear("upload") /\ Incidents!Well({"upload"})
           \/ Incidents!Alert("upload")
           \/ Incidents!Recover("upload") /\ Incidents!Well({"upload"})
        /\ stage' = "rest"
        /\ UNCHANGED <<used, archiving, failing, mailable, cleanups, results, roundRaises>>
    <3>1. CASE ~archiving
      BY <1>6, <3>1 DEF Incidents!CheckUploads, Incidents!outside, Incidents!Goto
    <3>2. CASE archiving /\ failing
      BY <1>6, <3>2 DEF Incidents!CheckUploads, Incidents!outside, Incidents!Goto
    <3>3. CASE archiving /\ ~failing
      BY <1>6, <3>3 DEF Incidents!CheckUploads, Incidents!outside, Incidents!Goto
    <3> QED BY <3>1, <3>2, <3>3
  <2>2. Lists'
    BY <1>0, <1>k, <2>1, AlertKeeps, ClearKeeps, RecoverKeeps
  <2>3. Monitor'
    BY <1>0, <2>1 DEF Monitor
  <2> QED BY <2>2, <2>3, IncidentsPartsNext
<1>7. CASE Incidents!Raise
  <2>1. Lists'
    BY <1>0, <1>7, StillKeeps DEF Incidents!Raise
  <2>2. Monitor'
    BY <1>0, <1>7 DEF Monitor, Incidents!Raise, Incidents!outside, Incidents!Goto
  <2> QED BY <2>1, <2>2, IncidentsPartsNext
<1>8. CASE UNCHANGED Incidents!incidentVars
  BY <1>0, <1>8, IncidentsPartsNext DEF Lists, Monitor, Incidents!incidentVars, Incidents!outside,
     Incidents!incidentHistory
<1> QED BY <1>1, <1>2, <1>3, <1>4, <1>5, <1>6, <1>7, <1>8 DEF Incidents!Next, Incidents!Round

-----------------------------------------------------------------------------
(* Connectivity                                                            *)
\* What counts failures has counted no more than there were, and a round that
\* took the camera for offline had a reason.
Counted ==
  /\ round.at = "write" /\ round.status = "offline" => round.count > 0
  /\ ~overtaken =>
    /\ rowFailures <= misses /\ memory <= misses
    /\ round.at = "probe" => round.known <= misses
    /\ round.at = "write" => round.count <= misses + 1
    /\ round.at # "rest" /\ round.previous = "offline" => misses >= FailureThreshold \/ guessed
    /\ round.at = "write" /\ round.status = "offline" =>
         misses + 1 >= FailureThreshold \/ guessed

\* The numbers of TypeOK, which the argument counts with.
Numbers ==
  /\ rowFailures \in 0..FailureThreshold /\ misses \in 0..FailureThreshold
  /\ memory \in -1..FailureThreshold
  /\ round \in [at : {"rest", "probe", "write"}, previous : Probing!Observed,
                status : Probing!Observed,
                known : 0..FailureThreshold, count : 0..FailureThreshold]

ProbingInv == Numbers /\ Counted /\ Probing!ConnectivityHonest

\* What the code fixes to three.
LEMMA ThresholdPositive == FailureThreshold \in Nat \ {0} /\ MaxUpsets \in Nat
BY ManagersAssumption

\* A counter stays within its bound.
LEMMA CappedIn ==
  ASSUME NEW n \in Nat
  PROVE  /\ Probing!Capped(n) \in 0..FailureThreshold
         /\ Probing!Capped(n) <= n
         /\ n >= FailureThreshold => Probing!Capped(n) = FailureThreshold
         /\ n < FailureThreshold => Probing!Capped(n) = n
BY ThresholdPositive DEF Probing!Capped

LEMMA ProbingInit ==
  ASSUME Probing!Init
  PROVE  ProbingInv
BY ThresholdPositive DEF Probing!Init, ProbingInv, Counted, Numbers, Probing!Resting,
   Probing!Observed,
       Probing!Unset, Probing!ConnectivityHonest, Probing!OfflineAfterThreshold,
       Probing!CountersAgree

\* What is shown of a camera is one of the observed states.
LEMMA ShownObserved == Probing!Shown \in Probing!Observed
BY DEF Probing!Shown, Probing!Observed

LEMMA ProbingStep ==
  ASSUME ProbingInv, [Probing!Next]_(Probing!connVars)
  PROVE  ProbingInv'
<1> USE ThresholdPositive
<1> USE DEF ProbingInv, Numbers, Counted, Probing!ConnectivityHonest,
            Probing!OfflineAfterThreshold, Probing!CountersAgree
<1> USE DEF Probing!world, Probing!row, Probing!connCounts, Probing!connHistory,
            Probing!connVars, Probing!Unset, Probing!Resting, Probing!Observed
<1>1. CASE Probing!World
  BY <1>1 DEF Probing!World
<1>2. CASE Probing!Age
  BY <1>2 DEF Probing!Age
<1>3. CASE Probing!ReadRows
  <2>1. UNCHANGED <<status, rowFailures, memory, misses, overtaken, raised>>
    BY <1>3 DEF Probing!ReadRows
  <2>2. CASE hik /\ ~bridge
    BY <1>3, <2>1, <2>2 DEF Probing!ReadRows
  <2>3. CASE ~(hik /\ ~bridge)
    <3>1. round' = [at |-> "probe", previous |-> Probing!Shown, known |-> rowFailures,
                    count |-> 0, status |-> "unknown"]
      BY <1>3, <2>3 DEF Probing!ReadRows
    <3>2. guessed => guessed'
      BY <1>3, <2>3, Zenon DEF Probing!ReadRows
    <3>3. Probing!Shown = "offline" => status = "offline" \/ guessed'
      BY <1>3, <2>3, Zenon DEF Probing!ReadRows
    <3>4. Numbers'
      BY <2>1, <3>1, ShownObserved
    <3>5. Counted'
      BY <2>1, <3>1, <3>2, <3>3
    <3> QED BY <2>1, <3>2, <3>4, <3>5
  <2> QED BY <2>2, <2>3
<1>4. CASE Probing!Observe
  <2> DEFINE known == IF memory = -1 THEN round.known ELSE memory
             result == Probing!Resolve(round.previous, known, healthy, reachable)
  <2>1. /\ UNCHANGED <<status, rowFailures, memory, misses, overtaken, guessed, raised>>
        /\ round.at = "probe"
        /\ round' = [round EXCEPT !.at = "write", !.count = result.count,
                                  !.status = result.status]
    BY <1>4 DEF Probing!Observe
  <2>2. known \in 0..FailureThreshold /\ (~overtaken => known <= misses)
    BY <2>1
  <2>3. /\ result.count \in 0..FailureThreshold /\ result.count <= known + 1
        /\ result.status \in Probing!Observed
        /\ result.status = "offline" =>
             /\ result.count > 0
             /\ result.count = FailureThreshold \/ round.previous = "offline"
    <3>1. CASE healthy \/ reachable
      BY <2>2, <3>1 DEF Probing!Resolve
    <3>2. CASE ~(healthy \/ reachable)
      BY <2>2, <3>2, CappedIn DEF Probing!Resolve, Probing!Failures
    <3> QED BY <3>1, <3>2
  <2>4. /\ round' \in [at : {"write"}, previous : {round.previous}, known : {round.known},
                       count : {result.count}, status : {result.status}]
    <3> HIDE DEF known, result
    <3> QED BY <2>1
  <2> HIDE DEF known, result
  <2>5. Numbers'
    BY <2>1, <2>3, <2>4
  <2>6. Counted'
    BY <2>1, <2>2, <2>3, <2>4
  <2> QED BY <2>1, <2>5, <2>6
<1>5. CASE Probing!WriteRow
  <2>1. round.at = "write" /\ round' = Probing!Resting /\ UNCHANGED <<overtaken, guessed, raised>>
    BY <1>5 DEF Probing!WriteRow
  <2>2. CASE ~enabled
    BY <1>5, <2>1, <2>2 DEF Probing!WriteRow
  <2>3. CASE enabled
    <3>1. /\ status' = round.status /\ rowFailures' = round.count /\ memory' = round.count
          /\ misses' = IF round.count = 0 THEN 0 ELSE Probing!Capped(misses + 1)
      BY <1>5, <2>3 DEF Probing!WriteRow
    <3>2. Numbers' /\ (~overtaken => round.count <= misses')
      BY <2>1, <3>1, CappedIn
    <3>3. Counted'
      BY <2>1, <3>1, <3>2
    <3>4. Probing!ConnectivityHonest'
      BY <2>1, <3>1, CappedIn
    <3> QED BY <3>2, <3>3, <3>4
  <2> QED BY <2>2, <2>3
<1>6. CASE Probing!Forget
  BY <1>6 DEF Probing!Forget
<1>7. CASE Probing!RoundRaises
  BY <1>7 DEF Probing!RoundRaises, Probing!Upset, Probing!Capped
<1>8. CASE Probing!AskProbe
  BY <1>8 DEF Probing!AskProbe, Probing!Upset
<1>9. CASE Probing!AnswerProbe
  <2>1. (overtaken => overtaken') /\ (round.at # "rest" => overtaken')
    BY <1>9, Zenon DEF Probing!AnswerProbe
  <2>2. /\ status' = IF manual = "passes" THEN "online" ELSE "offline"
        /\ rowFailures' = IF manual = "passes" THEN 0 ELSE FailureThreshold
        /\ memory' = rowFailures' /\ misses' = rowFailures'
        /\ UNCHANGED <<round, guessed, raised>>
    BY <1>9 DEF Probing!AnswerProbe, Probing!Sync
  <2> QED BY <2>1, <2>2
<1>10. CASE Probing!Edit
  <2>1. /\ UNCHANGED <<rowFailures, memory, round, misses, overtaken, guessed, raised>>
        /\ status' # "offline" \/ status' = status
    BY <1>10 DEF Probing!Edit
  <2> QED BY <2>1
<1>11. CASE Probing!Restart
  BY <1>11 DEF Probing!Restart, Probing!Upset
<1>12. CASE UNCHANGED Probing!connVars
  BY <1>12
<1> QED BY <1>1, <1>2, <1>3, <1>4, <1>5, <1>6, <1>7, <1>8, <1>9, <1>10, <1>11, <1>12
        DEF Probing!Next, Probing!Round, Probing!Users

\* What TypeOK says beside Numbers.
Flags ==
  /\ reachable \in BOOLEAN /\ healthy \in BOOLEAN /\ hik \in BOOLEAN /\ bridge \in BOOLEAN
  /\ enabled \in BOOLEAN /\ seen \in BOOLEAN /\ overtaken \in BOOLEAN /\ guessed \in BOOLEAN
  /\ raised \in BOOLEAN /\ status \in Probing!Observed \cup {"recording", "stopped"}
  /\ age \in {"none", "fresh", "stale"} /\ manual \in {"none", "passes", "fails"}
  /\ upsets \in 0..MaxUpsets

LEMMA FlagsAreTypes ==
  ASSUME Numbers, Flags
  PROVE  Probing!TypeOK
<1>1. /\ {reachable, healthy, hik, bridge, enabled, seen, overtaken, guessed} \subseteq BOOLEAN
      /\ raised \in BOOLEAN
  BY DEF Flags
<1>2. /\ rowFailures \in 0..FailureThreshold /\ misses \in 0..FailureThreshold
      /\ memory \in Probing!Unset..FailureThreshold
      /\ round \in [at : {"rest", "probe", "write"}, previous : Probing!Observed,
                    status : Probing!Observed,
                    known : 0..FailureThreshold, count : 0..FailureThreshold]
  BY DEF Numbers, Probing!Unset
<1>3. /\ status \in Probing!Observed \cup {"recording", "stopped"}
      /\ age \in {"none", "fresh", "stale"} /\ manual \in {"none", "passes", "fails"}
      /\ upsets \in 0..MaxUpsets
  BY DEF Flags
<1> QED BY <1>1, <1>2, <1>3, Zenon DEF Probing!TypeOK

LEMMA FlagsInit ==
  ASSUME Probing!Init
  PROVE  Flags
<1>1. /\ reachable \in BOOLEAN /\ healthy \in BOOLEAN /\ hik \in BOOLEAN /\ bridge \in BOOLEAN
      /\ enabled \in BOOLEAN /\ seen \in BOOLEAN /\ overtaken \in BOOLEAN /\ guessed \in BOOLEAN
      /\ raised \in BOOLEAN
  BY Zenon DEF Probing!Init
<1>2. /\ status = "unknown" /\ age = "none" /\ manual = "none" /\ upsets = 0
  BY DEF Probing!Init
<1>3. upsets \in 0..MaxUpsets
  BY <1>2, ThresholdPositive
<1> QED BY <1>1, <1>2, <1>3 DEF Flags, Probing!Observed

LEMMA FlagsStep ==
  ASSUME Flags, Numbers, [Probing!Next]_(Probing!connVars)
  PROVE  Flags'
<1> USE ThresholdPositive
<1> USE DEF Probing!world, Probing!row, Probing!connCounts, Probing!connHistory,
            Probing!connVars, Probing!Observed
<1>0. ASSUME UNCHANGED <<reachable, healthy, hik, bridge, enabled, seen, overtaken, guessed>>,
             UNCHANGED <<raised, status, age, manual, upsets>>
      PROVE  Flags'
  BY <1>0 DEF Flags
<1>1. CASE Probing!World
  <2>1. reachable' \in BOOLEAN /\ healthy' \in BOOLEAN /\ bridge' \in BOOLEAN
    BY <1>1, Zenon DEF Probing!World, Flags
  <2>2. UNCHANGED <<hik, enabled, seen, overtaken, guessed, raised, status, age, manual, upsets>>
    BY <1>1 DEF Probing!World
  <2> QED BY <2>1, <2>2 DEF Flags
<1>2. CASE Probing!Age
  BY <1>2 DEF Probing!Age, Flags
<1>3. CASE Probing!ReadRows
  <2>1. guessed' \in BOOLEAN
    BY <1>3, Zenon DEF Probing!ReadRows, Flags
  <2>2. UNCHANGED <<reachable, healthy, hik, bridge, enabled, seen, overtaken, raised, status,
                    age, manual, upsets>>
    BY <1>3 DEF Probing!ReadRows
  <2> QED BY <2>1, <2>2 DEF Flags
<1>4. CASE Probing!Observe
  BY <1>0, <1>4 DEF Probing!Observe
<1>5. CASE Probing!WriteRow
  <2>1. round.status \in Probing!Observed
    BY DEF Numbers
  <2>2. seen' \in BOOLEAN
    BY <1>5, Zenon DEF Probing!WriteRow, Flags
  <2>3. status' \in Probing!Observed \cup {"recording", "stopped"} /\ age' \in {"none", "fresh", "stale"}
    BY <1>5, <2>1 DEF Probing!WriteRow, Flags
  <2>4. UNCHANGED <<reachable, healthy, hik, bridge, enabled, overtaken, guessed, raised, manual, upsets>>
    BY <1>5 DEF Probing!WriteRow
  <2> QED BY <2>2, <2>3, <2>4 DEF Flags
<1>6. CASE Probing!Forget
  BY <1>0, <1>6 DEF Probing!Forget
<1>7. CASE Probing!RoundRaises
  <2>1. UNCHANGED <<reachable, healthy, hik, bridge, enabled, seen, overtaken, guessed, status,
                    age, manual>> /\ raised' = TRUE
    BY <1>7 DEF Probing!RoundRaises
  <2>2. upsets' \in 0..MaxUpsets
    BY <1>7 DEF Probing!RoundRaises, Probing!Upset, Flags
  <2> QED BY <2>1, <2>2 DEF Flags
<1>8. CASE Probing!AskProbe
  <2>1. UNCHANGED <<reachable, healthy, hik, bridge, enabled, seen, overtaken, guessed, status,
                    age, raised>> /\ manual' \in {"passes", "fails"}
    BY <1>8 DEF Probing!AskProbe
  <2>2. upsets' \in 0..MaxUpsets
    BY <1>8 DEF Probing!AskProbe, Probing!Upset, Flags
  <2> QED BY <2>1, <2>2 DEF Flags
<1>9. CASE Probing!AnswerProbe
  <2>1. seen' \in BOOLEAN /\ overtaken' \in BOOLEAN
    BY <1>9, Zenon DEF Probing!AnswerProbe, Flags
  <2>2. UNCHANGED <<reachable, healthy, hik, bridge, enabled, guessed, raised, upsets>>
    BY <1>9 DEF Probing!AnswerProbe
  <2>3. manual' = "none" /\ age' = "fresh" /\ status' \in {"online", "offline"}
    BY <1>9 DEF Probing!AnswerProbe, Probing!Sync
  <2> QED BY <2>1, <2>2, <2>3 DEF Flags
<1>10. CASE Probing!Edit
  <2>1. enabled' \in BOOLEAN
    BY <1>10, Zenon DEF Probing!Edit, Flags
  <2>2. UNCHANGED <<reachable, healthy, hik, bridge, seen, overtaken, guessed, raised, manual>>
    BY <1>10 DEF Probing!Edit
  <2>3. status' \in Probing!Observed \cup {"recording", "stopped"} /\ age' \in {"none", "fresh", "stale"}
    BY <1>10 DEF Probing!Edit, Flags
  <2>4. upsets' \in 0..MaxUpsets
    BY <1>10 DEF Probing!Edit, Probing!Upset, Flags
  <2> QED BY <2>1, <2>2, <2>3, <2>4 DEF Flags
<1>11. CASE Probing!Restart
  <2>1. UNCHANGED <<reachable, hik, bridge, enabled, seen, overtaken, guessed, status, age, raised>>
        /\ healthy' = FALSE /\ manual' = "none"
    BY <1>11 DEF Probing!Restart
  <2>2. upsets' \in 0..MaxUpsets
    BY <1>11 DEF Probing!Restart, Probing!Upset, Flags
  <2> QED BY <2>1, <2>2, ZenonT(60) DEF Flags
<1>12. CASE UNCHANGED Probing!connVars
  BY <1>0, <1>12
<1> QED BY <1>1, <1>2, <1>3, <1>4, <1>5, <1>6, <1>7, <1>8, <1>9, <1>10, <1>11, <1>12
        DEF Probing!Next, Probing!Round, Probing!Users

-----------------------------------------------------------------------------
(* MediaSessions                                                           *)
\* The session a teardown is about to close, or is closing.
InHand == IF teardown.at \in {"lock", "wait"} THEN teardown.who ELSE {}
BeforeIt == {"idle", "open", "first", "drop", "register"}

\* A teardown has its sessions from the registry, and closes one at a time.
TeardownSane ==
  /\ teardown.at \in {"rest", "take", "commit"} => teardown.left = {} /\ teardown.who = {}
  /\ teardown.at \in {"lock", "wait"} => \E s \in Sessions : teardown.who = {s}
  /\ \A s \in registered \cup teardown.left \cup InHand : sessionAt[s] \notin BeforeIt
  /\ \A s \in registered : sessionAt[s] # "done"
  /\ teardown.at = "rest" => ~teardown.pending
  /\ revision <= previewEdits
  /\ teardown.pending \/ teardown.at = "commit" => revision < previewEdits

\* Who holds a session's closing lock, and what holds once it is closed.
LockSane(s) ==
  /\ closeLock[s] = "self" <=> sessionAt[s] \in {"spawn", "closing"}
  /\ closeLock[s] = "teardown" <=> teardown.at = "wait" /\ s \in teardown.who
  /\ sessionAt[s] \in BeforeIt \cup {"spawn"} => ~closed[s]
  /\ sessionAt[s] \in {"closing", "unregister"} \/ closeLock[s] = "teardown" => closed[s]
  /\ sessionAt[s] = "unregister" /\ closeLock[s] = "teardown" => leaving[s]

\* An FFmpeg asked to exit is waited for, unless the wait was cut off, and what
\* a teardown has found is closed or will be.
ProcessSane(s) ==
  /\ closed[s] \/ sessionAt[s] \in {"drop", "done"} => process[s] # "live"
  /\ process[s] = "asked" =>
       sessionAt[s] \in {"drop", "closing"} \/ closeLock[s] = "teardown" \/ s \in cut
  /\ s \in caught =>
       closed[s] \/ s \in teardown.left \/ (teardown.at = "lock" /\ s \in teardown.who)
  /\ sessionAt[s] \in {"serve", "left"} => s \in registered \cup caught

MediaInv ==
  /\ Media!TypeOK /\ TeardownSane
  /\ \A s \in Sessions : LockSane(s) /\ ProcessSane(s)

LEMMA MediaNumbers == MaxEdits \in Nat /\ Spares \subseteq BOOLEAN
BY ManagersAssumption

LEMMA MediaAsk ==
  ASSUME MediaInv, NEW s \in Sessions, Media!Ask(s)
  PROVE  MediaInv'
<1> USE DEF Media!Ask, Media!Step, Media!ProcessIs, Media!Asked, Media!Ended, Media!request,
        Media!ffmpeg,
       Media!past, Media!camera
<1>1. Media!TypeOK'
  BY MediaNumbers DEF MediaInv, Media!TypeOK, Media!At, TeardownSane
<1>2. TeardownSane'
  BY MediaNumbers DEF MediaInv, Media!TypeOK, TeardownSane, InHand, BeforeIt, LockSane
<1>3. ASSUME NEW t \in Sessions
      PROVE  LockSane(t)' /\ ProcessSane(t)'
  <2>1. LockSane(t)'
    BY DEF MediaInv, Media!TypeOK, TeardownSane, InHand, BeforeIt, LockSane
  <2>2. ProcessSane(t)'
    BY DEF MediaInv, Media!TypeOK, TeardownSane, InHand, BeforeIt, LockSane, ProcessSane
  <2> QED BY <2>1, <2>2
<1> QED BY <1>1, <1>2, <1>3 DEF MediaInv

LEMMA MediaOpenProcess ==
  ASSUME MediaInv, NEW s \in Sessions, Media!OpenProcess(s)
  PROVE  MediaInv'
<1> USE DEF Media!OpenProcess, Media!Step, Media!ProcessIs, Media!Asked, Media!Ended,
        Media!request, Media!ffmpeg,
       Media!past, Media!camera
<1>1. Media!TypeOK'
  BY MediaNumbers DEF MediaInv, Media!TypeOK, Media!At, TeardownSane
<1>2. TeardownSane'
  BY MediaNumbers DEF MediaInv, Media!TypeOK, TeardownSane, InHand, BeforeIt, LockSane
<1>3. ASSUME NEW t \in Sessions
      PROVE  LockSane(t)' /\ ProcessSane(t)'
  <2>1. LockSane(t)'
    BY DEF MediaInv, Media!TypeOK, TeardownSane, InHand, BeforeIt, LockSane
  <2>2. ProcessSane(t)'
    BY DEF MediaInv, Media!TypeOK, TeardownSane, InHand, BeforeIt, LockSane, ProcessSane
  <2> QED BY <2>1, <2>2
<1> QED BY <1>1, <1>2, <1>3 DEF MediaInv

LEMMA MediaFirstChunk ==
  ASSUME MediaInv, NEW s \in Sessions, Media!FirstChunk(s)
  PROVE  MediaInv'
<1> USE DEF Media!FirstChunk, Media!Step, Media!ProcessIs, Media!Asked, Media!Ended,
        Media!request, Media!ffmpeg,
       Media!past, Media!camera
<1>1. Media!TypeOK'
  BY MediaNumbers DEF MediaInv, Media!TypeOK, Media!At, TeardownSane
<1>2. TeardownSane'
  BY MediaNumbers DEF MediaInv, Media!TypeOK, TeardownSane, InHand, BeforeIt, LockSane
<1>3. ASSUME NEW t \in Sessions
      PROVE  LockSane(t)' /\ ProcessSane(t)'
  <2>1. LockSane(t)'
    BY DEF MediaInv, Media!TypeOK, TeardownSane, InHand, BeforeIt, LockSane
  <2>2. ProcessSane(t)'
    BY DEF MediaInv, Media!TypeOK, TeardownSane, InHand, BeforeIt, LockSane, ProcessSane
  <2> QED BY <2>1, <2>2
<1> QED BY <1>1, <1>2, <1>3 DEF MediaInv

LEMMA MediaNoFirstChunk ==
  ASSUME MediaInv, NEW s \in Sessions, Media!NoFirstChunk(s)
  PROVE  MediaInv'
<1> USE DEF Media!NoFirstChunk, Media!Step, Media!ProcessIs, Media!Asked, Media!Ended,
        Media!request, Media!ffmpeg,
       Media!past, Media!camera
<1>1. Media!TypeOK'
  BY MediaNumbers DEF MediaInv, Media!TypeOK, Media!At, TeardownSane
<1>2. TeardownSane'
  BY MediaNumbers DEF MediaInv, Media!TypeOK, TeardownSane, InHand, BeforeIt, LockSane
<1>3. ASSUME NEW t \in Sessions
      PROVE  LockSane(t)' /\ ProcessSane(t)'
  <2>1. LockSane(t)'
    BY DEF MediaInv, Media!TypeOK, TeardownSane, InHand, BeforeIt, LockSane
  <2>2. ProcessSane(t)'
    BY DEF MediaInv, Media!TypeOK, TeardownSane, InHand, BeforeIt, LockSane, ProcessSane
  <2> QED BY <2>1, <2>2
<1> QED BY <1>1, <1>2, <1>3 DEF MediaInv

LEMMA MediaDropped ==
  ASSUME MediaInv, NEW s \in Sessions, Media!Dropped(s)
  PROVE  MediaInv'
<1> USE DEF Media!Dropped, Media!Step, Media!ProcessIs, Media!Asked, Media!Ended, Media!request,
        Media!ffmpeg,
       Media!past, Media!camera
<1>1. Media!TypeOK'
  BY MediaNumbers DEF MediaInv, Media!TypeOK, Media!At, TeardownSane
<1>2. TeardownSane'
  BY MediaNumbers DEF MediaInv, Media!TypeOK, TeardownSane, InHand, BeforeIt, LockSane
<1>3. ASSUME NEW t \in Sessions
      PROVE  LockSane(t)' /\ ProcessSane(t)'
  <2>1. LockSane(t)'
    BY DEF MediaInv, Media!TypeOK, TeardownSane, InHand, BeforeIt, LockSane
  <2>2. ProcessSane(t)'
    BY DEF MediaInv, Media!TypeOK, TeardownSane, InHand, BeforeIt, LockSane, ProcessSane
  <2> QED BY <2>1, <2>2
<1> QED BY <1>1, <1>2, <1>3 DEF MediaInv

LEMMA MediaRegister ==
  ASSUME MediaInv, NEW s \in Sessions, Media!Register(s)
  PROVE  MediaInv'
<1> USE DEF Media!Register, Media!Step, Media!ProcessIs, Media!Asked, Media!Ended, Media!request,
        Media!ffmpeg,
       Media!past, Media!camera
<1>1. Media!TypeOK'
  BY MediaNumbers DEF MediaInv, Media!TypeOK, Media!At, TeardownSane
<1>2. TeardownSane'
  BY MediaNumbers DEF MediaInv, Media!TypeOK, TeardownSane, InHand, BeforeIt, LockSane
<1>3. ASSUME NEW t \in Sessions
      PROVE  LockSane(t)' /\ ProcessSane(t)'
  <2>1. LockSane(t)'
    BY DEF MediaInv, Media!TypeOK, TeardownSane, InHand, BeforeIt, LockSane
  <2>2. ProcessSane(t)'
    BY DEF MediaInv, Media!TypeOK, TeardownSane, InHand, BeforeIt, LockSane, ProcessSane
  <2> QED BY <2>1, <2>2
<1> QED BY <1>1, <1>2, <1>3 DEF MediaInv

LEMMA MediaServe ==
  ASSUME MediaInv, NEW s \in Sessions, Media!Serve(s)
  PROVE  MediaInv'
<1> USE DEF Media!Serve, Media!Step, Media!ProcessIs, Media!Asked, Media!Ended, Media!request,
        Media!ffmpeg,
       Media!past, Media!camera
<1>1. Media!TypeOK'
  BY MediaNumbers DEF MediaInv, Media!TypeOK, Media!At, TeardownSane
<1>2. TeardownSane'
  BY MediaNumbers DEF MediaInv, Media!TypeOK, TeardownSane, InHand, BeforeIt, LockSane
<1>3. ASSUME NEW t \in Sessions
      PROVE  LockSane(t)' /\ ProcessSane(t)'
  <2>1. LockSane(t)'
    BY DEF MediaInv, Media!TypeOK, TeardownSane, InHand, BeforeIt, LockSane
  <2>2. ProcessSane(t)'
    BY DEF MediaInv, Media!TypeOK, TeardownSane, InHand, BeforeIt, LockSane, ProcessSane
  <2> QED BY <2>1, <2>2
<1> QED BY <1>1, <1>2, <1>3 DEF MediaInv

LEMMA MediaStartWall ==
  ASSUME MediaInv, NEW s \in Sessions, Media!StartWall(s)
  PROVE  MediaInv'
<1> USE DEF Media!StartWall, Media!Step, Media!ProcessIs, Media!Asked, Media!Ended, Media!request,
        Media!ffmpeg,
       Media!past, Media!camera
<1>1. Media!TypeOK'
  BY MediaNumbers DEF MediaInv, Media!TypeOK, Media!At, TeardownSane
<1>2. TeardownSane'
  BY MediaNumbers DEF MediaInv, Media!TypeOK, TeardownSane, InHand, BeforeIt, LockSane
<1>3. ASSUME NEW t \in Sessions
      PROVE  LockSane(t)' /\ ProcessSane(t)'
  <2>1. LockSane(t)'
    BY DEF MediaInv, Media!TypeOK, TeardownSane, InHand, BeforeIt, LockSane
  <2>2. ProcessSane(t)'
    BY DEF MediaInv, Media!TypeOK, TeardownSane, InHand, BeforeIt, LockSane, ProcessSane
  <2> QED BY <2>1, <2>2
<1> QED BY <1>1, <1>2, <1>3 DEF MediaInv

LEMMA MediaSpawned ==
  ASSUME MediaInv, NEW s \in Sessions, Media!Spawned(s)
  PROVE  MediaInv'
<1> USE DEF Media!Spawned, Media!Step, Media!ProcessIs, Media!Asked, Media!Ended, Media!request,
        Media!ffmpeg,
       Media!past, Media!camera
<1>1. Media!TypeOK'
  BY MediaNumbers DEF MediaInv, Media!TypeOK, Media!At, TeardownSane
<1>2. TeardownSane'
  BY MediaNumbers DEF MediaInv, Media!TypeOK, TeardownSane, InHand, BeforeIt, LockSane
<1>3. ASSUME NEW t \in Sessions
      PROVE  LockSane(t)' /\ ProcessSane(t)'
  <2>1. LockSane(t)'
    BY DEF MediaInv, Media!TypeOK, TeardownSane, InHand, BeforeIt, LockSane
  <2>2. ProcessSane(t)'
    BY DEF MediaInv, Media!TypeOK, TeardownSane, InHand, BeforeIt, LockSane, ProcessSane
  <2> QED BY <2>1, <2>2
<1> QED BY <1>1, <1>2, <1>3 DEF MediaInv

LEMMA MediaStreamEnds ==
  ASSUME MediaInv, NEW s \in Sessions, Media!StreamEnds(s)
  PROVE  MediaInv'
<1> USE DEF Media!StreamEnds, Media!Step, Media!ProcessIs, Media!Asked, Media!Ended,
        Media!request, Media!ffmpeg,
       Media!past, Media!camera
<1>1. Media!TypeOK'
  BY MediaNumbers DEF MediaInv, Media!TypeOK, Media!At, TeardownSane
<1>2. TeardownSane'
  BY MediaNumbers DEF MediaInv, Media!TypeOK, TeardownSane, InHand, BeforeIt, LockSane
<1>3. ASSUME NEW t \in Sessions
      PROVE  LockSane(t)' /\ ProcessSane(t)'
  <2>1. LockSane(t)'
    BY DEF MediaInv, Media!TypeOK, TeardownSane, InHand, BeforeIt, LockSane
  <2>2. ProcessSane(t)'
    BY DEF MediaInv, Media!TypeOK, TeardownSane, InHand, BeforeIt, LockSane, ProcessSane
  <2> QED BY <2>1, <2>2
<1> QED BY <1>1, <1>2, <1>3 DEF MediaInv

LEMMA MediaClientLeaves ==
  ASSUME MediaInv, NEW s \in Sessions, Media!ClientLeaves(s)
  PROVE  MediaInv'
<1> USE DEF Media!ClientLeaves, Media!Step, Media!ProcessIs, Media!Asked, Media!Ended,
        Media!request, Media!ffmpeg,
       Media!past, Media!camera
<1>1. Media!TypeOK'
  BY MediaNumbers DEF MediaInv, Media!TypeOK, Media!At, TeardownSane
<1>2. TeardownSane'
  BY MediaNumbers DEF MediaInv, Media!TypeOK, TeardownSane, InHand, BeforeIt, LockSane
<1>3. ASSUME NEW t \in Sessions
      PROVE  LockSane(t)' /\ ProcessSane(t)'
  <2>1. LockSane(t)'
    BY DEF MediaInv, Media!TypeOK, TeardownSane, InHand, BeforeIt, LockSane
  <2>2. ProcessSane(t)'
    BY DEF MediaInv, Media!TypeOK, TeardownSane, InHand, BeforeIt, LockSane, ProcessSane
  <2> QED BY <2>1, <2>2
<1> QED BY <1>1, <1>2, <1>3 DEF MediaInv

LEMMA MediaCloseSelf ==
  ASSUME MediaInv, NEW s \in Sessions, Media!CloseSelf(s)
  PROVE  MediaInv'
<1> USE DEF Media!CloseSelf, Media!Step, Media!ProcessIs, Media!Asked, Media!Ended, Media!request,
        Media!ffmpeg,
       Media!past, Media!camera
<1>1. Media!TypeOK'
  <2>1. CASE closed[s]
    BY MediaNumbers, <2>1 DEF MediaInv, Media!TypeOK, Media!At, TeardownSane
  <2>2. CASE ~closed[s]
    <3>1. sessionAt' \in [Sessions -> Media!At]
      BY <2>2 DEF MediaInv, Media!TypeOK, Media!At
    <3>2. closed' \in [Sessions -> BOOLEAN]
      BY <2>2 DEF MediaInv, Media!TypeOK
    <3>3. process' \in [Sessions -> {"none", "live", "asked", "gone"}]
      BY <2>2 DEF MediaInv, Media!TypeOK
    <3>4. closeLock' \in [Sessions -> {"free", "self", "teardown"}]
      BY <2>2 DEF MediaInv, Media!TypeOK
    <3> QED BY <2>2, <3>1, <3>2, <3>3, <3>4 DEF MediaInv, Media!TypeOK, Media!At
  <2> QED BY <2>1, <2>2
<1>2. TeardownSane'
  <2>1. CASE closed[s]
    BY MediaNumbers, <2>1 DEF MediaInv, Media!TypeOK, TeardownSane, InHand, BeforeIt, LockSane
  <2>2. CASE ~closed[s]
    BY MediaNumbers, <2>2 DEF MediaInv, Media!TypeOK, TeardownSane, InHand, BeforeIt, LockSane
  <2> QED BY <2>1, <2>2
<1>3. ASSUME NEW t \in Sessions
      PROVE  LockSane(t)' /\ ProcessSane(t)'
  <2>1. LockSane(t)'
    <3>1. CASE closed[s]
      BY <3>1 DEF MediaInv, Media!TypeOK, TeardownSane, InHand, BeforeIt, LockSane
    <3>2. CASE ~closed[s]
      BY <3>2 DEF MediaInv, Media!TypeOK, TeardownSane, InHand, BeforeIt, LockSane
    <3> QED BY <3>1, <3>2
  <2>2. ProcessSane(t)'
    <3>1. CASE closed[s]
      BY <3>1 DEF MediaInv, Media!TypeOK, TeardownSane, InHand, BeforeIt, LockSane, ProcessSane
    <3>2. CASE ~closed[s]
      BY <3>2 DEF MediaInv, Media!TypeOK, TeardownSane, InHand, BeforeIt, LockSane, ProcessSane
    <3> QED BY <3>1, <3>2
  <2> QED BY <2>1, <2>2
<1> QED BY <1>1, <1>2, <1>3 DEF MediaInv

LEMMA MediaClosedSelf ==
  ASSUME MediaInv, NEW s \in Sessions, Media!ClosedSelf(s)
  PROVE  MediaInv'
<1> USE DEF Media!ClosedSelf, Media!Step, Media!ProcessIs, Media!Asked, Media!Ended,
        Media!request, Media!ffmpeg,
       Media!past, Media!camera
<1>1. Media!TypeOK'
  BY MediaNumbers DEF MediaInv, Media!TypeOK, Media!At, TeardownSane
<1>2. TeardownSane'
  BY MediaNumbers DEF MediaInv, Media!TypeOK, TeardownSane, InHand, BeforeIt, LockSane
<1>3. ASSUME NEW t \in Sessions
      PROVE  LockSane(t)' /\ ProcessSane(t)'
  <2>1. LockSane(t)'
    BY DEF MediaInv, Media!TypeOK, TeardownSane, InHand, BeforeIt, LockSane
  <2>2. ProcessSane(t)'
    BY DEF MediaInv, Media!TypeOK, TeardownSane, InHand, BeforeIt, LockSane, ProcessSane
  <2> QED BY <2>1, <2>2
<1> QED BY <1>1, <1>2, <1>3 DEF MediaInv

LEMMA MediaCloseCut ==
  ASSUME MediaInv, NEW s \in Sessions, Media!CloseCut(s)
  PROVE  MediaInv'
<1> USE DEF Media!CloseCut, Media!Step, Media!ProcessIs, Media!Asked, Media!Ended, Media!request,
        Media!ffmpeg,
       Media!past, Media!camera
<1>1. Media!TypeOK'
  BY MediaNumbers DEF MediaInv, Media!TypeOK, Media!At, TeardownSane
<1>2. TeardownSane'
  BY MediaNumbers DEF MediaInv, Media!TypeOK, TeardownSane, InHand, BeforeIt, LockSane
<1>3. ASSUME NEW t \in Sessions
      PROVE  LockSane(t)' /\ ProcessSane(t)'
  <2>1. LockSane(t)'
    BY DEF MediaInv, Media!TypeOK, TeardownSane, InHand, BeforeIt, LockSane
  <2>2. ProcessSane(t)'
    BY DEF MediaInv, Media!TypeOK, TeardownSane, InHand, BeforeIt, LockSane, ProcessSane
  <2> QED BY <2>1, <2>2
<1> QED BY <1>1, <1>2, <1>3 DEF MediaInv

LEMMA MediaUnregister ==
  ASSUME MediaInv, NEW s \in Sessions, Media!Unregister(s)
  PROVE  MediaInv'
<1> USE DEF Media!Step, Media!ProcessIs, Media!Asked, Media!Ended, Media!request, Media!ffmpeg,
       Media!past, Media!camera
<1>a. /\ teardown'.left \subseteq teardown.left
      /\ \A t \in Sessions \ {s} : t \in teardown.left => t \in teardown'.left
      /\ teardown'.who = teardown.who
      /\ ~Media!FallsBack(s) => UNCHANGED teardown
      /\ Media!FallsBack(s) =>
           /\ teardown'.left = teardown.left \ {s}
           /\ teardown'.at = (IF teardown.at = "lock" /\ s \in teardown.who THEN "close" ELSE teardown.at)
      /\ teardown'.pending = teardown.pending
      /\ teardown' \in [at : {"rest", "take", "close", "lock", "wait", "commit"},
                     left : SUBSET Sessions, who : SUBSET Sessions, pending : BOOLEAN]
  <2>1. /\ teardown \in [at : {"rest", "take", "close", "lock", "wait", "commit"},
                     left : SUBSET Sessions, who : SUBSET Sessions, pending : BOOLEAN]
        /\ teardown.left \ {s} \in SUBSET Sessions
    BY DEF MediaInv, Media!TypeOK
  <2>2. CASE ~Media!FallsBack(s)
    BY <2>1, <2>2 DEF Media!Unregister
  <2>3. ASSUME NEW p \in {"rest", "take", "close", "lock", "wait", "commit"},
               teardown' = [teardown EXCEPT !.left = teardown.left \ {s}, !.at = p]
        PROVE  /\ teardown'.left = teardown.left \ {s} /\ teardown'.at = p
               /\ UNCHANGED <<teardown.who, teardown.pending>>
               /\ teardown' \in [at : {"rest", "take", "close", "lock", "wait", "commit"},
                     left : SUBSET Sessions, who : SUBSET Sessions, pending : BOOLEAN]
    BY <2>1, <2>3
  <2>4. CASE Media!FallsBack(s)
    <3> DEFINE p == IF teardown.at = "lock" /\ s \in teardown.who THEN "close" ELSE teardown.at
    <3>1. p \in {"rest", "take", "close", "lock", "wait", "commit"}
      BY <2>1
    <3>2. teardown' = [teardown EXCEPT !.left = teardown.left \ {s}, !.at = p]
      BY <2>4 DEF Media!Unregister, Media!Forget
    <3>3. p = IF teardown.at = "lock" /\ s \in teardown.who THEN "close" ELSE teardown.at
      OBVIOUS
    <3> HIDE DEF p
    <3>4. /\ teardown'.left = teardown.left \ {s} /\ teardown'.at = p
          /\ UNCHANGED <<teardown.who, teardown.pending>>
          /\ teardown' \in [at : {"rest", "take", "close", "lock", "wait", "commit"},
                     left : SUBSET Sessions, who : SUBSET Sessions, pending : BOOLEAN]
      BY <2>3, <3>1, <3>2
    <3> QED BY <2>1, <2>4, <3>3, <3>4
  <2> QED BY <2>2, <2>4
<1>c. /\ sessionAt[s] = "unregister"
      /\ sessionAt' = [sessionAt EXCEPT ![s] = IF Media!FallsBack(s) THEN "register" ELSE "done"]
      /\ registered' = registered \ {s}
      /\ IF Media!FallsBack(s)
         THEN /\ spare' = [spare EXCEPT ![s] = FALSE] /\ failed' = [failed EXCEPT ![s] = FALSE]
              /\ closed' = [closed EXCEPT ![s] = FALSE] /\ Media!ProcessIs(s, "none")
              /\ caught' = caught \ {s}
         ELSE UNCHANGED <<spare, failed, closed, process, caught>>
      /\ UNCHANGED <<kind, leaving, source, closeLock, Media!camera, cut, abandoned>>
  BY DEF Media!Unregister, Media!Step
<1>1. Media!TypeOK'
  <2>1. CASE Media!FallsBack(s)
    <3>1. sessionAt' \in [Sessions -> Media!At]
      BY <1>a, <1>c, <2>1 DEF MediaInv, Media!TypeOK, Media!At
    <3>2. closed' \in [Sessions -> BOOLEAN]
      BY <1>a, <1>c, <2>1 DEF MediaInv, Media!TypeOK
    <3>3. process' \in [Sessions -> {"none", "live", "asked", "gone"}]
      BY <1>a, <1>c, <2>1 DEF MediaInv, Media!TypeOK
    <3>4. spare' \in [Sessions -> BOOLEAN] /\ failed' \in [Sessions -> BOOLEAN]
      BY <1>c, <2>1 DEF MediaInv, Media!TypeOK
    <3>5. caught' \subseteq Sessions
      BY <1>c, <2>1 DEF MediaInv, Media!TypeOK
    <3> QED BY <1>a, <1>c, <2>1, <3>1, <3>2, <3>3, <3>4, <3>5 DEF MediaInv, Media!TypeOK, Media!At
  <2>2. CASE ~Media!FallsBack(s)
    BY <1>a, <1>c, MediaNumbers, <2>2 DEF MediaInv, Media!TypeOK, Media!At, TeardownSane
  <2> QED BY <2>1, <2>2
<1>2. TeardownSane'
  <2>1. CASE Media!FallsBack(s)
    <3>1. /\ sessionAt'[s] = "register"
          /\ \A t \in Sessions \ {s} : sessionAt'[t] = sessionAt[t]
      BY <1>c, <2>1 DEF MediaInv, Media!TypeOK
    <3>2. registered' \cup teardown'.left \cup InHand'
            \subseteq (registered \cup teardown.left \cup InHand) \ {s}
      <4>1. s \in InHand => teardown.at = "lock" /\ InHand' = {}
        <5>1. ~(teardown.at = "wait" /\ s \in teardown.who)
          <6>1. sessionAt[s] = "unregister" /\ UNCHANGED closeLock
            BY <1>c
          <6>2. LockSane(s) /\ ProcessSane(s)
            BY DEF MediaInv
          <6>3. ~leaving[s]
            BY <2>1 DEF Media!FallsBack
          <6> QED BY <6>1, <6>2, <6>3 DEF LockSane
        <5> QED BY <1>a, <2>1, <5>1 DEF InHand
      <4>2. InHand' \subseteq InHand
        BY <1>a, <2>1 DEF InHand
      <4> QED BY <1>a, <1>c, <2>1, <4>1, <4>2
    <3>3. registered \cup teardown.left \cup InHand \subseteq Sessions
      BY DEF MediaInv, Media!TypeOK, InHand
    <3>4. \A t \in registered' \cup teardown'.left \cup InHand' : sessionAt'[t] \notin BeforeIt
      BY <3>1, <3>2, <3>3 DEF MediaInv, TeardownSane, BeforeIt
    <3>5. \A t \in registered' : sessionAt'[t] # "done"
      BY <1>c, <3>1, <3>2, <3>3 DEF MediaInv, TeardownSane
    <3>6. /\ teardown'.at \in {"rest", "take", "commit"} => teardown.at = teardown'.at
          /\ teardown'.at \in {"lock", "wait"} => teardown.at = teardown'.at
      BY <1>a, <2>1
    <3>7. /\ teardown'.at \in {"rest", "take", "commit"} => teardown'.left = {} /\ teardown'.who = {}
          /\ teardown'.at \in {"lock", "wait"} => \E t \in Sessions : teardown'.who = {t}
      BY <1>a, <3>6 DEF MediaInv, TeardownSane
    <3>8. UNCHANGED <<revision, previewEdits>>
      BY <1>c
    <3>9. /\ teardown'.at = "rest" => ~teardown'.pending
          /\ revision' <= previewEdits'
          /\ teardown'.pending \/ teardown'.at = "commit" => revision' < previewEdits'
      BY <1>a, <3>6, <3>8 DEF MediaInv, TeardownSane
    <3> QED BY <3>4, <3>5, <3>7, <3>9 DEF TeardownSane
  <2>2. CASE ~Media!FallsBack(s)
    BY <1>a, <1>c, MediaNumbers, <2>2 DEF MediaInv, Media!TypeOK, TeardownSane, InHand, BeforeIt,
       LockSane
  <2> QED BY <2>1, <2>2
<1>3. ASSUME NEW t \in Sessions
      PROVE  LockSane(t)' /\ ProcessSane(t)'
  <2>1. LockSane(t)'
    <3>1. CASE Media!FallsBack(s)
      <4>1. closeLock' = closeLock /\ (teardown.at = "wait" <=> teardown'.at = "wait")
        BY <1>a, <1>c, <3>1
      <4>2. CASE t = s
        <5>1. ~leaving[s] /\ LockSane(s) /\ teardown'.who = teardown.who
          BY <1>a, <3>1 DEF Media!FallsBack, MediaInv
        <5>2. sessionAt'[s] = "register" /\ ~closed'[s] /\ sessionAt[s] = "unregister"
          BY <1>c, <3>1 DEF MediaInv, Media!TypeOK
        <5> QED BY <4>1, <4>2, <5>1, <5>2 DEF LockSane, BeforeIt
      <4>3. CASE t # s
        BY <1>a, <1>c, <3>1, <4>1, <4>3 DEF MediaInv, Media!TypeOK, LockSane, BeforeIt
      <4> QED BY <4>2, <4>3
    <3>2. CASE ~Media!FallsBack(s)
      BY <1>a, <1>c, <3>2 DEF MediaInv, Media!TypeOK, TeardownSane, InHand, BeforeIt, LockSane
    <3> QED BY <3>1, <3>2
  <2>2. ProcessSane(t)'
    <3>1. CASE Media!FallsBack(s)
      BY <1>a, <1>c, <3>1 DEF MediaInv, Media!TypeOK, TeardownSane, InHand, BeforeIt, LockSane,
         ProcessSane
    <3>2. CASE ~Media!FallsBack(s)
      BY <1>a, <1>c, <3>2 DEF MediaInv, Media!TypeOK, TeardownSane, InHand, BeforeIt, LockSane,
         ProcessSane
    <3> QED BY <3>1, <3>2
  <2> QED BY <2>1, <2>2
<1> QED BY <1>1, <1>2, <1>3 DEF MediaInv

LEMMA MediaProcessExits ==
  ASSUME MediaInv, NEW s \in Sessions, Media!ProcessExits(s)
  PROVE  MediaInv'
<1> USE DEF Media!ProcessExits, Media!Step, Media!ProcessIs, Media!Asked, Media!Ended,
        Media!request, Media!ffmpeg,
       Media!past, Media!camera
<1>1. Media!TypeOK'
  BY MediaNumbers DEF MediaInv, Media!TypeOK, Media!At, TeardownSane
<1>2. TeardownSane'
  BY MediaNumbers DEF MediaInv, Media!TypeOK, TeardownSane, InHand, BeforeIt, LockSane
<1>3. ASSUME NEW t \in Sessions
      PROVE  LockSane(t)' /\ ProcessSane(t)'
  <2>1. LockSane(t)'
    BY DEF MediaInv, Media!TypeOK, TeardownSane, InHand, BeforeIt, LockSane
  <2>2. ProcessSane(t)'
    BY DEF MediaInv, Media!TypeOK, TeardownSane, InHand, BeforeIt, LockSane, ProcessSane
  <2> QED BY <2>1, <2>2
<1> QED BY <1>1, <1>2, <1>3 DEF MediaInv

LEMMA MediaBeginEdit ==
  ASSUME MediaInv, Media!BeginEdit
  PROVE  MediaInv'
<1> USE DEF Media!Step, Media!ProcessIs, Media!Asked, Media!Ended, Media!request, Media!ffmpeg,
       Media!past, Media!camera
<1>a. /\ teardown.at = "rest" /\ teardown'.at = "take" /\ teardown'.left = {}
      /\ teardown'.who = {} /\ previewEdits < MaxEdits /\ previewEdits' = previewEdits + 1
      /\ \/ revision' = revision /\ teardown'.pending = TRUE
         \/ revision' = revision + 1 /\ teardown'.pending = FALSE
  BY DEF Media!BeginEdit, Media!Resting
<1>b. teardown' \in [at : {"rest", "take", "close", "lock", "wait", "commit"},
                     left : SUBSET Sessions, who : SUBSET Sessions, pending : BOOLEAN]
  BY DEF Media!BeginEdit, Media!Resting
<1>c. UNCHANGED <<kind, Media!request, Media!ffmpeg, registered, Media!past>>
  BY DEF Media!BeginEdit
<1>1. Media!TypeOK'
  BY <1>a, <1>b, <1>c, MediaNumbers DEF MediaInv, Media!TypeOK, Media!At, TeardownSane
<1>2. TeardownSane'
  BY <1>a, <1>b, <1>c, MediaNumbers DEF MediaInv, Media!TypeOK, TeardownSane, InHand, BeforeIt,
     LockSane
<1>3. ASSUME NEW t \in Sessions
      PROVE  LockSane(t)' /\ ProcessSane(t)'
  <2>1. LockSane(t)'
    BY <1>a, <1>b, <1>c DEF MediaInv, Media!TypeOK, TeardownSane, InHand, BeforeIt, LockSane
  <2>2. ProcessSane(t)'
    BY <1>a, <1>b, <1>c DEF MediaInv, Media!TypeOK, TeardownSane, InHand, BeforeIt, LockSane,
       ProcessSane
  <2> QED BY <2>1, <2>2
<1> QED BY <1>1, <1>2, <1>3 DEF MediaInv

LEMMA MediaTakeSessions ==
  ASSUME MediaInv, Media!TakeSessions
  PROVE  MediaInv'
<1> USE DEF Media!TakeSessions, Media!Step, Media!ProcessIs, Media!Asked, Media!Ended,
        Media!request, Media!ffmpeg,
       Media!past, Media!camera
<1>1. Media!TypeOK'
  BY MediaNumbers DEF MediaInv, Media!TypeOK, Media!At, TeardownSane
<1>2. TeardownSane'
  BY MediaNumbers DEF MediaInv, Media!TypeOK, TeardownSane, InHand, BeforeIt, LockSane
<1>3. ASSUME NEW t \in Sessions
      PROVE  LockSane(t)' /\ ProcessSane(t)'
  <2>1. LockSane(t)'
    BY DEF MediaInv, Media!TypeOK, TeardownSane, InHand, BeforeIt, LockSane
  <2>2. ProcessSane(t)'
    BY DEF MediaInv, Media!TypeOK, TeardownSane, InHand, BeforeIt, LockSane, ProcessSane
  <2> QED BY <2>1, <2>2
<1> QED BY <1>1, <1>2, <1>3 DEF MediaInv

LEMMA MediaCloseNext ==
  ASSUME MediaInv, Media!CloseNext
  PROVE  MediaInv'
<1> USE DEF Media!Step, Media!ProcessIs, Media!Asked, Media!Ended, Media!request, Media!ffmpeg,
       Media!past, Media!camera
<1>a. /\ \/ /\ \E r \in teardown.left :
                /\ teardown'.left = teardown.left \ {r} /\ teardown'.who = {r}
                /\ r \in Sessions
           /\ teardown'.at = "lock" /\ teardown'.pending = teardown.pending
        \/ /\ teardown.left = {} /\ teardown'.left = {} /\ teardown'.who = {}
           /\ teardown'.at = (IF teardown.pending THEN "commit" ELSE "rest")
           /\ teardown'.pending = FALSE
     /\ teardown' \in [at : {"rest", "take", "close", "lock", "wait", "commit"},
                        left : SUBSET Sessions, who : SUBSET Sessions, pending : BOOLEAN]
  <2>0. /\ [Media!Resting EXCEPT !.at = "commit"].at = "commit"
        /\ [Media!Resting EXCEPT !.at = "commit"].left = {}
        /\ [Media!Resting EXCEPT !.at = "commit"].who = {}
        /\ [Media!Resting EXCEPT !.at = "commit"].pending = FALSE
        /\ [Media!Resting EXCEPT !.at = "commit"]
             \in [at : {"rest", "take", "close", "lock", "wait", "commit"},
                  left : SUBSET Sessions, who : SUBSET Sessions, pending : BOOLEAN]
    BY DEF Media!Resting
  <2>1. CASE /\ teardown.left = {}
             /\ teardown' = IF teardown.pending THEN [Media!Resting EXCEPT !.at = "commit"]
                            ELSE Media!Resting
    <3>1. CASE teardown.pending
      BY <2>0, <2>1, <3>1
    <3>2. CASE ~teardown.pending
      BY <2>1, <3>2 DEF Media!Resting
    <3> QED BY <3>1, <3>2
  <2>2. ASSUME NEW r \in teardown.left,
               teardown' = [teardown EXCEPT !.at = "lock", !.left = @ \ {r}, !.who = {r}]
        PROVE  /\ teardown'.left = teardown.left \ {r} /\ teardown'.who = {r}
               /\ r \in Sessions
               /\ teardown'.at = "lock" /\ teardown'.pending = teardown.pending
               /\ teardown' \in [at : {"rest", "take", "close", "lock", "wait", "commit"},
                        left : SUBSET Sessions, who : SUBSET Sessions, pending : BOOLEAN]
    <3>1. /\ teardown \in [at : {"rest", "take", "close", "lock", "wait", "commit"},
                        left : SUBSET Sessions, who : SUBSET Sessions, pending : BOOLEAN]
          /\ teardown.left \ {r} \in SUBSET Sessions /\ {r} \in SUBSET Sessions /\ r \in Sessions
      BY DEF MediaInv, Media!TypeOK
    <3> QED BY <2>2, <3>1
  <2> QED BY <2>1, <2>2 DEF Media!CloseNext
<1>c. teardown.at = "close" /\ UNCHANGED <<kind, Media!request, Media!ffmpeg, registered, Media!camera, Media!past>>
  BY DEF Media!CloseNext
<1>1. Media!TypeOK'
  BY <1>a, <1>c, MediaNumbers DEF MediaInv, Media!TypeOK, Media!At, TeardownSane
<1>2. TeardownSane'
  BY <1>a, <1>c, MediaNumbers DEF MediaInv, Media!TypeOK, TeardownSane, InHand, BeforeIt, LockSane
<1>3. ASSUME NEW t \in Sessions
      PROVE  LockSane(t)' /\ ProcessSane(t)'
  <2>1. LockSane(t)'
    BY <1>a, <1>c DEF MediaInv, Media!TypeOK, TeardownSane, InHand, BeforeIt, LockSane
  <2>2. ProcessSane(t)'
    BY <1>a, <1>c DEF MediaInv, Media!TypeOK, TeardownSane, InHand, BeforeIt, LockSane, ProcessSane
  <2> QED BY <2>1, <2>2
<1> QED BY <1>1, <1>2, <1>3 DEF MediaInv

LEMMA MediaCloseIt ==
  ASSUME MediaInv, Media!CloseIt
  PROVE  MediaInv'
<1> USE DEF Media!Step, Media!ProcessIs, Media!Asked, Media!Ended, Media!request, Media!ffmpeg,
       Media!past, Media!camera
<1>0. PICK s \in teardown.who :
         /\ closeLock[s] = "free"
         /\ IF closed[s]
            THEN teardown' = [teardown EXCEPT !.at = "close"] /\ UNCHANGED Media!ffmpeg
            ELSE /\ teardown' = [teardown EXCEPT !.at = "wait"]
                 /\ closed' = [closed EXCEPT ![s] = TRUE] /\ Media!ProcessIs(s, Media!Asked(s))
                 /\ closeLock' = [closeLock EXCEPT ![s] = "teardown"]
  BY DEF Media!CloseIt
<1>a. /\ teardown'.left = teardown.left /\ teardown'.who = teardown.who
      /\ teardown'.at = (IF closed[s] THEN "close" ELSE "wait")
      /\ teardown'.pending = teardown.pending
      /\ s \in Sessions
  BY <1>0 DEF MediaInv, Media!TypeOK
<1>b. teardown' \in [at : {"rest", "take", "close", "lock", "wait", "commit"},
                     left : SUBSET Sessions, who : SUBSET Sessions, pending : BOOLEAN]
  BY <1>0 DEF MediaInv, Media!TypeOK
<1>c. /\ teardown.at = "lock" /\ closeLock[s] = "free" /\ s \in teardown.who
      /\ IF closed[s] THEN UNCHANGED Media!ffmpeg
         ELSE /\ closed' = [closed EXCEPT ![s] = TRUE] /\ Media!ProcessIs(s, Media!Asked(s))
              /\ closeLock' = [closeLock EXCEPT ![s] = "teardown"]
      /\ UNCHANGED <<kind, Media!request, registered, Media!camera, Media!past>>
  BY <1>0 DEF Media!CloseIt
<1>1. Media!TypeOK'
  <2>1. CASE closed[s]
    BY <1>a, <1>b, <1>c, MediaNumbers, <2>1 DEF MediaInv, Media!TypeOK, Media!At, TeardownSane
  <2>2. CASE ~closed[s]
    <3>1. sessionAt' \in [Sessions -> Media!At]
      BY <1>a, <1>b, <1>c, <2>2 DEF MediaInv, Media!TypeOK, Media!At
    <3>2. closed' \in [Sessions -> BOOLEAN]
      BY <1>a, <1>b, <1>c, <2>2 DEF MediaInv, Media!TypeOK
    <3>3. process' \in [Sessions -> {"none", "live", "asked", "gone"}]
      BY <1>a, <1>b, <1>c, <2>2 DEF MediaInv, Media!TypeOK
    <3>4. closeLock' \in [Sessions -> {"free", "self", "teardown"}]
      BY <1>a, <1>b, <1>c, <2>2 DEF MediaInv, Media!TypeOK
    <3> QED BY <1>a, <1>b, <1>c, <2>2, <3>1, <3>2, <3>3, <3>4 DEF MediaInv, Media!TypeOK, Media!At
  <2> QED BY <2>1, <2>2
<1>2. TeardownSane'
  <2>1. CASE closed[s]
    BY <1>a, <1>b, <1>c, MediaNumbers, <2>1 DEF MediaInv, Media!TypeOK, TeardownSane, InHand,
       BeforeIt, LockSane
  <2>2. CASE ~closed[s]
    BY <1>a, <1>b, <1>c, MediaNumbers, <2>2 DEF MediaInv, Media!TypeOK, TeardownSane, InHand,
       BeforeIt, LockSane
  <2> QED BY <2>1, <2>2
<1>3. ASSUME NEW t \in Sessions
      PROVE  LockSane(t)' /\ ProcessSane(t)'
  <2>1. LockSane(t)'
    <3>1. CASE closed[s]
      BY <1>a, <1>b, <1>c, <3>1 DEF MediaInv, Media!TypeOK, TeardownSane, InHand, BeforeIt, LockSane
    <3>2. CASE ~closed[s]
      BY <1>a, <1>b, <1>c, <3>2 DEF MediaInv, Media!TypeOK, TeardownSane, InHand, BeforeIt, LockSane
    <3> QED BY <3>1, <3>2
  <2>2. ProcessSane(t)'
    <3>1. CASE closed[s]
      BY <1>a, <1>b, <1>c, <3>1 DEF MediaInv, Media!TypeOK, TeardownSane, InHand, BeforeIt,
         LockSane, ProcessSane
    <3>2. CASE ~closed[s]
      BY <1>a, <1>b, <1>c, <3>2 DEF MediaInv, Media!TypeOK, TeardownSane, InHand, BeforeIt,
         LockSane, ProcessSane
    <3> QED BY <3>1, <3>2
  <2> QED BY <2>1, <2>2
<1> QED BY <1>1, <1>2, <1>3 DEF MediaInv

LEMMA MediaCloseItDone ==
  ASSUME MediaInv, Media!CloseItDone
  PROVE  MediaInv'
<1> USE DEF Media!CloseItDone, Media!Step, Media!ProcessIs, Media!Asked, Media!Ended,
        Media!request, Media!ffmpeg,
       Media!past, Media!camera
<1>1. Media!TypeOK'
  BY MediaNumbers DEF MediaInv, Media!TypeOK, Media!At, TeardownSane
<1>2. TeardownSane'
  BY MediaNumbers DEF MediaInv, Media!TypeOK, TeardownSane, InHand, BeforeIt, LockSane
<1>3. ASSUME NEW t \in Sessions
      PROVE  LockSane(t)' /\ ProcessSane(t)'
  <2>1. LockSane(t)'
    BY DEF MediaInv, Media!TypeOK, TeardownSane, InHand, BeforeIt, LockSane
  <2>2. ProcessSane(t)'
    BY DEF MediaInv, Media!TypeOK, TeardownSane, InHand, BeforeIt, LockSane, ProcessSane
  <2> QED BY <2>1, <2>2
<1> QED BY <1>1, <1>2, <1>3 DEF MediaInv

LEMMA MediaCommitSwitch ==
  ASSUME MediaInv, Media!CommitSwitch
  PROVE  MediaInv'
<1> USE DEF Media!Step, Media!ProcessIs, Media!Asked, Media!Ended, Media!request, Media!ffmpeg,
       Media!past, Media!camera
<1>a. /\ teardown'.at = "rest" /\ teardown'.left = {}
      /\ teardown'.who = {} /\ teardown'.pending = FALSE
  BY DEF Media!CommitSwitch, Media!Resting
<1>b. teardown' \in [at : {"rest", "take", "close", "lock", "wait", "commit"},
                     left : SUBSET Sessions, who : SUBSET Sessions, pending : BOOLEAN]
  BY DEF Media!CommitSwitch, Media!Resting
<1>c. /\ teardown.at = "commit" /\ revision' = revision + 1
      /\ UNCHANGED <<kind, Media!request, Media!ffmpeg, registered, previewEdits, Media!past>>
  BY DEF Media!CommitSwitch
<1>1. Media!TypeOK'
  BY <1>a, <1>b, <1>c, MediaNumbers DEF MediaInv, Media!TypeOK, Media!At, TeardownSane
<1>2. TeardownSane'
  BY <1>a, <1>b, <1>c, MediaNumbers DEF MediaInv, Media!TypeOK, TeardownSane, InHand, BeforeIt,
     LockSane
<1>3. ASSUME NEW t \in Sessions
      PROVE  LockSane(t)' /\ ProcessSane(t)'
  <2>1. LockSane(t)'
    BY <1>a, <1>b, <1>c DEF MediaInv, Media!TypeOK, TeardownSane, InHand, BeforeIt, LockSane
  <2>2. ProcessSane(t)'
    BY <1>a, <1>b, <1>c DEF MediaInv, Media!TypeOK, TeardownSane, InHand, BeforeIt, LockSane,
       ProcessSane
  <2> QED BY <2>1, <2>2
<1> QED BY <1>1, <1>2, <1>3 DEF MediaInv

LEMMA MediaInit ==
  ASSUME Media!Init
  PROVE  MediaInv
<1> USE MediaNumbers DEF Media!Init, Media!Resting
<1>1. Media!TypeOK
  BY DEF Media!TypeOK, Media!At
<1>2. TeardownSane
  BY DEF TeardownSane, InHand
<1>3. ASSUME NEW s \in Sessions
      PROVE  LockSane(s) /\ ProcessSane(s)
  BY DEF LockSane, ProcessSane, BeforeIt
<1> QED BY <1>1, <1>2, <1>3 DEF MediaInv

LEMMA MediaRest ==
  ASSUME MediaInv, UNCHANGED Media!mediaVars
  PROVE  MediaInv'
<1>0. UNCHANGED <<kind, sessionAt, spare, failed, leaving, source, process, closed, closeLock,
                 registered, teardown, revision, previewEdits, caught, cut, abandoned>>
  BY DEF Media!mediaVars, Media!request, Media!ffmpeg, Media!past, Media!camera
<1>1. Media!TypeOK'
  BY <1>0 DEF MediaInv, Media!TypeOK
<1>2. TeardownSane'
  BY <1>0 DEF MediaInv, TeardownSane, InHand
<1>3. ASSUME NEW s \in Sessions
      PROVE  LockSane(s)' /\ ProcessSane(s)'
  BY <1>0 DEF MediaInv, LockSane, ProcessSane
<1> QED BY <1>1, <1>2, <1>3 DEF MediaInv

LEMMA MediaStep ==
  ASSUME MediaInv, [Media!Next]_(Media!mediaVars)
  PROVE  MediaInv'
<1>1. CASE UNCHANGED Media!mediaVars
  BY <1>1, MediaRest
<1>2. ASSUME NEW s \in Sessions, Media!Connected(s)
      PROVE  MediaInv'
  BY <1>2, MediaAsk, MediaOpenProcess, MediaFirstChunk, MediaNoFirstChunk, MediaDropped,
     MediaRegister,
     MediaServe, MediaStartWall, MediaSpawned, MediaStreamEnds, MediaClientLeaves, MediaCloseSelf,
     MediaClosedSelf, MediaCloseCut, MediaUnregister, MediaProcessExits
     DEF Media!Connected, Media!Opening, Media!Closing
<1>3. CASE Media!BeginEdit \/ Media!Teardown
  BY <1>3, MediaBeginEdit, MediaTakeSessions, MediaCloseNext, MediaCloseIt, MediaCloseItDone,
     MediaCommitSwitch DEF Media!Teardown
<1> QED BY <1>1, <1>2, <1>3 DEF Media!Next

LEMMA MediaHonest ==
  ASSUME MediaInv
  PROVE  Media!SessionsClosed
<1>1. Media!TeardownCloses
  BY DEF MediaInv, TeardownSane, ProcessSane, Media!TeardownCloses
<1>2. Media!SessionsAccounted
  <2>1. ASSUME NEW s \in Sessions, sessionAt[s] = "done", process[s] \in {"live", "asked"}
        PROVE  process[s] = "asked" /\ (s \in cut \/ teardown.at = "wait")
    BY <2>1 DEF MediaInv, ProcessSane, LockSane
  <2>2. ASSUME NEW s \in Sessions, sessionAt[s] = "left", process[s] = "live"
        PROVE  s \in registered \cup teardown.left \cup teardown.who
    BY <2>2 DEF MediaInv, ProcessSane
  <2> QED BY <2>1, <2>2 DEF Media!SessionsAccounted
<1>3. Media!RegistryHonest
  BY DEF MediaInv, TeardownSane, BeforeIt, Media!RegistryHonest
<1> QED BY <1>1, <1>2, <1>3 DEF Media!SessionsClosed

-----------------------------------------------------------------------------
(* HikBridge                                                               *)
\* A stream that has come to its end at the bridge.
Ended(s) == device[s] \in {"halting", "logout", "out"}

\* How far a request has come tells what the bridge still has of it: whoever
\* has sent its DELETE has ended the stream, or was not heard.
Stage(s) ==
  /\ reader[s] = "idle" => device[s] = "none"
  /\ reader[s] \in {"idle", "create", "register"} => s \notin wanted /\ ~regClosed[s]
  /\ reader[s] \in {"register", "serve", "stream", "close", "delete", "left"} =>
        device[s] = "open" \/ Ended(s)
  /\ reader[s] = "delete" => regClosed[s]
  /\ reader[s] \in {"unregister", "done"} => Ended(s) \/ s \in unheard
  /\ regClosed[s] /\ reader[s] # "delete" => Ended(s) \/ s \in unheard
  /\ reader[s] \in {"serve", "left"} => s \in wanted \/ Ended(s) \/ s \in unheard
  /\ s \in table <=> device[s] = "open"

HikFunctions ==
  /\ reader \in [Streams -> {"idle", "create", "register", "serve", "stream", "close",
                          "delete", "unregister", "done", "left"}]
  /\ device \in [Streams -> {"none", "login", "play", "open", "halting", "logout", "out"}]
  /\ regClosed \in [Streams -> BOOLEAN]
  /\ {wanted, table, unheard} \subseteq SUBSET Streams

HikInv == HikFunctions /\ \A s \in Streams : Stage(s)

LEMMA HikInit ==
  ASSUME Hik!Init
  PROVE  HikInv
<1>1. HikFunctions
  BY DEF Hik!Init, HikFunctions
<1>2. ASSUME NEW s \in Streams
      PROVE  Stage(s)
  <2>1. reader[s] = "idle" /\ regClosed[s] = FALSE /\ device[s] = "none" /\ s \notin wanted /\ s \notin table
    BY DEF Hik!Init
  <2> QED BY <2>1 DEF Stage, Ended
<1> QED BY <1>1, <1>2 DEF HikInv

\* Only the stream a step is about changes.
LEMMA HikStep ==
  ASSUME HikInv, NEW s \in Streams, Hik!Step(s)
  PROVE  HikInv'
<1> USE DEF HikInv, HikFunctions
<1> USE DEF Hik!Reader, Hik!Device, Hik!backendVars, Hik!bridgeVars, Hik!hikHistory
<1> DEFINE Rest == \A t \in Streams \ {s} :
                     /\ reader'[t] = reader[t] /\ device'[t] = device[t]
                     /\ regClosed'[t] = regClosed[t]
                     /\ t \in wanted' <=> t \in wanted
                     /\ t \in unheard' <=> t \in unheard
                     /\ t \in table' <=> t \in table
<1>0. ASSUME Rest, HikFunctions', Stage(s)'
      PROVE  HikInv'
  BY <1>0 DEF Stage, Ended
<1>1. CASE Hik!Create(s)
  <2>1. Rest /\ HikFunctions'
    BY <1>1 DEF Hik!Create
  <2>2. Stage(s)'
    BY <1>1 DEF Hik!Create, Stage, Ended
  <2> QED BY <1>0, <2>1, <2>2
<1>2. CASE Hik!LoginFails(s)
  <2>1. Rest /\ HikFunctions'
    BY <1>2 DEF Hik!LoginFails
  <2>2. Stage(s)'
    BY <1>2 DEF Hik!LoginFails, Stage, Ended
  <2> QED BY <1>0, <2>1, <2>2
<1>3. CASE Hik!LoggedIn(s)
  <2>1. Rest /\ HikFunctions'
    BY <1>3 DEF Hik!LoggedIn
  <2>2. Stage(s)'
    BY <1>3 DEF Hik!LoggedIn, Stage, Ended
  <2> QED BY <1>0, <2>1, <2>2
<1>4. CASE Hik!PlayFails(s)
  <2>1. Rest /\ HikFunctions'
    BY <1>4 DEF Hik!PlayFails
  <2>2. Stage(s)'
    BY <1>4 DEF Hik!PlayFails, Stage, Ended
  <2> QED BY <1>0, <2>1, <2>2
<1>5. CASE Hik!Playing(s)
  <2>1. Rest /\ HikFunctions'
    BY <1>5 DEF Hik!Playing
  <2>2. Stage(s)'
    BY <1>5 DEF Hik!Playing, Stage, Ended
  <2> QED BY <1>0, <2>1, <2>2
<1>6. CASE Hik!Answer(s)
  <2>1. Rest /\ HikFunctions'
    BY <1>6 DEF Hik!Answer
  <2>2. Stage(s)'
    BY <1>6 DEF Hik!Answer, Stage, Ended
  <2> QED BY <1>0, <2>1, <2>2
<1>7. CASE Hik!RegisterStream(s)
  <2>1. Rest /\ HikFunctions'
    BY <1>7 DEF Hik!RegisterStream
  <2>2. Stage(s)'
    BY <1>7 DEF Hik!RegisterStream, Stage, Ended
  <2> QED BY <1>0, <2>1, <2>2
<1>8. CASE Hik!ServeMedia(s)
  <2>1. Rest /\ HikFunctions'
    BY <1>8 DEF Hik!ServeMedia
  <2>2. Stage(s)'
    BY <1>8 DEF Hik!ServeMedia, Stage, Ended
  <2> QED BY <1>0, <2>1, <2>2
<1>9. CASE Hik!CloseStream(s)
  <2>1. Rest /\ HikFunctions'
    BY <1>9 DEF Hik!CloseStream
  <2>2. Stage(s)'
    BY <1>9 DEF Hik!CloseStream, Stage, Ended
  <2> QED BY <1>0, <2>1, <2>2
<1>10. CASE Hik!Delete(s)
  <2>1. Rest /\ HikFunctions'
    BY <1>10 DEF Hik!Delete, Hik!StopStream
  <2>2. Stage(s)'
    BY <1>10 DEF Hik!Delete, Hik!StopStream, Stage, Ended
  <2> QED BY <1>0, <2>1, <2>2
<1>11. CASE Hik!Unregister(s)
  <2>1. Rest /\ HikFunctions'
    BY <1>11 DEF Hik!Unregister
  <2>2. Stage(s)'
    BY <1>11 DEF Hik!Unregister, Stage, Ended
  <2> QED BY <1>0, <2>1, <2>2
<1>12. CASE Hik!MediaEnds(s)
  <2>1. Rest /\ HikFunctions'
    BY <1>12 DEF Hik!MediaEnds
  <2>2. Stage(s)'
    BY <1>12 DEF Hik!MediaEnds, Stage, Ended
  <2> QED BY <1>0, <2>1, <2>2
<1>13. CASE Hik!TearDown(s)
  <2>1. Rest /\ HikFunctions'
    <3>1. UNCHANGED reader /\ wanted' = wanted \ {s}
      BY <1>13 DEF Hik!TearDown
    <3>2. regClosed' = regClosed \/ regClosed' = [regClosed EXCEPT ![s] = TRUE]
      BY <1>13 DEF Hik!TearDown
    <3>3. \/ UNCHANGED <<table, device>>
          \/ table' = table \ {s} /\ device' = [device EXCEPT ![s] = "halting"]
      BY <1>13 DEF Hik!TearDown, Hik!StopStream
    <3>4. unheard' = unheard \/ unheard' = unheard \cup {s}
      BY <1>13 DEF Hik!TearDown
    <3>5. regClosed' \in [Streams -> BOOLEAN] /\ \A t \in Streams \ {s} : regClosed'[t] = regClosed[t]
      BY <3>2
    <3>6. device' \in [Streams -> {"none", "login", "play", "open", "halting", "logout", "out"}]
      BY <3>3
    <3>7. \A t \in Streams \ {s} : device'[t] = device[t] /\ (t \in table' <=> t \in table)
      BY <3>3
    <3>8. {wanted', table', unheard'} \subseteq SUBSET Streams
      BY <3>1, <3>3, <3>4
    <3>9. Rest
      BY <3>1, <3>4, <3>5, <3>7
    <3> QED BY <3>1, <3>5, <3>6, <3>8, <3>9
  <2>2. Stage(s)'
    BY <1>13 DEF Hik!TearDown, Hik!StopStream, Stage, Ended
  <2> QED BY <1>0, <2>1, <2>2
<1>14. CASE Hik!Consume(s)
  <2>1. Rest /\ HikFunctions'
    BY <1>14 DEF Hik!Consume, Hik!StopStream, Hik!Holed
  <2>2. Stage(s)'
    BY <1>14 DEF Hik!Consume, Hik!StopStream, Hik!Holed, Stage, Ended
  <2> QED BY <1>0, <2>1, <2>2
<1>15. CASE Hik!ConsumerCancelled(s)
  <2>1. Rest /\ HikFunctions'
    BY <1>15 DEF Hik!ConsumerCancelled, Hik!StopStream
  <2>2. Stage(s)'
    BY <1>15 DEF Hik!ConsumerCancelled, Hik!StopStream, Stage, Ended
  <2> QED BY <1>0, <2>1, <2>2
<1>16. CASE Hik!Halted(s)
  <2>1. Rest /\ HikFunctions'
    BY <1>16 DEF Hik!Halted
  <2>2. Stage(s)'
    BY <1>16 DEF Hik!Halted, Stage, Ended
  <2> QED BY <1>0, <2>1, <2>2
<1>17. CASE Hik!LoggedOut(s)
  <2>1. Rest /\ HikFunctions'
    BY <1>17 DEF Hik!LoggedOut
  <2>2. Stage(s)'
    BY <1>17 DEF Hik!LoggedOut, Stage, Ended
  <2> QED BY <1>0, <2>1, <2>2
<1>18. CASE Hik!StopEach(s)
  <2>1. Rest /\ HikFunctions'
    BY <1>18 DEF Hik!StopEach, Hik!StopStream
  <2>2. Stage(s)'
    BY <1>18 DEF Hik!StopEach, Hik!StopStream, Stage, Ended
  <2> QED BY <1>0, <2>1, <2>2
<1>19. CASE Hik!Data(s)
  <2>1. Rest /\ HikFunctions'
    BY <1>19 DEF Hik!Data
  <2>2. Stage(s)'
    BY <1>19 DEF Hik!Data, Stage, Ended
  <2> QED BY <1>0, <2>1, <2>2
<1> QED BY <1>1, <1>2, <1>3, <1>4, <1>5, <1>6, <1>7, <1>8, <1>9, <1>10, <1>11, <1>12, <1>13,
           <1>14, <1>15, <1>16, <1>17, <1>18, <1>19
        DEF Hik!Step, Hik!Creating, Hik!Serving, Hik!Bridge

\* The bridge's own stop and a step that changes nothing.
LEMMA HikRest ==
  ASSUME HikInv, Hik!StopBridge \/ UNCHANGED Hik!hikVars
  PROVE  HikInv'
BY DEF HikInv, HikFunctions, Stage, Ended, Hik!StopBridge, Hik!hikVars, Hik!backendVars,
       Hik!bridgeVars, Hik!hikHistory

\* What TypeOK says beside HikFunctions; a queue holds no more than it has room for.
HikRoom ==
  /\ overflowed \in [Streams -> BOOLEAN] /\ unread \subseteq Streams
  /\ chunks \in [Streams -> 0..QueueSize]
  /\ consumer \in [Streams -> {"none", "reading", "ended"}]
  /\ stopping \in BOOLEAN /\ hikFaults \in 0..MaxLosses

LEMMA HikNumbers == QueueSize \in Nat \ {0} /\ MaxLosses \in Nat
BY ManagersAssumption

LEMMA RoomInit ==
  ASSUME Hik!Init
  PROVE  HikRoom
<1>1. /\ overflowed = [s \in Streams |-> FALSE] /\ unread = {} /\ chunks = [s \in Streams |-> 0]
      /\ consumer = [s \in Streams |-> "none"] /\ stopping = FALSE /\ hikFaults = 0
  BY DEF Hik!Init
<1>2. 0 \in 0..QueueSize /\ 0 \in 0..MaxLosses
  BY HikNumbers
<1> QED BY <1>1, <1>2 DEF HikRoom

LEMMA RoomStep ==
  ASSUME HikRoom, NEW s \in Streams, Hik!Step(s)
  PROVE  HikRoom'
<1> USE HikNumbers DEF HikRoom, Hik!Reader, Hik!Device, Hik!backendVars, Hik!bridgeVars,
        Hik!hikHistory
<1>1. CASE UNCHANGED <<overflowed, unread, chunks, consumer, stopping>>
           /\ (hikFaults' = hikFaults \/ (hikFaults < MaxLosses /\ hikFaults' = hikFaults + 1))
  BY <1>1
<1>2. CASE Hik!Create(s) \/ Hik!Creating(s)
  <2>1. UNCHANGED <<overflowed, unread, chunks, consumer, stopping>>
        /\ (hikFaults' = hikFaults \/ (hikFaults < MaxLosses /\ hikFaults' = hikFaults + 1))
    BY <1>2 DEF Hik!Create, Hik!Creating, Hik!LoginFails, Hik!LoggedIn, Hik!PlayFails,
       Hik!Playing, Hik!Answer
  <2> QED BY <1>1, <2>1
<1>3. CASE Hik!RegisterStream(s) \/ Hik!CloseStream(s) \/ Hik!Delete(s) \/ Hik!Unregister(s)
           \/ Hik!MediaEnds(s) \/ Hik!TearDown(s)
  <2>1. UNCHANGED <<overflowed, unread, chunks, consumer, stopping>>
        /\ (hikFaults' = hikFaults \/ (hikFaults < MaxLosses /\ hikFaults' = hikFaults + 1))
    BY <1>3 DEF Hik!RegisterStream, Hik!CloseStream, Hik!Delete, Hik!Unregister, Hik!MediaEnds,
       Hik!TearDown
  <2> QED BY <1>1, <2>1
<1>4. CASE Hik!ServeMedia(s)
  BY <1>4 DEF Hik!ServeMedia
<1>5. CASE Hik!Halted(s) \/ Hik!LoggedOut(s) \/ Hik!StopEach(s)
  <2>1. UNCHANGED <<overflowed, unread, chunks, consumer, stopping, hikFaults>>
    BY <1>5 DEF Hik!Halted, Hik!LoggedOut, Hik!StopEach
  <2> QED BY <1>1, <2>1
<1>6. CASE Hik!Consume(s)
  BY <1>6 DEF Hik!Consume
<1>7. CASE Hik!ConsumerCancelled(s)
  BY <1>7 DEF Hik!ConsumerCancelled
<1>8. CASE Hik!Data(s)
  <2>1. UNCHANGED <<unread, consumer, stopping, hikFaults>>
    BY <1>8 DEF Hik!Data
  <2>2. CASE chunks[s] < QueueSize
    <3>1. UNCHANGED overflowed /\ chunks' = [chunks EXCEPT ![s] = @ + 1] /\ chunks[s] + 1 \in 0..QueueSize
      BY <1>8, <2>2 DEF Hik!Data
    <3> QED BY <2>1, <3>1
  <2>3. CASE ~(chunks[s] < QueueSize)
    BY <1>8, <2>1, <2>3 DEF Hik!Data
  <2> QED BY <2>2, <2>3
<1> QED BY <1>2, <1>3, <1>4, <1>5, <1>6, <1>7, <1>8
      DEF Hik!Step, Hik!Serving, Hik!Bridge

LEMMA RoomRest ==
  ASSUME HikRoom, Hik!StopBridge \/ UNCHANGED Hik!hikVars
  PROVE  HikRoom'
<1>1. /\ UNCHANGED <<overflowed, unread, chunks, consumer, hikFaults>>
      /\ stopping' \in {stopping, TRUE}
  BY DEF Hik!StopBridge, Hik!hikVars, Hik!backendVars, Hik!bridgeVars, Hik!hikHistory
<1> QED BY <1>1 DEF HikRoom

LEMMA HikHonest ==
  ASSUME HikInv, HikRoom
  PROVE  Hik!TypeOK /\ Hik!LoginsAccounted
<1>1. Hik!TypeOK
  BY DEF HikInv, HikFunctions, HikRoom, Hik!TypeOK
<1>2. Hik!LoginsAccounted
  BY DEF HikInv, Stage, Ended, Hik!LoginsAccounted
<1> QED BY <1>1, <1>2

-----------------------------------------------------------------------------
(* PlaybackPrefetch                                                        *)
LEMMA NobodyIsNone == 0 \notin Recordings /\ 0 \notin Tasks /\ Recordings \subseteq Nat /\ 1 \in Recordings
BY ManagersAssumption

\* A set of numbers has a least one.

LEMMA FollowingIn ==
  ASSUME NEW p
  PROVE  \/ Prefetch!Following(p) = 0
         \/ Prefetch!Following(p) \in Recordings /\ place[Prefetch!Following(p)] = "cloud"
<1> DEFINE first == CHOOSE x \in Prefetch!Later(p) : \A y \in Prefetch!Later(p) : x <= y
<1>1. CASE Prefetch!Later(p) = {}
  BY <1>1 DEF Prefetch!Following, Prefetch!Nobody
<1>2. CASE Prefetch!Later(p) # {}
  <2>1. Prefetch!Later(p) \subseteq Recordings /\ Prefetch!Later(p) \subseteq Nat
    BY NobodyIsNone DEF Prefetch!Later
  <2>2. \E x \in Prefetch!Later(p) : \A y \in Prefetch!Later(p) : x <= y
    BY <1>2, <2>1, LeastNumber
  <2>3. first \in Recordings
    BY <2>1, <2>2
  <2>4. Prefetch!Following(p) = IF place[first] = "cloud" THEN first ELSE 0
    BY <1>2 DEF Prefetch!Following, Prefetch!Nobody
  <2> HIDE DEF first
  <2> QED BY <2>3, <2>4
<1> QED BY <1>1, <1>2

\* What a delayed task waits for follows what it was made for.
Sequel(t) == task[t].at \in {"wait", "warm"} =>
  /\ task[t].of \in Recordings /\ task[t].next \in Recordings
  /\ task[t].next = Prefetch!Following(task[t].of)

\* Before lookups overlap, one that is under way is the only task that may
\* still become tracked.
Alone(t) == task[t].at = "look" /\ ~overlapped /\ ~ended =>
  \A u \in Tasks : u # t => task[u].at \notin {"look", "wait"}

Tracked(t) == task[t].at = "wait" =>
  (t = tracked /\ current = task[t].of) \/ overlapped \/ ended

Linked == \A r \in links : place[r] = "cloud" /\ \E p \in Recordings : Prefetch!Following(p) = r

\* A task that looks something up knows for which recording.
Purposeful(t) == task[t].at \in {"arm", "look"} => task[t].of \in Recordings

PrefetchInv ==
  /\ Prefetch!TypeOK /\ Linked
  /\ \A t \in Tasks : Sequel(t) /\ Alone(t) /\ Tracked(t) /\ Purposeful(t)

LEMMA PrefetchInit ==
  ASSUME Prefetch!Init
  PROVE  PrefetchInv
BY DEF Prefetch!Init, Prefetch!Idle, Prefetch!Nobody, PrefetchInv, Prefetch!TypeOK, Linked,
   Sequel, Alone, Tracked, Purposeful

\* Where the places do not change, what follows does not.
LEMMA FollowingStays ==
  ASSUME UNCHANGED place
  PROVE  \A p : Prefetch!Following(p)' = Prefetch!Following(p)
BY DEF Prefetch!Following, Prefetch!Later

\* A step that leaves the places alone and every task as it was, or cancelled,
\* or over.
LEMMA TasksEndSafely ==
  ASSUME PrefetchInv, UNCHANGED <<place, links>>, overlapped => overlapped', ended => ended',
         overlapped' \in BOOLEAN, ended' \in BOOLEAN,
         armed' \subseteq Recordings, tracked' \in Tasks \cup {0}, current' \in Recordings \cup {0},
         task' = [u \in Tasks |-> task'[u]],
         \A u \in Tasks : \/ task'[u] = task[u]
                          \/ task'[u] = [task[u] EXCEPT !.at = "cancelled"]
                          \/ task'[u] = [at |-> "done", of |-> 0, next |-> 0],
         \A u \in Tasks : task'[u].at = "wait" /\ ~overlapped' /\ ~ended' =>
                            tracked' = tracked /\ current' = current
  PROVE  PrefetchInv'
<1>1. ASSUME NEW u \in Tasks
      PROVE  /\ task'[u] \in [at : {"none", "arm", "look", "wait", "warm", "cancelled", "done"},
                              of : Recordings \cup {0}, next : Recordings \cup {0}]
             /\ task'[u].at \in {task[u].at, "cancelled", "done"}
             /\ task'[u].at \notin {"cancelled", "done"} => task'[u] = task[u]
  <2>1. task[u] \in [at : {"none", "arm", "look", "wait", "warm", "cancelled", "done"},
                     of : Recordings \cup {0}, next : Recordings \cup {0}]
    BY DEF PrefetchInv, Prefetch!TypeOK, Prefetch!Nobody
  <2>2. CASE task'[u] = task[u]
    BY <2>1, <2>2
  <2>3. CASE task'[u] = [task[u] EXCEPT !.at = "cancelled"]
    BY <2>1, <2>3
  <2>4. CASE task'[u] = [at |-> "done", of |-> 0, next |-> 0]
    BY <2>1, <2>4
  <2> QED BY <2>2, <2>3, <2>4
<1>2. Prefetch!TypeOK'
  <2>1. /\ place' \in [Recordings -> {"local", "cloud", "nowhere"}] /\ links' \subseteq Recordings
    BY DEF PrefetchInv, Prefetch!TypeOK
  <2>2. task' \in [Tasks -> [at : {"none", "arm", "look", "wait", "warm", "cancelled", "done"},
                             of : Recordings \cup {0}, next : Recordings \cup {0}]]
    BY <1>1
  <2> QED BY <2>1, <2>2 DEF Prefetch!TypeOK, Prefetch!Nobody
<1>3. Linked'
  BY FollowingStays DEF PrefetchInv, Linked
<1>4. ASSUME NEW u \in Tasks
      PROVE  Sequel(u)' /\ Alone(u)' /\ Tracked(u)' /\ Purposeful(u)'
  <2>1. Sequel(u) /\ Alone(u) /\ Tracked(u) /\ Purposeful(u)
    BY DEF PrefetchInv
  <2>2. Sequel(u)'
    BY <1>1, <2>1, FollowingStays DEF Sequel
  <2>3. Alone(u)'
    BY <1>1, <2>1 DEF Alone
  <2>4. Tracked(u)'
    BY <1>1, <2>1 DEF Tracked
  <2>5. Purposeful(u)'
    BY <1>1, <2>1 DEF Purposeful
  <2> QED BY <2>2, <2>3, <2>4, <2>5
<1> QED BY <1>2, <1>3, <1>4 DEF PrefetchInv

LEMMA PrefetchStep ==
  ASSUME PrefetchInv, [Prefetch!Next]_(Prefetch!prefetchVars)
  PROVE  PrefetchInv'
<1> USE DEF Prefetch!Nobody
<1>0. /\ tracked \in Tasks \cup {0} /\ current \in Recordings \cup {0} /\ armed \subseteq Recordings
      /\ links \subseteq Recordings /\ task = [u \in Tasks |-> task[u]]
      /\ ended \in BOOLEAN /\ overlapped \in BOOLEAN
  BY DEF PrefetchInv, Prefetch!TypeOK
<1>t. Prefetch!CancelTracked = [u \in Tasks |->
        IF u = tracked /\ Prefetch!Live(u) THEN [task[u] EXCEPT !.at = "cancelled"] ELSE task[u]]
  BY <1>0, NobodyIsNone DEF Prefetch!CancelTracked
<1>1. ASSUME NEW r \in Recordings, Prefetch!Forget(r) \/ Prefetch!RunOut(r)
      PROVE  PrefetchInv'
  <2>1. /\ links' \subseteq links /\ armed' \subseteq armed
        /\ UNCHANGED <<place, task, tracked, current, ended, overlapped>>
    BY <1>1 DEF Prefetch!Forget, Prefetch!RunOut
  <2>2. Prefetch!TypeOK'
    BY <2>1 DEF PrefetchInv, Prefetch!TypeOK
  <2>3. Linked'
    BY <2>1, FollowingStays DEF PrefetchInv, Linked
  <2>4. ASSUME NEW u \in Tasks
        PROVE  Sequel(u)' /\ Alone(u)' /\ Tracked(u)' /\ Purposeful(u)'
    BY <2>1, FollowingStays DEF PrefetchInv, Sequel, Alone, Tracked, Purposeful
  <2> QED BY <2>2, <2>3, <2>4 DEF PrefetchInv
<1>2. ASSUME NEW t \in Tasks, Prefetch!LookFails(t) \/ Prefetch!Unwind(t)
      PROVE  PrefetchInv'
  <2>1. /\ task[t].at # "wait" /\ task' = [task EXCEPT ![t] = [at |-> "done", of |-> 0, next |-> 0]]
        /\ tracked' = IF tracked = t /\ Prefetch!Unwind(t) THEN 0 ELSE tracked
        /\ UNCHANGED <<place, armed, current, links, ended, overlapped>>
    BY <1>2 DEF Prefetch!LookFails, Prefetch!Unwind, Prefetch!Over, Prefetch!Idle
  <2>2. \A u \in Tasks : task'[u].at = "wait" /\ ~overlapped' /\ ~ended' =>
                            tracked' = tracked /\ current' = current
    BY <2>1 DEF PrefetchInv, Tracked
  <2> QED BY <1>0, <2>1, <2>2, TasksEndSafely
<1>3. ASSUME NEW r \in Recordings, Prefetch!Play(r)
      PROVE  PrefetchInv'
  <2>1. PICK t \in Tasks : /\ Prefetch!Free(t)
                           /\ task' = [task EXCEPT ![t] = [at |-> "arm", of |-> r, next |-> 0]]
    BY <1>3 DEF Prefetch!Play, Prefetch!Idle
  <2>2. armed' \subseteq Recordings /\ UNCHANGED <<place, tracked, current, links, ended, overlapped>>
    BY <1>0, <1>3 DEF Prefetch!Play
  <2>3. Prefetch!TypeOK'
    BY <2>1, <2>2 DEF PrefetchInv, Prefetch!TypeOK
  <2>4. Linked'
    BY <2>2, FollowingStays DEF PrefetchInv, Linked
  <2>5. ASSUME NEW u \in Tasks
        PROVE  Sequel(u)' /\ Alone(u)' /\ Tracked(u)' /\ Purposeful(u)'
    BY <1>0, <2>1, <2>2, FollowingStays DEF PrefetchInv, Sequel, Alone, Tracked, Purposeful
  <2> QED BY <2>3, <2>4, <2>5 DEF PrefetchInv
<1>4. ASSUME NEW t \in Tasks, Prefetch!Arm(t)
      PROVE  PrefetchInv'
  <2>1. /\ task[t].at = "arm" /\ UNCHANGED <<place, armed, tracked, current, links, ended>>
        /\ (overlapped' <=> (overlapped \/ \E u \in Tasks : task[u].at = "look"))
        /\ overlapped' \in BOOLEAN
    BY <1>0, <1>4 DEF Prefetch!Arm
  <2>2. CASE tracked # 0 /\ Prefetch!Live(tracked) /\ current = task[t].of
    <3>1. task' = [task EXCEPT ![t] = [at |-> "done", of |-> 0, next |-> 0]]
      BY <1>4, <2>2 DEF Prefetch!Arm, Prefetch!Over, Prefetch!Idle
    <3> QED BY <1>0, <2>1, <3>1, TasksEndSafely
  <2>3. CASE ~(tracked # 0 /\ Prefetch!Live(tracked) /\ current = task[t].of)
    <3>1. task' = [Prefetch!CancelTracked EXCEPT ![t].at = "look"]
      BY <1>4, <2>3 DEF Prefetch!Arm
    <3>2. ~Prefetch!Live(t)
      BY <2>1 DEF Prefetch!Live
    <3>3. /\ task' = [u \in Tasks |-> task'[u]]
          /\ task'[t] = [task[t] EXCEPT !.at = "look"]
          /\ \A u \in Tasks \ {t} : task'[u] =
               IF u = tracked /\ Prefetch!Live(u) THEN [task[u] EXCEPT !.at = "cancelled"] ELSE task[u]
      BY <1>t, <3>1, <3>2
    <3>4. ASSUME NEW u \in Tasks
          PROVE  /\ task'[u] \in [at : {"none", "arm", "look", "wait", "warm", "cancelled", "done"},
                                  of : Recordings \cup {0}, next : Recordings \cup {0}]
                 /\ task'[u].of = task[u].of /\ task'[u].next = task[u].next
                 /\ u = t => task'[u].at = "look"
                 /\ u # t => task'[u].at \in {task[u].at, "cancelled"}
                 /\ task'[u].at = "wait" => u # tracked
      BY <3>3 DEF PrefetchInv, Prefetch!TypeOK, Prefetch!Live
    <3>5. Prefetch!TypeOK'
      <4>1. task' \in [Tasks -> [at : {"none", "arm", "look", "wait", "warm", "cancelled", "done"},
                                 of : Recordings \cup {0}, next : Recordings \cup {0}]]
        BY <3>3, <3>4
      <4> QED BY <2>1, <4>1 DEF PrefetchInv, Prefetch!TypeOK
    <3>6. Linked'
      BY <2>1, FollowingStays DEF PrefetchInv, Linked
    <3>7. ASSUME NEW u \in Tasks
          PROVE  Sequel(u)' /\ Alone(u)' /\ Tracked(u)' /\ Purposeful(u)'
      <4>1. \A v \in Tasks : Sequel(v) /\ Alone(v) /\ Tracked(v) /\ Purposeful(v)
        BY DEF PrefetchInv
      <4>2. Sequel(u)'
        BY <2>1, <3>4, <4>1, FollowingStays DEF Sequel
      <4>3. Purposeful(u)'
        BY <2>1, <3>4, <4>1 DEF Purposeful
      <4>4. Tracked(u)'
        BY <2>1, <3>4, <4>1 DEF Tracked
      <4>5. Alone(u)'
        BY <2>1, <3>4, <4>1 DEF Alone, Tracked
      <4> QED BY <4>2, <4>3, <4>4, <4>5
    <3> QED BY <3>5, <3>6, <3>7 DEF PrefetchInv
  <2> QED BY <2>2, <2>3
<1>5. ASSUME NEW t \in Tasks, Prefetch!Looked(t)
      PROVE  PrefetchInv'
  <2>1. /\ task[t].at = "look" /\ current' = task[t].of /\ current' \in Recordings
        /\ UNCHANGED <<place, armed, links, ended, overlapped>>
    BY <1>5 DEF Prefetch!Looked, PrefetchInv, Purposeful
  <2>2. ~overlapped /\ ~ended => \A u \in Tasks : u # t => task[u].at \notin {"look", "wait"}
    BY <2>1 DEF PrefetchInv, Alone
  <2> DEFINE next == Prefetch!Following(task[t].of)
  <2>3. CASE next = 0
    <3>1. task' = [task EXCEPT ![t] = [at |-> "done", of |-> 0, next |-> 0]] /\ UNCHANGED tracked
      BY <1>5, <2>3 DEF Prefetch!Looked, Prefetch!Over, Prefetch!Idle
    <3>2. \A u \in Tasks : task'[u].at = "wait" /\ ~overlapped' /\ ~ended' => FALSE
      BY <1>0, <2>1, <2>2, <3>1
    <3> QED BY <1>0, <2>1, <3>1, <3>2, TasksEndSafely
  <2>4. CASE next # 0
    <3>1. PICK u \in Tasks :
            /\ Prefetch!Free(u) /\ tracked' = u
            /\ task' = [task EXCEPT ![t] = [at |-> "done", of |-> 0, next |-> 0],
                                    ![u] = [at |-> "wait", of |-> task[t].of, next |-> next]]
      BY <1>5, <2>4 DEF Prefetch!Looked, Prefetch!Over, Prefetch!Idle
    <3>2. u # t /\ next \in Recordings /\ task[t].of \in Recordings
      BY <2>1, <2>4, <3>1, FollowingIn DEF Prefetch!Free
    <3>3. next = Prefetch!Following(task[t].of)
      OBVIOUS
    <3> HIDE DEF next
    <3>4. /\ task'[u] = [at |-> "wait", of |-> task[t].of, next |-> next]
          /\ task'[t] = [at |-> "done", of |-> 0, next |-> 0]
          /\ \A v \in Tasks \ {t, u} : task'[v] = task[v]
          /\ task' = [v \in Tasks |-> task'[v]]
      BY <1>0, <3>1, <3>2
    <3>5. Prefetch!TypeOK'
      BY <2>1, <3>1, <3>2 DEF PrefetchInv, Prefetch!TypeOK
    <3>6. Linked'
      BY <2>1, FollowingStays DEF PrefetchInv, Linked
    <3>7. ASSUME NEW v \in Tasks
          PROVE  Sequel(v)' /\ Alone(v)' /\ Tracked(v)' /\ Purposeful(v)'
      <4>1. Sequel(v) /\ Alone(v) /\ Tracked(v) /\ Purposeful(v)
        BY DEF PrefetchInv
      <4>2. Sequel(v)'
        <5>1. CASE v = u
          <6>1. task'[v].of = task[t].of /\ task'[v].next = next
            BY <3>4, <5>1
          <6> QED BY <2>1, <3>2, <3>3, <6>1, FollowingStays DEF Sequel
        <5>2. CASE v # u
          BY <2>1, <3>4, <4>1, <5>2, FollowingStays DEF Sequel
        <5> QED BY <5>1, <5>2
      <4>3. Purposeful(v)'
        BY <2>1, <3>2, <3>4, <4>1 DEF Purposeful
      <4>4. Tracked(v)'
        BY <2>1, <2>2, <3>1, <3>4, <4>1 DEF Tracked
      <4>5. Alone(v)'
        BY <2>1, <2>2, <3>4, <4>1 DEF Alone
      <4> QED BY <4>2, <4>3, <4>4, <4>5
    <3> QED BY <3>5, <3>6, <3>7 DEF PrefetchInv
  <2> QED BY <2>3, <2>4
<1>6. ASSUME NEW t \in Tasks, Prefetch!Wake(t)
      PROVE  PrefetchInv'
  <2>1. task[t].at = "wait" /\ UNCHANGED <<place, armed, current, links, ended, overlapped>>
    BY <1>6 DEF Prefetch!Wake
  <2>2. CASE current = task[t].of
    <3>1. task' = [task EXCEPT ![t].at = "warm"] /\ UNCHANGED tracked
      BY <1>6, <2>2 DEF Prefetch!Wake, Prefetch!Go
    <3>2. /\ task'[t] = [task[t] EXCEPT !.at = "warm"]
          /\ \A v \in Tasks \ {t} : task'[v] = task[v]
      BY <1>0, <3>1
    <3>3. /\ task'[t].at = "warm" /\ task'[t].of = task[t].of /\ task'[t].next = task[t].next
      BY <3>2 DEF PrefetchInv, Prefetch!TypeOK
    <3>4. Prefetch!TypeOK'
      BY <2>1, <3>1 DEF PrefetchInv, Prefetch!TypeOK
    <3>5. Linked'
      BY <2>1, FollowingStays DEF PrefetchInv, Linked
    <3>6. ASSUME NEW v \in Tasks
          PROVE  Sequel(v)' /\ Alone(v)' /\ Tracked(v)' /\ Purposeful(v)'
      <4>1. Sequel(v) /\ Alone(v) /\ Tracked(v) /\ Purposeful(v)
        BY DEF PrefetchInv
      <4>2. Sequel(v)'
        <5>1. /\ task'[v].at \in {"wait", "warm"} => task[v].at \in {"wait", "warm"}
              /\ task'[v].of = task[v].of /\ task'[v].next = task[v].next
          BY <2>1, <3>2, <3>3
        <5> QED BY <2>1, <4>1, <5>1, FollowingStays DEF Sequel
      <4>3. Purposeful(v)' /\ Tracked(v)'
        BY <2>1, <3>1, <3>2, <3>3, <4>1 DEF Purposeful, Tracked
      <4>4. Alone(v)'
        BY <2>1, <3>2, <3>3, <4>1 DEF Alone
      <4> QED BY <4>2, <4>3, <4>4
    <3> QED BY <3>4, <3>5, <3>6 DEF PrefetchInv
  <2>3. CASE current # task[t].of
    <3>1. /\ task' = [task EXCEPT ![t] = [at |-> "done", of |-> 0, next |-> 0]]
          /\ tracked' = IF tracked = t THEN 0 ELSE tracked
      BY <1>6, <2>3 DEF Prefetch!Wake, Prefetch!Over, Prefetch!Idle
    <3>2. \A u \in Tasks : task'[u].at = "wait" /\ ~overlapped' /\ ~ended' => FALSE
      BY <1>0, <2>1, <2>3, <3>1 DEF PrefetchInv, Tracked
    <3> QED BY <1>0, <2>1, <3>1, <3>2, TasksEndSafely
  <2> QED BY <2>2, <2>3
<1>7. ASSUME NEW t \in Tasks, Prefetch!Warm(t)
      PROVE  PrefetchInv'
  <2>1. /\ task[t].at = "warm" /\ task' = [task EXCEPT ![t] = [at |-> "done", of |-> 0, next |-> 0]]
        /\ tracked' = IF tracked = t THEN 0 ELSE tracked
        /\ links' \in {links, links \cup {task[t].next}}
        /\ UNCHANGED <<place, armed, current, ended, overlapped>>
    <3>1. Prefetch!Over = [at |-> "done", of |-> 0, next |-> 0]
      BY DEF Prefetch!Over, Prefetch!Idle
    <3> QED BY <1>7, <3>1 DEF Prefetch!Warm
  <2>2. task[t].next \in Recordings /\ task[t].of \in Recordings
        /\ task[t].next = Prefetch!Following(task[t].of)
    BY <2>1 DEF PrefetchInv, Sequel
  <2>3. place[task[t].next] = "cloud"
    BY <2>2, FollowingIn, NobodyIsNone
  <2>4. Linked'
    BY <2>1, <2>2, <2>3, FollowingStays DEF PrefetchInv, Linked
  <2>5. Prefetch!TypeOK'
    BY <2>1, <2>2 DEF PrefetchInv, Prefetch!TypeOK
  <2>6. ASSUME NEW u \in Tasks
        PROVE  Sequel(u)' /\ Alone(u)' /\ Tracked(u)' /\ Purposeful(u)'
    <3>1. Sequel(u) /\ Alone(u) /\ Tracked(u) /\ Purposeful(u)
      BY DEF PrefetchInv
    <3>2. u # t => task'[u] = task[u]
      BY <1>0, <2>1
    <3>3. u = t => task'[u].at = "done"
      BY <1>0, <2>1
    <3>4. \A v \in Tasks : task'[v].at \in {task[v].at, "done"}
      BY <1>0, <2>1
    <3>5. Sequel(u)'
      BY <2>1, <3>1, <3>2, <3>3, FollowingStays DEF Sequel
    <3>6. Purposeful(u)' /\ Alone(u)'
      BY <2>1, <3>1, <3>2, <3>3, <3>4 DEF Alone, Purposeful
    <3>7. Tracked(u)'
      BY <2>1, <3>1, <3>2, <3>3 DEF Tracked
    <3> QED BY <3>5, <3>6, <3>7
  <2> QED BY <2>4, <2>5, <2>6 DEF PrefetchInv
<1>8. CASE Prefetch!Stop
  <2>1. /\ ended' = TRUE /\ task' = Prefetch!CancelTracked /\ tracked' = 0 /\ current' = 0
        /\ UNCHANGED <<place, armed, links, overlapped>>
    BY <1>8 DEF Prefetch!Stop
  <2>2. \A u \in Tasks : task'[u] = task[u] \/ task'[u] = [task[u] EXCEPT !.at = "cancelled"]
    BY <1>t, <2>1
  <2>3. task' = [u \in Tasks |-> task'[u]]
    BY <1>t, <2>1
  <2> QED BY <1>0, <2>1, <2>2, <2>3, TasksEndSafely
<1>9. CASE UNCHANGED Prefetch!prefetchVars
  <2>1. UNCHANGED <<place, armed, task, tracked, current, links, ended, overlapped>>
    BY <1>9 DEF Prefetch!prefetchVars
  <2> QED BY <1>0, <2>1, TasksEndSafely
<1> QED BY <1>1, <1>2, <1>3, <1>4, <1>5, <1>6, <1>7, <1>8, <1>9
        DEF Prefetch!Next, Prefetch!TaskStep

-----------------------------------------------------------------------------
(* ConnectionEdits                                                         *)
LEMMA EditsNumbers == /\ MaxWrites \in Nat /\ 0 \notin Hosts /\ 0 \notin Targets /\ 1 \in Targets
                      /\ Hosts \subseteq Nat /\ Targets \subseteq Nat
BY ManagersAssumption

\* A row as every session leaves it.
Sane(r) ==
  /\ r \in Edits!Connection
  /\ \A a \in Edits!Adapters : r.config[a] = Edits!Absent \/ r.config[a].target \in Targets
  /\ r.config["manual_rtsp"].cache = 0
  /\ r.config[r.adapter] # Edits!Absent
  /\ r.shadow = <<r.adapter, r.host>>

\* What a session that loaded old may hold when it commits: new settings have a
\* new revision, the configs of other adapters are left alone unless it
\* switches, and what it says is verified it has probed, or found verified.
Follows(old, new, want, probed) ==
  /\ Sane(new)
  /\ new.revision \in {old.revision, old.revision + 1}
  /\ new.revision = old.revision => Edits!SettingsOf(new) = Edits!SettingsOf(old)
  /\ new.adapter = old.adapter =>
       \A a \in Edits!Adapters \ {old.adapter} : new.config[a] = old.config[a]
  /\ new.status = "verified" =>
       IF probed THEN \/ want = Edits!SettingsOf(new)
                      \/ new.adapter = "onvif" /\ want = [Edits!SettingsOf(new) EXCEPT !.target = 1]
                 ELSE new = old

LEMMA ConnectionFields ==
  ASSUME NEW r \in Edits!Connection
  PROVE  /\ r.adapter \in Edits!Adapters /\ r.host \in Hosts /\ r.revision \in 1..(MaxWrites + 1)
         /\ r.status \in {"unverified", "verified", "failed"}
         /\ r.config \in [Edits!Adapters -> Edits!Config]
         /\ r = [adapter |-> r.adapter, host |-> r.host, revision |-> r.revision,
                 status |-> r.status, config |-> r.config, shadow |-> r.shadow]
BY DEF Edits!Connection

LEMMA WrittenIs ==
  ASSUME NEW r \in Edits!Connection, NEW want \in Edits!Settings,
         NEW verdict \in {"unverified", "verified", "failed"}, NEW cache \in Hosts \cup {0},
         r.revision <= MaxWrites
  PROVE  LET n == Edits!Written(r, want, verdict, cache)
         IN /\ n \in Edits!Connection
            /\ n.adapter = r.adapter /\ n.host = want.host /\ n.status = verdict
            /\ n.revision = IF Edits!Changed(r, want) THEN r.revision + 1 ELSE r.revision
            /\ n.config[want.adapter] = [target |-> want.target, cache |-> cache]
            /\ \A a \in Edits!Adapters \ {want.adapter} : n.config[a] = r.config[a]
            /\ n.shadow = <<want.adapter, want.host>>
<1> DEFINE n == Edits!Written(r, want, verdict, cache)
           config == [r.config EXCEPT ![want.adapter] = [target |-> want.target, cache |-> cache]]
           renewed == IF Edits!Changed(r, want) THEN r.revision + 1 ELSE r.revision
<1>1. /\ want.adapter \in Edits!Adapters /\ want.host \in Hosts /\ want.target \in Targets
      /\ r.revision \in 1..(MaxWrites + 1) /\ r.config \in [Edits!Adapters -> Edits!Config]
      /\ r.adapter \in Edits!Adapters
  BY DEF Edits!Settings, Edits!Connection
<1>2. config \in [Edits!Adapters -> Edits!Config]
  BY <1>1 DEF Edits!Config
<1>3. renewed \in 1..(MaxWrites + 1)
  BY <1>1, EditsNumbers
<1>4. n = [r EXCEPT !.host = want.host, !.status = verdict, !.revision = renewed,
                    !.config = config, !.shadow = <<want.adapter, want.host>>]
  BY DEF Edits!Written
<1>5. /\ config[want.adapter] = [target |-> want.target, cache |-> cache]
      /\ \A a \in Edits!Adapters \ {want.adapter} : config[a] = r.config[a]
  BY <1>1
<1> HIDE DEF n, config, renewed
<1>6. /\ n.adapter = r.adapter /\ n.host = want.host /\ n.status = verdict
      /\ n.revision = renewed /\ n.config = config /\ n.shadow = <<want.adapter, want.host>>
  BY <1>4 DEF Edits!Connection
<1>7. n \in Edits!Connection
  BY <1>1, <1>2, <1>3, <1>4 DEF Edits!Connection
<1>8. n.config[want.adapter] = [target |-> want.target, cache |-> cache]
  BY <1>5, <1>6
<1>9. \A a \in Edits!Adapters \ {want.adapter} : n.config[a] = r.config[a]
  BY <1>5, <1>6
<1> QED BY <1>6, <1>7, <1>8, <1>9 DEF n, renewed

\* An upsert on a row of its own adapter.
LEMMA UpsertIs ==
  ASSUME NEW r \in Edits!Connection, NEW want \in Edits!Settings, NEW probed \in BOOLEAN
  PROVE  \E cache \in Hosts \cup {0} :
           /\ Edits!Upsert(r, want, probed) =
                Edits!Written(r, want, Edits!StatusOf(r, want, probed), cache)
           /\ want.adapter = "manual_rtsp" => cache = 0
           /\ want.adapter # "manual_rtsp" /\ ~probed /\ ~Edits!Changed(r, want) =>
                cache = r.config[want.adapter].cache
<1>1. /\ want.adapter \in {"manual_rtsp", "onvif", "hik_sdk"} /\ want.host \in Hosts
      /\ r.config[want.adapter] \in Edits!Config
  BY DEF Edits!Settings, Edits!Adapters, Edits!Connection
<1>2. r.config[want.adapter].cache \in Hosts \cup {0}
  BY <1>1 DEF Edits!Config
<1>3. CASE want.adapter = "manual_rtsp"
  BY <1>3 DEF Edits!Upsert, Edits!UpsertManual
<1>4. CASE want.adapter = "onvif"
  <2>1. Edits!Upsert(r, want, probed) = Edits!UpsertOnvif(r, want, probed)
    BY <1>4 DEF Edits!Upsert
  <2> QED BY <1>1, <1>2, <1>4, <2>1, Zenon DEF Edits!UpsertOnvif, Edits!CacheOf
<1>5. CASE want.adapter = "hik_sdk"
  <2>1. Edits!Upsert(r, want, probed) = Edits!UpsertHik(r, want, probed)
    BY <1>5 DEF Edits!Upsert
  <2> QED BY <1>1, <1>2, <1>5, <2>1, Zenon DEF Edits!UpsertHik, Edits!CacheOf
<1> QED BY <1>1, <1>3, <1>4, <1>5

LEMMA SettingsIn ==
  ASSUME NEW r, Sane(r)
  PROVE  Edits!SettingsOf(r) \in Edits!Settings /\ Edits!SettingsOf(r).adapter = r.adapter
<1>1. /\ r.adapter \in Edits!Adapters /\ r.host \in Hosts
      /\ r.config \in [Edits!Adapters -> Edits!Config]
      /\ r.config[r.adapter].target \in Targets
  BY DEF Sane, Edits!Connection
<1> QED BY <1>1 DEF Edits!SettingsOf, Edits!Settings

LEMMA StatusIn ==
  ASSUME NEW r \in Edits!Connection, NEW want, NEW probed \in BOOLEAN
  PROVE  Edits!StatusOf(r, want, probed) \in {"unverified", "verified", "failed"}
BY DEF Edits!StatusOf, Edits!Connection

\* An upsert leaves a row that has the settings it was given.
LEMMA UpsertSane ==
  ASSUME NEW r \in Edits!Connection, NEW want \in Edits!Settings, NEW probed \in BOOLEAN,
         r.revision <= MaxWrites, want.adapter = r.adapter,
         \A a \in Edits!Adapters : r.config[a] = Edits!Absent \/ r.config[a].target \in Targets,
         r.config["manual_rtsp"].cache = 0
  PROVE  LET n == Edits!Upsert(r, want, probed)
         IN /\ Sane(n) /\ Edits!SettingsOf(n) = want /\ n.adapter = r.adapter
            /\ n.status = Edits!StatusOf(r, want, probed)
            /\ n.revision = IF Edits!Changed(r, want) THEN r.revision + 1 ELSE r.revision
            /\ \A a \in Edits!Adapters \ {r.adapter} : n.config[a] = r.config[a]
<1> DEFINE n == Edits!Upsert(r, want, probed)
           verdict == Edits!StatusOf(r, want, probed)
<1>0. want.adapter \in Edits!Adapters /\ want.target \in Targets
      /\ want = [adapter |-> want.adapter, host |-> want.host, target |-> want.target]
  BY DEF Edits!Settings
<1>1. PICK cache \in Hosts \cup {0} :
        n = Edits!Written(r, want, verdict, cache) /\ (want.adapter = "manual_rtsp" => cache = 0)
  BY UpsertIs
<1>2. /\ n \in Edits!Connection
      /\ n.adapter = r.adapter /\ n.host = want.host /\ n.status = verdict
      /\ n.revision = IF Edits!Changed(r, want) THEN r.revision + 1 ELSE r.revision
      /\ n.config[want.adapter] = [target |-> want.target, cache |-> cache]
      /\ \A a \in Edits!Adapters \ {want.adapter} : n.config[a] = r.config[a]
      /\ n.shadow = <<want.adapter, want.host>>
  BY <1>1, WrittenIs, StatusIn
<1> HIDE DEF n, verdict
<1>3. n.config[n.adapter] # Edits!Absent
  BY <1>0, <1>2, EditsNumbers DEF Edits!Absent
<1>4. n.config["manual_rtsp"].cache = 0
  BY <1>0, <1>1, <1>2 DEF Edits!Adapters
<1>5. \A a \in Edits!Adapters : n.config[a] = Edits!Absent \/ n.config[a].target \in Targets
  BY <1>0, <1>2
<1>6. Sane(n)
  BY <1>2, <1>3, <1>4, <1>5 DEF Sane
<1>7. Edits!SettingsOf(n) = want
  BY <1>0, <1>2 DEF Edits!SettingsOf
<1> QED BY <1>2, <1>6, <1>7 DEF n, verdict

LEMMA Unchanged ==
  ASSUME NEW r, Sane(r), NEW want \in Edits!Settings, want.adapter = r.adapter,
         ~Edits!Changed(r, want)
  PROVE  want = Edits!SettingsOf(r)
BY DEF Edits!Settings, Edits!SettingsOf, Edits!Changed, Sane, Edits!Connection

\* Nothing is probed and nothing changes.
LEMMA UpsertKeeps ==
  ASSUME NEW r, Sane(r), NEW want \in Edits!Settings, want.adapter = r.adapter,
         r.revision <= MaxWrites, ~Edits!Changed(r, want)
  PROVE  Edits!Upsert(r, want, FALSE) = r
<1> DEFINE n == Edits!Upsert(r, want, FALSE)
           verdict == Edits!StatusOf(r, want, FALSE)
<1>0. r \in Edits!Connection /\ r.config \in [Edits!Adapters -> Edits!Config]
      /\ r.adapter \in Edits!Adapters
  BY DEF Sane, Edits!Connection
<1>1. PICK cache \in Hosts \cup {0} :
        /\ n = Edits!Written(r, want, verdict, cache)
        /\ want.adapter = "manual_rtsp" => cache = 0
        /\ want.adapter # "manual_rtsp" => cache = r.config[want.adapter].cache
  BY <1>0, UpsertIs
<1>2. /\ n \in Edits!Connection
      /\ n.adapter = r.adapter /\ n.host = want.host /\ n.status = verdict
      /\ n.revision = IF Edits!Changed(r, want) THEN r.revision + 1 ELSE r.revision
      /\ n.config[want.adapter] = [target |-> want.target, cache |-> cache]
      /\ \A a \in Edits!Adapters \ {want.adapter} : n.config[a] = r.config[a]
      /\ n.shadow = <<want.adapter, want.host>>
  <2>1. verdict \in {"unverified", "verified", "failed"}
    BY <1>0, StatusIn
  <2>2. r \in Edits!Connection /\ n = Edits!Written(r, want, verdict, cache)
    BY <1>0, <1>1
  <2> HIDE DEF verdict, n
  <2> QED BY <2>1, <2>2, WrittenIs
<1>3. verdict = r.status
  BY DEF Edits!StatusOf
<1> HIDE DEF n, verdict
<1>4. cache = r.config[r.adapter].cache
  BY <1>1 DEF Sane
<1>5. want.host = r.host /\ want.target = r.config[r.adapter].target
  BY DEF Edits!Changed
<1>6. n.config[r.adapter] = r.config[r.adapter]
  BY <1>0, <1>2, <1>4, <1>5 DEF Edits!Config
<1>7. n.config \in [Edits!Adapters -> Edits!Config]
  BY <1>2 DEF Edits!Connection
<1>8. n.config = r.config
  BY <1>0, <1>2, <1>6, <1>7
<1>9. n.shadow = r.shadow
  BY <1>2, <1>5 DEF Sane
<1>10. n = r
  BY <1>0, <1>2, <1>3, <1>5, <1>8, <1>9, ConnectionFields
<1> QED BY <1>10 DEF n

LEMMA UpsertFollows ==
  ASSUME NEW r, Sane(r), NEW want \in Edits!Settings, NEW probed \in BOOLEAN,
         r.revision <= MaxWrites, want.adapter = r.adapter, NEW asked,
         \/ asked = want
         \/ r.adapter = "onvif" /\ asked = [want EXCEPT !.target = 1]
  PROVE  Follows(r, Edits!Upsert(r, want, probed), asked, probed)
<1> DEFINE n == Edits!Upsert(r, want, probed)
<1>1. /\ Sane(n) /\ Edits!SettingsOf(n) = want /\ n.adapter = r.adapter
      /\ n.status = Edits!StatusOf(r, want, probed)
      /\ n.revision = IF Edits!Changed(r, want) THEN r.revision + 1 ELSE r.revision
      /\ \A a \in Edits!Adapters \ {r.adapter} : n.config[a] = r.config[a]
  BY UpsertSane DEF Sane
<1>2. n.status = "verified" /\ ~probed => n = r
  <2>1. n.status = "verified" /\ ~probed => ~Edits!Changed(r, want)
    BY <1>1 DEF Edits!StatusOf
  <2> QED BY <2>1, UpsertKeeps
<1>3. r.revision \in Nat
  BY DEF Sane, Edits!Connection
<1> HIDE DEF n
<1>4. n.revision = r.revision => Edits!SettingsOf(n) = Edits!SettingsOf(r)
  BY <1>1, <1>3, Unchanged
<1> QED BY <1>1, <1>2, <1>3, <1>4 DEF Follows, n

LEMMA SwitchedFollows ==
  ASSUME NEW r, Sane(r), NEW want \in Edits!Settings, NEW probed \in BOOLEAN,
         r.revision <= MaxWrites, want.adapter # r.adapter
  PROVE  Follows(r, Edits!Switched(r, want, probed), want, probed)
<1> DEFINE p == Edits!Prepared(r, want.adapter)
           n == Edits!Switched(r, want, probed)
<1>0. want.adapter \in Edits!Adapters /\ "manual_rtsp" \in Edits!Adapters
  BY DEF Edits!Settings, Edits!Adapters
<1>1. /\ p \in Edits!Connection /\ p.adapter = want.adapter /\ p.revision = r.revision
      /\ p.config = [a \in Edits!Adapters |-> Edits!Absent]
  BY <1>0 DEF Edits!Prepared, Sane, Edits!Connection, Edits!Config, Edits!Absent
<1>2. /\ \A a \in Edits!Adapters : p.config[a] = Edits!Absent
      /\ p.config["manual_rtsp"].cache = 0
  BY <1>0, <1>1 DEF Edits!Absent
<1>3. Edits!Changed(p, want)
  BY <1>0, <1>2 DEF Edits!Changed
<1>4. n = Edits!Upsert(p, want, probed)
  BY DEF Edits!Switched
<1> HIDE DEF p, n
<1>5. /\ Sane(n) /\ Edits!SettingsOf(n) = want /\ n.adapter = p.adapter
      /\ n.status = Edits!StatusOf(p, want, probed)
      /\ n.revision = r.revision + 1
  BY <1>1, <1>2, <1>3, <1>4, UpsertSane
<1>6. n.status = "verified" => probed
  BY <1>3, <1>5 DEF Edits!StatusOf
<1>7. r.revision \in Nat
  BY DEF Sane, Edits!Connection
<1> QED BY <1>1, <1>5, <1>6, <1>7 DEF Follows, n

LEMMA EditedFollows ==
  ASSUME NEW r, Sane(r), NEW want \in Edits!Settings, NEW probed \in BOOLEAN,
         r.revision <= MaxWrites
  PROVE  Follows(r, Edits!Edited(r, want, probed), want, probed)
BY UpsertFollows, SwitchedFollows DEF Edits!Edited

LEMMA VerifiedFollows ==
  ASSUME NEW r, Sane(r), r.revision <= MaxWrites
  PROVE  Follows(r, Edits!Verified(r), Edits!Draft(r), TRUE)
<1>1. \/ Edits!Draft(r) = Edits!SettingsOf(r)
      \/ r.adapter = "onvif" /\ Edits!Draft(r) = [Edits!SettingsOf(r) EXCEPT !.target = 1]
  BY DEF Edits!Draft
<1> QED BY <1>1, SettingsIn, UpsertFollows DEF Edits!Verified

LEMMA RefusedFollows ==
  ASSUME NEW r, Sane(r), NEW want
  PROVE  Follows(r, Edits!Refused(r), want, TRUE)
<1>1. LET n == Edits!Refused(r)
      IN /\ n \in Edits!Connection /\ n.adapter = r.adapter /\ n.host = r.host
         /\ n.revision = r.revision /\ n.config = r.config /\ n.shadow = r.shadow
         /\ n.status = "failed"
  BY DEF Edits!Refused, Sane, Edits!Connection
<1> QED BY <1>1 DEF Follows, Sane, Edits!SettingsOf

\* One config row after a commit without conflicts.
LEMMA MergedConfigIn ==
  ASSUME NEW a \in Edits!Adapters, NEW c \in Edits!Config, NEW old \in Edits!Config,
         NEW new \in Edits!Config, NEW switched \in BOOLEAN,
         \A x \in {c, old, new} : x = Edits!Absent \/ x.target \in Targets,
         a = "manual_rtsp" => c.cache = 0 /\ new.cache = 0,
         ~(old # Edits!Absent /\ new # Edits!Absent /\ c = Edits!Absent
             /\ (new # old \/ switched)),
         ~(old = Edits!Absent /\ new # Edits!Absent /\ c # Edits!Absent)
  PROVE  LET m == Edits!MergedConfig(c, old, new, switched)
         IN /\ m \in Edits!Config
            /\ m = Edits!Absent \/ m.target \in Targets
            /\ a = "manual_rtsp" => m.cache = 0
            /\ c # Edits!Absent /\ (new # Edits!Absent \/ old = Edits!Absent) => m # Edits!Absent
            /\ switched /\ new # Edits!Absent => m # Edits!Absent
            /\ c = old => m = new
<1> DEFINE m == Edits!MergedConfig(c, old, new, switched)
           picked == [target |-> Edits!Pick(c.target, old.target, new.target),
                      cache |-> Edits!Pick(c.cache, old.cache, new.cache)]
<1>0. /\ Edits!Absent \in Edits!Config /\ Edits!Absent.cache = 0 /\ Edits!Absent.target \notin Targets
      /\ \A x \in {c, old, new} : /\ x.target \in Targets \cup {0} /\ x.cache \in Hosts \cup {0}
                                  /\ x = [target |-> x.target, cache |-> x.cache]
  BY EditsNumbers DEF Edits!Config, Edits!Absent
<1>1. CASE new = Edits!Absent /\ old = Edits!Absent
  <2>1. m = c
    BY <1>1 DEF Edits!MergedConfig
  <2> HIDE DEF m
  <2>2. QED BY <1>1, <2>1 DEF m
<1>2. CASE new = Edits!Absent /\ old # Edits!Absent
  <2>1. m = new
    BY <1>2 DEF Edits!MergedConfig
  <2> HIDE DEF m
  <2>2. QED BY <1>0, <1>2, <2>1 DEF m
<1>3. CASE new # Edits!Absent /\ (old = Edits!Absent \/ switched)
  <2>1. m = new
    BY <1>3 DEF Edits!MergedConfig
  <2> HIDE DEF m
  <2>2. QED BY <1>0, <1>3, <2>1 DEF m
<1>4. CASE new # Edits!Absent /\ old # Edits!Absent /\ ~switched
  <2>1. m = picked
    BY <1>4 DEF Edits!MergedConfig
  <2>2. /\ picked.target \in {c.target, new.target} /\ picked.cache \in {c.cache, new.cache}
        /\ c = old => picked.target = new.target /\ picked.cache = new.cache
        /\ c = Edits!Absent => picked.target = c.target /\ picked.cache = c.cache
        /\ picked = [target |-> picked.target, cache |-> picked.cache]
    BY <1>4 DEF Edits!Pick
  <2> HIDE DEF picked, m
  <2>3. CASE c = Edits!Absent
    <3>1. m = c
      BY <1>0, <2>1, <2>2, <2>3
    <3> QED BY <1>4, <2>3, <3>1 DEF m
  <2>4. CASE c # Edits!Absent
    <3>1. picked.target \in Targets /\ picked.cache \in Hosts \cup {0}
      BY <1>0, <1>4, <2>2, <2>4
    <3>2. picked \in Edits!Config /\ picked # Edits!Absent
      BY <1>0, <2>2, <3>1 DEF Edits!Config
    <3>3. a = "manual_rtsp" => picked.cache = 0
      BY <2>2
    <3>4. c = old => picked = new
      BY <1>0, <2>2
    <3> QED BY <1>4, <2>1, <2>4, <3>1, <3>2, <3>3, <3>4 DEF m
  <2> QED BY <2>3, <2>4
<1> QED BY <1>1, <1>2, <1>3, <1>4

LEMMA MergedSane ==
  ASSUME Sane(row), NEW old, Sane(old), NEW new, NEW want, NEW probed,
         Follows(old, new, want, probed), ~Edits!Conflict(old, new)
  PROVE  LET m == Edits!Merged(old, new)
         IN /\ Sane(m)
            /\ m.revision = IF new.revision = old.revision THEN row.revision ELSE new.revision
            /\ row = old => m = new
<1> DEFINE m == Edits!Merged(old, new)
           config == [a \in Edits!Adapters |->
                        Edits!MergedConfig(row.config[a], old.config[a], new.config[a],
                                           old.adapter # new.adapter)]
           adapter == Edits!Pick(row.adapter, old.adapter, new.adapter)
           host == Edits!Pick(row.host, old.host, new.host)
           renewed == Edits!Pick(row.revision, old.revision, new.revision)
           verdict == Edits!Pick(row.status, old.status, new.status)
           shadow == <<Edits!Pick(row.shadow[1], old.shadow[1], new.shadow[1]),
                       Edits!Pick(row.shadow[2], old.shadow[2], new.shadow[2])>>
<1>1. m = [adapter |-> adapter, host |-> host, revision |-> renewed, status |-> verdict,
           config |-> config, shadow |-> shadow]
  BY DEF Edits!Merged
<1>2. /\ row \in Edits!Connection /\ old \in Edits!Connection /\ new \in Edits!Connection
      /\ Sane(new)
  BY DEF Sane, Follows
<1>3. /\ adapter \in Edits!Adapters /\ host \in Hosts /\ renewed \in 1..(MaxWrites + 1)
      /\ verdict \in {"unverified", "verified", "failed"}
  BY <1>2, ConnectionFields DEF Edits!Pick
<1>4. shadow = <<adapter, host>>
  BY <1>2 DEF Edits!Pick, Sane
<1>5. renewed = IF new.revision = old.revision THEN row.revision ELSE new.revision
  BY DEF Edits!Pick
<1>6. ASSUME NEW a \in Edits!Adapters
      PROVE  /\ config[a] \in Edits!Config
             /\ config[a] = Edits!Absent \/ config[a].target \in Targets
             /\ a = "manual_rtsp" => config[a].cache = 0
             /\ row.config[a] # Edits!Absent
                  /\ (new.config[a] # Edits!Absent \/ old.config[a] = Edits!Absent) =>
                    config[a] # Edits!Absent
             /\ old.adapter # new.adapter /\ new.config[a] # Edits!Absent => config[a] # Edits!Absent
             /\ row.config[a] = old.config[a] => config[a] = new.config[a]
  <2>1. /\ row.config[a] \in Edits!Config /\ old.config[a] \in Edits!Config
        /\ new.config[a] \in Edits!Config
    BY <1>2, ConnectionFields
  <2>2. /\ row.config[a] = Edits!Absent \/ row.config[a].target \in Targets
        /\ old.config[a] = Edits!Absent \/ old.config[a].target \in Targets
        /\ new.config[a] = Edits!Absent \/ new.config[a].target \in Targets
        /\ a = "manual_rtsp" => row.config[a].cache = 0 /\ new.config[a].cache = 0
    BY <1>2 DEF Sane
  <2>3. /\ ~(/\ old.config[a] # Edits!Absent /\ new.config[a] # Edits!Absent
             /\ row.config[a] = Edits!Absent
             /\ (new.config[a] # old.config[a] \/ new.adapter # old.adapter))
        /\ ~(/\ old.config[a] = Edits!Absent /\ new.config[a] # Edits!Absent
             /\ row.config[a] # Edits!Absent)
    BY DEF Edits!Conflict
  <2>4. config[a] = Edits!MergedConfig(row.config[a], old.config[a], new.config[a],
                                       old.adapter # new.adapter)
    OBVIOUS
  <2> DEFINE c == row.config[a] o == old.config[a] w == new.config[a]
             switched == old.adapter # new.adapter
  <2>5. switched \in BOOLEAN /\ (switched <=> new.adapter # old.adapter)
    OBVIOUS
  <2> HIDE DEF config, c, o, w, switched
  <2>6. LET x == Edits!MergedConfig(c, o, w, switched)
        IN /\ x \in Edits!Config
           /\ x = Edits!Absent \/ x.target \in Targets
           /\ a = "manual_rtsp" => x.cache = 0
           /\ c # Edits!Absent /\ (w # Edits!Absent \/ o = Edits!Absent) => x # Edits!Absent
           /\ switched /\ w # Edits!Absent => x # Edits!Absent
           /\ c = o => x = w
    <3>1. /\ c \in Edits!Config /\ o \in Edits!Config /\ w \in Edits!Config
          /\ \A x \in {c, o, w} : x = Edits!Absent \/ x.target \in Targets
          /\ a = "manual_rtsp" => c.cache = 0 /\ w.cache = 0
      BY <2>1, <2>2 DEF c, o, w
    <3>2. /\ ~(o # Edits!Absent /\ w # Edits!Absent /\ c = Edits!Absent /\ (w # o \/ switched))
          /\ ~(o = Edits!Absent /\ w # Edits!Absent /\ c # Edits!Absent)
      BY <2>3, <2>5 DEF c, o, w
    <3> QED BY <2>5, <3>1, <3>2, MergedConfigIn
  <2>7. config[a] = Edits!MergedConfig(c, o, w, switched)
    BY <2>4 DEF c, o, w, switched
  <2> QED BY <2>6, <2>7, Zenon DEF c, o, w, switched
<1>7. config[adapter] # Edits!Absent
  <2>1. CASE old.adapter # new.adapter
    <3>1. adapter = new.adapter /\ new.config[new.adapter] # Edits!Absent
      BY <1>2, <2>1 DEF Edits!Pick, Sane
    <3> HIDE DEF config, adapter
    <3> QED BY <1>3, <1>6, <2>1, <3>1
  <2>2. CASE old.adapter = new.adapter
    <3>1. adapter = row.adapter /\ row.config[row.adapter] # Edits!Absent
      BY <2>2 DEF Edits!Pick, Sane
    <3>2. new.config[adapter] # Edits!Absent \/ old.config[adapter] = Edits!Absent
      <4>1. CASE adapter = old.adapter
        BY <1>2, <2>2, <4>1 DEF Sane
      <4>2. CASE adapter # old.adapter
        BY <1>3, <2>2, <4>2 DEF Follows
      <4> QED BY <4>1, <4>2
    <3> HIDE DEF config, adapter
    <3> QED BY <1>3, <1>6, <3>1, <3>2
  <2> QED BY <2>1, <2>2
<1>8. config \in [Edits!Adapters -> Edits!Config]
  <2>1. config = [a \in Edits!Adapters |-> config[a]]
    OBVIOUS
  <2> HIDE DEF config
  <2> QED BY <1>6, <2>1
<1>9. row = old => adapter = new.adapter /\ host = new.host /\ renewed = new.revision
                   /\ verdict = new.status
  BY DEF Edits!Pick
<1>10. row = old => config = new.config
  <2>1. new.config \in [Edits!Adapters -> Edits!Config]
    BY <1>2, ConnectionFields
  <2> HIDE DEF config
  <2> QED BY <1>6, <1>8, <2>1
<1> HIDE DEF m, config, adapter, host, renewed, verdict, shadow
<1>11. "manual_rtsp" \in Edits!Adapters
  BY DEF Edits!Adapters
<1>12. Sane(m)
  <2>1. /\ m.adapter = adapter /\ m.host = host /\ m.revision = renewed /\ m.status = verdict
        /\ m.config = config /\ m.shadow = shadow
    BY <1>1
  <2>2. m \in Edits!Connection
    BY <1>1, <1>3, <1>4, <1>8 DEF Edits!Connection
  <2> QED BY <1>4, <1>6, <1>7, <1>11, <2>1, <2>2 DEF Sane
<1>13. row = old => m = new
  <2>1. new.shadow = <<new.adapter, new.host>>
    BY <1>2 DEF Sane
  <2> QED BY <1>1, <1>2, <1>4, <1>9, <1>10, <2>1, ConnectionFields
<1>14. m.revision = renewed
  BY <1>1
<1> QED BY <1>5, <1>12, <1>13, <1>14 DEF m

\* What a request under way has loaded and asks for.
Loaded(q) ==
  /\ q \in [kind : {"edit", "probe"}, old : Edits!Connection, want : Edits!Settings,
            probed : BOOLEAN]
  /\ Sane(q.old) /\ q.old.revision <= writes
  /\ q.kind = "probe" => q.want = Edits!Draft(q.old) /\ q.probed

Requests ==
  /\ DOMAIN request = Clients
  /\ \A c \in Clients : request[c] = Edits!None \/ Loaded(request[c])

\* A revision beyond the row's own, which a worker still has, is one of those
\* that overlapping requests made ambiguous.
Behind == \A x \in Nat : row.revision < x /\ x <= worker.revision => x \in mixed

EditsInv ==
  /\ Sane(row) /\ row.revision <= writes + 1 /\ Requests
  /\ writes \in 0..MaxWrites
  /\ worker \in [revision : 1..(MaxWrites + 1), settings : Edits!Settings]
  /\ evidence \in Edits!Settings /\ tainted \in BOOLEAN /\ mixed \subseteq 1..(MaxWrites + 1)
  /\ Behind /\ Edits!GenerationIdentifies /\ Edits!VerifiedHonest

LEMMA CreatedSane ==
  ASSUME NEW want \in Edits!Settings, NEW probed \in BOOLEAN
  PROVE  LET r == Edits!Created(want, probed)
         IN Sane(r) /\ r.revision = 1 /\ Edits!SettingsOf(r) = want
<1> DEFINE r == Edits!Created(want, probed)
           config == [a \in Edits!Adapters |->
                        IF a # want.adapter THEN Edits!Absent
                        ELSE [target |-> want.target,
                              cache |-> IF probed THEN Edits!CacheOf(a, want.host) ELSE 0]]
           verdict == IF probed THEN "verified" ELSE "unverified"
<1>0. /\ want.adapter \in Edits!Adapters /\ want.host \in Hosts /\ want.target \in Targets
      /\ want = [adapter |-> want.adapter, host |-> want.host, target |-> want.target]
  BY DEF Edits!Settings
<1>1. r = [adapter |-> want.adapter, host |-> want.host, revision |-> 1, status |-> verdict,
           config |-> config, shadow |-> <<want.adapter, want.host>>]
  BY DEF Edits!Created
<1>2. config \in [Edits!Adapters -> Edits!Config]
  BY <1>0 DEF Edits!Config, Edits!Absent, Edits!CacheOf
<1>3. \A a \in Edits!Adapters : config[a] = Edits!Absent \/ config[a].target \in Targets
  BY <1>0
<1>4. config["manual_rtsp"].cache = 0
  BY DEF Edits!Adapters, Edits!CacheOf, Edits!Absent
<1>5. config[want.adapter].target = want.target /\ config[want.adapter] # Edits!Absent
  BY <1>0, EditsNumbers DEF Edits!Absent
<1>6. verdict \in {"unverified", "verified", "failed"} /\ 1 \in 1..(MaxWrites + 1)
  BY EditsNumbers
<1> HIDE DEF r, config, verdict
<1>7. r \in Edits!Connection
  BY <1>0, <1>1, <1>2, <1>6 DEF Edits!Connection
<1>8. Sane(r)
  BY <1>1, <1>3, <1>4, <1>5, <1>7 DEF Sane
<1>9. Edits!SettingsOf(r) = want
  BY <1>0, <1>1, <1>5 DEF Edits!SettingsOf
<1> QED BY <1>1, <1>8, <1>9 DEF r

LEMMA EditsInit ==
  ASSUME Edits!Init
  PROVE  EditsInv
<1>1. row \in Edits!Creatable /\ evidence = Edits!SettingsOf(row)
      /\ worker = [revision |-> 1, settings |-> Edits!SettingsOf(row)]
      /\ request = [c \in Clients |-> Edits!None] /\ tainted = FALSE /\ mixed = {} /\ writes = 0
  BY DEF Edits!Init
<1>2. Sane(row) /\ row.revision = 1 /\ Edits!SettingsOf(row) \in Edits!Settings
  <2>1. PICK want \in Edits!Settings, probed \in BOOLEAN : row = Edits!Created(want, probed)
    BY <1>1 DEF Edits!Creatable
  <2> QED BY <2>1, CreatedSane
<1>3. Requests /\ Behind /\ Edits!GenerationIdentifies /\ Edits!VerifiedHonest
  BY <1>1, <1>2 DEF Requests, Behind, Edits!GenerationIdentifies, Edits!VerifiedHonest
<1>4. /\ row.revision <= writes + 1 /\ writes \in 0..MaxWrites
      /\ worker \in [revision : 1..(MaxWrites + 1), settings : Edits!Settings]
      /\ evidence \in Edits!Settings /\ tainted \in BOOLEAN /\ mixed \subseteq 1..(MaxWrites + 1)
  <2>1. row.revision <= writes + 1 /\ writes \in 0..MaxWrites
    BY <1>1, <1>2, EditsNumbers
  <2>2. worker \in [revision : 1..(MaxWrites + 1), settings : Edits!Settings]
    BY <1>1, <1>2, EditsNumbers
  <2>3. evidence \in Edits!Settings /\ tainted \in BOOLEAN /\ mixed \subseteq 1..(MaxWrites + 1)
    BY <1>1, <1>2
  <2> QED BY <2>1, <2>2, <2>3
<1> QED BY <1>2, <1>3, <1>4 DEF EditsInv

\* The commit of what a session may hold.
LEMMA CommitKeeps ==
  ASSUME EditsInv, NEW c \in Clients, request[c] # Edits!None, NEW new,
         Follows(request[c].old, new, request[c].want, request[c].probed),
         Edits!Commit(c, new, request[c].want)
  PROVE  EditsInv'
<1> DEFINE old == request[c].old
           want == request[c].want
           probed == request[c].probed
<1>1. /\ request' = [request EXCEPT ![c] = Edits!None] /\ UNCHANGED <<worker, writes>>
      /\ IF Edits!Conflict(old, new) THEN UNCHANGED <<row, evidence, tainted, mixed>>
         ELSE /\ row' = Edits!Merged(old, new)
              /\ evidence' = IF probed THEN want ELSE evidence
              /\ tainted' = (row # old \/ (tainted /\ new = old))
              /\ mixed' = IF row # old THEN mixed \cup Edits!Reused(row'.revision) ELSE mixed
  BY DEF Edits!Commit, Edits!Done
<1>2. Sane(row) /\ Sane(old) /\ Sane(new) /\ want \in Edits!Settings /\ probed \in BOOLEAN
      /\ old.revision <= writes
  BY DEF EditsInv, Requests, Loaded, Follows
<1>3. /\ old.revision \in Nat /\ row.revision \in Nat /\ row.revision \in 1..(MaxWrites + 1)
      /\ writes \in Nat /\ worker.revision \in Nat
      /\ new.revision \in {old.revision, old.revision + 1}
  BY <1>2, EditsNumbers DEF EditsInv, Sane, Edits!Connection, Follows
<1>4. Requests'
  BY <1>1 DEF EditsInv, Requests, Loaded
<1>5. CASE Edits!Conflict(old, new)
  <2>1. UNCHANGED <<row, evidence, tainted, mixed, worker, writes>>
    BY <1>1, <1>5
  <2>2. Behind' /\ Edits!GenerationIdentifies' /\ Edits!VerifiedHonest'
    BY <2>1 DEF EditsInv, Behind, Edits!GenerationIdentifies, Edits!VerifiedHonest,
                Edits!SettingsOf
  <2>3. Sane(row')
    BY <1>2, <2>1
  <2> QED BY <1>4, <2>1, <2>2, <2>3 DEF EditsInv
<1>6. CASE ~Edits!Conflict(old, new)
  <2>1. /\ Sane(row') /\ (row = old => row' = new)
        /\ row'.revision = IF new.revision = old.revision THEN row.revision ELSE new.revision
    BY <1>1, <1>2, <1>6, MergedSane
  <2>2. /\ evidence' = (IF probed THEN want ELSE evidence)
        /\ (tainted' <=> (row # old \/ (tainted /\ new = old))) /\ tainted' \in BOOLEAN
        /\ mixed' = (IF row # old THEN mixed \cup Edits!Reused(row'.revision) ELSE mixed)
    BY <1>1, <1>6
  <2>3. new.revision = old.revision => Edits!SettingsOf(new) = Edits!SettingsOf(old)
    BY DEF Follows
  <2>4. new.status = "verified" =>
          IF probed THEN \/ want = Edits!SettingsOf(new)
                         \/ new.adapter = "onvif" /\ want = [Edits!SettingsOf(new) EXCEPT !.target = 1]
                    ELSE new = old
    BY DEF Follows
  <2>5. row'.revision \in 1..(MaxWrites + 1)
    BY <2>1 DEF Sane, Edits!Connection
  <2> HIDE DEF old, want, probed
  <2>6. row'.revision <= writes' + 1
    <3>1. row.revision <= writes + 1 /\ writes' = writes
      BY <1>1 DEF EditsInv
    <3> QED BY <1>2, <1>3, <2>1, <3>1
  <2>7. mixed' \subseteq 1..(MaxWrites + 1) /\ mixed \subseteq mixed'
    <3>1. mixed \subseteq 1..(MaxWrites + 1)
      BY DEF EditsInv
    <3>2. \A x \in row'.revision..row.revision : x \in 1..(MaxWrites + 1)
      BY <1>3, <2>5, EditsNumbers
    <3>3. Edits!Reused(row'.revision) \subseteq 1..(MaxWrites + 1)
      BY <2>5, <3>2 DEF Edits!Reused
    <3> QED BY <2>2, <3>1, <3>3
  <2>8. Behind'
    <3> SUFFICES ASSUME NEW x \in Nat, row'.revision < x, x <= worker.revision
                 PROVE  x \in mixed'
      BY <1>1 DEF Behind
    <3>1. CASE row.revision < x
      BY <2>7, <3>1 DEF EditsInv, Behind
    <3>2. CASE x <= row.revision
      <4>1. row # old
        BY <1>3, <2>1, <2>5, <3>2
      <4>2. x \in row'.revision..row.revision
        BY <1>3, <2>5, <3>2
      <4> QED BY <2>2, <4>1, <4>2 DEF Edits!Reused
    <3> QED BY <1>3, <3>1, <3>2
  <2>9. Edits!GenerationIdentifies'
    <3> SUFFICES ASSUME worker.revision = row'.revision, row'.revision \notin mixed'
                 PROVE  worker.settings = Edits!SettingsOf(row')
      BY <1>1 DEF Edits!GenerationIdentifies, Edits!SettingsOf
    <3>1. row = old /\ row' = new
      BY <2>1, <2>2 DEF Edits!Reused
    <3>2. new.revision = old.revision
      <4>1. CASE new.revision = old.revision + 1
        BY <1>3, <2>1, <2>7, <3>1, <4>1 DEF EditsInv, Behind
      <4> QED BY <1>3, <4>1
    <3> QED BY <2>3, <2>7, <3>1, <3>2 DEF EditsInv, Edits!GenerationIdentifies
  <2>10. Edits!VerifiedHonest'
    <3> SUFFICES ASSUME row'.status = "verified", ~tainted'
                 PROVE  \/ evidence' = Edits!SettingsOf(row')
                        \/ /\ row'.adapter = "onvif"
                           /\ evidence' = [Edits!SettingsOf(row') EXCEPT !.target = 1]
      BY DEF Edits!VerifiedHonest, Edits!SettingsOf
    <3>1. row = old /\ row' = new /\ ~(tainted /\ new = old)
      BY <2>1, <2>2
    <3>2. CASE probed
      BY <2>2, <2>4, <3>1, <3>2
    <3>3. CASE ~probed
      <4>1. new = old /\ evidence' = evidence /\ row' = row /\ ~tainted
        BY <2>2, <2>4, <3>1, <3>3
      <4> QED BY <4>1 DEF EditsInv, Edits!VerifiedHonest
    <3> QED BY <3>2, <3>3
  <2>11. evidence' \in Edits!Settings
    BY <1>2, <2>2 DEF EditsInv
  <2> QED BY <1>1, <1>4, <2>1, <2>2, <2>6, <2>7, <2>8, <2>9, <2>10, <2>11 DEF EditsInv
<1> QED BY <1>5, <1>6

LEMMA LoadKeeps ==
  ASSUME EditsInv, NEW c \in Clients, NEW purpose \in {"edit", "probe"},
         NEW want \in Edits!Settings, NEW probed \in BOOLEAN,
         purpose = "probe" => want = Edits!Draft(row) /\ probed,
         Edits!Load(c, purpose, want, probed)
  PROVE  EditsInv'
<1> DEFINE q == [kind |-> purpose, old |-> row, want |-> want, probed |-> probed]
<1>1. /\ writes < MaxWrites /\ writes' = writes + 1 /\ request' = [request EXCEPT ![c] = q]
      /\ UNCHANGED <<row, worker, evidence, tainted, mixed>>
  BY DEF Edits!Load
<1>2. Sane(row) /\ row \in Edits!Connection /\ row.revision \in Nat /\ writes \in Nat
      /\ row.revision <= writes'
  BY <1>1, EditsNumbers DEF EditsInv, Sane, Edits!Connection
<1>3. Loaded(q)'
  BY <1>1, <1>2 DEF Loaded, Edits!Draft, Edits!SettingsOf
<1>4. ASSUME NEW d \in Clients
      PROVE  request'[d] = Edits!None \/ Loaded(request[d])'
  <2>1. CASE d = c
    BY <1>1, <1>3, <2>1 DEF EditsInv, Requests
  <2>2. CASE d # c
    <3>1. request'[d] = request[d]
      BY <1>1, <2>2
    <3>2. CASE Loaded(request[d])
      <4>1. request[d].old.revision \in Nat
        BY <3>2 DEF Loaded, Edits!Connection
      <4> QED BY <1>1, <1>2, <3>1, <3>2, <4>1 DEF Loaded, EditsInv
    <3> QED BY <3>1, <3>2 DEF EditsInv, Requests
  <2> QED BY <2>1, <2>2
<1>5. Requests'
  BY <1>1, <1>4 DEF EditsInv, Requests
<1>6. Behind' /\ Edits!GenerationIdentifies' /\ Edits!VerifiedHonest'
  BY <1>1 DEF EditsInv, Behind, Edits!GenerationIdentifies, Edits!VerifiedHonest,
              Edits!SettingsOf
<1>7. Sane(row') /\ row'.revision <= writes' + 1 /\ writes' \in 0..MaxWrites
  BY <1>1, <1>2, EditsNumbers DEF EditsInv
<1> QED BY <1>1, <1>5, <1>6, <1>7 DEF EditsInv

LEMMA DraftIn ==
  ASSUME NEW r, Sane(r)
  PROVE  Edits!Draft(r) \in Edits!Settings
BY SettingsIn, EditsNumbers DEF Edits!Draft, Edits!Settings

LEMMA EditsStep ==
  ASSUME EditsInv, [Edits!Next]_(Edits!vars)
  PROVE  EditsInv'
<1>0. Sane(row)
  BY DEF EditsInv
<1>1. ASSUME NEW c \in Clients, Edits!PutUnified(c) \/ Edits!PutManual(c) \/ Edits!PutOnvif(c)
               \/ Edits!PutHik(c)
      PROVE  EditsInv'
  <2>1. PICK want \in Edits!Settings, probed \in BOOLEAN : Edits!Load(c, "edit", want, probed)
    BY <1>1 DEF Edits!PutUnified, Edits!PutManual, Edits!PutOnvif, Edits!PutHik
  <2> QED BY <2>1, LoadKeeps
<1>2. ASSUME NEW c \in Clients, Edits!PostProbe(c)
      PROVE  EditsInv'
  BY <1>0, <1>2, LoadKeeps, DraftIn DEF Edits!PostProbe
<1>3. ASSUME NEW c \in Clients, request[c] # Edits!None
      PROVE  Loaded(request[c]) /\ request[c].old.revision <= MaxWrites
  <2>1. Loaded(request[c])
    BY <1>3 DEF EditsInv, Requests
  <2>2. request[c].old.revision \in Nat
    BY <2>1 DEF Loaded, Edits!Connection
  <2> QED BY <2>1, <2>2, EditsNumbers DEF Loaded, EditsInv
<1>4. ASSUME NEW c \in Clients, Edits!Edit(c)
      PROVE  EditsInv'
  <2>1. request[c] # Edits!None
    BY <1>4 DEF Edits!Edit, Edits!None
  <2>2. Loaded(request[c]) /\ request[c].old.revision <= MaxWrites
    BY <1>3, <2>1
  <2>3. Follows(request[c].old, Edits!Edited(request[c].old, request[c].want, request[c].probed),
                request[c].want, request[c].probed)
    BY <2>2, EditedFollows DEF Loaded
  <2> QED BY <1>4, <2>1, <2>3, CommitKeeps DEF Edits!Edit
<1>5. ASSUME NEW c \in Clients, Edits!Probe(c)
      PROVE  EditsInv'
  <2>1. request[c] # Edits!None /\ request[c].kind = "probe"
    BY <1>5 DEF Edits!Probe, Edits!None
  <2>2. Loaded(request[c]) /\ request[c].old.revision <= MaxWrites
    BY <1>3, <2>1
  <2>3. request[c].want = Edits!Draft(request[c].old) /\ request[c].probed = TRUE
    BY <2>1, <2>2 DEF Loaded
  <2>4. /\ Follows(request[c].old, Edits!Verified(request[c].old), request[c].want, request[c].probed)
        /\ Follows(request[c].old, Edits!Refused(request[c].old), request[c].want, request[c].probed)
    BY <2>2, <2>3, VerifiedFollows, RefusedFollows DEF Loaded
  <2> QED BY <1>5, <2>1, <2>4, CommitKeeps DEF Edits!Probe
<1>6. ASSUME NEW c \in Clients, Edits!Reject(c)
      PROVE  EditsInv'
  <2>1. request' = [request EXCEPT ![c] = Edits!None]
        /\ UNCHANGED <<row, worker, evidence, tainted, mixed, writes>>
    BY <1>6 DEF Edits!Reject, Edits!Done
  <2>2. Requests'
    BY <2>1 DEF EditsInv, Requests, Loaded
  <2>3. Behind' /\ Edits!GenerationIdentifies' /\ Edits!VerifiedHonest'
    BY <2>1 DEF EditsInv, Behind, Edits!GenerationIdentifies, Edits!VerifiedHonest,
                Edits!SettingsOf
  <2> QED BY <1>0, <2>1, <2>2, <2>3 DEF EditsInv
<1>7. CASE Edits!Configure
  <2>1. /\ worker' = [revision |-> row.revision, settings |-> Edits!SettingsOf(row)]
        /\ UNCHANGED <<row, request, evidence, tainted, mixed, writes>>
    BY <1>7 DEF Edits!Configure
  <2>2. Requests'
    BY <2>1 DEF EditsInv, Requests, Loaded
  <2>3. row.revision \in 1..(MaxWrites + 1) /\ row.revision \in Nat
        /\ Edits!SettingsOf(row) \in Edits!Settings
    BY <1>0, SettingsIn, EditsNumbers DEF Sane, Edits!Connection
  <2>4. Behind' /\ Edits!GenerationIdentifies' /\ Edits!VerifiedHonest'
    BY <2>1, <2>3 DEF EditsInv, Behind, Edits!GenerationIdentifies, Edits!VerifiedHonest,
                Edits!SettingsOf
  <2> QED BY <1>0, <2>1, <2>2, <2>3, <2>4 DEF EditsInv
<1>8. CASE UNCHANGED Edits!vars
  <2>1. UNCHANGED <<row, request, worker, evidence, tainted, mixed, writes>>
    BY <1>8 DEF Edits!vars
  <2>2. Requests'
    BY <2>1 DEF EditsInv, Requests, Loaded
  <2>3. Behind' /\ Edits!GenerationIdentifies' /\ Edits!VerifiedHonest'
    BY <2>1 DEF EditsInv, Behind, Edits!GenerationIdentifies, Edits!VerifiedHonest,
                Edits!SettingsOf
  <2> QED BY <1>0, <2>1, <2>2, <2>3 DEF EditsInv
<1> QED BY <1>1, <1>2, <1>4, <1>5, <1>6, <1>7, <1>8 DEF Edits!Next

-----------------------------------------------------------------------------
(* All managers                                                            *)
\* A step of the managers is, to each of them, a step of its own or none.
LEMMA StepOfExport ==
  ASSUME [Next]_managerVars
  PROVE  [Export!Next]_(Export!vars)
<1>1. Export!Next \/ UNCHANGED exportState
  BY DEF Next, ExportMoves, OutageMoves, IncidentsMoves, ProbingMoves, MediaMoves, HikMoves,
         PrefetchMoves, EditsMoves, managerVars
<1>2. UNCHANGED exportState => UNCHANGED Export!vars
  BY DEF exportState, Export!vars, Export!rows, Export!loop, Export!counts
<1> QED BY <1>1, <1>2

LEMMA StepOfOutage ==
  ASSUME [Next]_managerVars
  PROVE  [Outage!Next]_(Outage!alertVars)
<1>1. Outage!Next \/ UNCHANGED outageState
  BY DEF Next, ExportMoves, OutageMoves, IncidentsMoves, ProbingMoves, MediaMoves, HikMoves,
         PrefetchMoves, EditsMoves, managerVars
<1>2. UNCHANGED outageState => UNCHANGED Outage!alertVars
  BY DEF outageState, Outage!alertVars, Outage!worker, Outage!tasks, Outage!dispatch,
         Outage!alertCounts
<1> QED BY <1>1, <1>2

LEMMA StepOfIncidents ==
  ASSUME [Next]_managerVars
  PROVE  [Incidents!Next]_(Incidents!incidentVars)
<1>1. Incidents!Next \/ UNCHANGED incidentsState
  BY DEF Next, ExportMoves, OutageMoves, IncidentsMoves, ProbingMoves, MediaMoves, HikMoves,
         PrefetchMoves, EditsMoves, managerVars
<1>2. UNCHANGED incidentsState => UNCHANGED Incidents!incidentVars
  BY DEF incidentsState, Incidents!incidentVars, Incidents!outside, Incidents!incidentHistory
<1> QED BY <1>1, <1>2

LEMMA StepOfProbing ==
  ASSUME [Next]_managerVars
  PROVE  [Probing!Next]_(Probing!connVars)
<1>1. Probing!Next \/ UNCHANGED probingState
  BY DEF Next, ExportMoves, OutageMoves, IncidentsMoves, ProbingMoves, MediaMoves, HikMoves,
         PrefetchMoves, EditsMoves, managerVars
<1>2. UNCHANGED probingState => UNCHANGED Probing!connVars
  BY DEF probingState, Probing!connVars, Probing!world, Probing!row, Probing!connHistory,
         Probing!connCounts
<1> QED BY <1>1, <1>2

LEMMA StepOfMedia ==
  ASSUME [Next]_managerVars
  PROVE  [Media!Next]_(Media!mediaVars)
<1>1. Media!Next \/ UNCHANGED mediaState
  BY DEF Next, ExportMoves, OutageMoves, IncidentsMoves, ProbingMoves, MediaMoves, HikMoves,
         PrefetchMoves, EditsMoves, managerVars
<1>2. UNCHANGED mediaState => UNCHANGED Media!mediaVars
  BY DEF mediaState, Media!mediaVars, Media!request, Media!ffmpeg, Media!camera, Media!past
<1> QED BY <1>1, <1>2

LEMMA StepOfHik ==
  ASSUME [Next]_managerVars
  PROVE  [Hik!Next]_(Hik!hikVars)
<1>1. Hik!Next \/ UNCHANGED hikState
  BY DEF Next, ExportMoves, OutageMoves, IncidentsMoves, ProbingMoves, MediaMoves, HikMoves,
         PrefetchMoves, EditsMoves, managerVars
<1>2. UNCHANGED hikState => UNCHANGED Hik!hikVars
  BY DEF hikState, Hik!hikVars, Hik!backendVars, Hik!bridgeVars, Hik!hikHistory
<1> QED BY <1>1, <1>2

LEMMA StepOfPrefetch ==
  ASSUME [Next]_managerVars
  PROVE  [Prefetch!Next]_(Prefetch!prefetchVars)
<1>1. Prefetch!Next \/ UNCHANGED prefetchState
  BY DEF Next, ExportMoves, OutageMoves, IncidentsMoves, ProbingMoves, MediaMoves, HikMoves,
         PrefetchMoves, EditsMoves, managerVars
<1>2. UNCHANGED prefetchState => UNCHANGED Prefetch!prefetchVars
  BY DEF prefetchState, Prefetch!prefetchVars
<1> QED BY <1>1, <1>2

LEMMA StepOfEdits ==
  ASSUME [Next]_managerVars
  PROVE  [Edits!Next]_(Edits!vars)
<1>1. Edits!Next \/ UNCHANGED editsState
  BY DEF Next, ExportMoves, OutageMoves, IncidentsMoves, ProbingMoves, MediaMoves, HikMoves,
         PrefetchMoves, EditsMoves, managerVars
<1>2. UNCHANGED editsState => UNCHANGED Edits!vars
  BY DEF editsState, Edits!vars
<1> QED BY <1>1, <1>2

\* What the invariants say in the words of the modules.
LEMMA OutageHonest ==
  ASSUME OutageInv
  PROVE  Outage!TypeOK /\ Outage!AlertsHonest
<1>1. Outage!OfflineToldOnce
  <2>1. told \in {0, 1}
    BY DEF OutageInv, ToldOnce
  <2> QED BY <2>1 DEF Outage!OfflineToldOnce
<1> QED BY <1>1 DEF OutageInv, Outage!AlertsHonest

LEMMA IncidentsHold ==
  ASSUME IncidentsInv
  PROVE  Incidents!TypeOK /\ Incidents!IncidentsHonest
BY DEF IncidentsInv

LEMMA PrefetchHolds ==
  ASSUME PrefetchInv
  PROVE  Prefetch!TypeOK /\ Prefetch!PrefetchHonest
BY DEF PrefetchInv, Linked, Tracked, Prefetch!PrefetchHonest

LEMMA EditsHold ==
  ASSUME EditsInv
  PROVE  Edits!TypeOK /\ Edits!ConnectionHonest
<1>1. Edits!Coherent
  BY DEF EditsInv, Sane, Edits!Coherent
<1>2. row \in Edits!Connection
  BY DEF EditsInv, Sane
<1>3. ASSUME NEW c \in Clients
      PROVE  \/ request[c] = Edits!None
             \/ /\ request[c].kind \in {"edit", "probe"}
                /\ request[c].old \in Edits!Connection /\ request[c].want \in Edits!Settings
                /\ request[c].probed \in BOOLEAN
  BY DEF EditsInv, Requests, Loaded, Sane
<1> QED BY <1>1, <1>2, <1>3 DEF EditsInv, Edits!TypeOK, Edits!ConnectionHonest

ManagersInv ==
  /\ ExportInv /\ OutageInv /\ IncidentsInv /\ ProbingInv /\ Flags
  /\ MediaInv /\ HikInv /\ HikRoom /\ PrefetchInv /\ EditsInv

LEMMA ManagersInit == Init => ManagersInv
BY ExportInit, OutageInit, IncidentsInit, ProbingInit, FlagsInit, MediaInit, HikInit, RoomInit,
   PrefetchInit, EditsInit DEF Init, ManagersInv

LEMMA ManagersStep ==
  ASSUME ManagersInv, [Next]_managerVars
  PROVE  ManagersInv'
<1>1. ExportInv'
  BY StepOfExport, ExportStep DEF ManagersInv
<1>2. OutageInv'
  BY StepOfOutage, OutageStep DEF ManagersInv
<1>3. IncidentsInv'
  BY StepOfIncidents, IncidentsStep DEF ManagersInv
<1>4. ProbingInv' /\ Flags'
  <2>1. [Probing!Next]_(Probing!connVars) /\ ProbingInv /\ Flags
    BY StepOfProbing DEF ManagersInv
  <2>2. Numbers
    BY <2>1 DEF ProbingInv
  <2> QED BY <2>1, <2>2, ProbingStep, FlagsStep
<1>5. MediaInv'
  BY StepOfMedia, MediaStep DEF ManagersInv
<1>6. HikInv' /\ HikRoom'
  <2>1. HikInv /\ HikRoom /\ [Hik!Next]_(Hik!hikVars)
    BY StepOfHik DEF ManagersInv
  <2>2. CASE Hik!StopBridge \/ UNCHANGED Hik!hikVars
    BY <2>1, <2>2, HikRest, RoomRest
  <2>3. ASSUME NEW s \in Streams, Hik!Step(s)
        PROVE  HikInv' /\ HikRoom'
    BY <2>1, <2>3, HikStep, RoomStep
  <2> QED BY <2>1, <2>2, <2>3 DEF Hik!Next
<1>7. PrefetchInv'
  BY StepOfPrefetch, PrefetchStep DEF ManagersInv
<1>8. EditsInv'
  BY StepOfEdits, EditsStep DEF ManagersInv
<1> QED BY <1>1, <1>2, <1>3, <1>4, <1>5, <1>6, <1>7, <1>8 DEF ManagersInv

(* The inductive invariant of every manager, in whatever order they move.   *)
THEOREM ManagersKept == Spec => []ManagersInv
<1>1. Init => ManagersInv
  BY ManagersInit
<1>2. ManagersInv /\ [Next]_managerVars => ManagersInv'
  BY ManagersStep
<1> QED BY <1>1, <1>2, PTL DEF Spec

(* Every variable of the managers keeps its type; the queue of a HIK stream  *)
(* (src/hik_bridge) never holds more than it has room for.                  *)
THEOREM TypesKept == Spec => []TypeOK
<1>1. ManagersInv => TypeOK
  <2> SUFFICES ASSUME ManagersInv
               PROVE  TypeOK
    OBVIOUS
  <2>1. Probing!TypeOK
    BY FlagsAreTypes DEF ManagersInv, ProbingInv
  <2>2. Export!TypeOK /\ Outage!TypeOK /\ Incidents!TypeOK
    BY ExportHonest, OutageHonest, IncidentsHold DEF ManagersInv
  <2>3. Media!TypeOK /\ Hik!TypeOK
    BY HikHonest DEF ManagersInv, MediaInv
  <2>4. Prefetch!TypeOK /\ Edits!TypeOK
    BY PrefetchHolds, EditsHold DEF ManagersInv
  <2> QED BY <2>1, <2>2, <2>3, <2>4 DEF TypeOK
<1> QED BY <1>1, ManagersKept, PTL

(* recording_export.py: a ready job serves the footage of its own request,  *)
(* and no directory is left that nothing explains, for any number of        *)
(* cameras, jobs, requests, deletions and restarts.                         *)
THEOREM ExportsAreHonest == Spec => []ExportsHonest
<1>1. ManagersInv => ExportsHonest
  BY ExportHonest DEF ManagersInv, ExportsHonest
<1> QED BY <1>1, ManagersKept, PTL

(* recorder_manager.py, alert_monitor.py, alert_dispatcher.py: an outage is *)
(* told once and withheld only for the reasons OutageAlert names, and an    *)
(* incident is mailed once, for any threshold and number of exits, stops    *)
(* and lapses.                                                              *)
THEOREM AlertsAreHonest == Spec => []AlertsHonest
<1>1. ManagersInv => AlertsHonest
  BY OutageHonest, IncidentsHold DEF ManagersInv, AlertsHonest
<1> QED BY <1>1, ManagersKept, PTL

(* camera_connectivity_monitor.py: no camera is written offline before the  *)
(* threshold, but for the two exceptions Connectivity names, and the two    *)
(* counters agree, for any threshold and number of disturbances.            *)
THEOREM ConnectivityIsHonest == Spec => []ConnectivityHonest
<1>1. ManagersInv => ConnectivityHonest
  BY DEF ManagersInv, ProbingInv, ConnectivityHonest
<1> QED BY <1>1, ManagersKept, PTL

(* camera_media_session_registry.py, src/hik_bridge, playback_prefetch.py:  *)
(* what a teardown caught is closed, every login at a device is accounted   *)
(* for, and what is linked ahead follows what is played, for any set of     *)
(* sessions, streams, recordings and tasks.                                 *)
THEOREM SessionsAreHonest == Spec => []SessionsHonest
<1>1. ManagersInv => SessionsHonest
  BY MediaHonest, HikHonest, PrefetchHolds DEF ManagersInv, SessionsHonest
<1> QED BY <1>1, ManagersKept, PTL

(* camera_connection.py, camera_mutation.py: row, configs and capabilities  *)
(* agree, a revision identifies its settings and what is verified was       *)
(* verified, save as ConnectionEdits names, for any number of clients,      *)
(* hosts, targets and writes.                                               *)
THEOREM ConnectionIsHonest == Spec => []ConnectionHonest
<1>1. ManagersInv => ConnectionHonest
  BY EditsHold DEF ManagersInv, ConnectionHonest
<1> QED BY <1>1, ManagersKept, PTL
=============================================================================
