--------------------------- MODULE ConnectionEdits ---------------------------
(***************************************************************************)
(* The current connection of a camera and the requests that write it:      *)
(* services/camera_connection.py, camera_mutation.py and                    *)
(* camera_adapter_probe.py behind PUT /api/cameras/N, its legacy variants  *)
(* and POST /api/cameras/N/probe.                                          *)
(*                                                                         *)
(* A request loads the row into a session of its own, awaits (a probe over *)
(* the network, the runtimes it stops) and commits.  The session writes    *)
(* the columns whose value differs from what it loaded, no others, and no  *)
(* version is compared: requests that overlap merge, column by column.     *)
(***************************************************************************)
EXTENDS Integers, FiniteSets

CONSTANTS Clients,      \* requests that may run at the same time
          Hosts,        \* devices, a subset of 1..n
          Targets,      \* ports and paths of an adapter's config; 1 is the default
          MaxRequests   \* bound: requests made

VARIABLES
    row,       \* camera_connections with its config rows, and the camera's shadow
    request,   \* client -> what its session loaded and wants, or None
    worker,    \* a recorder, motion worker or event ring that was configured
    evidence,  \* history: the settings a saved probe was made with
    tainted,   \* history: the last write was computed from an outdated row
    mixed,     \* history: revisions committed from an outdated row, or fallen behind
    requests   \* requests made

vars == <<row, request, worker, evidence, tainted, mixed, requests>>

Adapters == {"manual_rtsp", "onvif", "hik_sdk"}
Absent == [target |-> 0, cache |-> 0]
Config == [target : Targets \cup {0}, cache : Hosts \cup {0}]
Settings == [adapter : Adapters, host : Hosts, target : Targets]
Connection == [adapter : Adapters, host : Hosts, revision : 1..(MaxRequests + 1),
               status : {"unverified", "verified", "failed"},
               config : [Adapters -> Config], shadow : Adapters \X Hosts]
None == [kind |-> "none"]

SettingsOf(r) == [adapter |-> r.adapter, host |-> r.host, target |-> r.config[r.adapter].target]

TypeOK ==
    /\ row \in Connection
    /\ \A c \in Clients : request[c] = None \/
          /\ request[c].kind \in {"edit", "probe"}
          /\ request[c].old \in Connection /\ request[c].want \in Settings
          /\ request[c].probed \in BOOLEAN
    /\ worker \in [revision : 1..(MaxRequests + 1), settings : Settings]
    /\ evidence \in Settings /\ tainted \in BOOLEAN
    /\ mixed \subseteq 1..(MaxRequests + 1) /\ requests \in 0..MaxRequests

-----------------------------------------------------------------------------
(* The writes, on a loaded row r.                                          *)

Changed(r, want) ==
    \/ r.config[want.adapter] = Absent
    \/ r.host # want.host \/ r.config[want.adapter].target # want.target

\* What the three upserts do alike; what a probe found goes into the cache.
Written(r, want, status, cache) ==
    [r EXCEPT !.host = want.host, !.status = status,
        !.revision = IF Changed(r, want) THEN @ + 1 ELSE @,
        !.config[want.adapter] = [target |-> want.target, cache |-> cache],
        !.shadow = <<want.adapter, want.host>>]

\* Mutant: what was verified stays so when the target changes.
StatusKept(r, want, probed) == IF probed THEN "verified" ELSE r.status

\* A status is asked for, or it falls back when the target changes.
StatusOf(r, want, probed) ==
    IF probed THEN "verified" ELSE IF Changed(r, want) THEN "unverified" ELSE r.status

\* What a probe of the device leaves in the config: stream URIs, serials.
CacheOf(adapter, host) == IF adapter = "manual_rtsp" THEN 0 ELSE host

UpsertManual(r, want, probed) == Written(r, want, StatusOf(r, want, probed), 0)

\* Profiles, stream URIs and identity are kept while the target is the same.
UpsertOnvif(r, want, probed) ==
    Written(r, want, StatusOf(r, want, probed),
            IF probed THEN CacheOf("onvif", want.host)
            ELSE IF Changed(r, want) THEN 0 ELSE r.config.onvif.cache)

\* Serial, model and name likewise.
UpsertHik(r, want, probed) ==
    Written(r, want, StatusOf(r, want, probed),
            IF probed THEN CacheOf("hik_sdk", want.host)
            ELSE IF Changed(r, want) THEN 0 ELSE r.config.hik_sdk.cache)

Upsert(r, want, probed) ==
    CASE want.adapter = "manual_rtsp" -> UpsertManual(r, want, probed)
      [] want.adapter = "onvif" -> UpsertOnvif(r, want, probed)
      [] want.adapter = "hik_sdk" -> UpsertHik(r, want, probed)

\* _prepare_connection_switch
Prepared(r, adapter) == [r EXCEPT !.adapter = adapter, !.config = [a \in Adapters |-> Absent]]

\* switch_to_manual_rtsp_connection, switch_to_onvif_connection, ...
Switched(r, want, probed) == Upsert(Prepared(r, want.adapter), want, probed)

Edited(r, want, probed) ==
    IF r.adapter = want.adapter THEN Upsert(r, want, probed) ELSE Switched(r, want, probed)

\* create_unified_camera, with a probe's result from the legacy endpoints
Created(want, probed) ==
    [adapter |-> want.adapter, host |-> want.host, revision |-> 1,
     status |-> IF probed THEN "verified" ELSE "unverified",
     config |-> [a \in Adapters |->
        IF a # want.adapter THEN Absent
        ELSE [target |-> want.target, cache |-> IF probed THEN CacheOf(a, want.host) ELSE 0]],
     shadow |-> <<want.adapter, want.host>>]

\* _saved_connection_draft keeps the port of an ONVIF service address, but
\* not its path: a saved connection is probed at the default address.
Draft(r) == IF r.adapter = "onvif" THEN [SettingsOf(r) EXCEPT !.target = 1] ELSE SettingsOf(r)

\* apply_probe_success and apply_probe_failure
Verified(r) == Upsert(r, SettingsOf(r), TRUE)
Refused(r) == [r EXCEPT !.status = "failed"]

-----------------------------------------------------------------------------
(* The commit of a session that loaded old and holds new.                  *)
Pick(current, old, new) == IF new = old THEN current ELSE new

\* A switch puts a new config row in the place of the loaded one: all its
\* columns are written.
MergedConfig(current, old, new, switched) ==
    IF new = Absent THEN (IF old = Absent THEN current ELSE Absent)
    ELSE IF old = Absent \/ switched THEN new
    ELSE [target |-> Pick(current.target, old.target, new.target),
          cache |-> Pick(current.cache, old.cache, new.cache)]

Merged(old, new) ==
    [adapter |-> Pick(row.adapter, old.adapter, new.adapter),
     host |-> Pick(row.host, old.host, new.host),
     revision |-> Pick(row.revision, old.revision, new.revision),
     status |-> Pick(row.status, old.status, new.status),
     config |-> [a \in Adapters |->
                   MergedConfig(row.config[a], old.config[a], new.config[a],
                                old.adapter # new.adapter)],
     shadow |-> <<Pick(row.shadow[1], old.shadow[1], new.shadow[1]),
                  Pick(row.shadow[2], old.shadow[2], new.shadow[2])>>]

\* An UPDATE of a config row that is gone, an INSERT of one that is there.
Conflict(old, new) ==
    \E a \in Adapters :
        \/ old.config[a] # Absent /\ new.config[a] # Absent /\ row.config[a] = Absent
           /\ (new.config[a] # old.config[a] \/ new.adapter # old.adapter)
        \/ old.config[a] = Absent /\ new.config[a] # Absent /\ row.config[a] # Absent

\* What a commit from an outdated row makes ambiguous: the revision it writes,
\* and those between that one and the row's, which will be given out again.
Reused(revision) == {revision} \cup revision..row.revision

Done(c) == request' = [request EXCEPT ![c] = None]

Commit(c, new, settings) ==
    LET old == request[c].old
        outdated == row # old IN
    /\ Done(c)
    /\ IF Conflict(old, new) THEN UNCHANGED <<row, evidence, tainted, mixed>>
       ELSE /\ row' = Merged(old, new)
            /\ evidence' = IF request[c].probed THEN settings ELSE evidence
            /\ tainted' = (outdated \/ (tainted /\ new = old))
            /\ mixed' = IF outdated THEN mixed \cup Reused(row'.revision) ELSE mixed
    /\ UNCHANGED <<worker, requests>>

-----------------------------------------------------------------------------
\* The unified endpoint saves what it is given; the legacy ones of ONVIF and
\* HIK save what they have probed, at the default address and stream.
Creatable ==
    {Created(want, FALSE) : want \in Settings} \cup
    {Created(want, TRUE) : want \in {s \in Settings : s.adapter # "manual_rtsp" /\ s.target = 1}}

Init ==
    /\ row \in Creatable
    /\ evidence = SettingsOf(row)
    /\ worker = [revision |-> 1, settings |-> SettingsOf(row)]
    /\ request = [c \in Clients |-> None]
    /\ tainted = FALSE /\ mixed = {} /\ requests = 0

\* A handler loads the camera into its session.
Load(c, kind, want, probed) ==
    /\ request[c] = None /\ requests < MaxRequests
    /\ request' = [request EXCEPT ![c] =
         [kind |-> kind, old |-> row, want |-> want, probed |-> probed]]
    /\ requests' = requests + 1
    /\ UNCHANGED <<row, worker, evidence, tainted, mixed>>

\* PUT /api/cameras/N with a connection of the unified form: nothing is probed.
PutUnified(c) == \E want \in Settings : Load(c, "edit", want, FALSE)

\* PUT /api/cameras/N in the legacy form: a camera of another adapter is
\* switched, and what it is switched to is probed first, the row loaded.
PutManual(c) ==
    \E want \in Settings : /\ want.adapter = "manual_rtsp"
                           /\ Load(c, "edit", want, row.adapter # "manual_rtsp")

\* PUT /api/cameras/onvif/N: the row is loaded after the probe.
PutOnvif(c) ==
    \E want \in Settings : /\ want.adapter = "onvif" /\ want.target = 1
                           /\ Load(c, "edit", want, TRUE)

\* PUT /api/cameras/hik/N
PutHik(c) ==
    \E want \in Settings : /\ want.adapter = "hik_sdk" /\ want.target = 1
                           /\ Load(c, "edit", want, TRUE)

\* POST /api/cameras/N/probe
PostProbe(c) == Load(c, "probe", Draft(row), TRUE)

\* update_unified_camera, after the runtimes are stopped if it switches
Edit(c) ==
    /\ request[c].kind = "edit"
    /\ Commit(c, Edited(request[c].old, request[c].want, request[c].probed), request[c].want)

\* A name that is taken, an exception, a probe of the target that fails.
Reject(c) ==
    /\ request[c].kind = "edit"
    /\ Done(c) /\ UNCHANGED <<row, worker, evidence, tainted, mixed, requests>>

\* probe_current_connection: the device has answered, or not.
Probe(c) ==
    /\ request[c].kind = "probe"
    /\ \/ Commit(c, Verified(request[c].old), request[c].want)
       \/ Commit(c, Refused(request[c].old), request[c].want)

\* A runtime is configured from the row.
Configure ==
    /\ worker' = [revision |-> row.revision, settings |-> SettingsOf(row)]
    /\ UNCHANGED <<row, request, evidence, tainted, mixed, requests>>

Next ==
    \/ \E c \in Clients :
          \/ PutUnified(c) \/ PutManual(c) \/ PutOnvif(c) \/ PutHik(c) \/ PostProbe(c)
          \/ Edit(c) \/ Reject(c) \/ Probe(c)
    \/ Configure

Spec == Init /\ [][Next]_vars

-----------------------------------------------------------------------------
(* However requests overlap, the adapter's own config row is there and the *)
(* camera's shadow columns repeat the connection.                          *)
Coherent ==
    /\ row.config[row.adapter] # Absent
    /\ row.shadow = <<row.adapter, row.host>>

(* docs/superpowers/specs/2026-09-17-camera-connection-revision-guard-      *)
(* design.md: the revision is the canonical generation number.  A worker   *)
(* whose revision is current was configured with the current settings; the *)
(* exception are revisions that requests which overlapped have both made,  *)
(* and those the row fell behind as the later of them had loaded it before. *)
GenerationIdentifies ==
    worker.revision = row.revision /\ row.revision \notin mixed =>
        worker.settings = SettingsOf(row)

(* A connection is verified, or failed, only by a probe of its own          *)
(* settings, unless the last write was computed from an outdated row, or   *)
(* an ONVIF device with an address of its own was probed at the default.   *)
VerifiedHonest ==
    row.status = "verified" /\ ~tainted =>
        \/ evidence = SettingsOf(row)
        \/ row.adapter = "onvif" /\ evidence = [SettingsOf(row) EXCEPT !.target = 1]

ConnectionHonest == Coherent /\ GenerationIdentifies /\ VerifiedHonest
=============================================================================
