------------------------------- MODULE Managers -------------------------------
(***************************************************************************)
(* The managers that share no state: the export worker, a recorder's outage *)
(* alert, the alert monitor, the connectivity monitor, the media sessions,  *)
(* the HIK bridge, the playback prefetch and the edits of a connection.     *)
(* Each step is one of one manager, between any two of the others.          *)
(***************************************************************************)
EXTENDS Integers, Sequences, FiniteSets

CONSTANTS
    \* RecordingExport
    Cameras, Jobs, MaxPosts, MaxGroups, MaxDeletions, MaxRestarts,
    \* OutageAlert
    Threshold, MaxExits, MaxStops, MaxLapses,
    \* AlertIncidents
    Warning, Critical, Full, MaxEvents, MaxRaises,
    \* Connectivity
    FailureThreshold, MaxUpsets,
    \* MediaSessions
    Sessions, Spares, MaxEdits,
    \* HikBridge
    Streams, QueueSize, MaxLosses,
    \* PlaybackPrefetch
    Recordings, Tasks,
    \* ConnectionEdits
    Clients, Hosts, Targets, MaxWrites

ASSUME ManagersAssumption ==
    /\ {MaxPosts, MaxGroups, MaxDeletions, MaxRestarts, MaxExits, MaxStops, MaxLapses,
        MaxEvents, MaxRaises, MaxUpsets, MaxEdits, MaxLosses, MaxWrites} \subseteq Nat
    /\ {Threshold, FailureThreshold, QueueSize} \subseteq Nat \ {0}
    \* camera, job, recording and task ids count from one, as rows of a table do
    /\ Cameras \subseteq Nat \ {0} /\ Jobs \subseteq Nat \ {0} /\ IsFiniteSet(Jobs)
    /\ Recordings \subseteq Nat \ {0} /\ 1 \in Recordings /\ Tasks \subseteq Nat \ {0}
    \* percentages; the settings ask for a warning before the critical mark
    /\ Full \in Nat /\ Critical \in 1..Full /\ Warning \in 0..(Critical - 1)
    \* 1 is the default port and path of every adapter
    /\ Hosts \subseteq Nat \ {0} /\ Targets \subseteq Nat \ {0} /\ 1 \in Targets
    /\ Spares \subseteq BOOLEAN

VARIABLES footage, job, artifacts, disk, queue, inQueue, activeJob,
    workerAt, run, expiring, due, posts, deletions, restarts, reused,
    littered, loop, stopAsked, alive, failures, streak, offline, alerted,
    alert, recovery, stability, mailing, unseen, incident, told, hushed,
    withheld, exits, stops, faults, used, archiving, failing, mailable,
    cleanups, stage, incidents, mailed, calm, flooded, unasked, results,
    roundRaises, reachable, healthy, hik, bridge, enabled, status,
    rowFailures, age, seen, memory, round, manual, misses, overtaken, guessed,
    raised, upsets, kind, sessionAt, spare, failed, leaving,
    source, process, closed, closeLock, registered, teardown, revision,
    previewEdits, caught, cut, abandoned, reader, regClosed, wanted, device,
    table, chunks, overflowed, consumer, stopping, hikFaults, unread, unheard,
    place, armed, task, tracked, current, links, ended, overlapped, row,
    request, worker, evidence, tainted, mixed, writes

Export == INSTANCE RecordingExport WITH
    MaxRequests <- MaxPosts, queued <- inQueue, active <- activeJob, at <- workerAt,
    requests <- posts
Outage == INSTANCE OutageAlert WITH MaxFaults <- MaxLapses, stopping <- stopAsked
Incidents == INSTANCE AlertIncidents WITH active <- incidents, raises <- roundRaises
Probing == INSTANCE Connectivity
Media == INSTANCE MediaSessions WITH at <- sessionAt
Hik == INSTANCE HikBridge WITH MaxFaults <- MaxLosses, queued <- chunks
Prefetch == INSTANCE PlaybackPrefetch
Edits == INSTANCE ConnectionEdits WITH MaxRequests <- MaxWrites, requests <- writes

exportState == <<footage, job, artifacts, disk, queue, inQueue, activeJob,
    workerAt, run, expiring, due, posts, deletions, restarts, reused,
    littered>>
outageState == <<loop, stopAsked, alive, failures, streak, offline, alerted,
    alert, recovery, stability, mailing, unseen, incident, told, hushed,
    withheld, exits, stops, faults>>
incidentsState == <<used, archiving, failing, mailable, cleanups, stage,
    incidents, mailed, calm, flooded, unasked, results, roundRaises>>
probingState == <<reachable, healthy, hik, bridge, enabled, status,
    rowFailures, age, seen, memory, round, manual, misses, overtaken, guessed,
    raised, upsets>>
mediaState == <<kind, sessionAt, spare, failed, leaving, source, process,
    closed, closeLock, registered, teardown, revision, previewEdits, caught,
    cut, abandoned>>
hikState == <<reader, regClosed, wanted, device, table, chunks, overflowed,
    consumer, stopping, hikFaults, unread, unheard>>
prefetchState == <<place, armed, task, tracked, current, links, ended,
    overlapped>>
editsState == <<row, request, worker, evidence, tainted, mixed, writes>>

managerVars == <<exportState, outageState, incidentsState, probingState, mediaState,
                 hikState, prefetchState, editsState>>

Init ==
    /\ Export!Init /\ Outage!Init /\ Incidents!Init /\ Probing!Init
    /\ Media!Init /\ Hik!Init /\ Prefetch!Init /\ Edits!Init

ExportMoves == Export!Next /\
    UNCHANGED <<outageState, incidentsState, probingState, mediaState,
                hikState, prefetchState, editsState>>
OutageMoves == Outage!Next /\
    UNCHANGED <<exportState, incidentsState, probingState, mediaState,
                hikState, prefetchState, editsState>>
IncidentsMoves == Incidents!Next /\
    UNCHANGED <<exportState, outageState, probingState, mediaState,
                hikState, prefetchState, editsState>>
ProbingMoves == Probing!Next /\
    UNCHANGED <<exportState, outageState, incidentsState, mediaState,
                hikState, prefetchState, editsState>>
MediaMoves == Media!Next /\
    UNCHANGED <<exportState, outageState, incidentsState, probingState,
                hikState, prefetchState, editsState>>
HikMoves == Hik!Next /\
    UNCHANGED <<exportState, outageState, incidentsState, probingState,
                mediaState, prefetchState, editsState>>
PrefetchMoves == Prefetch!Next /\
    UNCHANGED <<exportState, outageState, incidentsState, probingState,
                mediaState, hikState, editsState>>
EditsMoves == Edits!Next /\
    UNCHANGED <<exportState, outageState, incidentsState, probingState,
                mediaState, hikState, prefetchState>>

Next == ExportMoves \/ OutageMoves \/ IncidentsMoves \/ ProbingMoves \/
    MediaMoves \/ HikMoves \/ PrefetchMoves \/ EditsMoves

Spec == Init /\ [][Next]_managerVars

-----------------------------------------------------------------------------
(* Every manager keeps its types; among them, the queue of a HIK stream      *)
(* never holds more than the bridge gave it room for.                       *)
TypeOK ==
    /\ Export!TypeOK /\ Outage!TypeOK /\ Incidents!TypeOK /\ Probing!TypeOK
    /\ Media!TypeOK /\ Hik!TypeOK /\ Prefetch!TypeOK /\ Edits!TypeOK

(* recording_export.py: a job that is ready serves a file rendered from the  *)
(* footage of its own request, a directory that no row of the table owns is *)
(* left only by a restart or a deletion, and the worker dies of nothing but *)
(* a deletion that takes its row from under it.                             *)
ExportsHonest ==
    /\ Export!ReadyIsServed /\ Export!ServesOwnRequest
    /\ Export!LitterExplained /\ Export!DiesOfDeletionOnly
(* recorder_manager.py, alert_monitor.py and alert_dispatcher.py: no mail    *)
(* tells what did not happen or keeps silent about what did, save the cases *)
(* the modules name.                                                        *)
AlertsHonest == Outage!AlertsHonest /\ Incidents!IncidentsHonest
(* camera_connectivity_monitor.py: a camera is written offline after as many *)
(* failed probes as the threshold says, save the cases Connectivity names,  *)
(* and the monitor's two counters agree.                                    *)
ConnectivityHonest == Probing!ConnectivityHonest
(* camera_media_session_registry.py, src/hik_bridge, playback_prefetch.py: what *)
(* a teardown caught is closed, every login at a device is accounted for,   *)
(* and a cached recording is what was asked for.                            *)
SessionsHonest == Media!SessionsClosed /\ Hik!LoginsAccounted /\ Prefetch!PrefetchHonest
(* camera_connection.py, camera_mutation.py: what a camera's row, config and *)
(* capabilities say of it agrees, and what is verified was verified, save   *)
(* for requests that overlap in the ways ConnectionEdits names.             *)
ConnectionHonest == Edits!ConnectionHonest
=============================================================================
