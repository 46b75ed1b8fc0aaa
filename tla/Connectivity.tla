---------------------------- MODULE Connectivity ----------------------------
(***************************************************************************)
(* Whether a camera can be reached, for one camera:                         *)
(*   services/camera_connectivity_monitor.py   a round of probes every 15 s *)
(*   models/camera.py       assigning status also reconciles the monitor's  *)
(*                          counters; connectivity_status is what is shown  *)
(*   api/cameras.py, api/camera_adapter_switch.py   probes users ask for    *)
(*   services/camera_mutation.py, api/recorder.py   others that set status  *)
(*                                                                         *)
(* A round reads the rows, probes every camera that is not recording well,  *)
(* and writes what it found into the rows as they are by then.              *)
(***************************************************************************)
EXTENDS Integers

CONSTANTS FailureThreshold,   \* _FAILURE_THRESHOLD
          MaxUpsets            \* bound: probes of users, edits, rounds that raise, restarts

Unset == -1

VARIABLES
    reachable,   \* the camera answers
    healthy,     \* recorder_runtime_is_healthy
    hik, bridge, \* it is a HIK camera; the HIK bridge is available
    enabled,
    status, rowFailures,   \* columns status and connectivity_failures
    age,         \* of last_probe_at: "none", "fresh" or "stale" (over 60 s)
    seen,        \* last_online_at >= last_probe_at
    memory,      \* _failures[camera]
    round,       \* the round under way: what it read and what it found
    manual,      \* a user's probe under way, and its outcome
    misses,      \* history: failures noted since the camera was last written online
    overtaken,   \* history: a user's probe was answered within a round
    guessed,     \* history: a round took for offline what no probe had written so
    raised,      \* history: a round ended in an exception
    upsets

world == <<reachable, healthy, bridge>>
row == <<enabled, status, rowFailures, age, seen>>
connCounts == <<raised, upsets>>
connHistory == <<misses, overtaken, guessed>>
connVars == <<world, hik, row, memory, round, manual, connHistory, connCounts>>

Observed == {"unknown", "online", "offline"}
Resting == [at |-> "rest", previous |-> "unknown", known |-> 0, count |-> 0, status |-> "unknown"]
Capped(n) == IF n > FailureThreshold THEN FailureThreshold ELSE n

TypeOK ==
    /\ {reachable, healthy, hik, bridge, enabled, seen, overtaken, guessed} \subseteq BOOLEAN
    /\ status \in Observed \cup {"recording", "stopped"}
    /\ rowFailures \in 0..FailureThreshold /\ age \in {"none", "fresh", "stale"}
    /\ memory \in Unset..FailureThreshold /\ misses \in 0..FailureThreshold
    /\ round \in [at : {"rest", "probe", "write"}, previous : Observed, status : Observed,
                  known : 0..FailureThreshold, count : 0..FailureThreshold]
    /\ manual \in {"none", "passes", "fails"}
    /\ raised \in BOOLEAN /\ upsets \in 0..MaxUpsets

Init ==
    /\ reachable \in BOOLEAN /\ healthy = FALSE /\ hik \in BOOLEAN /\ bridge \in BOOLEAN
    /\ enabled = TRUE /\ status = "unknown" /\ rowFailures = 0 /\ age = "none" /\ seen = FALSE
    /\ memory = Unset /\ round = Resting /\ manual = "none"
    /\ misses = 0 /\ overtaken = FALSE /\ guessed = FALSE
    /\ raised = FALSE /\ upsets = 0

\* Camera.connectivity_status
Shown ==
    CASE age = "stale" -> "unknown"
      [] age # "stale" /\ status \in {"online", "offline"} -> status
      [] age = "none" /\ status \notin {"online", "offline"} -> "unknown"
      [] OTHER -> IF seen THEN "online" ELSE "offline"

-----------------------------------------------------------------------------
(* The world                                                               *)
World ==
    /\ \/ reachable' = ~reachable /\ healthy' = (healthy /\ reachable') /\ UNCHANGED bridge
       \/ healthy' = ~healthy /\ (healthy' => reachable) /\ UNCHANGED <<reachable, bridge>>
       \/ hik /\ bridge' = ~bridge /\ UNCHANGED <<reachable, healthy>>
    /\ UNCHANGED <<hik, row, memory, round, manual, connHistory, connCounts>>

\* Nothing has probed the camera for more than a minute.
Age ==
    /\ age = "fresh" /\ age' = "stale"
    /\ UNCHANGED <<world, hik, enabled, status, rowFailures, seen, memory, round, manual,
                   connHistory, connCounts>>

-----------------------------------------------------------------------------
(* resolve_connectivity_observation, with the camera's counter before.      *)
Failures(n) == Capped(n + 1)

\* Mutant: one failure fewer is enough.
ResolveHasty(previous, known, recording, answers) ==
    IF recording \/ answers THEN [count |-> 0, status |-> "online"]
    ELSE [count |-> Failures(known),
          status |-> IF Failures(known) >= FailureThreshold - 1 THEN "offline" ELSE previous]

Resolve(previous, known, recording, answers) ==
    IF recording \/ answers THEN [count |-> 0, status |-> "online"]
    ELSE [count |-> Failures(known),
          status |-> IF Failures(known) >= FailureThreshold THEN "offline" ELSE previous]

\* check_once: the rows of the enabled cameras are read; a HIK camera whose
\* bridge is unavailable is left out.
ReadRows ==
    /\ round.at = "rest" /\ enabled
    /\ IF hik /\ ~bridge
       THEN UNCHANGED <<round, guessed>>
       ELSE /\ round' = [Resting EXCEPT !.at = "probe", !.previous = Shown,
                                        !.known = rowFailures]
            /\ guessed' = (guessed \/ (Shown = "offline" /\ status # "offline"))
    /\ UNCHANGED <<world, hik, row, memory, manual, misses, overtaken, connCounts>>

\* The probe's answer; the counter is looked up after it.
Observe ==
    /\ round.at = "probe"
    /\ LET known == IF memory = Unset THEN round.known ELSE memory
           result == Resolve(round.previous, known, healthy, reachable)
       IN round' = [round EXCEPT !.at = "write", !.count = result.count,
                                 !.status = result.status]
    /\ UNCHANGED <<world, hik, row, memory, manual, connHistory, connCounts>>

\* The assignment of status overwrites the counters (_sync_explicit_...), then
\* the round overwrites them again.
WriteRow ==
    /\ round.at = "write" /\ round' = Resting
    /\ IF enabled
       THEN /\ status' = round.status /\ rowFailures' = round.count /\ memory' = round.count
            /\ age' = "fresh"
            /\ seen' = (round.status = "online")
            /\ misses' = IF round.count = 0 THEN 0 ELSE Capped(misses + 1)
       ELSE UNCHANGED <<status, rowFailures, age, seen, misses>> /\ memory' = memory
    /\ UNCHANGED <<world, hik, enabled, manual, overtaken, guessed, connCounts>>

\* A camera that is not enabled when the rows are read loses its counter.
Forget ==
    /\ round.at = "rest" /\ ~enabled /\ memory # Unset
    /\ memory' = Unset
    /\ UNCHANGED <<world, hik, row, round, manual, connHistory, connCounts>>

\* A use of the bound.
Upset == upsets < MaxUpsets /\ upsets' = upsets + 1

\* An exception ends the round; the commit may fail after the counter was set.
RoundRaises ==
    /\ Upset
    /\ round.at # "rest" /\ round' = Resting /\ raised' = TRUE
    /\ \/ UNCHANGED <<memory, misses>>
       \/ /\ round.at = "write" /\ enabled
          /\ memory' = round.count
          /\ misses' = IF round.count = 0 THEN misses ELSE Capped(misses + 1)
    /\ UNCHANGED <<world, hik, row, manual, overtaken, guessed>>

-----------------------------------------------------------------------------
(* Users                                                                   *)
\* What assigning "online" or "offline" to Camera.status does.
Sync(value) ==
    /\ status' = value
    /\ rowFailures' = IF value = "online" THEN 0 ELSE FailureThreshold
    /\ memory' = IF value = "online" THEN 0 ELSE FailureThreshold

AskProbe ==
    /\ Upset /\ manual = "none"
    /\ manual' = IF reachable THEN "passes" ELSE "fails"
    /\ UNCHANGED <<world, hik, row, memory, round, connHistory, raised>>

AnswerProbe ==
    /\ manual # "none" /\ manual' = "none"
    /\ Sync(IF manual = "passes" THEN "online" ELSE "offline")
    /\ age' = "fresh" /\ seen' = (manual = "passes")
    /\ misses' = IF manual = "passes" THEN 0 ELSE FailureThreshold
    /\ overtaken' = (overtaken \/ round.at # "rest")
    /\ UNCHANGED <<world, hik, enabled, round, guessed, connCounts>>

\* An edit of the connection, a switch of adapter, enabled or disabled,
\* start-all and stop-all.
Edit ==
    /\ Upset
    /\ \/ status' = "unknown" /\ age' = "none" /\ UNCHANGED enabled
       \/ enabled' = ~enabled /\ UNCHANGED <<status, age>>
       \/ enabled /\ status' = "recording" /\ UNCHANGED <<enabled, age>>
       \/ status = "recording" /\ status' = "stopped" /\ UNCHANGED <<enabled, age>>
    /\ UNCHANGED <<world, hik, rowFailures, seen, memory, round, manual, connHistory, raised>>

Restart ==
    /\ Upset
    /\ memory' = Unset /\ round' = Resting /\ manual' = "none" /\ healthy' = FALSE
    /\ UNCHANGED <<reachable, hik, bridge, row, connHistory, raised>>

Round == ReadRows \/ Observe \/ WriteRow \/ Forget
Users == AskProbe \/ AnswerProbe \/ Edit
Next == World \/ Age \/ Round \/ RoundRaises \/ Users \/ Restart

\* A round every 15 seconds; probes have time limits.
Spec == Init /\ [][Next]_connVars /\ WF_connVars(Round) /\ WF_connVars(AnswerProbe)

-----------------------------------------------------------------------------
(* A camera is written offline only after as many failures in a row as the  *)
(* threshold says, counted over edits, restarts and rounds that raise, or   *)
(* because a user's probe failed.  Two things make it so earlier: a round   *)
(* that overwrites the answer to a user's probe with what it had found      *)
(* before, and a camera never seen online since its last edit, which one    *)
(* failure already shows as offline, for the next round to write down.      *)
OfflineAfterThreshold ==
    status = "offline" => misses >= FailureThreshold \/ overtaken \/ guessed

(* The counters of the row and of the monitor agree when both are there, so *)
(* that neither a restart nor an edit makes the camera start anew.          *)
CountersAgree ==
    memory # Unset /\ ~raised => memory = rowFailures

(* What is shown follows the camera: while it is reachable it becomes       *)
(* online, and while it is not, offline.                                   *)
Probed == enabled /\ (hik => bridge)
Unshown(value) == Probed /\ reachable = (value = "online") /\ status # value
StatusFollows == \A value \in {"online", "offline"} : Unshown(value) ~> ~Unshown(value)
ConnectivityHonest == OfflineAfterThreshold /\ CountersAgree
=============================================================================
