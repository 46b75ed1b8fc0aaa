---------------------------- MODULE OutageAlert ----------------------------
(***************************************************************************)
(* What a camera's outages and failures make known, for one camera:         *)
(*   services/recorder_manager.py   CameraWorker's outage, recovery and     *)
(*                                  stability tasks beside its loop         *)
(*   services/alert_monitor.py      reads the events of failure streaks     *)
(*   services/alert_dispatcher.py   one mail per incident                   *)
(*   services/email_notifier.py     a mail that fails is an event           *)
(*                                                                         *)
(* A step is the code between two awaits.  Who starts and stops the worker  *)
(* and the race of spawn and stop are CameraRecorder's.  A read or write of *)
(* the database may fail: every caller here goes on without it.            *)
(***************************************************************************)
EXTENDS Integers, Sequences

CONSTANTS Threshold,    \* failures in a row that make a streak
          MaxExits,     \* bound: failures and exits of FFmpeg
          MaxStops,     \* bound: stops of the worker
          MaxFaults     \* bound: failures of the database

VARIABLES
    loop,       \* where _run_loop is
    stopping,   \* stop_requested
    alive,      \* its FFmpeg runs
    failures,   \* consecutive_failure_count, up to Threshold
    streak,     \* failure_streak_alert_active
    offline,    \* offline_since is set
    alerted,    \* offline_alert_active
    alert, recovery, stability,   \* where the three tasks are
    mailing,    \* mail is enabled and configured
    unseen,     \* streak events after _last_event_id
    incident,   \* the dispatcher has the camera's streak as active
    told,       \* history: camera.offline events of this outage
    hushed,     \* history: a streak ended without a ffmpeg_stable event
    withheld,   \* history: a streak was not mailed as one was active
    exits, stops, faults

worker == <<loop, stopping, alive, failures, streak, offline, alerted>>
tasks == <<alert, recovery, stability>>
dispatch == <<mailing, unseen, incident, withheld>>
alertCounts == <<exits, stops, faults>>
alertVars == <<worker, tasks, dispatch, told, hushed, alertCounts>>

TypeOK ==
    /\ loop \in {"off", "spawn", "up", "exited", "lost", "check", "streak", "backoff"}
    /\ {stopping, alive, streak, offline, alerted, mailing, incident, hushed, withheld}
         \subseteq BOOLEAN
    /\ failures \in 0..Threshold
    /\ alert \in {"none", "load", "sleep", "reload", "record", "send"}
    /\ recovery \in {"none", "load", "sleep", "restored", "wasAlerted", "recovered", "send"}
    /\ stability \in {"none", "sleep", "record"}
    /\ unseen \in Seq({"streak", "stable"}) /\ told \in Nat
    /\ exits \in 0..MaxExits /\ stops \in 0..MaxStops /\ faults \in 0..MaxFaults

Init ==
    /\ loop = "off" /\ stopping = FALSE /\ alive = FALSE /\ failures = 0
    /\ streak = FALSE /\ offline = FALSE /\ alerted = FALSE
    /\ alert = "none" /\ recovery = "none" /\ stability = "none"
    /\ mailing \in BOOLEAN /\ unseen = <<>> /\ incident = FALSE
    /\ told = 0 /\ hushed = FALSE /\ withheld = FALSE
    /\ exits = 0 /\ stops = 0 /\ faults = 0

\* A database access: it works, or a fault is spent.
Works == UNCHANGED faults
Breaks == faults < MaxFaults /\ faults' = faults + 1

-----------------------------------------------------------------------------
(* The worker's loop.                                                      *)
Start ==
    /\ loop = "off"
    /\ loop' = "spawn" /\ stopping' = FALSE /\ failures' = 0 /\ streak' = FALSE
    /\ offline' = FALSE /\ alerted' = FALSE
    /\ alert' = "none" /\ recovery' = "none" /\ stability' = "none"
    /\ UNCHANGED <<alive, dispatch, told, hushed, alertCounts>>

Grown == IF failures < Threshold THEN failures + 1 ELSE failures

SpawnFails ==
    /\ loop = "spawn" /\ ~stopping /\ exits < MaxExits
    /\ exits' = exits + 1
    /\ failures' = Grown /\ loop' = "exited"
    /\ UNCHANGED <<stopping, alive, streak, offline, alerted, tasks, dispatch, told,
                   hushed, stops, faults>>

\* FFmpeg runs: recovery from an outage and stability are to be confirmed.
Spawned ==
    /\ loop = "spawn" /\ ~stopping
    /\ loop' = "up" /\ alive' = TRUE
    /\ recovery' = IF offline THEN "load" ELSE "none"
    /\ stability' = "sleep"
    /\ UNCHANGED <<stopping, failures, streak, offline, alerted, alert, dispatch, told,
                   hushed, alertCounts>>

Exit ==
    /\ alive /\ exits < MaxExits
    /\ alive' = FALSE /\ exits' = exits + 1
    /\ UNCHANGED <<loop, stopping, failures, streak, offline, alerted, tasks, dispatch,
                   told, hushed, stops, faults>>

\* The loop learns of it and cancels both confirmations.  After 60 seconds the
\* count starts anew, whether or not the stability task has come to say so.
Noticed ==
    /\ loop = "up" /\ ~alive /\ ~stopping
    /\ \E long \in BOOLEAN :
         /\ stability # "sleep" => long
         /\ failures' = IF long THEN 1 ELSE Grown
         /\ streak' = (streak /\ ~long)
         /\ hushed' = (hushed \/ (long /\ streak) \/ stability = "record")
    /\ recovery' = "none" /\ stability' = "none"
    /\ loop' = "exited"
    /\ UNCHANGED <<stopping, alive, offline, alerted, alert, dispatch, told, alertCounts>>

\* _mark_disconnected: an outage begins, and its event is written; an alert is
\* scheduled unless one is.
MarkDisconnected ==
    /\ loop = "exited"
    /\ IF stopping
       THEN loop' = "check" /\ UNCHANGED <<offline, alert, told>>
       ELSE IF ~offline
       THEN offline' = TRUE /\ told' = 0 /\ loop' = "lost" /\ UNCHANGED alert
       ELSE /\ loop' = "check" /\ alert' = IF alert = "none" THEN "load" ELSE alert
            /\ UNCHANGED <<offline, told>>
    /\ UNCHANGED <<stopping, alive, failures, streak, alerted, recovery, stability,
                   dispatch, hushed, alertCounts>>

ScheduleAlert ==
    /\ loop = "lost"
    /\ loop' = "check" /\ alert' = IF alert = "none" THEN "load" ELSE alert
    /\ UNCHANGED <<stopping, alive, failures, streak, offline, alerted, recovery,
                   stability, dispatch, told, hushed, alertCounts>>

\* _check_failure_streak: the flag is set, then the event written.
CheckStreak ==
    /\ \/ /\ loop = "check"
          /\ streak' = (streak \/ failures = Threshold)
          /\ loop' = IF failures = Threshold /\ ~streak THEN "streak" ELSE "backoff"
          /\ UNCHANGED <<unseen, hushed, faults>>
       \/ /\ loop = "streak" /\ loop' = "backoff" /\ UNCHANGED streak
          /\ \/ Works /\ unseen' = Append(unseen, "streak") /\ UNCHANGED hushed
             \/ Breaks /\ UNCHANGED <<unseen, hushed>>
    /\ UNCHANGED <<stopping, alive, failures, offline, alerted, tasks, mailing, incident,
                   withheld, told, exits, stops>>

Again ==
    /\ loop = "backoff" /\ ~stopping
    /\ loop' = "spawn"
    /\ UNCHANGED <<stopping, alive, failures, streak, offline, alerted, tasks, dispatch,
                   told, hushed, alertCounts>>

\* stop(): flags and tasks go before anything is awaited.
Stop ==
    /\ loop # "off" /\ ~stopping /\ stops < MaxStops
    /\ stops' = stops + 1
    /\ stopping' = TRUE /\ offline' = FALSE /\ alerted' = FALSE
    /\ alert' = "none" /\ recovery' = "none" /\ stability' = "none"
    /\ hushed' = (hushed \/ stability = "record")
    /\ UNCHANGED <<loop, alive, failures, streak, dispatch, told, exits, faults>>

\* The loop comes to its end and cancels the tasks, or is cancelled itself.
Stopped ==
    /\ stopping /\ loop # "off"
    /\ loop' = "off" /\ alive' = FALSE /\ hushed' = (hushed \/ streak)
    /\ \/ alert' = "none"
       \/ loop \in {"backoff", "check", "streak"} /\ UNCHANGED alert
    /\ UNCHANGED <<stopping, failures, streak, offline, alerted, recovery, stability,
                   dispatch, told, alertCounts>>

-----------------------------------------------------------------------------
(* _offline_alert_after_delay                                              *)
AlertAt(p) == alert' = p
AlertKeeps == UNCHANGED <<loop, stopping, alive, failures, streak, offline, recovery,
                          stability, dispatch, hushed, exits, stops>>

AlertUnless(dropped) ==
    /\ \/ /\ alert \in {"load", "reload"}
          /\ \/ Breaks /\ AlertAt("none") /\ UNCHANGED alerted
             \/ /\ Works
                /\ alerted' = (alerted \/ alert = "reload")
                /\ AlertAt(IF alert = "load" THEN "sleep" ELSE "record")
          /\ UNCHANGED told
       \/ /\ alert = "sleep"
          /\ AlertAt(IF dropped THEN "none" ELSE "reload")
          /\ UNCHANGED <<alerted, told, faults>>
       \/ /\ alert = "record"
          /\ \/ Works /\ told' = told + 1
             \/ Breaks /\ UNCHANGED told
          /\ AlertAt(IF mailing THEN "send" ELSE "none") /\ UNCHANGED alerted
       \/ alert = "send" /\ AlertAt("none") /\ UNCHANGED <<alerted, told, faults>>
    /\ AlertKeeps

\* Mutant: the alert does not look whether the outage is over.
AlertAnyway == AlertUnless(FALSE)
OfflineAlert == AlertUnless(stopping \/ ~offline \/ alerted)

(* _confirm_recovery: the same FFmpeg has run for recovery_stable_seconds.  *)
Confirmable == ~stopping /\ alive /\ offline

ConfirmRecovery ==
    /\ \/ /\ recovery = "load" /\ UNCHANGED <<offline, alerted, alert>>
          /\ \/ Works /\ recovery' = "sleep"
             \/ Breaks /\ recovery' = "none"
       \/ /\ recovery = "sleep" /\ ~Confirmable /\ recovery' = "none"
          /\ UNCHANGED <<offline, alerted, alert, faults>>
       \/ /\ recovery = "sleep" /\ Confirmable
          /\ offline' = FALSE /\ alerted' = FALSE /\ alert' = "none"
          /\ recovery' = IF alerted THEN "wasAlerted" ELSE "restored"
          /\ UNCHANGED faults
       \/ /\ recovery = "wasAlerted" /\ recovery' = "recovered"
          /\ UNCHANGED <<offline, alerted, alert, faults>>
       \/ /\ recovery = "recovered" /\ recovery' = IF mailing THEN "send" ELSE "none"
          /\ UNCHANGED <<offline, alerted, alert, faults>>
       \/ /\ recovery \in {"restored", "send"} /\ recovery' = "none"
          /\ UNCHANGED <<offline, alerted, alert, faults>>
    /\ UNCHANGED <<loop, stopping, alive, failures, streak, stability, dispatch, told,
                   hushed, exits, stops>>

(* _confirm_stable_process: it has run for 60 seconds.                     *)
ConfirmStable ==
    /\ \/ /\ stability = "sleep"
          /\ IF stopping \/ ~alive
             THEN stability' = "none" /\ UNCHANGED <<failures, streak>>
             ELSE /\ failures' = 0 /\ streak' = FALSE
                  /\ stability' = IF streak THEN "record" ELSE "none"
          /\ UNCHANGED <<unseen, hushed, faults>>
       \/ /\ stability = "record" /\ stability' = "none" /\ UNCHANGED <<failures, streak>>
          /\ \/ Works /\ unseen' = Append(unseen, "stable") /\ UNCHANGED hushed
             \/ Breaks /\ hushed' = TRUE /\ UNCHANGED unseen
    /\ UNCHANGED <<loop, stopping, alive, offline, alerted, alert, recovery, mailing,
                   incident, withheld, told, exits, stops>>

-----------------------------------------------------------------------------
(* AlertMonitor._process_events with AlertDispatcher.alert and clear: the   *)
(* event counts as seen before its mail is tried, and is not tried again.  *)
Dispatch ==
    /\ unseen # <<>> /\ unseen' = Tail(unseen)
    /\ IF Head(unseen) = "stable"
       THEN incident' = FALSE /\ UNCHANGED withheld
       ELSE /\ incident' = (incident \/ mailing)
            /\ withheld' = (withheld \/ (mailing /\ incident))
    /\ UNCHANGED <<worker, tasks, mailing, told, hushed, alertCounts>>

\* A user edits the notification settings.
SwitchMail ==
    /\ mailing' = ~mailing
    /\ UNCHANGED <<worker, tasks, unseen, incident, withheld, told, hushed, alertCounts>>

LoopStep ==
    \/ Spawned \/ Noticed \/ MarkDisconnected \/ ScheduleAlert \/ CheckStreak \/ Again
    \/ Stopped
TaskStep == OfflineAlert \/ ConfirmRecovery \/ ConfirmStable
Next == Start \/ SpawnFails \/ Exit \/ Stop \/ LoopStep \/ TaskStep \/ Dispatch \/ SwitchMail

\* The tasks run and their delays pass; FFmpeg may fail whenever it likes.
Fairness == WF_alertVars(LoopStep) /\ WF_alertVars(OfflineAlert)
            /\ WF_alertVars(ConfirmRecovery) /\ WF_alertVars(ConfirmStable)
Spec == Init /\ [][Next]_alertVars /\ Fairness

-----------------------------------------------------------------------------
(* The mail's promise "sent once during this outage": one camera.offline    *)
(* event per outage, through reconnections, recoveries cut off and alerts   *)
(* that fail half-way.                                                     *)
OfflineToldOnce == told <= 1

(* A streak's mail is withheld as a repetition only when the end of an      *)
(* earlier streak went unsaid: its worker was stopped, FFmpeg exited at the *)
(* very end of its 60 seconds, or the event was not written.               *)
WithheldExplained == withheld => hushed

(* Once a stop is requested, nothing is reported of the outage any more,    *)
(* though an alert may still be scheduled by the loop after that.          *)
StoppedIsSilent ==
    stopping => /\ ~offline /\ ~alerted /\ recovery = "none" /\ stability = "none"
                /\ alert \in {"none", "load", "sleep"}

AlertsHonest == OfflineToldOnce /\ WithheldExplained /\ StoppedIsSilent

(* An outage is reported or over in the end, even if the database fails     *)
(* once on the way: the alert and the confirmation cover for each other.   *)
Unreported == offline /\ ~alerted /\ faults <= 1
OutageEnds == Unreported ~> ~Unreported
=============================================================================
