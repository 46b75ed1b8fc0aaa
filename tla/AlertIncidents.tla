--------------------------- MODULE AlertIncidents ---------------------------
(***************************************************************************)
(* Incidents of the whole system and their mails: services/alert_monitor.py *)
(* (check_once: cleanup events, disk, uploads), alert_dispatcher.py (one    *)
(* mail per incident) and email_notifier.py.  The streaks of one camera's   *)
(* FFmpeg are OutageAlert's.                                               *)
(*                                                                         *)
(* Check_once runs its three parts in order; reading settings, the disk or  *)
(* the database may raise anywhere, which ends the round: the next one      *)
(* starts anew, but the event being handled counts as seen.                *)
(***************************************************************************)
EXTENDS Integers, Sequences

CONSTANTS Warning, Critical, Full,   \* percentages: storage settings and the largest
          MaxEvents,                 \* bound: results of emergency cleanups
          MaxRaises                  \* bound: rounds that end in an exception

Keys == {"cleanup", "critical", "upload"}

VARIABLES
    used,       \* used_percent of the disk
    archiving,  \* upload_enabled
    failing,    \* some upload task has failed
    mailable,   \* mail is enabled and configured
    cleanups,   \* results of cleanups after _last_event_id
    stage,      \* part of check_once under way
    active,     \* _active
    mailed,     \* history: keys whose last mail was an alert
    calm,       \* history: keys found well since their last alert
    flooded,    \* history: an alert was mailed twice without a calm between
    unasked,    \* history: a recovery was mailed without an alert before
    results, raises

outside == <<used, archiving, failing, mailable>>
incidentHistory == <<mailed, calm, flooded, unasked>>
incidentVars == <<outside, cleanups, stage, active, incidentHistory, results, raises>>

TypeOK ==
    /\ used \in 0..Full
    /\ {archiving, failing, mailable, flooded, unasked} \subseteq BOOLEAN
    /\ cleanups \in Seq({"blocked", "failed", "completed"})
    /\ stage \in {"rest", "events", "storage", "recovered", "uploads"}
    /\ active \subseteq Keys /\ mailed \subseteq Keys /\ calm \subseteq Keys
    /\ results \in 0..MaxEvents /\ raises \in 0..MaxRaises

Init ==
    /\ used \in {0, Critical} /\ archiving = TRUE /\ failing = FALSE /\ mailable = TRUE
    /\ cleanups = <<>> /\ stage = "rest" /\ active = {}
    /\ mailed = {} /\ calm = Keys
    /\ flooded = FALSE /\ unasked = FALSE
    /\ results = 0 /\ raises = 0

DiskState == IF used >= Critical THEN "critical" ELSE IF used >= Warning THEN "warning" ELSE "healthy"

-----------------------------------------------------------------------------
(* The world                                                               *)
Disk ==
    /\ used' \in {used - 1, used + 1} \cap 0..Full
    /\ UNCHANGED <<archiving, failing, mailable, cleanups, stage, active, incidentHistory,
                   results, raises>>

Uploads ==
    /\ \/ failing' = ~failing /\ UNCHANGED archiving
       \/ archiving' = ~archiving /\ UNCHANGED failing
    /\ UNCHANGED <<used, mailable, cleanups, stage, active, incidentHistory, results, raises>>

EditMail ==
    /\ mailable' = ~mailable
    /\ UNCHANGED <<used, archiving, failing, cleanups, stage, active, incidentHistory,
                   results, raises>>

Cleanup ==
    /\ used >= Critical /\ results < MaxEvents
    /\ results' = results + 1
    /\ \E r \in {"blocked", "failed", "completed"} : cleanups' = Append(cleanups, r)
    /\ UNCHANGED <<outside, stage, active, incidentHistory, raises>>

-----------------------------------------------------------------------------
(* AlertDispatcher                                                         *)
\* The mail is attempted whether or not it gets through.
Alert(key) ==
    IF mailable /\ key \notin active
    THEN /\ active' = active \cup {key}
         /\ mailed' = mailed \cup {key} /\ calm' = calm \ {key}
         /\ flooded' = (flooded \/ key \notin calm)
         /\ UNCHANGED unasked
    ELSE UNCHANGED <<active, mailed, calm, flooded, unasked>>

Well(keys) == calm' = calm \cup keys

Clear(key) == active' = active \ {key} /\ UNCHANGED <<mailed, flooded, unasked>>

Announce(key) ==
    /\ active' = active \ {key} /\ mailed' = mailed \ {key}
    /\ unasked' = (unasked \/ (mailable /\ key \notin mailed))
    /\ UNCHANGED flooded

\* notify_recovery may be off as well.
Recover(key) ==
    IF key \in active THEN Announce(key) ELSE UNCHANGED <<active, mailed, flooded, unasked>>

-----------------------------------------------------------------------------
(* AlertMonitor.check_once                                                 *)
Goto(s) == stage' = s

Begin ==
    /\ stage = "rest" /\ Goto("events")
    /\ UNCHANGED <<outside, cleanups, active, incidentHistory, results, raises>>

ProcessEvent ==
    /\ stage = "events"
    /\ IF cleanups = <<>>
       THEN Goto("storage") /\ UNCHANGED <<cleanups, active, mailed, calm, flooded, unasked>>
       ELSE /\ cleanups' = Tail(cleanups) /\ UNCHANGED stage
            /\ IF Head(cleanups) = "completed"
               THEN Clear("cleanup") /\ Well({"cleanup"})
               ELSE Alert("cleanup")
    /\ UNCHANGED <<outside, results, raises>>

\* Between the two marks nothing changes.  Recover says whether its mail was
\* sent.
CheckStorage ==
    /\ stage = "storage"
    /\ CASE DiskState = "critical" -> Alert("critical") /\ Goto("uploads")
         [] used <= Warning ->
              /\ Recover("critical") /\ Well({"critical"})
              /\ \E sent \in {"critical" \in active /\ mailable, FALSE} :
                   Goto(IF sent \/ DiskState = "healthy" THEN "recovered" ELSE "uploads")
         [] OTHER -> Goto("uploads") /\ UNCHANGED <<active, mailed, calm, flooded, unasked>>
    /\ UNCHANGED <<outside, cleanups, results, raises>>

ClearCleanup ==
    /\ stage = "recovered" /\ Goto("uploads")
    /\ Clear("cleanup") /\ Well({"cleanup"})
    /\ UNCHANGED <<outside, cleanups, results, raises>>

CheckUploads ==
    /\ stage = "uploads" /\ Goto("rest")
    /\ CASE ~archiving -> Clear("upload") /\ Well({"upload"})
         [] archiving /\ failing -> Alert("upload")
         [] OTHER -> Recover("upload") /\ Well({"upload"})
    /\ UNCHANGED <<outside, cleanups, results, raises>>

\* An exception ends the round; an event that was being handled is over.
Raise ==
    /\ stage # "rest" /\ raises < MaxRaises
    /\ raises' = raises + 1 /\ Goto("rest")
    /\ IF stage = "events" /\ cleanups # <<>>
       THEN cleanups' = Tail(cleanups)
       ELSE UNCHANGED cleanups
    /\ UNCHANGED <<outside, active, mailed, calm, flooded, unasked, results>>

World == Disk \/ Uploads \/ EditMail \/ Cleanup
Round == Begin \/ ProcessEvent \/ CheckStorage \/ ClearCleanup \/ CheckUploads
Next == World \/ Round \/ Raise

\* The monitor polls every 30 seconds.
Spec == Init /\ [][Next]_incidentVars /\ WF_incidentVars(Round)

-----------------------------------------------------------------------------
(* One alert mail per incident: a disk that hovers below its critical mark, *)
(* cleanups that keep failing and settings edited meanwhile do not repeat   *)
(* it before the monitor has found the trouble over.                       *)
OneMailPerIncident == ~flooded

(* A recovery is only announced to those who were told of the trouble.      *)
RecoveryWasAnnounced == ~unasked

(* While mail is on, uploads that stay failed are alerted, however often a  *)
(* round of the monitor ends in an exception before it reaches them.       *)
Unalerted == failing /\ archiving /\ mailable /\ "upload" \notin active
FailedUploadsAlerted == Unalerted ~> ~Unalerted

IncidentsHonest == OneMailPerIncident /\ RecoveryWasAnnounced
=============================================================================
