-------------------------- MODULE HealthReliability --------------------------
(***************************************************************************)
(* The reliability report: services/health_reliability.py and, over other   *)
(* windows, stability_report.py.  From the samples, recordings and events  *)
(* of a camera it finds the gaps in the footage, blames a cause for each,  *)
(* and passes or fails the camera.                                         *)
(*                                                                         *)
(* Time is in whole minutes, the sampler's interval, from the start of the *)
(* window (0) to Now.  A camera's history is                               *)
(*   [monitored, created, recordings, samples, events, offline]            *)
(* where offline is the runtime's offline_since, or Never.                 *)
(***************************************************************************)
EXTENDS Integers, FiniteSets, FiniteSetsExt

CONSTANTS Now,        \* minutes in the window
          MinGap,     \* _MIN_RECORDING_GAP_SECONDS, in minutes
          Padding,    \* _EVENT_MATCH_PADDING_SECONDS, in minutes
          MaxOutage   \* CRITERIA max_longest_outage_seconds, in minutes

Never == Now + 1
Later(a, b) == IF a >= b THEN a ELSE b
Sooner(a, b) == IF a <= b THEN a ELSE b
Length(i) == i.end - i.start

\* In hundredths of a percent, rounded as round(x, 2) does; None is -1.
Rate(n, d) == IF d <= 0 THEN -1 ELSE (20000 * n + d) \div (2 * d)

\* _clip_interval_seconds
Overlap(start, end) == Later(0, Sooner(end, Now) - Later(start, 0))

ObservationStart(history) == Later(0, history.created)

-----------------------------------------------------------------------------
(* Gaps: diagnose_recording_gaps.  Recordings are clipped to the window and *)
(* merged; what lies between two of the results is a hole.  What precedes  *)
(* the first and follows the last is not looked at.                        *)
Footage(history) ==
    {i \in {[start |-> Later(r.start, ObservationStart(history)), end |-> Sooner(r.end, Now)] :
            r \in history.recordings} : i.end > i.start}

Filmed(history) == UNION {i.start..(i.end - 1) : i \in Footage(history)}

Holes(history) ==
    {h \in [start : {i.end : i \in Footage(history)}, end : {i.start : i \in Footage(history)}] :
        /\ h.start < h.end
        /\ h.start..(h.end - 1) \cap Filmed(history) = {}}

SamplesIn(gap, history) == {s \in history.samples : gap.start <= s.at /\ s.at < gap.end}
Expected(samples) == {s \in samples : s.expected}
Near(t, gap) == gap.start - Padding <= t /\ t <= gap.end + Padding
Overlapping(e, gap) == e.from < gap.end /\ e.to > gap.start

\* What an event, or a sample, explains.
Explained(gap, history) ==
    LET by(code) == {e \in history.events : e.code = code} IN
    (IF \E e \in by("recording.deleted") : Overlapping(e, gap)
     THEN {"manual_deletion"} ELSE {}) \cup
    (IF \E e \in by("recording.segment_processing_failed") : Near(e.from, gap)
     THEN {"segment_processing_failed"} ELSE {}) \cup
    (IF \E e \in by("camera.connection_restored") : Overlapping(e, gap)
     THEN {"camera_offline"} ELSE {}) \cup
    (IF \E e \in by("camera.ffmpeg_exited") : Near(e.at, gap)
     THEN {"ffmpeg_failure"} ELSE {}) \cup
    (IF \E e \in by("system.backend_started") : Near(e.at, gap)
     THEN {"backend_restart"} ELSE {}) \cup
    (IF \E s \in Expected(SamplesIn(gap, history)) : ~s.recording
     THEN {"recorder_unavailable"} ELSE {})

Priority == <<"manual_deletion", "segment_processing_failed", "camera_offline",
              "ffmpeg_failure", "backend_restart", "recorder_unavailable", "unknown">>

\* _diagnose_gap_cause; "none" when recording was not expected in the gap.
\* Mutant: whether recording was expected is not asked.
CauseAnyway(gap, history) ==
    LET causes == Explained(gap, history) \cup {"unknown"} IN
    Priority[CHOOSE i \in 1..7 : Priority[i] \in causes /\ \A j \in 1..(i - 1) : Priority[j] \notin causes]
Cause(gap, history) ==
    LET sampled == SamplesIn(gap, history)
        causes == Explained(gap, history) \cup {"unknown"} IN
    IF sampled # {} /\ Expected(sampled) = {} THEN "none"
    ELSE Priority[CHOOSE i \in 1..7 :
                    Priority[i] \in causes /\ \A j \in 1..(i - 1) : Priority[j] \notin causes]

Confidence(cause) ==
    IF cause = "unknown" THEN "low"
    ELSE IF cause \in {"backend_restart", "recorder_unavailable"} THEN "medium" ELSE "high"

Gaps(history) ==
    {[start |-> h.start, end |-> h.end, cause |-> Cause(h, history)] :
        h \in {k \in Holes(history) : Length(k) >= MinGap /\ Cause(k, history) # "none"}}

-----------------------------------------------------------------------------
(* Outages: restored connections, and the one that lasts.                  *)
Outages(history) ==
    {o \in {[since |-> e.from, minutes |-> Overlap(e.from, e.to)] :
             e \in {x \in history.events : x.code = "camera.connection_restored"}}
           \cup (IF history.offline = Never THEN {}
                 ELSE {[since |-> history.offline, minutes |-> Overlap(history.offline, Now)]}) :
     o.minutes > 0}

LongestOutage(history) == Max({o.minutes : o \in Outages(history)} \cup {0})

Count(history, code) == Cardinality({e \in history.events : e.code = code})

MaxFfmpegFailures(hours) == Later(1, (3 * hours) \div 24)

\* Of the recordings made in the window, those that are whole.
Complete(history) == {r \in history.recordings : r.start >= 0 /\ r.whole}

\* _verdict: [verdict, reasons]
Verdict(coverage, availability, completeness, longest, streaks, failures, maxFailures, gaps) ==
    LET reasons ==
          (IF availability < 9950 THEN {"availability"} ELSE {}) \cup
          (IF completeness < 9950 THEN {"completeness"} ELSE {}) \cup
          (IF gaps > 0 THEN {"gaps"} ELSE {}) \cup
          (IF longest > MaxOutage THEN {"outage"} ELSE {}) \cup
          (IF streaks > 0 THEN {"streak"} ELSE {}) \cup
          (IF failures > maxFailures THEN {"failures"} ELSE {}) IN
    IF coverage < 9500 THEN [verdict |-> "collecting", reasons |-> {"coverage"}]
    ELSE IF availability = -1 \/ completeness = -1
    THEN [verdict |-> "collecting", reasons |-> {"incomplete"}]
    ELSE [verdict |-> IF reasons = {} THEN "pass" ELSE "fail", reasons |-> reasons]

\* camera_reliability_row, with the loop that feeds it.  The coverage counts
\* every minute of the window, scheduled or not.
Row(history, hours) ==
    LET sampled == Expected(history.samples)
        online == {s \in sampled : s.recording}
        gaps == IF history.monitored THEN Gaps(history) ELSE {}
        coverage == Sooner(10000,
            Rate(Cardinality(sampled), Later(1, Now - ObservationStart(history))))
        verdict == Verdict(coverage, Rate(Cardinality(online), Cardinality(sampled)),
            Rate(Cardinality(Complete(history)),
                 Cardinality({r \in history.recordings : r.start >= 0})),
            LongestOutage(history), Count(history, "camera.ffmpeg_failure_streak"),
            Count(history, "camera.ffmpeg_exited"), MaxFfmpegFailures(hours),
            Cardinality(gaps)) IN
    [monitored |-> history.monitored, gaps |-> gaps,
     longest |-> LongestOutage(history), coverage |-> coverage,
     verdict |-> IF history.monitored THEN verdict.verdict ELSE "ignored",
     reasons |-> IF history.monitored
                 THEN verdict.reasons \cup {g.cause : g \in gaps} ELSE {}]

\* _issue_for_diagnostic, or else _issue_for_camera
Issues(row) ==
    IF row.gaps # {}
    THEN {[kind |-> "recording_gap", severity |-> IF g.cause = "unknown" THEN "warning" ELSE "error",
           at |-> g.start] : g \in row.gaps}
    ELSE IF row.verdict \in {"fail", "collecting"}
    THEN {[kind |-> "camera_reliability",
           severity |-> IF row.verdict = "fail" THEN "error" ELSE "warning", at |-> Never]}
    ELSE {}

Overall(rows) ==
    IF \E r \in rows : r.verdict = "fail" THEN "fail"
    ELSE IF (\A r \in rows : ~r.monitored) \/ (\E r \in rows : r.verdict = "collecting")
    THEN "collecting" ELSE "pass"

\* health_reliability: one bounded load, a row for each camera, a headline
\* and the list of issues.
HealthReport(histories, hours) ==
    IF hours \notin {24, 72} THEN [overall |-> "refused", rows |-> {}, issues |-> {}]
    ELSE LET rows == {Row(h, hours) : h \in histories} IN
         [overall |-> Overall(rows), rows |-> rows,
          issues |-> UNION {Issues(r) : r \in rows}]

\* build_health_reliability_report: the same loop once more, for the older
\* endpoint, over any window of up to a week.
Stability(histories, hours) ==
    IF hours \notin 1..168 THEN [overall |-> "refused", rows |-> {}]
    ELSE LET rows == {Row(h, hours) : h \in histories} IN
         [overall |-> Overall(rows), rows |-> rows]

\* What cli/stability_check.py makes of it: a backend that has not been up
\* for the whole window is still collecting, unless it fails.
EffectiveVerdict(verdict, upForWindow, ignoreUptime) ==
    IF verdict = "fail" \/ ignoreUptime \/ upForWindow THEN verdict ELSE "collecting"

ExitCode(histories, hours, upForWindow, ignoreUptime) ==
    LET report == Stability(histories, hours)
        verdict == EffectiveVerdict(report.overall, upForWindow, ignoreUptime) IN
    CASE report.overall = "refused" -> 3
      [] report.overall # "refused" /\ verdict = "pass" -> 0
      [] verdict = "fail" -> 1
      [] verdict = "collecting" -> 2

-----------------------------------------------------------------------------
(* The history that the rest of the program writes of a story, which tells *)
(* for each minute what happened:                                          *)
(*   "ok"       recorded           "damaged"  recorded, unhealthy           *)
(*   "lost"     its processing failed   "deleted"  deleted by hand         *)
(*   "down"     the camera unreachable  "off"      the backend not running *)
(*   "idle"     outside the camera's weekly windows                         *)
Kinds == {"ok", "damaged", "lost", "deleted", "down", "off", "idle"}
Minutes == 0..(Now - 1)
Begins(story, t, kind) == story[t] = kind /\ (t = 0 \/ story[t - 1] # kind)
\* where the run of minutes like t that contains t begins
RunStart(story, t) == CHOOSE s \in 0..t :
    (\A u \in s..t : story[u] = story[t]) /\ (s = 0 \/ story[s - 1] # story[t])

\* HealthSampler.sample_once, once a minute
Sampled(story) ==
    {[at |-> t, expected |-> story[t] # "idle", recording |-> story[t] \notin {"idle", "down"}] :
        t \in {u \in Minutes : story[u] # "off"}}

Written(story) ==
    LET event(code, at, from, to) == [code |-> code, at |-> at, from |-> from, to |-> to]
        recovered(t) == t > 0 /\ story[t - 1] = "down" /\ story[t] \notin {"down", "off", "idle"} IN
    {event("recording.deleted", Now, t, t + 1) : t \in {u \in Minutes : story[u] = "deleted"}} \cup
    {event("recording.segment_processing_failed", t + 1, t, t + 1) :
        t \in {u \in Minutes : story[u] = "lost"}} \cup
    {event("camera.ffmpeg_exited", t, t, t) : t \in {u \in Minutes : Begins(story, u, "down")}} \cup
    {event("camera.connection_restored", t, RunStart(story, t - 1), t) :
        t \in {u \in Minutes : recovered(u)}} \cup
    {event("system.backend_started", t, t, t) :
        t \in {u \in Minutes : u > 0 /\ story[u - 1] = "off" /\ story[u] # "off"}}

HistoryOf(story, created) ==
    [monitored |-> TRUE, created |-> created,
     recordings |-> {[start |-> t, end |-> t + 1, whole |-> story[t] = "ok"] :
                       t \in {u \in Minutes : story[u] \in {"ok", "damaged"}}},
     samples |-> Sampled(story), events |-> Written(story),
     offline |-> IF story[Now - 1] = "down" THEN RunStart(story, Now - 1) ELSE Never]

-----------------------------------------------------------------------------
Missing == {"lost", "deleted", "down", "off"}
Between(history, t) ==
    (\E u \in Filmed(history) : u < t) /\ (\E u \in Filmed(history) : u > t)

\* Around t there is a hole in which nothing should have been recorded, as far
\* as the samples taken in it tell.
OutsideWindows(story, history, t) ==
    \E h \in Holes(history) :
        /\ t \in h.start..(h.end - 1)
        /\ \A u \in h.start..(h.end - 1) : story[u] \in {"off", "idle"}

(* A reported gap holds no footage and a minute that should have been       *)
(* recorded; and a minute that should have been recorded, between two that  *)
(* were, is in a reported gap, unless the backend was off in it and every  *)
(* sample of the hole around it was taken outside the weekly windows.      *)
GapsFound(story, created) ==
    LET history == HistoryOf(story, created)
        gaps == Gaps(history)
        reported == UNION {g.start..(g.end - 1) : g \in gaps} IN
    /\ reported \cap Filmed(history) = {}
    /\ \A g \in gaps : \E t \in g.start..(g.end - 1) : story[t] \in Missing
    /\ \A t \in created..(Now - 1) :
          /\ story[t] \in Missing /\ Between(history, t) /\ t \notin reported
          => story[t] = "off" /\ OutsideWindows(story, history, t)

(* The cause blamed for a gap happened in it or no further from it than the *)
(* padding, no deletion inside it is missed, and none is left unknown.      *)
CausesTrue(story, created) ==
    LET history == HistoryOf(story, created)
        kind == [manual_deletion |-> "deleted", segment_processing_failed |-> "lost",
                 camera_offline |-> "down", ffmpeg_failure |-> "down",
                 recorder_unavailable |-> "down", backend_restart |-> "off"] IN
    \A g \in Gaps(history) :
        LET happened(from, to) == {story[t] : t \in from..to \cap Minutes} IN
        /\ g.cause # "unknown"
        /\ kind[g.cause] \in happened(g.start - Padding - 1, g.end + Padding)
        /\ "deleted" \in happened(g.start, g.end - 1) => g.cause = "manual_deletion"
        /\ happened(g.start, g.end - 1) = {"off"} => Confidence(g.cause) # "low"

(* What a camera that passes has earned.  Of its minutes in the window at   *)
(* most 5% were not sampled as expected (outside its weekly windows, too:   *)
(* windows much shorter than the day never pass), of those it was down in   *)
(* 0.5%, and of what was recorded 0.5% is damaged, up to the rounding.      *)
(* Nothing is missing between two recordings but what the backend was off   *)
(* for outside the weekly windows; what was lost or deleted at an end of    *)
(* the window shows in no gap and no count.  And an outage after which the  *)
(* camera records, or that lasts, was no longer than allowed.               *)
PassEarned(story, created) ==
    LET history == HistoryOf(story, created)
        life == created..(Now - 1)
        minutes(kinds) == Cardinality({t \in life : story[t] \in kinds})
        watched == minutes(Kinds \ {"off", "idle"}) IN
    Row(history, 24).verdict = "pass" =>
        /\ 20000 * minutes({"off", "idle"}) <= 1001 * Cardinality(life)
        /\ 20000 * minutes({"down"}) <= 101 * watched
        /\ 20000 * minutes({"damaged"}) <= 101 * minutes({"ok", "damaged"})
        /\ \A t \in life : story[t] \in Missing /\ Between(history, t) =>
              story[t] = "off" /\ OutsideWindows(story, history, t)
        /\ \A s, t \in life :
              /\ s <= t /\ \A u \in s..t : story[u] = "down"
              /\ t = Now - 1 \/ story[t + 1] \notin {"down", "off", "idle"}
              => t - s < MaxOutage

(* The page's headline agrees with its list: nothing is listed when all     *)
(* pass, and whoever fails or is still collecting is listed; the script     *)
(* that reads the other report for the same hours exits with 0 only then,  *)
(* and with 1 whatever the uptime when a camera fails.                      *)
HeadlineAgrees(story, created) ==
    LET history == HistoryOf(story, created)
        idle == [history EXCEPT !.monitored = FALSE]
        report == HealthReport({history, idle}, 24) IN
    /\ report.overall = Row(history, 24).verdict
    /\ report.issues = {} <=> report.overall = "pass"
    /\ report.overall = "fail" => \E i \in report.issues : i.severity = "error"
    /\ \A ignore \in BOOLEAN :
          LET up == \A t \in Minutes : story[t] # "off"
              code == ExitCode({history, idle}, 24, up, ignore) IN
          /\ code = 0 <=> report.issues = {} /\ (up \/ ignore)
          /\ code = 1 <=> report.overall = "fail"
=============================================================================
