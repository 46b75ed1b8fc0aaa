----------------------------- MODULE HealthViews -----------------------------
(***************************************************************************)
(* The present state of the cameras as four parts of the program tell it:  *)
(* the status feed (health_realtime.py), the older snapshot and the trends *)
(* (health_monitor.py), and the minute samples (health_sampler.py).        *)
(*                                                                         *)
(* A camera is [enabled, autoRecord, plan, link, saved, worker]: its       *)
(* schedule state, the monitor's connectivity_status, the persisted        *)
(* recorder_state, and the recorder's worker, NoWorker if there is none.   *)
(***************************************************************************)
EXTENDS Integers, FiniteSets, FiniteSetsExt

RecorderState == {"STOPPED", "STARTING", "RECORDING", "RECONNECTING"}
Plan == {"automatic", "in_window", "scheduled", "manual_override", "manual_paused",
         "probe_required", "error", "disabled"}
NoWorker == [state |-> "STOPPED", pid |-> FALSE, offline |-> FALSE, alert |-> FALSE]
Worker == [state : RecorderState, pid : BOOLEAN, offline : BOOLEAN, alert : BOOLEAN]

\* A stopped worker has no process, an alert is for an outage that lasts, and
\* a camera that is not recorded automatically has no window.
Plausible(c) ==
    /\ c.worker.state = "RECORDING" => c.worker.pid
    /\ c.worker.state = "STOPPED" => c.worker = NoWorker
    /\ c.worker.alert => c.worker.offline
    /\ (c.enabled /\ c.autoRecord) \/ c.plan \in {"disabled", "manual_override", "manual_paused"}
    /\ (c.enabled /\ c.autoRecord) => c.plan # "disabled"
    /\ ~c.enabled => c.plan = "disabled" /\ c.worker = NoWorker

ExpectedStates == {"automatic", "in_window", "manual_override", "probe_required", "error"}

-----------------------------------------------------------------------------
\* recorder_runtime_is_healthy
Healthy(w) == w.state = "RECORDING" /\ w.pid /\ ~w.offline /\ ~w.alert

\* realtime_health_snapshot, a camera's row; hasWorker tells whether the
\* recorder has a worker for it, stopped or not.
RealtimeState(c, hasWorker) == IF hasWorker THEN c.worker.state ELSE c.saved
Realtime(c, hasWorker) ==
    LET link == IF Healthy(c.worker) THEN "online" ELSE c.link
        expected == c.plan \in ExpectedStates
        state == RealtimeState(c, hasWorker) IN
    [state |-> state, link |-> link, expected |-> expected,
     abnormal |-> c.enabled /\ (link = "offline" \/ (expected /\ state # "RECORDING")
                                \/ c.worker.alert)]

\* health_snapshot, a camera's row
Snapshot(c) ==
    LET expected == c.enabled /\ c.autoRecord IN
    [state |-> c.worker.state, expected |-> expected,
     abnormal |-> (expected /\ c.worker.state # "RECORDING") \/ c.worker.alert]

\* HealthSampler.sample_once: a row for each enabled camera; online is NULL,
\* here "none", where no recording is expected.
\* Mutant: the plan is not asked.
SampleByFlag(c) ==
    IF ~c.enabled THEN {}
    ELSE {[expected |-> c.autoRecord, online |-> IF ~c.autoRecord THEN "none"
             ELSE IF c.worker.state = "RECORDING" THEN "yes" ELSE "no"]}
Sample(c) ==
    IF ~c.enabled THEN {}
    ELSE LET expected == c.plan \in ExpectedStates IN
         {[expected |-> expected, online |-> IF ~expected THEN "none"
             ELSE IF c.worker.state = "RECORDING" THEN "yes" ELSE "no"]}

-----------------------------------------------------------------------------
(* health_trends: samples are [camera, at, expected, online].               *)
BucketStart(at, width) == at - (at % width)
Trends(samples, monitored, width) ==
    LET expected == {s \in samples : s.expected} IN
    [overall |-> [samples |-> Cardinality({s \in expected : s.camera \in monitored}),
                  online |-> Cardinality({s \in expected : s.camera \in monitored /\ s.online})],
     timeline |-> {[start |-> b,
                    samples |-> Cardinality({s \in expected : BucketStart(s.at, width) = b}),
                    online |-> Cardinality({s \in expected :
                                              BucketStart(s.at, width) = b /\ s.online})] :
                   b \in {BucketStart(s.at, width) : s \in expected}}]

-----------------------------------------------------------------------------
(* What is sampled now as not recording is shown now as abnormal: later     *)
(* the report fails only whom the page showed.  The exception is a camera   *)
(* the recorder has no worker for whose row still says RECORDING, as a      *)
(* crash leaves it.  And whoever is shown as abnormal while its sample is   *)
(* good is offline or in an outage that lasts.                              *)
SamplesShown(c, hasWorker) ==
    LET shown == Realtime(c, hasWorker) IN
    \A s \in Sample(c) :
        /\ s.online = "no" => shown.abnormal \/ (~hasWorker /\ c.saved = "RECORDING")
        /\ shown.abnormal /\ s.online # "no" =>
              shown.link = "offline" \/ c.worker.alert

(* The older snapshot differs from the feed for an enabled camera only      *)
(* where the weekly plan or a manual action decides, the network is down,   *)
(* or the state is the persisted one: it does not know the plan, and calls *)
(* a camera outside its window abnormal.                                    *)
SnapshotDiffers(c, hasWorker) ==
    LET feed == Realtime(c, hasWorker)
        old == Snapshot(c) IN
    c.enabled /\ feed.abnormal # old.abnormal =>
        \/ c.plan \in {"scheduled", "manual_paused", "manual_override"}
        \/ feed.link = "offline"
        \/ ~hasWorker /\ c.saved # "STOPPED"

(* The buckets of the timeline are a partition of the samples: together     *)
(* they count what all cameras together do, which is what the overall line *)
(* counts only if every camera is monitored.                               *)
TimelineAdds(samples, monitored, width) ==
    LET trends == Trends(samples, monitored, width)
        sum(count(_)) == FoldSet(LAMBDA b, n : n + count(b), 0, trends.timeline) IN
    /\ sum(LAMBDA b : b.samples) = Cardinality({s \in samples : s.expected})
    /\ sum(LAMBDA b : b.online) <= sum(LAMBDA b : b.samples)
    /\ (\A s \in samples : s.expected => s.camera \in monitored) =>
          sum(LAMBDA b : b.online) = trends.overall.online
=============================================================================
