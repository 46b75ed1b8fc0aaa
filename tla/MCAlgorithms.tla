---------------------------- MODULE MCAlgorithms ----------------------------
(* Inputs of the pure modules: the first step chooses one, and every        *)
(* property looks at the cases of its own module.                          *)
EXTENDS RecordingWindows, ExportRange

CONSTANTS Now, MinGap, Padding, MaxOutage   \* of HealthReliability

\* Gaps of five seconds count, which is one minute here.
ASSUME HealthAssumption ==
    /\ Now \in Nat \ {0} /\ MinGap \in 0..1 /\ Padding \in Nat /\ MaxOutage \in Nat

VARIABLE case

Health == INSTANCE HealthReliability
Views == INSTANCE HealthViews

\* Three recordings of a camera, one whose processing may not be complete and
\* one whose file may be gone; the range is 2..5 and they may cross its ends.
Lower == 2
Upper == 5
Span == {s \in (0..6) \X (0..6) : s[1] < s[2]}
Row(i, span, ready, file) ==
    [id |-> i, start |-> span[1], end |-> span[2], ready |-> ready, file |-> file]
ExportCase == \E a, b, c \in Span, ready, file \in BOOLEAN :
    case' = <<"export", {Row(1, a, TRUE, TRUE), Row(2, b, ready, TRUE), Row(3, c, TRUE, file)}>>

\* Every story of Now minutes; the camera is there from its start, or from a
\* later minute on.
StoryCase == \E story \in [Health!Minutes -> Health!Kinds], created \in Health!Minutes :
    /\ \A t \in 0..(created - 1) : story[t] = "off"
    /\ case' = <<"story", story, created>>

Camera == [enabled : BOOLEAN, autoRecord : BOOLEAN, plan : Views!Plan,
           link : {"online", "offline", "unknown"}, saved : {"RECORDING", "STOPPED"},
           worker : Views!Worker]
CameraCase == \E c \in Camera, hasWorker \in BOOLEAN :
    /\ Views!Plausible(c) /\ (~hasWorker => c.worker = Views!NoWorker)
    /\ case' = <<"camera", c, hasWorker>>

SamplesCase == \E samples \in SUBSET [camera : {1, 2}, at : 0..2, expected : {TRUE}, online : BOOLEAN] :
    case' = <<"samples", samples>>

\* Any window, beside one that begins on Sunday night.
Window == [days : {Legacy} \cup SUBSET Days,
           start : {Invalid} \cup Minutes, end : {Invalid} \cup Minutes]
Sunday == [days |-> {6}, start |-> 2, end |-> 1]
WindowsCase == \E w \in Window, others \in SUBSET {Sunday}, enabled \in BOOLEAN :
    case' = <<"windows", enabled, {w} \cup others>>

Init == case = <<"none">>
Next == case[1] = "none" /\ (ExportCase \/ StoryCase \/ CameraCase \/ SamplesCase \/ WindowsCase)
Spec == Init /\ [][Next]_case

Is(kind) == case[1] = kind

-----------------------------------------------------------------------------
(* recording_export.py: the groups and the gaps of an export are the        *)
(* requested range, every group is rendered with all of its footage, and    *)
(* what is downloaded holds every group once.                               *)
ExportsRight ==
    Is("export") => /\ RangeTiled(case[2], Lower, Upper)
                    /\ GroupsRendered(case[2], Lower, Upper)
                    /\ NothingUnpacked(case[2], Lower, Upper)

(* health_reliability.py: against what happened, the gaps of a report are   *)
(* those of the footage, their causes are true, who passes has earned it,   *)
(* and the headline agrees with the list.                                  *)
ReportTrue ==
    Is("story") => /\ Health!GapsFound(case[2], case[3]) /\ Health!CausesTrue(case[2], case[3])
                   /\ Health!PassEarned(case[2], case[3]) /\ Health!HeadlineAgrees(case[2], case[3])

(* health_realtime.py, health_monitor.py, health_sampler.py: the parts of   *)
(* the program that tell a camera's present state agree, save the cases     *)
(* HealthViews names, and the timeline adds up.                             *)
ViewsAgree ==
    /\ Is("camera") => /\ Views!SamplesShown(case[2], case[3])
                       /\ Views!SnapshotDiffers(case[2], case[3])
    /\ Is("samples") => \A monitored \in {{1}, {1, 2}} : Views!TimelineAdds(case[2], monitored, 2)

(* recording_schedule.py: the weekly windows mean the minutes they say.     *)
WindowsRight == Is("windows") => WindowsMeant(case[2], case[3])
=============================================================================
