--------------------------- MODULE PlaybackPrefetch --------------------------
(***************************************************************************)
(* Warming the next recording of a camera while one is played:              *)
(* services/playback_prefetch.py.  Each request for a recording may arm it: *)
(* a task of its own looks up what comes next and leaves a delayed task     *)
(* behind, which asks the cloud for a direct link shortly before the end.    *)
(* One camera; its recordings are numbered in the order they were made.     *)
(***************************************************************************)
EXTENDS Integers

CONSTANTS Recordings,      \* 1..n, in order
          Tasks            \* 1..m: arming and delayed tasks, in order of creation

Nobody == 0

VARIABLES
    place,       \* of the next recording: [Recordings -> "local" | "cloud" | "nowhere"]
    armed,       \* _armed: recordings armed in the last 30 s
    task,        \* [Tasks -> [at, of, next]]
    tracked,     \* _camera_tasks[camera]
    current,     \* _camera_current[camera]
    links,       \* _direct_links: recordings with a link
    ended,       \* stop() was called
    overlapped   \* history: two lookups were under way at once

prefetchVars == <<place, armed, task, tracked, current, links, ended, overlapped>>

Idle == [at |-> "none", of |-> Nobody, next |-> Nobody]
Live(t) == task[t].at \in {"wait", "warm"}

TypeOK ==
    /\ place \in [Recordings -> {"local", "cloud", "nowhere"}]
    /\ {armed, links} \subseteq SUBSET Recordings
    /\ task \in [Tasks -> [at : {"none", "arm", "look", "wait", "warm", "cancelled", "done"},
                           of : Recordings \cup {Nobody}, next : Recordings \cup {Nobody}]]
    /\ tracked \in Tasks \cup {Nobody}
    /\ current \in Recordings \cup {Nobody} /\ {ended, overlapped} \subseteq BOOLEAN

Init ==
    \* nothing comes before the first, so where it is does not matter
    /\ place \in {f \in [Recordings -> {"local", "cloud", "nowhere"}] : f[1] = "local"}
    /\ armed = {} /\ task = [t \in Tasks |-> Idle]
    /\ tracked = Nobody /\ current = Nobody /\ links = {}
    /\ ended = FALSE /\ overlapped = FALSE

Go(t, at) == task' = [task EXCEPT ![t].at = at]
Over == [Idle EXCEPT !.at = "done"]
Free(t) == task[t].at = "none" /\ \A u \in Tasks : u < t => task[u].at # "none"

\* A request for a recording that is not in the cloud only: arm().
Play(r) ==
    /\ ~ended /\ r \notin armed /\ armed' = armed \cup {r}
    /\ \E t \in Tasks : Free(t) /\ task' = [task EXCEPT ![t] = [Idle EXCEPT !.at = "arm", !.of = r]]
    /\ UNCHANGED <<place, tracked, current, links, ended, overlapped>>

\* 30 seconds later it may be armed again.
Forget(r) ==
    /\ r \in armed /\ armed' = armed \ {r}
    /\ UNCHANGED <<place, task, tracked, current, links, ended, overlapped>>

\* _arm_async: nothing to do when its own task is there; another's is
\* cancelled.
CancelTracked ==
    IF tracked # Nobody /\ Live(tracked)
    THEN [task EXCEPT ![tracked].at = "cancelled"] ELSE task

Arm(t) ==
    /\ task[t].at = "arm"
    /\ IF tracked # Nobody /\ Live(tracked) /\ current = task[t].of
       THEN task' = [task EXCEPT ![t] = Over]
       ELSE task' = [CancelTracked EXCEPT ![t].at = "look"]
    /\ overlapped' = (overlapped \/ \E u \in Tasks : task[u].at = "look")
    /\ UNCHANGED <<place, armed, tracked, current, links, ended>>

\* _next_cloud_only: the first later recording that can be played.  A local
\* one needs no link; one that is nowhere is passed over.
Later(r) == {s \in Recordings : s > r /\ place[s] # "nowhere"}
Following(r) ==
    IF Later(r) = {} THEN Nobody
    ELSE LET s == CHOOSE x \in Later(r) : \A y \in Later(r) : x <= y
         IN IF place[s] = "cloud" THEN s ELSE Nobody

\* The delayed task takes the place of whatever is tracked by then.
Looked(t) ==
    /\ task[t].at = "look" /\ current' = task[t].of
    /\ LET next == Following(task[t].of)
       IN IF next = Nobody
          THEN task' = [task EXCEPT ![t] = Over] /\ UNCHANGED tracked
          ELSE \E u \in Tasks :
                 /\ Free(u) /\ tracked' = u
                 /\ task' = [task EXCEPT ![t] = Over,
                                         ![u] = [at |-> "wait", of |-> task[t].of, next |-> next]]
    /\ UNCHANGED <<place, armed, links, ended, overlapped>>

\* The lookup fails.
LookFails(t) ==
    /\ task[t].at \in {"arm", "look"} /\ task' = [task EXCEPT ![t] = Over]
    /\ UNCHANGED <<place, armed, tracked, current, links, ended, overlapped>>

\* _delayed_warm, 45 s before the end.
Wake(t) ==
    /\ task[t].at = "wait"
    /\ IF current = task[t].of
       THEN Go(t, "warm") /\ UNCHANGED tracked
       ELSE task' = [task EXCEPT ![t] = Over] /\ tracked' = IF tracked = t THEN Nobody ELSE tracked
    /\ UNCHANGED <<place, armed, current, links, ended, overlapped>>

\* A public redirect is kept for two minutes; anything else leaves no link.
Warm(t) ==
    /\ task[t].at = "warm" /\ task' = [task EXCEPT ![t] = Over]
    /\ tracked' = IF tracked = t THEN Nobody ELSE tracked
    /\ links' \in {links, links \cup {task[t].next}}
    /\ UNCHANGED <<place, armed, current, ended, overlapped>>

\* A cancelled task ends at its next step.
Unwind(t) ==
    /\ task[t].at = "cancelled" /\ task' = [task EXCEPT ![t] = Over]
    /\ tracked' = IF tracked = t THEN Nobody ELSE tracked
    /\ UNCHANGED <<place, armed, current, links, ended, overlapped>>

\* cached_direct_link drops a link that has run out, and offers the others.
RunOut(r) ==
    /\ r \in links /\ links' = links \ {r}
    /\ UNCHANGED <<place, armed, task, tracked, current, ended, overlapped>>

\* stop() knows the tracked task only.
Stop ==
    /\ ~ended /\ ended' = TRUE
    /\ task' = CancelTracked /\ tracked' = Nobody /\ current' = Nobody
    /\ UNCHANGED <<place, armed, links, overlapped>>

TaskStep(t) == Arm(t) \/ Looked(t) \/ LookFails(t) \/ Wake(t) \/ Warm(t) \/ Unwind(t)
Next ==
    \/ \E r \in Recordings : Play(r) \/ Forget(r) \/ RunOut(r)
    \/ \E t \in Tasks : TaskStep(t)
    \/ Stop

\* The event loop runs every task; delays and requests to the cloud end.
Spec == Init /\ [][Next]_prefetchVars /\ \A t \in Tasks : WF_prefetchVars(TaskStep(t))

-----------------------------------------------------------------------------
(* A link is only kept for a recording that follows one that may be played  *)
(* and is in the cloud only.  A task that will not be cancelled by the next  *)
(* lookup, or would wait for nothing, comes of two lookups that overlapped   *)
(* or of one that outlived the manager.                                     *)
PrefetchHonest ==
    /\ \A r \in links : place[r] = "cloud" /\ \E p \in Recordings : Following(p) = r
    /\ \A t \in Tasks : task[t].at = "wait" => (t = tracked /\ current = task[t].of) \/ overlapped \/ ended

(* Every task ends, cancelled or not.                                       *)
Unfinished == \E t \in Tasks : task[t].at \notin {"none", "done"}
TasksEnd == Unfinished ~> ~Unfinished
=============================================================================
