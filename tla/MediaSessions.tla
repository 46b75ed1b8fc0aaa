---------------------------- MODULE MediaSessions ---------------------------
(***************************************************************************)
(* Live previews of one camera and the teardown that has to end them:       *)
(*   services/camera_media_session_registry.py    who has to be closed      *)
(*   services/camera_preview.py, api/cameras.py   one camera as MJPEG       *)
(*   services/preview_wall.py, api/preview_wall.py   a slot of the wall     *)
(*   services/camera_runtime_coordinator.py       stop_all closes them      *)
(*                                                                         *)
(* An MJPEG preview spawns its FFmpeg first and registers afterwards; a     *)
(* slot of the wall registers first and spawns under its closing lock.      *)
(* Either may fall back from the sub stream to the main stream.             *)
(***************************************************************************)
EXTENDS Integers

CONSTANTS Sessions,
          Spares,      \* whether there is a main stream to fall back to: subset of BOOLEAN
          MaxEdits     \* bound: edits of the camera's connection

VARIABLES
    kind,        \* [Sessions -> {"mjpeg", "wall"}]
    at,          \* where the session's request is
    spare,       \* there is a main stream to fall back to
    failed,      \* the wall's stream raised
    leaving,     \* its client has left: its task is cancelled
    source,      \* the revision of the connection it was resolved from
    process,     \* its FFmpeg; "asked" is after SIGTERM
    closed, closeLock,   \* PreviewSession._closed, _close_lock
    registered,  \* the registry's sessions
    teardown,    \* stop_all: [at, left, who, pending]
    revision, previewEdits,
    caught,      \* history: sessions a teardown found in the registry
    cut,         \* history: closes that were cancelled after SIGTERM
    abandoned    \* history: responses never iterated

request == <<at, spare, failed, leaving, source>>
ffmpeg == <<process, closed, closeLock>>
past == <<caught, cut, abandoned>>
camera == <<revision, previewEdits>>
mediaVars == <<kind, request, ffmpeg, registered, teardown, camera, past>>

At == {"idle", "open", "first", "drop", "register", "serve", "start", "spawn", "stream",
       "close", "closing", "unregister", "done", "left"}
Resting == [at |-> "rest", left |-> {}, who |-> {}, pending |-> FALSE]

TypeOK ==
    /\ kind \in [Sessions -> {"mjpeg", "wall"}] /\ at \in [Sessions -> At]
    /\ {spare, failed, leaving, closed} \subseteq [Sessions -> BOOLEAN]
    /\ source \in [Sessions -> 0..MaxEdits]
    /\ process \in [Sessions -> {"none", "live", "asked", "gone"}]
    /\ closeLock \in [Sessions -> {"free", "self", "teardown"}]
    /\ {registered, caught, cut, abandoned} \subseteq SUBSET Sessions
    /\ teardown \in [at : {"rest", "take", "close", "lock", "wait", "commit"},
                     left : SUBSET Sessions, who : SUBSET Sessions, pending : BOOLEAN]
    /\ revision \in 0..MaxEdits /\ previewEdits \in 0..MaxEdits

Init ==
    /\ kind \in [Sessions -> {"mjpeg", "wall"}] /\ at = [s \in Sessions |-> "idle"]
    /\ spare = [s \in Sessions |-> FALSE] /\ failed = spare /\ leaving = spare /\ closed = spare
    /\ source = [s \in Sessions |-> 0] /\ process = [s \in Sessions |-> "none"]
    /\ closeLock = [s \in Sessions |-> "free"] /\ registered = {} /\ teardown = Resting
    /\ revision = 0 /\ previewEdits = 0 /\ caught = {} /\ cut = {} /\ abandoned = {}

Step(s, from, to) == at[s] = from /\ at' = [at EXCEPT ![s] = to]
ProcessIs(s, p) == process' = [process EXCEPT ![s] = p]
Asked(s) == IF process[s] = "live" THEN "asked" ELSE process[s]
Ended(s) == IF process[s] = "asked" THEN "gone" ELSE process[s]

-----------------------------------------------------------------------------
(* Opening                                                                 *)
\* The row is read, and the streams resolved from it.
Ask(s) ==
    /\ Step(s, "idle", IF kind[s] = "mjpeg" THEN "open" ELSE "register")
    /\ source' = [source EXCEPT ![s] = revision]
    /\ \E b \in Spares : spare' = [spare EXCEPT ![s] = b]
    /\ UNCHANGED <<kind, failed, leaving, ffmpeg, registered, teardown, camera, past>>

\* open_mjpeg_preview: FFmpeg, then its first bytes.
OpenProcess(s) ==
    /\ Step(s, "open", "first") /\ ProcessIs(s, "live")
    /\ UNCHANGED <<kind, spare, failed, leaving, source, closed, closeLock, registered, teardown,
                   camera, past>>

FirstChunk(s) ==
    /\ process[s] = "live" /\ Step(s, "first", "register")
    /\ UNCHANGED <<kind, spare, failed, leaving, source, ffmpeg, registered, teardown, camera, past>>

\* Nothing came in time, or the pipe ended.
NoFirstChunk(s) ==
    /\ Step(s, "first", "drop") /\ ProcessIs(s, Asked(s))
    /\ UNCHANGED <<kind, spare, failed, leaving, source, closed, closeLock, registered, teardown,
                   camera, past>>

\* It has exited or was killed; the main stream is next, if there is one.
Dropped(s) ==
    /\ Step(s, "drop", IF spare[s] THEN "open" ELSE "done") /\ ProcessIs(s, Ended(s))
    /\ spare' = [spare EXCEPT ![s] = FALSE]
    /\ UNCHANGED <<kind, failed, leaving, source, closed, closeLock, registered, teardown,
                   camera, past>>

Register(s) ==
    /\ Step(s, "register", IF kind[s] = "mjpeg" THEN "serve" ELSE "start")
    /\ registered' = registered \cup {s}
    /\ UNCHANGED <<kind, spare, failed, leaving, source, ffmpeg, teardown, camera, past>>

\* The response is iterated, unless its client has left before that: then the
\* generator is dropped without having run.
Serve(s) ==
    /\ \/ Step(s, "serve", "stream") /\ UNCHANGED abandoned
       \/ Step(s, "serve", "left") /\ abandoned' = abandoned \cup {s}
    /\ UNCHANGED <<kind, spare, failed, leaving, source, ffmpeg, registered, teardown, camera,
                   caught, cut>>

\* Mutant: a slot spawns without asking whether it was closed.
StartAnyway(s) ==
    /\ closeLock[s] = "free"
    /\ Step(s, "start", "spawn") /\ closeLock' = [closeLock EXCEPT ![s] = "self"]
    /\ UNCHANGED <<kind, spare, failed, leaving, source, process, closed, registered, teardown,
                   camera, past>>

\* WallPreviewSession._start
StartWall(s) ==
    /\ closeLock[s] = "free"
    /\ IF closed[s]
       THEN Step(s, "start", "close") /\ UNCHANGED closeLock
       ELSE Step(s, "start", "spawn") /\ closeLock' = [closeLock EXCEPT ![s] = "self"]
    /\ UNCHANGED <<kind, spare, failed, leaving, source, process, closed, registered, teardown,
                   camera, past>>

Spawned(s) ==
    /\ Step(s, "spawn", "stream") /\ ProcessIs(s, "live")
    /\ closeLock' = [closeLock EXCEPT ![s] = "free"]
    /\ UNCHANGED <<kind, spare, failed, leaving, source, closed, registered, teardown, camera, past>>

-----------------------------------------------------------------------------
(* Streaming and its end                                                   *)
\* The pipe ended, or the wall waited too long for a frame.
StreamEnds(s) ==
    /\ process[s] = "gone" \/ kind[s] = "wall"
    /\ Step(s, "stream", "close")
    /\ failed' = [failed EXCEPT ![s] = kind[s] = "wall" /\ ~closed[s]]
    /\ UNCHANGED <<kind, spare, leaving, source, ffmpeg, registered, teardown, camera, past>>

\* The client leaves and the task is cancelled.  While it spawns, asyncio ends
\* the process that was under way.
ClientLeaves(s) ==
    /\ ~leaving[s] /\ leaving' = [leaving EXCEPT ![s] = TRUE]
    /\ \/ Step(s, "stream", "close") /\ UNCHANGED closeLock
       \/ Step(s, "start", "close") /\ UNCHANGED closeLock
       \/ Step(s, "spawn", "close") /\ closeLock' = [closeLock EXCEPT ![s] = "free"]
    /\ UNCHANGED <<kind, spare, failed, source, process, closed, registered, teardown, camera, past>>

CloseSelf(s) ==
    /\ closeLock[s] = "free"
    /\ IF closed[s]
       THEN Step(s, "close", "unregister") /\ UNCHANGED ffmpeg
       ELSE /\ Step(s, "close", "closing") /\ ProcessIs(s, Asked(s))
            /\ closed' = [closed EXCEPT ![s] = TRUE]
            /\ closeLock' = [closeLock EXCEPT ![s] = "self"]
    /\ UNCHANGED <<kind, spare, failed, leaving, source, registered, teardown, camera, past>>

\* _stop_process: it exits in 2 s, or is killed.
ClosedSelf(s) ==
    /\ Step(s, "closing", "unregister") /\ ProcessIs(s, Ended(s))
    /\ closeLock' = [closeLock EXCEPT ![s] = "free"]
    /\ UNCHANGED <<kind, spare, failed, leaving, source, closed, registered, teardown, camera, past>>

\* A cancelled close is not carried on: the wall's when the client leaves in
\* the middle of it, the response's because its scope cancels every await.
CloseCut(s) ==
    /\ leaving[s] = (kind[s] = "mjpeg")
    /\ \/ /\ Step(s, "closing", "unregister")
          /\ closeLock' = [closeLock EXCEPT ![s] = "free"]
          /\ cut' = IF process[s] = "asked" THEN cut \cup {s} ELSE cut
       \/ /\ Step(s, "close", "unregister") /\ closeLock[s] # "free" /\ UNCHANGED <<closeLock, cut>>
    /\ leaving' = [leaving EXCEPT ![s] = TRUE]
    /\ UNCHANGED <<kind, spare, failed, source, process, closed, registered, teardown, camera,
                   caught, abandoned>>

\* stream_slot goes on with a new session for the main stream; a teardown that
\* is still to close the former one finds that closed.
FallsBack(s) == failed[s] /\ spare[s] /\ ~leaving[s]
Forget(s) ==
    teardown' = [teardown EXCEPT !.left = @ \ {s},
                                 !.at = IF @ = "lock" /\ s \in teardown.who THEN "close" ELSE @]
Unregister(s) ==
    /\ Step(s, "unregister", IF FallsBack(s) THEN "register" ELSE "done")
    /\ registered' = registered \ {s}
    /\ IF FallsBack(s)
       THEN /\ spare' = [spare EXCEPT ![s] = FALSE] /\ failed' = [failed EXCEPT ![s] = FALSE]
            /\ closed' = [closed EXCEPT ![s] = FALSE] /\ ProcessIs(s, "none")
            /\ caught' = caught \ {s} /\ Forget(s)
       ELSE UNCHANGED <<spare, failed, closed, process, caught, teardown>>
    /\ UNCHANGED <<kind, leaving, source, closeLock, camera, cut, abandoned>>

\* FFmpeg exits by itself, because of the camera, or when asked to.
ProcessExits(s) ==
    /\ process[s] \in {"live", "asked"} /\ ProcessIs(s, "gone")
    /\ UNCHANGED <<kind, request, closed, closeLock, registered, teardown, camera, past>>

-----------------------------------------------------------------------------
(* CameraRuntimeCoordinator.stop_all, as far as sessions are concerned       *)
\* An edit and a disabling commit first; a switch of adapter tears down first.
BeginEdit ==
    /\ teardown.at = "rest" /\ previewEdits < MaxEdits /\ previewEdits' = previewEdits + 1
    /\ \E first \in BOOLEAN :
         /\ revision' = IF first THEN revision + 1 ELSE revision
         /\ teardown' = [Resting EXCEPT !.at = "take", !.pending = ~first]
    /\ UNCHANGED <<kind, request, ffmpeg, registered, past>>

\* stop_camera takes the sessions out under the registry's lock.
TakeSessions ==
    /\ teardown.at = "take"
    /\ teardown' = [teardown EXCEPT !.at = "close", !.left = registered]
    /\ registered' = {} /\ caught' = caught \cup registered
    /\ UNCHANGED <<kind, request, ffmpeg, camera, cut, abandoned>>

CloseNext ==
    /\ teardown.at = "close"
    /\ \/ \E s \in teardown.left :
            teardown' = [teardown EXCEPT !.at = "lock", !.left = @ \ {s}, !.who = {s}]
       \/ /\ teardown.left = {}
          /\ teardown' = IF teardown.pending THEN [Resting EXCEPT !.at = "commit"] ELSE Resting
    /\ UNCHANGED <<kind, request, ffmpeg, registered, camera, past>>

CloseIt ==
    /\ teardown.at = "lock"
    /\ \E s \in teardown.who :
         /\ closeLock[s] = "free"
         /\ IF closed[s]
            THEN teardown' = [teardown EXCEPT !.at = "close"] /\ UNCHANGED ffmpeg
            ELSE /\ teardown' = [teardown EXCEPT !.at = "wait"]
                 /\ closed' = [closed EXCEPT ![s] = TRUE] /\ ProcessIs(s, Asked(s))
                 /\ closeLock' = [closeLock EXCEPT ![s] = "teardown"]
    /\ UNCHANGED <<kind, request, registered, camera, past>>

CloseItDone ==
    /\ teardown.at = "wait"
    /\ \E s \in teardown.who :
         ProcessIs(s, Ended(s)) /\ closeLock' = [closeLock EXCEPT ![s] = "free"]
    /\ teardown' = [teardown EXCEPT !.at = "close"]
    /\ UNCHANGED <<kind, request, closed, registered, camera, past>>

CommitSwitch ==
    /\ teardown.at = "commit" /\ teardown' = Resting /\ revision' = revision + 1
    /\ UNCHANGED <<kind, request, ffmpeg, registered, previewEdits, past>>

Closing(s) == CloseSelf(s) \/ ClosedSelf(s) \/ Unregister(s)
Opening(s) ==
    OpenProcess(s) \/ FirstChunk(s) \/ NoFirstChunk(s) \/ Dropped(s) \/ Register(s) \/ Serve(s)
        \/ StartWall(s) \/ Spawned(s)
Connected(s) ==
    Ask(s) \/ Opening(s) \/ StreamEnds(s) \/ ClientLeaves(s) \/ Closing(s) \/ CloseCut(s)
        \/ ProcessExits(s)
Teardown == TakeSessions \/ CloseNext \/ CloseIt \/ CloseItDone \/ CommitSwitch

Next == BeginEdit \/ Teardown \/ \E s \in Sessions : Connected(s)

\* Tasks go on; spawning and the waits of _stop_process have an end, and a
\* read of a pipe that ended returns.
Fairness ==
    /\ WF_mediaVars(Teardown)
    /\ \A s \in Sessions : WF_mediaVars(Opening(s) \/ Closing(s))
    /\ \A s \in Sessions : WF_mediaVars(process[s] = "gone" /\ StreamEnds(s))
Spec == Init /\ [][Next]_mediaVars /\ Fairness

-----------------------------------------------------------------------------
(* No preview a teardown found in the registry keeps its FFmpeg: what still *)
(* shows the camera over its former connection was opening, or falling back *)
(* to the main stream, when the sessions were taken.                        *)
TeardownCloses ==
    \A s \in Sessions :
        teardown.at = "rest" /\ process[s] = "live" /\ source[s] # revision => s \notin caught

(* An FFmpeg whose request is over is either one that was asked to exit and *)
(* whose close was cancelled, or one of a response never iterated, which    *)
(* the next teardown still finds.                                          *)
SessionsAccounted ==
    \A s \in Sessions :
        /\ at[s] = "done" /\ process[s] \in {"live", "asked"} =>
               process[s] = "asked" /\ (s \in cut \/ teardown.at = "wait")
        /\ at[s] = "left" /\ process[s] = "live" =>
               s \in registered \cup teardown.left \cup teardown.who

(* The registry holds no session that has ended.                           *)
RegistryHonest == \A s \in registered : at[s] \notin {"idle", "open", "first", "drop", "done"}

SessionsClosed == TeardownCloses /\ SessionsAccounted /\ RegistryHonest

(* A teardown ends whatever its sessions are doing, and what it has found   *)
(* ends too.                                                               *)
TearingDown == teardown.at # "rest" \/ \E s \in caught : process[s] = "live"
TeardownEnds == TearingDown ~> ~TearingDown
=============================================================================
