----------------------------- MODULE HikBridge ------------------------------
(***************************************************************************)
(* Streams of HIK cameras, from the backend's request to the device:        *)
(*   api/hik_media.py, services/hik_media_proxy.py   the backend's side      *)
(*   src/hik_bridge/service.py, app.py               the bridge's side       *)
(*                                                                         *)
(* A device grants few logins.  Each stream costs one, from login to logout, *)
(* and the two processes agree by HTTP on when it is to end: the request     *)
(* that reads the stream, a DELETE from the backend, and the bridge's own    *)
(* end may all come at the same time, or not at all.                        *)
(***************************************************************************)
EXTENDS Integers

CONSTANTS Streams,
          QueueSize,    \* queue_size
          MaxFaults     \* bound: requests that fail on their way

VARIABLES
    reader,      \* the backend's request for a stream
    regClosed,   \* HikRegisteredStream._closed
    wanted,      \* the registry still has its closer
    device,      \* "none", "login", "play", "open", "halting", "logout" or "out"
    table,       \* HikBridgeService._sessions
    queued, overflowed,   \* chunks waiting; some were dropped
    consumer,    \* iter_stream: "none", "reading" or "ended"
    stopping,    \* HikBridgeService.stop is under way
    hikFaults,
    unread, unheard   \* history: never iterated; a request of the backend was lost

backendVars == <<reader, regClosed, wanted>>
bridgeVars == <<device, table, queued, overflowed, consumer, stopping>>
hikHistory == <<unread, unheard>>
hikVars == <<backendVars, bridgeVars, hikFaults, hikHistory>>

TypeOK ==
    /\ reader \in [Streams -> {"idle", "create", "register", "serve", "stream", "close",
                               "delete", "unregister", "done", "left"}]
    /\ {regClosed, overflowed} \subseteq [Streams -> BOOLEAN]
    /\ {wanted, table, unread, unheard} \subseteq SUBSET Streams
    /\ device \in [Streams -> {"none", "login", "play", "open", "halting", "logout", "out"}]
    /\ queued \in [Streams -> 0..QueueSize]
    /\ consumer \in [Streams -> {"none", "reading", "ended"}]
    /\ stopping \in BOOLEAN /\ hikFaults \in 0..MaxFaults

Init ==
    /\ reader = [s \in Streams |-> "idle"] /\ regClosed = [s \in Streams |-> FALSE]
    /\ wanted = {}
    /\ device = [s \in Streams |-> "none"] /\ table = {} /\ queued = [s \in Streams |-> 0]
    /\ overflowed = regClosed /\ consumer = [s \in Streams |-> "none"]
    /\ stopping = FALSE /\ hikFaults = 0 /\ unread = {} /\ unheard = {}

Reader(s, from, to) == reader[s] = from /\ reader' = [reader EXCEPT ![s] = to]
Device(s, from, to) == device[s] = from /\ device' = [device EXCEPT ![s] = to]

-----------------------------------------------------------------------------
(* create_stream                                                           *)
\* POST /streams: the bridge logs in, and only then knows the stream.
Create(s) ==
    /\ Reader(s, "idle", "create") /\ ~stopping /\ Device(s, "none", "login")
    /\ UNCHANGED <<regClosed, wanted, table, queued, overflowed, consumer, stopping,
                   hikFaults, hikHistory>>

\* The device refuses the login.
LoginFails(s) ==
    /\ Device(s, "login", "out")
    /\ UNCHANGED <<backendVars, table, queued, overflowed, consumer, stopping, hikFaults, hikHistory>>

LoggedIn(s) ==
    /\ Device(s, "login", "play")
    /\ UNCHANGED <<backendVars, table, queued, overflowed, consumer, stopping, hikFaults, hikHistory>>

\* start_realplay raises: the login is given back.
PlayFails(s) ==
    /\ Device(s, "play", "logout")
    /\ UNCHANGED <<backendVars, table, queued, overflowed, consumer, stopping, hikFaults, hikHistory>>

Playing(s) ==
    /\ Device(s, "play", "open") /\ table' = table \cup {s}
    /\ UNCHANGED <<backendVars, queued, overflowed, consumer, stopping, hikFaults, hikHistory>>

\* The answer arrives; an error, a lost answer or a time limit leave the
\* backend without an id.
Answer(s) ==
    /\ \/ /\ device[s] = "open" /\ Reader(s, "create", "register")
          /\ UNCHANGED <<hikFaults, unheard>>
       \/ /\ device[s] = "out" /\ Reader(s, "create", "done") /\ UNCHANGED <<hikFaults, unheard>>
       \/ /\ hikFaults < MaxFaults /\ hikFaults' = hikFaults + 1
          /\ Reader(s, "create", "done") /\ unheard' = unheard \cup {s}
    /\ UNCHANGED <<regClosed, wanted, bridgeVars, unread>>

-----------------------------------------------------------------------------
(* The backend's request                                                   *)
RegisterStream(s) ==
    /\ Reader(s, "register", "serve") /\ wanted' = wanted \cup {s}
    /\ UNCHANGED <<regClosed, bridgeVars, hikFaults, hikHistory>>

\* GET /streams/{id}/media, unless the client has left before the response
\* was iterated.  A stream that is gone is an error of the bridge (404).
ServeMedia(s) ==
    /\ \/ /\ s \in table /\ Reader(s, "serve", "stream")
          /\ consumer' = [consumer EXCEPT ![s] = "reading"] /\ UNCHANGED unread
       \/ s \notin table /\ Reader(s, "serve", "close") /\ UNCHANGED <<consumer, unread>>
       \/ Reader(s, "serve", "left") /\ unread' = unread \cup {s} /\ UNCHANGED consumer
    /\ UNCHANGED <<regClosed, wanted, device, table, queued, overflowed, stopping,
                   hikFaults, unheard>>

\* The bridge ended its response, or the client of the backend left.
MediaEnds(s) ==
    /\ Reader(s, "stream", "close")
    /\ UNCHANGED <<regClosed, wanted, bridgeVars, hikFaults, hikHistory>>

\* HikRegisteredStream.close: a DELETE, whose failure is ignored.
CloseStream(s) ==
    /\ IF regClosed[s]
       THEN Reader(s, "close", "unregister") /\ UNCHANGED regClosed
       ELSE Reader(s, "close", "delete") /\ regClosed' = [regClosed EXCEPT ![s] = TRUE]
    /\ UNCHANGED <<wanted, bridgeVars, hikFaults, hikHistory>>

\* stop_stream of the bridge takes the stream out of the table, wakes its
\* consumer and then stops playing; whoever comes second finds it gone.
StopStream(s) ==
    IF s \in table
    THEN table' = table \ {s} /\ device' = [device EXCEPT ![s] = "halting"]
    ELSE UNCHANGED <<table, device>>

Delete(s) ==
    /\ Reader(s, "delete", "unregister")
    /\ \/ StopStream(s) /\ UNCHANGED <<hikFaults, unheard>>
       \/ /\ hikFaults < MaxFaults /\ hikFaults' = hikFaults + 1
          /\ unheard' = unheard \cup {s} /\ UNCHANGED <<table, device>>
    /\ UNCHANGED <<regClosed, wanted, queued, overflowed, consumer, stopping, unread>>

Unregister(s) ==
    /\ Reader(s, "unregister", "done") /\ wanted' = wanted \ {s}
    /\ UNCHANGED <<regClosed, bridgeVars, hikFaults, hikHistory>>

\* A teardown takes the closer out of the registry and calls it.
TearDown(s) ==
    /\ s \in wanted /\ wanted' = wanted \ {s}
    /\ IF regClosed[s]
       THEN UNCHANGED <<regClosed, table, device, hikFaults, unheard>>
       ELSE /\ regClosed' = [regClosed EXCEPT ![s] = TRUE]
            /\ \/ StopStream(s) /\ UNCHANGED <<hikFaults, unheard>>
               \/ /\ hikFaults < MaxFaults /\ hikFaults' = hikFaults + 1
                  /\ unheard' = unheard \cup {s} /\ UNCHANGED <<table, device>>
    /\ UNCHANGED <<reader, queued, overflowed, consumer, stopping, unread>>

-----------------------------------------------------------------------------
(* The bridge                                                              *)
\* mutant: a queue without a limit
DataUnbounded(s) ==
    /\ device[s] = "open" /\ queued[s] <= QueueSize
    /\ queued' = [queued EXCEPT ![s] = @ + 1]
    /\ UNCHANGED <<backendVars, device, table, overflowed, consumer, stopping, hikFaults, hikHistory>>

\* on_data: a full queue drops the chunk and remembers it.
Data(s) ==
    /\ device[s] = "open"
    /\ IF queued[s] < QueueSize
       THEN queued' = [queued EXCEPT ![s] = @ + 1] /\ UNCHANGED overflowed
       ELSE overflowed' = [overflowed EXCEPT ![s] = TRUE] /\ UNCHANGED queued
    /\ UNCHANGED <<backendVars, device, table, consumer, stopping, hikFaults, hikHistory>>

\* iter_stream takes a chunk or the marker of the end; a stream that has lost
\* bytes is ended rather than carried on with a hole.
Holed(s) == overflowed[s]
Consume(s) ==
    /\ consumer[s] = "reading"
    /\ \/ s \notin table /\ consumer' = [consumer EXCEPT ![s] = "ended"] /\ UNCHANGED <<queued, table, device>>
       \/ /\ s \in table /\ queued[s] > 0 /\ queued' = [queued EXCEPT ![s] = @ - 1]
          /\ IF Holed(s)
             THEN consumer' = [consumer EXCEPT ![s] = "ended"] /\ StopStream(s)
             ELSE UNCHANGED <<consumer, table, device>>
    /\ UNCHANGED <<backendVars, overflowed, stopping, hikFaults, hikHistory>>

\* The backend's connection is closed: the response is cancelled, and its
\* finally clause stops the stream.
ConsumerCancelled(s) ==
    /\ consumer[s] = "reading" /\ reader[s] # "stream"
    /\ consumer' = [consumer EXCEPT ![s] = "ended"] /\ StopStream(s)
    /\ UNCHANGED <<backendVars, queued, overflowed, stopping, hikFaults, hikHistory>>

\* stop_realplay, and logout even when it raised.
Halted(s) ==
    /\ Device(s, "halting", "logout")
    /\ UNCHANGED <<backendVars, table, queued, overflowed, consumer, stopping, hikFaults, hikHistory>>

LoggedOut(s) ==
    /\ Device(s, "logout", "out")
    /\ UNCHANGED <<backendVars, table, queued, overflowed, consumer, stopping, hikFaults, hikHistory>>

\* HikBridgeService.stop, once the server takes no more requests.
StopBridge ==
    /\ ~stopping /\ \A s \in Streams : reader[s] # "create"
    /\ stopping' = TRUE
    /\ UNCHANGED <<backendVars, device, table, queued, overflowed, consumer, hikFaults, hikHistory>>

StopEach(s) ==
    /\ stopping /\ s \in table /\ StopStream(s)
    /\ UNCHANGED <<backendVars, queued, overflowed, consumer, stopping, hikFaults, hikHistory>>

Creating(s) == LoginFails(s) \/ LoggedIn(s) \/ PlayFails(s) \/ Playing(s) \/ Answer(s)
Serving(s) == RegisterStream(s) \/ ServeMedia(s) \/ CloseStream(s) \/ Delete(s) \/ Unregister(s)
Bridge(s) == Consume(s) \/ ConsumerCancelled(s) \/ Halted(s) \/ LoggedOut(s) \/ StopEach(s)
Step(s) == Create(s) \/ Creating(s) \/ Serving(s) \/ MediaEnds(s) \/ TearDown(s) \/ Bridge(s) \/ Data(s)
Next == StopBridge \/ \E s \in Streams : Step(s)

\* Requests and calls of the SDK end; a response that ended is noticed.
Fairness == \A s \in Streams :
    /\ WF_hikVars(Creating(s)) /\ WF_hikVars(Serving(s)) /\ WF_hikVars(Bridge(s))
    /\ WF_hikVars(consumer[s] = "ended" /\ MediaEnds(s))
Spec == Init /\ [][Next]_hikVars /\ Fairness

-----------------------------------------------------------------------------
Streaming(s) == device[s] \in {"play", "open", "halting", "logout"}

(* A stream whose request is over keeps its login only when the backend was *)
(* never told its id or its DELETE was lost; or when its response was never *)
(* iterated, and then a teardown can still end it.                          *)
LoginsAccounted ==
    \A s \in Streams :
        /\ reader[s] = "done" /\ device[s] = "open" => s \in unheard
        /\ reader[s] = "left" /\ device[s] = "open" => s \in wanted \cup unheard
        /\ s \in table <=> device[s] = "open"

(* Every login whose stream was asked to end is given back, whoever asked    *)
(* first and whatever the others were doing.                                *)
Ending ==
    \E s \in Streams :
        \/ device[s] \in {"halting", "logout"}
        \/ reader[s] = "done" /\ device[s] \notin {"none", "out"} /\ s \notin unheard
LoginsEnd == Ending ~> ~Ending
=============================================================================
