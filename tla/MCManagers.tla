---------------------------- MODULE MCManagers ----------------------------
(* All managers are there from the start and one of them, the focus, moves: *)
(* the states are the sum of theirs and not the product.                    *)
EXTENDS Managers

VARIABLES focus,     \* the manager that moves
          watched    \* what the network of the connectivity monitor's camera becomes

\* The others stay in one state of those they may start in.
MCInit ==
    /\ focus \in {"exports", "outage", "incidents", "connectivity", "media", "spares", "hik",
                  "prefetch", "edits", "rewrites"}
    /\ watched \in {"online", "offline"}
    /\ focus # "connectivity" => watched = "online"
    /\ Init
    /\ focus # "outage" => mailing
    /\ focus # "incidents" => used = 0
    /\ hik /\ (focus # "connectivity" => reachable /\ bridge)
    /\ kind = <<"mjpeg", "wall">> \/ (focus = "spares" /\ kind = <<"wall", "mjpeg">>)
    /\ focus # "prefetch" => place[2] = "cloud"
    /\ focus # "edits" => Edits!SettingsOf(row) = [adapter |-> "onvif", host |-> 1, target |-> 1]
                         /\ row.status = "unverified"

MCExport == focus = "exports" /\ ExportMoves
MCOutage == focus = "outage" /\ OutageMoves
MCIncidents == focus = "incidents" /\ IncidentsMoves
MCProbing == focus = "connectivity" /\ ProbingMoves
\* Two sessions without a stream to fall back to, or one that may have one.
MCMedia == focus \in {"media", "spares"} /\ MediaMoves /\
    (focus = "media" => spare' = <<FALSE, FALSE>>) /\
    (focus = "spares" => sessionAt'[2] = "idle")
MCHik == focus = "hik" /\ HikMoves
MCPrefetch == focus = "prefetch" /\ PrefetchMoves
\* Two requests on any device, or up to four that all name the same one.
MCEdits == focus \in {"edits", "rewrites"} /\ EditsMoves /\
    (focus = "edits" => writes' <= 2) /\
    (focus = "rewrites" =>
        \A c \in Clients : request'[c] # Edits!None =>
            request'[c].want.host = 1 /\ request'[c].want.target = 1)

MCNext ==
    /\ MCExport \/ MCOutage \/ MCIncidents \/ MCProbing \/ MCMedia \/ MCHik
       \/ MCPrefetch \/ MCEdits
    /\ UNCHANGED <<focus, watched>>

\* The fairness of each module, for the one that moves.
Fairness ==
    /\ WF_exportState(focus = "exports" /\ Export!Worker)
    /\ WF_outageState(focus = "outage" /\ Outage!LoopStep)
    /\ WF_outageState(focus = "outage" /\ Outage!OfflineAlert)
    /\ WF_outageState(focus = "outage" /\ Outage!ConfirmRecovery)
    /\ WF_outageState(focus = "outage" /\ Outage!ConfirmStable)
    /\ WF_incidentsState(focus = "incidents" /\ Incidents!Round)
    /\ WF_probingState(focus = "connectivity" /\ Probing!Round)
    /\ WF_probingState(focus = "connectivity" /\ Probing!AnswerProbe)
    /\ WF_mediaState(focus \in {"media", "spares"} /\ Media!Teardown)
    /\ \A s \in {1, 2} :
          /\ WF_mediaState(focus \in {"media", "spares"} /\ (Media!Opening(s) \/ Media!Closing(s)))
          /\ WF_mediaState(focus \in {"media", "spares"} /\ process[s] = "gone"
                             /\ Media!StreamEnds(s))
    /\ WF_hikState(focus = "hik" /\ Hik!Creating(1))
    /\ WF_hikState(focus = "hik" /\ Hik!Serving(1))
    /\ WF_hikState(focus = "hik" /\ Hik!Bridge(1))
    /\ WF_hikState(focus = "hik" /\ consumer[1] = "ended" /\ Hik!MediaEnds(1))
    /\ \A t \in {1, 2, 3} : WF_prefetchState(focus = "prefetch" /\ Prefetch!TaskStep(t))
MCSpec == MCInit /\ [][MCNext]_<<managerVars, focus, watched>> /\ Fairness

-----------------------------------------------------------------------------
Unfinished ==
    CASE focus = "exports" -> Export!Unsettled
      [] focus = "outage" -> Outage!Unreported
      [] focus = "incidents" -> Incidents!Unalerted
      [] focus = "connectivity" -> Probing!Unshown(watched)
      [] focus \in {"media", "spares"} -> Media!TearingDown
      [] focus = "hik" -> Hik!Ending
      [] focus = "prefetch" -> Prefetch!Unfinished
      [] focus \in {"edits", "rewrites"} -> FALSE
(* What each manager owes it gives: a job that waits is settled, an outage   *)
(* and a full disk are mailed, a camera whose network changed for good is   *)
(* shown as it is, sessions that a teardown caught end, logins are given    *)
(* back, and a prefetch ends.                                               *)
WorkEnds == Unfinished ~> ~Unfinished
=============================================================================
