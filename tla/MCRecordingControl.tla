------------------------- MODULE MCRecordingControl -------------------------
(* TLC instances of RecordingControl: model values come from the .cfg files. *)
EXTENDS RecordingControl, TLC

Symmetry == Permutations(Caller)

CONSTANTS c1, c2

\* Either the one camera c1 meets everything its users can do; or it meets the
\* passes of a neighbour, c2, that is edited once, over two boundaries.
Alone == policy[c2] = "gone"
NeighbourInit ==
  /\ Init
  /\ IF Alone THEN ~window[c2] ELSE policy[c1] = "auto" /\ policy[c2] = "auto" /\ window[c1] /\ window[c2]
NeighbourNext ==
  /\ Next /\ ticks'[c2] = 0
  /\ IF Alone
     THEN ticks'[c1] <= 1
     ELSE /\ reloaded' \subseteq {c2} /\ UNCHANGED <<policy, revision>>
          /\ \A t \in Task : task'[t].kind \notin {"switch", "delete", "batch"}
                            /\ ~task'[t].sched
NeighbourSpec == NeighbourInit /\ [][NeighbourNext]_vars

=============================================================================
