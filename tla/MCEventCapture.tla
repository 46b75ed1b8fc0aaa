--------------------------- MODULE MCEventCapture ---------------------------
(* TLC instances of EventCapture: model values come from the .cfg file.    *)
EXTENDS EventCapture, TLC

Symmetry == Permutations(Callers) \cup Permutations(Tasks)

=============================================================================
