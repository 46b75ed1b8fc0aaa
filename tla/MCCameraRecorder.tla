-------------------------- MODULE MCCameraRecorder --------------------------
(* TLC instances of CameraRecorder: model values come from the .cfg files. *)
EXTENDS CameraRecorder, TLC

\* Sound for the safety runs only: no liveness is checked under symmetry.
Symmetry == Permutations(Worker) \cup Permutations(Caller)
=============================================================================
