-------------------------- MODULE MCUploadArchive --------------------------
(* The instance of UploadArchive that TLC checks.                          *)
EXTENDS UploadArchive, TLC

Symmetry == Permutations(Recording)
=============================================================================
