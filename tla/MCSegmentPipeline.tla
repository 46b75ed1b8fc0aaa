-------------------------- MODULE MCSegmentPipeline --------------------------
(* The instance of SegmentPipeline that TLC checks.                        *)
EXTENDS SegmentPipeline, TLC

Symmetry == Permutations(Name)
=============================================================================
