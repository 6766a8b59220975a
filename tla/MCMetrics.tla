------------------------------- MODULE MCMetrics -------------------------------
(* Metrics for TLC.  The recording threads are interchangeable.               *)
EXTENDS Metrics, TLC

RecorderSymmetry == Permutations(Recorders)
================================================================================
