----------------------------- MODULE MCClipJob -----------------------------
(* The render stage of a job for runs that check no liveness.             *)
EXTENDS ClipJob, TLC

\* Clips and dispatchers are interchangeable; workers are not where only some
\* of them may stall.
Symmetry == Permutations(Clips) \cup Permutations(Dispatchers)
=============================================================================
