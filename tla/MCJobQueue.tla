----------------------------- MODULE MCJobQueue -----------------------------
(* JobQueue for TLC. *)
EXTENDS JobQueue, TLC

\* Jobs are interchangeable; threads are not (TryPushers), nor are slots.
JobSymmetry == Permutations(Jobs)
=============================================================================
