---------------------------- MODULE MCThreadPool ----------------------------
(* Small instances of ThreadPool for TLC.                                   *)
EXTENDS ThreadPool, TLC

(* Worker identities are interchangeable; jobs and timers too.              *)
Symmetry == Permutations(Workers) \cup Permutations(Jobs)
=============================================================================
