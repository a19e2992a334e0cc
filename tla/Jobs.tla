-------------------------------- MODULE Jobs --------------------------------
(***************************************************************************)
(* The work that is under way, as the lists of the components keep it: in  *)
(* the order in which it was started, and ending in any order.             *)
(***************************************************************************)
EXTENDS Integers, Sequences

(* What is left of jobs when the i-th ends: those behind it move up.       *)
Without(jobs, i) ==
    [k \in 1..(Len(jobs) - 1) |-> IF k < i THEN jobs[k] ELSE jobs[k + 1]]
=============================================================================
