------------------------------- MODULE MCCalls ------------------------------
(***************************************************************************)
(* Small instances of Calls for TLC.                                       *)
(***************************************************************************)
EXTENDS Calls, TLC

ThreadSymmetry == Permutations(Threads)

CONSTANTS k1, k2

\* Two keys of different lengths, so that the scratch grows.
TwoLengths == [k \in {k1, k2} |-> IF k = k1 THEN 1 ELSE 2]
=============================================================================
