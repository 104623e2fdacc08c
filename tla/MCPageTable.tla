---------------------------- MODULE MCPageTable ----------------------------
(***************************************************************************)
(* Small instances of PageTable for TLC.                                   *)
(***************************************************************************)
EXTENDS PageTable, TLC

\* Buffers are interchangeable.
BufferSymmetry == Permutations(Buffers)
=============================================================================
