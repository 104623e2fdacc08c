------------------------------- MODULE MCPool -------------------------------
(***************************************************************************)
(* Small instances of Pool for TLC.                                        *)
(***************************************************************************)
EXTENDS Pool, TLC

\* Blocks that fill half a page, a whole page and more than a page.
MCClasses == <<2, 4, 8>>

\* Buffers are interchangeable.
BufferSymmetry == Permutations(Buffers)
=============================================================================
