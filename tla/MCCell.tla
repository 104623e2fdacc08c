------------------------------- MODULE MCCell -------------------------------
(***************************************************************************)
(* Small instances of Cell for TLC.                                        *)
(***************************************************************************)
EXTENDS Cell
=============================================================================
