----------------------------- MODULE MCGuarded -----------------------------
(***************************************************************************)
(* Small instances of Guarded for TLC.                                     *)
(***************************************************************************)
EXTENDS Guarded
=============================================================================
