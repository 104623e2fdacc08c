----------------------------- MODULE MCLockout -----------------------------
(***************************************************************************)
(* Small instances of Lockout for TLC.                                     *)
(***************************************************************************)
EXTENDS Lockout, TLC

AllOps == {"report_failure", "with_key", "is_key_locked_out", "clear_key_lockout",
           "clear_lockout", "unlock_with_master"}
KeyOps == {"report_failure", "is_key_locked_out", "clear_key_lockout", "clear_lockout"}
FailureOps == {"report_failure", "unlock_with_master"}

\* Threads are interchangeable, and so are the names other than "<master>".
ThreadAndNameSymmetry == Permutations(Threads) \cup Permutations(Names \ {MASTER_NAME})
=============================================================================
