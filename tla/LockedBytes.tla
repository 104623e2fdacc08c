---------------------------- MODULE LockedBytes ----------------------------
(***************************************************************************)
(* What the two homes of a LockedBytes have in common (src/src/memory): the  *)
(* heap with its page table (PageTable) and the page pool (Pool).          *)
(***************************************************************************)
EXTENDS Naturals, FiniteSets

CONSTANTS
  Buffers,    \* buffers that can exist at a time
  PageSize    \* page_size()

ASSUME LockedBytesAssumption ==
  /\ IsFiniteSet(Buffers)
  /\ PageSize \in Nat \ {0}
=============================================================================
