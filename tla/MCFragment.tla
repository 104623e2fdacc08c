------------------------------ MODULE MCFragment ------------------------------
(* TLC instances of Fragment. *)
EXTENDS Fragment

\* Keys of distinct bytes: the strategies never look at a byte, so if these come
\* back right, all do.
Distinct(n) == [p \in 1 .. n |-> 10 + p]

\* Up to and beyond the length that u32::MAX = 6 allows.
CapKeys == {Distinct(n) : n \in {0, 1, 3, 5, 6, 7}}
CapMakers ==
    {Standard(0, 3, "none"), Standard(3, 4, "none"), RandomScatter(3, 0),
     RandomScatter(2, 4), Interleaved(0),
     Layered(<<Interleaved(2), Layered(<<RandomScatter(4, 6), Standard(2, 2, "none")>>)>>)}

\* Decoys whose bytes are also bytes of the key.
DecoyKeys == {Distinct(1), Distinct(2), <<11, 12, 11>>}
DecoyMakers ==
    {Standard(1, 2, "self"), Standard(1, 2, "random"), Standard(1, 1, "derived"),
     Layered(<<Standard(2, 2, "self"), Standard(1, 3, "none")>>)}

MCCalls == (CapMakers \X CapKeys) \cup (DecoyMakers \X DecoyKeys)

\* Offsets and sizes around total_len, and the decoy mark.
CustomWords == 0 .. 4 \cup {U32Max}

\* What a caller can build: up to two chunks of up to three bytes, any layout.
CustomFragments ==
    [chunks : {<<>>} \cup {<<Distinct(a)>> : a \in 0 .. 3}
              \cup {<<Distinct(a), Distinct(b)>> : a, b \in 0 .. 2},
     layout : UNION {[1 .. n -> CustomWords] : n \in 0 .. 4},
     stray : BOOLEAN, total_len : 0 .. 3]
MCReaders ==
    {Standard(1, 2, "none"), RandomScatter(1, 2), Interleaved(2),
     Layered(<<Standard(1, 2, "none"), RandomScatter(1, 2), Interleaved(2)>>)}
=============================================================================
