------------------------------ MODULE MCPipeline ------------------------------
(* TLC instances of Pipeline. *)
EXTENDS Pipeline

\* All lists of up to three pairs.
MCSwapLists == UNION {[1 .. n -> Byte \X Byte] : n \in 0 .. 3}

\* The bytes rotate by one; XOR with 1.
Rotation ==
    [encode |-> [b \in Byte |-> (b + 1) % (ByteMax + 1)],
     decode |-> [b \in Byte |-> (b + ByteMax) % (ByteMax + 1)]]
Flip ==
    LET f == [b \in Byte |-> IF b % 2 = 0 THEN b + 1 ELSE b - 1]
    IN  [encode |-> f, decode |-> f]
MCUserCodices == {Rotation, Flip}

MCKeys == {<<>>, [p \in 1 .. ByteMax + 1 |-> p - 1], <<0, 0>>}
MCDigest == [k \in MCKeys |-> IF k = <<>> THEN <<1, 1>> ELSE <<k[Len(k)], 0, 2>>]
=============================================================================
