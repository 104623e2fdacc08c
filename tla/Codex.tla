-------------------------------- MODULE Codex ---------------------------------
(***************************************************************************)
(* The codices (codex/*.rs): byte substitutions built from a list of swaps, *)
(* at random, or by the user.  A constructor runs once; what it returns is *)
(* `codex`, a pair of functions on bytes.                                  *)
(***************************************************************************)
EXTENDS Integers, Sequences

CONSTANTS
    ByteMax,        \* u8::MAX: bytes are 0 .. ByteMax
    SwapLists,      \* arguments of StaticCodex::from_swaps
    UserCodices     \* codices that the user implements: [encode, decode]

Byte == 0 .. ByteMax

Codices == [encode : [Byte -> Byte], decode : [Byte -> Byte]]

\* There are as many even as odd bytes.  A user's codex keeps to the contract of
\* the trait: decode(encode(b)) = b.
ASSUME CodexAssumption ==
    /\ ByteMax \in Nat /\ ByteMax % 2 = 1
    /\ \A s \in SwapLists : s \in Seq(Byte \X Byte)
    /\ UserCodices \subseteq Codices
    /\ \A c \in UserCodices : \A b \in Byte : c.decode[c.encode[b]] = b

VARIABLES
    building,   \* what the constructor is doing
    origin,     \* which constructor was called
    swaps,      \* from_swaps: the pairs that are left
    table,      \* the lookup table
    used,       \* from_swaps: the bytes that are marked
    perm,       \* random_involution: the permutation
    i,          \* random_involution: loop index
    codex       \* the codex that was built

codexVars == <<building, origin, swaps, table, used, perm, i, codex>>

Identity == [b \in Byte |-> b]

\* IdentityCodex; it also stands for a vault without a codex.
IdentityCodex == [encode |-> Identity, decode |-> Identity]

CodexInit ==
    /\ building = "no" /\ origin = "none" /\ swaps = <<>>
    /\ table = Identity /\ used = {} /\ perm = <<>> /\ i = 0
    /\ codex = IdentityCodex

\* StaticCodex::encode and decode are the same lookup.
Lookup(t) == [encode |-> t, decode |-> t]

\* The vault is given no codex, IdentityCodex, or one that the user implements
\* (FnCodex has one closure for both directions).
UserCodex ==
    /\ building = "no"
    /\ codex' \in UserCodices \cup {IdentityCodex}
    /\ origin' = "user" /\ building' = "built"
    /\ UNCHANGED <<swaps, table, used, perm, i>>

-------------------------------------------------------------------------------
\* StaticCodex::from_swaps(list) starts from the identity.
FromSwaps ==
    /\ building = "no"
    /\ swaps' \in SwapLists
    /\ table' = Identity /\ used' = {}
    /\ origin' = "swaps" /\ building' = "swaps"
    /\ UNCHANGED <<perm, i, codex>>

\* Only the first byte of a pair is looked up.
ApplySwap_ChecksFirst ==
    /\ building = "swaps" /\ swaps # <<>>
    /\ LET a == Head(swaps)[1]
           b == Head(swaps)[2]
       IN  IF a = b
           THEN used' = used \cup {a} /\ UNCHANGED <<building, table>>
           ELSE IF a \in used
           THEN building' = "refused" /\ UNCHANGED <<table, used>>
           ELSE /\ table' = [table EXCEPT ![a] = b, ![b] = a]
                /\ used' = used \cup {a, b}
                /\ UNCHANGED building
    /\ swaps' = Tail(swaps)
    /\ UNCHANGED <<origin, perm, i, codex>>

\* One pair: a self-swap marks its byte, whether it was marked or not; another pair
\* is refused if one of its bytes is marked.
ApplySwap ==
    /\ building = "swaps" /\ swaps # <<>>
    /\ LET a == Head(swaps)[1]
           b == Head(swaps)[2]
       IN  IF a = b
           THEN used' = used \cup {a} /\ UNCHANGED <<building, table>>
           ELSE IF {a, b} \cap used # {}
           THEN building' = "refused" /\ UNCHANGED <<table, used>>
           ELSE /\ table' = [table EXCEPT ![a] = b, ![b] = a]
                /\ used' = used \cup {a, b}
                /\ UNCHANGED building
    /\ swaps' = Tail(swaps)
    /\ UNCHANGED <<origin, perm, i, codex>>

SwapsDone ==
    /\ building = "swaps" /\ swaps = <<>>
    /\ codex' = Lookup(table)
    /\ building' = "built"
    /\ UNCHANGED <<origin, swaps, table, used, perm, i>>

-------------------------------------------------------------------------------
\* StaticCodex::random_involution(), which is what DynamicCodex::new calls.
RandomInvolution ==
    /\ building = "no"
    /\ table' = Identity
    /\ perm' = [p \in 1 .. ByteMax + 1 |-> p - 1]
    /\ i' = ByteMax
    /\ origin' = "random" /\ building' = "shuffle"
    /\ UNCHANGED <<swaps, used, codex>>

\* One iteration of fisher_yates.
ShufflePerm ==
    /\ building = "shuffle" /\ i > 0
    /\ \E j \in 0 .. i :
          perm' = [perm EXCEPT ![i + 1] = perm[j + 1], ![j + 1] = perm[i + 1]]
    /\ i' = i - 1
    /\ building' = IF i = 1 THEN "pairs" ELSE "shuffle"
    /\ UNCHANGED <<origin, swaps, table, used, codex>>

\* The generator fails and the constructor returns the error.
ShuffleFails ==
    /\ building = "shuffle" /\ i > 0
    /\ building' = "refused"
    /\ UNCHANGED <<origin, swaps, table, used, perm, i, codex>>

\* Neighbours in the permutation are swapped with each other.
PairUp ==
    /\ building = "pairs" /\ i + 1 < Len(perm)
    /\ LET a == perm[i + 1]
           b == perm[i + 2]
       IN  table' = [table EXCEPT ![a] = b, ![b] = a]
    /\ i' = i + 2
    /\ UNCHANGED <<building, origin, swaps, used, perm, codex>>

\* DynamicCodex forwards to the codex it wraps.
DynamicCodex(inner) == [encode |-> inner.encode, decode |-> inner.decode]

\* The finished table; wrapping it in a DynamicCodex makes no difference.
PairsDone ==
    /\ building = "pairs" /\ i + 1 >= Len(perm)
    /\ codex' \in {Lookup(table), DynamicCodex(Lookup(table))}
    /\ building' = "built"
    /\ UNCHANGED <<origin, swaps, table, used, perm, i>>

CodexNext ==
    \/ UserCodex
    \/ FromSwaps \/ ApplySwap \/ SwapsDone
    \/ RandomInvolution \/ ShufflePerm \/ ShuffleFails \/ PairUp \/ PairsDone

-------------------------------------------------------------------------------
(***************************************************************************)
(* Properties                                                              *)
(***************************************************************************)

\* What the constructors keep; the permutation that is shuffled stays one.
CodexTypeOK ==
    /\ building \in {"no", "swaps", "shuffle", "pairs", "built", "refused"}
    /\ origin \in {"none", "user", "swaps", "random"}
    /\ swaps \in Seq(Byte \X Byte)
    /\ table \in [Byte -> Byte] /\ used \subseteq Byte
    /\ perm = <<>> \/ (/\ perm \in [1 .. ByteMax + 1 -> Byte]
                       /\ \A b \in Byte : \E n \in DOMAIN perm : perm[n] = b)
    /\ i \in 0 .. ByteMax + 1
    /\ codex \in Codices

\* Both directions of a codex that the crate builds are the same permutation, and
\* applying it twice gives back the byte (`decode(encode(x)) == x`,
\* codex/mod.rs:32), whatever list from_swaps accepts and whatever is drawn.
Involution ==
    building = "built" =>
        /\ \A b \in Byte : codex.decode[codex.encode[b]] = b
        /\ origin # "user" => codex.decode = codex.encode
=============================================================================
