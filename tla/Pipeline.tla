------------------------------- MODULE Pipeline -------------------------------
(***************************************************************************)
(* What happens to the bytes of a key on their way into and out of the     *)
(* vault: normalize, codex, fragmenter, and back through with_key or the   *)
(* one-shot defragment.  The fragmenter hands back what it was given       *)
(* (Fragment shows that) or fails.                                         *)
(***************************************************************************)
EXTENDS Codex

CONSTANTS
    Keys,           \* the keys: sequences of bytes
    Digest          \* BLAKE3, plain or keyed: a function on Keys

Normalizers == {"off", "hash", "unavailable"}

\* The kinds of audit events of keys; a master unlock is one of module Lockout.
AccessKind ==
    {"Register", "Unregister", "Read", "Rotate", "OneShotFragment", "OneShotDefragment"}

ASSUME PipelineAssumption ==
    /\ Keys \subseteq Seq(Byte)
    /\ Digest \in [Keys -> Seq(Byte) \ {<<>>}]

VARIABLES
    normalizer,     \* of the vault, fixed when it is built
    locked_out,     \* the vault-wide lockout flag
    key,            \* the key that was last fragmented
    stored,         \* what its Fragments reassemble into
    held,           \* where they are: with the caller or in the registry
    metadata,       \* KeyMetadata::length of the registry's entry, 0 if there is none
    out,            \* what the caller was last given for it
    audit           \* the audit event that was emitted last

pipeVars == <<normalizer, locked_out, key, stored, held, metadata, out, audit>>
vars == <<codexVars, pipeVars>>

Init ==
    /\ CodexInit
    /\ normalizer \in Normalizers
    /\ locked_out = FALSE
    /\ key = <<>> /\ stored = <<>> /\ held = "nowhere" /\ out = <<>>
    /\ metadata = 0 /\ audit = "none"

Built == building = "built"

\* The effective key: its digest if the vault normalizes.
Normalized(k) == IF normalizer = "hash" THEN Digest[k] ELSE k

\* codex_apply: encode every byte.
CodexApply(bytes) == [p \in DOMAIN bytes |-> codex.encode[bytes[p]]]

\* The wrong direction.
CodexDecodeInPlace_Encodes(bytes) == [p \in DOMAIN bytes |-> codex.encode[bytes[p]]]

\* codex_decode_in_place: decode every byte.
CodexDecodeInPlace(bytes) == [p \in DOMAIN bytes |-> codex.decode[bytes[p]]]

\* fragment_pipeline up to the fragmenter.
FragmentPipeline(k) == CodexApply(Normalized(k))

\* An unavailable normalizer and an empty working key end in an error.
PipelineFails(k) == normalizer = "unavailable" \/ Normalized(k) = <<>>

-------------------------------------------------------------------------------
\* The fragments of k are made and kept at place.  Nothing happens if the vault is
\* locked out, or if the pipeline or the fragmenter fails.
Keep(k, place) ==
    /\ Built /\ held = "nowhere"
    /\ ~locked_out /\ ~PipelineFails(k)
    /\ key' = k /\ stored' = FragmentPipeline(k)
    /\ held' = place
    /\ UNCHANGED <<codexVars, normalizer, locked_out, out>>

\* KeyVault::fragment: the caller gets the fragments.
FragmentOnce(k) ==
    /\ Keep(k, "caller")
    /\ audit' = "OneShotFragment" /\ UNCHANGED metadata

\* KeyMetadata::new is given the length of the caller's key, taken before it is
\* normalized; the time of registration is left out.
NewMetadata(k) == Len(k)

\* register: the registry keeps them.
Register(k) ==
    /\ Keep(k, "registry")
    /\ metadata' = NewMetadata(k)
    /\ audit' = "Register"

\* rotate: the entry gets the new key's fragments and metadata in one swap.
Rotate(k) ==
    /\ Built /\ held = "registry"
    /\ ~locked_out /\ ~PipelineFails(k)
    /\ key' = k /\ stored' = FragmentPipeline(k) /\ out' = <<>>
    /\ metadata' = NewMetadata(k)
    /\ audit' = "Rotate"
    /\ UNCHANGED <<codexVars, normalizer, locked_out, held>>

\* The codex is not undone.
Defragment_Encoded ==
    /\ Built /\ held = "caller" /\ ~locked_out
    /\ out' = stored
    /\ audit' = "OneShotDefragment"
    /\ UNCHANGED <<codexVars, normalizer, locked_out, key, stored, held, metadata>>

\* KeyVault::defragment: the reassembled bytes go through codex_apply once more.
Defragment ==
    /\ Built /\ held = "caller" /\ ~locked_out
    /\ out' = CodexApply(stored)
    /\ audit' = "OneShotDefragment"
    /\ UNCHANGED <<codexVars, normalizer, locked_out, key, stored, held, metadata>>

\* with_key: reassemble into the scratch buffer and decode there.
WithKey ==
    /\ Built /\ held = "registry" /\ ~locked_out
    /\ out' = CodexDecodeInPlace(stored)
    /\ audit' = "Read"
    /\ UNCHANGED <<codexVars, normalizer, locked_out, key, stored, held, metadata>>

\* The caller drops the fragments, or unregisters the key.
Discard ==
    /\ held # "nowhere"
    /\ held' = "nowhere" /\ key' = <<>> /\ stored' = <<>> /\ out' = <<>>
    /\ metadata' = 0
    /\ audit' = IF held = "registry" THEN "Unregister" ELSE audit
    /\ UNCHANGED <<codexVars, normalizer, locked_out>>

\* The lockout flag changes on its own here (see Lockout).
LockoutChanges ==
    /\ Built
    /\ locked_out' = ~locked_out
    /\ UNCHANGED <<codexVars, normalizer, key, stored, held, metadata, out, audit>>

Next ==
    \/ CodexNext /\ UNCHANGED pipeVars
    \/ \E k \in Keys : FragmentOnce(k) \/ Register(k) \/ Rotate(k)
    \/ Defragment \/ WithKey \/ Discard \/ LockoutChanges

Spec == Init /\ [][Next]_vars

-------------------------------------------------------------------------------
(***************************************************************************)
(* Properties                                                              *)
(***************************************************************************)

\* The values of the variables of the vault and of the codex constructors.
TypeOK ==
    /\ CodexTypeOK
    /\ normalizer \in Normalizers /\ locked_out \in BOOLEAN
    /\ key \in Keys \cup {<<>>}
    /\ stored \in Seq(Byte) /\ out \in Seq(Byte)
    /\ held \in {"nowhere", "caller", "registry"}
    /\ audit \in AccessKind \cup {"none"}
    /\ metadata \in Nat

\* with_key hands back the effective key (what normalization made of the registered
\* or rotated one), for every codex that undoes itself byte by byte, built in or not,
\* and the metadata is about that same key: it has the length of what the caller gave.
WithKeyExact ==
    /\ TypeOK
    /\ held = "registry" /\ out # <<>> => out = Normalized(key) /\ metadata = Len(key)

\* The one-shot defragment gives back the effective key if the codex is its own
\* inverse, as every codex of the crate is.
OneShotExactIfInvolution ==
    held = "caller" /\ out # <<>> /\ codex.encode = codex.decode => out = Normalized(key)

=============================================================================
