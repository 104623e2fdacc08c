------------------------------ MODULE Builder -------------------------------
(***************************************************************************)
(* KeyVaultBuilder: what a chain of builder calls configures, and the vault   *)
(* that finish makes of it when the random generator or a protected mapping   *)
(* may fail (src/src/vault/mod.rs).                                         *)
(*                                                                         *)
(* A strategy, codex, monitor or sink is only its name.  Durations are small  *)
(* numbers up to DurationMax, which stands for Duration::MAX.                *)
(***************************************************************************)
EXTENDS Naturals

CONSTANTS
  Durations,        \* what callers pass
  DurationMax,      \* Duration::MAX
  ShiftCap,         \* 31, the largest shift of the backoff
  MaxBuilderCalls   \* bound: calls between new and build

ASSUME BuilderAssumption ==
  /\ DurationMax \in Nat /\ Durations \subseteq 0 .. DurationMax
  /\ ShiftCap \in Nat /\ MaxBuilderCalls \in Nat

VARIABLES
  stage,       \* "new", "building", "failed" or "built"
  features,    \* Cargo features given to from_features, until the next call
  config,      \* VaultConfig
  builder,     \* the other fields of KeyVaultBuilder
  asked,       \* history: a decoy was set since the chunk range was
  builderCalls,
  vault        \* what finish made

builderVars == <<stage, features, config, builder, asked, builderCalls, vault>>

NoVault == <<>>

Max2(a, b) == IF a > b THEN a ELSE b
Min2(a, b) == IF a < b THEN a ELSE b

\* VaultConfig::new.  (60 seconds are 1.)
DefaultConfig ==
  [key_normalization |-> TRUE, keyed_normalization |-> FALSE,
   max_failures_before_lockout |-> 0, failure_window |-> 1,
   key_lockout_threshold |-> 0, key_lockout_window |-> 1, key_lockout_duration |-> "None",
   master_backoff_base |-> 0, master_backoff_max |-> 0, page_protection |-> FALSE]

\* KeyVaultBuilder::new.
NewBuilder ==
  [fragmenter |-> "standard", decoy |-> "none", decoy_without_standard |-> FALSE,
   decoy_set |-> FALSE, codex |-> "none", monitor |-> "none", audit |-> "none",
   master |-> "none", normalization_key |-> "None"]

-----------------------------------------------------------------------------
(* from_features.                                                          *)

\* Weakest first.
DecoyRank == <<"none", "decoy-random", "decoy-key-derived", "decoy-self-ref">>
FragmenterRank == <<"standard", "fragment-interleaved", "fragment-random", "fragment-layered">>

Features ==
  {DecoyRank[i] : i \in 2 .. 4} \cup {FragmenterRank[i] : i \in 2 .. 4} \cup
  {"codex", "monitor-tracing", "audit"}

\* The last of the ranking that is on.
Strongest(rank, F) ==
  IF \E i \in 2 .. 4 : rank[i] \in F
  THEN rank[CHOOSE i \in 2 .. 4 : rank[i] \in F /\ \A j \in i + 1 .. 4 : rank[j] \notin F]
  ELSE rank[1]

\* The decoy is used by the standard fragmenter, alone or inside the layered one.
Selected(F) ==
  LET fragmenter == Strongest(FragmenterRank, F)
      decoy == Strongest(DecoyRank, F)
  IN  [NewBuilder EXCEPT
        !.fragmenter = fragmenter,
        !.decoy = IF fragmenter \in {"standard", "fragment-layered"} THEN decoy ELSE "none",
        !.codex = IF "codex" \in F THEN "dynamic" ELSE "none",
        !.monitor = IF "monitor-tracing" \in F THEN "log" ELSE "none",
        !.audit = IF {"monitor-tracing", "audit"} \subseteq F THEN "log" ELSE "none"]

BuilderInit ==
  /\ stage = "new"
  /\ features = {}
  /\ config = DefaultConfig
  /\ builder = NewBuilder
  /\ asked = FALSE
  /\ builderCalls = 0
  /\ vault = NoVault

\* new() is the case without features.  DynamicCodex::new needs the random generator.
from_features(F, rngOk) ==
  /\ stage = "new"
  /\ IF "codex" \in F /\ ~rngOk
       THEN stage' = "failed" /\ UNCHANGED <<features, builder>>
       ELSE stage' = "building" /\ features' = F /\ builder' = Selected(F)
  /\ UNCHANGED <<config, asked, builderCalls, vault>>

-----------------------------------------------------------------------------
(* The builder's methods.                                                  *)

Building == stage = "building" /\ builderCalls < MaxBuilderCalls

\* A call that changes the given fields.
Sets(newConfig, newBuilder, nowAsked) ==
  /\ Building
  /\ config' = newConfig /\ builder' = newBuilder /\ asked' = nowAsked
  /\ features' = {}
  /\ builderCalls' = builderCalls + 1
  /\ UNCHANGED <<stage, vault>>

SetsConfig(newConfig) == Sets(newConfig, builder, asked)

normalize_with_blake3(enabled) == SetsConfig([config EXCEPT !.key_normalization = enabled])

\* with_keyed_normalization and with_normalization_key.
with_keyed_normalization(key) ==
  Sets([config EXCEPT !.key_normalization = TRUE, !.keyed_normalization = TRUE],
       [builder EXCEPT !.normalization_key = key], asked)

IsStandard(b) == b.fragmenter = "standard"

with_fragmenter ==
  Sets(config, [builder EXCEPT !.fragmenter = "custom", !.decoy = "none"], asked)

with_chunk_range ==
  Sets(config,
       [builder EXCEPT !.fragmenter = "standard", !.decoy = "none",
                       !.decoy_set = FALSE, !.decoy_without_standard = FALSE], FALSE)

with_decoy ==
  Sets(config,
       IF IsStandard(builder)
       THEN [builder EXCEPT !.decoy = "user", !.decoy_set = TRUE]
       ELSE [builder EXCEPT !.decoy_without_standard = TRUE, !.decoy_set = TRUE], TRUE)

with_codex == Sets(config, [builder EXCEPT !.codex = "user"], asked)
with_monitor == Sets(config, [builder EXCEPT !.monitor = "user"], asked)
with_audit_sink == Sets(config, [builder EXCEPT !.audit = "user"], asked)

with_failure_threshold(max, window) ==
  SetsConfig([config EXCEPT !.max_failures_before_lockout = max, !.failure_window = window])

with_key_lockout(max, window, lockFor) ==
  SetsConfig([config EXCEPT !.key_lockout_threshold = max, !.key_lockout_window = window,
                            !.key_lockout_duration = lockFor])

\* The maximum is taken as it is given.
with_master_unlock_backoff_AsGiven(base, max) ==
  SetsConfig([config EXCEPT !.master_backoff_base = base, !.master_backoff_max = max])

with_master_unlock_backoff(base, max) ==
  SetsConfig([config EXCEPT !.master_backoff_base = base, !.master_backoff_max = Max2(max, base)])

with_page_protection(enabled) == SetsConfig([config EXCEPT !.page_protection = enabled])

\* The hash key comes from the generator, which may fail; the failure is kept.
with_master_key(rngOk) ==
  Sets(config, [builder EXCEPT !.master = IF rngOk THEN "seed" ELSE "failed"], asked)

-----------------------------------------------------------------------------
(* build and build_with_clock.                                             *)

decoy_ignored == (builder.decoy_set /\ ~IsStandard(builder)) \/ builder.decoy_without_standard

\* SecretBytes::new fails only if the protected mapping does.
SecretFails(mapOk) == config.page_protection /\ ~mapOk

\* A key that cannot be made is done without.
Normalizer_FallsBack(rngOk, mapOk) ==
  IF ~config.key_normalization THEN "off"
  ELSE IF builder.normalization_key = "None" THEN "plain"
  ELSE IF (builder.normalization_key = "Random" /\ ~rngOk) \/ SecretFails(mapOk) THEN "plain"
  ELSE "keyed"

\* The normalizer of the vault; secret_or_unavailable.
Normalizer(rngOk, mapOk) ==
  IF ~config.key_normalization THEN "off"
  ELSE IF builder.normalization_key = "None" THEN "plain"
  ELSE IF (builder.normalization_key = "Random" /\ ~rngOk) \/ SecretFails(mapOk) THEN "unavailable"
  ELSE "keyed"

MasterVerifier(mapOk) ==
  IF builder.master = "none" THEN "none"
  ELSE IF builder.master = "failed" \/ SecretFails(mapOk) THEN "unavailable"
  ELSE "ready"

finish(rngOk, normMapOk, masterMapOk) ==
  /\ stage = "building"
  /\ stage' = "built"
  /\ vault' = [normalizer |-> Normalizer(rngOk, normMapOk),
               master |-> MasterVerifier(masterMapOk),
               fragmenter |-> builder.fragmenter,
               decoy_ignored |-> decoy_ignored,
               codex |-> builder.codex,
               monitor |-> IF builder.monitor = "none" THEN "NoMonitor" ELSE builder.monitor,
               audit |-> IF builder.audit = "none" THEN "NoAudit" ELSE builder.audit]
  /\ UNCHANGED <<features, config, builder, asked, builderCalls>>

BuilderNext ==
  \/ \E F \in SUBSET Features, rngOk \in BOOLEAN : from_features(F, rngOk)
  \/ \E on \in BOOLEAN :
       normalize_with_blake3(on) \/ with_page_protection(on) \/ with_master_key(on)
  \/ \E key \in {"Random", "Derived"} : with_keyed_normalization(key)
  \/ with_fragmenter \/ with_chunk_range \/ with_decoy
  \/ with_codex \/ with_monitor \/ with_audit_sink
  \/ \E d, e \in Durations : with_master_unlock_backoff(d, e)
  \/ \E d \in Durations : with_failure_threshold(1, d) \/ with_key_lockout(1, d, d)
  \/ \E a, b, c \in BOOLEAN : finish(a, b, c)

-----------------------------------------------------------------------------
(* KeyVault::backoff_delay on the finished configuration.                  *)

\* 1 << n.
ShiftLeft[n \in Nat] == IF n = 0 THEN 1 ELSE 2 * ShiftLeft[n - 1]

\* base * (1 << min(failures - 1, 31)), the maximum if that overflows or exceeds it.
backoff_delay(failures) ==
  LET base == config.master_backoff_base
      max == config.master_backoff_max
      shift == IF failures = 0 THEN 0 ELSE Min2(failures - 1, ShiftCap)
      product == base * ShiftLeft[shift]
  IN  IF base = 0 THEN 0 ELSE Min2(IF product > DurationMax THEN max ELSE product, max)

-----------------------------------------------------------------------------
(* Properties.                                                             *)

\* Type invariant.
BuilderTypeOK ==
  /\ stage \in {"new", "building", "failed", "built"}
  /\ (vault = NoVault) <=> (stage # "built")
  /\ features \subseteq Features
  /\ DOMAIN config = DOMAIN DefaultConfig /\ DOMAIN builder = DOMAIN NewBuilder
  /\ config.master_backoff_base \in 0 .. DurationMax
  /\ config.master_backoff_max \in 0 .. DurationMax
  /\ asked \in BOOLEAN /\ builderCalls \in 0 .. MaxBuilderCalls

\* "every registration fails with this error instead of silently falling back to
\* plain BLAKE3": what was asked for and could not be set up is unavailable in the
\* built vault, never weaker or absent; a vault whose settings say that keys are
\* hashed under a key never stores them otherwise; and the vault says that a decoy is
\* ignored exactly when one was set through with_decoy, since the last
\* with_chunk_range, and is not in the fragmenter it got, whatever the order of calls.
NeverWeaker ==
  /\ BuilderTypeOK
  /\ stage = "built" =>
       /\ config.key_normalization /\ config.keyed_normalization =>
            vault.normalizer \in {"keyed", "unavailable"}
       /\ config.key_normalization => vault.normalizer # "off"
       /\ builder.master # "none" => vault.master # "none"
       /\ ~config.page_protection /\ builder.normalization_key = "Derived" =>
            vault.normalizer # "unavailable"
       /\ vault.decoy_ignored <=> asked /\ builder.decoy # "user"

\* "for `base`, then `2 * base`, `4 * base`, ... after each further failure, never more
\* than `max`": the first delay is the base, every further one is doubled or is the
\* maximum until the shift is at its cap, and none is shorter than the one before,
\* however many failures there were, the product overflowing or not.
BackoffGrows ==
  /\ backoff_delay(1) = config.master_backoff_base
  /\ \A n \in 1 .. ShiftCap + 2 :
       /\ backoff_delay(n) <= backoff_delay(n + 1)
       /\ backoff_delay(n + 1) <= config.master_backoff_max
       /\ n <= ShiftCap => backoff_delay(n + 1) = Min2(2 * backoff_delay(n), config.master_backoff_max)
=============================================================================
