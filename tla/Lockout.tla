------------------------------ MODULE Lockout ------------------------------
(***************************************************************************)
(* Failure tracking, vault-wide and per-key lockout, and master unlock of   *)
(* KeyVault (src/src/vault/mod.rs).                                        *)
(*                                                                         *)
(* Each thread runs one API call at a time; pc[t] is the point it has       *)
(* reached.  A step is one access to shared state: an atomic load, store,   *)
(* swap or fetch_add, one clock reading, or one critical section.  The      *)
(* key_locks mutex is explicit (lock_owner) because key_locks_active is     *)
(* updated while it is held and read without it.  The failure_tracker and   *)
(* master_backoff mutexes guard nothing that is read outside them, so their *)
(* critical sections are single steps.                                     *)
(***************************************************************************)
EXTENDS Naturals, Sequences, FiniteSets

CONSTANTS
  Threads,         \* callers of the vault
  NoThread,        \* owner of a free mutex
  Names,           \* key names failures are reported under
  MASTER_NAME,     \* the reserved name "<master>"
  Ops,             \* the API calls the callers make
  MaxFailures,     \* config.max_failures_before_lockout (0: off)
  FailureWindow,   \* config.failure_window
  KeyThreshold,    \* config.key_lockout_threshold (0: off)
  KeyWindow,       \* config.key_lockout_window
  KeyLockExpires,  \* config.key_lockout_duration is Some(_)
  KeyDuration,     \* that duration
  BackoffBase,     \* config.master_backoff_base
  BackoffMax,      \* config.master_backoff_max
  UsizeMax,        \* largest value of the usize counter
  MaxTime,         \* bound: the clock stops here
  MaxCalls         \* bound: calls made in a behaviour

ASSUME LockoutAssumption ==
  /\ NoThread \notin Threads
  /\ IsFiniteSet(Threads)
  /\ IsFiniteSet(Names)
  /\ MASTER_NAME \in Names
  /\ MaxFailures \in Nat /\ FailureWindow \in Nat
  /\ KeyThreshold \in Nat /\ KeyWindow \in Nat
  /\ KeyLockExpires \in BOOLEAN /\ KeyDuration \in Nat
  /\ BackoffBase \in Nat /\ BackoffMax \in Nat
  /\ MaxTime \in Nat /\ MaxCalls \in Nat
  /\ UsizeMax \in Nat
  /\ UsizeMax > Cardinality(Names) + Cardinality(Threads)

VARIABLES
  clock,             \* Clock::now()
  locked_out,        \* AtomicBool
  failure_tracker,   \* name -> deque of failure times (<<>>: no entry)
  key_locks,         \* name -> time the lockout ends (0 when it never does)
  key_locks_active,  \* AtomicUsize
  lock_owner,        \* holder of the key_locks mutex
  backoff,           \* [failures, next_allowed], guarded by master_backoff
  pc, name, per_key, now, counts,  \* position and locals of each thread
  calls,             \* calls made so far
  recorded,          \* history: the deques without eviction
  skewed,            \* history: names recorded out of clock order
  debt               \* history: subtractions pending when the counter was reset

shared == <<locked_out, failure_tracker, key_locks, key_locks_active, lock_owner, backoff>>
locals == <<pc, name, per_key, now, counts>>
history == <<recorded, skewed, debt>>
vars == <<clock, shared, locals, calls, history>>

NoCounts == [in_window |-> 0, in_key_window |-> 0]

Init ==
  /\ clock = 0
  /\ locked_out = FALSE
  /\ failure_tracker = [n \in Names |-> <<>>]
  /\ key_locks = [n \in {} |-> 0]
  /\ key_locks_active = 0
  /\ lock_owner = NoThread
  /\ backoff = [failures |-> 0, next_allowed |-> 0]
  /\ pc = [t \in Threads |-> "idle"]
  /\ name = [t \in Threads |-> MASTER_NAME]
  /\ per_key = [t \in Threads |-> FALSE]
  /\ now = [t \in Threads |-> 0]
  /\ counts = [t \in Threads |-> NoCounts]
  /\ calls = 0
  /\ recorded = [n \in Names |-> <<>>]
  /\ skewed = {}
  /\ debt = 0

-----------------------------------------------------------------------------
(* The data structures.                                                    *)

\* fetch_add(1) and fetch_sub(1) on a usize wrap around.
WrapInc(a) == IF a = UsizeMax THEN 0 ELSE a + 1
WrapDec(a) == IF a = 0 THEN UsizeMax ELSE a - 1

\* locks.insert(n, until) and locks.remove(n) on the BTreeMap.
Insert(m, n, until) == [k \in DOMAIN m \cup {n} |-> IF k = n THEN until ELSE m[k]]
Remove(m, n) == [k \in DOMAIN m \ {n} |-> m[k]]

\* saturating_sub(at, s[i]) > keep
Older(s, i, at, keep) == s[i] + keep < at

First(S) == CHOOSE i \in S : \A j \in S : i <= j

\* The deque from index First(young) on; empty when there is none.
From(s, young) == IF young = {} THEN <<>> ELSE SubSeq(s, First(young), Len(s))

\* pop_front while the front is older than keep; stops at the first younger one.
Evict_OffByOne(s, at, keep) == From(s, {i \in DOMAIN s : s[i] + keep > at})
Evict(s, at, keep) == From(s, {i \in DOMAIN s : ~Older(s, i, at, keep)})

CountWithin(s, at, window) == Cardinality({i \in DOMAIN s : ~Older(s, i, at, window)})

KeepFor(perKey) == IF perKey /\ KeyWindow > FailureWindow THEN KeyWindow ELSE FailureWindow

\* base * 2^(failures - 1); the maximum if that overflows or exceeds it.
BackoffDelay(failures) ==
  LET shift == IF failures = 0 THEN 0 ELSE IF failures > 32 THEN 31 ELSE failures - 1
      delay == BackoffBase * 2 ^ shift
  IN  IF delay \in 0 .. BackoffMax THEN delay ELSE BackoffMax

\* Per-key locking applies to report_failure only, and only when switched on.
KeyThresholdOn(t) == per_key[t] /\ KeyThreshold > 0
VaultBreached(c) == MaxFailures > 0 /\ c.in_window >= MaxFailures
KeyBreached(t, c) == KeyThresholdOn(t) /\ c.in_key_window >= KeyThreshold

\* The per-key lockout of n is in place and has not expired.
InForce(n) == n \in DOMAIN key_locks /\ (KeyLockExpires => clock < key_locks[n])

-----------------------------------------------------------------------------
(* Control.                                                                *)

Begin(t, op) ==
  /\ pc[t] = "idle"
  /\ op \in Ops
  /\ calls < MaxCalls
  /\ calls' = calls + 1

Goto(t, label) == pc' = [pc EXCEPT ![t] = label]

\* The call returns; its locals are gone.
Return(t) ==
  /\ Goto(t, "idle")
  /\ name' = [name EXCEPT ![t] = MASTER_NAME]
  /\ per_key' = [per_key EXCEPT ![t] = FALSE]
  /\ now' = [now EXCEPT ![t] = 0]
  /\ counts' = [counts EXCEPT ![t] = NoCounts]

\* tracker.remove(n) for the names in S.
Forget(S) ==
  /\ failure_tracker' = [n \in Names |-> IF n \in S THEN <<>> ELSE failure_tracker[n]]
  /\ recorded' = [n \in Names |-> IF n \in S THEN <<>> ELSE recorded[n]]
  /\ skewed' = skewed \ S

-----------------------------------------------------------------------------
(* report_failure and handle_failure.                                      *)

\* report_failure(n): record_failure reads the clock before it takes the
\* failure_tracker lock.
ReportFailure(t, n) ==
  /\ Begin(t, "report_failure")
  /\ name' = [name EXCEPT ![t] = n]
  /\ per_key' = [per_key EXCEPT ![t] = TRUE]
  /\ now' = [now EXCEPT ![t] = clock]
  /\ Goto(t, "hf_record")
  /\ UNCHANGED <<clock, shared, counts, history>>

\* The same clock reading when handle_failure runs for a wrong master credential.
ReadNow(t) ==
  /\ pc[t] = "hf_now"
  /\ now' = [now EXCEPT ![t] = clock]
  /\ Goto(t, "hf_record")
  /\ UNCHANGED <<clock, shared, name, per_key, counts, calls, history>>

\* Under the failure_tracker lock: evict, push, count both windows.
RecordFailure(t) ==
  LET n == name[t]
      kept == Append(Evict(failure_tracker[n], now[t], KeepFor(KeyThresholdOn(t))), now[t])
      c == [in_window |-> CountWithin(kept, now[t], FailureWindow),
            in_key_window |-> IF KeyThresholdOn(t)
                                THEN CountWithin(kept, now[t], KeyWindow) ELSE 0]
  IN
  /\ pc[t] = "hf_record"
  /\ failure_tracker' = [failure_tracker EXCEPT ![n] = kept]
  /\ recorded' = [recorded EXCEPT ![n] = Append(@, now[t])]
  /\ skewed' = IF \E i \in DOMAIN recorded[n] : recorded[n][i] > now[t]
                 THEN skewed \cup {n} ELSE skewed
  /\ IF VaultBreached(c) \/ KeyBreached(t, c)
       THEN /\ Goto(t, IF VaultBreached(c) THEN "hf_vault" ELSE "hf_until")
            /\ counts' = [counts EXCEPT ![t] = c]
            /\ UNCHANGED <<name, per_key, now>>
       ELSE Return(t)
  /\ UNCHANGED <<clock, locked_out, key_locks, key_locks_active, lock_owner, backoff, calls, debt>>

\* locked_out.swap(true)
TripVault(t) ==
  /\ pc[t] = "hf_vault"
  /\ locked_out' = TRUE
  /\ IF KeyBreached(t, counts[t])
       THEN Goto(t, "hf_until") /\ UNCHANGED <<name, per_key, now, counts>>
       ELSE Return(t)
  /\ UNCHANGED <<clock, failure_tracker, key_locks, key_locks_active, lock_owner, backoff,
                 calls, history>>

\* until = now + duration, computed before the key_locks lock is taken.
StampUntil(t) ==
  /\ pc[t] = "hf_until"
  /\ now' = [now EXCEPT ![t] = IF KeyLockExpires THEN clock + KeyDuration ELSE 0]
  /\ Goto(t, "hf_insert")
  /\ UNCHANGED <<clock, shared, name, per_key, counts, calls, history>>

\* previous.is_none(): what the breach event carries as lockout_triggered.
NewlyLocked(n) == n \notin DOMAIN key_locks

\* locks.insert; the lock is kept for the fetch_add when the entry is new.
LockKey(t) ==
  /\ pc[t] = "hf_insert"
  /\ lock_owner = NoThread
  /\ key_locks' = Insert(key_locks, name[t], now[t])
  /\ IF NewlyLocked(name[t])
       THEN /\ lock_owner' = t
            /\ Goto(t, "hf_add")
            /\ UNCHANGED <<name, per_key, now, counts>>
       ELSE Return(t) /\ UNCHANGED lock_owner
  /\ UNCHANGED <<clock, locked_out, failure_tracker, key_locks_active, backoff, calls, history>>

CountKeyLock_Skipped(t) ==
  /\ pc[t] = "hf_add"
  /\ lock_owner' = NoThread
  /\ Return(t)
  /\ UNCHANGED <<clock, locked_out, failure_tracker, key_locks, key_locks_active, backoff,
                 calls, history>>
CountKeyLock(t) ==
  /\ pc[t] = "hf_add"
  /\ key_locks_active' = WrapInc(key_locks_active)
  /\ lock_owner' = NoThread
  /\ Return(t)
  /\ UNCHANGED <<clock, locked_out, failure_tracker, key_locks, backoff, calls, history>>

-----------------------------------------------------------------------------
(* key_locked, as with_key, rotate and is_key_locked_out call it.          *)

\* with_key and rotate load locked_out first and return LockedOut if it is set.
WithKey(t, n) ==
  /\ Begin(t, "with_key")
  /\ ~locked_out
  /\ name' = [name EXCEPT ![t] = n]
  /\ Goto(t, "kl_fast")
  /\ UNCHANGED <<clock, shared, per_key, now, counts, history>>

IsKeyLockedOut(t, n) ==
  /\ Begin(t, "is_key_locked_out")
  /\ name' = [name EXCEPT ![t] = n]
  /\ Goto(t, "kl_fast")
  /\ UNCHANGED <<clock, shared, per_key, now, counts, history>>

\* Fast path: an atomic load, no lock.
KeyLocked(t) ==
  /\ pc[t] = "kl_fast"
  /\ IF key_locks_active = 0
       THEN Return(t)
       ELSE Goto(t, "kl_slow") /\ UNCHANGED <<name, per_key, now, counts>>
  /\ UNCHANGED <<clock, shared, calls, history>>

\* Look the name up under the lock; an expired entry is removed.
KeyLockedSlow(t) ==
  /\ pc[t] = "kl_slow"
  /\ lock_owner = NoThread
  /\ IF name[t] \in DOMAIN key_locks /\ ~InForce(name[t])
       THEN /\ key_locks' = Remove(key_locks, name[t])
            /\ lock_owner' = t
            /\ Goto(t, "kl_sub")
            /\ UNCHANGED <<name, per_key, now, counts>>
       ELSE Return(t) /\ UNCHANGED <<key_locks, lock_owner>>
  /\ UNCHANGED <<clock, locked_out, failure_tracker, key_locks_active, backoff, calls, history>>

PruneCount(t) ==
  /\ pc[t] = "kl_sub"
  /\ key_locks_active' = WrapDec(key_locks_active)
  /\ Goto(t, "kl_forget")
  /\ UNCHANGED <<clock, locked_out, failure_tracker, key_locks, lock_owner, backoff,
                 name, per_key, now, counts, calls, history>>

\* The failure_tracker lock nests inside the key_locks lock here.
PruneForget(t) ==
  /\ pc[t] = "kl_forget"
  /\ Forget({name[t]})
  /\ lock_owner' = NoThread
  /\ Return(t)
  /\ UNCHANGED <<clock, locked_out, key_locks, key_locks_active, backoff, calls, debt>>

-----------------------------------------------------------------------------
(* clear_key_lockout and clear_lockout.                                    *)

\* key_locks.lock().remove(n): the guard is dropped before the fetch_sub.
ClearKeyLockout_AlwaysCounts(t, n) ==
  /\ Begin(t, "clear_key_lockout")
  /\ lock_owner = NoThread
  /\ key_locks' = Remove(key_locks, n)
  /\ name' = [name EXCEPT ![t] = n]
  /\ Goto(t, "ck_sub")
  /\ UNCHANGED <<clock, locked_out, failure_tracker, key_locks_active, lock_owner, backoff,
                 per_key, now, counts, history>>
ClearKeyLockout(t, n) ==
  /\ Begin(t, "clear_key_lockout")
  /\ lock_owner = NoThread
  /\ key_locks' = Remove(key_locks, n)
  /\ name' = [name EXCEPT ![t] = n]
  /\ Goto(t, IF n \in DOMAIN key_locks THEN "ck_sub" ELSE "ck_forget")
  /\ UNCHANGED <<clock, locked_out, failure_tracker, key_locks_active, lock_owner, backoff,
                 per_key, now, counts, history>>

ClearKeyCount(t) ==
  /\ pc[t] = "ck_sub"
  /\ key_locks_active' = WrapDec(key_locks_active)
  /\ Goto(t, "ck_forget")
  /\ UNCHANGED <<clock, locked_out, failure_tracker, key_locks, lock_owner, backoff,
                 name, per_key, now, counts, calls, history>>

ClearKeyForget(t) ==
  /\ pc[t] = "ck_forget"
  /\ Forget({name[t]})
  /\ Return(t)
  /\ UNCHANGED <<clock, locked_out, key_locks, key_locks_active, lock_owner, backoff, calls, debt>>

ClearFlag(t) ==
  /\ locked_out' = FALSE
  /\ Goto(t, "cl_keys")
  /\ UNCHANGED <<clock, failure_tracker, key_locks, key_locks_active, lock_owner, backoff,
                 name, per_key, now, counts, history>>

ClearLockout(t) == Begin(t, "clear_lockout") /\ ClearFlag(t)

\* unlock_with_master calls clear_lockout after a match.
MasterClear(t) == pc[t] = "cl_flag" /\ ClearFlag(t) /\ UNCHANGED calls

ClearKeyLocks(t) ==
  /\ pc[t] = "cl_keys"
  /\ lock_owner = NoThread
  /\ key_locks' = [n \in {} |-> 0]
  /\ lock_owner' = t
  /\ Goto(t, "cl_zero")
  /\ UNCHANGED <<clock, locked_out, failure_tracker, key_locks_active, backoff,
                 name, per_key, now, counts, calls, history>>

\* key_locks_active.store(0) under the lock.
ResetCounter_KeepsLock(t) ==
  /\ pc[t] = "cl_zero"
  /\ key_locks_active' = 0
  /\ debt' = Cardinality({u \in Threads : pc[u] = "ck_sub"})
  /\ Goto(t, "cl_tracker")
  /\ UNCHANGED <<clock, locked_out, failure_tracker, key_locks, lock_owner, backoff,
                 name, per_key, now, counts, calls, recorded, skewed>>
ResetCounter(t) ==
  /\ pc[t] = "cl_zero"
  /\ key_locks_active' = 0
  /\ debt' = Cardinality({u \in Threads : pc[u] = "ck_sub"})
  /\ lock_owner' = NoThread
  /\ Goto(t, "cl_tracker")
  /\ UNCHANGED <<clock, locked_out, failure_tracker, key_locks, backoff,
                 name, per_key, now, counts, calls, recorded, skewed>>

ClearTracker(t) ==
  /\ pc[t] = "cl_tracker"
  /\ Forget(Names)
  /\ Return(t)
  /\ UNCHANGED <<clock, locked_out, key_locks, key_locks_active, lock_owner, backoff, calls, debt>>

-----------------------------------------------------------------------------
(* unlock_with_master.                                                     *)

\* The attempt runs under the master_backoff lock.  An attempt made before
\* next_allowed returns RateLimited and changes nothing.
UnlockWithMaster_NotLimited(t, matched) ==
  /\ Begin(t, "unlock_with_master")
  /\ IF matched
       THEN /\ backoff' = [failures |-> 0, next_allowed |-> 0]
            /\ Goto(t, "cl_flag")
       ELSE /\ backoff' = [failures |-> backoff.failures + 1,
                           next_allowed |-> clock + BackoffDelay(backoff.failures + 1)]
            /\ Goto(t, "hf_now")
  /\ UNCHANGED <<clock, locked_out, failure_tracker, key_locks, key_locks_active, lock_owner,
                 name, per_key, now, counts, history>>
UnlockWithMaster(t, matched) ==
  /\ Begin(t, "unlock_with_master")
  /\ clock >= backoff.next_allowed
  /\ IF matched
       THEN /\ backoff' = [failures |-> 0, next_allowed |-> 0]
            /\ Goto(t, "cl_flag")
       ELSE /\ backoff' = [failures |-> backoff.failures + 1,
                           next_allowed |-> clock + BackoffDelay(backoff.failures + 1)]
            /\ Goto(t, "hf_now")
  /\ UNCHANGED <<clock, locked_out, failure_tracker, key_locks, key_locks_active, lock_owner,
                 name, per_key, now, counts, history>>

-----------------------------------------------------------------------------
(* The specification.                                                      *)

Tick == clock < MaxTime /\ clock' = clock + 1 /\ UNCHANGED <<shared, locals, calls, history>>

\* No call is in progress; anything else without a successor is a deadlock.
Rest == (\A t \in Threads : pc[t] = "idle") /\ UNCHANGED vars

Call(t) ==
  \/ \E n \in Names : \/ ReportFailure(t, n)
                      \/ WithKey(t, n)
                      \/ IsKeyLockedOut(t, n)
                      \/ ClearKeyLockout(t, n)
  \/ ClearLockout(t)
  \/ \E matched \in BOOLEAN : UnlockWithMaster(t, matched)

Step(t) ==
  \/ ReadNow(t) \/ RecordFailure(t) \/ TripVault(t) \/ StampUntil(t)
  \/ LockKey(t) \/ CountKeyLock(t)
  \/ KeyLocked(t) \/ KeyLockedSlow(t) \/ PruneCount(t) \/ PruneForget(t)
  \/ ClearKeyCount(t) \/ ClearKeyForget(t)
  \/ MasterClear(t) \/ ClearKeyLocks(t) \/ ResetCounter(t) \/ ClearTracker(t)

Next == Tick \/ Rest \/ \E t \in Threads : Call(t) \/ Step(t)

Spec == Init /\ [][Next]_vars

\* A thread inside a call keeps running; nobody has to start one.
FairSpec == Spec /\ \A t \in Threads : WF_vars(Step(t))

-----------------------------------------------------------------------------
(* Properties.                                                             *)

Labels == {"idle", "hf_now", "hf_record", "hf_vault", "hf_until", "hf_insert", "hf_add",
           "kl_fast", "kl_slow", "kl_sub", "kl_forget", "ck_sub", "ck_forget",
           "cl_flag", "cl_keys", "cl_zero", "cl_tracker"}

\* Type invariant.  The counter stays a usize whatever order fetch_add,
\* fetch_sub and store(0) come in.
TypeOK ==
  /\ clock \in Nat
  /\ locked_out \in BOOLEAN
  /\ failure_tracker \in [Names -> Seq(Nat)]
  /\ DOMAIN key_locks \subseteq Names
  /\ key_locks \in [DOMAIN key_locks -> Nat]
  /\ key_locks_active \in 0..UsizeMax
  /\ lock_owner \in Threads \cup {NoThread}
  /\ backoff \in [failures : Nat, next_allowed : Nat]
  /\ pc \in [Threads -> Labels]
  /\ name \in [Threads -> Names]
  /\ per_key \in [Threads -> BOOLEAN]
  /\ now \in [Threads -> Nat]
  /\ counts \in [Threads -> [in_window : Nat, in_key_window : Nat]]
  /\ calls \in Nat
  /\ recorded \in [Names -> Seq(Nat)]
  /\ skewed \subseteq Names
  /\ debt \in Nat

\* Points at which the key_locks mutex is held across steps.
Holding == {"hf_add", "kl_sub", "kl_forget", "cl_zero"}

At(label) == {t \in Threads : pc[t] = label}

\* The key_locks mutex excludes: whoever is inside a critical section owns it.
MutexInv == \A t \in Threads : pc[t] \in Holding <=> lock_owner = t

\* What key_locks_active should be at this point of the calls in flight: one per
\* entry of key_locks, one more per entry removed but not yet subtracted, one
\* less per entry inserted but not yet added.
Owed == Cardinality(DOMAIN key_locks) + Cardinality(At("ck_sub")) + Cardinality(At("kl_sub"))
Paid == Cardinality(At("hf_add")) + debt

\* key_locks_active counts the entries of key_locks up to the calls in flight,
\* modulo the width of usize, for every interleaving of the threshold, the
\* expiry and the two clear operations; the only drift is the subtractions that
\* were pending when clear_lockout stored 0 (debt).
CounterAccounted ==
  At("cl_zero") = {} => \/ key_locks_active + Paid = Owed
                        \/ key_locks_active + Paid = Owed + UsizeMax + 1

\* The unlocked fast path of key_locked: unless clear_lockout overtook a
\* clear_key_lockout, a zero counter means that no key is locked out, except one
\* whose report_failure call is between the insert and the fetch_add.
FastPathSound ==
  (debt = 0 /\ key_locks_active = 0 /\ At("cl_zero") = {}) =>
     \A n \in DOMAIN key_locks : \E t \in At("hf_add") : name[t] = n

\* The inductive strengthening of CounterAccounted: the mutex excludes, an entry
\* waiting for its fetch_add is in the map, clear_lockout has emptied the map
\* before it stores 0, and no more subtractions are outstanding than threads.
CounterInv ==
  /\ MutexInv
  /\ \A t \in At("hf_add") : name[t] \in DOMAIN key_locks
  /\ At("cl_zero") # {} => DOMAIN key_locks = {}
  /\ debt <= Cardinality(Threads)
  /\ CounterAccounted

\* record_failure decides exactly by the failures inside the window: a vault-wide
\* or per-key breach is declared if and only if the threshold is met by the
\* failures reported for that name since the last clear, evicted or not.  Holds
\* while the failures of the name were recorded in the order of their timestamps;
\* the reserved name is recorded with two retention periods, so only its
\* vault-wide count is exact.
WindowExact ==
  [][\A t \in Threads :
       LET n == name[t]
           c == [in_window     |-> CountWithin(recorded'[n], now[t], FailureWindow),
                 in_key_window |-> CountWithin(recorded'[n], now[t], KeyWindow)]
       IN  (pc[t] = "hf_record" /\ pc'[t] # "hf_record" /\ n \notin skewed') =>
             /\ VaultBreached(c) <=> pc'[t] = "hf_vault"
             /\ (n # MASTER_NAME /\ ~VaultBreached(c)) =>
                   (KeyBreached(t, c) <=> pc'[t] = "hf_until")]_vars

\* The least time k wrong master credentials can take.
TimeToFail[k \in Nat] == IF k <= 1 THEN 0 ELSE TimeToFail[k - 1] + BackoffDelay(k - 1)

\* Guessing is slowed down: k consecutive wrong master credentials have taken at
\* least the sum of the delays between them, however many threads call
\* unlock_with_master ("parallel guesses cannot all slip through one window").
BackoffBound == clock >= TimeToFail[backoff.failures]

\* Every call returns: the two mutexes are taken in one order only and each
\* critical section is left.
EveryCallReturns == \A t \in Threads : pc[t] # "idle" ~> pc[t] = "idle"

Quiet == \A t \in Threads : pc[t] = "idle"

\* "only the key registered under key_name is locked out": with no call in
\* progress, a lockout in force makes key_locked take the slow path.
KeyLockoutEnforced == Quiet /\ (\E n \in Names : InForce(n)) => key_locks_active # 0
=============================================================================
