--------------------------- MODULE Lockout_proofs ---------------------------
(***************************************************************************)
(* Proofs about Lockout, for every value of its constants.                 *)
(***************************************************************************)
EXTENDS Lockout, TLAPS, FiniteSetTheorems

\* A nonempty set of naturals has a first element.
LEMMA FirstExists ==
  ASSUME NEW S \in SUBSET Nat, S # {}
  PROVE  First(S) \in S /\ \A j \in S : First(S) <= j
  <1> DEFINE Less == {ss \in Nat \X Nat : ss[1] < ss[2]}
  <1>1. IsWellFoundedOn(Less, Nat)
    BY NatLessThanWellFounded, Zenon DEF OpToRel
  <1>2. PICK i \in S : \A j \in S : ~(<<j, i>> \in Less)
    BY <1>1, WFMin, Zenon
  <1>3. ASSUME NEW j \in S PROVE i <= j
    <2>1. j < i => <<j, i>> \in Less
      BY Zenon
    <2> HIDE DEF Less
    <2> QED  BY <1>2, <2>1
  <1> QED  BY <1>3, Zenon DEF First

\* backoff_delay returns a duration and never more than the configured maximum.
LEMMA BackoffDelayType ==
  ASSUME NEW k \in Nat
  PROVE  BackoffDelay(k) \in 0 .. BackoffMax
  BY LockoutAssumption DEF BackoffDelay

\* record_failure's eviction returns a deque of times.
LEMMA EvictType ==
  ASSUME NEW s \in Seq(Nat), NEW at \in Nat, NEW keep \in Nat
  PROVE  Evict(s, at, keep) \in Seq(Nat)
  <1> DEFINE young == {i \in DOMAIN s : ~Older(s, i, at, keep)}
  <1>1. young \in SUBSET Nat /\ young \subseteq DOMAIN s
    OBVIOUS
  <1>2. CASE young = {}
    BY <1>2 DEF Evict, From
  <1>3. CASE young # {}
    <2>1. First(young) \in DOMAIN s
      BY <1>1, <1>3, FirstExists, Zenon
    <2>2. \A i \in First(young) .. Len(s) : s[i] \in Nat
      BY <2>1
    <2>3. SubSeq(s, First(young), Len(s)) \in Seq(Nat)
      <3> HIDE DEF young
      <3> QED  BY <2>1, <2>2
    <2> QED  BY <1>3, <2>3, Zenon DEF Evict, From
  <1> QED  BY <1>2, <1>3, Zenon

\* The failures inside a window are finitely many.
LEMMA CountWithinType ==
  ASSUME NEW s \in Seq(Nat), NEW at \in Nat, NEW window \in Nat
  PROVE  CountWithin(s, at, window) \in Nat
  <1> DEFINE S == {i \in DOMAIN s : ~Older(s, i, at, window)}
  <1>1. IsFiniteSet(1 .. Len(s)) /\ S \in SUBSET (1 .. Len(s))
    BY FS_Interval
  <1>2. IsFiniteSet(S)
    BY <1>1, FS_Subset, Zenon
  <1> QED  BY <1>2, FS_CardinalityType, Zenon DEF CountWithin

-----------------------------------------------------------------------------
(* Type correctness.                                                       *)

\* A returning call resets the locals.
LEMMA ReturnType ==
  ASSUME TypeOK, NEW t \in Threads, Return(t)
  PROVE  /\ pc' \in [Threads -> Labels]
         /\ name' \in [Threads -> Names]
         /\ per_key' \in [Threads -> BOOLEAN]
         /\ now' \in [Threads -> Nat]
         /\ counts' \in [Threads -> [in_window : Nat, in_key_window : Nat]]
  <1>1. MASTER_NAME \in Names /\ "idle" \in Labels
    BY LockoutAssumption, Zenon DEF Labels
  <1>2. NoCounts \in [in_window : Nat, in_key_window : Nat]
    BY Zenon DEF NoCounts
  <1> QED  BY <1>1, <1>2, Zenon DEF TypeOK, Return, Goto

\* A jump keeps the positions typed.
LEMMA GotoType ==
  ASSUME TypeOK, NEW t \in Threads, NEW label \in Labels, Goto(t, label)
  PROVE  pc' \in [Threads -> Labels]
  BY Zenon DEF TypeOK, Goto

\* tracker.remove leaves deques of times.
LEMMA ForgetType ==
  ASSUME TypeOK, NEW S, Forget(S)
  PROVE  /\ failure_tracker' \in [Names -> Seq(Nat)]
         /\ recorded' \in [Names -> Seq(Nat)]
         /\ skewed' \subseteq Names
  BY DEF TypeOK, Forget

\* The wrapping operations stay within usize.
LEMMA WrapType ==
  ASSUME NEW a \in 0 .. UsizeMax
  PROVE  WrapInc(a) \in 0 .. UsizeMax /\ WrapDec(a) \in 0 .. UsizeMax
  BY LockoutAssumption DEF WrapInc, WrapDec

\* Initially the variables have their types.
LEMMA TypeInit == Init => TypeOK
  <1> SUFFICES ASSUME Init PROVE TypeOK
    BY Zenon
  <1>1. key_locks_active \in 0 .. UsizeMax
    BY LockoutAssumption DEF Init
  <1>2. pc \in [Threads -> Labels]
    BY Zenon DEF Init, Labels
  <1>3. counts \in [Threads -> [in_window : Nat, in_key_window : Nat]]
    BY Zenon DEF Init, NoCounts
  <1>4. DOMAIN key_locks \subseteq Names /\ key_locks \in [DOMAIN key_locks -> Nat]
    BY Zenon DEF Init
  <1>5. /\ failure_tracker \in [Names -> Seq(Nat)]
        /\ recorded \in [Names -> Seq(Nat)]
    BY DEF Init
  <1>6. /\ name \in [Threads -> Names]
        /\ per_key \in [Threads -> BOOLEAN]
        /\ now \in [Threads -> Nat]
    BY LockoutAssumption, Zenon DEF Init
  <1>7. /\ clock \in Nat /\ locked_out \in BOOLEAN /\ lock_owner \in Threads \cup {NoThread}
        /\ backoff \in [failures : Nat, next_allowed : Nat]
        /\ calls \in Nat /\ skewed \subseteq Names /\ debt \in Nat
    BY Zenon DEF Init
  <1> QED  BY <1>1, <1>2, <1>3, <1>4, <1>5, <1>6, <1>7, Zenon DEF TypeOK

\* Recording a failure keeps the deques and the counts typed.
LEMMA RecordFailureType ==
  ASSUME TypeOK, NEW t \in Threads, RecordFailure(t)
  PROVE  TypeOK'
  <1> DEFINE n == name[t]
             kept == Append(Evict(failure_tracker[n], now[t], KeepFor(KeyThresholdOn(t))), now[t])
             c == [in_window |-> CountWithin(kept, now[t], FailureWindow),
                   in_key_window |-> IF KeyThresholdOn(t)
                                       THEN CountWithin(kept, now[t], KeyWindow) ELSE 0]
  <1>1. n \in Names /\ now[t] \in Nat /\ failure_tracker[n] \in Seq(Nat)
    BY Zenon DEF TypeOK
  <1>2. KeepFor(KeyThresholdOn(t)) \in Nat /\ FailureWindow \in Nat /\ KeyWindow \in Nat
    BY LockoutAssumption, Zenon DEF KeepFor
  <1>3. kept \in Seq(Nat)
    <2>1. Evict(failure_tracker[n], now[t], KeepFor(KeyThresholdOn(t))) \in Seq(Nat)
      BY <1>1, <1>2, EvictType, Zenon
    <2> QED  BY <1>1, <2>1
  <1>4. c \in [in_window : Nat, in_key_window : Nat]
    <2> HIDE DEF kept
    <2>1. CountWithin(kept, now[t], FailureWindow) \in Nat /\ CountWithin(kept, now[t], KeyWindow) \in Nat
      BY <1>1, <1>2, <1>3, CountWithinType, Zenon
    <2> QED  BY <2>1, Zenon
  <1> HIDE DEF kept, c
  <1>5. failure_tracker' \in [Names -> Seq(Nat)]
    BY <1>1, <1>3, Zenon DEF TypeOK, RecordFailure, kept
  <1>6. recorded' \in [Names -> Seq(Nat)] /\ skewed' \subseteq Names
    <2>1. /\ recorded' = [recorded EXCEPT ![n] = Append(@, now[t])]
          /\ skewed' = skewed \cup {n} \/ skewed' = skewed
      BY Zenon DEF RecordFailure
    <2>2. recorded[n] \in Seq(Nat) /\ Append(recorded[n], now[t]) \in Seq(Nat)
      BY <1>1 DEF TypeOK
    <2> QED  BY <1>1, <2>1, <2>2, Zenon DEF TypeOK
  <1>7. /\ pc' \in [Threads -> Labels]
        /\ name' \in [Threads -> Names]
        /\ per_key' \in [Threads -> BOOLEAN]
        /\ now' \in [Threads -> Nat]
        /\ counts' \in [Threads -> [in_window : Nat, in_key_window : Nat]]
    <2>1. CASE VaultBreached(c) \/ KeyBreached(t, c)
      <3>1. /\ Goto(t, IF VaultBreached(c) THEN "hf_vault" ELSE "hf_until")
            /\ counts' = [counts EXCEPT ![t] = c]
            /\ UNCHANGED <<name, per_key, now>>
        BY <2>1, Zenon DEF RecordFailure, c, kept
      <3>2. (IF VaultBreached(c) THEN "hf_vault" ELSE "hf_until") \in Labels
        BY Zenon DEF Labels
      <3>3. pc' \in [Threads -> Labels]
        BY <3>1, <3>2, GotoType, Zenon
      <3> QED  BY <3>1, <3>3, <1>4, Zenon DEF TypeOK
    <2>2. CASE ~(VaultBreached(c) \/ KeyBreached(t, c))
      <3>1. Return(t)
        BY <2>2, Zenon DEF RecordFailure, c, kept
      <3> QED  BY <3>1, ReturnType, Zenon
    <2> QED  BY <2>1, <2>2, Zenon
  <1>8. UNCHANGED <<clock, locked_out, key_locks, key_locks_active, lock_owner, backoff, calls, debt>>
    BY Zenon DEF RecordFailure
  <1> QED  BY <1>5, <1>6, <1>7, <1>8, Zenon DEF TypeOK

\* A call that begins is counted.
LEMMA BeginType ==
  ASSUME TypeOK, NEW t \in Threads, NEW op, Begin(t, op)
  PROVE  calls' \in Nat
  <1>1. calls \in Nat
    BY Zenon DEF TypeOK
  <1> QED  BY <1>1 DEF Begin

\* Every other step keeps the variables typed.
LEMMA TypeStep == TypeOK /\ [Next]_vars => TypeOK'
  <1> USE DEF shared, locals, history
  <1> SUFFICES ASSUME TypeOK, [Next]_vars PROVE TypeOK'
    BY Zenon
  <1>0. MaxTime \in Nat /\ MaxCalls \in Nat /\ KeyDuration \in Nat
    BY LockoutAssumption, Zenon
  <1>1. CASE UNCHANGED vars
    BY <1>1, Zenon DEF vars, TypeOK
  <1>2. CASE Tick
    <2>1. clock' \in Nat
      BY <1>2 DEF Tick, TypeOK
    <2> QED  BY <1>2, <2>1, Zenon DEF Tick, TypeOK
  <1>3. CASE Rest
    BY <1>3, Zenon DEF Rest, vars, TypeOK
  <1>4. ASSUME NEW t \in Threads, NEW n \in Names, ReportFailure(t, n) PROVE TypeOK'
    <2>1. calls' \in Nat
      BY <1>4, BeginType, Zenon DEF ReportFailure
    <2> QED  BY <1>4, <2>1, Zenon DEF ReportFailure, Goto, Labels, TypeOK
  <1>5. ASSUME NEW t \in Threads, NEW n \in Names, WithKey(t, n) PROVE TypeOK'
    <2>1. calls' \in Nat
      BY <1>5, BeginType, Zenon DEF WithKey
    <2> QED  BY <1>5, <2>1, Zenon DEF WithKey, Goto, Labels, TypeOK
  <1>6. ASSUME NEW t \in Threads, NEW n \in Names, IsKeyLockedOut(t, n) PROVE TypeOK'
    <2>1. calls' \in Nat
      BY <1>6, BeginType, Zenon DEF IsKeyLockedOut
    <2> QED  BY <1>6, <2>1, Zenon DEF IsKeyLockedOut, Goto, Labels, TypeOK
  <1>7. ASSUME NEW t \in Threads, NEW n \in Names, ClearKeyLockout(t, n) PROVE TypeOK'
    <2>1. calls' \in Nat
      BY <1>7, BeginType, Zenon DEF ClearKeyLockout
    <2>2. DOMAIN key_locks' \subseteq Names /\ key_locks' \in [DOMAIN key_locks' -> Nat]
      BY <1>7, Zenon DEF ClearKeyLockout, Remove, TypeOK
    <2> QED  BY <1>7, <2>1, <2>2, Zenon DEF ClearKeyLockout, Goto, Labels, TypeOK
  <1>8. ASSUME NEW t \in Threads, ClearLockout(t) PROVE TypeOK'
    <2>1. calls' \in Nat
      BY <1>8, BeginType, Zenon DEF ClearLockout
    <2> QED  BY <1>8, <2>1, Zenon DEF ClearLockout, ClearFlag, Goto, Labels, TypeOK
  <1>9. ASSUME NEW t \in Threads, NEW matched \in BOOLEAN, UnlockWithMaster(t, matched) PROVE TypeOK'
    <2>1. calls' \in Nat
      BY <1>9, BeginType, Zenon DEF UnlockWithMaster
    <2>2. backoff.failures + 1 \in Nat /\ clock \in Nat
      <3>1. backoff \in [failures : Nat, next_allowed : Nat] /\ clock \in Nat
        BY Zenon DEF TypeOK
      <3> QED  BY <3>1
    <2>3. BackoffDelay(backoff.failures + 1) \in Nat
      BY <2>2, BackoffDelayType, LockoutAssumption
    <2>4. backoff' \in [failures : Nat, next_allowed : Nat]
      <3>1. clock + BackoffDelay(backoff.failures + 1) \in Nat
        BY <2>2, <2>3
      <3> QED  BY <1>9, <2>2, <3>1 DEF UnlockWithMaster
    <2>5. pc' \in [Threads -> Labels]
      BY <1>9, Zenon DEF UnlockWithMaster, Goto, Labels, TypeOK
    <2> QED  BY <1>9, <2>1, <2>4, <2>5, Zenon DEF UnlockWithMaster, TypeOK
  <1>10. ASSUME NEW t \in Threads, ReadNow(t) PROVE TypeOK'
    BY <1>10, Zenon DEF ReadNow, Goto, Labels, TypeOK
  <1>11. ASSUME NEW t \in Threads, RecordFailure(t) PROVE TypeOK'
    BY <1>11, RecordFailureType, Zenon
  <1>12. ASSUME NEW t \in Threads, TripVault(t) PROVE TypeOK'
    BY <1>12, ReturnType, Zenon DEF TripVault, Goto, Labels, TypeOK
  <1>13. ASSUME NEW t \in Threads, StampUntil(t) PROVE TypeOK'
    <2>1. (IF KeyLockExpires THEN clock + KeyDuration ELSE 0) \in Nat
      BY <1>0 DEF TypeOK
    <2> QED  BY <1>13, <2>1, Zenon DEF StampUntil, Goto, Labels, TypeOK
  <1>14. ASSUME NEW t \in Threads, LockKey(t) PROVE TypeOK'
    BY <1>14, ReturnType, Zenon DEF LockKey, Insert, Goto, Labels, TypeOK
  <1>15. ASSUME NEW t \in Threads, CountKeyLock(t) PROVE TypeOK'
    BY <1>15, ReturnType, WrapType, Zenon DEF CountKeyLock, TypeOK
  <1>16. ASSUME NEW t \in Threads, KeyLocked(t) PROVE TypeOK'
    BY <1>16, ReturnType, Zenon DEF KeyLocked, Goto, Labels, TypeOK
  <1>17. ASSUME NEW t \in Threads, KeyLockedSlow(t) PROVE TypeOK'
    <2>1. DOMAIN key_locks' \subseteq Names /\ key_locks' \in [DOMAIN key_locks' -> Nat]
      BY <1>17 DEF KeyLockedSlow, Remove, TypeOK
    <2>2. CASE ~(name[t] \in DOMAIN key_locks /\ ~InForce(name[t]))
      BY <1>17, <2>1, <2>2, ReturnType, Zenon DEF KeyLockedSlow, TypeOK
    <2>3. CASE name[t] \in DOMAIN key_locks /\ ~InForce(name[t])
      BY <1>17, <2>1, <2>3, Zenon DEF KeyLockedSlow, Goto, Labels, TypeOK
    <2> QED  BY <2>2, <2>3, Zenon
  <1>18. ASSUME NEW t \in Threads, PruneCount(t) PROVE TypeOK'
    BY <1>18, WrapType, Zenon DEF PruneCount, Goto, Labels, TypeOK
  <1>19. ASSUME NEW t \in Threads, PruneForget(t) PROVE TypeOK'
    BY <1>19, ReturnType, ForgetType, Zenon DEF PruneForget, TypeOK
  <1>20. ASSUME NEW t \in Threads, ClearKeyCount(t) PROVE TypeOK'
    BY <1>20, WrapType, Zenon DEF ClearKeyCount, Goto, Labels, TypeOK
  <1>21. ASSUME NEW t \in Threads, ClearKeyForget(t) PROVE TypeOK'
    BY <1>21, ReturnType, ForgetType, Zenon DEF ClearKeyForget, TypeOK
  <1>22. ASSUME NEW t \in Threads, MasterClear(t) PROVE TypeOK'
    BY <1>22, Zenon DEF MasterClear, ClearFlag, Goto, Labels, TypeOK
  <1>23. ASSUME NEW t \in Threads, ClearKeyLocks(t) PROVE TypeOK'
    BY <1>23, Zenon DEF ClearKeyLocks, Goto, Labels, TypeOK
  <1>24. ASSUME NEW t \in Threads, ResetCounter(t) PROVE TypeOK'
    <2>1. Cardinality({u \in Threads : pc[u] = "ck_sub"}) \in Nat
      BY LockoutAssumption, FS_Subset, FS_CardinalityType, Zenon
    <2>2. key_locks_active' \in 0 .. UsizeMax
      BY <1>24, LockoutAssumption DEF ResetCounter
    <2> QED  BY <1>24, <2>1, <2>2, Zenon DEF ResetCounter, Goto, Labels, TypeOK
  <1>25. ASSUME NEW t \in Threads, ClearTracker(t) PROVE TypeOK'
    BY <1>25, ReturnType, ForgetType, Zenon DEF ClearTracker, TypeOK
  <1> QED
    BY <1>1, <1>2, <1>3, <1>4, <1>5, <1>6, <1>7, <1>8, <1>9, <1>10, <1>11, <1>12, <1>13,
       <1>14, <1>15, <1>16, <1>17, <1>18, <1>19, <1>20, <1>21, <1>22, <1>23, <1>24, <1>25, Zenon
    DEF Next, Call, Step

\* Whatever the callers do, the state of the lockout subsystem keeps its types;
\* in particular key_locks_active stays within usize.
THEOREM TypeCorrect == Spec => []TypeOK
  <1>1. Init => TypeOK
    BY TypeInit, Zenon
  <1>2. TypeOK /\ [Next]_vars => TypeOK'
    BY TypeStep, Zenon
  <1> QED  BY <1>1, <1>2, PTL DEF Spec

-----------------------------------------------------------------------------
(* The counter of per-key lockouts.                                        *)

\* The threads at a point of the code are finitely many.
LEMMA AtFinite ==
  ASSUME NEW label
  PROVE  /\ IsFiniteSet(At(label))
         /\ Cardinality(At(label)) \in Nat
         /\ Cardinality(At(label)) <= Cardinality(Threads)
  <1>1. At(label) \in SUBSET Threads
    BY Zenon DEF At
  <1> QED  BY <1>1, LockoutAssumption, FS_Subset, FS_CardinalityType, Zenon

\* A thread moving from one point to another leaves the first and joins the second.
LEMMA Move ==
  ASSUME TypeOK, NEW t \in Threads, NEW from, NEW to,
         pc[t] = from, Goto(t, to), from # to
  PROVE  /\ pc'[t] = to
         /\ \A u \in Threads : u # t => pc'[u] = pc[u]
         /\ At(to)' = At(to) \cup {t}
         /\ At(from)' = At(from) \ {t}
         /\ \A x : x \notin {to, from} => At(x)' = At(x)
  <1>1. pc'[t] = to /\ \A u \in Threads : u # t => pc'[u] = pc[u]
    BY Zenon DEF TypeOK, Goto
  <1>2. At(to)' = At(to) \cup {t}
    BY <1>1, Zenon DEF At
  <1>3. At(from)' = At(from) \ {t}
    BY <1>1, Zenon DEF At
  <1>4. ASSUME NEW x, x \notin {to, from} PROVE At(x)' = At(x)
    BY <1>1, <1>4, Zenon DEF At
  <1> QED  BY <1>1, <1>2, <1>3, <1>4, Zenon

\* The same, counted.
LEMMA MoveCount ==
  ASSUME TypeOK, NEW t \in Threads, NEW from, NEW to,
         pc[t] = from, Goto(t, to), from # to
  PROVE  /\ Cardinality(At(to)') = Cardinality(At(to)) + 1
         /\ Cardinality(At(from)') = Cardinality(At(from)) - 1
         /\ \A x : x \notin {to, from} => Cardinality(At(x)') = Cardinality(At(x))
  <1>1. t \notin At(to) /\ t \in At(from)
    BY Zenon DEF At
  <1>2. IsFiniteSet(At(to)) /\ IsFiniteSet(At(from))
    BY AtFinite, Zenon
  <1>3. Cardinality(At(to) \cup {t}) = Cardinality(At(to)) + 1
    BY <1>1, <1>2, FS_AddElement, Zenon
  <1>4. Cardinality(At(from) \ {t}) = Cardinality(At(from)) - 1
    BY <1>1, <1>2, FS_RemoveElement, Zenon
  <1> QED  BY <1>3, <1>4, Move, Zenon

\* At most one thread is at a given point inside the mutex.
LEMMA HeldOnce ==
  ASSUME MutexInv, NEW label \in Holding
  PROVE  /\ Cardinality(At(label)) <= 1
         /\ \A t \in Threads : pc[t] = label => At(label) = {t} /\ Cardinality(At(label)) = 1
         /\ \A other \in Holding : other # label /\ At(label) # {} => At(other) = {}
  <1>1. At(label) \in SUBSET {lock_owner}
    BY Zenon DEF MutexInv, At
  <1>2. IsFiniteSet({lock_owner}) /\ Cardinality({lock_owner}) = 1
    BY FS_Singleton, Zenon
  <1>3. Cardinality(At(label)) <= 1
    BY <1>1, <1>2, FS_Subset, Zenon
  <1>4. ASSUME NEW t \in Threads, pc[t] = label PROVE At(label) = {t} /\ Cardinality(At(label)) = 1
    <2>1. At(label) = {t}
      BY <1>4, Zenon DEF MutexInv, At
    <2> QED  BY <2>1, FS_Singleton, Zenon
  <1>5. ASSUME NEW other \in Holding, other # label, At(label) # {} PROVE At(other) = {}
    BY <1>5, Zenon DEF MutexInv, At
  <1> QED  BY <1>3, <1>4, <1>5, Zenon

\* A step that takes the mutex when it is free, keeps it, or leaves it, preserves
\* mutual exclusion.
LEMMA MutexStep ==
  ASSUME TypeOK, MutexInv, NEW t \in Threads, NEW from, NEW to,
         pc[t] = from, Goto(t, to), from # to,
         from \notin Holding /\ to \in Holding => lock_owner = NoThread,
         lock_owner' = IF to \in Holding THEN t
                       ELSE IF from \in Holding THEN NoThread ELSE lock_owner
  PROVE  MutexInv'
  <1>1. pc'[t] = to /\ \A u \in Threads : u # t => pc'[u] = pc[u]
    BY Move, Zenon
  <1>2. NoThread \notin Threads
    BY LockoutAssumption, Zenon
  <1> QED  BY <1>1, <1>2, Zenon DEF MutexInv

\* The terms of CounterAccounted are numbers, and small ones.
LEMMA TermTypes ==
  ASSUME TypeOK, CounterInv
  PROVE  /\ IsFiniteSet(DOMAIN key_locks)
         /\ Cardinality(DOMAIN key_locks) \in Nat
         /\ Cardinality(At("ck_sub")) \in Nat
         /\ Cardinality(At("kl_sub")) \in Nat
         /\ Cardinality(At("hf_add")) \in Nat
         /\ debt \in Nat /\ UsizeMax \in Nat /\ key_locks_active \in 0 .. UsizeMax
         /\ Owed \in Nat /\ Paid \in Nat
         /\ Owed <= UsizeMax
         /\ Paid <= UsizeMax
  <1>1. /\ IsFiniteSet(DOMAIN key_locks)
        /\ Cardinality(DOMAIN key_locks) \in Nat
        /\ Cardinality(DOMAIN key_locks) <= Cardinality(Names)
    BY LockoutAssumption, FS_Subset, FS_CardinalityType, Zenon DEF TypeOK
  <1>2. /\ Cardinality(At("ck_sub")) \in Nat
        /\ Cardinality(At("kl_sub")) \in Nat
        /\ Cardinality(At("hf_add")) \in Nat
        /\ Cardinality(At("ck_sub")) <= Cardinality(Threads)
    BY AtFinite, Zenon
  <1>3. Cardinality(At("kl_sub")) <= 1 /\ Cardinality(At("hf_add")) <= 1
    BY HeldOnce, Zenon DEF CounterInv, Holding
  <1>4. debt \in Nat /\ debt <= Cardinality(Threads) /\ key_locks_active \in 0 .. UsizeMax
    BY Zenon DEF TypeOK, CounterInv
  <1>5. /\ UsizeMax \in Nat /\ Cardinality(Threads) \in Nat /\ Cardinality(Names) \in Nat
        /\ UsizeMax > Cardinality(Names) + Cardinality(Threads)
    BY LockoutAssumption, FS_CardinalityType, Zenon
  <1> QED  BY <1>1, <1>2, <1>3, <1>4, <1>5 DEF Owed, Paid

\* A step outside the critical sections that leaves the locked names, the counter
\* and the mutex alone.
LEMMA NeutralStep ==
  ASSUME TypeOK, CounterInv, NEW t \in Threads, NEW from, NEW to,
         pc[t] = from, Goto(t, to), from # to,
         from \notin Holding \cup {"ck_sub"}, to \notin Holding \cup {"ck_sub"},
         \A u \in Threads : u # t => name'[u] = name[u],
         DOMAIN key_locks' = DOMAIN key_locks,
         UNCHANGED <<key_locks_active, lock_owner, debt>>
  PROVE  CounterInv'
  <1>1. MutexInv'
    BY MutexStep, Zenon DEF CounterInv
  <1>2. \A x \in Holding \cup {"ck_sub"} : At(x)' = At(x)
    BY Move
  <1>3. At("hf_add")' = At("hf_add") /\ At("cl_zero")' = At("cl_zero")
        /\ At("ck_sub")' = At("ck_sub") /\ At("kl_sub")' = At("kl_sub")
    BY <1>2, Zenon DEF Holding
  <1>4. \A u \in At("hf_add") : u \in Threads /\ u # t
    BY Zenon DEF At, Holding
  <1>5. \A u \in At("hf_add")' : name'[u] \in DOMAIN key_locks'
    BY <1>3, <1>4, Zenon DEF CounterInv
  <1>6. CounterAccounted'
    BY <1>3, Zenon DEF CounterInv, CounterAccounted, Owed, Paid
  <1> QED  BY <1>1, <1>3, <1>5, <1>6, Zenon DEF CounterInv

\* A breach that locks the key anew: the entry is in the map, the mutex is held,
\* the counter still lacks it.
LEMMA LockKeyStep ==
  ASSUME TypeOK, CounterInv, NEW t \in Threads, LockKey(t)
  PROVE  CounterInv'
  <1> USE DEF Holding
  <1>1. name[t] \in Names /\ pc[t] = "hf_insert" /\ lock_owner = NoThread
        /\ debt' = debt /\ key_locks_active' = key_locks_active
        /\ DOMAIN key_locks' = DOMAIN key_locks \cup {name[t]}
    BY Zenon DEF LockKey, TypeOK, Insert, history
  <1>2. CASE ~NewlyLocked(name[t])
    <2>1. /\ Goto(t, "idle") /\ DOMAIN key_locks' = DOMAIN key_locks
          /\ \A u \in Threads : u # t => name'[u] = name[u]
          /\ UNCHANGED <<key_locks_active, lock_owner, debt>>
      <3>1. Return(t) /\ UNCHANGED <<key_locks_active, lock_owner, debt>>
        BY <1>2, Zenon DEF LockKey, history
      <3>2. DOMAIN key_locks' = DOMAIN key_locks
        BY <1>1, <1>2, Zenon DEF NewlyLocked
      <3>3. name \in [Threads -> Names]
        BY Zenon DEF TypeOK
      <3>4. \A u \in Threads : u # t => name'[u] = name[u]
        BY <3>1, <3>3, Zenon DEF Return
      <3> QED  BY <3>1, <3>2, <3>4, Zenon DEF Return
    <2> QED  BY <1>1, <2>1, NeutralStep, Zenon
  <1>3. CASE NewlyLocked(name[t])
    <2>1. lock_owner' = t /\ Goto(t, "hf_add") /\ name' = name
      BY <1>3, Zenon DEF LockKey
    <2>2. MutexInv'
      BY <1>1, <2>1, MutexStep, Zenon DEF CounterInv
    <2>3. At("hf_add") = {} /\ At("cl_zero") = {}
      BY <1>1, LockoutAssumption, Zenon DEF CounterInv, MutexInv, At
    <2>4. At("hf_add")' = {t} /\ At("cl_zero")' = {} /\ At("ck_sub")' = At("ck_sub")
          /\ At("kl_sub")' = At("kl_sub")
      BY <1>1, <2>1, <2>3, Move
    <2>5. Cardinality(At("hf_add")') = Cardinality(At("hf_add")) + 1
      BY <1>1, <2>1, MoveCount, Zenon
    <2>6. Cardinality(DOMAIN key_locks') = Cardinality(DOMAIN key_locks) + 1
      BY <1>1, <1>3, TermTypes, FS_AddElement, Zenon DEF NewlyLocked
    <2>7. CounterAccounted'
      <3>1. \/ key_locks_active + Paid = Owed
            \/ key_locks_active + Paid = Owed + UsizeMax + 1
        BY <2>3, Zenon DEF CounterInv, CounterAccounted
      <3>2. Owed' = Owed + 1 /\ Paid' = Paid + 1
        <4>1. /\ Cardinality(DOMAIN key_locks) \in Nat /\ Cardinality(At("ck_sub")) \in Nat
              /\ Cardinality(At("kl_sub")) \in Nat /\ Cardinality(At("hf_add")) \in Nat
              /\ debt \in Nat
          BY TermTypes, Zenon
        <4>2. Owed' = Owed + 1
          BY <2>4, <2>6, <4>1 DEF Owed
        <4>3. Paid' = Paid + 1
          BY <1>1, <2>5, <4>1 DEF Paid
        <4> QED  BY <4>2, <4>3, Zenon
      <3> QED  BY <1>1, <3>1, <3>2, TermTypes DEF CounterAccounted
    <2> QED  BY <1>1, <2>1, <2>2, <2>4, <2>7, Zenon DEF CounterInv
  <1> QED  BY <1>2, <1>3, Zenon

\* The fetch_add settles it.
LEMMA CountKeyLockStep ==
  ASSUME TypeOK, CounterInv, NEW t \in Threads, CountKeyLock(t)
  PROVE  CounterInv'
  <1> USE DEF Holding
  <1>1. /\ pc[t] = "hf_add" /\ Goto(t, "idle") /\ lock_owner' = NoThread
        /\ debt' = debt /\ key_locks' = key_locks
        /\ key_locks_active' = WrapInc(key_locks_active)
    BY Zenon DEF CountKeyLock, Return, history
  <1>2. MutexInv'
    BY <1>1, MutexStep, Zenon DEF CounterInv
  <1>3. At("hf_add") = {t} /\ At("cl_zero") = {}
    BY <1>1, HeldOnce, Zenon DEF CounterInv
  <1>4. At("hf_add")' = {} /\ At("cl_zero")' = {}
    BY <1>1, <1>3, Move
  <1>5. /\ Cardinality(At("hf_add")') = Cardinality(At("hf_add")) - 1
        /\ Cardinality(At("ck_sub")') = Cardinality(At("ck_sub"))
        /\ Cardinality(At("kl_sub")') = Cardinality(At("kl_sub"))
    BY <1>1, MoveCount
  <1>6. CounterAccounted'
    <2>1. Cardinality(At("hf_add")) = 1
      BY <1>3, FS_Singleton, Zenon
    <2>2. \/ key_locks_active + Paid = Owed
          \/ key_locks_active + Paid = Owed + UsizeMax + 1
      BY <1>3, Zenon DEF CounterInv, CounterAccounted
    <2>3. Owed' = Owed /\ Paid' = Paid - 1 /\ Paid >= 1
      BY <1>1, <1>5, <2>1, TermTypes DEF Owed, Paid
    <2> QED  BY <1>1, <2>2, <2>3, TermTypes DEF CounterAccounted, WrapInc
  <1> QED  BY <1>1, <1>2, <1>4, <1>6, Zenon DEF CounterInv

\* An expired entry leaves the map; its subtraction is pending.
LEMMA KeyLockedSlowStep ==
  ASSUME TypeOK, CounterInv, NEW t \in Threads, KeyLockedSlow(t)
  PROVE  CounterInv'
  <1> USE DEF Holding
  <1>1. /\ pc[t] = "kl_slow" /\ lock_owner = NoThread
        /\ debt' = debt /\ key_locks_active' = key_locks_active
    BY Zenon DEF KeyLockedSlow, history
  <1>2. CASE ~(name[t] \in DOMAIN key_locks /\ ~InForce(name[t]))
    <2>1. /\ Goto(t, "idle") /\ key_locks' = key_locks
          /\ \A u \in Threads : u # t => name'[u] = name[u]
          /\ UNCHANGED <<key_locks_active, lock_owner, debt>>
      BY <1>1, <1>2, Zenon DEF KeyLockedSlow, Return, TypeOK
    <2> QED  BY <1>1, <2>1, NeutralStep, Zenon
  <1>3. CASE name[t] \in DOMAIN key_locks /\ ~InForce(name[t])
    <2>1. /\ lock_owner' = t /\ Goto(t, "kl_sub") /\ name' = name
          /\ DOMAIN key_locks' = DOMAIN key_locks \ {name[t]}
      BY <1>3, Zenon DEF KeyLockedSlow, Remove
    <2>2. MutexInv'
      BY <1>1, <2>1, MutexStep, Zenon DEF CounterInv
    <2>3. At("hf_add") = {} /\ At("cl_zero") = {}
      BY <1>1, LockoutAssumption, Zenon DEF CounterInv, MutexInv, At
    <2>4. At("hf_add")' = {} /\ At("cl_zero")' = {}
      BY <1>1, <2>1, <2>3, Move
    <2>5. /\ Cardinality(At("kl_sub")') = Cardinality(At("kl_sub")) + 1
          /\ Cardinality(At("ck_sub")') = Cardinality(At("ck_sub"))
          /\ Cardinality(At("hf_add")') = Cardinality(At("hf_add"))
      BY <1>1, <2>1, MoveCount
    <2>6. Cardinality(DOMAIN key_locks') = Cardinality(DOMAIN key_locks) - 1
      <3>1. IsFiniteSet(DOMAIN key_locks)
        BY TermTypes, Zenon
      <3>2. Cardinality(DOMAIN key_locks \ {name[t]}) = Cardinality(DOMAIN key_locks) - 1
        BY <1>3, <3>1, FS_RemoveElement, Zenon
      <3> QED  BY <2>1, <3>2, Zenon
    <2>7. Owed' = Owed /\ Paid' = Paid
      <3>1. Cardinality(DOMAIN key_locks) \in Nat /\ Cardinality(At("ck_sub")) \in Nat
            /\ Cardinality(At("kl_sub")) \in Nat
        BY TermTypes, Zenon
      <3> QED  BY <1>1, <2>5, <2>6, <3>1 DEF Owed, Paid
    <2>8. CounterAccounted'
      BY <1>1, <2>3, <2>7, Zenon DEF CounterInv, CounterAccounted
    <2> QED  BY <1>1, <2>2, <2>4, <2>8, Zenon DEF CounterInv
  <1> QED  BY <1>2, <1>3, Zenon

\* The fetch_sub settles it, for an expired entry and for a cleared one alike.
LEMMA SubtractStep ==
  ASSUME TypeOK, CounterInv, NEW t \in Threads, PruneCount(t) \/ ClearKeyCount(t)
  PROVE  CounterInv'
  <1> USE DEF Holding
  <1>1. /\ key_locks' = key_locks /\ debt' = debt /\ lock_owner' = lock_owner /\ name' = name
        /\ key_locks_active' = WrapDec(key_locks_active)
    BY Zenon DEF PruneCount, ClearKeyCount, history
  <1>2. ASSUME Owed' = Owed - 1, Paid' = Paid, Owed >= 1, At("cl_zero")' = At("cl_zero")
        PROVE  CounterAccounted'
    <2> SUFFICES ASSUME At("cl_zero") = {}
                 PROVE  \/ key_locks_active' + Paid' = Owed'
                        \/ key_locks_active' + Paid' = Owed' + UsizeMax + 1
      BY <1>2, Zenon DEF CounterAccounted
    <2>1. \/ key_locks_active + Paid = Owed
          \/ key_locks_active + Paid = Owed + UsizeMax + 1
      BY Zenon DEF CounterInv, CounterAccounted
    <2> QED  BY <1>1, <1>2, <2>1, TermTypes DEF WrapDec
  <1>3. CASE PruneCount(t)
    <2>1. pc[t] = "kl_sub" /\ Goto(t, "kl_forget")
      BY <1>3, Zenon DEF PruneCount
    <2>2. lock_owner = t
      BY <2>1, Zenon DEF CounterInv, MutexInv
    <2>3. MutexInv'
      BY <1>1, <2>1, <2>2, MutexStep, Zenon DEF CounterInv
    <2>4. At("hf_add")' = At("hf_add") /\ At("cl_zero")' = At("cl_zero")
      BY <2>1, Move
    <2>5. /\ Cardinality(At("kl_sub")') = Cardinality(At("kl_sub")) - 1
          /\ Cardinality(At("ck_sub")') = Cardinality(At("ck_sub"))
          /\ Cardinality(At("kl_sub")) = 1
      <3>1. /\ Cardinality(At("kl_sub")') = Cardinality(At("kl_sub")) - 1
            /\ Cardinality(At("ck_sub")') = Cardinality(At("ck_sub"))
        BY <2>1, MoveCount
      <3>2. Cardinality(At("kl_sub")) = 1
        BY <2>1, HeldOnce, Zenon DEF CounterInv
      <3> QED  BY <3>1, <3>2, Zenon
    <2>6. Owed' = Owed - 1 /\ Paid' = Paid /\ Owed >= 1
      <3>1. Paid' = Paid
        BY <1>1, <2>4, Zenon DEF Paid
      <3>2. Cardinality(DOMAIN key_locks) \in Nat /\ Cardinality(At("ck_sub")) \in Nat
        BY TermTypes, Zenon
      <3>3. Cardinality(DOMAIN key_locks') = Cardinality(DOMAIN key_locks)
        BY <1>1, Zenon
      <3> QED  BY <2>5, <3>1, <3>2, <3>3 DEF Owed
    <2> QED  BY <1>1, <1>2, <2>3, <2>4, <2>6, Zenon DEF CounterInv
  <1>4. CASE ClearKeyCount(t)
    <2>1. pc[t] = "ck_sub" /\ Goto(t, "ck_forget")
      BY <1>4, Zenon DEF ClearKeyCount
    <2>2. MutexInv'
      BY <1>1, <2>1, MutexStep DEF CounterInv
    <2>3. At("hf_add")' = At("hf_add") /\ At("cl_zero")' = At("cl_zero")
      BY <2>1, Move
    <2>4. /\ Cardinality(At("ck_sub")') = Cardinality(At("ck_sub")) - 1
          /\ Cardinality(At("kl_sub")') = Cardinality(At("kl_sub"))
          /\ Cardinality(At("ck_sub")) >= 1
      <3>1. At("ck_sub") # {}
        BY <2>1, Zenon DEF At
      <3>2. Cardinality(At("ck_sub")) # 0
        BY <3>1, AtFinite, FS_EmptySet, Zenon
      <3> QED  BY <2>1, <3>2, AtFinite, MoveCount
    <2>5. Owed' = Owed - 1 /\ Paid' = Paid /\ Owed >= 1
      <3>1. Paid' = Paid
        BY <1>1, <2>3, Zenon DEF Paid
      <3>2. Cardinality(DOMAIN key_locks) \in Nat /\ Cardinality(At("kl_sub")) \in Nat
            /\ Cardinality(At("ck_sub")) \in Nat
        BY TermTypes, Zenon
      <3>3. Cardinality(DOMAIN key_locks') = Cardinality(DOMAIN key_locks)
        BY <1>1, Zenon
      <3> QED  BY <2>4, <3>1, <3>2, <3>3 DEF Owed
    <2> QED  BY <1>1, <1>2, <2>2, <2>3, <2>5, Zenon DEF CounterInv
  <1> QED  BY <1>3, <1>4, Zenon

\* Leaving the expiry's critical section.
LEMMA PruneForgetStep ==
  ASSUME TypeOK, CounterInv, NEW t \in Threads, PruneForget(t)
  PROVE  CounterInv'
  <1> USE DEF Holding
  <1>1. /\ pc[t] = "kl_forget" /\ Goto(t, "idle") /\ lock_owner' = NoThread
        /\ key_locks' = key_locks /\ debt' = debt /\ key_locks_active' = key_locks_active
        /\ \A u \in Threads : u # t => name'[u] = name[u]
    BY Zenon DEF PruneForget, Return, TypeOK
  <1>2. MutexInv'
    BY <1>1, MutexStep, Zenon DEF CounterInv
  <1>3. /\ At("hf_add")' = At("hf_add") /\ At("cl_zero")' = At("cl_zero")
        /\ At("ck_sub")' = At("ck_sub") /\ At("kl_sub")' = At("kl_sub")
    <2>1. pc[t] = "kl_forget" /\ Goto(t, "idle")
      BY <1>1, Zenon
    <2>2. \A x : x \notin {"idle", "kl_forget"} => At(x)' = At(x)
      BY <2>1, Move, Zenon
    <2> QED  BY <2>2, Zenon
  <1>4. \A u \in At("hf_add") : u \in Threads /\ u # t
    BY <1>1, Zenon DEF At
  <1>5. CounterAccounted'
    BY <1>1, <1>3, Zenon DEF CounterInv, CounterAccounted, Owed, Paid
  <1> QED  BY <1>1, <1>2, <1>3, <1>4, <1>5, Zenon DEF CounterInv

\* clear_key_lockout takes the entry out and releases the mutex; the subtraction
\* is still to come.
LEMMA ClearKeyLockoutStep ==
  ASSUME TypeOK, CounterInv, NEW t \in Threads, NEW n \in Names, ClearKeyLockout(t, n)
  PROVE  CounterInv'
  <1> USE DEF Holding
  <1>1. /\ pc[t] = "idle" /\ lock_owner = NoThread /\ lock_owner' = lock_owner
        /\ debt' = debt /\ key_locks_active' = key_locks_active
        /\ DOMAIN key_locks' = DOMAIN key_locks \ {n}
        /\ \A u \in Threads : u # t => name'[u] = name[u]
    BY Zenon DEF ClearKeyLockout, Begin, Remove, TypeOK, history
  <1>2. CASE n \notin DOMAIN key_locks
    <2>1. Goto(t, "ck_forget") /\ DOMAIN key_locks' = DOMAIN key_locks
      BY <1>1, <1>2, Zenon DEF ClearKeyLockout
    <2> QED  BY <1>1, <2>1, NeutralStep, Zenon
  <1>3. CASE n \in DOMAIN key_locks
    <2>1. Goto(t, "ck_sub")
      BY <1>3, Zenon DEF ClearKeyLockout
    <2>2. MutexInv'
      <3>1. pc'[t] = "ck_sub" /\ \A u \in Threads : u # t => pc'[u] = pc[u]
        BY <2>1, Zenon DEF Goto, TypeOK
      <3>2. MutexInv /\ NoThread \notin Threads
        BY LockoutAssumption, Zenon DEF CounterInv
      <3> QED  BY <1>1, <3>1, <3>2, Zenon DEF MutexInv
    <2>3. At("hf_add") = {} /\ At("cl_zero") = {}
      BY <1>1, LockoutAssumption, Zenon DEF CounterInv, MutexInv, At
    <2>4. At("hf_add")' = {} /\ At("cl_zero")' = {}
      <3>1. pc[t] = "idle"
        BY <1>1, Zenon
      <3>2. \A x : x \notin {"ck_sub", "idle"} => At(x)' = At(x)
        BY <2>1, <3>1, Move, Zenon
      <3> QED  BY <2>3, <3>2, Zenon
    <2>5. /\ Cardinality(At("ck_sub")') = Cardinality(At("ck_sub")) + 1
          /\ Cardinality(At("kl_sub")') = Cardinality(At("kl_sub"))
          /\ Cardinality(At("hf_add")') = Cardinality(At("hf_add"))
      <3>1. pc[t] = "idle"
        BY <1>1, Zenon
      <3>2. /\ Cardinality(At("ck_sub")') = Cardinality(At("ck_sub")) + 1
            /\ \A x : x \notin {"ck_sub", "idle"} => Cardinality(At(x)') = Cardinality(At(x))
        BY <2>1, <3>1, MoveCount
      <3> QED  BY <3>2, Zenon
    <2>6. Cardinality(DOMAIN key_locks') = Cardinality(DOMAIN key_locks) - 1
      <3>1. IsFiniteSet(DOMAIN key_locks)
        BY TermTypes, Zenon
      <3>2. Cardinality(DOMAIN key_locks \ {n}) = Cardinality(DOMAIN key_locks) - 1
        BY <1>3, <3>1, FS_RemoveElement, Zenon
      <3> QED  BY <1>1, <3>2, Zenon
    <2>7. Owed' = Owed /\ Paid' = Paid
      <3>1. Cardinality(DOMAIN key_locks) \in Nat /\ Cardinality(At("ck_sub")) \in Nat
            /\ Cardinality(At("kl_sub")) \in Nat
        BY TermTypes, Zenon
      <3>2. Paid' = Paid
        BY <1>1, <2>5, Zenon DEF Paid
      <3>3. Owed' = (Cardinality(DOMAIN key_locks) - 1) + (Cardinality(At("ck_sub")) + 1)
                    + Cardinality(At("kl_sub"))
        BY <2>5, <2>6, Zenon DEF Owed
      <3>4. Owed' = Owed
        BY <3>1, <3>3 DEF Owed
      <3> QED  BY <3>2, <3>4, Zenon
    <2>8. CounterAccounted'
      BY <1>1, <2>3, <2>7, Zenon DEF CounterInv, CounterAccounted
    <2> QED  BY <1>1, <2>2, <2>4, <2>8, Zenon DEF CounterInv
  <1> QED  BY <1>2, <1>3, Zenon

\* clear_lockout empties the map, then stores 0: the subtractions pending at that
\* moment are counted twice.
LEMMA ClearLockoutSteps ==
  ASSUME TypeOK, CounterInv, NEW t \in Threads, ClearKeyLocks(t) \/ ResetCounter(t)
  PROVE  CounterInv'
  <1> USE DEF Holding
  <1>1. CASE ClearKeyLocks(t)
    <2>1. /\ pc[t] = "cl_keys" /\ Goto(t, "cl_zero") /\ lock_owner = NoThread /\ lock_owner' = t
          /\ DOMAIN key_locks' = {} /\ debt' = debt
      BY <1>1, Zenon DEF ClearKeyLocks, history
    <2>2. MutexInv'
      BY <2>1, MutexStep, Zenon DEF CounterInv
    <2>3. At("hf_add") = {}
      BY <2>1, LockoutAssumption, Zenon DEF CounterInv, MutexInv, At
    <2>4. At("hf_add")' = {} /\ At("cl_zero")' # {}
      <3>1. pc[t] = "cl_keys" /\ Goto(t, "cl_zero")
        BY <2>1, Zenon
      <3>2. /\ At("cl_zero")' = At("cl_zero") \cup {t}
            /\ \A x : x \notin {"cl_zero", "cl_keys"} => At(x)' = At(x)
        BY <3>1, Move
      <3> QED  BY <2>3, <3>2, Zenon
    <2> QED  BY <2>1, <2>2, <2>4, Zenon DEF CounterInv, CounterAccounted
  <1>2. CASE ResetCounter(t)
    <2>1. /\ pc[t] = "cl_zero" /\ Goto(t, "cl_tracker") /\ lock_owner' = NoThread
          /\ key_locks' = key_locks /\ key_locks_active' = 0
          /\ debt' = Cardinality(At("ck_sub"))
      BY <1>2, Zenon DEF ResetCounter, At
    <2>2. MutexInv'
      BY <2>1, MutexStep, Zenon DEF CounterInv
    <2>3. At("hf_add") = {} /\ At("kl_sub") = {} /\ At("cl_zero") = {t} /\ DOMAIN key_locks = {}
      BY <2>1, HeldOnce, Zenon DEF CounterInv, At
    <2>4. /\ At("hf_add")' = {} /\ At("kl_sub")' = {} /\ At("ck_sub")' = At("ck_sub")
          /\ At("cl_zero")' = {}
      <3>1. \A x : x \notin {"cl_tracker", "cl_zero"} => At(x)' = At(x)
        BY <2>1, Move, Zenon
      <3>2. At("cl_zero")' = At("cl_zero") \ {t}
        BY <2>1, Move, Zenon
      <3> QED  BY <2>3, <3>1, <3>2, Zenon
    <2>5. Owed' = Cardinality(At("ck_sub")) /\ Paid' = Cardinality(At("ck_sub"))
      <3>1. DOMAIN key_locks' = {} /\ Cardinality({}) = 0 /\ Cardinality(At("ck_sub")) \in Nat
        BY <2>1, <2>3, AtFinite, FS_EmptySet, Zenon
      <3>2. Paid' = Cardinality({}) + Cardinality(At("ck_sub"))
        BY <2>1, <2>4, Zenon DEF Paid
      <3>3. Owed' = Cardinality({}) + Cardinality(At("ck_sub")) + Cardinality({})
        BY <2>4, <3>1, Zenon DEF Owed
      <3> QED  BY <3>1, <3>2, <3>3
    <2>6. CounterAccounted'
      BY <2>1, <2>5, AtFinite DEF CounterAccounted
    <2> QED  BY <2>1, <2>2, <2>4, <2>6, AtFinite, Zenon DEF CounterInv
  <1> QED  BY <1>1, <1>2, Zenon

\* Initially nothing is locked and nothing is pending.
LEMMA CounterInit == Init => CounterInv
  <1> SUFFICES ASSUME Init PROVE CounterInv
    BY Zenon
  <1>1. MutexInv
    BY LockoutAssumption, Zenon DEF Init, MutexInv, Holding
  <1>2. \A x : x # "idle" => At(x) = {}
    BY Zenon DEF Init, At
  <1>3. At("hf_add") = {} /\ At("cl_zero") = {} /\ At("ck_sub") = {} /\ At("kl_sub") = {}
    BY <1>2, Zenon
  <1>4. DOMAIN key_locks = {} /\ debt = 0 /\ key_locks_active = 0
    BY Zenon DEF Init
  <1>5. Owed = 0 /\ Paid = 0
    <2>1. /\ Cardinality(DOMAIN key_locks) = 0
          /\ Cardinality(At("hf_add")) = 0
          /\ Cardinality(At("ck_sub")) = 0
          /\ Cardinality(At("kl_sub")) = 0
      BY <1>3, <1>4, FS_EmptySet, Zenon
    <2> QED  BY <1>4, <2>1 DEF Owed, Paid
  <1>6. Cardinality(Threads) \in Nat
    BY LockoutAssumption, FS_CardinalityType, Zenon
  <1> QED  BY <1>1, <1>3, <1>4, <1>5, <1>6 DEF CounterInv, CounterAccounted

\* Every step preserves the counter invariant.
LEMMA CounterStep == TypeOK /\ CounterInv /\ [Next]_vars => CounterInv'
  <1> USE DEF shared, history
  <1> SUFFICES ASSUME TypeOK, CounterInv, [Next]_vars PROVE CounterInv'
    BY Zenon
  <1>1. CASE UNCHANGED vars \/ Tick \/ Rest
    <2>1. UNCHANGED <<pc, name, key_locks, key_locks_active, lock_owner, debt>>
      BY <1>1, Zenon DEF vars, Tick, Rest, locals
    <2> QED  BY <2>1, Zenon DEF CounterInv, MutexInv, CounterAccounted, Owed, Paid, At
  <1>2. ASSUME NEW t \in Threads, NEW n \in Names, ReportFailure(t, n) PROVE CounterInv'
    <2>1. /\ pc[t] = "idle"
          /\ Goto(t, "hf_record")
          /\ \A u \in Threads : u # t => name'[u] = name[u]
          /\ UNCHANGED <<key_locks, key_locks_active, lock_owner, debt>>
      BY <1>2, Zenon DEF ReportFailure, Begin, TypeOK
    <2> QED  BY <2>1, NeutralStep, Zenon DEF Holding
  <1>3. ASSUME NEW t \in Threads, NEW n \in Names, WithKey(t, n) PROVE CounterInv'
    <2>1. /\ pc[t] = "idle"
          /\ Goto(t, "kl_fast")
          /\ \A u \in Threads : u # t => name'[u] = name[u]
          /\ UNCHANGED <<key_locks, key_locks_active, lock_owner, debt>>
      BY <1>3, Zenon DEF WithKey, Begin, TypeOK
    <2> QED  BY <2>1, NeutralStep, Zenon DEF Holding
  <1>4. ASSUME NEW t \in Threads, NEW n \in Names, IsKeyLockedOut(t, n) PROVE CounterInv'
    <2>1. /\ pc[t] = "idle"
          /\ Goto(t, "kl_fast")
          /\ \A u \in Threads : u # t => name'[u] = name[u]
          /\ UNCHANGED <<key_locks, key_locks_active, lock_owner, debt>>
      BY <1>4, Zenon DEF IsKeyLockedOut, Begin, TypeOK
    <2> QED  BY <2>1, NeutralStep, Zenon DEF Holding
  <1>5. ASSUME NEW t \in Threads, ClearLockout(t) PROVE CounterInv'
    <2>1. /\ pc[t] = "idle"
          /\ Goto(t, "cl_keys")
          /\ \A u \in Threads : u # t => name'[u] = name[u]
          /\ UNCHANGED <<key_locks, key_locks_active, lock_owner, debt>>
      BY <1>5, Zenon DEF ClearLockout, ClearFlag, Begin, TypeOK
    <2> QED  BY <2>1, NeutralStep, Zenon DEF Holding
  <1>6. ASSUME NEW t \in Threads, NEW matched \in BOOLEAN, UnlockWithMaster(t, matched) PROVE CounterInv'
    <2>1. /\ pc[t] = "idle"
          /\ Goto(t, "cl_flag") \/ Goto(t, "hf_now")
          /\ \A u \in Threads : u # t => name'[u] = name[u]
          /\ UNCHANGED <<key_locks, key_locks_active, lock_owner, debt>>
      BY <1>6, Zenon DEF UnlockWithMaster, Begin, TypeOK
    <2> QED  BY <2>1, NeutralStep, Zenon DEF Holding
  <1>7. ASSUME NEW t \in Threads, ReadNow(t) PROVE CounterInv'
    <2>1. /\ pc[t] = "hf_now"
          /\ Goto(t, "hf_record")
          /\ \A u \in Threads : u # t => name'[u] = name[u]
          /\ UNCHANGED <<key_locks, key_locks_active, lock_owner, debt>>
      BY <1>7, Zenon DEF ReadNow, TypeOK
    <2> QED  BY <2>1, NeutralStep, Zenon DEF Holding
  <1>8. ASSUME NEW t \in Threads, RecordFailure(t) PROVE CounterInv'
    <2>1. /\ pc[t] = "hf_record"
          /\ Goto(t, "hf_vault") \/ Goto(t, "hf_until") \/ Goto(t, "idle")
          /\ \A u \in Threads : u # t => name'[u] = name[u]
          /\ UNCHANGED <<key_locks, key_locks_active, lock_owner, debt>>
      BY <1>8, Zenon DEF RecordFailure, Return, TypeOK
    <2> QED  BY <2>1, NeutralStep, Zenon DEF Holding
  <1>9. ASSUME NEW t \in Threads, TripVault(t) PROVE CounterInv'
    <2>1. /\ pc[t] = "hf_vault"
          /\ Goto(t, "hf_until") \/ Goto(t, "idle")
          /\ \A u \in Threads : u # t => name'[u] = name[u]
          /\ UNCHANGED <<key_locks, key_locks_active, lock_owner, debt>>
      BY <1>9, Zenon DEF TripVault, Return, TypeOK
    <2> QED  BY <2>1, NeutralStep, Zenon DEF Holding
  <1>10. ASSUME NEW t \in Threads, StampUntil(t) PROVE CounterInv'
    <2>1. /\ pc[t] = "hf_until"
          /\ Goto(t, "hf_insert")
          /\ \A u \in Threads : u # t => name'[u] = name[u]
          /\ UNCHANGED <<key_locks, key_locks_active, lock_owner, debt>>
      BY <1>10, Zenon DEF StampUntil, TypeOK
    <2> QED  BY <2>1, NeutralStep, Zenon DEF Holding
  <1>11. ASSUME NEW t \in Threads, KeyLocked(t) PROVE CounterInv'
    <2>1. /\ pc[t] = "kl_fast"
          /\ Goto(t, "idle") \/ Goto(t, "kl_slow")
          /\ \A u \in Threads : u # t => name'[u] = name[u]
          /\ UNCHANGED <<key_locks, key_locks_active, lock_owner, debt>>
      BY <1>11, Zenon DEF KeyLocked, Return, TypeOK
    <2> QED  BY <2>1, NeutralStep, Zenon DEF Holding
  <1>12. ASSUME NEW t \in Threads, ClearKeyForget(t) PROVE CounterInv'
    <2>1. /\ pc[t] = "ck_forget"
          /\ Goto(t, "idle")
          /\ \A u \in Threads : u # t => name'[u] = name[u]
          /\ UNCHANGED <<key_locks, key_locks_active, lock_owner, debt>>
      BY <1>12, Zenon DEF ClearKeyForget, Return, TypeOK
    <2> QED  BY <2>1, NeutralStep, Zenon DEF Holding
  <1>13. ASSUME NEW t \in Threads, MasterClear(t) PROVE CounterInv'
    <2>1. /\ pc[t] = "cl_flag"
          /\ Goto(t, "cl_keys")
          /\ \A u \in Threads : u # t => name'[u] = name[u]
          /\ UNCHANGED <<key_locks, key_locks_active, lock_owner, debt>>
      BY <1>13, Zenon DEF MasterClear, ClearFlag, TypeOK
    <2> QED  BY <2>1, NeutralStep, Zenon DEF Holding
  <1>14. ASSUME NEW t \in Threads, ClearTracker(t) PROVE CounterInv'
    <2>1. /\ pc[t] = "cl_tracker"
          /\ Goto(t, "idle")
          /\ \A u \in Threads : u # t => name'[u] = name[u]
          /\ UNCHANGED <<key_locks, key_locks_active, lock_owner, debt>>
      BY <1>14, Zenon DEF ClearTracker, Return, TypeOK
    <2> QED  BY <2>1, NeutralStep, Zenon DEF Holding
  <1>15. ASSUME NEW t \in Threads, NEW n \in Names, ClearKeyLockout(t, n) PROVE CounterInv'
    BY <1>15, ClearKeyLockoutStep, Zenon
  <1>16. ASSUME NEW t \in Threads, LockKey(t) PROVE CounterInv'
    BY <1>16, LockKeyStep, Zenon
  <1>17. ASSUME NEW t \in Threads, CountKeyLock(t) PROVE CounterInv'
    BY <1>17, CountKeyLockStep, Zenon
  <1>18. ASSUME NEW t \in Threads, KeyLockedSlow(t) PROVE CounterInv'
    BY <1>18, KeyLockedSlowStep, Zenon
  <1>19. ASSUME NEW t \in Threads, PruneForget(t) PROVE CounterInv'
    BY <1>19, PruneForgetStep, Zenon
  <1>20. ASSUME NEW t \in Threads, PruneCount(t) \/ ClearKeyCount(t) PROVE CounterInv'
    BY <1>20, SubtractStep, Zenon
  <1>21. ASSUME NEW t \in Threads, ClearKeyLocks(t) \/ ResetCounter(t) PROVE CounterInv'
    BY <1>21, ClearLockoutSteps, Zenon
  <1> QED
    BY <1>1, <1>2, <1>3, <1>4, <1>5, <1>6, <1>7, <1>8, <1>9, <1>10, <1>11,
       <1>12, <1>13, <1>14, <1>15, <1>16, <1>17, <1>18, <1>19, <1>20, <1>21, Zenon
    DEF Next, Call, Step

\* For every number of threads, names and calls, in every interleaving:
\* key_locks_active is the number of per-key lockouts, up to the calls in flight
\* and up to the subtractions clear_lockout overtook.
THEOREM CounterCorrect == Spec => []CounterAccounted
  <1>1. Init => TypeOK /\ CounterInv
    BY TypeInit, CounterInit, Zenon
  <1>2. TypeOK /\ CounterInv /\ [Next]_vars => TypeOK' /\ CounterInv'
    BY TypeStep, CounterStep, Zenon
  <1>3. CounterInv => CounterAccounted
    BY Zenon DEF CounterInv
  <1> QED  BY <1>1, <1>2, <1>3, PTL DEF Spec

\* The inductive invariant implies that the fast path misses no lockout.
LEMMA FastPathFromCounter == TypeOK /\ CounterInv => FastPathSound
  <1> SUFFICES ASSUME TypeOK, CounterInv,
                      debt = 0, key_locks_active = 0, At("cl_zero") = {},
                      NEW n \in DOMAIN key_locks
               PROVE  \E t \in At("hf_add") : name[t] = n
    BY Zenon DEF FastPathSound
  <1>1. IsFiniteSet(DOMAIN key_locks) /\ Cardinality(DOMAIN key_locks) # 0
    BY TermTypes, FS_EmptySet, Zenon
  <1>2. Paid = Owed
    <2>1. \/ key_locks_active + Paid = Owed
          \/ key_locks_active + Paid = Owed + UsizeMax + 1
      BY Zenon DEF CounterInv, CounterAccounted
    <2>2. Owed \in Nat /\ Paid \in Nat /\ UsizeMax \in Nat /\ Paid <= UsizeMax
      BY TermTypes, Zenon
    <2> QED  BY <2>1, <2>2
  <1>3. Cardinality(At("hf_add")) <= 1
    BY HeldOnce, Zenon DEF CounterInv, Holding
  <1>4. Cardinality(DOMAIN key_locks) = 1 /\ Cardinality(At("hf_add")) = 1
    <2>1. /\ Cardinality(DOMAIN key_locks) \in Nat /\ Cardinality(At("ck_sub")) \in Nat
          /\ Cardinality(At("kl_sub")) \in Nat /\ Cardinality(At("hf_add")) \in Nat
      BY TermTypes, Zenon
    <2> QED  BY <1>1, <1>2, <1>3, <2>1 DEF Owed, Paid
  <1>5. PICK t : At("hf_add") = {t}
    BY <1>4, AtFinite, FS_Singleton, Zenon
  <1>6. PICK m : DOMAIN key_locks = {m}
    BY <1>1, <1>4, FS_Singleton, Zenon
  <1> QED  BY <1>5, <1>6, Zenon DEF CounterInv

\* The unlocked fast path of key_locked is sound for every number of threads and
\* names, unless clear_lockout overtook a clear_key_lockout.
THEOREM FastPathCorrect == Spec => []FastPathSound
  <1>1. Init => TypeOK /\ CounterInv
    BY TypeInit, CounterInit, Zenon
  <1>2. TypeOK /\ CounterInv /\ [Next]_vars => TypeOK' /\ CounterInv'
    BY TypeStep, CounterStep, Zenon
  <1>3. TypeOK /\ CounterInv => FastPathSound
    BY FastPathFromCounter, Zenon
  <1> QED  BY <1>1, <1>2, <1>3, PTL DEF Spec

=============================================================================
