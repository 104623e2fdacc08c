-------------------------- MODULE Lockout_failures --------------------------
(***************************************************************************)
(* Proofs about the history of failed attempts that Lockout keeps, for      *)
(* every value of its constants: how long a number of them takes, and what   *)
(* is decided from the part of it that record_failure still has.             *)
(***************************************************************************)
EXTENDS Lockout_proofs

-----------------------------------------------------------------------------
(* The backoff of the master unlock.                                       *)

\* A set of naturals that holds 0 and every successor of a member holds them all.
LEMMA SetInduction ==
  ASSUME NEW S \in SUBSET Nat, 0 \in S, \A k \in S : k + 1 \in S
  PROVE  \A k \in Nat : k \in S
  <1> SUFFICES ASSUME Nat \ S # {} PROVE FALSE
    BY Zenon
  <1> DEFINE m == First(Nat \ S)
  <1>1. m \in Nat \ S /\ \A j \in Nat \ S : m <= j
    BY FirstExists, Zenon
  <1> HIDE DEF m
  <1>2. m # 0 /\ m - 1 \in Nat /\ m - 1 \notin Nat \ S
    BY <1>1
  <1>3. (m - 1) + 1 \in S
    BY <1>2, Zenon
  <1> QED  BY <1>1, <1>3

\* The equation of TimeToFail on 0 .. n.
TimeUpTo(f, n) ==
  /\ f \in [0 .. n -> Nat]
  /\ \A k \in 0 .. n : f[k] = IF k <= 1 THEN 0 ELSE f[k - 1] + BackoffDelay(k - 1)

\* It has a solution for every n, and two solutions agree.
LEMMA TimeExists == \A n \in Nat : \E f : TimeUpTo(f, n)
  <1> DEFINE S == {n \in Nat : \E f : TimeUpTo(f, n)}
  <1>1. 0 \in S
    <2>1. TimeUpTo([k \in 0 .. 0 |-> 0], 0)
      BY DEF TimeUpTo
    <2> QED  BY <2>1, Zenon
  <1>2. ASSUME NEW n \in S PROVE n + 1 \in S
    <2>1. PICK f : TimeUpTo(f, n)
      BY Zenon
    <2> DEFINE next == IF n = 0 THEN 0 ELSE f[n] + BackoffDelay(n)
               g == [k \in 0 .. n + 1 |-> IF k = n + 1 THEN next ELSE f[k]]
    <2>2. BackoffDelay(n) \in Nat
      BY BackoffDelayType, LockoutAssumption
    <2>3. next \in Nat
      BY <2>1, <2>2 DEF TimeUpTo
    <2>4. g \in [0 .. n + 1 -> Nat]
      <3> HIDE DEF next
      <3> QED  BY <2>1, <2>3 DEF TimeUpTo
    <2>5. ASSUME NEW k \in 0 .. n + 1
          PROVE  g[k] = IF k <= 1 THEN 0 ELSE g[k - 1] + BackoffDelay(k - 1)
      <3>1. CASE k = n + 1
        BY <3>1
      <3>2. CASE k # n + 1
        <4>1. k \in 0 .. n /\ g[k] = f[k] /\ (k > 1 => g[k - 1] = f[k - 1])
          BY <3>2
        <4> HIDE DEF g
        <4> QED  BY <2>1, <4>1 DEF TimeUpTo
      <3> QED  BY <3>1, <3>2, Zenon
    <2>6. TimeUpTo(g, n + 1)
      <3> HIDE DEF g
      <3> QED  BY <2>4, <2>5, Zenon DEF TimeUpTo
    <2> QED  BY <2>6
  <1> HIDE DEF S
  <1>3. S \in SUBSET Nat
    BY Zenon DEF S
  <1>4. \A n \in Nat : n \in S
    BY <1>1, <1>2, <1>3, SetInduction, Zenon
  <1> QED  BY <1>4, Zenon DEF S

LEMMA TimeAgrees ==
  ASSUME NEW m \in Nat, NEW n \in Nat, NEW f, NEW g, TimeUpTo(f, m), TimeUpTo(g, n)
  PROVE  \A k \in Nat : k <= m /\ k <= n => f[k] = g[k]
  <1> DEFINE S == {k \in Nat : k <= m /\ k <= n => f[k] = g[k]}
  <1>1. 0 \in S
    BY DEF TimeUpTo
  <1>2. ASSUME NEW k \in S PROVE k + 1 \in S
    <2> SUFFICES ASSUME k + 1 <= m, k + 1 <= n PROVE f[k + 1] = g[k + 1]
      OBVIOUS
    <2>1. k \in Nat /\ f[k] = g[k] /\ k + 1 \in 0 .. m /\ k + 1 \in 0 .. n /\ (k + 1) - 1 = k
      OBVIOUS
    <2> HIDE DEF S
    <2> QED  BY <2>1, Zenon DEF TimeUpTo
  <1> HIDE DEF S
  <1>3. S \in SUBSET Nat
    BY Zenon DEF S
  <1>4. \A k \in Nat : k \in S
    BY <1>1, <1>2, <1>3, SetInduction, Zenon
  <1> QED  BY <1>4, Zenon DEF S

\* So the definition of TimeToFail means what it says.
LEMMA TimeToFailUnfolds ==
  TimeToFail = [k \in Nat |-> IF k <= 1 THEN 0 ELSE TimeToFail[k - 1] + BackoffDelay(k - 1)]
  <1> DEFINE F(n) == CHOOSE f : TimeUpTo(f, n)
             T == [k \in Nat |-> F(k)[k]]
  <1>1. ASSUME NEW n \in Nat PROVE TimeUpTo(F(n), n)
    BY TimeExists, Zenon
  <1>2. ASSUME NEW k \in Nat PROVE T[k] = IF k <= 1 THEN 0 ELSE T[k - 1] + BackoffDelay(k - 1)
    <2>1. T[k] = F(k)[k] /\ TimeUpTo(F(k), k)
      BY <1>1, Zenon
    <2>2. CASE k <= 1
      <3> HIDE DEF T, F
      <3> QED  BY <2>1, <2>2 DEF TimeUpTo
    <2>3. CASE k > 1
      <3>1. k - 1 \in Nat /\ T[k - 1] = F(k - 1)[k - 1] /\ TimeUpTo(F(k - 1), k - 1)
        BY <1>1, <2>3
      <3> HIDE DEF T, F
      <3>2. F(k)[k - 1] = F(k - 1)[k - 1]
        BY <2>1, <3>1, TimeAgrees
      <3> QED  BY <2>1, <2>3, <3>1, <3>2 DEF TimeUpTo
    <2> QED  BY <2>2, <2>3
  <1>3. T = [k \in Nat |-> T[k]]
    OBVIOUS
  <1>4. T = [k \in Nat |-> IF k <= 1 THEN 0 ELSE T[k - 1] + BackoffDelay(k - 1)]
    <2> HIDE DEF T
    <2> QED  BY <1>2, <1>3, Zenon
  <1> HIDE DEF T
  <1>5. \E g : g = [k \in Nat |-> IF k <= 1 THEN 0 ELSE g[k - 1] + BackoffDelay(k - 1)]
    BY <1>4, Zenon
  <1> QED  BY <1>5, Zenon DEF TimeToFail

LEMMA TimeToFailType == \A k \in Nat : TimeToFail[k] \in Nat
  <1> DEFINE S == {k \in Nat : TimeToFail[k] \in Nat}
  <1>1. 0 \in S
    BY TimeToFailUnfolds
  <1>2. ASSUME NEW k \in S PROVE k + 1 \in S
    <2>1. BackoffDelay(k) \in Nat /\ (k + 1) - 1 = k
      BY BackoffDelayType, LockoutAssumption
    <2>2. TimeToFail[k + 1] = IF k + 1 <= 1 THEN 0 ELSE TimeToFail[k] + BackoffDelay(k)
      BY <2>1, TimeToFailUnfolds
    <2> QED  BY <2>1, <2>2
  <1> HIDE DEF S
  <1>3. S \in SUBSET Nat
    BY Zenon DEF S
  <1>4. \A k \in Nat : k \in S
    BY <1>1, <1>2, <1>3, SetInduction, Zenon
  <1> QED  BY <1>4, Zenon DEF S

\* The next attempt is allowed only when one more failure would not come too early.
BackoffInv == BackoffBound /\ backoff.next_allowed >= TimeToFail[backoff.failures + 1]

LEMMA BackoffStep == TypeOK /\ BackoffInv /\ [Next]_vars => BackoffInv'
  <1> USE DEF shared, locals, history
  <1> SUFFICES ASSUME TypeOK, BackoffInv, [Next]_vars PROVE BackoffInv'
    BY Zenon
  <1>1. clock \in Nat /\ backoff.failures \in Nat /\ backoff.next_allowed \in Nat
    BY Zenon DEF TypeOK
  <1>2. ASSUME UNCHANGED backoff, clock' = clock \/ clock' = clock + 1 PROVE BackoffInv'
    BY <1>1, <1>2, TimeToFailType DEF BackoffInv, BackoffBound
  <1>3. ASSUME NEW t \in Threads, NEW matched \in BOOLEAN, UnlockWithMaster(t, matched)
        PROVE  BackoffInv'
    <2> DEFINE k == backoff.failures
    <2>1. clock' = clock /\ clock >= backoff.next_allowed
      BY <1>3, Zenon DEF UnlockWithMaster
    <2>2. CASE matched
      <3>1. backoff'.failures = 0 /\ backoff'.next_allowed = 0
        BY <1>3, <2>2 DEF UnlockWithMaster
      <3>2. TimeToFail[0] = 0 /\ TimeToFail[0 + 1] = 0
        BY TimeToFailUnfolds
      <3> QED  BY <1>1, <2>1, <3>1, <3>2 DEF BackoffInv, BackoffBound
    <2>3. CASE ~matched
      <3>1. backoff'.failures = k + 1 /\ backoff'.next_allowed = clock + BackoffDelay(k + 1)
        BY <1>3, <2>3 DEF UnlockWithMaster
      <3>2. clock >= TimeToFail[k + 1] /\ TimeToFail[k + 1] \in Nat
        BY <1>1, <2>1, TimeToFailType DEF BackoffInv
      <3>3. TimeToFail[(k + 1) + 1] = TimeToFail[k + 1] + BackoffDelay(k + 1)
        <4>1. (k + 1) + 1 \in Nat /\ ((k + 1) + 1) - 1 = k + 1 /\ ~((k + 1) + 1 <= 1)
          BY <1>1
        <4> QED  BY <4>1, TimeToFailUnfolds, Zenon
      <3>4. BackoffDelay(k + 1) \in Nat
        BY <1>1, BackoffDelayType, LockoutAssumption
      <3> HIDE DEF k
      <3> QED  BY <1>1, <2>1, <3>1, <3>2, <3>3, <3>4 DEF BackoffInv, BackoffBound
    <2> QED  BY <2>2, <2>3, Zenon
  <1>4. ASSUME NEW t \in Threads, Step(t) PROVE UNCHANGED <<backoff, clock>>
    BY <1>4, Zenon DEF Step, ReadNow, RecordFailure, TripVault, StampUntil, LockKey, CountKeyLock,
       KeyLocked, KeyLockedSlow, PruneCount, PruneForget, ClearKeyCount, ClearKeyForget,
       MasterClear, ClearFlag, ClearKeyLocks, ResetCounter, ClearTracker
  <1>5. ASSUME NEW t \in Threads, Call(t), \A matched \in BOOLEAN : ~UnlockWithMaster(t, matched)
        PROVE  UNCHANGED <<backoff, clock>>
    BY <1>5, Zenon DEF Call, ReportFailure, WithKey, IsKeyLockedOut, ClearKeyLockout, ClearLockout, ClearFlag
  <1>6. CASE UNCHANGED vars
    BY <1>2, <1>6, Zenon DEF vars
  <1>7. CASE Tick
    BY <1>2, <1>7, Zenon DEF Tick
  <1>8. CASE \E t \in Threads : Call(t) \/ Step(t)
    BY <1>2, <1>3, <1>4, <1>5, <1>8, Zenon
  <1> QED  BY <1>6, <1>7, <1>8, Zenon DEF Next, Rest

\* k wrong master credentials in a row take at least the sum of the delays between
\* them, for every base and maximum and any number of callers of unlock_with_master.
THEOREM GuessingTakesTime == Spec => []BackoffBound
  <1>1. Init => BackoffInv
    <2>1. TimeToFail[0] = 0 /\ TimeToFail[0 + 1] = 0
      BY TimeToFailUnfolds
    <2> QED  BY <2>1 DEF Init, BackoffInv, BackoffBound
  <1>2. BackoffInv => BackoffBound
    BY Zenon DEF BackoffInv
  <1> QED  BY <1>1, <1>2, TypeCorrect, BackoffStep, PTL DEF Spec

-----------------------------------------------------------------------------
(* The windows of record_failure.                                          *)

\* The deque s of name n is what is left of the failures r after evicting the first
\* ones; if r is in order, those are outside every window that n is counted with.
Remains(s, r, n, ordered) ==
  LET gone == Len(r) - Len(s) IN
  /\ gone \in Nat
  /\ \A j \in 1 .. Len(s) : s[j] = r[j + gone]
  /\ ordered => \A j \in 1 .. gone :
       /\ r[j] + FailureWindow < r[Len(r)]
       /\ n # MASTER_NAME /\ KeyThreshold > 0 => r[j] + KeyWindow < r[Len(r)]

\* Only the failures of the reserved name, which unlock_with_master reports, are recorded
\* without the per-key window.
PerKeyInv ==
  \A t \in Threads :
    /\ pc[t] \in {"idle", "hf_now"} => name[t] = MASTER_NAME
    /\ pc[t] = "hf_record" => per_key[t] \/ name[t] = MASTER_NAME

DequesInv == \A n \in Names : Remains(failure_tracker[n], recorded[n], n, n \notin skewed)

WindowInv == PerKeyInv /\ DequesInv

\* Eviction drops a prefix, and only failures that are older than keep.
LEMMA EvictDrops ==
  ASSUME NEW s \in Seq(Nat), NEW at \in Nat, NEW keep \in Nat
  PROVE  LET e == Evict(s, at, keep) IN
         \E d \in 0 .. Len(s) :
           /\ Len(e) = Len(s) - d
           /\ \A j \in 1 .. Len(e) : e[j] = s[j + d]
           /\ \A j \in 1 .. d : s[j] + keep < at
  <1> DEFINE young == {j \in DOMAIN s : ~Older(s, j, at, keep)}
             e == Evict(s, at, keep)
  <1>1. DOMAIN s = 1 .. Len(s) /\ Len(s) \in Nat /\ young \in SUBSET Nat
    OBVIOUS
  <1>2. CASE young = {}
    <2>1. e = <<>> /\ Len(e) = 0
      BY <1>2, Zenon DEF Evict, From
    <2>2. \A j \in 1 .. Len(s) : s[j] + keep < at
      BY <1>1, <1>2, Zenon DEF Older
    <2>3. Len(s) \in 0 .. Len(s) /\ Len(e) = Len(s) - Len(s) /\ 1 .. Len(e) = {}
      BY <1>1, <2>1
    <2> HIDE DEF e, young
    <2> QED  BY <2>2, <2>3, Zenon DEF e
  <1>3. CASE young # {}
    <2> DEFINE f == First(young)
    <2>1. f \in young /\ \A j \in young : f <= j
      BY <1>1, <1>3, FirstExists, Zenon
    <2>2. f \in 1 .. Len(s)
      BY <1>1, <2>1, Zenon
    <2>3. \A j \in 1 .. f - 1 : s[j] + keep < at
      <3> SUFFICES ASSUME NEW j \in 1 .. f - 1 PROVE s[j] + keep < at
        BY Zenon
      <3>1. j \notin young /\ j \in DOMAIN s
        <4> HIDE DEF young, f
        <4> QED  BY <1>1, <2>1, <2>2
      <3> QED  BY <3>1, Zenon DEF Older
    <2>4. e = SubSeq(s, f, Len(s))
      BY <1>3, Zenon DEF Evict, From
    <2> HIDE DEF f, e, young
    <2>5. Len(e) = Len(s) - (f - 1) /\ \A j \in 1 .. Len(e) : e[j] = s[j + (f - 1)]
      BY <1>1, <2>2, <2>4
    <2>6. f - 1 \in 0 .. Len(s)
      BY <1>1, <2>2
    <2> QED  BY <2>3, <2>5, <2>6, Zenon DEF e
  <1> QED  BY <1>2, <1>3, Zenon

\* s is r without its first d elements; none of those is inside the window.
Suffix(s, r, d) == Len(s) = Len(r) - d /\ \A j \in 1 .. Len(s) : s[j] = r[j + d]
Stale(r, d, at, window) == \A j \in 1 .. d : r[j] + window < at

\* Counting what is left counts as many failures as counting all of them, if none of
\* those that are gone is inside the window.
LEMMA CountRemains ==
  ASSUME NEW s \in Seq(Nat), NEW r \in Seq(Nat), NEW at \in Nat, NEW window \in Nat,
         NEW d \in Nat, Suffix(s, r, d), Stale(r, d, at, window)
  PROVE  CountWithin(s, at, window) = CountWithin(r, at, window)
  <1> DEFINE A == {j \in DOMAIN s : ~Older(s, j, at, window)}
             B == {j \in DOMAIN r : ~Older(r, j, at, window)}
             f == [j \in A |-> j + d]
  <1>0. /\ Len(s) = Len(r) - d /\ \A j \in 1 .. Len(s) : s[j] = r[j + d]
        /\ \A j \in 1 .. d : r[j] + window < at
    BY Zenon DEF Suffix, Stale
  <1>1. DOMAIN s = 1 .. Len(s) /\ DOMAIN r = 1 .. Len(r) /\ Len(s) \in Nat /\ Len(r) \in Nat
    OBVIOUS
  <1>2. \A j \in 1 .. Len(s) : Older(s, j, at, window) <=> Older(r, j + d, at, window)
    BY <1>0, Zenon DEF Older
  <1>3. ASSUME NEW j \in A PROVE j \in Nat /\ j + d \in B
    <2>1. j \in 1 .. Len(s) /\ ~Older(s, j, at, window)
      BY <1>1, Zenon
    <2> HIDE DEF A
    <2>2. j \in Nat /\ 1 <= j /\ j <= Len(r) - d
      BY <1>0, <1>1, <2>1
    <2>3. j + d \in 1 .. Len(r)
      <3> HIDE DEF B
      <3> QED  BY <1>1, <2>2
    <2> QED  BY <1>1, <1>2, <2>1, <2>2, <2>3, Zenon
  <1>4. ASSUME NEW k \in B PROVE \E j \in A : j + d = k
    <2>1. k \in 1 .. Len(r) /\ ~(k \in 1 .. d)
      BY <1>0, <1>1, Zenon DEF Older
    <2>2. k - d \in 1 .. Len(s) /\ (k - d) + d = k
      BY <1>0, <1>1, <2>1
    <2> QED  BY <1>1, <1>2, <2>2, Zenon
  <1>5. IsFiniteSet(A)
    <2>1. IsFiniteSet(1 .. Len(s)) /\ A \subseteq 1 .. Len(s)
      BY <1>1, FS_Interval
    <2> QED  BY <2>1, FS_Subset, Zenon
  <1> HIDE DEF A, B
  <1>6. f \in [A -> B] /\ \A a, b \in A : f[a] = f[b] => a = b
    BY <1>3
  <1>7. \A k \in B : \E j \in A : f[j] = k
    BY <1>4, Zenon
  <1> HIDE DEF f
  <1>8. f \in Bijection(A, B)
    BY <1>6, <1>7, Zenon DEF Bijection, Injection, Surjection, IsInjective
  <1>9. ExistsBijection(A, B)
    BY <1>8, Zenon DEF ExistsBijection
  <1>10. Cardinality(B) = Cardinality(A)
    BY <1>5, <1>9, FS_Bijection, Zenon
  <1> QED  BY <1>10, Zenon DEF A, B, CountWithin

\* The deque after the failure was recorded.
Kept(s, at, keep) == Append(Evict(s, at, keep), at)

\* What record_failure does to the deque of the name: the new failure is the last one,
\* and if the failures are still in order, none that matters to a window is gone.
LEMMA RecordRemains ==
  ASSUME NEW n, NEW s \in Seq(Nat), NEW r \in Seq(Nat), NEW at \in Nat, NEW keep \in Nat,
         NEW ordered \in BOOLEAN, Remains(s, r, n, ordered),
         keep >= FailureWindow, n # MASTER_NAME /\ KeyThreshold > 0 => keep >= KeyWindow,
         NEW k, k = Kept(s, at, keep),
         NEW stays \in BOOLEAN, stays => ordered /\ \A j \in DOMAIN r : r[j] <= at
  PROVE  /\ Remains(k, Append(r, at), n, stays)
         /\ k \in Seq(Nat)
         /\ stays =>
              /\ CountWithin(k, at, FailureWindow) = CountWithin(Append(r, at), at, FailureWindow)
              /\ n # MASTER_NAME /\ KeyThreshold > 0 =>
                   CountWithin(k, at, KeyWindow) = CountWithin(Append(r, at), at, KeyWindow)
  <1> DEFINE e == Evict(s, at, keep)
             q == Append(r, at)
             gone == Len(r) - Len(s)
  <1>1. e \in Seq(Nat)
    BY EvictType, Zenon
  <1>2. PICK d \in 0 .. Len(s) : /\ Len(e) = Len(s) - d
                                 /\ \A j \in 1 .. Len(e) : e[j] = s[j + d]
                                 /\ \A j \in 1 .. d : s[j] + keep < at
    BY EvictDrops, Zenon
  <1> HIDE DEF e
  <1>3. /\ gone \in Nat /\ \A j \in 1 .. Len(s) : s[j] = r[j + gone]
        /\ ordered => \A j \in 1 .. gone :
             /\ r[j] + FailureWindow < r[Len(r)]
             /\ n # MASTER_NAME /\ KeyThreshold > 0 => r[j] + KeyWindow < r[Len(r)]
    BY Zenon DEF Remains
  <1>4. /\ Len(s) \in Nat /\ Len(r) \in Nat /\ Len(e) \in Nat /\ DOMAIN r = 1 .. Len(r)
        /\ Len(r) = Len(s) + gone
    BY <1>1, <1>3
  <1> HIDE DEF gone
  <1>5. /\ q \in Seq(Nat) /\ Len(q) = Len(r) + 1 /\ q[Len(r) + 1] = at
        /\ \A j \in 1 .. Len(r) : q[j] = r[j] /\ q[j] \in Nat
    OBVIOUS
  <1>6. /\ k \in Seq(Nat) /\ Len(k) = Len(e) + 1 /\ k[Len(e) + 1] = at
        /\ \A j \in 1 .. Len(e) : k[j] = e[j]
    BY <1>1 DEF e, Kept
  <1> HIDE DEF q
  <1>7. gone + d \in Nat /\ Len(q) - Len(k) = gone + d /\ Len(k) = Len(q) - (gone + d)
    BY <1>2, <1>3, <1>4, <1>5, <1>6
  <1>8. \A j \in 1 .. Len(k) : k[j] = q[j + (gone + d)]
    <2> SUFFICES ASSUME NEW j \in 1 .. Len(k) PROVE k[j] = q[j + (gone + d)]
      BY Zenon
    <2>1. CASE j = Len(e) + 1
      <3>1. j + (gone + d) = Len(r) + 1
        BY <1>2, <1>3, <1>4, <2>1
      <3> QED  BY <1>5, <1>6, <2>1, <3>1, Zenon
    <2>2. CASE j # Len(e) + 1
      <3>0. j \in 1 .. Len(e)
        BY <1>4, <1>6, <2>2
      <3>1. j \in 1 .. Len(e) /\ j + d \in 1 .. Len(s)
        BY <1>2, <1>4, <3>0
      <3>2. (j + d) + gone = j + (gone + d) /\ j + (gone + d) \in 1 .. Len(r)
        BY <1>2, <1>3, <1>4, <3>1
      <3>3. k[j] = s[j + d] /\ s[j + d] = r[(j + d) + gone]
        BY <1>2, <1>3, <1>6, <3>1, Zenon
      <3> QED  BY <1>5, <3>2, <3>3, Zenon
    <2> QED  BY <2>1, <2>2, Zenon
  <1>9. ASSUME stays, NEW j \in 1 .. gone + d
        PROVE  /\ q[j] + FailureWindow < at
               /\ n # MASTER_NAME /\ KeyThreshold > 0 => q[j] + KeyWindow < at
    <2>1. CASE j \in 1 .. gone
      <3>1. Len(r) \in DOMAIN r /\ Len(r) \in 1 .. Len(r) /\ j \in 1 .. Len(r)
        BY <1>3, <1>4, <2>1
      <3>2. r[Len(r)] <= at /\ r[Len(r)] \in Nat /\ r[j] \in Nat /\ q[j] = r[j]
        BY <1>5, <1>9, <3>1, Zenon
      <3>3. /\ r[j] + FailureWindow < r[Len(r)]
            /\ n # MASTER_NAME /\ KeyThreshold > 0 => r[j] + KeyWindow < r[Len(r)]
        BY <1>3, <1>9, <2>1, Zenon
      <3>4. FailureWindow \in Nat /\ KeyWindow \in Nat
        BY LockoutAssumption, Zenon
      <3>5. q[j] + FailureWindow < at
        BY <3>2, <3>3, <3>4
      <3>6. ASSUME n # MASTER_NAME /\ KeyThreshold > 0 PROVE q[j] + KeyWindow < at
        <4>1. r[j] + KeyWindow < r[Len(r)]
          BY <3>3, <3>6, Zenon
        <4> QED  BY <3>2, <3>4, <4>1
      <3> QED  BY <3>5, <3>6, Zenon
    <2>2. CASE j \notin 1 .. gone
      <3>1. j - gone \in 1 .. d /\ j - gone \in 1 .. Len(s) /\ (j - gone) + gone = j /\ j \in 1 .. Len(r)
        BY <1>2, <1>3, <1>4, <2>2
      <3>2. q[j] = s[j - gone] /\ s[j - gone] + keep < at /\ q[j] \in Nat
        BY <1>2, <1>3, <1>5, <3>1, Zenon
      <3>4. FailureWindow \in Nat /\ KeyWindow \in Nat
        BY LockoutAssumption, Zenon
      <3>5. q[j] + FailureWindow < at
        BY <3>2, <3>4
      <3>6. ASSUME n # MASTER_NAME /\ KeyThreshold > 0 PROVE q[j] + KeyWindow < at
        BY <3>2, <3>4, <3>6
      <3> QED  BY <3>5, <3>6, Zenon
    <2> QED  BY <2>1, <2>2, Zenon
  <1>10. Remains(k, q, n, stays)
    BY <1>5, <1>7, <1>8, <1>9, Zenon DEF Remains
  <1>11. Suffix(k, q, gone + d) /\ q \in Seq(Nat) /\ k \in Seq(Nat) /\ gone + d \in Nat
    BY <1>5, <1>6, <1>7, <1>8, Zenon DEF Suffix
  <1>12. ASSUME NEW window \in Nat, Stale(q, gone + d, at, window)
         PROVE  CountWithin(k, at, window) = CountWithin(q, at, window)
    BY <1>11, <1>12, CountRemains
  <1>13. ASSUME stays PROVE CountWithin(k, at, FailureWindow) = CountWithin(q, at, FailureWindow)
    <2>1. Stale(q, gone + d, at, FailureWindow) /\ FailureWindow \in Nat
      BY <1>9, <1>13, LockoutAssumption, Zenon DEF Stale
    <2> QED  BY <1>12, <2>1, Zenon
  <1>14. ASSUME stays, n # MASTER_NAME, KeyThreshold > 0
         PROVE  CountWithin(k, at, KeyWindow) = CountWithin(q, at, KeyWindow)
    <2>1. Stale(q, gone + d, at, KeyWindow) /\ KeyWindow \in Nat
      BY <1>9, <1>14, LockoutAssumption, Zenon DEF Stale
    <2> QED  BY <1>12, <2>1, Zenon
  <1> QED  BY <1>6, <1>10, <1>13, <1>14, Zenon DEF q

LEMMA PerKeyStep == TypeOK /\ PerKeyInv /\ [Next]_vars => PerKeyInv'
  <1> USE DEF shared, locals, history
  <1> SUFFICES ASSUME TypeOK, PerKeyInv, [Next]_vars PROVE PerKeyInv'
    BY Zenon
  <1>1. ASSUME UNCHANGED <<pc, name, per_key>> PROVE PerKeyInv'
    BY <1>1, Zenon DEF PerKeyInv
  <1>2. ASSUME NEW t \in Threads,
               \A u \in Threads \ {t} : pc'[u] = pc[u] /\ per_key'[u] = per_key[u] /\ name'[u] = name[u],
               pc'[t] \in {"idle", "hf_now"} => name'[t] = MASTER_NAME,
               pc'[t] = "hf_record" => per_key'[t] \/ name'[t] = MASTER_NAME
        PROVE  PerKeyInv'
    BY <1>2, Zenon DEF PerKeyInv
  <1>3. ASSUME NEW t \in Threads, Return(t) PROVE PerKeyInv'
    <2>1. pc'[t] = "idle" /\ name'[t] = MASTER_NAME
      BY <1>3, Zenon DEF TypeOK, Return, Goto
    <2> QED  BY <1>2, <1>3, <2>1, Zenon DEF TypeOK, Return, Goto
  <1>4. ASSUME NEW t \in Threads, NEW label, Goto(t, label), label \notin {"idle", "hf_now", "hf_record"},
               UNCHANGED per_key, \A u \in Threads \ {t} : name'[u] = name[u]
        PROVE  PerKeyInv'
    <2>1. pc'[t] = label /\ \A u \in Threads \ {t} : pc'[u] = pc[u]
      BY <1>4, Zenon DEF TypeOK, Goto
    <2> QED  BY <1>2, <1>4, <2>1, Zenon
  <1>5. ASSUME NEW t \in Threads, NEW n \in Names, ReportFailure(t, n) PROVE PerKeyInv'
    <2>1. pc'[t] = "hf_record" /\ per_key'[t]
      BY <1>5, Zenon DEF TypeOK, ReportFailure, Goto
    <2> QED  BY <1>2, <1>5, <2>1, Zenon DEF TypeOK, ReportFailure, Goto
  <1>6. ASSUME NEW t \in Threads, ReadNow(t) PROVE PerKeyInv'
    <2>1. pc'[t] = "hf_record" /\ name'[t] = MASTER_NAME
      BY <1>6, Zenon DEF TypeOK, ReadNow, Goto, PerKeyInv
    <2> QED  BY <1>2, <1>6, <2>1, Zenon DEF TypeOK, ReadNow, Goto
  <1>7. ASSUME NEW t \in Threads, NEW matched \in BOOLEAN, UnlockWithMaster(t, matched) PROVE PerKeyInv'
    <2>1. name' = name /\ per_key' = per_key /\ name[t] = MASTER_NAME
          /\ \A u \in Threads \ {t} : pc'[u] = pc[u]
      BY <1>7, Zenon DEF TypeOK, UnlockWithMaster, Goto, Begin, PerKeyInv
    <2> QED  BY <1>2, <2>1, Zenon
  <1>8. ASSUME NEW t \in Threads, RecordFailure(t) \/ TripVault(t) \/ StampUntil(t) \/ LockKey(t) \/ CountKeyLock(t)
        PROVE  PerKeyInv'
    <2>1. \/ Return(t)
          \/ /\ \E label \in {"hf_vault", "hf_until", "hf_insert", "hf_add"} : Goto(t, label)
             /\ UNCHANGED <<name, per_key>>
      BY <1>8, Zenon DEF RecordFailure, TripVault, StampUntil, LockKey, CountKeyLock
    <2> QED  BY <1>3, <1>4, <2>1, Zenon
  <1>9. ASSUME NEW t \in Threads, \/ KeyLocked(t) \/ KeyLockedSlow(t) \/ PruneCount(t) \/ PruneForget(t)
                                  \/ ClearKeyCount(t) \/ ClearKeyForget(t)
        PROVE  PerKeyInv'
    <2>1. \/ Return(t)
          \/ /\ \E label \in {"kl_slow", "kl_sub", "kl_forget", "ck_forget"} : Goto(t, label)
             /\ UNCHANGED <<name, per_key>>
      BY <1>9, Zenon DEF KeyLocked, KeyLockedSlow, PruneCount, PruneForget, ClearKeyCount, ClearKeyForget
    <2> QED  BY <1>3, <1>4, <2>1, Zenon
  <1>10. ASSUME NEW t \in Threads, \/ MasterClear(t) \/ ClearKeyLocks(t) \/ ResetCounter(t) \/ ClearTracker(t)
                                   \/ ClearLockout(t)
         PROVE  PerKeyInv'
    <2>1. \/ Return(t)
          \/ /\ \E label \in {"cl_keys", "cl_zero", "cl_tracker"} : Goto(t, label)
             /\ UNCHANGED <<name, per_key>>
      BY <1>10, Zenon DEF MasterClear, ClearFlag, ClearLockout, ClearKeyLocks, ResetCounter, ClearTracker
    <2> QED  BY <1>3, <1>4, <2>1, Zenon
  <1>11. ASSUME NEW t \in Threads, NEW n \in Names,
                WithKey(t, n) \/ IsKeyLockedOut(t, n) \/ ClearKeyLockout(t, n)
         PROVE  PerKeyInv'
    <2>1. /\ \E label \in {"kl_fast", "ck_sub", "ck_forget"} : Goto(t, label)
          /\ UNCHANGED per_key /\ \A u \in Threads \ {t} : name'[u] = name[u]
      BY <1>11, Zenon DEF TypeOK, WithKey, IsKeyLockedOut, ClearKeyLockout
    <2> QED  BY <1>4, <2>1, Zenon
  <1>12. ASSUME NEW t \in Threads, Call(t) PROVE PerKeyInv'
    BY <1>5, <1>7, <1>10, <1>11, <1>12, Zenon DEF Call
  <1>13. ASSUME NEW t \in Threads, Step(t) PROVE PerKeyInv'
    BY <1>6, <1>8, <1>9, <1>10, <1>13, Zenon DEF Step
  <1> QED  BY <1>1, <1>12, <1>13, Zenon DEF Next, Tick, Rest, vars

\* What the recording step of a call that runs record_failure decides from.
LEMMA RecordExact ==
  ASSUME TypeOK, WindowInv, NEW t \in Threads, RecordFailure(t)
  PROVE  LET n == name[t]
             keep == KeepFor(KeyThresholdOn(t))
             k == Append(Evict(failure_tracker[n], now[t], keep), now[t])
             q == Append(recorded[n], now[t])
         IN  /\ failure_tracker' = [failure_tracker EXCEPT ![n] = k]
             /\ recorded' = [recorded EXCEPT ![n] = q]
             /\ \A m \in Names \ {n} : m \in skewed' <=> m \in skewed
             /\ Remains(k, q, n, n \notin skewed')
             /\ n \notin skewed' =>
                  /\ CountWithin(k, now[t], FailureWindow) = CountWithin(q, now[t], FailureWindow)
                  /\ n # MASTER_NAME /\ KeyThreshold > 0 =>
                       CountWithin(k, now[t], KeyWindow) = CountWithin(q, now[t], KeyWindow)
  <1> DEFINE n == name[t]
             at == now[t]
             s == failure_tracker[n]
             r == recorded[n]
             keep == KeepFor(KeyThresholdOn(t))
             k == Append(Evict(s, at, keep), at)
             q == Append(r, at)
             ordered == n \notin skewed
             stays == ordered /\ \A j \in DOMAIN r : r[j] <= at
  <1>1. n \in Names /\ at \in Nat /\ s \in Seq(Nat) /\ r \in Seq(Nat)
    BY Zenon DEF TypeOK
  <1>2. /\ failure_tracker' = [failure_tracker EXCEPT ![n] = k]
        /\ recorded' = [recorded EXCEPT ![n] = q]
        /\ skewed' = IF \E j \in DOMAIN r : r[j] > at THEN skewed \cup {n} ELSE skewed
        /\ pc[t] = "hf_record"
    BY Zenon DEF RecordFailure
  <1>3. n \notin skewed' <=> stays
    <2> HIDE DEF n, at, s, r, keep, k, q
    <2>1. \A j \in DOMAIN r : r[j] \in Nat
      BY <1>1
    <2> QED  BY <1>1, <1>2, <2>1
  <1>4. Remains(s, r, n, ordered)
    BY <1>1, Zenon DEF WindowInv, DequesInv
  <1>5. per_key[t] \/ n = MASTER_NAME
    BY <1>2, Zenon DEF WindowInv, PerKeyInv
  <1>6. /\ keep \in Nat /\ keep >= FailureWindow
        /\ n # MASTER_NAME /\ KeyThreshold > 0 => keep >= KeyWindow
    BY <1>5, LockoutAssumption DEF KeepFor, KeyThresholdOn
  <1>7. \A m \in Names \ {n} : m \in skewed' <=> m \in skewed
    BY <1>2, Zenon
  <1> HIDE DEF n, at, s, r, keep, k
  <1>8. /\ Remains(k, q, n, stays)
        /\ stays => /\ CountWithin(k, at, FailureWindow) = CountWithin(q, at, FailureWindow)
                    /\ n # MASTER_NAME /\ KeyThreshold > 0 =>
                         CountWithin(k, at, KeyWindow) = CountWithin(q, at, KeyWindow)
    <2>1. k = Kept(s, at, keep) /\ ordered \in BOOLEAN /\ stays \in BOOLEAN
      BY Zenon DEF k, Kept
    <2>2. stays => ordered /\ \A j \in DOMAIN r : r[j] <= at
      BY Zenon
    <2> HIDE DEF stays, ordered
    <2> QED  BY <1>1, <1>4, <1>6, <2>1, <2>2, RecordRemains
  <1> HIDE DEF stays, q
  <1>9. Remains(k, q, n, n \notin skewed')
    BY <1>3, <1>8, Zenon DEF Remains
  <1> QED  BY <1>2, <1>3, <1>7, <1>8, <1>9, Zenon DEF n, at, s, r, keep, k, q

LEMMA DequesStep == TypeOK /\ WindowInv /\ [Next]_vars => DequesInv'
  <1> USE DEF shared, locals, history
  <1> SUFFICES ASSUME TypeOK, WindowInv, [Next]_vars PROVE DequesInv'
    BY Zenon
  <1>1. ASSUME UNCHANGED <<failure_tracker, recorded, skewed>> PROVE DequesInv'
    BY <1>1, Zenon DEF WindowInv, DequesInv
  <1>2. ASSUME NEW S, Forget(S) PROVE DequesInv'
    <2> SUFFICES ASSUME NEW n \in Names
                 PROVE  Remains(failure_tracker'[n], recorded'[n], n, n \notin skewed')
      BY Zenon DEF DequesInv
    <2>1. CASE n \in S
      <3>1. failure_tracker'[n] = <<>> /\ recorded'[n] = <<>>
        BY <1>2, <2>1, Zenon DEF Forget
      <3> QED  BY <3>1 DEF Remains
    <2>2. CASE n \notin S
      <3>1. /\ failure_tracker'[n] = failure_tracker[n] /\ recorded'[n] = recorded[n]
            /\ n \in skewed' <=> n \in skewed
        BY <1>2, <2>2, Zenon DEF Forget
      <3>2. Remains(failure_tracker[n], recorded[n], n, n \notin skewed)
        BY Zenon DEF WindowInv, DequesInv
      <3> QED  BY <3>1, <3>2, Zenon DEF Remains
    <2> QED  BY <2>1, <2>2, Zenon
  <1>3. ASSUME NEW t \in Threads, RecordFailure(t) PROVE DequesInv'
    <2> DEFINE m == name[t]
               k == Append(Evict(failure_tracker[m], now[t], KeepFor(KeyThresholdOn(t))), now[t])
               q == Append(recorded[m], now[t])
    <2>1. /\ failure_tracker' = [failure_tracker EXCEPT ![m] = k]
          /\ recorded' = [recorded EXCEPT ![m] = q]
          /\ \A n \in Names \ {m} : n \in skewed' <=> n \in skewed
          /\ Remains(k, q, m, m \notin skewed')
      BY <1>3, RecordExact, Zenon
    <2> HIDE DEF k, q, m
    <2> SUFFICES ASSUME NEW n \in Names
                 PROVE  Remains(failure_tracker'[n], recorded'[n], n, n \notin skewed')
      BY Zenon DEF DequesInv
    <2>2. CASE n = m
      <3>1. failure_tracker'[n] = k /\ recorded'[n] = q
        BY <2>1, <2>2, Zenon DEF TypeOK
      <3> QED  BY <2>1, <2>2, <3>1, Zenon
    <2>3. CASE n # m
      <3>1. /\ failure_tracker'[n] = failure_tracker[n] /\ recorded'[n] = recorded[n]
            /\ n \in skewed' <=> n \in skewed
        BY <2>1, <2>3, Zenon DEF TypeOK
      <3>2. Remains(failure_tracker[n], recorded[n], n, n \notin skewed)
        BY Zenon DEF WindowInv, DequesInv
      <3> QED  BY <3>1, <3>2, Zenon DEF Remains
    <2> QED  BY <2>2, <2>3, Zenon
  <1>4. ASSUME NEW t \in Threads, Call(t) PROVE UNCHANGED <<failure_tracker, recorded, skewed>>
    BY <1>4, Zenon DEF Call, ReportFailure, WithKey, IsKeyLockedOut, ClearKeyLockout, ClearLockout, ClearFlag,
       UnlockWithMaster
  <1>5. ASSUME NEW t \in Threads, Step(t)
        PROVE  \/ UNCHANGED <<failure_tracker, recorded, skewed>> \/ RecordFailure(t)
               \/ \E S : Forget(S)
    BY <1>5, Zenon DEF Step, ReadNow, TripVault, StampUntil, LockKey, CountKeyLock, KeyLocked, KeyLockedSlow,
       PruneCount, PruneForget, ClearKeyCount, ClearKeyForget, MasterClear, ClearFlag, ClearKeyLocks,
       ResetCounter, ClearTracker
  <1>6. CASE UNCHANGED vars \/ Tick \/ Rest
    BY <1>1, <1>6, Zenon DEF vars, Tick, Rest
  <1>7. CASE \E t \in Threads : Call(t) \/ Step(t)
    BY <1>1, <1>2, <1>3, <1>4, <1>5, <1>7, Zenon
  <1> QED  BY <1>6, <1>7, Zenon DEF Next

\* A thread leaves the point where a failure is recorded by recording it.
LEMMA LeavesByRecording ==
  ASSUME TypeOK, [Next]_vars, NEW t \in Threads, pc[t] = "hf_record", pc'[t] # "hf_record"
  PROVE  RecordFailure(t)
  <1> USE DEF shared, locals, history
  <1>1. ASSUME NEW u \in Threads, (\E label : Goto(u, label)) \/ Return(u), u # t PROVE FALSE
    BY <1>1, Zenon DEF TypeOK, Goto, Return
  <1>2. ASSUME NEW u \in Threads, Call(u) PROVE u # t /\ \E label : Goto(u, label)
    BY <1>2, Zenon DEF Call, Begin, ReportFailure, WithKey, IsKeyLockedOut, ClearKeyLockout, ClearLockout,
       ClearFlag, UnlockWithMaster
  <1>3. ASSUME NEW u \in Threads, Step(u)
        PROVE  (u = t => RecordFailure(t)) /\ ((\E label : Goto(u, label)) \/ Return(u))
    <2>1. u = t => RecordFailure(t)
      BY <1>3, Zenon DEF Step, ReadNow, TripVault, StampUntil, LockKey, CountKeyLock, KeyLocked, KeyLockedSlow,
         PruneCount, PruneForget, ClearKeyCount, ClearKeyForget, MasterClear, ClearKeyLocks,
         ResetCounter, ClearTracker
    <2>2. (\E label : Goto(u, label)) \/ Return(u)
      BY <1>3, Zenon DEF Step, ReadNow, RecordFailure, TripVault, StampUntil, LockKey, CountKeyLock, KeyLocked,
         KeyLockedSlow, PruneCount, PruneForget, ClearKeyCount, ClearKeyForget, MasterClear, ClearFlag,
         ClearKeyLocks, ResetCounter, ClearTracker
    <2> QED  BY <2>1, <2>2, Zenon
  <1>4. ~(UNCHANGED vars \/ Tick \/ Rest)
    BY Zenon DEF vars, Tick, Rest
  <1> QED  BY <1>1, <1>2, <1>3, <1>4, Zenon DEF Next

\* What WindowExact says of a step.
DecidesExactly ==
  \A t \in Threads :
    LET n == name[t]
        c == [in_window     |-> CountWithin(recorded'[n], now[t], FailureWindow),
              in_key_window |-> CountWithin(recorded'[n], now[t], KeyWindow)]
    IN  (pc[t] = "hf_record" /\ pc'[t] # "hf_record" /\ n \notin skewed') =>
          /\ VaultBreached(c) <=> pc'[t] = "hf_vault"
          /\ (n # MASTER_NAME /\ ~VaultBreached(c)) =>
                (KeyBreached(t, c) <=> pc'[t] = "hf_until")

LEMMA ExactStep == TypeOK /\ WindowInv /\ [Next]_vars => DecidesExactly
  <1> SUFFICES ASSUME TypeOK, WindowInv, [Next]_vars, NEW t \in Threads,
                      pc[t] = "hf_record", pc'[t] # "hf_record", name[t] \notin skewed'
               PROVE  LET n == name[t]
                          c == [in_window     |-> CountWithin(recorded'[n], now[t], FailureWindow),
                                in_key_window |-> CountWithin(recorded'[n], now[t], KeyWindow)]
                      IN  /\ VaultBreached(c) <=> pc'[t] = "hf_vault"
                          /\ (n # MASTER_NAME /\ ~VaultBreached(c)) =>
                                (KeyBreached(t, c) <=> pc'[t] = "hf_until")
    BY Zenon DEF DecidesExactly
  <1> DEFINE n == name[t]
             k == Append(Evict(failure_tracker[n], now[t], KeepFor(KeyThresholdOn(t))), now[t])
             c == [in_window     |-> CountWithin(recorded'[n], now[t], FailureWindow),
                   in_key_window |-> CountWithin(recorded'[n], now[t], KeyWindow)]
             b == [in_window |-> CountWithin(k, now[t], FailureWindow),
                   in_key_window |-> IF KeyThresholdOn(t) THEN CountWithin(k, now[t], KeyWindow) ELSE 0]
  <1>1. RecordFailure(t)
    BY LeavesByRecording, Zenon
  <1>2. /\ recorded' = [recorded EXCEPT ![n] = Append(recorded[n], now[t])]
        /\ CountWithin(k, now[t], FailureWindow) = CountWithin(Append(recorded[n], now[t]), now[t], FailureWindow)
        /\ n # MASTER_NAME /\ KeyThreshold > 0 =>
             CountWithin(k, now[t], KeyWindow) = CountWithin(Append(recorded[n], now[t]), now[t], KeyWindow)
    BY <1>1, RecordExact, Zenon
  <1>3. recorded'[n] = Append(recorded[n], now[t])
    BY <1>2, Zenon DEF TypeOK
  <1>4. IF VaultBreached(b) \/ KeyBreached(t, b)
          THEN Goto(t, IF VaultBreached(b) THEN "hf_vault" ELSE "hf_until") ELSE Return(t)
    BY <1>1, Zenon DEF RecordFailure
  <1> HIDE DEF k
  <1>5. c.in_window = b.in_window /\ (n # MASTER_NAME /\ KeyThresholdOn(t) => c.in_key_window = b.in_key_window)
    BY <1>2, <1>3, Zenon DEF KeyThresholdOn
  <1> HIDE DEF b, c
  <1>6. /\ VaultBreached(c) <=> VaultBreached(b)
        /\ n # MASTER_NAME => (KeyBreached(t, c) <=> KeyBreached(t, b))
    BY <1>5, Zenon DEF VaultBreached, KeyBreached
  <1>7. pc'[t] = IF VaultBreached(b) THEN "hf_vault" ELSE IF KeyBreached(t, b) THEN "hf_until" ELSE "idle"
    BY <1>4, Zenon DEF TypeOK, Goto, Return
  <1> QED  BY <1>6, <1>7, Zenon DEF c

\* record_failure decides exactly by the failures inside the window, evicted or not, for
\* all thresholds, windows and durations and any number of callers.
THEOREM BreachesExact == Spec => WindowExact
  <1>1. Init => WindowInv
    BY DEF Init, WindowInv, PerKeyInv, DequesInv, Remains
  <1>2. TypeOK /\ WindowInv /\ [Next]_vars => WindowInv'
    BY PerKeyStep, DequesStep, Zenon DEF WindowInv
  <1>3. Spec => [][DecidesExactly]_vars
    BY <1>1, <1>2, TypeCorrect, ExactStep, PTL DEF Spec
  <1> QED  BY <1>3, Zenon DEF WindowExact, DecidesExactly
=============================================================================
