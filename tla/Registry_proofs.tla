--------------------------- MODULE Registry_proofs ---------------------------
(***************************************************************************)
(* Proofs about Registry, for every number of threads, names and keys.      *)
(***************************************************************************)
EXTENDS Registry, TLAPS, FiniteSetTheorems

Results == {"none", "ok", "locked", "absent", "duplicate", "failed"} \cup Keys
EventType == [kind : {"Register", "Unregister", "Rotate", "Read"}, name : Names]
TypeInv == TypeOK /\ LocalsSet

\* The parts of TypeInv about the locals of the threads.
LocalsOK ==
  /\ pc \in [Threads -> Labels]
  /\ name \in [Threads -> Names \cup {None}]
  /\ id \in [Threads -> Nat]
  /\ key \in [Threads -> Keys \cup {None}]
  /\ DOMAIN cur = Threads /\ \A t \in Threads : IsKeyMap(cur[t])
  /\ ret \in [Threads -> Results]
  /\ LocalsSet

\* The parts about the shared state.
SharedOK ==
  /\ IsKeyMap(keys)
  /\ writer \in Threads \cup {NoThread}
  /\ next_id \in Nat
  /\ audit \in Seq(EventType)
  /\ locked_out \in BOOLEAN
  /\ key_locked \subseteq Names
  /\ DOMAIN issued \subseteq Nat
  /\ issued \in [DOMAIN issued -> Names]
  /\ calls \in Nat

\* TypeInv splits into the two parts.
LEMMA TypeParts == TypeInv <=> LocalsOK /\ SharedOK
  BY Zenon DEF TypeInv, TypeOK, LocalsOK, SharedOK, Results, EventType

-----------------------------------------------------------------------------
(* Type correctness.                                                       *)

\* The empty registry is a key map.
LEMMA EmptyMapType == IsKeyMap(EmptyMap)
  BY Zenon DEF IsKeyMap, EmptyMap

\* Inserting an entry adds its id and keeps a key map.
LEMMA PutType ==
  ASSUME NEW m, IsKeyMap(m), NEW i \in Nat, NEW e \in Entry
  PROVE  IsKeyMap(Put(m, i, e)) /\ DOMAIN Put(m, i, e) = DOMAIN m \cup {i}
  BY Zenon DEF IsKeyMap, Put

\* Removing an id keeps a key map.
LEMMA WithoutType ==
  ASSUME NEW m, IsKeyMap(m), NEW i
  PROVE  IsKeyMap(Without(m, i)) /\ DOMAIN Without(m, i) = DOMAIN m \ {i}
  BY Zenon DEF IsKeyMap, Without

\* Replacing the key of an id keeps a key map, its ids and their names.
LEMMA RekeyType ==
  ASSUME NEW m, IsKeyMap(m), NEW i \in DOMAIN m, NEW k \in Keys
  PROVE  /\ IsKeyMap([m EXCEPT ![i].key = k])
         /\ DOMAIN [m EXCEPT ![i].key = k] = DOMAIN m
         /\ \A j \in DOMAIN m : [m EXCEPT ![i].key = k][j].name = m[j].name
  <1>1. m[i] \in Entry /\ [m[i] EXCEPT !.key = k] \in Entry /\ [m[i] EXCEPT !.key = k].name = m[i].name
    BY Zenon DEF IsKeyMap, Entry
  <1> QED  BY <1>1, Zenon DEF IsKeyMap

\* A return resets the locals.
LEMMA ReturnType ==
  ASSUME LocalsOK, NEW t \in Threads, NEW r \in Results, Return(t, r)
  PROVE  LocalsOK'
  <1>1. /\ pc' \in [Threads -> Labels] /\ name' \in [Threads -> Names \cup {None}]
        /\ id' \in [Threads -> Nat] /\ key' \in [Threads -> Keys \cup {None}]
        /\ ret' \in [Threads -> Results]
    BY Zenon DEF LocalsOK, Return, Goto, Labels
  <1>2. DOMAIN cur' = Threads /\ \A u \in Threads : IsKeyMap(cur'[u])
    <2>1. /\ DOMAIN cur' = Threads
          /\ \A u \in Threads : cur'[u] = IF u = t THEN EmptyMap ELSE cur[u]
      BY Zenon DEF LocalsOK, Return
    <2> QED  BY <2>1, EmptyMapType, Zenon DEF LocalsOK
  <1>3. LocalsSet'
    BY Zenon DEF LocalsOK, LocalsSet, NamedAt, KeyedAt, Return, Goto
  <1>4. (\A u \in Threads : IsKeyMap(cur[u]))'
    BY <1>2, Zenon DEF IsKeyMap
  <1> QED  BY <1>1, <1>2, <1>3, <1>4, Zenon DEF LocalsOK

\* A jump keeps the locals, which the new label expects to be set already.
LEMMA GotoType ==
  ASSUME LocalsOK, NEW t \in Threads, NEW label \in Labels, Goto(t, label),
         UNCHANGED <<name, id, key, cur, ret>>,
         label \in NamedAt => pc[t] \in NamedAt,
         label \in KeyedAt => pc[t] \in KeyedAt
  PROVE  LocalsOK'
  BY Zenon DEF LocalsOK, LocalsSet, Goto, IsKeyMap

\* Entering a handler sets the locals its first label expects.
LEMMA EnterType ==
  ASSUME LocalsOK, NEW t \in Threads, NEW label \in Labels,
         NEW n \in Names \cup {None}, NEW i \in Nat, NEW k \in Keys \cup {None},
         Enter(t, label, n, i, k),
         label \in NamedAt => n \in Names,
         label \in KeyedAt => k \in Keys
  PROVE  LocalsOK'
  BY Zenon DEF LocalsOK, LocalsSet, Enter, Goto, IsKeyMap, Results

\* Appending an audit event keeps the trail typed.
LEMMA EmitType ==
  ASSUME LocalsOK, SharedOK, NEW t \in Threads, NEW n \in Names, NEW r \in Results,
         NEW kind \in {"Register", "Unregister", "Rotate", "Read"}, Emit(t, kind, n, r)
  PROVE  LocalsOK' /\ SharedOK'
  <1>1. LocalsOK'
    BY ReturnType, Zenon DEF Emit
  <1>2. [kind |-> kind, name |-> n] \in EventType
    BY Zenon DEF EventType
  <1>3. audit' \in Seq(EventType)
    BY <1>2 DEF Emit, SharedOK
  <1> QED  BY <1>1, <1>3, Zenon DEF Emit, SharedOK, lockout, IsKeyMap

\* Taking the writer lock copies the current map.
LEMMA LockWriterType ==
  ASSUME LocalsOK, SharedOK, NEW t \in Threads, NEW label \in Labels, LockWriter(t, label),
         label \in NamedAt => pc[t] \in NamedAt,
         label \in KeyedAt => pc[t] \in KeyedAt
  PROVE  LocalsOK' /\ SharedOK'
  <1>1. DOMAIN cur' = Threads /\ \A u \in Threads : cur'[u] = IF u = t THEN keys ELSE cur[u]
    BY Zenon DEF LocalsOK, LockWriter
  <1>2. \A u \in Threads : IsKeyMap(cur'[u])
    BY <1>1, Zenon DEF LocalsOK, SharedOK
  <1>3. (\A u \in Threads : IsKeyMap(cur[u]))'
    BY <1>2, Zenon DEF IsKeyMap
  <1>4. pc' \in [Threads -> Labels] /\ LocalsSet'
    BY Zenon DEF LocalsOK, LocalsSet, LockWriter, Goto
  <1>5. LocalsOK'
    BY <1>1, <1>3, <1>4, Zenon DEF LocalsOK, LockWriter
  <1> QED  BY <1>5, Zenon DEF LockWriter, SharedOK, lockout, IsKeyMap

\* Leaving the critical section with an error keeps the types.
LEMMA AbandonType ==
  ASSUME LocalsOK, SharedOK, NEW t \in Threads, NEW r \in Results, Abandon(t, r)
  PROVE  LocalsOK' /\ SharedOK'
  <1>1. LocalsOK'
    BY ReturnType, Zenon DEF Abandon
  <1> QED  BY <1>1, Zenon DEF Abandon, SharedOK, lockout, IsKeyMap

\* Initially the variables have their types.
LEMMA TypeInit == Init => TypeInv
  <1> SUFFICES ASSUME Init PROVE LocalsOK /\ SharedOK
    BY TypeParts, Zenon
  <1>1. SharedOK
    <2>1. IsKeyMap(keys)
      BY EmptyMapType, Zenon DEF Init
    <2>2. DOMAIN issued \subseteq Nat /\ issued \in [DOMAIN issued -> Names]
      BY Zenon DEF Init
    <2>3. audit \in Seq(EventType) /\ key_locked \subseteq Names
      BY DEF Init
    <2> QED  BY <2>1, <2>2, <2>3, Zenon DEF Init, SharedOK
  <1>2. DOMAIN cur = Threads /\ \A t \in Threads : IsKeyMap(cur[t])
    BY EmptyMapType, Zenon DEF Init
  <1>3. LocalsSet
    BY Zenon DEF Init, LocalsSet, NamedAt, KeyedAt
  <1>4. /\ pc \in [Threads -> Labels] /\ name \in [Threads -> Names \cup {None}]
        /\ id \in [Threads -> Nat] /\ key \in [Threads -> Keys \cup {None}]
        /\ ret \in [Threads -> Results]
    BY Zenon DEF Init, Labels, Results
  <1> QED  BY <1>1, <1>2, <1>3, <1>4, Zenon DEF LocalsOK

\* A call enters its handler or is refused.
LEMMA CallType ==
  ASSUME LocalsOK, SharedOK, NEW t \in Threads, Call(t)
  PROVE  LocalsOK' /\ SharedOK'
  <1> USE DEF Labels, Holding, NamedAt, KeyedAt
  <1>1. Begin(t)
    BY Zenon DEF Call, Register, Unregister, WithKey, Rotate
  <1>2. SharedOK'
    BY <1>1 DEF Begin, SharedOK, lockout, IsKeyMap
  <1>3. "locked" \in Results
    BY Zenon DEF Results
  <1>4. ASSUME NEW n \in Names, NEW k \in Keys, Register(t, n, k) PROVE LocalsOK'
    BY <1>3, <1>4, ReturnType, EnterType, Zenon DEF Register, Gated
  <1>5. ASSUME NEW i \in DOMAIN issued PROVE i \in Nat
    BY Zenon DEF SharedOK
  <1>6. ASSUME NEW i \in DOMAIN issued, Unregister(t, i) PROVE LocalsOK'
    BY <1>5, <1>6, EnterType, Zenon DEF Unregister
  <1>7. ASSUME NEW i \in DOMAIN issued, WithKey(t, i) PROVE LocalsOK'
    BY <1>3, <1>5, <1>7, ReturnType, EnterType, Zenon DEF WithKey, Gated
  <1>8. ASSUME NEW i \in DOMAIN issued, NEW k \in Keys, Rotate(t, i, k) PROVE LocalsOK'
    BY <1>3, <1>5, <1>8, ReturnType, EnterType, Zenon DEF Rotate, Gated
  <1> QED  BY <1>2, <1>4, <1>6, <1>7, <1>8, Zenon DEF Call

\* register keeps the types.
LEMMA RegisterType ==
  ASSUME LocalsOK, SharedOK, NEW t \in Threads,
         \/ RegisterCheck(t) \/ RegisterFragment(t) \/ RegisterLock(t)
         \/ RegisterInstall(t) \/ RegisterAudit(t)
  PROVE  LocalsOK' /\ SharedOK'
  <1> USE DEF Labels, Holding, NamedAt, KeyedAt
  <1>1. "ok" \in Results /\ "duplicate" \in Results /\ "failed" \in Results
    BY Zenon DEF Results
  <1>2. CASE RegisterCheck(t)
    <2>1. LocalsOK'
      BY <1>1, <1>2, ReturnType, GotoType, Zenon DEF RegisterCheck
    <2> QED  BY <1>2, <2>1, Zenon DEF RegisterCheck, Local, SharedOK, lockout, IsKeyMap
  <1>3. CASE RegisterFragment(t)
    <2>1. CASE Return(t, "failed") /\ UNCHANGED next_id
      <3>1. LocalsOK'
        BY <1>1, <2>1, ReturnType, Zenon
      <3> QED  BY <1>3, <2>1, <3>1, Zenon DEF RegisterFragment, SharedOK, lockout, IsKeyMap
    <2>2. CASE /\ id' = [id EXCEPT ![t] = next_id] /\ next_id' = next_id + 1
               /\ Goto(t, "rg_lock") /\ UNCHANGED <<name, key, cur, ret>>
      <3>1. next_id' \in Nat /\ next_id \in Nat
        BY <2>2 DEF SharedOK
      <3>2. LocalsOK'
        BY <1>3, <2>2, <3>1 DEF RegisterFragment, LocalsOK, LocalsSet, Goto, IsKeyMap
      <3> QED  BY <1>3, <3>1, <3>2, Zenon DEF RegisterFragment, SharedOK, lockout, IsKeyMap
    <2> QED  BY <1>3, <2>1, <2>2, Zenon DEF RegisterFragment
  <1>4. CASE RegisterLock(t)
    BY <1>4, LockWriterType, Zenon DEF RegisterLock
  <1>5. CASE RegisterInstall(t)
    <2>1. CASE NameUsed(cur[t], name[t])
      BY <1>1, <1>5, <2>1, AbandonType, Zenon DEF RegisterInstall
    <2>2. CASE ~NameUsed(cur[t], name[t])
      <3> DEFINE e == [name |-> name[t], key |-> key[t]]
      <3>1. name[t] \in Names /\ id[t] \in Nat /\ e \in Entry /\ IsKeyMap(cur[t])
        BY <1>5, Zenon DEF RegisterInstall, LocalsOK, LocalsSet, Entry
      <3>2. IsKeyMap(Put(cur[t], id[t], e))
        BY <3>1, PutType, Zenon
      <3>3. /\ keys' = Put(cur[t], id[t], e) /\ writer' = NoThread /\ Goto(t, "rg_audit")
            /\ UNCHANGED <<next_id, audit, lockout, id, key, ret, calls, name, cur>>
            /\ issued' = Put(issued, id[t], name[t])
        BY <1>5, <2>2, Zenon DEF RegisterInstall, Swap
      <3>4. IsKeyMap(keys')
        BY <3>2, <3>3, Zenon
      <3>5. DOMAIN issued' \subseteq Nat /\ issued' \in [DOMAIN issued' -> Names]
        BY <3>1, <3>3, Zenon DEF SharedOK, Put
      <3>6. LocalsOK'
        BY <1>5, <3>3, GotoType, Zenon DEF RegisterInstall
      <3> QED  BY <3>3, <3>4, <3>5, <3>6, Zenon DEF SharedOK, lockout, IsKeyMap
    <2> QED  BY <2>1, <2>2, Zenon
  <1>6. CASE RegisterAudit(t)
    <2>1. name[t] \in Names
      BY <1>6, Zenon DEF RegisterAudit, LocalsOK, LocalsSet
    <2> QED  BY <1>1, <1>6, <2>1, EmitType, Zenon DEF RegisterAudit
  <1> QED  BY <1>2, <1>3, <1>4, <1>5, <1>6, Zenon

\* unregister keeps the types.
LEMMA UnregisterType ==
  ASSUME LocalsOK, SharedOK, NEW t \in Threads,
         UnregisterLock(t) \/ UnregisterInstall(t) \/ UnregisterAudit(t)
  PROVE  LocalsOK' /\ SharedOK'
  <1> USE DEF Labels, Holding, NamedAt, KeyedAt
  <1>1. "ok" \in Results /\ "absent" \in Results
    BY Zenon DEF Results
  <1>2. CASE UnregisterLock(t)
    BY <1>2, LockWriterType, Zenon DEF UnregisterLock
  <1>3. CASE UnregisterInstall(t)
    <2>1. CASE id[t] \notin DOMAIN cur[t]
      BY <1>1, <1>3, <2>1, AbandonType, Zenon DEF UnregisterInstall
    <2>2. CASE id[t] \in DOMAIN cur[t]
      <3>1. IsKeyMap(cur[t]) /\ cur[t][id[t]].name \in Names
        BY <2>2, Zenon DEF LocalsOK, IsKeyMap, Entry
      <3>2. /\ keys' = Without(cur[t], id[t]) /\ writer' = NoThread /\ Goto(t, "un_audit")
            /\ UNCHANGED <<next_id, audit, lockout, id, key, ret, calls, cur, issued>>
            /\ name' = [name EXCEPT ![t] = cur[t][id[t]].name]
        BY <1>3, <2>2, Zenon DEF UnregisterInstall, Swap
      <3>3. IsKeyMap(keys')
        BY <3>1, <3>2, WithoutType, Zenon
      <3>4. LocalsOK'
        BY <3>1, <3>2, Zenon DEF LocalsOK, LocalsSet, Goto, IsKeyMap
      <3> QED  BY <3>2, <3>3, <3>4, Zenon DEF SharedOK, lockout, IsKeyMap
    <2> QED  BY <2>1, <2>2, Zenon
  <1>4. CASE UnregisterAudit(t)
    <2>1. name[t] \in Names
      BY <1>4, Zenon DEF UnregisterAudit, LocalsOK, LocalsSet
    <2> QED  BY <1>1, <1>4, <2>1, EmitType, Zenon DEF UnregisterAudit
  <1> QED  BY <1>2, <1>3, <1>4, Zenon

\* rotate keeps the types.
LEMMA RotateType ==
  ASSUME LocalsOK, SharedOK, NEW t \in Threads,
         \/ RotateCheck(t) \/ RotateGate(t) \/ RotateLock(t)
         \/ RotateInstall(t) \/ RotateAudit(t)
  PROVE  LocalsOK' /\ SharedOK'
  <1> USE DEF Labels, Holding, NamedAt, KeyedAt
  <1>1. "ok" \in Results /\ "absent" \in Results /\ "locked" \in Results /\ "failed" \in Results
    BY Zenon DEF Results
  <1>2. CASE RotateCheck(t)
    <2>1. LocalsOK'
      <3>1. CASE id[t] \notin DOMAIN keys
        BY <1>1, <1>2, <3>1, ReturnType, Zenon DEF RotateCheck
      <3>2. CASE id[t] \in DOMAIN keys
        <4>1. keys[id[t]].name \in Names
          BY <3>2, Zenon DEF SharedOK, IsKeyMap, Entry
        <4>2. /\ name' = [name EXCEPT ![t] = keys[id[t]].name]
              /\ pc' = [pc EXCEPT ![t] = "ro_gate"] /\ pc[t] = "ro_check"
              /\ UNCHANGED <<id, key, cur, ret>>
          BY <1>2, <3>2, Zenon DEF RotateCheck, Goto
        <4>3. LocalsSet'
          BY <4>1, <4>2 DEF LocalsOK, LocalsSet
        <4> QED  BY <4>1, <4>2, <4>3, Zenon DEF LocalsOK, IsKeyMap
      <3> QED  BY <3>1, <3>2, Zenon
    <2> QED  BY <1>2, <2>1, Zenon DEF RotateCheck, Local, SharedOK, lockout, IsKeyMap
  <1>3. CASE RotateGate(t)
    <2>1. LocalsOK'
      BY <1>1, <1>3, ReturnType, GotoType, Zenon DEF RotateGate
    <2> QED  BY <1>3, <2>1, Zenon DEF RotateGate, Local, SharedOK, lockout, IsKeyMap
  <1>4. CASE RotateLock(t)
    BY <1>4, LockWriterType, Zenon DEF RotateLock
  <1>5. CASE RotateInstall(t)
    <2>1. CASE id[t] \notin DOMAIN cur[t]
      BY <1>1, <1>5, <2>1, AbandonType, Zenon DEF RotateInstall
    <2>2. CASE id[t] \in DOMAIN cur[t]
      <3>1. IsKeyMap(cur[t]) /\ key[t] \in Keys
        BY <1>5, Zenon DEF RotateInstall, LocalsOK, LocalsSet
      <3>2. /\ keys' = [cur[t] EXCEPT ![id[t]].key = key[t]] /\ writer' = NoThread
            /\ Goto(t, "ro_audit")
            /\ UNCHANGED <<next_id, audit, lockout, id, key, ret, calls, name, cur, issued>>
        BY <1>5, <2>2, Zenon DEF RotateInstall, Swap
      <3>3. IsKeyMap(keys')
        BY <2>2, <3>1, <3>2, RekeyType, Zenon
      <3>4. LocalsOK'
        BY <1>5, <3>2, GotoType, Zenon DEF RotateInstall
      <3> QED  BY <3>2, <3>3, <3>4, Zenon DEF SharedOK, lockout, IsKeyMap
    <2> QED  BY <2>1, <2>2, Zenon
  <1>6. CASE RotateAudit(t)
    <2>1. name[t] \in Names
      BY <1>6, Zenon DEF RotateAudit, LocalsOK, LocalsSet
    <2> QED  BY <1>1, <1>6, <2>1, EmitType, Zenon DEF RotateAudit
  <1> QED  BY <1>2, <1>3, <1>4, <1>5, <1>6, Zenon

\* with_key keeps the types.
LEMMA WithKeyType ==
  ASSUME LocalsOK, SharedOK, NEW t \in Threads,
         WithKeyLoad(t) \/ WithKeyGate(t) \/ WithKeyAudit(t)
  PROVE  LocalsOK' /\ SharedOK'
  <1> USE DEF Labels, Holding, NamedAt, KeyedAt
  <1>1. "absent" \in Results /\ "locked" \in Results /\ "failed" \in Results
    BY Zenon DEF Results
  <1>2. CASE WithKeyLoad(t)
    <2>1. LocalsOK'
      <3>1. CASE id[t] \notin DOMAIN keys
        BY <1>1, <1>2, <3>1, ReturnType, Zenon DEF WithKeyLoad
      <3>2. CASE id[t] \in DOMAIN keys
        <4>1. keys[id[t]].name \in Names /\ keys[id[t]].key \in Keys
          BY <3>2, Zenon DEF SharedOK, IsKeyMap, Entry
        <4>2. /\ name' = [name EXCEPT ![t] = keys[id[t]].name]
              /\ key' = [key EXCEPT ![t] = keys[id[t]].key]
              /\ pc' = [pc EXCEPT ![t] = "wk_gate"] /\ pc[t] = "wk_load"
              /\ UNCHANGED <<id, cur, ret>>
          BY <1>2, <3>2, Zenon DEF WithKeyLoad, Goto
        <4>3. LocalsSet'
          BY <4>1, <4>2, Zenon DEF LocalsOK, LocalsSet
        <4> QED  BY <4>1, <4>2, <4>3, Zenon DEF LocalsOK, IsKeyMap
      <3> QED  BY <3>1, <3>2, Zenon
    <2> QED  BY <1>2, <2>1, Zenon DEF WithKeyLoad, Local, SharedOK, lockout, IsKeyMap
  <1>3. CASE WithKeyGate(t)
    <2>1. LocalsOK'
      BY <1>1, <1>3, ReturnType, GotoType, Zenon DEF WithKeyGate
    <2> QED  BY <1>3, <2>1, Zenon DEF WithKeyGate, Local, SharedOK, lockout, IsKeyMap
  <1>4. CASE WithKeyAudit(t)
    <2>1. name[t] \in Names /\ key[t] \in Results
      BY <1>4, Zenon DEF WithKeyAudit, LocalsOK, LocalsSet, Results
    <2> QED  BY <1>4, <2>1, EmitType, Zenon DEF WithKeyAudit
  <1> QED  BY <1>2, <1>3, <1>4, Zenon

\* Every step keeps the types.
LEMMA TypeStep == TypeInv /\ [Next]_vars => TypeInv'
  <1> SUFFICES ASSUME LocalsOK, SharedOK, [Next]_vars PROVE LocalsOK' /\ SharedOK'
    <2>1. TypeInv' <=> LocalsOK' /\ SharedOK'
      BY TypeParts, PTL
    <2> QED  BY <2>1, TypeParts, Zenon
  <1>1. CASE UNCHANGED vars \/ LockoutChanges
    <2>1. LocalsOK'
      BY <1>1, Zenon DEF vars, locals, LockoutChanges, LocalsOK, LocalsSet, IsKeyMap
    <2>2. locked_out' \in BOOLEAN /\ key_locked' \subseteq Names
      BY <1>1, Zenon DEF vars, lockout, LockoutChanges, SharedOK
    <2> QED  BY <1>1, <2>1, <2>2, Zenon DEF vars, lockout, LockoutChanges, SharedOK, IsKeyMap
  <1> QED
    BY <1>1, CallType, RegisterType, UnregisterType, RotateType, WithKeyType, Zenon DEF Next, Step

\* The registry, its audit trail and the locals of the calls keep their types;
\* no event without a name is ever emitted.
THEOREM RegistryTypeCorrect == Spec => []TypeOK
  <1>1. TypeInv => TypeOK
    BY Zenon DEF TypeInv
  <1> QED  BY <1>1, TypeInit, TypeStep, PTL DEF Spec

-----------------------------------------------------------------------------
(* Unique names and handles for life.                                      *)

\* Initially the registry is empty.
LEMMA RegistryInit == Init => RegistryInv
  <1> SUFFICES ASSUME Init PROVE RegistryInv
    BY Zenon
  <1>1. MutexInv /\ CurrentInv
    BY RegistryAssumption, Zenon DEF Init, MutexInv, CurrentInv, Holding
  <1>2. FreshInv
    BY Zenon DEF Init, FreshInv, Allocated, EmptyMap
  <1>3. UniqueNames
    BY Zenon DEF Init, UniqueNames, EmptyMap
  <1> QED  BY <1>1, <1>2, <1>3, Zenon DEF RegistryInv

\* A step outside the critical section that allocates nothing.
LEMMA OutsideStep ==
  ASSUME TypeInv, RegistryInv, NEW t \in Threads, NEW to,
         pc[t] \notin Holding \cup {"rg_lock"}, to \notin Holding \cup {"rg_lock"}, Goto(t, to),
         \A u \in Threads : u # t => id'[u] = id[u] /\ cur'[u] = cur[u],
         UNCHANGED <<keys, writer, next_id, issued>>
  PROVE  RegistryInv'
  <1>1. pc'[t] = to /\ \A u \in Threads : u # t => pc'[u] = pc[u]
    BY Zenon DEF TypeInv, TypeOK, Goto
  <1>2. MutexInv' /\ CurrentInv'
    BY <1>1, Zenon DEF RegistryInv, MutexInv, CurrentInv
  <1>3. \A u \in Threads : Allocated(u)' => u # t /\ Allocated(u) /\ id'[u] = id[u]
    BY <1>1, Zenon DEF Allocated, Holding
  <1>4. FreshInv'
    BY <1>3, Zenon DEF RegistryInv, FreshInv
  <1> QED  BY <1>2, <1>4, Zenon DEF RegistryInv, UniqueNames

\* Taking the writer lock: the holder's copy is the current map.
LEMMA LockStep ==
  ASSUME TypeInv, RegistryInv, NEW t \in Threads, NEW to \in Holding, LockWriter(t, to),
         pc[t] \notin Holding, to = "rg_install" => pc[t] = "rg_lock"
  PROVE  RegistryInv'
  <1>1. /\ pc'[t] = to /\ \A u \in Threads : u # t => pc'[u] = pc[u]
        /\ cur'[t] = keys /\ \A u \in Threads : u # t => cur'[u] = cur[u]
        /\ writer = NoThread /\ writer' = t /\ UNCHANGED <<keys, next_id, issued, id>>
    BY Zenon DEF TypeInv, TypeOK, LockWriter, Goto
  <1>2. \A u \in Threads : pc[u] \notin Holding
    BY <1>1, RegistryAssumption, Zenon DEF RegistryInv, MutexInv
  <1>3. MutexInv' /\ CurrentInv'
    BY <1>1, <1>2, Zenon DEF MutexInv, CurrentInv
  <1>4. \A u \in Threads : Allocated(u)' => Allocated(u)
    BY <1>1, Zenon DEF Allocated, Holding
  <1>5. FreshInv'
    BY <1>1, <1>4, Zenon DEF RegistryInv, FreshInv
  <1> QED  BY <1>1, <1>3, <1>5, Zenon DEF RegistryInv, UniqueNames

\* Leaving the critical section: nobody else is in it, so any map may be
\* installed that keeps names unique and ids issued.
LEMMA LeaveStep ==
  ASSUME TypeInv, RegistryInv, NEW t \in Threads, NEW to,
         pc[t] \in Holding, to \notin Holding \cup {"rg_lock"}, Goto(t, to), writer' = NoThread,
         \A u \in Threads : u # t => id'[u] = id[u],
         next_id' = next_id, UniqueNames', DOMAIN keys' \subseteq DOMAIN issued',
         \/ issued' = issued
         \/ pc[t] = "rg_install" /\ DOMAIN issued' = DOMAIN issued \cup {id[t]}
  PROVE  RegistryInv'
  <1>1. pc'[t] = to /\ \A u \in Threads : u # t => pc'[u] = pc[u]
    BY Zenon DEF TypeInv, TypeOK, Goto
  <1>2. \A u \in Threads : u # t => pc[u] \notin Holding
    BY RegistryAssumption, Zenon DEF RegistryInv, MutexInv
  <1>3. MutexInv' /\ CurrentInv'
    BY <1>1, <1>2, RegistryAssumption, Zenon DEF MutexInv, CurrentInv
  <1>4. \A u \in Threads : Allocated(u)' => u # t /\ Allocated(u) /\ id'[u] = id[u]
    BY <1>1, Zenon DEF Allocated, Holding
  <1>5. FreshInv'
    <2>1. pc[t] = "rg_install" => Allocated(t)
      BY Zenon DEF Allocated
    <2>2. \A i \in DOMAIN issued' : i < next_id'
      BY <2>1, Zenon DEF RegistryInv, FreshInv
    <2>3. \A u \in Threads : Allocated(u)' => id'[u] < next_id' /\ id'[u] \notin DOMAIN issued'
      BY <1>4, <2>1, Zenon DEF RegistryInv, FreshInv
    <2>4. \A u, v \in Threads : Allocated(u)' /\ Allocated(v)' /\ id'[u] = id'[v] => u = v
      BY <1>4, Zenon DEF RegistryInv, FreshInv
    <2> QED  BY <2>2, <2>3, <2>4, Zenon DEF FreshInv
  <1> QED  BY <1>3, <1>5, Zenon DEF RegistryInv

\* Allocating a handle: the counter has not given out the id before.
LEMMA FragmentStep ==
  ASSUME TypeInv, RegistryInv, NEW t \in Threads, RegisterFragment(t)
  PROVE  RegistryInv'
  <1>1. pc[t] = "rg_fragment" /\ UNCHANGED <<keys, writer, issued>>
    BY Zenon DEF RegisterFragment
  <1>2. CASE Return(t, "failed") /\ UNCHANGED next_id
    <2>1. /\ Goto(t, "idle") /\ \A u \in Threads : u # t => id'[u] = id[u] /\ cur'[u] = cur[u]
      BY <1>2, Zenon DEF Return, TypeInv, TypeOK
    <2> QED  BY <1>1, <1>2, <2>1, OutsideStep, Zenon DEF Holding
  <1>3. CASE /\ id' = [id EXCEPT ![t] = next_id] /\ next_id' = next_id + 1
             /\ Goto(t, "rg_lock") /\ UNCHANGED <<name, key, cur, ret>>
    <2>1. /\ pc'[t] = "rg_lock" /\ \A u \in Threads : u # t => pc'[u] = pc[u]
          /\ id'[t] = next_id /\ \A u \in Threads : u # t => id'[u] = id[u]
          /\ next_id \in Nat /\ next_id' = next_id + 1 /\ cur' = cur
      BY <1>3, Zenon DEF TypeInv, TypeOK, Goto
    <2>2. MutexInv' /\ CurrentInv'
      BY <1>1, <2>1, Zenon DEF RegistryInv, MutexInv, CurrentInv, Holding
    <2>3. \A u \in Threads : u # t => (Allocated(u)' <=> Allocated(u))
      BY <2>1, Zenon DEF Allocated
    <2>4. (\A u \in Threads : id[u] \in Nat) /\ (\A i \in DOMAIN issued : i \in Nat)
      BY Zenon DEF TypeInv, TypeOK
    <2>5. FreshInv'
      BY <1>1, <2>1, <2>3, <2>4 DEF RegistryInv, FreshInv
    <2> QED  BY <1>1, <2>2, <2>5, Zenon DEF RegistryInv, UniqueNames
  <1> QED  BY <1>2, <1>3, Zenon DEF RegisterFragment

\* What a step may not do to a handle (the body of HandlesStable).
StableStep ==
  /\ \A i \in DOMAIN keys' : i \in DOMAIN issued => i \in DOMAIN keys
  /\ \A i \in DOMAIN keys \cap DOMAIN keys' : keys'[i].name = keys[i].name

\* An abandoned update leaves the registry as it was.
LEMMA AbandonStep ==
  ASSUME TypeInv, RegistryInv, NEW t \in Threads, NEW r, pc[t] \in Holding, Abandon(t, r)
  PROVE  RegistryInv' /\ StableStep
  <1>1. /\ Goto(t, "idle") /\ writer' = NoThread /\ UNCHANGED <<keys, next_id, issued>>
        /\ \A u \in Threads : u # t => id'[u] = id[u]
    BY Zenon DEF Abandon, Return, TypeInv, TypeOK
  <1>2. UniqueNames' /\ DOMAIN keys' \subseteq DOMAIN issued' /\ StableStep
    BY <1>1, Zenon DEF RegistryInv, UniqueNames, FreshInv, StableStep
  <1>3. "idle" \notin Holding \cup {"rg_lock"}
    BY Zenon DEF Holding
  <1> QED  BY <1>1, <1>2, <1>3, LeaveStep, Zenon

\* register stores an id no caller has seen under a name nobody uses.
LEMMA RegisterInstallStep ==
  ASSUME TypeInv, RegistryInv, NEW t \in Threads, RegisterInstall(t)
  PROVE  RegistryInv' /\ StableStep
  <1>1. pc[t] = "rg_install" /\ pc[t] \in Holding /\ cur[t] = keys /\ Allocated(t)
    BY Zenon DEF RegisterInstall, Holding, RegistryInv, CurrentInv, Allocated
  <1>2. CASE NameUsed(cur[t], name[t])
    BY <1>1, <1>2, AbandonStep, Zenon DEF RegisterInstall
  <1>3. CASE ~NameUsed(cur[t], name[t])
    <2> DEFINE e == [name |-> name[t], key |-> key[t]]
    <2>1. /\ keys' = Put(keys, id[t], e) /\ writer' = NoThread /\ Goto(t, "rg_audit")
          /\ UNCHANGED <<next_id, id>> /\ issued' = Put(issued, id[t], name[t])
      BY <1>1, <1>3, Zenon DEF RegisterInstall, Swap
    <2>2. /\ DOMAIN keys' = DOMAIN keys \cup {id[t]}
          /\ DOMAIN issued' = DOMAIN issued \cup {id[t]}
          /\ \A i \in DOMAIN keys' : keys'[i] = IF i = id[t] THEN e ELSE keys[i]
      BY <2>1, Zenon DEF Put
    <2>3. id[t] \notin DOMAIN issued /\ id[t] \notin DOMAIN keys
      BY <1>1, Zenon DEF RegistryInv, FreshInv
    <2>4. \A i \in DOMAIN keys : keys[i].name # name[t]
      BY <1>1, <1>3, Zenon DEF NameUsed
    <2>5. UniqueNames'
      BY <2>2, <2>4 DEF RegistryInv, UniqueNames
    <2>6. DOMAIN keys' \subseteq DOMAIN issued' /\ StableStep
      BY <2>2, <2>3, Zenon DEF RegistryInv, FreshInv, StableStep
    <2>7. "rg_audit" \notin Holding \cup {"rg_lock"}
      BY Zenon DEF Holding
    <2> QED  BY <1>1, <2>1, <2>2, <2>5, <2>6, <2>7, LeaveStep, Zenon
  <1> QED  BY <1>2, <1>3, Zenon

\* unregister only removes.
LEMMA UnregisterInstallStep ==
  ASSUME TypeInv, RegistryInv, NEW t \in Threads, UnregisterInstall(t)
  PROVE  RegistryInv' /\ StableStep
  <1>1. pc[t] \in Holding /\ cur[t] = keys
    BY Zenon DEF UnregisterInstall, Holding, RegistryInv, CurrentInv
  <1>2. CASE id[t] \notin DOMAIN cur[t]
    BY <1>1, <1>2, AbandonStep, Zenon DEF UnregisterInstall
  <1>3. CASE id[t] \in DOMAIN cur[t]
    <2>1. /\ keys' = Without(keys, id[t]) /\ writer' = NoThread /\ Goto(t, "un_audit")
          /\ UNCHANGED <<next_id, id, issued>>
      BY <1>1, <1>3, Zenon DEF UnregisterInstall, Swap
    <2>2. /\ DOMAIN keys' = DOMAIN keys \ {id[t]}
          /\ \A i \in DOMAIN keys' : keys'[i] = keys[i]
      BY <2>1, Zenon DEF Without
    <2>3. UniqueNames'
      BY <2>2, Zenon DEF RegistryInv, UniqueNames
    <2>4. DOMAIN keys' \subseteq DOMAIN issued' /\ StableStep
      BY <2>1, <2>2, Zenon DEF RegistryInv, FreshInv, StableStep
    <2>5. "un_audit" \notin Holding \cup {"rg_lock"}
      BY Zenon DEF Holding
    <2> QED  BY <1>1, <2>1, <2>3, <2>4, <2>5, LeaveStep, Zenon
  <1> QED  BY <1>2, <1>3, Zenon

\* rotate keeps the ids and their names.
LEMMA RotateInstallStep ==
  ASSUME TypeInv, RegistryInv, NEW t \in Threads, RotateInstall(t)
  PROVE  RegistryInv' /\ StableStep
  <1>1. pc[t] = "ro_install" /\ pc[t] \in Holding /\ cur[t] = keys
    BY Zenon DEF RotateInstall, Holding, RegistryInv, CurrentInv
  <1>2. CASE id[t] \notin DOMAIN cur[t]
    BY <1>1, <1>2, AbandonStep, Zenon DEF RotateInstall
  <1>3. CASE id[t] \in DOMAIN cur[t]
    <2>1. /\ keys' = [keys EXCEPT ![id[t]].key = key[t]] /\ writer' = NoThread
          /\ Goto(t, "ro_audit") /\ UNCHANGED <<next_id, id, issued>>
      BY <1>1, <1>3, Zenon DEF RotateInstall, Swap
    <2>2. IsKeyMap(keys) /\ key[t] \in Keys /\ id[t] \in DOMAIN keys
      BY <1>1, <1>3, Zenon DEF TypeInv, TypeOK, LocalsSet, KeyedAt, Labels, Holding
    <2>3. DOMAIN keys' = DOMAIN keys /\ \A i \in DOMAIN keys : keys'[i].name = keys[i].name
      BY <2>1, <2>2, RekeyType
    <2>4. UniqueNames'
      BY <2>3, Zenon DEF RegistryInv, UniqueNames
    <2>5. DOMAIN keys' \subseteq DOMAIN issued' /\ StableStep
      BY <2>1, <2>3, Zenon DEF RegistryInv, FreshInv, StableStep
    <2>6. "ro_audit" \notin Holding \cup {"rg_lock"}
      BY Zenon DEF Holding
    <2> QED  BY <1>1, <2>1, <2>4, <2>5, <2>6, LeaveStep, Zenon
  <1> QED  BY <1>2, <1>3, Zenon

\* The remaining steps leave the map and its lock alone, or take the lock.
LEMMA OtherStep ==
  ASSUME TypeInv, RegistryInv, NEW t \in Threads, Call(t) \/ Step(t),
         ~RegisterInstall(t), ~UnregisterInstall(t), ~RotateInstall(t)
  PROVE  RegistryInv' /\ keys' = keys
  <1>1. CASE RegisterFragment(t)
    BY <1>1, FragmentStep, Zenon DEF RegisterFragment
  <1>2. CASE RegisterLock(t) \/ UnregisterLock(t) \/ RotateLock(t)
    <2>1. \E to \in Holding : /\ LockWriter(t, to) /\ pc[t] \notin Holding
                              /\ to = "rg_install" => pc[t] = "rg_lock"
      BY <1>2, Zenon DEF RegisterLock, UnregisterLock, RotateLock, Holding
    <2> QED  BY <2>1, LockStep, Zenon DEF LockWriter
  <1>3. CASE ~RegisterFragment(t) /\ ~RegisterLock(t) /\ ~UnregisterLock(t) /\ ~RotateLock(t)
    <2>1. /\ \E to \in Labels \ (Holding \cup {"rg_lock"}) : Goto(t, to)
          /\ pc[t] \notin Holding \cup {"rg_lock"}
          /\ UNCHANGED <<keys, writer, next_id, issued>>
          /\ \A u \in Threads : u # t => id'[u] = id[u] /\ cur'[u] = cur[u]
      <3> USE DEF Labels, Holding, TypeInv, TypeOK
      <3>1. CASE Call(t)
        BY <3>1, Zenon DEF Call, Register, Unregister, Rotate, WithKey, Begin, Gated, Enter, Return
      <3>2. CASE RegisterCheck(t) \/ RotateCheck(t) \/ WithKeyLoad(t)
        BY <3>2, Zenon DEF RegisterCheck, RotateCheck, WithKeyLoad, Return, Local
      <3>3. CASE RotateGate(t) \/ WithKeyGate(t)
        BY <3>3, Zenon DEF RotateGate, WithKeyGate, Return, Local
      <3>4. CASE RegisterAudit(t) \/ UnregisterAudit(t) \/ RotateAudit(t) \/ WithKeyAudit(t)
        BY <3>4, Zenon DEF RegisterAudit, UnregisterAudit, RotateAudit, WithKeyAudit, Emit, Return
      <3> QED  BY <1>3, <3>1, <3>2, <3>3, <3>4, Zenon DEF Step
    <2> QED  BY <2>1, OutsideStep, Zenon
  <1> QED  BY <1>1, <1>2, <1>3, Zenon

\* Every step preserves the registry invariant and the handles.
LEMMA RegistryStep == TypeInv /\ RegistryInv /\ [Next]_vars => RegistryInv' /\ StableStep
  <1> SUFFICES ASSUME TypeInv, RegistryInv, [Next]_vars PROVE RegistryInv' /\ StableStep
    BY Zenon
  <1>1. CASE UNCHANGED vars \/ LockoutChanges
    <2>1. UNCHANGED <<keys, writer, next_id, issued, locals>>
      BY <1>1, Zenon DEF vars, LockoutChanges
    <2>2. MutexInv' /\ CurrentInv' /\ UniqueNames' /\ StableStep
      BY <2>1, Zenon DEF RegistryInv, MutexInv, CurrentInv, UniqueNames, StableStep, locals
    <2>3. FreshInv'
      BY <2>1, Zenon DEF RegistryInv, FreshInv, Allocated, locals
    <2> QED  BY <2>2, <2>3, Zenon DEF RegistryInv
  <1>2. ASSUME NEW t \in Threads, Call(t) \/ Step(t) PROVE RegistryInv' /\ StableStep
    <2>1. CASE RegisterInstall(t) \/ UnregisterInstall(t) \/ RotateInstall(t)
      BY <2>1, RegisterInstallStep, UnregisterInstallStep, RotateInstallStep, Zenon
    <2>2. CASE ~RegisterInstall(t) /\ ~UnregisterInstall(t) /\ ~RotateInstall(t)
      <3>1. RegistryInv' /\ keys' = keys
        BY <1>2, <2>2, OtherStep, Zenon
      <3> QED  BY <3>1, Zenon DEF StableStep
    <2> QED  BY <2>1, <2>2, Zenon
  <1> QED  BY <1>1, <1>2, Zenon DEF Next

\* At every moment a name belongs to at most one key, for any number of threads
\* racing register, unregister and rotate.
THEOREM NamesUnique == Spec => []UniqueNames
  <1>1. RegistryInv => UniqueNames
    BY Zenon DEF RegistryInv
  <1> QED  BY <1>1, TypeInit, TypeStep, RegistryInit, RegistryStep, PTL DEF Spec

\* A handle denotes one key for its whole life: an id that was removed is never
\* stored again by an overlapping rotate, and an id keeps its name.
THEOREM HandlesForLife == Spec => HandlesStable
  <1>1. TypeInv /\ RegistryInv /\ [Next]_vars => [StableStep]_vars
    BY RegistryStep, Zenon
  <1>2. Spec => [][StableStep]_vars
    BY <1>1, TypeInit, TypeStep, RegistryInit, RegistryStep, PTL DEF Spec
  <1> QED  BY <1>2, Zenon DEF HandlesStable, StableStep

-----------------------------------------------------------------------------
(* The audit trail is balanced.                                            *)

\* The events of a kind for a name, and the threads that owe one.
Events(kind, n) == {i \in DOMAIN audit : audit[i].kind = kind /\ audit[i].name = n}
Owing(label, n) == {t \in Threads : pc[t] = label /\ name[t] = n}

\* Both are counted by natural numbers.
LEMMA CountsAreNat ==
  ASSUME TypeInv
  PROVE  \A label, n : /\ IsFiniteSet(Owing(label, n)) /\ Due(label, n) \in Nat
                       /\ IsFiniteSet(Events(label, n)) /\ Count(label, n) \in Nat
  <1>1. ASSUME NEW label, NEW n PROVE IsFiniteSet(Owing(label, n)) /\ Due(label, n) \in Nat
    <2>1. IsFiniteSet(Owing(label, n))
      BY RegistryAssumption, FS_Subset, Zenon DEF Owing
    <2> QED  BY <2>1, FS_CardinalityType, Zenon DEF Owing, Due
  <1>2. ASSUME NEW label, NEW n PROVE IsFiniteSet(Events(label, n)) /\ Count(label, n) \in Nat
    <2>1. DOMAIN audit = 1 .. Len(audit) /\ Len(audit) \in Nat
      BY DEF TypeInv, TypeOK
    <2>2. IsFiniteSet(DOMAIN audit)
      BY <2>1, FS_Interval
    <2>3. Events(label, n) \subseteq DOMAIN audit
      BY Zenon DEF Events
    <2>4. IsFiniteSet(Events(label, n))
      BY <2>2, <2>3, FS_Subset, Zenon
    <2> QED  BY <2>4, FS_CardinalityType, Zenon DEF Events, Count
  <1> QED  BY <1>1, <1>2, Zenon

\* What a step of one thread does to what is owed for a name.
LEMMA DueStep ==
  ASSUME TypeInv, NEW t \in Threads, NEW label, NEW n,
         \A u \in Threads : u # t => pc'[u] = pc[u] /\ name'[u] = name[u]
  PROVE  /\ (t \in Owing(label, n) <=> t \in Owing(label, n)') => Due(label, n)' = Due(label, n)
         /\ t \notin Owing(label, n) /\ t \in Owing(label, n)' => Due(label, n)' = Due(label, n) + 1
         /\ t \in Owing(label, n) /\ t \notin Owing(label, n)' => Due(label, n) = Due(label, n)' + 1
  <1>1. Due(label, n) = Cardinality(Owing(label, n)) /\ Due(label, n)' = Cardinality(Owing(label, n)')
    BY Zenon DEF Due, Owing
  <1>2. IsFiniteSet(Owing(label, n)) /\ IsFiniteSet(Owing(label, n)')
    BY RegistryAssumption, FS_Subset, Zenon DEF Owing
  <1>3. \A u : u # t => (u \in Owing(label, n) <=> u \in Owing(label, n)')
    BY Zenon DEF Owing
  <1>4. CASE t \in Owing(label, n) <=> t \in Owing(label, n)'
    <2>1. Owing(label, n)' = Owing(label, n)
      BY <1>3, <1>4
    <2> QED  BY <1>1, <1>4, <2>1, Zenon
  <1>5. CASE t \notin Owing(label, n) /\ t \in Owing(label, n)'
    <2>1. Owing(label, n)' = Owing(label, n) \cup {t}
      BY <1>3, <1>5, Zenon
    <2>2. Cardinality(Owing(label, n)') = Cardinality(Owing(label, n)) + 1
      BY <1>2, <1>5, <2>1, FS_AddElement, Zenon
    <2> QED  BY <1>1, <1>5, <2>2, Zenon
  <1>6. CASE t \in Owing(label, n) /\ t \notin Owing(label, n)'
    <2>1. Owing(label, n) = Owing(label, n)' \cup {t}
      BY <1>3, <1>6, Zenon
    <2>2. Cardinality(Owing(label, n)) = Cardinality(Owing(label, n)') + 1
      BY <1>2, <1>6, <2>1, FS_AddElement, Zenon
    <2> QED  BY <1>1, <1>6, <2>2, Zenon
  <1> QED  BY <1>4, <1>5, <1>6, Zenon

\* An event is counted under its kind and its name.
LEMMA CountStep ==
  ASSUME TypeInv, NEW e \in EventType, audit' = Append(audit, e), NEW kind, NEW n
  PROVE  Count(kind, n)' = IF e.kind = kind /\ e.name = n THEN Count(kind, n) + 1 ELSE Count(kind, n)
  <1> DEFINE last == Len(audit) + 1
  <1>1. /\ audit \in Seq(EventType) /\ Len(audit) \in Nat /\ DOMAIN audit = 1 .. Len(audit)
    BY DEF TypeInv, TypeOK, EventType
  <1>2. /\ DOMAIN audit' = DOMAIN audit \cup {last} /\ last \notin DOMAIN audit
        /\ audit'[last] = e /\ \A i \in DOMAIN audit : audit'[i] = audit[i]
    BY <1>1, SMTT(30)
  <1> HIDE DEF last
  <1>3. Count(kind, n) = Cardinality(Events(kind, n)) /\ Count(kind, n)' = Cardinality(Events(kind, n)')
    BY Zenon DEF Count, Events
  <1>4. IsFiniteSet(Events(kind, n))
    BY CountsAreNat, Zenon
  <1>5. CASE e.kind = kind /\ e.name = n
    <2>1. Events(kind, n)' = Events(kind, n) \cup {last} /\ last \notin Events(kind, n)
      BY <1>2, <1>5, Zenon DEF Events
    <2>2. Cardinality(Events(kind, n)') = Cardinality(Events(kind, n)) + 1
      BY <1>4, <2>1, FS_AddElement, Zenon
    <2> QED  BY <1>3, <1>5, <2>2, Zenon
  <1>6. CASE ~(e.kind = kind /\ e.name = n)
    <2>1. Events(kind, n)' = Events(kind, n)
      BY <1>2, <1>6, Zenon DEF Events
    <2> QED  BY <1>3, <1>6, <2>1, Zenon
  <1> QED  BY <1>5, <1>6, Zenon

\* The balance of one name.
Balance(n) ==
  Count("Register", n) + Due("rg_audit", n) =
    Count("Unregister", n) + Due("un_audit", n) + (IF NameUsed(keys, n) THEN 1 ELSE 0)

\* A step of one thread other than t leaves alone what t owes.
OthersKeep(t) == \A u \in Threads : u # t => pc'[u] = pc[u] /\ name'[u] = name[u]
AuditPoints == {"rg_audit", "un_audit"}

\* A step that emits no registration or removal, and neither takes on nor
\* discharges an audit event, keeps the balance if it keeps the names in use.
LEMMA QuietBalance ==
  ASSUME TypeInv, AuditBalanced, NEW t \in Threads, OthersKeep(t),
         pc[t] \notin AuditPoints, pc'[t] \notin AuditPoints,
         \A n \in Names : NameUsed(keys, n)' <=> NameUsed(keys, n),
         \A n \in Names : \A kind \in {"Register", "Unregister"} : Count(kind, n)' = Count(kind, n)
  PROVE  AuditBalanced'
  <1>1. ASSUME NEW n \in Names PROVE Balance(n)'
    <2>1. ASSUME NEW label \in AuditPoints PROVE Due(label, n)' = Due(label, n)
      <3>1. t \notin Owing(label, n) /\ t \notin Owing(label, n)'
        BY Zenon DEF Owing, AuditPoints
      <3> QED  BY <3>1, DueStep, Zenon DEF OthersKeep
    <2>2. Due("rg_audit", n)' = Due("rg_audit", n) /\ Due("un_audit", n)' = Due("un_audit", n)
      BY <2>1, Zenon DEF AuditPoints
    <2>3. Balance(n)
      BY Zenon DEF AuditBalanced, Balance
    <2>4. Count("Register", n)' = Count("Register", n) /\ Count("Unregister", n)' = Count("Unregister", n)
      BY Zenon
    <2> QED  BY <2>2, <2>3, <2>4, Zenon DEF Balance
  <1> QED  BY <1>1, Zenon DEF AuditBalanced, Balance

\* With the audit trail unchanged, every count is.
LEMMA CountSame ==
  ASSUME UNCHANGED audit
  PROVE  \A kind, n : Count(kind, n)' = Count(kind, n)
  BY Zenon DEF Count

\* Entering, jumping and returning are steps of one thread.
LEMMA LocalKeeps ==
  ASSUME LocalsOK, NEW t \in Threads
  PROVE  /\ \A r : Return(t, r) => OthersKeep(t) /\ pc'[t] = "idle"
         /\ \A label, n, i, k : Enter(t, label, n, i, k) => OthersKeep(t) /\ pc'[t] = label
         /\ \A label : Goto(t, label) /\ UNCHANGED name => OthersKeep(t) /\ pc'[t] = label /\ name'[t] = name[t]
         /\ \A label, n : Goto(t, label) /\ name' = [name EXCEPT ![t] = n]
                            => OthersKeep(t) /\ pc'[t] = label /\ name'[t] = n
  BY Zenon DEF LocalsOK, Return, Enter, Goto, OthersKeep

\* register takes on its event when it stores the name, which was free.
LEMMA RegisterInstallBalance ==
  ASSUME TypeInv, RegistryInv, AuditBalanced, NEW t \in Threads, RegisterInstall(t)
  PROVE  AuditBalanced'
  <1>0. LocalsOK /\ SharedOK
    BY TypeParts, Zenon
  <1>1. pc[t] = "rg_install" /\ cur[t] = keys /\ name[t] \in Names /\ id[t] \notin DOMAIN keys
    BY <1>0, Zenon DEF RegisterInstall, RegistryInv, CurrentInv, Holding, FreshInv, Allocated, LocalsOK, LocalsSet, NamedAt, Labels
  <1>2. CASE Abandon(t, "duplicate")
    <2>1. OthersKeep(t) /\ pc'[t] = "idle" /\ UNCHANGED <<keys, audit>>
      BY <1>0, <1>2, LocalKeeps, Zenon DEF Abandon
    <2>2. \A n \in Names : NameUsed(keys, n)' <=> NameUsed(keys, n)
      BY <2>1, Zenon DEF NameUsed
    <2>3. pc[t] \notin AuditPoints /\ pc'[t] \notin AuditPoints
      BY <1>1, <2>1, Zenon DEF AuditPoints
    <2> QED  BY <2>1, <2>2, <2>3, CountSame, QuietBalance, Zenon
  <1>3. CASE /\ ~NameUsed(cur[t], name[t])
             /\ Swap(t, Put(cur[t], id[t], [name |-> name[t], key |-> key[t]]), "rg_audit")
             /\ UNCHANGED <<name, cur>>
    <2>1. OthersKeep(t) /\ pc'[t] = "rg_audit" /\ name'[t] = name[t] /\ UNCHANGED audit
      BY <1>0, <1>3, LocalKeeps, Zenon DEF Swap
    <2>2. ASSUME NEW n \in Names
          PROVE  NameUsed(keys, n)' <=> NameUsed(keys, n) \/ n = name[t]
      BY <1>1, <1>3, Zenon DEF Swap, Put, NameUsed
    <2>3. ~NameUsed(keys, name[t])
      BY <1>1, <1>3, Zenon
    <2>4. ASSUME NEW n \in Names PROVE Balance(n)'
      <3>1. Balance(n)
        BY Zenon DEF AuditBalanced, Balance
      <3>2. Count("Register", n)' = Count("Register", n) /\ Count("Unregister", n)' = Count("Unregister", n)
        BY <2>1, CountSame, Zenon
      <3>3. Due("un_audit", n)' = Due("un_audit", n)
        <4>1. t \notin Owing("un_audit", n) /\ t \notin Owing("un_audit", n)'
          BY <1>1, <2>1, Zenon DEF Owing
        <4> QED  BY <2>1, <4>1, DueStep, Zenon DEF OthersKeep
      <3>4. Due("rg_audit", n)' = IF n = name[t] THEN Due("rg_audit", n) + 1 ELSE Due("rg_audit", n)
        <4>1. t \notin Owing("rg_audit", n) /\ (t \in Owing("rg_audit", n)' <=> n = name[t])
          BY <1>1, <2>1, Zenon DEF Owing
        <4>2. /\ n = name[t] => Due("rg_audit", n)' = Due("rg_audit", n) + 1
              /\ n # name[t] => Due("rg_audit", n)' = Due("rg_audit", n)
          <5>1. /\ (t \in Owing("rg_audit", n) <=> t \in Owing("rg_audit", n)') => Due("rg_audit", n)' = Due("rg_audit", n)
                /\ t \notin Owing("rg_audit", n) /\ t \in Owing("rg_audit", n)'
                     => Due("rg_audit", n)' = Due("rg_audit", n) + 1
            BY <2>1, DueStep, Zenon DEF OthersKeep
          <5> QED  BY <4>1, <5>1, Zenon
        <4> QED  BY <4>2, Zenon
      <3>5. /\ Count("Register", n) \in Nat /\ Count("Unregister", n) \in Nat
            /\ Due("rg_audit", n) \in Nat /\ Due("un_audit", n) \in Nat
        BY CountsAreNat, Zenon
      <3> QED  BY <2>2, <2>3, <3>1, <3>2, <3>3, <3>4, <3>5 DEF Balance
    <2> QED  BY <2>4, Zenon DEF AuditBalanced, Balance
  <1> QED  BY <1>2, <1>3, Zenon DEF RegisterInstall

\* unregister takes on its event when it removes the name, which only its id had.
LEMMA UnregisterInstallBalance ==
  ASSUME TypeInv, RegistryInv, AuditBalanced, NEW t \in Threads, UnregisterInstall(t)
  PROVE  AuditBalanced'
  <1>0. LocalsOK /\ SharedOK
    BY TypeParts, Zenon
  <1>1. pc[t] = "un_install" /\ cur[t] = keys
    BY <1>0, Zenon DEF UnregisterInstall, RegistryInv, CurrentInv, Holding
  <1>2. CASE Abandon(t, "absent")
    <2>1. OthersKeep(t) /\ pc'[t] = "idle" /\ UNCHANGED <<keys, audit>>
      BY <1>0, <1>2, LocalKeeps, Zenon DEF Abandon
    <2>2. \A n \in Names : NameUsed(keys, n)' <=> NameUsed(keys, n)
      BY <2>1, Zenon DEF NameUsed
    <2>3. pc[t] \notin AuditPoints /\ pc'[t] \notin AuditPoints
      BY <1>1, <2>1, Zenon DEF AuditPoints
    <2> QED  BY <2>1, <2>2, <2>3, CountSame, QuietBalance, Zenon
  <1>3. CASE /\ id[t] \in DOMAIN cur[t]
             /\ Swap(t, Without(cur[t], id[t]), "un_audit")
             /\ name' = [name EXCEPT ![t] = cur[t][id[t]].name]
    <2> DEFINE gone == keys[id[t]].name
    <2>1. OthersKeep(t) /\ pc'[t] = "un_audit" /\ name'[t] = gone /\ UNCHANGED audit
      BY <1>0, <1>1, <1>3, LocalKeeps, Zenon DEF Swap
    <2>2. ASSUME NEW n \in Names
          PROVE  NameUsed(keys, n)' <=> NameUsed(keys, n) /\ n # gone
      BY <1>1, <1>3, Zenon DEF Swap, Without, NameUsed, RegistryInv, UniqueNames
    <2>3. NameUsed(keys, gone)
      BY <1>1, <1>3, Zenon DEF NameUsed
    <2> HIDE DEF gone
    <2>4. ASSUME NEW n \in Names PROVE Balance(n)'
      <3>1. Balance(n)
        BY Zenon DEF AuditBalanced, Balance
      <3>2. Count("Register", n)' = Count("Register", n) /\ Count("Unregister", n)' = Count("Unregister", n)
        BY <2>1, CountSame, Zenon
      <3>3. Due("rg_audit", n)' = Due("rg_audit", n)
        <4>1. t \notin Owing("rg_audit", n) /\ t \notin Owing("rg_audit", n)'
          BY <1>1, <2>1, Zenon DEF Owing
        <4> QED  BY <2>1, <4>1, DueStep, Zenon DEF OthersKeep
      <3>4. Due("un_audit", n)' = IF n = gone THEN Due("un_audit", n) + 1 ELSE Due("un_audit", n)
        <4>1. t \notin Owing("un_audit", n) /\ (t \in Owing("un_audit", n)' <=> n = gone)
          BY <1>1, <2>1, Zenon DEF Owing
        <4>2. /\ n = gone => Due("un_audit", n)' = Due("un_audit", n) + 1
              /\ n # gone => Due("un_audit", n)' = Due("un_audit", n)
          <5>1. /\ (t \in Owing("un_audit", n) <=> t \in Owing("un_audit", n)') => Due("un_audit", n)' = Due("un_audit", n)
                /\ t \notin Owing("un_audit", n) /\ t \in Owing("un_audit", n)'
                     => Due("un_audit", n)' = Due("un_audit", n) + 1
            BY <2>1, DueStep, Zenon DEF OthersKeep
          <5> QED  BY <4>1, <5>1, Zenon
        <4> QED  BY <4>2, Zenon
      <3>5. /\ Count("Register", n) \in Nat /\ Count("Unregister", n) \in Nat
            /\ Due("rg_audit", n) \in Nat /\ Due("un_audit", n) \in Nat
        BY CountsAreNat, Zenon
      <3> QED  BY <2>2, <2>3, <3>1, <3>2, <3>3, <3>4, <3>5 DEF Balance
    <2> QED  BY <2>4, Zenon DEF AuditBalanced, Balance
  <1> QED  BY <1>2, <1>3, Zenon DEF UnregisterInstall

\* rotate keeps the names in use, and its events count for neither side.
LEMMA RotateInstallBalance ==
  ASSUME TypeInv, RegistryInv, AuditBalanced, NEW t \in Threads, RotateInstall(t)
  PROVE  AuditBalanced'
  <1>0. LocalsOK /\ SharedOK
    BY TypeParts, Zenon
  <1>1. pc[t] = "ro_install" /\ cur[t] = keys /\ key[t] \in Keys
    BY <1>0, Zenon DEF RotateInstall, RegistryInv, CurrentInv, Holding, LocalsOK, LocalsSet, KeyedAt, Labels
  <1>2. OthersKeep(t) /\ pc'[t] \in {"idle", "ro_audit"} /\ UNCHANGED audit
    <2>1. CASE Abandon(t, "absent")
      BY <1>0, <2>1, LocalKeeps, Zenon DEF Abandon
    <2>2. CASE Swap(t, [cur[t] EXCEPT ![id[t]].key = key[t]], "ro_audit") /\ UNCHANGED name
      BY <1>0, <2>2, LocalKeeps, Zenon DEF Swap
    <2> QED  BY <2>1, <2>2, Zenon DEF RotateInstall
  <1>3. \A n \in Names : NameUsed(keys, n)' <=> NameUsed(keys, n)
    <2>1. CASE UNCHANGED keys
      BY <2>1, Zenon DEF NameUsed
    <2>2. CASE id[t] \in DOMAIN keys /\ keys' = [keys EXCEPT ![id[t]].key = key[t]]
      <3>1. DOMAIN keys' = DOMAIN keys /\ \A j \in DOMAIN keys : keys'[j].name = keys[j].name
        BY <1>0, <1>1, <2>2, RekeyType DEF SharedOK
      <3> QED  BY <3>1, Zenon DEF NameUsed
    <2> QED  BY <1>1, <2>1, <2>2, Zenon DEF RotateInstall, Abandon, Swap
  <1>4. pc[t] \notin AuditPoints /\ pc'[t] \notin AuditPoints
    BY <1>1, <1>2, Zenon DEF AuditPoints
  <1> QED  BY <1>2, <1>3, <1>4, CountSame, QuietBalance, Zenon

\* A register or unregister call pays its event; the other events are not counted.
LEMMA EmitBalance ==
  ASSUME TypeInv, AuditBalanced, NEW t \in Threads,
         RegisterAudit(t) \/ UnregisterAudit(t) \/ RotateAudit(t) \/ WithKeyAudit(t)
  PROVE  AuditBalanced'
  <1>0. LocalsOK /\ SharedOK
    BY TypeParts, Zenon
  <1>1. PICK kind, r : /\ Emit(t, kind, name[t], r)
                       /\ \/ kind = "Register" /\ pc[t] = "rg_audit"
                          \/ kind = "Unregister" /\ pc[t] = "un_audit"
                          \/ kind = "Rotate" /\ pc[t] = "ro_audit"
                          \/ kind = "Read" /\ pc[t] = "wk_audit"
    BY Zenon DEF RegisterAudit, UnregisterAudit, RotateAudit, WithKeyAudit
  <1> DEFINE e == [kind |-> kind, name |-> name[t]]
  <1>2. name[t] \in Names
    BY <1>0, <1>1, Zenon DEF LocalsOK, LocalsSet, NamedAt, Labels, Holding
  <1>3. e \in EventType /\ e.kind = kind /\ e.name = name[t]
    BY <1>1, <1>2, Zenon DEF EventType
  <1>4. audit' = Append(audit, e) /\ UNCHANGED keys
    BY <1>1, Zenon DEF Emit
  <1>5. OthersKeep(t) /\ pc'[t] = "idle"
    BY <1>0, <1>1, LocalKeeps, Zenon DEF Emit
  <1> HIDE DEF e
  <1>6. ASSUME NEW n \in Names PROVE Balance(n)'
    <2>1. Balance(n)
      BY Zenon DEF AuditBalanced, Balance
    <2>2. /\ Count("Register", n) \in Nat /\ Count("Unregister", n) \in Nat
          /\ Due("rg_audit", n) \in Nat /\ Due("un_audit", n) \in Nat
      BY CountsAreNat, Zenon
    <2>3. \A k : Count(k, n)' = IF kind = k /\ name[t] = n THEN Count(k, n) + 1 ELSE Count(k, n)
      <3>1. ASSUME NEW k
            PROVE  Count(k, n)' = IF e.kind = k /\ e.name = n THEN Count(k, n) + 1 ELSE Count(k, n)
        BY <1>3, <1>4, CountStep, Zenon
      <3> QED  BY <1>3, <3>1
    <2>4. \A label : /\ pc[t] = label /\ name[t] = n /\ label # "idle" => Due(label, n) = Due(label, n)' + 1
                     /\ ~(pc[t] = label /\ name[t] = n) /\ label # "idle" => Due(label, n)' = Due(label, n)
      <3>1. ASSUME NEW label, label # "idle"
            PROVE  t \notin Owing(label, n)' /\ (t \in Owing(label, n) <=> pc[t] = label /\ name[t] = n)
        BY <1>5, <3>1, Zenon DEF Owing
      <3>2. ASSUME NEW label, label # "idle"
            PROVE  /\ pc[t] = label /\ name[t] = n => Due(label, n) = Due(label, n)' + 1
                   /\ ~(pc[t] = label /\ name[t] = n) => Due(label, n)' = Due(label, n)
        BY <1>5, <3>1, <3>2, DueStep, ZenonT(30) DEF OthersKeep
      <3> QED  BY <3>2, Zenon
    <2>5. NameUsed(keys, n)' <=> NameUsed(keys, n)
      BY <1>4, Zenon DEF NameUsed
    <2>6. Due("rg_audit", n)' \in Nat /\ Due("un_audit", n)' \in Nat
      <3>1. IsFiniteSet(Owing("rg_audit", n)') /\ IsFiniteSet(Owing("un_audit", n)')
        BY RegistryAssumption, FS_Subset, Zenon DEF Owing
      <3> QED  BY <3>1, FS_CardinalityType, Zenon DEF Due, Owing
    <2>7. CASE kind = "Register" /\ pc[t] = "rg_audit"
      <3>1. /\ Count("Register", n)' = IF name[t] = n THEN Count("Register", n) + 1 ELSE Count("Register", n)
            /\ Count("Unregister", n)' = Count("Unregister", n)
            /\ Due("un_audit", n)' = Due("un_audit", n)
            /\ name[t] = n => Due("rg_audit", n) = Due("rg_audit", n)' + 1
            /\ name[t] # n => Due("rg_audit", n)' = Due("rg_audit", n)
        BY <2>3, <2>4, <2>7, Zenon
      <3> QED  BY <2>1, <2>2, <2>5, <2>6, <3>1 DEF Balance
    <2>8. CASE kind = "Unregister" /\ pc[t] = "un_audit"
      <3>1. /\ Count("Unregister", n)' = IF name[t] = n THEN Count("Unregister", n) + 1 ELSE Count("Unregister", n)
            /\ Count("Register", n)' = Count("Register", n)
            /\ Due("rg_audit", n)' = Due("rg_audit", n)
            /\ name[t] = n => Due("un_audit", n) = Due("un_audit", n)' + 1
            /\ name[t] # n => Due("un_audit", n)' = Due("un_audit", n)
        BY <2>3, <2>4, <2>8, Zenon
      <3> QED  BY <2>1, <2>2, <2>5, <2>6, <3>1 DEF Balance
    <2>9. CASE kind \in {"Rotate", "Read"} /\ pc[t] \in {"ro_audit", "wk_audit"}
      <3>1. /\ Count("Register", n)' = Count("Register", n) /\ Count("Unregister", n)' = Count("Unregister", n)
            /\ Due("rg_audit", n)' = Due("rg_audit", n) /\ Due("un_audit", n)' = Due("un_audit", n)
        BY <2>3, <2>4, <2>9, Zenon
      <3> QED  BY <2>1, <2>5, <3>1, Zenon DEF Balance
    <2> QED  BY <1>1, <2>7, <2>8, <2>9, Zenon
  <1> QED  BY <1>6, Zenon DEF AuditBalanced, Balance

\* Every other step keeps the map, the trail and what is owed.
LEMMA OtherBalance ==
  ASSUME TypeInv, AuditBalanced, NEW t \in Threads,
         \/ Call(t) \/ RegisterCheck(t) \/ RegisterFragment(t) \/ RegisterLock(t) \/ UnregisterLock(t)
         \/ RotateCheck(t) \/ RotateGate(t) \/ RotateLock(t) \/ WithKeyLoad(t) \/ WithKeyGate(t)
  PROVE  AuditBalanced'
  <1>0. LocalsOK
    BY TypeParts, Zenon
  <1>1. UNCHANGED <<keys, audit>> /\ pc[t] \notin AuditPoints
    BY Zenon DEF Call, Register, Unregister, Rotate, WithKey, Begin, RegisterCheck, RegisterFragment,
           RegisterLock, UnregisterLock, RotateCheck, RotateGate, RotateLock, WithKeyLoad, WithKeyGate,
           LockWriter, Local, AuditPoints
  <1>2. \/ \E r : Return(t, r)
        \/ \E label \in Labels \ AuditPoints : \E n, i, k : Enter(t, label, n, i, k)
        \/ \E label \in Labels \ AuditPoints : Goto(t, label) /\ UNCHANGED name
        \/ \E label \in Labels \ AuditPoints : \E n : Goto(t, label) /\ name' = [name EXCEPT ![t] = n]
    <2> USE DEF Labels, AuditPoints, Holding
    <2>1. CASE Call(t)
      BY <2>1, Zenon DEF Call, Register, Unregister, Rotate, WithKey, Gated
    <2>2. CASE RegisterCheck(t) \/ RegisterFragment(t)
      BY <2>2, Zenon DEF RegisterCheck, RegisterFragment
    <2>3. CASE RegisterLock(t) \/ UnregisterLock(t) \/ RotateLock(t)
      BY <2>3, Zenon DEF RegisterLock, UnregisterLock, RotateLock, LockWriter
    <2>4. CASE RotateCheck(t) \/ RotateGate(t)
      BY <2>4, Zenon DEF RotateCheck, RotateGate
    <2>5. CASE WithKeyLoad(t) \/ WithKeyGate(t)
      BY <2>5, Zenon DEF WithKeyLoad, WithKeyGate
    <2> QED  BY <2>1, <2>2, <2>3, <2>4, <2>5, Zenon
  <1>3. OthersKeep(t) /\ pc'[t] \notin AuditPoints
    <2>1. "idle" \notin AuditPoints
      BY Zenon DEF AuditPoints
    <2> QED  BY <1>0, <1>2, <2>1, LocalKeeps, Zenon
  <1>4. \A n \in Names : NameUsed(keys, n)' <=> NameUsed(keys, n)
    BY <1>1, Zenon DEF NameUsed
  <1> QED  BY <1>1, <1>3, <1>4, CountSame, QuietBalance, Zenon

\* Every change of the map by register and unregister has one audit event, received
\* or due: the balance holds in every reachable state, although events are emitted
\* after the writer lock is released.
THEOREM AuditTrailBalanced == Spec => []AuditBalanced
  <1>1. Init => AuditBalanced
    <2> SUFFICES ASSUME Init PROVE AuditBalanced
      BY Zenon
    <2>1. ASSUME NEW n \in Names PROVE Balance(n)
      <3>1. \A kind : Events(kind, n) = {}
        BY DEF Init, Events
      <3>2. Owing("rg_audit", n) = {} /\ Owing("un_audit", n) = {}
        BY Zenon DEF Init, Owing
      <3>3. ~NameUsed(keys, n)
        BY Zenon DEF Init, EmptyMap, NameUsed
      <3>4. /\ Count("Register", n) = 0 /\ Count("Unregister", n) = 0
            /\ Due("rg_audit", n) = 0 /\ Due("un_audit", n) = 0
        BY <3>1, <3>2, FS_EmptySet, Zenon DEF Count, Due, Events, Owing
      <3> QED  BY <3>3, <3>4 DEF Balance
    <2> QED  BY <2>1, Zenon DEF AuditBalanced, Balance
  <1>2. TypeInv /\ RegistryInv /\ AuditBalanced /\ [Next]_vars => AuditBalanced'
    <2> SUFFICES ASSUME TypeInv, RegistryInv, AuditBalanced, [Next]_vars PROVE AuditBalanced'
      BY Zenon
    <2>1. CASE UNCHANGED vars \/ LockoutChanges
      <3>1. UNCHANGED <<keys, audit, pc, name>>
        BY <2>1, Zenon DEF vars, locals, lockout, LockoutChanges
      <3> QED  BY <3>1, Zenon DEF AuditBalanced, Count, Due, NameUsed
    <2>2. CASE \E t \in Threads : Call(t) \/ Step(t)
      BY <2>2, RegisterInstallBalance, UnregisterInstallBalance, RotateInstallBalance, EmitBalance,
         OtherBalance, Zenon DEF Step
    <2> QED  BY <2>1, <2>2, Zenon DEF Next
  <1> QED  BY <1>1, <1>2, TypeInit, TypeStep, RegistryInit, RegistryStep, PTL DEF Spec
==============================================================================
