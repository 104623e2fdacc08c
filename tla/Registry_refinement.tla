------------------------- MODULE Registry_refinement -------------------------
(***************************************************************************)
(* Proof that Registry implements RegistrySpec, for every number of threads, *)
(* names and keys.                                                           *)
(***************************************************************************)
EXTENDS Registry_proofs

-----------------------------------------------------------------------------
(* Handles and the number of ids.                                          *)

\* Points of the calls that were made with a handle.
ByHandle == {"un_lock", "un_install", "un_audit", "ro_check", "ro_gate", "ro_lock", "ro_install",
             "ro_audit", "wk_load", "wk_gate", "wk_audit"}

\* A stored key has the name its handle was issued for, and a thread that looked a
\* handle up still has that name, whatever has happened to the key since.
HandleInv ==
  /\ \A i \in DOMAIN keys : keys[i].name = issued[i]
  /\ \A t \in Threads : pc[t] \in ByHandle => id[t] \in DOMAIN issued
  /\ \A t \in Threads : pc[t] \in {"ro_gate", "wk_gate"} => name[t] = issued[id[t]]

\* A register call that has no id yet.
Awaiting == {t \in Threads : pc[t] \in {"rg_check", "rg_fragment"}}

\* Every id was allocated by a call, and every call allocates at most one.
BoundInv ==
  /\ calls <= MaxCalls
  /\ next_id >= 1
  /\ \A t \in Threads : Allocated(t) => id[t] >= 1
  /\ next_id + Cardinality(Awaiting) <= calls + 1

\* A step of t leaves the locals of the other threads alone.
Frame(t) ==
  \A u \in Threads : u # t => /\ pc'[u] = pc[u] /\ name'[u] = name[u] /\ id'[u] = id[u]
                              /\ key'[u] = key[u] /\ ret'[u] = ret[u]

LEMMA LocalFrame ==
  ASSUME LocalsOK, NEW t \in Threads
  PROVE  /\ \A r : Return(t, r) => /\ Frame(t) /\ pc'[t] = "idle" /\ ret'[t] = r
         /\ \A label, n, i, k : Enter(t, label, n, i, k) =>
              /\ Frame(t) /\ pc'[t] = label /\ ret'[t] = "none"
              /\ name'[t] = n /\ id'[t] = i /\ key'[t] = k
         /\ \A label : Goto(t, label) /\ UNCHANGED <<name, id, key, ret>> =>
              /\ Frame(t) /\ pc'[t] = label /\ ret'[t] = ret[t]
              /\ name'[t] = name[t] /\ id'[t] = id[t] /\ key'[t] = key[t]
         /\ \A label, n : Goto(t, label) /\ name' = [name EXCEPT ![t] = n] /\ UNCHANGED <<id, key, ret>> =>
              /\ Frame(t) /\ pc'[t] = label /\ ret'[t] = ret[t]
              /\ name'[t] = n /\ id'[t] = id[t] /\ key'[t] = key[t]
  BY DEF LocalsOK, Return, Enter, Goto, Frame

\* HandleInv depends on the map, the issued handles and the locals of the thread that steps.
LEMMA HandleLocal ==
  ASSUME HandleInv, NEW t \in Threads, Frame(t), UNCHANGED <<keys, issued>>,
         pc'[t] \in ByHandle => id'[t] \in DOMAIN issued,
         pc'[t] \in {"ro_gate", "wk_gate"} => name'[t] = issued[id'[t]]
  PROVE  HandleInv'
  <1>1. \A i \in DOMAIN keys' : keys'[i].name = issued'[i]
    BY Zenon DEF HandleInv
  <1>2. \A u \in Threads : pc'[u] \in ByHandle => id'[u] \in DOMAIN issued'
    BY Zenon DEF HandleInv, Frame
  <1>3. \A u \in Threads : pc'[u] \in {"ro_gate", "wk_gate"} => name'[u] = issued'[id'[u]]
    BY DEF HandleInv, Frame
  <1> QED  BY <1>1, <1>2, <1>3, Zenon DEF HandleInv

\* register issues a fresh id for the name it stores.
LEMMA RegisterInstallHandle ==
  ASSUME TypeInv, RegistryInv, HandleInv, NEW t \in Threads, RegisterInstall(t)
  PROVE  HandleInv'
  <1>0. LocalsOK /\ SharedOK
    BY TypeParts, Zenon
  <1>1. CASE Abandon(t, "duplicate")
    <2>1. Frame(t) /\ pc'[t] = "idle" /\ UNCHANGED <<keys, issued>>
      BY <1>0, <1>1, LocalFrame, Zenon DEF Abandon
    <2> QED  BY <2>1, HandleLocal, Zenon DEF ByHandle
  <1>2. CASE /\ Swap(t, Put(cur[t], id[t], [name |-> name[t], key |-> key[t]]), "rg_audit")
             /\ issued' = Put(issued, id[t], name[t])
             /\ UNCHANGED <<name, cur>>
    <2>1. pc[t] = "rg_install" /\ cur[t] = keys /\ id[t] \notin DOMAIN issued /\ DOMAIN keys \subseteq DOMAIN issued
      BY <1>0, Zenon DEF RegisterInstall, RegistryInv, CurrentInv, Holding, FreshInv, Allocated
    <2>2. Frame(t) /\ pc'[t] = "rg_audit"
      BY <1>0, <1>2, LocalFrame, Zenon DEF Swap
    <2>3. /\ DOMAIN issued' = DOMAIN issued \cup {id[t]} /\ issued'[id[t]] = name[t]
          /\ \A i \in DOMAIN issued : issued'[i] = issued[i]
      BY <1>2, <2>1, Zenon DEF Put
    <2>4. /\ DOMAIN keys' = DOMAIN keys \cup {id[t]} /\ keys'[id[t]].name = name[t]
          /\ \A i \in DOMAIN keys : keys'[i] = keys[i]
      BY <1>2, <2>1, Zenon DEF Put, Swap
    <2>5. \A i \in DOMAIN keys' : keys'[i].name = issued'[i]
      BY <2>1, <2>3, <2>4, Zenon DEF HandleInv
    <2>6. ASSUME NEW u \in Threads
          PROVE  /\ pc'[u] \in ByHandle => id'[u] \in DOMAIN issued'
                 /\ pc'[u] \in {"ro_gate", "wk_gate"} => name'[u] = issued'[id'[u]]
      <3>1. CASE u = t
        BY <2>2, <3>1, Zenon DEF ByHandle
      <3>2. CASE u # t
        BY <2>2, <2>3, <3>2 DEF HandleInv, Frame, ByHandle
      <3> QED  BY <3>1, <3>2, Zenon
    <2> QED  BY <2>5, <2>6, Zenon DEF HandleInv
  <1> QED  BY <1>1, <1>2, Zenon DEF RegisterInstall

\* unregister and rotate keep the handles and the names of the keys that stay.
LEMMA OtherInstallHandle ==
  ASSUME TypeInv, RegistryInv, HandleInv, NEW t \in Threads, UnregisterInstall(t) \/ RotateInstall(t)
  PROVE  HandleInv'
  <1>0. LocalsOK /\ SharedOK
    BY TypeParts, Zenon
  <1>1. pc[t] \in {"un_install", "ro_install"} /\ cur[t] = keys /\ UNCHANGED issued
    BY <1>0, Zenon DEF UnregisterInstall, RotateInstall, RegistryInv, CurrentInv, Holding, Abandon
  <1>2. Frame(t) /\ \/ pc'[t] = "idle"
                    \/ pc'[t] \in {"un_audit", "ro_audit"} /\ id'[t] = id[t]
    <2>1. CASE Abandon(t, "absent")
      BY <1>0, <2>1, LocalFrame, Zenon DEF Abandon
    <2>2. CASE /\ Swap(t, Without(cur[t], id[t]), "un_audit")
               /\ name' = [name EXCEPT ![t] = cur[t][id[t]].name]
      BY <1>0, <2>2, LocalFrame, Zenon DEF Swap
    <2>3. CASE Swap(t, [cur[t] EXCEPT ![id[t]].key = key[t]], "ro_audit") /\ UNCHANGED name
      BY <1>0, <2>3, LocalFrame, Zenon DEF Swap
    <2> QED  BY <2>1, <2>2, <2>3, Zenon DEF UnregisterInstall, RotateInstall
  <1>3. DOMAIN keys' \subseteq DOMAIN keys /\ \A i \in DOMAIN keys' : keys'[i].name = keys[i].name
    <2>1. CASE UNCHANGED keys
      BY <2>1, Zenon
    <2>2. CASE keys' = Without(keys, id[t])
      BY <2>2, Zenon DEF Without
    <2>3. CASE /\ pc[t] = "ro_install" /\ id[t] \in DOMAIN keys
               /\ keys' = [keys EXCEPT ![id[t]].key = key[t]]
      <3>1. key[t] \in Keys
        BY <1>0, <2>3, Zenon DEF LocalsOK, LocalsSet, KeyedAt, Labels, Holding
      <3> QED  BY <1>0, <2>3, <3>1, RekeyType DEF SharedOK
    <2> QED  BY <1>1, <2>1, <2>2, <2>3, Zenon DEF UnregisterInstall, RotateInstall, Abandon, Swap
  <1>4. \A i \in DOMAIN keys' : keys'[i].name = issued'[i]
    BY <1>1, <1>3, Zenon DEF HandleInv
  <1>5. ASSUME NEW u \in Threads
        PROVE  /\ pc'[u] \in ByHandle => id'[u] \in DOMAIN issued'
               /\ pc'[u] \in {"ro_gate", "wk_gate"} => name'[u] = issued'[id'[u]]
    <2>1. CASE u = t
      BY <1>1, <1>2, <2>1, Zenon DEF HandleInv, ByHandle
    <2>2. CASE u # t
      BY <1>1, <1>2, <2>2, Zenon DEF HandleInv, Frame
    <2> QED  BY <2>1, <2>2, Zenon
  <1> QED  BY <1>4, <1>5, Zenon DEF HandleInv

\* The other steps look handles up, or carry on with the one they have.
LEMMA OtherHandle ==
  ASSUME TypeInv, RegistryInv, HandleInv, NEW t \in Threads,
         Call(t) \/ Step(t), ~RegisterInstall(t), ~UnregisterInstall(t), ~RotateInstall(t)
  PROVE  HandleInv'
  <1>0. LocalsOK /\ SharedOK
    BY TypeParts, Zenon
  <1> DEFINE Good == /\ Frame(t) /\ UNCHANGED <<keys, issued>>
                     /\ pc'[t] \in ByHandle => id'[t] \in DOMAIN issued
                     /\ pc'[t] \in {"ro_gate", "wk_gate"} => name'[t] = issued[id'[t]]
  <1>1. ASSUME NEW r, Return(t, r) PROVE Frame(t) /\ pc'[t] = "idle"
    BY <1>0, <1>1, LocalFrame, Zenon
  <1>2. ASSUME Call(t) PROVE Good
    <2>1. UNCHANGED <<keys, issued>>
      BY <1>2, Zenon DEF Call, Register, Unregister, Rotate, WithKey, Begin
    <2>2. \/ \E r : Return(t, r)
          \/ \E n, k : Enter(t, "rg_check", n, 0, k)
          \/ \E i \in DOMAIN issued : \E label \in {"un_lock", "ro_check", "wk_load"} :
               \E n, k : Enter(t, label, n, i, k)
      BY <1>2, Zenon DEF Call, Register, Unregister, Rotate, WithKey, Gated
    <2>3. CASE \E n, k : Enter(t, "rg_check", n, 0, k)
      <3>1. Frame(t) /\ pc'[t] = "rg_check"
        BY <1>0, <2>3, LocalFrame, Zenon
      <3> QED  BY <2>1, <3>1, Zenon DEF ByHandle
    <2>4. CASE \E i \in DOMAIN issued : \E label \in {"un_lock", "ro_check", "wk_load"} :
                 \E n, k : Enter(t, label, n, i, k)
      <3>1. Frame(t) /\ pc'[t] \in {"un_lock", "ro_check", "wk_load"} /\ id'[t] \in DOMAIN issued
        <4>1. PICK i \in DOMAIN issued : \E label \in {"un_lock", "ro_check", "wk_load"} :
                 \E n, k : Enter(t, label, n, i, k)
          BY <2>4, Zenon
        <4>2. PICK label \in {"un_lock", "ro_check", "wk_load"} : \E n, k : Enter(t, label, n, i, k)
          BY <4>1, Zenon
        <4>3. Frame(t) /\ pc'[t] = label /\ id'[t] = i
          BY <1>0, <4>2, Zenon DEF Enter, Goto, Frame, LocalsOK
        <4> QED  BY <4>3, Zenon
      <3> QED  BY <2>1, <3>1, Zenon
    <2> QED  BY <1>1, <2>1, <2>2, <2>3, <2>4, Zenon DEF ByHandle
  <1>3. ASSUME RegisterCheck(t) \/ RegisterFragment(t) \/ RegisterLock(t) PROVE Good
    <2>1. UNCHANGED <<keys, issued>>
      BY <1>3, Zenon DEF RegisterCheck, RegisterFragment, RegisterLock, LockWriter, Local
    <2>2. Frame(t) /\ pc'[t] \in {"idle", "rg_fragment", "rg_lock", "rg_install"}
      BY <1>0, <1>3 DEF RegisterCheck, RegisterFragment, RegisterLock, LockWriter, Return, Goto, Frame, LocalsOK
    <2> QED  BY <2>1, <2>2, Zenon DEF ByHandle
  <1>4. ASSUME UnregisterLock(t) \/ RotateLock(t) PROVE Good
    <2>1. UNCHANGED <<keys, issued>> /\ pc[t] \in ByHandle
      BY <1>4, Zenon DEF UnregisterLock, RotateLock, LockWriter, ByHandle
    <2>2. Frame(t) /\ pc'[t] \in {"un_install", "ro_install"} /\ id'[t] = id[t]
      BY <1>0, <1>4, LocalFrame, Zenon DEF UnregisterLock, RotateLock, LockWriter
    <2> QED  BY <2>1, <2>2, Zenon DEF HandleInv
  <1>5. ASSUME RegisterAudit(t) \/ UnregisterAudit(t) \/ RotateAudit(t) \/ WithKeyAudit(t) PROVE Good
    <2>1. UNCHANGED <<keys, issued>> /\ \E r : Return(t, r)
      BY <1>5, Zenon DEF RegisterAudit, UnregisterAudit, RotateAudit, WithKeyAudit, Emit
    <2> QED  BY <1>1, <2>1, Zenon DEF ByHandle
  <1>6. ASSUME RotateCheck(t) \/ WithKeyLoad(t) PROVE Good
    <2>1. UNCHANGED <<keys, issued>> /\ pc[t] \in ByHandle
      BY <1>6, Zenon DEF RotateCheck, WithKeyLoad, Local, ByHandle
    <2>2. \/ \E r : Return(t, r)
          \/ /\ id[t] \in DOMAIN keys /\ Frame(t) /\ pc'[t] \in {"ro_gate", "wk_gate"} /\ id'[t] = id[t]
             /\ name'[t] = keys[id[t]].name
      BY <1>0, <1>6, Zenon DEF RotateCheck, WithKeyLoad, Goto, Frame, LocalsOK
    <2> QED  BY <1>1, <2>1, <2>2, Zenon DEF HandleInv, ByHandle
  <1>7. ASSUME RotateGate(t) \/ WithKeyGate(t) PROVE Good
    <2>1. UNCHANGED <<keys, issued>> /\ pc[t] \in ByHandle
      BY <1>7, Zenon DEF RotateGate, WithKeyGate, Local, ByHandle
    <2>2. \/ \E r : Return(t, r)
          \/ Frame(t) /\ pc'[t] \in {"ro_lock", "wk_audit"} /\ id'[t] = id[t]
      BY <1>0, <1>7, LocalFrame, Zenon DEF RotateGate, WithKeyGate
    <2> QED  BY <1>1, <2>1, <2>2, Zenon DEF HandleInv, ByHandle
  <1>8. Good
    BY <1>2, <1>3, <1>4, <1>5, <1>6, <1>7, Zenon DEF Step
  <1> QED  BY <1>8, HandleLocal, Zenon

\* HandleInv holds initially, and every step keeps it.
LEMMA HandleInit == Init => HandleInv
  BY Zenon DEF Init, HandleInv, EmptyMap, ByHandle

LEMMA HandleStep == TypeInv /\ RegistryInv /\ HandleInv /\ [Next]_vars => HandleInv'
  <1> SUFFICES ASSUME TypeInv, RegistryInv, HandleInv, [Next]_vars PROVE HandleInv'
    BY Zenon
  <1>1. CASE UNCHANGED vars \/ LockoutChanges
    <2>1. UNCHANGED <<keys, issued, pc, name, id>>
      BY <1>1, Zenon DEF vars, locals, lockout, LockoutChanges
    <2> QED  BY <2>1, Zenon DEF HandleInv
  <1>2. CASE \E t \in Threads : Call(t) \/ Step(t)
    BY <1>2, RegisterInstallHandle, OtherInstallHandle, OtherHandle, Zenon
  <1> QED  BY <1>1, <1>2, Zenon DEF Next

\* A thread starts or stops waiting for an id.
LEMMA AwaitStep ==
  ASSUME NEW t \in Threads, \A u \in Threads : u # t => pc'[u] = pc[u]
  PROVE  /\ Cardinality(Awaiting) \in Nat /\ Cardinality(Awaiting') \in Nat
         /\ (t \in Awaiting <=> t \in Awaiting') => Cardinality(Awaiting') = Cardinality(Awaiting)
         /\ t \notin Awaiting /\ t \in Awaiting' => Cardinality(Awaiting') = Cardinality(Awaiting) + 1
         /\ t \in Awaiting /\ t \notin Awaiting' => Cardinality(Awaiting) = Cardinality(Awaiting') + 1
  <1>1. IsFiniteSet(Awaiting) /\ IsFiniteSet(Awaiting')
    BY RegistryAssumption, FS_Subset, Zenon DEF Awaiting
  <1>2. Cardinality(Awaiting) \in Nat /\ Cardinality(Awaiting') \in Nat
    BY <1>1, FS_CardinalityType, Zenon
  <1>3. \A u : u # t => (u \in Awaiting <=> u \in Awaiting')
    BY Zenon DEF Awaiting
  <1>4. CASE t \in Awaiting <=> t \in Awaiting'
    <2>1. Awaiting' = Awaiting
      BY <1>3, <1>4
    <2> QED  BY <1>2, <1>4, <2>1, Zenon
  <1>5. CASE t \notin Awaiting /\ t \in Awaiting'
    <2>1. Awaiting' = Awaiting \cup {t}
      BY <1>3, <1>5, Zenon
    <2>2. Cardinality(Awaiting') = Cardinality(Awaiting) + 1
      BY <1>1, <1>5, <2>1, FS_AddElement, Zenon
    <2> QED  BY <1>2, <1>5, <2>2, Zenon
  <1>6. CASE t \in Awaiting /\ t \notin Awaiting'
    <2>1. Awaiting = Awaiting' \cup {t}
      BY <1>3, <1>6, Zenon
    <2>2. Cardinality(Awaiting) = Cardinality(Awaiting') + 1
      BY <1>1, <1>6, <2>1, FS_AddElement, Zenon
    <2> QED  BY <1>2, <1>6, <2>2, Zenon
  <1> QED  BY <1>4, <1>5, <1>6, Zenon

\* BoundInv holds initially, and every step keeps it: a call adds one to both sides
\* at most, and the allocation of an id ends the wait for it.
LEMMA BoundInit == Init => BoundInv
  <1> SUFFICES ASSUME Init PROVE BoundInv
    BY Zenon
  <1>1. Awaiting = {}
    BY Zenon DEF Init, Awaiting
  <1>2. Cardinality(Awaiting) = 0
    BY <1>1, FS_EmptySet, Zenon
  <1> QED  BY <1>2, RegistryAssumption DEF Init, BoundInv, Allocated

LEMMA BoundThread ==
  ASSUME TypeInv, BoundInv, NEW t \in Threads, Frame(t),
         \/ /\ calls' = calls + 1 /\ calls < MaxCalls /\ next_id' = next_id /\ t \notin Awaiting
            /\ ~Allocated(t)'
         \/ /\ UNCHANGED <<calls, next_id>> /\ (t \in Awaiting' => t \in Awaiting)
            /\ Allocated(t)' => Allocated(t) /\ id'[t] = id[t]
         \/ /\ UNCHANGED calls /\ next_id' = next_id + 1 /\ t \in Awaiting /\ t \notin Awaiting'
            /\ id'[t] = next_id
  PROVE  BoundInv'
  <1>1. /\ Cardinality(Awaiting) \in Nat /\ Cardinality(Awaiting') \in Nat
        /\ (t \in Awaiting <=> t \in Awaiting') => Cardinality(Awaiting') = Cardinality(Awaiting)
        /\ t \notin Awaiting /\ t \in Awaiting' => Cardinality(Awaiting') = Cardinality(Awaiting) + 1
        /\ t \in Awaiting /\ t \notin Awaiting' => Cardinality(Awaiting) = Cardinality(Awaiting') + 1
    BY AwaitStep, Zenon DEF Frame
  <1>2. /\ calls \in Nat /\ next_id \in Nat /\ MaxCalls \in Nat
        /\ calls <= MaxCalls /\ next_id >= 1 /\ next_id + Cardinality(Awaiting) <= calls + 1
    BY RegistryAssumption, Zenon DEF TypeInv, TypeOK, BoundInv
  <1> DEFINE before == Cardinality(Awaiting)
             after == Cardinality(Awaiting')
  <1>3. \/ calls' = calls + 1 /\ calls < MaxCalls /\ next_id' = next_id /\ after \in {before, before + 1}
        \/ calls' = calls /\ next_id' = next_id /\ (after = before \/ before = after + 1)
        \/ calls' = calls /\ next_id' = next_id + 1 /\ before = after + 1
    <2>1. t \notin Awaiting => after \in {before, before + 1}
      BY <1>1, Zenon
    <2>2. (t \in Awaiting' => t \in Awaiting) => after = before \/ before = after + 1
      BY <1>1, Zenon
    <2>3. t \in Awaiting /\ t \notin Awaiting' => before = after + 1
      BY <1>1, Zenon
    <2> HIDE DEF before, after
    <2> QED  BY <2>1, <2>2, <2>3, Zenon
  <1>4. before \in Nat /\ after \in Nat /\ next_id + before <= calls + 1
    BY <1>1, <1>2, Zenon
  <1>5. calls' <= MaxCalls /\ next_id' >= 1 /\ next_id' + after <= calls' + 1
    <2> HIDE DEF before, after
    <2> QED  BY <1>2, <1>3, <1>4
  <1>6. ASSUME NEW u \in Threads, Allocated(u)' PROVE id'[u] >= 1
    <2>1. CASE u = t
      BY <1>2, <1>6, <2>1, Zenon DEF BoundInv
    <2>2. CASE u # t
      BY <1>6, <2>2, Zenon DEF Frame, BoundInv, Allocated
    <2> QED  BY <2>1, <2>2, Zenon
  <1> QED  BY <1>5, <1>6, Zenon DEF BoundInv

LEMMA BoundStep == TypeInv /\ BoundInv /\ [Next]_vars => BoundInv'
  <1> SUFFICES ASSUME TypeInv, BoundInv, [Next]_vars PROVE BoundInv'
    BY Zenon
  <1>0. LocalsOK /\ SharedOK
    BY TypeParts, Zenon
  <1>1. CASE UNCHANGED vars \/ LockoutChanges
    <2>1. UNCHANGED <<calls, next_id, pc, id>>
      BY <1>1, Zenon DEF vars, locals, lockout, LockoutChanges
    <2> QED  BY <2>1, Zenon DEF BoundInv, Awaiting, Allocated
  <1>2. ASSUME NEW t \in Threads, Call(t) PROVE BoundInv'
    <2>1. calls' = calls + 1 /\ calls < MaxCalls /\ next_id' = next_id /\ pc[t] = "idle"
      BY <1>2, Zenon DEF Call, Register, Unregister, Rotate, WithKey, Begin
    <2>2. Frame(t) /\ pc'[t] \in {"idle", "rg_check", "un_lock", "ro_check", "wk_load"}
      BY <1>0, <1>2 DEF Call, Register, Unregister, Rotate, WithKey, Gated, Return, Enter, Goto, Frame, LocalsOK
    <2>3. t \notin Awaiting /\ ~Allocated(t)'
      BY <2>1, <2>2, Zenon DEF Awaiting, Allocated
    <2> QED  BY <2>1, <2>2, <2>3, BoundThread, Zenon
  <1>3. ASSUME NEW t \in Threads, RegisterFragment(t) PROVE BoundInv'
    <2>1. pc[t] = "rg_fragment" /\ UNCHANGED calls /\ Frame(t)
      BY <1>0, <1>3, Zenon DEF RegisterFragment, Return, Goto, Frame, LocalsOK
    <2>2. t \in Awaiting
      BY <2>1, Zenon DEF Awaiting
    <2>3. CASE pc'[t] = "idle" /\ UNCHANGED next_id
      BY <2>1, <2>2, <2>3, BoundThread, Zenon DEF Allocated
    <2>4. CASE pc'[t] = "rg_lock" /\ next_id' = next_id + 1 /\ id'[t] = next_id
      <3>1. t \notin Awaiting'
        BY <2>4, Zenon DEF Awaiting
      <3> QED  BY <2>1, <2>2, <2>4, <3>1, BoundThread, Zenon
    <2> QED  BY <1>0, <1>3, <2>3, <2>4, Zenon DEF RegisterFragment, Return, Goto, LocalsOK
  <1>4. ASSUME NEW t \in Threads, Step(t), ~RegisterFragment(t) PROVE BoundInv'
    <2>1. UNCHANGED <<calls, next_id>>
      BY <1>4, Zenon DEF Step, RegisterCheck, RegisterLock, RegisterInstall, RegisterAudit,
         UnregisterLock, UnregisterInstall, UnregisterAudit, RotateCheck, RotateGate, RotateLock,
         RotateInstall, RotateAudit, WithKeyLoad, WithKeyGate, WithKeyAudit, LockWriter, Abandon, Swap, Emit, Local
    <2>2. /\ Frame(t)
          /\ pc'[t] \in {"rg_check", "rg_fragment"} => pc[t] \in {"rg_check", "rg_fragment"}
          /\ pc'[t] \in {"rg_lock", "rg_install"} => pc[t] \in {"rg_lock", "rg_install"} /\ id'[t] = id[t]
      <3>1. CASE RegisterCheck(t) \/ RegisterLock(t) \/ UnregisterLock(t) \/ RotateLock(t)
        BY <1>0, <3>1 DEF RegisterCheck, RegisterLock, UnregisterLock, RotateLock, LockWriter, Return, Goto,
           Frame, LocalsOK
      <3>2. CASE RegisterInstall(t) \/ UnregisterInstall(t) \/ RotateInstall(t)
        BY <1>0, <3>2 DEF RegisterInstall, UnregisterInstall, RotateInstall, Abandon, Swap, Return, Goto,
           Frame, LocalsOK
      <3>3. CASE RegisterAudit(t) \/ UnregisterAudit(t) \/ RotateAudit(t) \/ WithKeyAudit(t)
        BY <1>0, <3>3 DEF RegisterAudit, UnregisterAudit, RotateAudit, WithKeyAudit, Emit, Return, Goto,
           Frame, LocalsOK
      <3>4. CASE RotateCheck(t) \/ RotateGate(t) \/ WithKeyLoad(t) \/ WithKeyGate(t)
        BY <1>0, <3>4, SMTT(30) DEF RotateCheck, RotateGate, WithKeyLoad, WithKeyGate, Return, Goto,
           Frame, LocalsOK
      <3> QED  BY <1>4, <3>1, <3>2, <3>3, <3>4, Zenon DEF Step
    <2>3. (t \in Awaiting' => t \in Awaiting) /\ (Allocated(t)' => Allocated(t) /\ id'[t] = id[t])
      BY <2>2, Zenon DEF Awaiting, Allocated
    <2> QED  BY <2>1, <2>2, <2>3, BoundThread, Zenon
  <1> QED  BY <1>1, <1>2, <1>3, <1>4, Zenon DEF Next

-----------------------------------------------------------------------------
(* The registry implements the atomic one.  What RegistrySpec sees.        *)

RegisterAt == {"rg_check", "rg_fragment", "rg_lock", "rg_install", "rg_audit"}
UnregisterAt == {"un_lock", "un_install", "un_audit"}
RotateAt == {"ro_check", "ro_gate", "ro_lock", "ro_install", "ro_audit"}
ReadAt == {"wk_load", "wk_gate", "wk_audit"}

\* The call and the result of a thread, by its position.
View(t) ==
  /\ pc[t] = "idle" => AbstractCall(t) = [op |-> "none"]
  /\ pc[t] \in RegisterAt => AbstractCall(t) = [op |-> "register", name |-> name[t], key |-> key[t]]
  /\ pc[t] \in UnregisterAt => AbstractCall(t) = [op |-> "unregister", id |-> id[t]]
  /\ pc[t] \in RotateAt => AbstractCall(t) = [op |-> "rotate", id |-> id[t], key |-> key[t]]
  /\ pc[t] \in ReadAt => AbstractCall(t) = [op |-> "read", id |-> id[t]]
  /\ pc[t] \in {"rg_audit", "un_audit", "ro_audit"} => AbstractOut(t) = "ok"
  /\ pc[t] \in {"wk_gate", "wk_audit"} => AbstractOut(t) = key[t]
  /\ pc[t] \notin {"rg_audit", "un_audit", "ro_audit", "wk_gate", "wk_audit"} => AbstractOut(t) = "none"

LEMMA ViewHolds ==
  ASSUME NEW t
  PROVE  View(t) /\ View(t)'
  <1> USE DEF AbstractCall, AbstractOut, RegisterAt, UnregisterAt, RotateAt, ReadAt
  <1>1. View(t)
    BY Zenon DEF View
  <1>2. View(t)'
    BY Zenon DEF View
  <1> QED  BY <1>1, <1>2, Zenon

\* The threads that do not step look as before.
LEMMA ViewFrame ==
  ASSUME NEW t \in Threads, Frame(t)
  PROVE  \A u \in Threads : u # t => AbstractCall(u)' = AbstractCall(u) /\ AbstractOut(u)' = AbstractOut(u)
  BY Zenon DEF Frame, AbstractCall, AbstractOut

Shared == <<keys, issued, locked_out, key_locked>>

\* A step that shows nothing.
LEMMA SeenStutter ==
  ASSUME NEW t \in Threads, Frame(t), UNCHANGED <<Shared, ret>>,
         AbstractCall(t)' = AbstractCall(t), AbstractOut(t)' = AbstractOut(t)
  PROVE  UNCHANGED Abstract!vars
  <1>1. \A u \in Threads : AbstractCall(u)' = AbstractCall(u) /\ AbstractOut(u)' = AbstractOut(u)
    BY ViewFrame, Zenon
  <1> QED  BY <1>1, Zenon DEF Abstract!vars, Shared

\* A call is made.
LEMMA SeenCall ==
  ASSUME NEW t \in Threads, Frame(t), UNCHANGED Shared, ret' = [ret EXCEPT ![t] = "none"],
         pc[t] = "idle", AbstractOut(t)' = "none", NEW c \in Abstract!Calls, AbstractCall(t)' = c,
         c.op # "unregister" => ~locked_out
  PROVE  Abstract!Call(t)
  <1>1. AbstractCall(t) = [op |-> "none"] /\ AbstractOut(t) = "none"
    BY ViewHolds, Zenon DEF View
  <1>2. \A u \in Threads : u # t => AbstractCall(u)' = AbstractCall(u) /\ AbstractOut(u)' = AbstractOut(u)
    BY ViewFrame, Zenon
  <1>3. [u \in Threads |-> AbstractCall(u)]' = [[u \in Threads |-> AbstractCall(u)] EXCEPT ![t] = c]
    BY <1>2, Zenon
  <1>4. [u \in Threads |-> AbstractOut(u)]' = [u \in Threads |-> AbstractOut(u)]
    BY <1>1, <1>2, Zenon
  <1>5. [u \in Threads |-> AbstractCall(u)][t] = [op |-> "none"]
    BY <1>1, Zenon
  <1> QED  BY <1>3, <1>4, <1>5, Zenon DEF Abstract!Call, Abstract!NoCall, Shared

\* A locked-out vault refuses a call.
LEMMA SeenRefuse ==
  ASSUME LocalsOK, NEW t \in Threads, UNCHANGED Shared, Return(t, "locked"), pc[t] = "idle", locked_out
  PROVE  Abstract!Refuse(t)
  <1>1. Frame(t) /\ pc'[t] = "idle" /\ ret' = [ret EXCEPT ![t] = "locked"]
    BY LocalFrame, Zenon DEF Return
  <1>2. /\ AbstractCall(t) = [op |-> "none"] /\ AbstractCall(t)' = [op |-> "none"]
        /\ AbstractOut(t) = "none" /\ AbstractOut(t)' = "none"
    BY <1>1, ViewHolds, Zenon DEF View
  <1>3. \A u \in Threads : AbstractCall(u)' = AbstractCall(u) /\ AbstractOut(u)' = AbstractOut(u)
    BY <1>1, <1>2, ViewFrame, Zenon
  <1> QED  BY <1>1, <1>2, <1>3, Zenon DEF Abstract!Refuse, Abstract!NoCall, Shared

\* A call ends.
LEMMA SeenEnd ==
  ASSUME LocalsOK, NEW t \in Threads, NEW r, UNCHANGED Shared, Return(t, r)
  PROVE  Abstract!End(t, r)
  <1>1. Frame(t) /\ pc'[t] = "idle" /\ ret' = [ret EXCEPT ![t] = r]
    BY LocalFrame, Zenon DEF Return
  <1>2. AbstractCall(t)' = [op |-> "none"] /\ AbstractOut(t)' = "none"
    BY <1>1, ViewHolds, Zenon DEF View
  <1>3. \A u \in Threads : u # t => AbstractCall(u)' = AbstractCall(u) /\ AbstractOut(u)' = AbstractOut(u)
    BY <1>1, ViewFrame, Zenon
  <1>4. [u \in Threads |-> AbstractCall(u)]' = [[u \in Threads |-> AbstractCall(u)] EXCEPT ![t] = [op |-> "none"]]
    BY <1>2, <1>3, Zenon
  <1>5. [u \in Threads |-> AbstractOut(u)]' = [[u \in Threads |-> AbstractOut(u)] EXCEPT ![t] = "none"]
    BY <1>2, <1>3, Zenon
  <1> QED  BY <1>1, <1>4, <1>5, Zenon DEF Abstract!End, Abstract!NoCall, Shared

\* An operation takes effect.
LEMMA SeenApply ==
  ASSUME NEW t \in Threads, Frame(t), UNCHANGED <<locked_out, key_locked, ret>>, NEW m, NEW r, keys' = m,
         AbstractCall(t)' = AbstractCall(t), AbstractOut(t)' = r
  PROVE  Abstract!Apply(t, m, r)
  <1>1. \A u \in Threads : u # t => AbstractCall(u)' = AbstractCall(u) /\ AbstractOut(u)' = AbstractOut(u)
    BY ViewFrame, Zenon
  <1>2. [u \in Threads |-> AbstractCall(u)]' = [u \in Threads |-> AbstractCall(u)]
    BY <1>1, Zenon
  <1>3. [u \in Threads |-> AbstractOut(u)]' = [[u \in Threads |-> AbstractOut(u)] EXCEPT ![t] = r]
    BY <1>1, Zenon
  <1> QED  BY <1>2, <1>3, Zenon DEF Abstract!Apply

\* A return is the return of a call that took effect, or its failure for a reason
\* that holds at that moment.
LEMMA ReturnSeen ==
  ASSUME TypeInv, RegistryInv, HandleInv, NEW t \in Threads, NEW r, UNCHANGED Shared, Return(t, r),
         \/ pc[t] \in {"rg_audit", "un_audit", "ro_audit"} /\ r = "ok"
         \/ pc[t] = "wk_audit" /\ r = key[t]
         \/ pc[t] \in {"rg_fragment", "ro_gate", "wk_gate"} /\ r = "failed"
         \/ pc[t] \in {"rg_check", "rg_install"} /\ NameUsed(keys, name[t]) /\ r = "duplicate"
         \/ pc[t] \in {"un_install", "ro_check", "ro_install", "wk_load"} /\ id[t] \notin DOMAIN keys /\ r = "absent"
         \/ pc[t] \in {"ro_gate", "wk_gate"} /\ name[t] \in key_locked /\ r = "locked"
  PROVE  Abstract!Return(t) \/ Abstract!Fail(t)
  <1> DEFINE call == [u \in Threads |-> AbstractCall(u)]
             out == [u \in Threads |-> AbstractOut(u)]
  <1>0. LocalsOK /\ SharedOK
    BY TypeParts, Zenon
  <1>1. Abstract!End(t, r)
    BY <1>0, SeenEnd, Zenon
  <1>2. View(t) /\ call[t] = AbstractCall(t) /\ out[t] = AbstractOut(t)
    BY ViewHolds, Zenon
  <1>3. CASE \/ pc[t] \in {"rg_audit", "un_audit", "ro_audit"} /\ r = "ok"
             \/ pc[t] = "wk_audit" /\ r = key[t]
    <2>1. key[t] \in Keys \/ pc[t] = "un_audit"
      BY <1>0, <1>3, Zenon DEF LocalsOK, LocalsSet, KeyedAt, Labels, Holding
    <2>2. call[t].op # "none"
      BY <1>2, <1>3, SMTT(30) DEF View, RegisterAt, UnregisterAt, RotateAt, ReadAt
    <2>3. call[t] # [op |-> "none"]
      BY <2>2
    <2>4. out[t] = r /\ r # "none"
      BY <1>2, <1>3, <2>1, RegistryAssumption, Zenon DEF View
    <2>5. Abstract!Return(t)
      BY <1>1, <2>3, <2>4, Zenon DEF Abstract!Return, Abstract!NoCall
    <2> QED  BY <2>5, Zenon
  <1>4. CASE pc[t] \in {"rg_fragment", "ro_gate", "wk_gate"} /\ r = "failed"
    <2>1. call[t].op \in {"register", "rotate", "read"} /\ (out[t] = "none" \/ call[t].op = "read")
      BY <1>2, <1>4, SMTT(30) DEF View, RegisterAt, UnregisterAt, RotateAt, ReadAt
    <2>2. call[t] # [op |-> "none"]
      BY <2>1
    <2>3. Abstract!Fail(t)
      BY <1>1, <1>4, <2>1, <2>2, Zenon DEF Abstract!Fail, Abstract!NoCall
    <2> QED  BY <2>3, Zenon
  <1>5. CASE pc[t] \in {"rg_check", "rg_install"} /\ NameUsed(keys, name[t]) /\ r = "duplicate"
    <2>1. call[t].op = "register" /\ call[t].name = name[t] /\ out[t] = "none"
      BY <1>2, <1>5 DEF View, RegisterAt
    <2>2. call[t] # [op |-> "none"]
      BY <2>1
    <2>3. Abstract!NameUsed(call[t].name)
      BY <1>5, <2>1, Zenon DEF Abstract!NameUsed, NameUsed
    <2>4. Abstract!Fail(t)
      BY <1>1, <1>5, <2>1, <2>2, <2>3, Zenon DEF Abstract!Fail, Abstract!NoCall
    <2> QED  BY <2>4, Zenon
  <1>6. CASE /\ pc[t] \in {"un_install", "ro_check", "ro_install", "wk_load"}
             /\ id[t] \notin DOMAIN keys /\ r = "absent"
    <2>1. call[t].op \in {"unregister", "rotate", "read"} /\ call[t].id = id[t] /\ out[t] = "none"
      BY <1>2, <1>6, SMTT(30) DEF View, UnregisterAt, RotateAt, ReadAt
    <2>2. call[t] # [op |-> "none"]
      BY <2>1
    <2>3. Abstract!Fail(t)
      BY <1>1, <1>6, <2>1, <2>2, Zenon DEF Abstract!Fail, Abstract!NoCall
    <2> QED  BY <2>3, Zenon
  <1>7. CASE pc[t] \in {"ro_gate", "wk_gate"} /\ name[t] \in key_locked /\ r = "locked"
    <2>1. /\ call[t].op \in {"rotate", "read"} /\ call[t].id = id[t]
          /\ out[t] = "none" \/ call[t].op = "read"
      BY <1>2, <1>7 DEF View, RotateAt, ReadAt
    <2>2. call[t] # [op |-> "none"]
      BY <2>1
    <2>3. issued[call[t].id] \in key_locked
      BY <1>7, <2>1, Zenon DEF HandleInv
    <2>4. Abstract!Fail(t)
      BY <1>1, <1>7, <2>1, <2>2, <2>3, Zenon DEF Abstract!Fail, Abstract!NoCall
    <2> QED  BY <2>4, Zenon
  <1> QED  BY <1>3, <1>4, <1>5, <1>6, <1>7, Zenon

\* A call is refused, or begins.
LEMMA CallSeen ==
  ASSUME TypeInv, NEW t \in Threads, Call(t)
  PROVE  Abstract!Call(t) \/ Abstract!Refuse(t)
  <1>0. LocalsOK /\ SharedOK
    BY TypeParts, Zenon
  <1>1. pc[t] = "idle" /\ UNCHANGED Shared
    BY Zenon DEF Call, Register, Unregister, Rotate, WithKey, Begin, Shared, lockout
  <1>2. CASE locked_out /\ Return(t, "locked")
    BY <1>0, <1>1, <1>2, SeenRefuse, Zenon
  <1>3. ASSUME NEW label, NEW n, NEW i, NEW k, Enter(t, label, n, i, k)
        PROVE  /\ Frame(t) /\ ret' = [ret EXCEPT ![t] = "none"]
               /\ pc'[t] = label /\ name'[t] = n /\ id'[t] = i /\ key'[t] = k
    BY <1>0, <1>3, Zenon DEF Enter, Goto, Frame, LocalsOK
  <1>4. View(t)'
    BY ViewHolds, Zenon
  <1>5. ASSUME NEW n \in Names, NEW k \in Keys, ~locked_out, Enter(t, "rg_check", n, 0, k)
        PROVE  Abstract!Call(t)
    <2> DEFINE c == [op |-> "register", name |-> n, key |-> k]
    <2>1. c \in Abstract!Calls
      BY Zenon DEF Abstract!Calls
    <2>2. /\ Frame(t) /\ ret' = [ret EXCEPT ![t] = "none"]
          /\ pc'[t] = "rg_check" /\ name'[t] = n /\ key'[t] = k
      BY <1>3, <1>5, Zenon
    <2>3. AbstractCall(t)' = c /\ AbstractOut(t)' = "none"
      BY <1>4, <2>2, Zenon DEF View, RegisterAt
    <2> HIDE DEF c
    <2> QED  BY <1>1, <1>5, <2>1, <2>2, <2>3, SeenCall, Zenon
  <1>6. ASSUME NEW i \in DOMAIN issued, Enter(t, "un_lock", None, i, None)
        PROVE  Abstract!Call(t)
    <2> DEFINE c == [op |-> "unregister", id |-> i]
    <2>1. c \in Abstract!Calls /\ c.op = "unregister"
      BY Zenon DEF Abstract!Calls
    <2>2. /\ Frame(t) /\ ret' = [ret EXCEPT ![t] = "none"]
          /\ pc'[t] = "un_lock" /\ id'[t] = i
      BY <1>3, <1>6, Zenon
    <2>3. AbstractCall(t)' = c /\ AbstractOut(t)' = "none"
      BY <1>4, <2>2, Zenon DEF View, UnregisterAt
    <2> HIDE DEF c
    <2> QED  BY <1>1, <2>1, <2>2, <2>3, SeenCall, Zenon
  <1>7. ASSUME NEW i \in DOMAIN issued, NEW k \in Keys, ~locked_out, Enter(t, "ro_check", None, i, k)
        PROVE  Abstract!Call(t)
    <2> DEFINE c == [op |-> "rotate", id |-> i, key |-> k]
    <2>1. c \in Abstract!Calls
      BY Zenon DEF Abstract!Calls
    <2>2. /\ Frame(t) /\ ret' = [ret EXCEPT ![t] = "none"]
          /\ pc'[t] = "ro_check" /\ id'[t] = i /\ key'[t] = k
      BY <1>3, <1>7, Zenon
    <2>3. AbstractCall(t)' = c /\ AbstractOut(t)' = "none"
      BY <1>4, <2>2, Zenon DEF View, RotateAt
    <2> HIDE DEF c
    <2> QED  BY <1>1, <1>7, <2>1, <2>2, <2>3, SeenCall, Zenon
  <1>8. ASSUME NEW i \in DOMAIN issued, ~locked_out, Enter(t, "wk_load", None, i, None)
        PROVE  Abstract!Call(t)
    <2> DEFINE c == [op |-> "read", id |-> i]
    <2>1. c \in Abstract!Calls
      BY Zenon DEF Abstract!Calls
    <2>2. /\ Frame(t) /\ ret' = [ret EXCEPT ![t] = "none"]
          /\ pc'[t] = "wk_load" /\ id'[t] = i
      BY <1>3, <1>8, Zenon
    <2>3. AbstractCall(t)' = c /\ AbstractOut(t)' = "none"
      BY <1>4, <2>2, Zenon DEF View, ReadAt
    <2> HIDE DEF c
    <2> QED  BY <1>1, <1>8, <2>1, <2>2, <2>3, SeenCall, Zenon
  <1> QED  BY <1>2, <1>5, <1>6, <1>7, <1>8, Zenon DEF Call, Register, Unregister, Rotate, WithKey, Gated

\* The swap is the instant at which register, unregister and rotate take effect.
LEMMA InstallSeen ==
  ASSUME TypeInv, RegistryInv, HandleInv, BoundInv, NEW t \in Threads,
         RegisterInstall(t) \/ UnregisterInstall(t) \/ RotateInstall(t)
  PROVE  Abstract!Next
  <1> DEFINE call == [u \in Threads |-> AbstractCall(u)]
             out == [u \in Threads |-> AbstractOut(u)]
  <1>0. LocalsOK /\ SharedOK
    BY TypeParts, Zenon
  <1>1. cur[t] = keys /\ pc[t] \in Holding
    BY Zenon DEF RegisterInstall, UnregisterInstall, RotateInstall, RegistryInv, CurrentInv, Holding
  <1>2. View(t) /\ View(t)' /\ call[t] = AbstractCall(t) /\ out[t] = AbstractOut(t)
    BY ViewHolds, Zenon
  <1>3. ASSUME NEW r, Abandon(t, r),
               \/ pc[t] = "rg_install" /\ NameUsed(keys, name[t]) /\ r = "duplicate"
               \/ pc[t] \in {"un_install", "ro_install"} /\ id[t] \notin DOMAIN keys /\ r = "absent"
        PROVE  Abstract!Return(t) \/ Abstract!Fail(t)
    <2>1. UNCHANGED Shared /\ Return(t, r)
      BY <1>3, Zenon DEF Abandon, Shared, lockout
    <2> QED  BY <1>3, <2>1, ReturnSeen, Zenon
  <1>4. ASSUME pc[t] = "rg_install", ~NameUsed(keys, name[t]), UNCHANGED name,
               Swap(t, Put(keys, id[t], [name |-> name[t], key |-> key[t]]), "rg_audit"),
               issued' = Put(issued, id[t], name[t])
        PROVE  Abstract!ApplyRegister(t)
    <2>1. /\ Frame(t) /\ UNCHANGED <<locked_out, key_locked, ret>>
          /\ pc'[t] = "rg_audit" /\ name'[t] = name[t] /\ key'[t] = key[t]
      BY <1>0, <1>4, LocalFrame, Zenon DEF Swap, lockout
    <2>2. /\ call[t] = [op |-> "register", name |-> name[t], key |-> key[t]]
          /\ AbstractCall(t)' = AbstractCall(t) /\ out[t] = "none" /\ AbstractOut(t)' = "ok"
      BY <1>2, <1>4, <2>1, Zenon DEF View, RegisterAt
    <2>3. Abstract!Apply(t, Put(keys, id[t], [name |-> name[t], key |-> key[t]]), "ok")
      <3>1. keys' = Put(keys, id[t], [name |-> name[t], key |-> key[t]])
        BY <1>4, Zenon DEF Swap
      <3> QED  BY <2>1, <2>2, <3>1, SeenApply, Zenon
    <2>4. id[t] \in (1 .. MaxCalls) \ DOMAIN issued
      <3>1. /\ id[t] \in Nat /\ id[t] >= 1 /\ id[t] < next_id /\ id[t] \notin DOMAIN issued
            /\ next_id \in Nat /\ calls \in Nat /\ MaxCalls \in Nat
        BY <1>0, <1>4, RegistryAssumption, Zenon DEF LocalsOK, SharedOK, BoundInv, RegistryInv, FreshInv, Allocated
      <3>2. next_id + Cardinality(Awaiting) <= calls + 1 /\ calls <= MaxCalls /\ Cardinality(Awaiting) \in Nat
        BY <2>1, AwaitStep, Zenon DEF BoundInv, Frame
      <3> QED  BY <3>1, <3>2
    <2>5. call[t].op = "register" /\ call[t].name = name[t] /\ call[t].key = key[t] /\ Abstract!InCall(t, "register")
      BY <2>2, SMTT(30) DEF Abstract!InCall
    <2>6. ~Abstract!NameUsed(call[t].name)
      BY <1>4, <2>5, Zenon DEF Abstract!NameUsed, NameUsed
    <2> HIDE DEF call, out
    <2> QED  BY <1>4, <2>3, <2>4, <2>5, <2>6, Zenon DEF Abstract!ApplyRegister, Put, call, out
  <1>5. ASSUME pc[t] = "un_install", id[t] \in DOMAIN keys, UNCHANGED issued,
               Swap(t, Without(keys, id[t]), "un_audit"),
               name' = [name EXCEPT ![t] = keys[id[t]].name]
        PROVE  Abstract!ApplyUnregister(t)
    <2>1. /\ Frame(t) /\ UNCHANGED <<locked_out, key_locked, ret>>
          /\ pc'[t] = "un_audit" /\ id'[t] = id[t]
      BY <1>0, <1>5, LocalFrame, Zenon DEF Swap, lockout
    <2>2. /\ call[t] = [op |-> "unregister", id |-> id[t]]
          /\ AbstractCall(t)' = AbstractCall(t) /\ out[t] = "none" /\ AbstractOut(t)' = "ok"
      BY <1>2, <1>5, <2>1, Zenon DEF View, UnregisterAt
    <2>3. Abstract!Apply(t, Without(keys, id[t]), "ok")
      <3>1. keys' = Without(keys, id[t])
        BY <1>5, Zenon DEF Swap
      <3> QED  BY <2>1, <2>2, <3>1, SeenApply, Zenon
    <2>4. call[t].id = id[t] /\ Abstract!InCall(t, "unregister")
      BY <2>2 DEF Abstract!InCall
    <2> QED  BY <1>5, <2>3, <2>4, Zenon DEF Abstract!ApplyUnregister, Without
  <1>6. ASSUME pc[t] = "ro_install", id[t] \in DOMAIN keys, UNCHANGED <<issued, name>>,
               Swap(t, [keys EXCEPT ![id[t]].key = key[t]], "ro_audit")
        PROVE  Abstract!ApplyRotate(t)
    <2>1. /\ Frame(t) /\ UNCHANGED <<locked_out, key_locked, ret>>
          /\ pc'[t] = "ro_audit" /\ id'[t] = id[t] /\ key'[t] = key[t]
      BY <1>0, <1>6, LocalFrame, Zenon DEF Swap, lockout
    <2>2. /\ call[t] = [op |-> "rotate", id |-> id[t], key |-> key[t]]
          /\ AbstractCall(t)' = AbstractCall(t) /\ out[t] = "none" /\ AbstractOut(t)' = "ok"
      BY <1>2, <1>6, <2>1, Zenon DEF View, RotateAt
    <2>3. Abstract!Apply(t, [keys EXCEPT ![id[t]].key = key[t]], "ok")
      <3>1. keys' = [keys EXCEPT ![id[t]].key = key[t]]
        BY <1>6, Zenon DEF Swap
      <3> QED  BY <2>1, <2>2, <3>1, SeenApply, Zenon
    <2>4. call[t].id = id[t] /\ call[t].key = key[t] /\ Abstract!InCall(t, "rotate")
      BY <2>2 DEF Abstract!InCall
    <2> QED  BY <1>6, <2>3, <2>4, Zenon DEF Abstract!ApplyRotate
  <1>7. \/ Abstract!Return(t) \/ Abstract!Fail(t)
        \/ Abstract!ApplyRegister(t) \/ Abstract!ApplyUnregister(t) \/ Abstract!ApplyRotate(t)
    BY <1>1, <1>3, <1>4, <1>5, <1>6, Zenon DEF RegisterInstall, UnregisterInstall, RotateInstall
  <1> QED  BY <1>7, Zenon DEF Abstract!Next

\* with_key takes effect when it takes its entry from the snapshot.
LEMMA LoadSeen ==
  ASSUME TypeInv, RegistryInv, HandleInv, NEW t \in Threads, WithKeyLoad(t)
  PROVE  Abstract!Next
  <1> DEFINE call == [u \in Threads |-> AbstractCall(u)]
             out == [u \in Threads |-> AbstractOut(u)]
  <1>0. LocalsOK /\ SharedOK
    BY TypeParts, Zenon
  <1>1. pc[t] = "wk_load" /\ UNCHANGED Shared
    BY Zenon DEF WithKeyLoad, Local, Shared, lockout
  <1>2. View(t) /\ View(t)' /\ call[t] = AbstractCall(t) /\ out[t] = AbstractOut(t)
    BY ViewHolds, Zenon
  <1>3. CASE id[t] \notin DOMAIN keys
    <2>1. Return(t, "absent")
      BY <1>3, Zenon DEF WithKeyLoad
    <2>2. Abstract!Return(t) \/ Abstract!Fail(t)
      BY <1>1, <1>3, <2>1, ReturnSeen, Zenon
    <2> QED  BY <2>2, Zenon DEF Abstract!Next
  <1>4. CASE id[t] \in DOMAIN keys
    <2>1. /\ Frame(t) /\ UNCHANGED <<locked_out, key_locked, ret>>
          /\ pc'[t] = "wk_gate" /\ id'[t] = id[t] /\ key'[t] = keys[id[t]].key
      BY <1>0, <1>1, <1>4, Zenon DEF WithKeyLoad, Goto, Frame, LocalsOK, Shared
    <2>2. /\ call[t] = [op |-> "read", id |-> id[t]]
          /\ AbstractCall(t)' = AbstractCall(t) /\ out[t] = "none" /\ AbstractOut(t)' = keys[id[t]].key
      BY <1>1, <1>2, <2>1, Zenon DEF View, ReadAt
    <2>3. Abstract!Apply(t, keys, keys[id[t]].key)
      BY <1>1, <2>1, <2>2, SeenApply, Zenon DEF Shared
    <2>4. call[t].id = id[t] /\ Abstract!InCall(t, "read")
      BY <2>2 DEF Abstract!InCall
    <2>5. Abstract!ApplyRead(t)
      BY <1>1, <1>4, <2>3, <2>4, Zenon DEF Abstract!ApplyRead, Shared
    <2> QED  BY <2>5, Zenon DEF Abstract!Next
  <1> QED  BY <1>3, <1>4, Zenon

\* The early checks, fragmenting, the locks and the audit calls end a call or show nothing.
LEMMA OtherSeen ==
  ASSUME TypeInv, RegistryInv, HandleInv, NEW t \in Threads, Step(t), ~WithKeyLoad(t),
         ~RegisterInstall(t), ~UnregisterInstall(t), ~RotateInstall(t)
  PROVE  [Abstract!Next]_Abstract!vars
  <1>0. LocalsOK /\ SharedOK
    BY TypeParts, Zenon
  <1>1. UNCHANGED Shared
    BY Zenon DEF Step, RegisterCheck, RegisterFragment, RegisterLock, RegisterAudit, UnregisterLock, UnregisterAudit,
           RotateCheck, RotateGate, RotateLock, RotateAudit, WithKeyGate, WithKeyAudit, LockWriter, Emit, Local,
           Shared, lockout
  <1>2. ASSUME NEW r, Return(t, r),
           \/ pc[t] \in {"rg_audit", "un_audit", "ro_audit"} /\ r = "ok"
           \/ pc[t] = "wk_audit" /\ r = key[t]
           \/ pc[t] \in {"rg_fragment", "ro_gate", "wk_gate"} /\ r = "failed"
           \/ pc[t] = "rg_check" /\ NameUsed(keys, name[t]) /\ r = "duplicate"
           \/ pc[t] = "ro_check" /\ id[t] \notin DOMAIN keys /\ r = "absent"
           \/ pc[t] \in {"ro_gate", "wk_gate"} /\ name[t] \in key_locked /\ r = "locked"
        PROVE  Abstract!Next
    <2>1. Abstract!Return(t) \/ Abstract!Fail(t)
      BY <1>1, <1>2, ReturnSeen, Zenon
    <2> QED  BY <2>1, Zenon DEF Abstract!Next
  <1>3. ASSUME Frame(t), ret' = ret, id'[t] = id[t] \/ pc[t] = "rg_fragment", key'[t] = key[t],
               name'[t] = name[t] \/ pc[t] = "ro_check",
               <<pc[t], pc'[t]>> \in {<<"rg_check", "rg_fragment">>, <<"rg_fragment", "rg_lock">>,
                 <<"rg_lock", "rg_install">>, <<"un_lock", "un_install">>, <<"ro_check", "ro_gate">>,
                 <<"ro_gate", "ro_lock">>, <<"ro_lock", "ro_install">>, <<"wk_gate", "wk_audit">>}
        PROVE  UNCHANGED Abstract!vars
    <2>1. View(t) /\ View(t)'
      BY ViewHolds, Zenon
    <2>2. AbstractCall(t)' = AbstractCall(t) /\ AbstractOut(t)' = AbstractOut(t)
      BY <1>3, <2>1, Zenon DEF View, RegisterAt, UnregisterAt, RotateAt, ReadAt
    <2> QED  BY <1>1, <1>3, <2>2, SeenStutter, Zenon
  <1>4. CASE RegisterCheck(t)
    <2>1. CASE NameUsed(keys, name[t])
      BY <1>2, <1>4, <2>1, Zenon DEF RegisterCheck
    <2>2. CASE ~NameUsed(keys, name[t])
      BY <1>0, <1>3, <1>4, <2>2, Zenon DEF RegisterCheck, Goto, Frame, LocalsOK
    <2> QED  BY <2>1, <2>2, Zenon
  <1>5. CASE RegisterFragment(t)
    <2>1. CASE Return(t, "failed")
      BY <1>2, <1>5, <2>1, Zenon DEF RegisterFragment
    <2>2. CASE id' = [id EXCEPT ![t] = next_id] /\ Goto(t, "rg_lock") /\ UNCHANGED <<name, key, cur, ret>>
      BY <1>0, <1>3, <1>5, <2>2, Zenon DEF RegisterFragment, Goto, Frame, LocalsOK
    <2> QED  BY <1>5, <2>1, <2>2, Zenon DEF RegisterFragment
  <1>6. CASE RegisterLock(t) \/ UnregisterLock(t) \/ RotateLock(t)
    BY <1>0, <1>3, <1>6, Zenon DEF RegisterLock, UnregisterLock, RotateLock, LockWriter, Goto, Frame, LocalsOK
  <1>7. CASE RegisterAudit(t) \/ UnregisterAudit(t) \/ RotateAudit(t) \/ WithKeyAudit(t)
    BY <1>2, <1>7, Zenon DEF RegisterAudit, UnregisterAudit, RotateAudit, WithKeyAudit, Emit
  <1>8. CASE RotateCheck(t)
    <2>1. CASE id[t] \notin DOMAIN keys
      BY <1>2, <1>8, <2>1, Zenon DEF RotateCheck
    <2>2. CASE id[t] \in DOMAIN keys
      BY <1>0, <1>3, <1>8, <2>2, Zenon DEF RotateCheck, Goto, Frame, LocalsOK
    <2> QED  BY <2>1, <2>2, Zenon
  <1>9. CASE RotateGate(t) \/ WithKeyGate(t)
    <2>1. CASE Return(t, "locked") /\ name[t] \in key_locked
      BY <1>2, <1>9, <2>1, Zenon DEF RotateGate, WithKeyGate
    <2>2. CASE Return(t, "failed")
      BY <1>2, <1>9, <2>2, Zenon DEF RotateGate, WithKeyGate
    <2>3. CASE /\ \/ pc[t] = "ro_gate" /\ Goto(t, "ro_lock")
                  \/ pc[t] = "wk_gate" /\ Goto(t, "wk_audit")
               /\ UNCHANGED <<name, id, key, cur, ret>>
      BY <1>0, <1>3, <2>3, Zenon DEF Goto, Frame, LocalsOK
    <2> QED  BY <1>9, <2>1, <2>2, <2>3, Zenon DEF RotateGate, WithKeyGate
  <1> QED  BY <1>4, <1>5, <1>6, <1>7, <1>8, <1>9, Zenon DEF Step

\* Every step is a step of the atomic registry, or shows nothing.
LEMMA AbstractStep ==
  TypeInv /\ RegistryInv /\ HandleInv /\ BoundInv /\ TypeInv' /\ [Next]_vars => [Abstract!Next]_Abstract!vars
  <1> SUFFICES ASSUME TypeInv, RegistryInv, HandleInv, BoundInv, TypeInv', [Next]_vars
               PROVE  [Abstract!Next]_Abstract!vars
    BY Zenon
  <1>1. CASE UNCHANGED vars
    BY <1>1 DEF vars, locals, lockout, Abstract!vars, AbstractCall, AbstractOut
  <1>2. CASE LockoutChanges
    <2>1. locked_out' \in BOOLEAN /\ key_locked' \in SUBSET Names
      BY Zenon DEF TypeInv, TypeOK
    <2>2. Abstract!LockoutChanges
      BY <1>2, <2>1 DEF LockoutChanges, locals, Abstract!LockoutChanges, AbstractCall, AbstractOut
    <2> QED  BY <2>2, Zenon DEF Abstract!Next
  <1>3. ASSUME NEW t \in Threads, Call(t) PROVE Abstract!Next
    BY <1>3, CallSeen, Zenon DEF Abstract!Next
  <1>4. ASSUME NEW t \in Threads, Step(t) PROVE [Abstract!Next]_Abstract!vars
    BY <1>4, InstallSeen, LoadSeen, OtherSeen, Zenon
  <1> QED  BY <1>1, <1>2, <1>3, <1>4, Zenon DEF Next

\* The registry with its snapshots, its writer lock and its late audit events is the
\* atomic registry: every register, unregister, rotate and with_key takes effect at one
\* instant between its call and its return, for any number of threads, names and keys.
THEOREM RegistryLinearizable == Spec => Linearizable
  <1>1. Init => Abstract!Init
    BY DEF Init, EmptyMap, Abstract!Init, Abstract!NoCall, AbstractCall, AbstractOut
  <1> QED  BY <1>1, TypeInit, TypeStep, RegistryInit, RegistryStep, HandleInit, HandleStep, BoundInit, BoundStep,
              AbstractStep, PTL DEF Spec, Linearizable, Abstract!Spec
==============================================================================
