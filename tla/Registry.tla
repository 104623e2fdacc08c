------------------------------ MODULE Registry ------------------------------
(***************************************************************************)
(* The named-key registry of KeyVault: register, unregister, rotate and      *)
(* with_key over a map that is replaced as a whole (src/src/vault/mod.rs).   *)
(*                                                                         *)
(* Readers load the current map without a lock.  Writers take the writer     *)
(* mutex, load the map, and swap in a changed copy.  Each load, swap, lock   *)
(* operation and audit call is a step; fragmenting is local to the thread.   *)
(* A key is the material that reassembling its fragments gives back.  The    *)
(* lockout flags belong to module Lockout and change here at any time.       *)
(***************************************************************************)
EXTENDS Naturals, Sequences, FiniteSets

CONSTANTS
  Threads,    \* callers of the vault
  NoThread,   \* owner of a free mutex
  Names,      \* key names
  Keys,       \* key material
  None,       \* no name, no key
  MaxCalls    \* bound: calls made in a behaviour

ASSUME RegistryAssumption ==
  /\ IsFiniteSet(Threads) /\ NoThread \notin Threads
  /\ None \notin Names /\ None \notin Keys /\ "none" \notin Keys
  /\ MaxCalls \in Nat

VARIABLES
  keys,        \* ArcSwap<BTreeMap<KeyId, KeyEntry>>: id -> [name, key]
  writer,      \* owner of the writer mutex
  next_id,     \* KeyId counter
  audit,       \* events the audit sink has received
  locked_out,  \* vault-wide lockout (module Lockout)
  key_locked,  \* names under a per-key lockout (module Lockout)
  pc, name, id, key, cur, ret,  \* position, locals and last result of each thread
  issued,      \* id -> name for every handle a caller can have
  calls        \* calls made so far

locals == <<pc, name, id, key, cur, ret>>
lockout == <<locked_out, key_locked>>
vars == <<keys, writer, next_id, audit, lockout, locals, issued, calls>>

EmptyMap == [i \in {} |-> [name |-> None, key |-> None]]

Init ==
  /\ keys = EmptyMap
  /\ writer = NoThread
  /\ next_id = 1
  /\ audit = <<>>
  /\ locked_out = FALSE
  /\ key_locked = {}
  /\ pc = [t \in Threads |-> "idle"]
  /\ name = [t \in Threads |-> None]
  /\ id = [t \in Threads |-> 0]
  /\ key = [t \in Threads |-> None]
  /\ cur = [t \in Threads |-> EmptyMap]
  /\ ret = [t \in Threads |-> "none"]
  /\ issued = [i \in {} |-> None]
  /\ calls = 0

-----------------------------------------------------------------------------
(* The map, and control.                                                   *)

Put(m, i, e) == [j \in DOMAIN m \cup {i} |-> IF j = i THEN e ELSE m[j]]
Without(m, i) == [j \in DOMAIN m \ {i} |-> m[j]]
NameUsed(m, n) == \E i \in DOMAIN m : m[i].name = n

Goto(t, label) == pc' = [pc EXCEPT ![t] = label]

\* The call enters its handler with arguments n, i and k.
Enter(t, label, n, i, k) ==
  /\ Goto(t, label)
  /\ name' = [name EXCEPT ![t] = n]
  /\ id' = [id EXCEPT ![t] = i]
  /\ key' = [key EXCEPT ![t] = k]
  /\ ret' = [ret EXCEPT ![t] = "none"]
  /\ UNCHANGED cur

\* The call returns r; its locals are gone.
Return(t, r) ==
  /\ Goto(t, "idle")
  /\ name' = [name EXCEPT ![t] = None]
  /\ id' = [id EXCEPT ![t] = 0]
  /\ key' = [key EXCEPT ![t] = None]
  /\ cur' = [cur EXCEPT ![t] = EmptyMap]
  /\ ret' = [ret EXCEPT ![t] = r]

Begin(t) ==
  /\ pc[t] = "idle"
  /\ calls < MaxCalls
  /\ calls' = calls + 1
  /\ UNCHANGED <<keys, writer, next_id, audit, lockout, issued>>

\* is_locked_out() at the top of every call that reads or stores key material.
Gated(t, label, n, i, k) ==
  IF locked_out THEN Return(t, "locked") ELSE Enter(t, label, n, i, k)

\* lock_writer() and keys.load_full().
LockWriter_Unlocked(t, label) ==
  /\ writer' = t
  /\ cur' = [cur EXCEPT ![t] = keys]
  /\ Goto(t, label)
  /\ UNCHANGED <<keys, next_id, audit, lockout, name, id, key, ret, issued, calls>>
LockWriter(t, label) ==
  /\ writer = NoThread
  /\ writer' = t
  /\ cur' = [cur EXCEPT ![t] = keys]
  /\ Goto(t, label)
  /\ UNCHANGED <<keys, next_id, audit, lockout, name, id, key, ret, issued, calls>>

\* keys.swap(new_map); the guard is dropped, then the call emits its audit event.
Swap(t, new_map, label) ==
  /\ keys' = new_map
  /\ writer' = NoThread
  /\ Goto(t, label)
  /\ UNCHANGED <<next_id, audit, lockout, id, key, ret, calls>>

\* Leave the critical section with an error.
Abandon_KeepsLock(t, r) ==
  /\ Return(t, r)
  /\ UNCHANGED <<keys, writer, next_id, audit, lockout, issued, calls>>
Abandon(t, r) ==
  /\ writer' = NoThread
  /\ Return(t, r)
  /\ UNCHANGED <<keys, next_id, audit, lockout, issued, calls>>

\* A step that touches nothing but the thread's locals.
Local == UNCHANGED <<keys, writer, next_id, audit, lockout, issued, calls>>

\* emit_audit, then Ok.
Emit(t, kind, n, r) ==
  /\ audit' = Append(audit, [kind |-> kind, name |-> n])
  /\ Return(t, r)
  /\ UNCHANGED <<keys, writer, next_id, lockout, issued, calls>>

-----------------------------------------------------------------------------
(* register                                                                *)

Register(t, n, k) == Begin(t) /\ Gated(t, "rg_check", n, 0, k)

\* The early duplicate check, on a snapshot.
RegisterCheck(t) ==
  /\ pc[t] = "rg_check"
  /\ IF NameUsed(keys, name[t])
       THEN Return(t, "duplicate")
       ELSE Goto(t, "rg_fragment") /\ UNCHANGED <<name, id, key, cur, ret>>
  /\ Local

\* fragment_for_registry fails, or the handle is allocated.
RegisterFragment(t) ==
  /\ pc[t] = "rg_fragment"
  /\ \/ /\ Return(t, "failed")
        /\ UNCHANGED next_id
     \/ /\ id' = [id EXCEPT ![t] = next_id]
        /\ next_id' = next_id + 1
        /\ Goto(t, "rg_lock")
        /\ UNCHANGED <<name, key, cur, ret>>
  /\ UNCHANGED <<keys, writer, audit, lockout, issued, calls>>

RegisterLock(t) == pc[t] = "rg_lock" /\ LockWriter(t, "rg_install")

\* The duplicate check under the lock, then the insertion.
RegisterInstall_Unchecked(t) ==
  /\ pc[t] = "rg_install"
  /\ Swap(t, Put(cur[t], id[t], [name |-> name[t], key |-> key[t]]), "rg_audit")
  /\ issued' = Put(issued, id[t], name[t])
  /\ UNCHANGED <<name, cur>>
RegisterInstall(t) ==
  /\ pc[t] = "rg_install"
  /\ IF NameUsed(cur[t], name[t])
       THEN Abandon(t, "duplicate")
       ELSE /\ Swap(t, Put(cur[t], id[t], [name |-> name[t], key |-> key[t]]), "rg_audit")
            /\ issued' = Put(issued, id[t], name[t])
            /\ UNCHANGED <<name, cur>>

RegisterAudit(t) == pc[t] = "rg_audit" /\ Emit(t, "Register", name[t], "ok")

-----------------------------------------------------------------------------
(* unregister                                                              *)

\* Allowed while locked out.
Unregister(t, i) == Begin(t) /\ Enter(t, "un_lock", None, i, None)

UnregisterLock(t) == pc[t] = "un_lock" /\ LockWriter(t, "un_install")

UnregisterInstall(t) ==
  /\ pc[t] = "un_install"
  /\ IF id[t] \notin DOMAIN cur[t]
       THEN Abandon(t, "absent")
       ELSE /\ Swap(t, Without(cur[t], id[t]), "un_audit")
            /\ name' = [name EXCEPT ![t] = cur[t][id[t]].name]
            /\ UNCHANGED <<cur, issued>>

UnregisterAudit(t) == pc[t] = "un_audit" /\ Emit(t, "Unregister", name[t], "ok")

-----------------------------------------------------------------------------
(* rotate                                                                  *)

Rotate(t, i, k) == Begin(t) /\ Gated(t, "ro_check", None, i, k)

\* The early existence check, on a snapshot.
RotateCheck(t) ==
  /\ pc[t] = "ro_check"
  /\ IF id[t] \notin DOMAIN keys
       THEN Return(t, "absent")
       ELSE /\ name' = [name EXCEPT ![t] = keys[id[t]].name]
            /\ Goto(t, "ro_gate")
            /\ UNCHANGED <<id, key, cur, ret>>
  /\ Local

\* key_locked(&entry.name), then fragment_for_registry.
RotateGate(t) ==
  /\ pc[t] = "ro_gate"
  /\ IF name[t] \in key_locked
       THEN Return(t, "locked")
       ELSE \/ Return(t, "failed")
            \/ Goto(t, "ro_lock") /\ UNCHANGED <<name, id, key, cur, ret>>
  /\ Local

RotateLock(t) == pc[t] = "ro_lock" /\ LockWriter(t, "ro_install")

\* The existence check under the lock, then the replacement.
RotateInstall_Unchecked(t) ==
  /\ pc[t] = "ro_install"
  /\ Swap(t, Put(cur[t], id[t], [name |-> name[t], key |-> key[t]]), "ro_audit")
  /\ UNCHANGED <<name, cur, issued>>
RotateInstall(t) ==
  /\ pc[t] = "ro_install"
  /\ IF id[t] \notin DOMAIN cur[t]
       THEN Abandon(t, "absent")
       ELSE /\ Swap(t, [cur[t] EXCEPT ![id[t]].key = key[t]], "ro_audit")
            /\ UNCHANGED <<name, cur, issued>>

RotateAudit_AsRegister(t) == pc[t] = "ro_audit" /\ Emit(t, "Register", name[t], "ok")
RotateAudit(t) == pc[t] = "ro_audit" /\ Emit(t, "Rotate", name[t], "ok")

-----------------------------------------------------------------------------
(* with_key                                                                *)

WithKey(t, i) == Begin(t) /\ Gated(t, "wk_load", None, i, None)

\* The entry is taken from one snapshot: its name, and a share of its fragments.
WithKeyLoad(t) ==
  /\ pc[t] = "wk_load"
  /\ IF id[t] \notin DOMAIN keys
       THEN Return(t, "absent")
       ELSE /\ name' = [name EXCEPT ![t] = keys[id[t]].name]
            /\ key' = [key EXCEPT ![t] = keys[id[t]].key]
            /\ Goto(t, "wk_gate")
            /\ UNCHANGED <<id, cur, ret>>
  /\ Local

\* key_locked(&entry.name), then read_key: reassembling may fail, and the
\* callback may unwind, in which case nothing more happens.
WithKeyGate(t) ==
  /\ pc[t] = "wk_gate"
  /\ IF name[t] \in key_locked
       THEN Return(t, "locked")
       ELSE \/ Return(t, "failed")
            \/ Goto(t, "wk_audit") /\ UNCHANGED <<name, id, key, cur, ret>>
  /\ Local

WithKeyAudit(t) == pc[t] = "wk_audit" /\ Emit(t, "Read", name[t], key[t])

-----------------------------------------------------------------------------
(* The specification.                                                      *)

\* report_failure, clear_lockout and the rest, elsewhere.
LockoutChanges ==
  /\ \/ locked_out' = ~locked_out /\ UNCHANGED key_locked
     \/ UNCHANGED locked_out /\ \E n \in Names : \/ key_locked' = key_locked \cup {n}
                                                 \/ key_locked' = key_locked \ {n}
  /\ UNCHANGED <<keys, writer, next_id, audit, locals, issued, calls>>

Call(t) ==
  \/ \E n \in Names, k \in Keys : Register(t, n, k)
  \/ \E i \in DOMAIN issued : \/ Unregister(t, i)
                              \/ WithKey(t, i)
                              \/ \E k \in Keys : Rotate(t, i, k)

Step(t) ==
  \/ RegisterCheck(t) \/ RegisterFragment(t) \/ RegisterLock(t)
  \/ RegisterInstall(t) \/ RegisterAudit(t)
  \/ UnregisterLock(t) \/ UnregisterInstall(t) \/ UnregisterAudit(t)
  \/ RotateCheck(t) \/ RotateGate(t) \/ RotateLock(t) \/ RotateInstall(t) \/ RotateAudit(t)
  \/ WithKeyLoad(t) \/ WithKeyGate(t) \/ WithKeyAudit(t)

Next == LockoutChanges \/ \E t \in Threads : Call(t) \/ Step(t)

Spec == Init /\ [][Next]_vars

\* A thread inside a call keeps running.
FairSpec == Spec /\ \A t \in Threads : WF_vars(Step(t))

-----------------------------------------------------------------------------
(* Properties.                                                             *)

Holding == {"rg_install", "un_install", "ro_install"}
Labels == {"idle", "rg_check", "rg_fragment", "rg_lock", "rg_audit", "un_lock", "un_audit",
           "ro_check", "ro_gate", "ro_lock", "ro_audit", "wk_load", "wk_gate", "wk_audit"}
             \cup Holding

Entry == [name : Names, key : Keys]
IsKeyMap(m) == DOMAIN m \subseteq Nat /\ m \in [DOMAIN m -> Entry]

\* Type invariant.
TypeOK ==
  /\ IsKeyMap(keys)
  /\ writer \in Threads \cup {NoThread}
  /\ next_id \in Nat
  /\ audit \in Seq([kind : {"Register", "Unregister", "Rotate", "Read"}, name : Names])
  /\ locked_out \in BOOLEAN
  /\ key_locked \subseteq Names
  /\ pc \in [Threads -> Labels]
  /\ name \in [Threads -> Names \cup {None}]
  /\ id \in [Threads -> Nat]
  /\ key \in [Threads -> Keys \cup {None}]
  /\ DOMAIN cur = Threads /\ \A t \in Threads : IsKeyMap(cur[t])
  /\ ret \in [Threads -> {"none", "ok", "locked", "absent", "duplicate", "failed"} \cup Keys]
  /\ DOMAIN issued \subseteq Nat
  /\ issued \in [DOMAIN issued -> Names]
  /\ calls \in Nat

\* At every moment a name belongs to at most one key, although register checks
\* for duplicates on a snapshot and fragments before it takes the writer lock.
UniqueNames == \A i, j \in DOMAIN keys : keys[i].name = keys[j].name => i = j

\* Inductive strengthening of UniqueNames and HandlesStable: the writer mutex
\* excludes, its holder works on the current map, ids are issued once, and an
\* allocated id that is not stored yet belongs to one thread only.
MutexInv == \A t \in Threads : pc[t] \in Holding <=> writer = t
CurrentInv == \A t \in Threads : pc[t] \in Holding => cur[t] = keys
Allocated(t) == pc[t] \in {"rg_lock", "rg_install"}
FreshInv ==
  /\ DOMAIN keys \subseteq DOMAIN issued
  /\ \A i \in DOMAIN issued : i < next_id
  /\ \A t \in Threads : Allocated(t) => id[t] < next_id /\ id[t] \notin DOMAIN issued
  /\ \A t, u \in Threads : Allocated(t) /\ Allocated(u) /\ id[t] = id[u] => t = u
RegistryInv == MutexInv /\ CurrentInv /\ FreshInv /\ UniqueNames

\* A handle is for life: the id of a key that was removed never denotes a key
\* again, not even after a rotate that overlapped the unregister, and an id keeps
\* its name.
HandlesStable ==
  [][/\ \A i \in DOMAIN keys' : i \in DOMAIN issued => i \in DOMAIN keys
     /\ \A i \in DOMAIN keys \cap DOMAIN keys' : keys'[i].name = keys[i].name]_vars

\* Points at which the thread's name and key are set.
NamedAt == Labels \ {"idle", "un_lock", "un_install", "ro_check", "wk_load"}
KeyedAt == Labels \ {"idle", "un_lock", "un_install", "un_audit", "wk_load"}
LocalsSet == \A t \in Threads : /\ pc[t] \in NamedAt => name[t] \in Names
                                /\ pc[t] \in KeyedAt => key[t] \in Keys

\* What RegistrySpec sees of a thread.
AbstractCall(t) ==
  CASE pc[t] = "idle" -> [op |-> "none"]
    [] pc[t] \in {"rg_check", "rg_fragment", "rg_lock", "rg_install", "rg_audit"} ->
         [op |-> "register", name |-> name[t], key |-> key[t]]
    [] pc[t] \in {"un_lock", "un_install", "un_audit"} -> [op |-> "unregister", id |-> id[t]]
    [] pc[t] \in {"ro_check", "ro_gate", "ro_lock", "ro_install", "ro_audit"} ->
         [op |-> "rotate", id |-> id[t], key |-> key[t]]
    [] OTHER -> [op |-> "read", id |-> id[t]]

AbstractOut(t) ==
  CASE pc[t] \in {"rg_audit", "un_audit", "ro_audit"} -> "ok"
    [] pc[t] \in {"wk_gate", "wk_audit"} -> key[t]
    [] OTHER -> "none"

Abstract == INSTANCE RegistrySpec WITH
  Ids <- 1 .. MaxCalls,
  call <- [t \in Threads |-> AbstractCall(t)],
  out <- [t \in Threads |-> AbstractOut(t)]

\* Every operation takes effect at one instant between its call and its return:
\* the swap under the writer lock for the operations that change the map, the
\* load of the snapshot for with_key and for the early errors.  In particular
\* with_key returns the old or the new key of a concurrent rotate, rotate returns
\* Ok only if its key was stored under the handle, and of two concurrent register
\* calls with one name exactly one succeeds.
Linearizable == Abstract!Spec

Count(kind, n) == Cardinality({i \in DOMAIN audit : audit[i].kind = kind /\ audit[i].name = n})
Due(label, n) == Cardinality({t \in Threads : pc[t] = label /\ name[t] = n})

\* Every change of the map has one audit event, received or due from the thread that
\* made it, although the events are emitted after the writer lock is released and
\* may arrive in another order: a name's registrations exceed its removals by one
\* if it is registered and by none if it is not.
AuditBalanced ==
  \A n \in Names :
    Count("Register", n) + Due("rg_audit", n) =
      Count("Unregister", n) + Due("un_audit", n) + (IF NameUsed(keys, n) THEN 1 ELSE 0)

\* Every call returns: the writer lock is released on every path.
EveryCallReturns == \A t \in Threads : pc[t] # "idle" ~> pc[t] = "idle"
=============================================================================
