-------------------------------- MODULE Cell --------------------------------
(***************************************************************************)
(* The no_std locking primitives: the spin lock Mutex and the registry cell  *)
(* ArcCell (src/src/sync.rs), and the id counter of KeyId on targets without *)
(* 64-bit atomics (src/src/handle.rs).                                     *)
(*                                                                         *)
(* Every access to an atomic and every access to what a lock protects is a   *)
(* step: reading the Arc and counting the clone are two, replacing it is two, *)
(* incrementing the counter is two.  compare_exchange_weak may fail for no    *)
(* reason.  An Arc is freed when its last reference goes.                    *)
(***************************************************************************)
EXTENDS Naturals, Sequences, FiniteSets

CONSTANTS
  Threads,
  Arcs,       \* the maps that are ever put in the cell
  First,      \* the one that from_pointee puts there
  None,
  IdMax,      \* u64::MAX
  MaxCalls    \* bound: calls made in a behaviour

ASSUME CellAssumption ==
  /\ IsFiniteSet(Threads) /\ IsFiniteSet(Arcs)
  /\ First \in Arcs /\ {None, "none", "load"} \cap Arcs = {}
  /\ IdMax \in Nat \ {0} /\ MaxCalls \in Nat

Locks == {"inner", "counter"}

VARIABLES
  locked,     \* Mutex::locked of the cell and of the id counter
  inner,      \* the Arc in the cell
  counter,    \* COUNTER
  strong,     \* reference count of each Arc, 0 before it is made and after it is freed
  made,       \* Arcs that were made
  pc, op,     \* position of each thread and the call it is in
  arc,        \* the Arc the thread read, or holds
  new,        \* what swap installs
  raw,        \* what next_raw read
  ids,        \* the ids that KeyId::next returned, in order
  calls,      \* calls made so far
  atomic64    \* the build's target has 64-bit atomics

cell == <<inner, strong, made>>
locals == <<arc, new>>
vars == <<locked, cell, counter, pc, op, locals, raw, ids, calls, atomic64>>

Init ==
  /\ locked = [l \in Locks |-> FALSE]
  /\ inner = First
  /\ counter = 1
  /\ strong = [a \in Arcs |-> IF a = First THEN 1 ELSE 0]
  /\ made = {First}
  /\ pc = [t \in Threads |-> "idle"]
  /\ op = [t \in Threads |-> "none"]
  /\ arc = [t \in Threads |-> None]
  /\ new = [t \in Threads |-> None]
  /\ raw = [t \in Threads |-> 0]
  /\ ids = <<>>
  /\ calls = 0
  /\ atomic64 \in BOOLEAN

Goto(t, point) == pc' = [pc EXCEPT ![t] = point]

LockOf(t) == IF op[t] = "next" THEN "counter" ELSE "inner"

\* The first access inside the critical section of a call.
Inside == [load |-> "read", swap |-> "read", next |-> "get"]

-----------------------------------------------------------------------------
(* Mutex::lock and the drop of SpinGuard.                                  *)

\* compare_exchange_weak(false, true) succeeds ...
TryLock(t) ==
  /\ pc[t] = "try"
  /\ ~locked[LockOf(t)]
  /\ locked' = [locked EXCEPT ![LockOf(t)] = TRUE]
  /\ Goto(t, Inside[op[t]])
  /\ UNCHANGED <<cell, counter, op, locals, raw, ids, calls, atomic64>>

\* ... or fails, because the lock is taken or spuriously.
TryFails(t) ==
  /\ pc[t] = "try"
  /\ Goto(t, "spin")
  /\ UNCHANGED <<locked, cell, counter, op, locals, raw, ids, calls, atomic64>>

\* A lock that is seen free is entered without another exchange.
Spin_Enters(t) ==
  /\ pc[t] = "spin"
  /\ ~locked[LockOf(t)]
  /\ Goto(t, Inside[op[t]])
  /\ UNCHANGED <<locked, cell, counter, op, locals, raw, ids, calls, atomic64>>

\* The inner loop goes on until a load sees the lock free.
Spin(t) ==
  /\ pc[t] = "spin"
  /\ ~locked[LockOf(t)]
  /\ Goto(t, "try")
  /\ UNCHANGED <<locked, cell, counter, op, locals, raw, ids, calls, atomic64>>

\* The guard is forgotten.
Unlock_Leaks(t) ==
  /\ pc[t] = "unlock"
  /\ Goto(t, IF op[t] = "next" THEN "idle" ELSE "holding")
  /\ UNCHANGED <<locked, cell, counter, op, locals, raw, ids, calls, atomic64>>

\* locked.store(false): the call returns, with an Arc unless it was next_raw.
Unlock(t) ==
  /\ pc[t] = "unlock"
  /\ locked' = [locked EXCEPT ![LockOf(t)] = FALSE]
  /\ Goto(t, IF op[t] = "next" THEN "idle" ELSE "holding")
  /\ UNCHANGED <<cell, counter, op, locals, raw, ids, calls, atomic64>>

-----------------------------------------------------------------------------
(* ArcCell.                                                                *)

Begin(t, o) ==
  /\ pc[t] = "idle" /\ calls < MaxCalls
  /\ calls' = calls + 1
  /\ op' = [op EXCEPT ![t] = o]
  /\ Goto(t, "try")
  /\ UNCHANGED <<locked, inner, counter, raw, ids, atomic64>>

\* load (and load_full, which calls it).
Load(t) == Begin(t, "load") /\ UNCHANGED <<strong, made, arc, new>>

\* swap(Arc::new(..)).
Swap(t, a) ==
  /\ a \notin made
  /\ Begin(t, "swap")
  /\ made' = made \cup {a}
  /\ strong' = [strong EXCEPT ![a] = 1]
  /\ new' = [new EXCEPT ![t] = a]
  /\ UNCHANGED arc

\* load gives the lock back before it clones the Arc it read.
Read_Unlocks(t) ==
  /\ pc[t] = "read"
  /\ arc' = [arc EXCEPT ![t] = inner]
  /\ locked' = [locked EXCEPT !["inner"] = op[t] # "load"]
  /\ Goto(t, IF op[t] = "load" THEN "clone" ELSE "replace")
  /\ UNCHANGED <<cell, counter, op, new, raw, ids, calls, atomic64>>

\* The guard is dereferenced.
Read(t) ==
  /\ pc[t] = "read"
  /\ arc' = [arc EXCEPT ![t] = inner]
  /\ Goto(t, IF op[t] = "load" THEN "clone" ELSE "replace")
  /\ UNCHANGED <<locked, cell, counter, op, new, raw, ids, calls, atomic64>>

\* Arc::clone increments the count, the guard still held.
Clone(t) ==
  /\ pc[t] = "clone"
  /\ strong' = [strong EXCEPT ![arc[t]] = @ + 1]
  /\ Goto(t, "unlock")
  /\ UNCHANGED <<locked, inner, made, counter, op, locals, raw, ids, calls, atomic64>>

\* core::mem::replace: the reference moves in, the old one moves out.
Replace(t) ==
  /\ pc[t] = "replace"
  /\ inner' = new[t]
  /\ new' = [new EXCEPT ![t] = None]
  /\ Goto(t, "unlock")
  /\ UNCHANGED <<locked, strong, made, counter, op, arc, raw, ids, calls, atomic64>>

\* The caller drops the Arc it was given; the last reference frees it.
DropArc(t) ==
  /\ pc[t] = "holding"
  /\ strong' = [strong EXCEPT ![arc[t]] = @ - 1]
  /\ arc' = [arc EXCEPT ![t] = None]
  /\ op' = [op EXCEPT ![t] = "none"]
  /\ Goto(t, "idle")
  /\ UNCHANGED <<locked, inner, made, counter, new, raw, ids, calls, atomic64>>

-----------------------------------------------------------------------------
(* KeyId::next, with the counter behind a Mutex or a 64-bit atomic.        *)

NextId(t) ==
  /\ ~atomic64
  /\ Begin(t, "next") /\ UNCHANGED <<strong, made, arc, new>>

GetCounter(t) ==
  /\ pc[t] = "get"
  /\ raw' = [raw EXCEPT ![t] = counter]
  /\ Goto(t, "add")
  /\ UNCHANGED <<locked, cell, counter, op, locals, ids, calls, atomic64>>

\* A wrapped 0 is handed out.
NonZero_Plain(n) == n

\* A wrapped 0 is mapped to 1.
NonZero(n) == IF n = 0 THEN 1 ELSE n

\* COUNTER.fetch_add(1), where the target has the instruction.
FetchAdd(t) ==
  /\ atomic64
  /\ pc[t] = "idle" /\ calls < MaxCalls
  /\ calls' = calls + 1
  /\ counter' = (counter + 1) % (IdMax + 1)
  /\ ids' = Append(ids, NonZero(counter))
  /\ UNCHANGED <<locked, cell, pc, op, locals, raw, atomic64>>

\* wrapping_add(1); next() maps the value that was read.
AddCounter(t) ==
  /\ pc[t] = "add"
  /\ counter' = (raw[t] + 1) % (IdMax + 1)
  /\ ids' = Append(ids, NonZero(raw[t]))
  /\ raw' = [raw EXCEPT ![t] = 0]
  /\ Goto(t, "unlock")
  /\ UNCHANGED <<locked, cell, op, locals, calls, atomic64>>

-----------------------------------------------------------------------------
Call(t) == Load(t) \/ NextId(t) \/ FetchAdd(t) \/ \E a \in Arcs : Swap(t, a)

Step(t) ==
  \/ TryLock(t) \/ TryFails(t) \/ Spin(t) \/ Unlock(t)
  \/ Read(t) \/ Clone(t) \/ Replace(t) \/ DropArc(t)
  \/ GetCounter(t) \/ AddCounter(t)

\* Nobody calls any more.
Rest == (\A t \in Threads : pc[t] = "idle") /\ UNCHANGED vars

Next == Rest \/ \E t \in Threads : Call(t) \/ Step(t)

Spec == Init /\ [][Next]_vars

\* A thread inside a call keeps running, and compare_exchange_weak does not fail for
\* ever on a lock that is free again and again.
FairSpec == Spec /\ \A t \in Threads : WF_vars(Step(t)) /\ SF_vars(TryLock(t))

-----------------------------------------------------------------------------
(* Properties.                                                             *)

Points == {"idle", "try", "spin", "read", "clone", "replace", "get", "add", "unlock", "holding"}

\* Type invariant.
TypeOK ==
  /\ locked \in [Locks -> BOOLEAN]
  /\ inner \in Arcs /\ made \subseteq Arcs
  /\ strong \in [Arcs -> Nat]
  /\ counter \in 0 .. IdMax
  /\ pc \in [Threads -> Points]
  /\ op \in [Threads -> {"none", "load", "swap", "next"}]
  /\ arc \in [Threads -> Arcs \cup {None}]
  /\ new \in [Threads -> Arcs \cup {None}]
  /\ raw \in [Threads -> 0 .. IdMax]
  /\ ids \in Seq(0 .. IdMax)
  /\ calls \in Nat /\ atomic64 \in BOOLEAN

\* The references a thread owns: what swap was given or took out, what load cloned.
Owns(t, a) ==
  \/ new[t] = a
  \/ arc[t] = a /\ (pc[t] = "holding" \/ (pc[t] = "unlock" /\ op[t] # "next"))

Owners(a) == {t \in Threads : Owns(t, a)}

\* Every map is freed exactly when nothing refers to it: its count is the number of
\* threads that own a reference, plus one while it is in the cell.  A reader that has
\* read the Arc but not yet counted its clone never finds it freed by a swap.
CountsExact ==
  /\ TypeOK
  /\ \A a \in Arcs :
       strong[a] = Cardinality(Owners(a)) + (IF inner = a THEN 1 ELSE 0)
  /\ \A t \in Threads : arc[t] # None => strong[arc[t]] > 0

\* "unique within the lifetime of a process": the ids handed out are distinct until
\* the counter has gone round once, and none is 0 even after that.
IdsUnique ==
  /\ \A i \in DOMAIN ids : ids[i] # 0
  /\ \A i, j \in DOMAIN ids : i < j /\ j <= IdMax => ids[i] # ids[j]

\* What CellSpec sees of a thread.
AbstractCall(t) ==
  IF op[t] \notin {"load", "swap"} \/ pc[t] \in {"idle", "holding"} THEN "none"
  ELSE IF op[t] = "load" THEN "load"
  ELSE IF pc[t] = "unlock" THEN inner ELSE new[t]

AbstractOut(t) ==
  IF \/ pc[t] = "clone"
     \/ pc[t] = "unlock" /\ op[t] # "next"
  THEN arc[t] ELSE None

Abstract == INSTANCE CellSpec WITH
  value <- inner,
  call <- [t \in Threads |-> AbstractCall(t)],
  out <- [t \in Threads |-> AbstractOut(t)]

\* The spin-locked cell is the atomic cell that the registry is written for: a load
\* returns the map of one instant during the call, and swap returns exactly the map
\* it replaced.
AtomicCell == Abstract!Spec

\* Every call returns: the lock is released on every path and a waiting thread gets
\* it once there are no more calls in its way.
EveryCallReturns == \A t \in Threads : pc[t] # "idle" ~> pc[t] = "idle"
=============================================================================
