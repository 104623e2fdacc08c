----------------------------- MODULE Cell_proofs -----------------------------
(***************************************************************************)
(* Proofs about Cell, for every set of threads and of maps and every width   *)
(* of the id counter.                                                       *)
(***************************************************************************)
EXTENDS Cell, TLAPS, FiniteSetTheorems

Critical == {"read", "clone", "replace", "get", "add", "unlock"}

\* Which call a thread is in at a point, and which of its locals are set there.
LocalInv ==
  \A t \in Threads :
    /\ pc[t] \in {"read", "clone", "replace", "holding"} => op[t] \in {"load", "swap"}
    /\ pc[t] = "clone" => op[t] = "load"
    /\ pc[t] = "replace" => op[t] = "swap"
    /\ pc[t] \in {"get", "add"} => op[t] = "next"
    /\ pc[t] \in {"try", "spin", "unlock"} => op[t] # "none"
    /\ new[t] # None <=> op[t] = "swap" /\ pc[t] \in {"try", "spin", "read", "replace"}
    /\ arc[t] # None <=> \/ pc[t] \in {"clone", "replace", "holding"}
                         \/ pc[t] = "unlock" /\ op[t] # "next"

\* The lock is taken while somebody is inside, nobody else is inside then, and what
\* was read under it is still current.
MutexInv ==
  \A t \in Threads :
    /\ pc[t] \in Critical => locked[LockOf(t)]
    /\ \A u \in Threads :
         pc[t] \in Critical /\ pc[u] \in Critical /\ LockOf(t) = LockOf(u) => t = u
    /\ pc[t] \in {"clone", "replace"} => arc[t] = inner

\* Everything in use was made.
MadeInv ==
  /\ inner \in made
  /\ \A t \in Threads : new[t] \in made \cup {None} /\ arc[t] \in made \cup {None}

In(a) == IF inner = a THEN 1 ELSE 0

\* The reference counts.
CountInv == \A a \in Arcs : strong[a] = Cardinality(Owners(a)) + In(a)

IInv == TypeOK /\ LocalInv /\ MutexInv /\ MadeInv /\ CountInv

-----------------------------------------------------------------------------
(* The invariant holds at first.                                           *)

LEMMA InitInv == Init => IInv
  <1> SUFFICES ASSUME Init PROVE IInv
    BY Zenon
  <1>1. TypeOK
    BY CellAssumption DEF Init, TypeOK, Points, Locks
  <1>2. LocalInv /\ MutexInv /\ MadeInv
    BY CellAssumption, Zenon DEF Init, LocalInv, MutexInv, MadeInv, Critical
  <1>3. ASSUME NEW a \in Arcs PROVE strong[a] = Cardinality(Owners(a)) + In(a)
    <2>1. Owners(a) = {}
      BY CellAssumption, Zenon DEF Init, Owners, Owns
    <2> QED  BY <2>1, FS_EmptySet DEF Init, In
  <1> QED  BY <1>1, <1>2, <1>3, Zenon DEF IInv, CountInv

-----------------------------------------------------------------------------
(* Types, locals and the lock.                                             *)

LEMMA OwnersFinite ==
  ASSUME NEW a \in Arcs
  PROVE  IsFiniteSet(Owners(a)) /\ Cardinality(Owners(a)) \in Nat
  BY CellAssumption, FS_Subset, FS_CardinalityType, Zenon DEF Owners

\* A reference that a thread owns is counted.
LEMMA OwnedCounted ==
  ASSUME CountInv, NEW t \in Threads, NEW a \in Arcs, Owns(t, a)
  PROVE  strong[a] > 0
  <1>1. Owners(a) # {}
    BY Zenon DEF Owners
  <1>2. Cardinality(Owners(a)) # 0
    BY <1>1, OwnersFinite, FS_EmptySet, Zenon
  <1> QED  BY <1>2, OwnersFinite DEF CountInv, In

\* The part of TypeOK that is about truth values.
BoolOK == locked \in [Locks -> BOOLEAN] /\ atomic64 \in BOOLEAN

\* The part of TypeOK that is about the cell and the calls.
RefsOK ==
  /\ inner \in Arcs /\ made \subseteq Arcs
  /\ strong \in [Arcs -> Nat]
  /\ pc \in [Threads -> Points]
  /\ op \in [Threads -> {"none", "load", "swap", "next"}]
  /\ arc \in [Threads -> Arcs \cup {None}]
  /\ new \in [Threads -> Arcs \cup {None}]
  /\ calls \in Nat

\* The part of TypeOK that is about the ids.
IdsOK ==
  /\ counter \in 0 .. IdMax
  /\ raw \in [Threads -> 0 .. IdMax]
  /\ ids \in Seq(0 .. IdMax)

LEMMA TypeParts == TypeOK <=> BoolOK /\ RefsOK /\ IdsOK
  BY Zenon DEF TypeOK, BoolOK, RefsOK, IdsOK

LEMMA BoolStep == IInv /\ [Next]_vars => BoolOK'
  <1> SUFFICES ASSUME IInv, [Next]_vars PROVE BoolOK'
    BY Zenon
  <1>1. BoolOK
    BY TypeParts, Zenon DEF IInv
  <1>2. CASE UNCHANGED <<locked, atomic64>>
    BY <1>1, <1>2, Zenon DEF BoolOK
  <1>3. ASSUME NEW t \in Threads, TryLock(t) \/ Unlock(t) PROVE BoolOK'
    BY <1>1, <1>3, Zenon DEF BoolOK, TryLock, Unlock, LockOf, Locks
  <1>4. ASSUME NEW t \in Threads, Call(t) \/ Step(t), ~TryLock(t), ~Unlock(t)
        PROVE  UNCHANGED <<locked, atomic64>>
    BY <1>4, Zenon DEF Call, Step, Load, NextId, FetchAdd, Swap, Begin, TryFails, Spin, Read, Clone,
                Replace, DropArc, GetCounter, AddCounter
  <1> QED  BY <1>2, <1>3, <1>4, Zenon DEF Next, Rest, vars

LEMMA IdsStep == IInv /\ [Next]_vars => IdsOK'
  <1> SUFFICES ASSUME IInv, [Next]_vars PROVE IdsOK'
    BY Zenon
  <1>1. IdsOK
    BY TypeParts, Zenon DEF IInv
  <1>2. CASE UNCHANGED <<counter, raw, ids>>
    BY <1>1, <1>2, Zenon DEF IdsOK
  <1>3. ASSUME NEW t \in Threads, GetCounter(t) PROVE IdsOK'
    BY <1>1, <1>3, Zenon DEF IdsOK, GetCounter
  <1>4. ASSUME NEW t \in Threads, AddCounter(t) \/ FetchAdd(t) PROVE IdsOK'
    <2>1. \A n \in Nat : (n + 1) % (IdMax + 1) \in 0 .. IdMax
      BY CellAssumption
    <2>2. counter' \in 0 .. IdMax
      BY <1>1, <1>4, <2>1 DEF IdsOK, AddCounter, FetchAdd
    <2>3. \A n \in 0 .. IdMax : NonZero(n) \in 0 .. IdMax
      BY CellAssumption DEF NonZero
    <2>4. PICK n \in 0 .. IdMax : ids' = Append(ids, NonZero(n))
      BY <1>1, <1>4, Zenon DEF IdsOK, AddCounter, FetchAdd
    <2>5. ids' \in Seq(0 .. IdMax)
      BY <1>1, <2>3, <2>4 DEF IdsOK
    <2>6. raw' = raw \/ raw' = [raw EXCEPT ![t] = 0]
      BY <1>4, Zenon DEF AddCounter, FetchAdd
    <2>7. raw' \in [Threads -> 0 .. IdMax]
      BY <1>1, <2>6, CellAssumption DEF IdsOK
    <2> QED  BY <2>2, <2>5, <2>7, Zenon DEF IdsOK
  <1>5. ASSUME NEW t \in Threads, Call(t) \/ Step(t), ~GetCounter(t), ~AddCounter(t), ~FetchAdd(t)
        PROVE  UNCHANGED <<counter, raw, ids>>
    BY <1>5, Zenon DEF Call, Step, Load, NextId, Swap, Begin, TryLock, Unlock, TryFails, Spin, Read, Clone,
                Replace, DropArc
  <1> QED  BY <1>2, <1>3, <1>4, <1>5, Zenon DEF Next, Rest, vars

LEMMA RefsStep == IInv /\ [Next]_vars => RefsOK'
  <1> SUFFICES ASSUME IInv, [Next]_vars PROVE RefsOK'
    BY Zenon
  <1>1. RefsOK /\ LocalInv /\ CountInv
    BY TypeParts, Zenon DEF IInv
  <1> USE <1>1 DEF RefsOK, Points
  <1>2. CASE UNCHANGED vars \/ Rest
    BY <1>2, Zenon DEF Rest, vars, cell, locals
  <1>3. ASSUME NEW t \in Threads, Load(t) \/ NextId(t) PROVE RefsOK'
    BY <1>3 DEF Load, NextId, Begin, Goto
  <1>4. ASSUME NEW t \in Threads, NEW a \in Arcs, Swap(t, a) PROVE RefsOK'
    BY <1>4 DEF Swap, Begin, Goto
  <1>5. ASSUME NEW t \in Threads, TryLock(t) \/ TryFails(t) \/ Spin(t) \/ Unlock(t) PROVE RefsOK'
    BY <1>5 DEF TryLock, TryFails, Spin, Unlock, Goto, Inside, cell, locals, LocalInv
  <1>6. ASSUME NEW t \in Threads, Read(t) \/ Replace(t) PROVE RefsOK'
    BY <1>6, CellAssumption DEF Read, Replace, Goto, cell, LocalInv
  <1>7. ASSUME NEW t \in Threads, Clone(t) PROVE RefsOK'
    <2>1. arc[t] \in Arcs
      BY <1>7, Zenon DEF Clone, LocalInv
    <2> QED  BY <1>7, <2>1 DEF Clone, Goto, locals
  <1>8. ASSUME NEW t \in Threads, DropArc(t) PROVE RefsOK'
    <2>1. arc[t] \in Arcs /\ strong[arc[t]] > 0
      BY <1>8, OwnedCounted, Zenon DEF DropArc, LocalInv, Owns
    <2> QED  BY <1>8, <2>1 DEF DropArc, Goto
  <1>9. ASSUME NEW t \in Threads, GetCounter(t) \/ AddCounter(t) \/ FetchAdd(t) PROVE RefsOK'
    <2>1. /\ UNCHANGED <<cell, op, locals>>
          /\ pc' = pc \/ \E to \in {"add", "unlock"} : Goto(t, to)
          /\ calls' = calls \/ calls' = calls + 1
      BY <1>9, Zenon DEF GetCounter, AddCounter, FetchAdd
    <2> QED  BY <2>1 DEF cell, locals, Goto
  <1> QED  BY <1>2, <1>3, <1>4, <1>5, <1>6, <1>7, <1>8, <1>9, Zenon DEF Next, Call, Step

LEMMA TypeStep == IInv /\ [Next]_vars => TypeOK'
  BY BoolStep, IdsStep, RefsStep, Zenon DEF TypeOK, BoolOK, RefsOK, IdsOK

\* What the steps of the id counter leave alone, and where they lead.
LEMMA IdFrame ==
  ASSUME NEW t \in Threads, GetCounter(t) \/ AddCounter(t) \/ FetchAdd(t)
  PROVE  /\ UNCHANGED <<locked, cell, op, locals>>
         /\ \/ pc' = pc
            \/ pc[t] = "get" /\ Goto(t, "add")
            \/ pc[t] = "add" /\ Goto(t, "unlock")
  BY Zenon DEF GetCounter, AddCounter, FetchAdd

LEMMA LocalStep == IInv /\ [Next]_vars => LocalInv'
  <1> SUFFICES ASSUME IInv, [Next]_vars PROVE LocalInv'
    BY Zenon
  <1>1. RefsOK /\ LocalInv
    BY TypeParts, Zenon DEF IInv
  <1> USE <1>1 DEF RefsOK, Points, LocalInv
  <1>2. CASE UNCHANGED vars \/ Rest
    BY <1>2 DEF Rest, vars, cell, locals
  <1>3. ASSUME NEW t \in Threads, Load(t) \/ NextId(t) PROVE LocalInv'
    BY <1>3 DEF Load, NextId, Begin, Goto
  <1>4. ASSUME NEW t \in Threads, NEW a \in Arcs, Swap(t, a) PROVE LocalInv'
    BY <1>4, CellAssumption DEF Swap, Begin, Goto
  <1>5. ASSUME NEW t \in Threads, TryLock(t) \/ TryFails(t) \/ Spin(t) \/ Unlock(t) PROVE LocalInv'
    BY <1>5 DEF TryLock, TryFails, Spin, Unlock, Goto, Inside, cell, locals
  <1>6. ASSUME NEW t \in Threads, Read(t) PROVE LocalInv'
    BY <1>6, CellAssumption DEF Read, Goto, cell
  <1>7. ASSUME NEW t \in Threads, Clone(t) \/ Replace(t) PROVE LocalInv'
    BY <1>7 DEF Clone, Replace, Goto, locals
  <1>8. ASSUME NEW t \in Threads, DropArc(t) PROVE LocalInv'
    BY <1>8 DEF DropArc, Goto
  <1>9. ASSUME NEW t \in Threads, GetCounter(t) \/ AddCounter(t) \/ FetchAdd(t) PROVE LocalInv'
    BY <1>9, IdFrame DEF Goto, cell, locals
  <1> QED  BY <1>2, <1>3, <1>4, <1>5, <1>6, <1>7, <1>8, <1>9, Zenon DEF Next, Call, Step

LEMMA MutexStep == IInv /\ [Next]_vars => MutexInv'
  <1> SUFFICES ASSUME IInv, [Next]_vars PROVE MutexInv'
    BY Zenon
  <1>1. BoolOK /\ RefsOK /\ LocalInv /\ MutexInv
    BY TypeParts, Zenon DEF IInv
  <1> USE <1>1 DEF RefsOK, Points, LocalInv, MutexInv, Critical, LockOf
  <1>2. CASE UNCHANGED vars \/ Rest
    BY <1>2 DEF Rest, vars, cell, locals
  <1>3. ASSUME NEW t \in Threads, Load(t) \/ NextId(t) \/ \E a \in Arcs : Swap(t, a) PROVE MutexInv'
    BY <1>3 DEF Load, NextId, Swap, Begin, Goto
  <1>4. ASSUME NEW t \in Threads, TryLock(t) PROVE MutexInv'
    BY <1>4 DEF TryLock, Goto, Inside, cell, locals, BoolOK, Locks
  <1>5. ASSUME NEW t \in Threads, TryFails(t) \/ Spin(t) PROVE MutexInv'
    BY <1>5 DEF TryFails, Spin, Goto, cell, locals
  <1>6. ASSUME NEW t \in Threads, Unlock(t) PROVE MutexInv'
    BY <1>6 DEF Unlock, Goto, cell, locals, BoolOK, Locks
  <1>7. ASSUME NEW t \in Threads, Read(t) \/ Clone(t) PROVE MutexInv'
    BY <1>7 DEF Read, Clone, Goto, cell, locals
  <1>8. ASSUME NEW t \in Threads, Replace(t) PROVE MutexInv'
    BY <1>8 DEF Replace, Goto
  <1>9. ASSUME NEW t \in Threads, DropArc(t) PROVE MutexInv'
    BY <1>9 DEF DropArc, Goto
  <1>10. ASSUME NEW t \in Threads, GetCounter(t) \/ AddCounter(t) \/ FetchAdd(t) PROVE MutexInv'
    BY <1>10, IdFrame DEF Goto, cell, locals
  <1> QED  BY <1>2, <1>3, <1>4, <1>5, <1>6, <1>7, <1>8, <1>9, <1>10, Zenon DEF Next, Call, Step

LEMMA MadeStep == IInv /\ [Next]_vars => MadeInv'
  <1> SUFFICES ASSUME IInv, [Next]_vars PROVE MadeInv'
    BY Zenon
  <1>1. RefsOK /\ LocalInv /\ MadeInv
    BY TypeParts, Zenon DEF IInv
  <1> USE <1>1 DEF RefsOK, MadeInv
  <1>2. CASE UNCHANGED <<cell, locals>>
    BY <1>2, Zenon DEF cell, locals
  <1>3. ASSUME NEW t \in Threads, NEW a \in Arcs, Swap(t, a) PROVE MadeInv'
    BY <1>3, Zenon DEF Swap, Begin
  <1>4. ASSUME NEW t \in Threads, Read(t) PROVE MadeInv'
    BY <1>4, Zenon DEF Read, cell
  <1>5. ASSUME NEW t \in Threads, Clone(t) \/ DropArc(t) PROVE MadeInv'
    BY <1>5, Zenon DEF Clone, DropArc, locals
  <1>6. ASSUME NEW t \in Threads, Replace(t) PROVE MadeInv'
    BY <1>6, Zenon DEF Replace, LocalInv
  <1>7. ASSUME NEW t \in Threads,
               Load(t) \/ NextId(t) \/ TryLock(t) \/ TryFails(t) \/ Spin(t) \/ Unlock(t)
        PROVE  UNCHANGED <<cell, locals>>
    BY <1>7, Zenon DEF Load, NextId, Begin, TryLock, TryFails, Spin, Unlock, cell, locals
  <1> QED  BY <1>2, <1>3, <1>4, <1>5, <1>6, <1>7, IdFrame, Zenon DEF Next, Call, Step, Rest, vars

-----------------------------------------------------------------------------
(* The reference counts.  A step adds an owner of an Arc, removes one, or     *)
(* leaves the owners as they are.                                           *)

LEMMA OwnerSame ==
  ASSUME CountInv, NEW a \in Arcs,
         strong'[a] = strong[a], Owners(a)' = Owners(a), In(a)' = In(a)
  PROVE  strong'[a] = Cardinality(Owners(a)') + In(a)'
  BY Zenon DEF CountInv

LEMMA OwnerAdded ==
  ASSUME CountInv, NEW a \in Arcs, NEW t, t \notin Owners(a), Owners(a)' = Owners(a) \cup {t},
         strong'[a] = strong[a] + 1 + In(a)' - In(a)
  PROVE  strong'[a] = Cardinality(Owners(a)') + In(a)'
  <1>1. Cardinality(Owners(a)') = Cardinality(Owners(a)) + 1
    BY OwnersFinite, FS_AddElement, Zenon
  <1> QED  BY <1>1, OwnersFinite DEF CountInv, In

LEMMA OwnerRemoved ==
  ASSUME CountInv, NEW a \in Arcs, NEW t, t \in Owners(a), Owners(a)' = Owners(a) \ {t},
         strong'[a] = strong[a] - 1 + In(a)' - In(a)
  PROVE  strong'[a] = Cardinality(Owners(a)') + In(a)'
  <1>1. Cardinality(Owners(a)') = Cardinality(Owners(a)) - 1
    BY OwnersFinite, FS_RemoveElement, Zenon
  <1> QED  BY <1>1, OwnersFinite DEF CountInv, In

LEMMA CountStep == IInv /\ [Next]_vars => CountInv'
  <1> SUFFICES ASSUME IInv, [Next]_vars, NEW a \in Arcs
               PROVE  strong'[a] = Cardinality(Owners(a)') + In(a)'
    BY Zenon DEF CountInv
  <1> DEFINE Goal == strong'[a] = Cardinality(Owners(a)') + In(a)'
  <1>1. RefsOK /\ LocalInv /\ MutexInv /\ MadeInv /\ CountInv
    BY TypeParts, Zenon DEF IInv
  <1>2. strong[a] \in Nat /\ In(a) \in Nat
    BY <1>1, Zenon DEF RefsOK, In
  <1>3. CASE UNCHANGED <<pc, op, cell, locals>>
    BY <1>1, <1>3, OwnerSame, Zenon DEF cell, locals, Owners, Owns, In
  <1>4. ASSUME NEW t \in Threads, Load(t) \/ NextId(t) PROVE Goal
    <2>1. Owners(a)' = Owners(a)
      BY <1>1, <1>4, Zenon DEF RefsOK, Load, NextId, Begin, Goto, Owners, Owns
    <2> QED  BY <1>1, <1>4, <2>1, OwnerSame, Zenon DEF Load, NextId, Begin, In
  <1>5. ASSUME NEW t \in Threads, NEW b \in Arcs, Swap(t, b) PROVE Goal
    <2>1. CASE a = b
      <3>1. Owners(a) = {} /\ In(a) = 0
        BY <1>1, <1>5, <2>1, CellAssumption DEF RefsOK, MadeInv, Swap, Owners, Owns, In
      <3>2. Owners(a)' = {t} /\ In(a)' = 0 /\ strong'[a] = 1
        BY <1>1, <1>5, <2>1, CellAssumption
        DEF RefsOK, MadeInv, LocalInv, Swap, Begin, Goto, Owners, Owns, In
      <3>3. Cardinality({t}) = 1
        BY FS_Singleton, Zenon
      <3> QED  BY <3>2, <3>3
    <2>2. CASE a # b
      <3>1. Owners(a)' = Owners(a)
        BY <1>1, <1>5, <2>2, CellAssumption, Zenon DEF RefsOK, LocalInv, Swap, Begin, Goto, Owners, Owns
      <3> QED  BY <1>1, <1>5, <2>2, <3>1, OwnerSame, Zenon DEF RefsOK, Swap, Begin, In
    <2> QED  BY <2>1, <2>2, Zenon
  <1>6. ASSUME NEW t \in Threads, TryLock(t) \/ TryFails(t) \/ Spin(t) \/ Unlock(t) PROVE Goal
    <2>1. Owners(a)' = Owners(a)
      BY <1>1, <1>6 DEF RefsOK, LocalInv, TryLock, TryFails, Spin, Unlock, Goto, Inside, locals,
                        Owners, Owns
    <2>2. UNCHANGED <<inner, strong>>
      BY <1>6, Zenon DEF TryLock, TryFails, Spin, Unlock, cell
    <2> QED  BY <1>1, <2>1, <2>2, OwnerSame, Zenon DEF In
  <1>7. ASSUME NEW t \in Threads, Read(t) PROVE Goal
    <2>1. Owners(a)' = Owners(a)
      BY <1>1, <1>7, CellAssumption, Zenon DEF RefsOK, LocalInv, Read, Goto, Owners, Owns
    <2> QED  BY <1>1, <1>7, <2>1, OwnerSame, Zenon DEF Read, cell, In
  <1>8. ASSUME NEW t \in Threads, Clone(t) PROVE Goal
    <2>1. arc[t] \in Arcs /\ new[t] = None
      BY <1>1, <1>8, Zenon DEF RefsOK, LocalInv, Clone
    <2>2. In(a)' = In(a)
      BY <1>8, Zenon DEF Clone, In
    <2>3. CASE a = arc[t]
      <3>1. t \notin Owners(a) /\ Owners(a)' = Owners(a) \cup {t}
        BY <1>1, <1>8, <2>1, <2>3, CellAssumption DEF RefsOK, LocalInv, Clone, Goto, locals, Owners, Owns
      <3>2. strong'[a] = strong[a] + 1
        BY <1>1, <1>8, <2>1, <2>3, Zenon DEF RefsOK, Clone
      <3>3. strong'[a] = strong[a] + 1 + In(a)' - In(a)
        BY <1>2, <2>2, <3>2
      <3> QED  BY <1>1, <3>1, <3>3, OwnerAdded, Zenon
    <2>4. CASE a # arc[t]
      <3>1. Owners(a)' = Owners(a)
        BY <1>1, <1>8, <2>1, <2>4, Zenon DEF RefsOK, Clone, Goto, locals, Owners, Owns
      <3> QED  BY <1>1, <1>8, <2>1, <2>2, <2>4, <3>1, OwnerSame, Zenon DEF RefsOK, Clone
    <2> QED  BY <2>3, <2>4, Zenon
  <1>9. ASSUME NEW t \in Threads, Replace(t) PROVE Goal
    <2>1. /\ arc[t] = inner /\ new[t] \in Arcs /\ inner \in Arcs /\ None \notin Arcs
          /\ op[t] = "swap" /\ inner' = new[t] /\ strong' = strong
      BY <1>1, <1>9, CellAssumption, Zenon DEF RefsOK, LocalInv, MutexInv, Replace
    <2>2. \A u \in Threads \ {t} : Owns(u, a)' <=> Owns(u, a)
      BY <1>1, <1>9, Zenon DEF RefsOK, Replace, Goto, Owns
    <2>3. (Owns(t, a) <=> a = new[t]) /\ (Owns(t, a)' <=> a = inner)
      BY <1>1, <1>9, <2>1, Zenon DEF RefsOK, Replace, Goto, Owns
    <2>4. CASE a # new[t] /\ a # inner
      BY <1>1, <2>1, <2>2, <2>3, <2>4, OwnerSame, Zenon DEF Owners, In
    <2>5. CASE a = new[t] /\ a = inner
      BY <1>1, <2>1, <2>2, <2>3, <2>5, OwnerSame, Zenon DEF Owners, In
    <2>6. CASE a = new[t] /\ a # inner
      <3>1. t \in Owners(a) /\ Owners(a)' = Owners(a) \ {t}
        BY <2>2, <2>3, <2>6, Zenon DEF Owners
      <3>2. strong'[a] = strong[a] - 1 + In(a)' - In(a)
        BY <1>2, <2>1, <2>6 DEF In
      <3> QED  BY <1>1, <3>1, <3>2, OwnerRemoved, Zenon
    <2>7. CASE a # new[t] /\ a = inner
      <3>1. t \notin Owners(a) /\ Owners(a)' = Owners(a) \cup {t}
        BY <2>2, <2>3, <2>7, Zenon DEF Owners
      <3>2. strong'[a] = strong[a] + 1 + In(a)' - In(a)
        BY <1>2, <2>1, <2>7 DEF In
      <3> QED  BY <1>1, <3>1, <3>2, OwnerAdded, Zenon
    <2> QED  BY <2>4, <2>5, <2>6, <2>7, Zenon
  <1>10. ASSUME NEW t \in Threads, DropArc(t) PROVE Goal
    <2>1. arc[t] \in Arcs /\ new[t] = None /\ None \notin Arcs
      BY <1>1, <1>10, CellAssumption, Zenon DEF RefsOK, LocalInv, DropArc
    <2>2. In(a)' = In(a)
      BY <1>10, Zenon DEF DropArc, In
    <2>3. CASE a = arc[t]
      <3>1. t \in Owners(a) /\ Owners(a)' = Owners(a) \ {t}
        BY <1>1, <1>10, <2>1, <2>3, Zenon DEF RefsOK, DropArc, Goto, Owners, Owns
      <3>2. strong'[a] = strong[a] - 1
        BY <1>1, <1>10, <2>1, <2>3, Zenon DEF RefsOK, DropArc
      <3>3. strong'[a] = strong[a] - 1 + In(a)' - In(a)
        BY <1>2, <2>2, <3>2
      <3> QED  BY <1>1, <3>1, <3>3, OwnerRemoved, Zenon
    <2>4. CASE a # arc[t]
      <3>1. Owners(a)' = Owners(a)
        BY <1>1, <1>10, <2>1, <2>4, Zenon DEF RefsOK, DropArc, Goto, Owners, Owns
      <3> QED  BY <1>1, <1>10, <2>1, <2>2, <2>4, <3>1, OwnerSame, Zenon DEF RefsOK, DropArc
    <2> QED  BY <2>3, <2>4, Zenon
  <1>11. ASSUME NEW t \in Threads, GetCounter(t) \/ AddCounter(t) \/ FetchAdd(t) PROVE Goal
    <2>1. Owners(a)' = Owners(a)
      BY <1>1, <1>11, IdFrame DEF RefsOK, LocalInv, Goto, locals, Owners, Owns
    <2> QED  BY <1>1, <1>11, <2>1, IdFrame, OwnerSame, Zenon DEF cell, In
  <1> HIDE DEF Goal
  <1>12. CASE UNCHANGED vars \/ Rest
    BY <1>3, <1>12, Zenon DEF Rest, vars, Goal
  <1> QED  BY <1>4, <1>5, <1>6, <1>7, <1>8, <1>9, <1>10, <1>11, <1>12, Zenon DEF Next, Call, Step, Goal

LEMMA InvStep == IInv /\ [Next]_vars => IInv'
  BY TypeStep, LocalStep, MutexStep, MadeStep, CountStep, Zenon DEF IInv

\* A map has exactly as many references as there are owners, and a reader never finds
\* the Arc it read freed, for any number of threads loading and swapping.
THEOREM MapsCounted == Spec => []CountsExact
  <1>1. IInv => CountsExact
    <2> SUFFICES ASSUME IInv PROVE CountsExact
      BY Zenon
    <2>1. ASSUME NEW t \in Threads, arc[t] # None PROVE strong[arc[t]] > 0
      <3>1. arc[t] \in Arcs /\ (Owns(t, arc[t]) \/ arc[t] = inner)
        BY <2>1, Zenon DEF IInv, TypeOK, LocalInv, MutexInv, Owns
      <3>2. CASE arc[t] = inner
        BY <3>1, <3>2, OwnersFinite DEF IInv, CountInv, In
      <3> QED  BY <3>1, <3>2, OwnedCounted, Zenon DEF IInv
    <2> QED  BY <2>1, Zenon DEF IInv, CountInv, CountsExact, In
  <1> QED  BY <1>1, InitInv, InvStep, PTL DEF Spec

-----------------------------------------------------------------------------
(* The cell implements the atomic one.  What CellSpec sees of a step.      *)

LEMMA SeenStutter ==
  ASSUME inner' = inner,
         \A u \in Threads : AbstractCall(u)' = AbstractCall(u) /\ AbstractOut(u)' = AbstractOut(u)
  PROVE  UNCHANGED Abstract!vars
  BY Zenon DEF Abstract!vars

LEMMA SeenCall ==
  ASSUME NEW t \in Threads, inner' = inner,
         \A u \in Threads \ {t} : AbstractCall(u)' = AbstractCall(u),
         \A u \in Threads : AbstractOut(u)' = AbstractOut(u),
         AbstractCall(t) = "none", AbstractCall(t)' \in Arcs \cup {"load"}
  PROVE  Abstract!Call(t)
  BY Zenon DEF Abstract!Call

LEMMA SeenEffect ==
  ASSUME NEW t \in Threads,
         \A u \in Threads : AbstractCall(u)' = AbstractCall(u),
         \A u \in Threads \ {t} : AbstractOut(u)' = AbstractOut(u),
         AbstractCall(t) # "none", AbstractOut(t) = None, AbstractOut(t)' = inner,
         inner' = IF AbstractCall(t) = "load" THEN inner ELSE AbstractCall(t)
  PROVE  Abstract!TakeEffect(t)
  BY Zenon DEF Abstract!TakeEffect

LEMMA SeenReturn ==
  ASSUME NEW t \in Threads, inner' = inner,
         \A u \in Threads \ {t} : AbstractCall(u)' = AbstractCall(u) /\ AbstractOut(u)' = AbstractOut(u),
         AbstractCall(t) # "none", AbstractOut(t) # None,
         AbstractCall(t)' = "none", AbstractOut(t)' = None
  PROVE  Abstract!Return(t)
  <1> DEFINE call == [u \in Threads |-> AbstractCall(u)]
             out == [u \in Threads |-> AbstractOut(u)]
  <1>1. call' = [call EXCEPT ![t] = "none"]
    BY Zenon
  <1>2. out' = [out EXCEPT ![t] = None]
    <2>1. \A u \in Threads : AbstractOut(u)' = IF u = t THEN None ELSE AbstractOut(u)
      BY Zenon
    <2> QED  BY <2>1, Zenon
  <1>3. call[t] # "none" /\ out[t] # None
    BY Zenon
  <1> QED  BY <1>1, <1>2, <1>3, Zenon DEF Abstract!Return

LEMMA AbstractStep == IInv /\ [Next]_vars => [Abstract!Next]_Abstract!vars
  <1> SUFFICES ASSUME IInv, [Next]_vars PROVE [Abstract!Next]_Abstract!vars
    BY Zenon
  <1>1. /\ RefsOK /\ LocalInv /\ MutexInv
        /\ None \notin Arcs /\ "load" \notin Arcs /\ "none" \notin Arcs
    BY TypeParts, CellAssumption, Zenon DEF IInv
  <1> DEFINE Seen == [Abstract!Next]_Abstract!vars
  <1> USE <1>1 DEF RefsOK, Points, LocalInv, AbstractCall, AbstractOut
  <1>2. CASE UNCHANGED <<pc, op, cell, locals>>
    BY <1>2, SeenStutter, Zenon DEF cell, locals
  <1>3. ASSUME NEW t \in Threads, Load(t) PROVE Seen
    <2>1. Abstract!Call(t)
      BY <1>3, SeenCall, Zenon DEF Load, Begin, Goto
    <2> QED  BY <2>1, Zenon DEF Abstract!Next
  <1>4. ASSUME NEW t \in Threads, NEW a \in Arcs, Swap(t, a) PROVE Seen
    <2>1. Abstract!Call(t)
      BY <1>4, SeenCall, Zenon DEF Swap, Begin, Goto
    <2> QED  BY <2>1, Zenon DEF Abstract!Next
  <1>5. ASSUME NEW t \in Threads, NextId(t) \/ TryLock(t) \/ TryFails(t) \/ Spin(t) PROVE Seen
    BY <1>5, SeenStutter DEF NextId, Begin, TryLock, TryFails, Spin, Goto, Inside, cell, locals
  <1>6. ASSUME NEW t \in Threads, Read(t) PROVE Seen
    <2>1. CASE op[t] = "load"
      <3>1. Abstract!TakeEffect(t)
        BY <1>6, <2>1, SeenEffect, Zenon DEF Read, Goto, cell
      <3> QED  BY <3>1, Zenon DEF Abstract!Next
    <2>2. CASE op[t] # "load"
      BY <1>6, <2>2, SeenStutter, Zenon DEF Read, Goto, cell
    <2> QED  BY <2>1, <2>2, Zenon
  <1>7. ASSUME NEW t \in Threads, Clone(t) \/ DropArc(t) PROVE Seen
    BY <1>7, SeenStutter DEF Clone, DropArc, Goto, locals
  <1>8. ASSUME NEW t \in Threads, Replace(t) PROVE Seen
    <2>1. \A u \in Threads \ {t} : ~(pc[u] = "unlock" /\ op[u] = "swap")
      BY <1>8, Zenon DEF Replace, MutexInv, Critical, LockOf
    <2>2. arc[t] = inner /\ new[t] \in Arcs
      BY <1>8, Zenon DEF Replace, MutexInv
    <2>3. Abstract!TakeEffect(t)
      BY <1>8, <2>1, <2>2, SeenEffect, Zenon DEF Replace, Goto
    <2> QED  BY <2>3, Zenon DEF Abstract!Next
  <1>9. ASSUME NEW t \in Threads, Unlock(t) PROVE Seen
    <2>1. CASE op[t] = "next"
      BY <1>9, <2>1, SeenStutter, Zenon DEF Unlock, Goto, cell, locals
    <2>2. CASE op[t] # "next"
      <3>1. Abstract!Return(t)
        BY <1>9, <2>2, SeenReturn, Zenon DEF Unlock, Goto, cell, locals
      <3> QED  BY <3>1, Zenon DEF Abstract!Next
    <2> QED  BY <2>1, <2>2, Zenon
  <1>10. ASSUME NEW t \in Threads, GetCounter(t) \/ AddCounter(t) \/ FetchAdd(t) PROVE Seen
    BY <1>10, IdFrame, SeenStutter DEF Goto, cell, locals
  <1> HIDE DEF Seen
  <1>11. CASE UNCHANGED vars \/ Rest
    BY <1>2, <1>11, Zenon DEF Rest, vars, Seen
  <1> QED  BY <1>3, <1>4, <1>5, <1>6, <1>7, <1>8, <1>9, <1>10, <1>11, Zenon DEF Next, Call, Step, Seen

\* The cell behind the spin lock is the atomic cell that the registry is written for.
THEOREM CellIsAtomic == Spec => AtomicCell
  <1>1. Init => Abstract!Init
    BY CellAssumption, Zenon DEF Init, Abstract!Init, AbstractCall, AbstractOut
  <1> QED  BY <1>1, InitInv, InvStep, AbstractStep, PTL DEF Spec, AtomicCell, Abstract!Spec

-----------------------------------------------------------------------------
(* The ids.                                                                *)

\* The ids count up from 1, and the counter is one ahead of them, until it wraps; a
\* thread that read the counter under the lock still has its value.
IdInv ==
  /\ \A i \in DOMAIN ids : ids[i] # 0 /\ (i <= IdMax => ids[i] = i)
  /\ Len(ids) < IdMax => counter = Len(ids) + 1
  /\ Len(ids) = IdMax => counter = 0
  /\ \A t \in Threads : op[t] = "next" => ~atomic64
  /\ \A t \in Threads : pc[t] = "add" => raw[t] = counter

\* The counter of width IdMax + 1.
LEMMA Wraps ==
  ASSUME NEW n \in 0 .. IdMax
  PROVE  (n + 1) % (IdMax + 1) = IF n = IdMax THEN 0 ELSE n + 1
  BY CellAssumption

\* An id is drawn.
LEMMA DrawId ==
  ASSUME IInv, IdInv, counter' = (counter + 1) % (IdMax + 1), ids' = Append(ids, NonZero(counter))
  PROVE  /\ \A i \in DOMAIN ids' : ids'[i] # 0 /\ (i <= IdMax => ids'[i] = i)
         /\ Len(ids') < IdMax => counter' = Len(ids') + 1
         /\ Len(ids') = IdMax => counter' = 0
  <1>1. counter \in 0 .. IdMax /\ ids \in Seq(0 .. IdMax) /\ IdMax \in Nat \ {0}
    BY CellAssumption, Zenon DEF IInv, TypeOK
  <1>2. NonZero(counter) \in 0 .. IdMax /\ NonZero(counter) # 0
    BY <1>1 DEF NonZero
  <1>3. /\ Len(ids') = Len(ids) + 1 /\ ids'[Len(ids) + 1] = NonZero(counter)
        /\ DOMAIN ids' = 1 .. Len(ids) + 1
        /\ \A i \in 1 .. Len(ids) : ids'[i] = ids[i]
    BY <1>1, <1>2
  <1>4. counter' = IF counter = IdMax THEN 0 ELSE counter + 1
    BY <1>1, Wraps, Zenon
  <1>5. Len(ids) \in Nat /\ DOMAIN ids = 1 .. Len(ids)
    BY <1>1
  <1>6. \A i \in DOMAIN ids' : ids'[i] # 0 /\ (i <= IdMax => ids'[i] = i)
    <2>1. \A i \in 1 .. Len(ids) : ids'[i] # 0 /\ (i <= IdMax => ids'[i] = i)
      BY <1>3, <1>5, Zenon DEF IdInv
    <2>2. Len(ids) + 1 <= IdMax => counter = Len(ids) + 1 /\ counter # 0
      <3>1. Len(ids) < IdMax => counter = Len(ids) + 1
        BY Zenon DEF IdInv
      <3> DEFINE n == Len(ids)
      <3>2. n \in Nat /\ IdMax \in Nat /\ (n < IdMax => counter = n + 1)
        BY <1>1, <1>5, <3>1, Zenon
      <3> HIDE DEF n
      <3>3. n + 1 <= IdMax => counter = n + 1 /\ counter # 0
        BY <3>2
      <3> QED  BY <3>3, Zenon DEF n
    <2>3. /\ ids'[Len(ids) + 1] # 0
          /\ Len(ids) + 1 <= IdMax => ids'[Len(ids) + 1] = Len(ids) + 1
      BY <1>2, <1>3, <2>2, Zenon DEF NonZero
    <2>4. \A i \in DOMAIN ids' : i \in 1 .. Len(ids) \/ i = Len(ids) + 1
      BY <1>3, <1>5
    <2> QED  BY <2>1, <2>3, <2>4, Zenon
  <1>7. Len(ids') \in Nat /\ counter' \in Nat
    BY <1>1, <1>3, <1>4, <1>5
  <1>8. (Len(ids) < IdMax => counter = Len(ids) + 1) /\ (Len(ids) = IdMax => counter = 0)
    BY Zenon DEF IdInv
  <1>9. (counter = IdMax => counter' = 0) /\ (counter # IdMax => counter' = counter + 1)
    BY <1>4, Zenon
  <1>10. (Len(ids') < IdMax => counter' = Len(ids') + 1) /\ (Len(ids') = IdMax => counter' = 0)
    <2>1. Len(ids') = Len(ids) + 1 /\ Len(ids) \in Nat /\ counter \in 0 .. IdMax
      BY <1>1, <1>3, <1>5, Zenon
    <2> DEFINE n == Len(ids)
               m == Len(ids')
               d == counter'
    <2>2. /\ n \in Nat /\ m \in Nat /\ d \in Nat /\ m = n + 1
          /\ (counter = IdMax => d = 0) /\ (counter # IdMax => d = counter + 1)
          /\ (n < IdMax => counter = n + 1) /\ (n = IdMax => counter = 0)
      BY <1>7, <1>8, <1>9, <2>1, Zenon
    <2> HIDE DEF n, m, d
    <2>3. (m < IdMax => d = m + 1) /\ (m = IdMax => d = 0)
      BY <1>1, <2>2
    <2> QED  BY <2>3, Zenon DEF n, m, d
  <1> QED  BY <1>6, <1>10, Zenon

LEMMA IdInvStep == IInv /\ IdInv /\ [Next]_vars => IdInv'
  <1> SUFFICES ASSUME IInv, IdInv, [Next]_vars PROVE IdInv'
    BY Zenon
  <1>1. RefsOK /\ LocalInv /\ MutexInv /\ IdsOK
    BY TypeParts, Zenon DEF IInv
  <1> DEFINE Drawn == /\ \A i \in DOMAIN ids : ids[i] # 0 /\ (i <= IdMax => ids[i] = i)
                      /\ Len(ids) < IdMax => counter = Len(ids) + 1
                      /\ Len(ids) = IdMax => counter = 0
             Locals == /\ \A t \in Threads : op[t] = "next" => ~atomic64
                       /\ \A t \in Threads : pc[t] = "add" => raw[t] = counter
  <1>2. IdInv <=> Drawn /\ Locals
    BY Zenon DEF IdInv
  <1>3. IdInv' <=> Drawn' /\ Locals'
    BY Zenon DEF IdInv
  <1> HIDE DEF Drawn
  <1>4. CASE UNCHANGED vars \/ Rest
    BY <1>4 DEF Rest, vars, cell, IdInv
  <1>5. ASSUME NEW t \in Threads, AddCounter(t) PROVE IdInv'
    <2>1. counter' = (counter + 1) % (IdMax + 1) /\ ids' = Append(ids, NonZero(counter))
      BY <1>5, Zenon DEF AddCounter, IdInv
    <2>2. Drawn'
      BY <2>1, DrawId, Zenon DEF Drawn
    <2>3. /\ pc[t] = "add" /\ Goto(t, "unlock") /\ UNCHANGED <<op, atomic64>>
          /\ \A u \in Threads \ {t} : raw'[u] = raw[u]
      BY <1>1, <1>5, Zenon DEF AddCounter, IdsOK
    <2>4. \A u \in Threads : pc'[u] # "add"
      BY <1>1, <2>3 DEF RefsOK, LocalInv, MutexInv, Critical, LockOf, Goto
    <2>5. Locals'
      BY <1>2, <2>3, <2>4, Zenon
    <2> QED  BY <1>3, <2>2, <2>5, Zenon
  <1>6. ASSUME NEW t \in Threads, FetchAdd(t) PROVE IdInv'
    <2>1. counter' = (counter + 1) % (IdMax + 1) /\ ids' = Append(ids, NonZero(counter))
      BY <1>6, Zenon DEF FetchAdd
    <2>2. Drawn'
      BY <2>1, DrawId, Zenon DEF Drawn
    <2>3. atomic64 /\ UNCHANGED <<pc, op, atomic64>>
      BY <1>6, Zenon DEF FetchAdd
    <2>4. \A u \in Threads : pc[u] # "add"
      BY <1>1, <2>3, Zenon DEF LocalInv, IdInv
    <2>5. Locals'
      BY <1>2, <2>3, <2>4, Zenon
    <2> QED  BY <1>3, <2>2, <2>5, Zenon
  <1>7. ASSUME NEW t \in Threads, GetCounter(t) PROVE IdInv'
    <2>1. Drawn'
      BY <1>2, <1>7, Zenon DEF GetCounter, Drawn
    <2>2. Locals'
      BY <1>1, <1>2, <1>7, Zenon DEF GetCounter, Goto, RefsOK, IdsOK
    <2> QED  BY <1>3, <2>1, <2>2, Zenon
  <1>8. ASSUME NEW t \in Threads, Load(t) \/ NextId(t) \/ \E a \in Arcs : Swap(t, a) PROVE IdInv'
    <2>1. UNCHANGED <<counter, raw, ids, atomic64>>
      BY <1>8, Zenon DEF Load, NextId, Swap, Begin
    <2>2. Drawn'
      BY <1>2, <2>1, Zenon DEF Drawn
    <2>3. Locals'
      BY <1>1, <1>2, <1>8, <2>1, Zenon DEF RefsOK, Load, NextId, Swap, Begin, Goto
    <2> QED  BY <1>3, <2>2, <2>3, Zenon
  <1>9. ASSUME NEW t \in Threads, Step(t), ~GetCounter(t), ~AddCounter(t) PROVE IdInv'
    <2>1. UNCHANGED <<counter, raw, ids, atomic64>> /\ (op' = op \/ op' = [op EXCEPT ![t] = "none"])
      BY <1>9, Zenon DEF Step, TryLock, TryFails, Spin, Unlock, Read, Clone, Replace, DropArc
    <2>2. \E to \in Points \ {"add"} : Goto(t, to)
      <3>1. CASE TryLock(t)
        <4>1. op[t] \in {"load", "swap", "next"}
          BY <1>1, <3>1, Zenon DEF RefsOK, LocalInv, TryLock
        <4>2. Inside[op[t]] \in Points \ {"add"}
          BY <4>1, SMTT(30) DEF Inside, Points
        <4>3. Goto(t, Inside[op[t]])
          BY <3>1, Zenon DEF TryLock
        <4> QED  BY <4>2, <4>3, Zenon
      <3>2. CASE TryFails(t) \/ Spin(t) \/ Clone(t) \/ Replace(t) \/ DropArc(t)
        BY <3>2, Zenon DEF TryFails, Spin, Clone, Replace, DropArc, Points
      <3>3. CASE Unlock(t)
        BY <3>3, Zenon DEF Unlock, Points
      <3>4. CASE Read(t)
        BY <3>4, Zenon DEF Read, Points
      <3> QED  BY <1>9, <3>1, <3>2, <3>3, <3>4, Zenon DEF Step
    <2>3. Drawn'
      BY <1>2, <2>1, Zenon DEF Drawn
    <2>4. Locals'
      BY <1>1, <1>2, <2>1, <2>2, Zenon DEF RefsOK, Goto
    <2> QED  BY <1>3, <2>3, <2>4, Zenon
  <1> QED  BY <1>4, <1>5, <1>6, <1>7, <1>8, <1>9, Zenon DEF Next, Call

\* KeyId::next hands out no id twice before the counter has gone round, and never 0,
\* with a 64-bit atomic and with a counter behind the lock.
THEOREM IdsFresh == Spec => []IdsUnique
  <1>1. Init => IdInv
    BY CellAssumption DEF Init, IdInv
  <1>2. IInv /\ IdInv => IdsUnique
    <2> SUFFICES ASSUME IInv, IdInv PROVE IdsUnique
      BY Zenon
    <2>1. DOMAIN ids = 1 .. Len(ids) /\ Len(ids) \in Nat /\ IdMax \in Nat
      BY CellAssumption DEF IInv, TypeOK
    <2>2. \A i \in DOMAIN ids : ids[i] # 0 /\ (i <= IdMax => ids[i] = i)
      BY Zenon DEF IdInv
    <2>3. ASSUME NEW i \in DOMAIN ids, NEW j \in DOMAIN ids, i < j, j <= IdMax PROVE ids[i] # ids[j]
      <3>1. i \in Nat /\ j \in Nat /\ i <= IdMax /\ i # j
        BY <2>1, <2>3
      <3> QED  BY <2>2, <2>3, <3>1, Zenon
    <2> QED  BY <2>2, <2>3, Zenon DEF IdsUnique
  <1> QED  BY <1>1, <1>2, InitInv, InvStep, IdInvStep, PTL DEF Spec
==============================================================================
