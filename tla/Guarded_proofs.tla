--------------------------- MODULE Guarded_proofs ---------------------------
(***************************************************************************)
(* What holds of page-protected regions for any threads and any number of   *)
(* mappings.  The four invariants follow from one inductive invariant that  *)
(* says who may touch a region at each point of a call: the reader mutex    *)
(* and the reader count agree with where the threads are, the points that   *)
(* need the region alone have it alone, and the operating system's locks    *)
(* and exclusions are those the region's flags record.                      *)
(***************************************************************************)
EXTENDS Guarded, TLAPS, FiniteSetTheorems

Readers(r) == {t \in Threads : hold[t] = r /\ pc[t] = "reading"}

\* A thread holds an Arc exactly while it is inside a call.
HoldOK == \A t \in Threads : (pc[t] = "idle") <=> (hold[t] = None)

\* Nobody can name a region that is not mapped.
MappedOK ==
  \A r \in Regions : ~region[r].mapped =>
    /\ region[r] = Unmapped
    /\ current # r /\ \A t \in Threads : hold[t] # r
    /\ r \notin secret \cup refused \cup stuck

\* into_protected before the swap, and Drop, have the region to themselves.
Alone == {"fill", "seal", "install", "drop", "wipe", "unlock", "unmap"}
OwnerOK == \A t \in Threads : pc[t] \in Alone => LastHolder(t)

\* The mutex is held from its lock to its release in open and in RegionAccess's drop.
MutexOK ==
  \A t \in Threads, r \in Regions :
    (region[r].mutex = t) <=> (hold[t] = r /\ pc[t] \in {"opening", "opened", "closing"})

\* The count is the number of readers.
ReadersOK == \A r \in Regions : region[r].readers = Cardinality(Readers(r))

\* The protection that each point needs.
Fits(point, prot) ==
  /\ point \in {"opened", "reading"} => prot = "read"
  /\ point \in {"fill", "seal", "wipe"} => prot = "rw"
  /\ point = "install" => prot = "none"
ProtOK == \A t \in Threads : Fits(pc[t], region[hold[t]].prot)

\* The registry's region is closed unless a reader is in it, or a thread with the mutex
\* has opened it or is closing it.
ClosedOK ==
  (/\ current # None /\ current \notin refused /\ region[current].readers = 0
   /\ \A t \in Threads : hold[t] = current => pc[t] \notin {"opened", "closing"})
  => region[current].prot = "none"

\* Past the wipe only a region that could not be made writable has key bytes.
WipeOK ==
  \A t \in Threads : pc[t] \in {"unlock", "unmap"} /\ hold[t] \in secret => hold[t] \in stuck

\* Unlock is done.
TakenBack(r) == \E t \in Threads : hold[t] = r /\ pc[t] = "unmap"

SystemOK ==
  \A r \in Regions :
    /\ region[r].locked => platform = "unix"
    /\ (r \in os.locked) <=> (region[r].locked /\ ~TakenBack(r))
    /\ (r \in os.excluded) <=> (region[r].no_dump /\ ~TakenBack(r))

GuardedInv ==
  /\ TypeOK
  /\ HoldOK /\ MappedOK /\ OwnerOK /\ MutexOK /\ ReadersOK /\ ProtOK
  /\ ClosedOK /\ WipeOK /\ SystemOK
-----------------------------------------------------------------------------
(* Steps that change the protection, the count or the mutex of a region.   *)

Region == [mapped : BOOLEAN, prot : {"none", "read", "rw"}, readers : Nat,
           mutex : Threads \cup {None}, locked : BOOLEAN, no_dump : BOOLEAN]

Edited(r, prot, readers, mutex) ==
  /\ region' \in [Regions -> Region]
  /\ region'[r].prot = prot /\ region'[r].readers = readers /\ region'[r].mutex = mutex
  /\ region'[r].mapped = region[r].mapped
  /\ region'[r].locked = region[r].locked /\ region'[r].no_dump = region[r].no_dump
  /\ \A q \in Regions \ {r} : region'[q] = region[q]

\* The record of a region that is changed as a whole.
LEMMA EditRecord ==
  ASSUME TypeOK, NEW r \in Regions, NEW prot \in {"none", "read", "rw"},
         NEW readers \in Nat, NEW mutex \in Threads \cup {None}, NEW v,
         v = [region[r] EXCEPT !.prot = prot, !.readers = readers, !.mutex = mutex],
         region' = [region EXCEPT ![r] = v]
  PROVE  Edited(r, prot, readers, mutex)
<1>1. region \in [Regions -> Region] /\ region[r] \in Region
  BY Zenon DEF TypeOK, Region
<1>2. /\ v.prot = prot /\ v.readers = readers /\ v.mutex = mutex
      /\ v.mapped = region[r].mapped /\ v.locked = region[r].locked /\ v.no_dump = region[r].no_dump
  BY <1>1, Zenon DEF Region
<1>3. v \in Region
  BY <1>1, Zenon DEF Region
<1>4. /\ region'[r] = v
      /\ \A q \in Regions \ {r} : region'[q] = region[q]
      /\ region' \in [Regions -> Region]
  BY <1>1, <1>3, Zenon
<1>. QED
  BY <1>2, <1>4, Zenon DEF Edited

LEMMA EditMutex ==
  ASSUME TypeOK, NEW r \in Regions, NEW mutex \in Threads \cup {None},
         region' = [region EXCEPT ![r].mutex = mutex]
  PROVE  Edited(r, region[r].prot, region[r].readers, mutex)
<1> DEFINE v == [region[r] EXCEPT !.prot = region[r].prot, !.readers = region[r].readers, !.mutex = mutex]
<1>1. region[r] \in Region /\ region \in [Regions -> Region]
  BY Zenon DEF TypeOK, Region
<1>2. v = [region[r] EXCEPT !.mutex = mutex]
  BY <1>1, Zenon DEF Region
<1>3. region' = [region EXCEPT ![r] = v]
  BY <1>2, Zenon
<1>4. region[r].prot \in {"none", "read", "rw"} /\ region[r].readers \in Nat
  BY <1>1, Zenon DEF Region
<1>. QED
  BY <1>3, <1>4, EditRecord, Zenon

LEMMA EditCount ==
  ASSUME TypeOK, NEW r \in Regions, NEW mutex \in Threads \cup {None}, NEW readers \in Nat,
         region' = [region EXCEPT ![r] = [@ EXCEPT !.readers = readers, !.mutex = mutex]]
  PROVE  Edited(r, region[r].prot, readers, mutex)
<1> DEFINE v == [region[r] EXCEPT !.prot = region[r].prot, !.readers = readers, !.mutex = mutex]
<1>1. region[r] \in Region /\ region \in [Regions -> Region]
  BY Zenon DEF TypeOK, Region
<1>2. v = [region[r] EXCEPT !.readers = readers, !.mutex = mutex]
  BY <1>1, Zenon DEF Region
<1>3. region' = [region EXCEPT ![r] = v]
  BY <1>2, Zenon
<1>4. region[r].prot \in {"none", "read", "rw"}
  BY <1>1, Zenon DEF Region
<1>. QED
  BY <1>3, <1>4, EditRecord, Zenon

LEMMA EditNothing ==
  ASSUME TypeOK, NEW r \in Regions, UNCHANGED region
  PROVE  Edited(r, region[r].prot, region[r].readers, region[r].mutex)
BY Zenon DEF TypeOK, Edited, Region

\* A change of protection takes no lock away: where an inaccessible page loses its lock,
\* no region has one.
LEMMA EditProtect ==
  ASSUME TypeOK, SystemOK, NEW r \in Regions, NEW access \in {"none", "read", "rw"},
         NEW unlock \in BOOLEAN, protect(r, access, unlock)
  PROVE  /\ Edited(r, access, region[r].readers, IF unlock THEN None ELSE region[r].mutex)
         /\ UNCHANGED os
<1> DEFINE mutex == IF unlock THEN None ELSE region[r].mutex
           v == [region[r] EXCEPT !.prot = access, !.readers = region[r].readers, !.mutex = mutex]
<1>1. region[r] \in Region /\ region \in [Regions -> Region]
  BY Zenon DEF TypeOK, Region
<1>2. mutex \in Threads \cup {None} /\ region[r].readers \in Nat
  BY <1>1, Zenon DEF Region
<1>3. region' = [region EXCEPT ![r] = [@ EXCEPT !.prot = access, !.mutex = mutex]]
  BY Zenon DEF protect
<1> HIDE DEF mutex
<1>4. v = [region[r] EXCEPT !.prot = access, !.mutex = mutex]
  BY <1>1, Zenon DEF Region
<1>5. region' = [region EXCEPT ![r] = v]
  BY <1>3, <1>4, Zenon
<1>6. Edited(r, access, region[r].readers, mutex)
  BY <1>2, <1>5, EditRecord, Zenon
<1>7. UNCHANGED os
  <2>1. CASE platform = "unix"
    BY <2>1, Zenon DEF protect, LOCK_SURVIVES_NO_ACCESS
  <2>2. CASE platform # "unix"
    <3>1. r \notin os.locked
      BY <2>2, Zenon DEF SystemOK
    <3>2. os = [locked |-> os.locked, excluded |-> os.excluded]
      BY Zenon DEF TypeOK
    <3>3. [os EXCEPT !.locked = @ \ {r}] = os
      BY <3>1, <3>2, Zenon
    <3>. QED
      BY <3>3, Zenon DEF protect
  <2>. QED
    BY <2>1, <2>2, Zenon
<1>. QED
  BY <1>6, <1>7, Zenon DEF mutex
\* What such a step keeps whatever it changes in the region.
LEMMA EditFrame ==
  ASSUME GuardedInv, NEW t \in Threads, hold[t] \in Regions,
         NEW prot, NEW readers, NEW mutex, Edited(hold[t], prot, readers, mutex),
         NEW point \in Points \ {"idle", "unmap"}, Goto(t, point), pc[t] \notin {"idle", "unmap"},
         point \in Alone => pc[t] \in Alone,
         UNCHANGED <<platform, current, os, secret, hold>>,
         refused' \subseteq refused \cup {hold[t]},
         stuck \subseteq stuck', stuck' \subseteq stuck \cup {hold[t]},
         point = "unlock" => hold[t] \in stuck'
  PROVE  TypeOK' /\ HoldOK' /\ MappedOK' /\ OwnerOK' /\ WipeOK' /\ SystemOK'
<1>1. TypeOK /\ HoldOK /\ MappedOK /\ OwnerOK /\ WipeOK /\ SystemOK
  BY Zenon DEF GuardedInv
<1>2. /\ pc'[t] = point /\ pc' \in [Threads -> Points]
      /\ \A u \in Threads \ {t} : pc'[u] = pc[u]
  BY <1>1, Zenon DEF TypeOK, Goto
<1>3. region[hold[t]].mapped
  BY <1>1, Zenon DEF MappedOK
<1>4. \A q \in Regions : /\ region'[q].mapped = region[q].mapped
                         /\ region'[q].locked = region[q].locked
                         /\ region'[q].no_dump = region[q].no_dump
  BY Zenon DEF Edited
<1>5. TypeOK'
  BY <1>1, <1>2, Zenon DEF TypeOK, Edited, Region
<1>6. HoldOK'
  BY <1>1, <1>2, Zenon DEF HoldOK
<1>7. MappedOK'
  <2>1. \A q \in Regions : ~region[q].mapped => q # hold[t]
    BY <1>3, Zenon
  <2>. QED
    BY <1>1, <1>4, <2>1 DEF MappedOK, Edited
<1>8. OwnerOK'
  BY <1>1, <1>2, Zenon DEF OwnerOK, LastHolder
<1>9. WipeOK'
  BY <1>1, <1>2, Zenon DEF WipeOK
<1>10. SystemOK'
  <2>1. \A q \in Regions : TakenBack(q)' = TakenBack(q)
    BY <1>2, Zenon DEF TakenBack
  <2>. QED
    BY <1>1, <1>4, <2>1, Zenon DEF SystemOK
<1>. QED
  BY <1>5, <1>6, <1>7, <1>8, <1>9, <1>10, Zenon

\* The reader count follows the readers.
LEMMA ReadersSame ==
  ASSUME \A u \in Threads : (pc[u] = "reading") <=> (pc'[u] = "reading"),
         \A u \in Threads : pc[u] = "reading" => hold'[u] = hold[u]
  PROVE  \A r \in Regions : Readers(r)' = Readers(r)
BY Zenon DEF Readers

LEMMA ReadersFinite == \A r : IsFiniteSet(Readers(r))
BY GuardedAssumption, FS_Subset, Zenon DEF Readers

\* The mutex passes to the thread, stays with it, or is let go by it.
LEMMA EditMutexOK ==
  ASSUME GuardedInv, NEW t \in Threads, hold[t] \in Regions,
         NEW prot, NEW readers, NEW mutex, Edited(hold[t], prot, readers, mutex),
         NEW point \in Points, Goto(t, point), UNCHANGED hold,
         region[hold[t]].mutex \in {t, None},
         mutex = IF point \in {"opening", "opened", "closing"} THEN t ELSE None
  PROVE  MutexOK'
<1>1. TypeOK /\ MutexOK
  BY Zenon DEF GuardedInv
<1>2. pc'[t] = point /\ \A u \in Threads \ {t} : pc'[u] = pc[u]
  BY <1>1, Zenon DEF TypeOK, Goto
<1>3. ASSUME NEW u \in Threads, NEW r \in Regions
      PROVE  (region'[r].mutex = u) <=> (hold'[u] = r /\ pc'[u] \in {"opening", "opened", "closing"})
  <2>1. CASE r = hold[t] /\ u = t
    BY <1>2, <2>1, GuardedAssumption DEF Edited
  <2>2. CASE r = hold[t] /\ u # t
    BY <1>1, <1>2, <2>2, GuardedAssumption DEF Edited, MutexOK
  <2>3. CASE r # hold[t] /\ u = t
    BY <1>1, <2>3 DEF Edited, MutexOK
  <2>4. CASE r # hold[t] /\ u # t
    BY <1>1, <1>2, <2>4 DEF Edited, MutexOK
  <2>. QED
    BY <2>1, <2>2, <2>3, <2>4, Zenon
<1>. QED
  BY <1>3, Zenon DEF MutexOK

\* The protection fits the thread that changed it and whoever else holds the region.
LEMMA EditProtOK ==
  ASSUME GuardedInv, NEW t \in Threads, hold[t] \in Regions,
         NEW prot, NEW readers, NEW mutex, Edited(hold[t], prot, readers, mutex),
         NEW point \in Points, Goto(t, point), UNCHANGED hold,
         Fits(point, prot),
         \A u \in Threads \ {t} : hold[u] = hold[t] => Fits(pc[u], prot)
  PROVE  ProtOK'
<1>1. TypeOK /\ HoldOK /\ ProtOK
  BY Zenon DEF GuardedInv
<1>2. pc'[t] = point /\ \A u \in Threads \ {t} : pc'[u] = pc[u]
  BY <1>1, Zenon DEF TypeOK, Goto
<1>3. ASSUME NEW u \in Threads
      PROVE  Fits(pc'[u], region'[hold[u]].prot)
  <2>1. CASE hold[u] = hold[t]
    BY <1>2, <2>1, Zenon DEF Edited
  <2>2. CASE hold[u] \in Regions /\ hold[u] # hold[t]
    <3>1. u # t
      BY <2>2, Zenon
    <3>. QED
      BY <1>1, <1>2, <2>2, <3>1, Zenon DEF Edited, ProtOK
  <2>3. CASE hold[u] \notin Regions
    <3>1. u # t /\ pc[u] = "idle"
      BY <1>1, <2>3, Zenon DEF TypeOK, HoldOK
    <3>. QED
      BY <1>2, <3>1, Zenon DEF Fits
  <2>. QED
    BY <2>1, <2>2, <2>3, Zenon
<1>. QED
  BY <1>3, Zenon DEF ProtOK

LEMMA EditClosedOK ==
  ASSUME GuardedInv, NEW t \in Threads, hold[t] \in Regions,
         NEW prot, NEW readers, NEW mutex, Edited(hold[t], prot, readers, mutex),
         NEW point \in Points, Goto(t, point), UNCHANGED <<current, hold>>,
         refused \ {hold[t]} \subseteq refused',
         current = hold[t] => \/ hold[t] \in refused' \/ readers # 0
                              \/ point \in {"opened", "closing"} \/ prot = "none"
  PROVE  ClosedOK'
<1>1. TypeOK /\ ClosedOK
  BY Zenon DEF GuardedInv
<1>2. pc'[t] = point /\ \A u \in Threads \ {t} : pc'[u] = pc[u]
  BY <1>1, Zenon DEF TypeOK, Goto
<1>3. CASE current = hold[t]
  BY <1>2, <1>3, Zenon DEF ClosedOK, Edited
<1>4. CASE current # hold[t]
  BY <1>1, <1>2, <1>4, Zenon DEF ClosedOK, Edited, TypeOK
<1>. QED
  BY <1>3, <1>4, Zenon

LEMMA EditReadersOK ==
  ASSUME GuardedInv, NEW t \in Threads, hold[t] \in Regions,
         NEW prot, NEW readers, NEW mutex, Edited(hold[t], prot, readers, mutex),
         NEW point \in Points \ {"reading"}, Goto(t, point), pc[t] # "reading", UNCHANGED hold,
         readers = region[hold[t]].readers
  PROVE  ReadersOK'
<1>1. TypeOK /\ ReadersOK
  BY Zenon DEF GuardedInv
<1>2. \A u \in Threads : (pc[u] = "reading") <=> (pc'[u] = "reading")
  BY <1>1, Zenon DEF TypeOK, Goto
<1>3. \A r \in Regions : Readers(r)' = Readers(r)
  BY <1>2, ReadersSame, Zenon
<1>4. \A r \in Regions : region'[r].readers = region[r].readers
  BY Zenon DEF Edited
<1>. QED
  BY <1>1, <1>3, <1>4, Zenon DEF ReadersOK

-----------------------------------------------------------------------------
(* open and RegionAccess's drop.                                           *)

\* A thread inside open or close, or about to, has a region that is not somebody's own.
LEMMA InRegion ==
  ASSUME GuardedInv, NEW t \in Threads, pc[t] # "idle"
  PROVE  /\ hold[t] \in Regions
         /\ region[hold[t]] \in Region
         /\ pc[t] \notin Alone => \A u \in Threads : hold[u] = hold[t] => pc[u] \notin Alone
         /\ region[hold[t]].mutex = t <=> pc[t] \in {"opening", "opened", "closing"}
<1>1. TypeOK /\ HoldOK /\ OwnerOK /\ MutexOK
  BY Zenon DEF GuardedInv
<1>2. hold[t] \in Regions
  BY <1>1, Zenon DEF TypeOK, HoldOK
<1>3. region[hold[t]] \in Region
  BY <1>1, <1>2, Zenon DEF TypeOK, Region
<1>4. pc[t] \notin Alone => \A u \in Threads : hold[u] = hold[t] => pc[u] \notin Alone
  BY <1>1, Zenon DEF OwnerOK, LastHolder
<1>5. region[hold[t]].mutex = t <=> pc[t] \in {"opening", "opened", "closing"}
  BY <1>1, <1>2, Zenon DEF MutexOK
<1>. QED
  BY <1>2, <1>3, <1>4, <1>5, Zenon

\* A thread that has the region to itself finds its mutex free.
LEMMA AloneMutex ==
  ASSUME GuardedInv, NEW t \in Threads, pc[t] \in Alone
  PROVE  /\ region[hold[t]].mutex = None
         /\ \A u \in Threads \ {t} : hold[u] # hold[t]
         /\ current # hold[t]
<1>1. TypeOK /\ HoldOK /\ OwnerOK /\ MutexOK
  BY Zenon DEF GuardedInv
<1>2. hold[t] \in Regions /\ region[hold[t]] \in Region
  BY InRegion, Zenon DEF Alone
<1>3. current # hold[t] /\ \A u \in Threads \ {t} : hold[u] # hold[t]
  BY <1>1, Zenon DEF OwnerOK, LastHolder
<1>4. \A u \in Threads : region[hold[t]].mutex # u
  BY <1>1, <1>2, <1>3 DEF MutexOK, Alone
<1>. QED
  BY <1>2, <1>3, <1>4, Zenon DEF Region

\* All of it, for the steps that leave the count alone.
LEMMA EditStep ==
  ASSUME GuardedInv, NEW t \in Threads, hold[t] \in Regions,
         NEW prot, NEW mutex, Edited(hold[t], prot, region[hold[t]].readers, mutex),
         NEW point \in Points \ {"idle", "unmap", "reading"}, Goto(t, point),
         pc[t] \notin {"idle", "unmap", "reading"},
         point \in Alone => pc[t] \in Alone,
         UNCHANGED <<platform, current, os, secret, hold>>,
         refused' \subseteq refused \cup {hold[t]}, refused \ {hold[t]} \subseteq refused',
         stuck \subseteq stuck', stuck' \subseteq stuck \cup {hold[t]},
         point = "unlock" => hold[t] \in stuck',
         region[hold[t]].mutex \in {t, None},
         mutex = IF point \in {"opening", "opened", "closing"} THEN t ELSE None,
         Fits(point, prot),
         \A u \in Threads \ {t} : hold[u] = hold[t] => Fits(pc[u], prot),
         current = hold[t] => \/ hold[t] \in refused' \/ region[hold[t]].readers # 0
                              \/ point \in {"opened", "closing"} \/ prot = "none"
  PROVE  GuardedInv'
<1>1. TypeOK' /\ HoldOK' /\ MappedOK' /\ OwnerOK' /\ WipeOK' /\ SystemOK'
  BY EditFrame, Zenon
<1>2. MutexOK'
  BY EditMutexOK, Zenon
<1>3. ReadersOK'
  BY EditReadersOK, Zenon
<1>4. ProtOK'
  BY EditProtOK, Zenon
<1>5. ClosedOK'
  BY EditClosedOK, Zenon
<1>. QED
  BY <1>1, <1>2, <1>3, <1>4, <1>5, Zenon DEF GuardedInv

\* Before anybody who has the mutex opened it, the region is closed.
LEMMA StillClosed ==
  ASSUME GuardedInv, NEW t \in Threads, pc[t] \notin {"idle", "opened", "closing"},
         region[hold[t]].mutex \in {t, None}
  PROVE  current = hold[t] => \/ hold[t] \in refused \/ region[hold[t]].readers # 0
                              \/ region[hold[t]].prot = "none"
<1>1. HoldOK /\ MutexOK /\ ClosedOK /\ hold[t] \in Regions
  BY InRegion, Zenon DEF GuardedInv
<1>2. \A u \in Threads : hold[u] = hold[t] => pc[u] \notin {"opened", "closing"}
  BY <1>1, GuardedAssumption DEF MutexOK
<1>. QED
  BY <1>1, <1>2, Zenon DEF ClosedOK, HoldOK

LEMMA OpenLockStep ==
  ASSUME GuardedInv, NEW t \in Threads, OpenLock(t)
  PROVE  GuardedInv'
<1> DEFINE r == hold[t]
<1>1. /\ pc[t] = "shared" /\ region[r].mutex = None /\ region' = [region EXCEPT ![r].mutex = t]
      /\ Goto(t, "opening")
      /\ UNCHANGED <<platform, current, os, secret, refused, stuck, hold>>
  BY Zenon DEF OpenLock
<1>2. r \in Regions /\ TypeOK /\ ProtOK
  BY <1>1, InRegion, Zenon DEF GuardedInv
<1>3. Edited(r, region[r].prot, region[r].readers, t)
  BY <1>1, <1>2, EditMutex, Zenon
<1>4. \A u \in Threads : hold[u] = r => Fits(pc[u], region[r].prot)
  BY <1>2, Zenon DEF ProtOK
<1>5. current = r => r \in refused \/ region[r].readers # 0 \/ region[r].prot = "none"
  BY <1>1, StillClosed, Zenon
<1>. QED
  BY <1>1, <1>2, <1>3, <1>4, <1>5, EditStep, Zenon DEF Points, Alone, Fits

LEMMA OpenProtectStep ==
  ASSUME GuardedInv, NEW t \in Threads, OpenProtect(t)
  PROVE  GuardedInv'
<1> DEFINE r == hold[t]
<1>1. pc[t] = "opening" /\ UNCHANGED <<platform, current, secret, refused, stuck, hold>>
  BY Zenon DEF OpenProtect
<1>2. /\ r \in Regions /\ TypeOK /\ ProtOK /\ SystemOK /\ ReadersOK /\ region[r].mutex = t
      /\ \A u \in Threads : hold[u] = r => pc[u] \notin Alone
  BY <1>1, InRegion, Zenon DEF GuardedInv, Alone
<1>3. \A u \in Threads : hold[u] = r => Fits(pc[u], region[r].prot)
  BY <1>2, Zenon DEF ProtOK
<1>4. current = r => r \in refused \/ region[r].readers # 0 \/ region[r].prot = "none"
  BY <1>1, <1>2, StillClosed, Zenon
<1>5. CASE region[r].readers = 0 /\ protect(r, "read", FALSE) /\ Goto(t, "opened")
  <2>1. Edited(r, "read", region[r].readers, t) /\ UNCHANGED os
    BY <1>2, <1>5, EditProtect, Zenon
  <2>2. \A u \in Threads : hold[u] = r => Fits(pc[u], "read")
    BY <1>2, Zenon DEF Fits, Alone
  <2>. QED
    BY <1>1, <1>2, <1>5, <2>1, <2>2, EditStep, Zenon DEF Points, Alone, Fits
<1>6. CASE /\ region[r].readers = 0 /\ region' = [region EXCEPT ![r].mutex = None]
           /\ Goto(t, "release") /\ UNCHANGED os
  <2>1. Edited(r, region[r].prot, region[r].readers, None)
    BY <1>2, <1>6, EditMutex, Zenon
  <2>. QED
    BY <1>1, <1>2, <1>3, <1>4, <1>6, <2>1, EditStep, Zenon DEF Points, Alone, Fits
<1>7. CASE region[r].readers # 0 /\ Goto(t, "opened") /\ UNCHANGED <<region, os>>
  <2>1. Edited(r, region[r].prot, region[r].readers, t)
    BY <1>2, <1>7, EditNothing, Zenon
  <2>2. region[r].prot = "read"
    <3>1. Cardinality(Readers(r)) # 0
      BY <1>2, <1>7, Zenon DEF ReadersOK
    <3>2. PICK u \in Threads : hold[u] = r /\ pc[u] = "reading"
      BY <3>1, FS_EmptySet, Zenon DEF Readers
    <3>. QED
      BY <1>3, <3>2, Zenon DEF Fits
  <2>. QED
    BY <1>1, <1>2, <1>3, <1>7, <2>1, <2>2, EditStep, Zenon DEF Points, Alone, Fits
<1>. QED
  BY <1>5, <1>6, <1>7, Zenon DEF OpenProtect

LEMMA OpenCountStep ==
  ASSUME GuardedInv, NEW t \in Threads, OpenCount(t)
  PROVE  GuardedInv'
<1> DEFINE r == hold[t]
           readers == region[r].readers + 1
<1>1. /\ pc[t] = "opened" /\ Goto(t, "reading")
      /\ region' = [region EXCEPT ![r] = [@ EXCEPT !.readers = readers, !.mutex = None]]
      /\ UNCHANGED <<platform, current, os, secret, refused, stuck, hold>>
  BY Zenon DEF OpenCount
<1>2. /\ r \in Regions /\ TypeOK /\ ProtOK /\ ReadersOK /\ region[r].mutex = t /\ region[r] \in Region
  BY <1>1, InRegion, Zenon DEF GuardedInv, Alone
<1>3. readers \in Nat /\ readers # 0
  BY <1>2 DEF Region
<1>4. Edited(r, region[r].prot, readers, None)
  <2> HIDE DEF readers, r
  <2>. QED
    BY <1>1, <1>2, <1>3, EditCount, Zenon
<1>5. /\ \A u \in Threads : hold[u] = r => Fits(pc[u], region[r].prot)
      /\ Fits("reading", region[r].prot)
  BY <1>1, <1>2, Zenon DEF ProtOK, Fits
<1>6. TypeOK' /\ HoldOK' /\ MappedOK' /\ OwnerOK' /\ WipeOK' /\ SystemOK'
  BY <1>1, <1>2, <1>4, EditFrame, Zenon DEF Points, Alone
<1>7. MutexOK'
  BY <1>1, <1>2, <1>4, EditMutexOK, Zenon DEF Points
<1>8. ProtOK'
  BY <1>1, <1>2, <1>4, <1>5, EditProtOK, Zenon DEF Points
<1>9. ClosedOK'
  <2> HIDE DEF readers, r
  <2>. QED
    BY <1>1, <1>2, <1>3, <1>4, EditClosedOK DEF Points, r
<1>10. ReadersOK'
  <2>1. pc'[t] = "reading" /\ \A u \in Threads \ {t} : pc'[u] = pc[u]
    BY <1>1, <1>2, Zenon DEF Goto, TypeOK
  <2>2. ASSUME NEW q \in Regions
        PROVE  region'[q].readers = Cardinality(Readers(q)')
    <3>1. region[q].readers = Cardinality(Readers(q))
      BY <1>2, Zenon DEF ReadersOK
    <3>2. CASE q = r
      <4>1. Readers(q)' = Readers(q) \cup {t} /\ t \notin Readers(q)
        BY <1>1, <2>1, <3>2, Zenon DEF Readers
      <4>2. Cardinality(Readers(q)') = Cardinality(Readers(q)) + 1
        BY <4>1, ReadersFinite, FS_AddElement, Zenon
      <4>3. region'[q].readers = region[q].readers + 1
        BY <1>4, <3>2, Zenon DEF Edited
      <4>. QED
        BY <3>1, <4>2, <4>3, Zenon
    <3>3. CASE q # r
      <4>1. Readers(q)' = Readers(q)
        BY <1>1, <2>1, <3>3, Zenon DEF Readers
      <4>2. region'[q].readers = region[q].readers
        BY <1>4, <3>3, Zenon DEF Edited
      <4>. QED
        BY <3>1, <4>1, <4>2, Zenon
    <3>. QED
      BY <3>2, <3>3, Zenon
  <2>. QED
    BY <2>2, Zenon DEF ReadersOK
<1>. QED
  BY <1>6, <1>7, <1>8, <1>9, <1>10, Zenon DEF GuardedInv

LEMMA CloseLockStep ==
  ASSUME GuardedInv, NEW t \in Threads, CloseLock(t)
  PROVE  GuardedInv'
<1> DEFINE r == hold[t]
           readers == region[r].readers - 1
<1>1. /\ pc[t] = "reading" /\ region[r].mutex = None /\ Goto(t, "closing")
      /\ region' = [region EXCEPT ![r] = [@ EXCEPT !.readers = readers, !.mutex = t]]
      /\ UNCHANGED <<platform, current, os, secret, refused, stuck, hold>>
  BY Zenon DEF CloseLock
<1>2. /\ r \in Regions /\ TypeOK /\ ProtOK /\ ReadersOK /\ region[r] \in Region
  BY <1>1, InRegion, Zenon DEF GuardedInv, Alone
<1>3. /\ Cardinality(Readers(r) \ {t}) = region[r].readers - 1
      /\ Cardinality(Readers(r) \ {t}) \in Nat
  <2>1. t \in Readers(r)
    BY <1>1, Zenon DEF Readers
  <2>. QED
    BY <1>2, <2>1, ReadersFinite, FS_RemoveElement, FS_CardinalityType, Zenon DEF ReadersOK
<1>4. readers \in Nat
  BY <1>3, Zenon
<1>5. Edited(r, region[r].prot, readers, t)
  <2> HIDE DEF readers, r
  <2>. QED
    BY <1>1, <1>2, <1>4, EditCount, Zenon
<1>6. \A u \in Threads : hold[u] = r => Fits(pc[u], region[r].prot)
  BY <1>2, Zenon DEF ProtOK
<1>7. TypeOK' /\ HoldOK' /\ MappedOK' /\ OwnerOK' /\ WipeOK' /\ SystemOK'
  BY <1>1, <1>2, <1>5, EditFrame, Zenon DEF Points, Alone
<1>8. MutexOK'
  BY <1>1, <1>2, <1>5, EditMutexOK, Zenon DEF Points
<1>9. ProtOK'
  BY <1>1, <1>2, <1>5, <1>6, EditProtOK, Zenon DEF Points, Fits
<1>10. ClosedOK'
  BY <1>1, <1>2, <1>5, EditClosedOK, Zenon DEF Points
<1>11. ReadersOK'
  <2>1. pc'[t] = "closing" /\ \A u \in Threads \ {t} : pc'[u] = pc[u]
    BY <1>1, <1>2, Zenon DEF Goto, TypeOK
  <2>2. ASSUME NEW q \in Regions
        PROVE  region'[q].readers = Cardinality(Readers(q)')
    <3>1. region[q].readers = Cardinality(Readers(q))
      BY <1>2, Zenon DEF ReadersOK
    <3>2. CASE q = r
      <4>1. Readers(q)' = Readers(q) \ {t}
        BY <1>1, <2>1, <3>2, Zenon DEF Readers
      <4>2. Cardinality(Readers(q)') = region[q].readers - 1
        BY <1>3, <3>2, <4>1, Zenon
      <4>3. region'[q].readers = region[q].readers - 1
        BY <1>5, <3>2, Zenon DEF Edited
      <4>. QED
        BY <4>2, <4>3, Zenon
    <3>3. CASE q # r
      <4>1. Readers(q)' = Readers(q)
        BY <1>1, <2>1, <3>3, Zenon DEF Readers
      <4>2. region'[q].readers = region[q].readers
        BY <1>5, <3>3, Zenon DEF Edited
      <4>. QED
        BY <3>1, <4>1, <4>2, Zenon
    <3>. QED
      BY <3>2, <3>3, Zenon
  <2>. QED
    BY <2>2, Zenon DEF ReadersOK
<1>. QED
  BY <1>7, <1>8, <1>9, <1>10, <1>11, Zenon DEF GuardedInv

\* The last reader out closes: nobody reads, and nobody else has opened the region.
LEMMA CloseProtectStep ==
  ASSUME GuardedInv, NEW t \in Threads, CloseProtect(t)
  PROVE  GuardedInv'
<1> DEFINE r == hold[t]
<1>1. pc[t] = "closing" /\ Goto(t, "release") /\ UNCHANGED <<platform, current, secret, stuck, hold>>
  BY Zenon DEF CloseProtect
<1>2. /\ r \in Regions /\ TypeOK /\ ProtOK /\ SystemOK /\ ReadersOK /\ MutexOK /\ region[r].mutex = t
      /\ \A u \in Threads : hold[u] = r => pc[u] \notin Alone
  BY <1>1, InRegion, Zenon DEF GuardedInv, Alone
<1>3. \A u \in Threads : hold[u] = r => Fits(pc[u], region[r].prot)
  BY <1>2, Zenon DEF ProtOK
<1>4. CASE region[r].readers = 0 /\ protect(r, "none", TRUE) /\ refused' = refused \ {r}
  <2>1. Edited(r, "none", region[r].readers, None) /\ UNCHANGED os
    BY <1>2, <1>4, EditProtect, Zenon
  <2>2. \A u \in Threads : hold[u] = r => pc[u] # "reading"
    <3>1. Cardinality(Readers(r)) = 0
      BY <1>2, <1>4, Zenon DEF ReadersOK
    <3>2. Readers(r) = {}
      BY <3>1, ReadersFinite, FS_EmptySet, Zenon
    <3>. QED
      BY <3>2, Zenon DEF Readers
  <2>3. \A u \in Threads \ {t} : hold[u] = r => pc[u] # "opened"
    BY <1>2, Zenon DEF MutexOK
  <2>4. \A u \in Threads \ {t} : hold[u] = r => Fits(pc[u], "none")
    BY <1>2, <2>2, <2>3, Zenon DEF Fits, Alone
  <2>. QED
    BY <1>1, <1>2, <1>4, <2>1, <2>4, EditStep, Zenon DEF Points, Alone, Fits
<1>5. CASE /\ region[r].readers = 0 /\ region' = [region EXCEPT ![r].mutex = None]
           /\ refused' = refused \cup {r} /\ UNCHANGED os
  <2>1. Edited(r, region[r].prot, region[r].readers, None)
    BY <1>2, <1>5, EditMutex, Zenon
  <2>. QED
    BY <1>1, <1>2, <1>3, <1>5, <2>1, EditStep, Zenon DEF Points, Alone, Fits
<1>6. CASE /\ region[r].readers # 0 /\ region' = [region EXCEPT ![r].mutex = None]
           /\ UNCHANGED <<os, refused>>
  <2>1. Edited(r, region[r].prot, region[r].readers, None)
    BY <1>2, <1>6, EditMutex, Zenon
  <2>. QED
    BY <1>1, <1>2, <1>3, <1>6, <2>1, EditStep DEF Points, Alone, Fits
<1>. QED
  BY <1>4, <1>5, <1>6, Zenon DEF CloseProtect

-----------------------------------------------------------------------------
(* into_protected, the swaps of the map, and Drop.                         *)

LEMMA SealStep ==
  ASSUME GuardedInv, NEW t \in Threads, Seal(t)
  PROVE  GuardedInv'
<1> DEFINE r == hold[t]
<1>1. pc[t] = "seal" /\ UNCHANGED <<platform, current, secret, refused, stuck, hold>>
  BY Zenon DEF Seal
<1>2. /\ r \in Regions /\ TypeOK /\ ProtOK /\ SystemOK /\ region[r].mutex = None
      /\ current # r /\ \A u \in Threads \ {t} : hold[u] # r
  BY <1>1, InRegion, AloneMutex, Zenon DEF GuardedInv, Alone
<1>3. CASE protect(r, "none", FALSE) /\ Goto(t, "install")
  <2>1. Edited(r, "none", region[r].readers, None) /\ UNCHANGED os
    BY <1>2, <1>3, EditProtect, Zenon
  <2>. QED
    BY <1>1, <1>2, <1>3, <2>1, EditStep, Zenon DEF Points, Alone, Fits
<1>4. CASE UNCHANGED <<region, os>> /\ Goto(t, "release")
  <2>1. Edited(r, region[r].prot, region[r].readers, None)
    BY <1>2, <1>4, EditNothing, Zenon
  <2>. QED
    BY <1>1, <1>2, <1>4, <2>1, EditStep DEF Points, Alone, Fits
<1>. QED
  BY <1>3, <1>4, Zenon DEF Seal

LEMMA DropProtectStep ==
  ASSUME GuardedInv, NEW t \in Threads, DropProtect(t)
  PROVE  GuardedInv'
<1> DEFINE r == hold[t]
<1>1. pc[t] = "drop" /\ UNCHANGED <<platform, current, secret, refused, hold>>
  BY Zenon DEF DropProtect
<1>2. /\ r \in Regions /\ TypeOK /\ ProtOK /\ SystemOK /\ region[r].mutex = None
      /\ current # r /\ \A u \in Threads \ {t} : hold[u] # r
  BY <1>1, InRegion, AloneMutex, Zenon DEF GuardedInv, Alone
<1>3. CASE protect(r, "rw", FALSE) /\ Goto(t, "wipe") /\ UNCHANGED stuck
  <2>1. Edited(r, "rw", region[r].readers, None) /\ UNCHANGED os
    BY <1>2, <1>3, EditProtect, Zenon
  <2>. QED
    BY <1>1, <1>2, <1>3, <2>1, EditStep, Zenon DEF Points, Alone, Fits
<1>4. CASE stuck' = stuck \cup {r} /\ Goto(t, "unlock") /\ UNCHANGED <<region, os>>
  <2>1. Edited(r, region[r].prot, region[r].readers, None)
    BY <1>2, <1>4, EditNothing, Zenon
  <2>. QED
    BY <1>1, <1>2, <1>4, <2>1, EditStep DEF Points, Alone, Fits
<1>. QED
  BY <1>3, <1>4, Zenon DEF DropProtect

\* The steps that leave the regions and the operating system alone.
Quiet(t) ==
  \/ Share(t) \/ GiveUp(t) \/ Release(t) \/ Fill(t) \/ Install(t) \/ InstallFails(t)
  \/ Unregister(t) \/ Wipe(t)

LEMMA QuietStep ==
  ASSUME GuardedInv, NEW t \in Threads, Quiet(t)
  PROVE  GuardedInv'
<1> USE DEF Quiet, Share, GiveUp, Release, Fill, Install, InstallFails, Unregister, Wipe, Goto, LastHolder
<1>1. /\ TypeOK /\ HoldOK /\ MappedOK /\ OwnerOK /\ MutexOK /\ ReadersOK /\ ProtOK
      /\ ClosedOK /\ WipeOK /\ SystemOK
  BY Zenon DEF GuardedInv
<1>2. \A u \in Threads \ {t} : pc'[u] = pc[u] /\ hold'[u] = hold[u]
  BY <1>1, Zenon DEF TypeOK
<1>3. UNCHANGED <<platform, region, os, refused, stuck>>
  BY Zenon
<1>4. TypeOK'
  BY <1>1 DEF TypeOK, HoldOK, Points
<1>5. HoldOK'
  BY <1>1 DEF TypeOK, HoldOK
<1>6. MappedOK'
  <2>1. current' \in {current, hold[t], None} /\ hold'[t] \in {hold[t], current, None}
    BY <1>1, Zenon DEF TypeOK
  <2>2. secret' \subseteq secret \cup {hold[t]}
    BY Zenon
  <2>3. ASSUME NEW r \in Regions, ~region[r].mapped
        PROVE  /\ region[r] = Unmapped
               /\ current' # r /\ \A u \in Threads : hold'[u] # r
               /\ r \notin secret' \cup refused \cup stuck
    <3>1. /\ region[r] = Unmapped
          /\ current # r /\ \A u \in Threads : hold[u] # r
          /\ r \notin secret \cup refused \cup stuck
      BY <1>1, <2>3, Zenon DEF MappedOK
    <3>2. r # None
      BY GuardedAssumption, Zenon
    <3> HIDE DEF Quiet
    <3>. QED
      BY <1>2, <2>1, <2>2, <3>1, <3>2, Zenon
  <2> HIDE DEF Quiet
  <2>. QED
    BY <1>3, <2>3, Zenon DEF MappedOK
<1>7. OwnerOK'
  BY <1>1, GuardedAssumption, SMTT(30) DEF TypeOK, HoldOK, OwnerOK, Alone
<1>8. MutexOK'
  BY <1>1, GuardedAssumption, SMTT(30) DEF TypeOK, HoldOK, MutexOK
<1>9. ProtOK'
  BY <1>1, SMTT(30) DEF TypeOK, ProtOK, Fits
<1>10. ClosedOK'
  BY <1>1, SMTT(30) DEF TypeOK, ClosedOK, ProtOK, Fits, OwnerOK, Alone
<1>11. WipeOK'
  BY <1>1, SMTT(30) DEF TypeOK, HoldOK, OwnerOK, Alone, WipeOK
<1>12. SystemOK'
  <2>1. \A q \in Regions : TakenBack(q)' = TakenBack(q)
    BY <1>1, Zenon DEF TypeOK, TakenBack
  <2>. QED
    BY <1>1, <1>3, <2>1, Zenon DEF SystemOK
<1>13. ReadersOK'
  <2>1. /\ \A u \in Threads : (pc[u] = "reading") <=> (pc'[u] = "reading")
        /\ \A u \in Threads : pc[u] = "reading" => hold'[u] = hold[u]
    BY <1>1, Zenon DEF TypeOK
  <2>2. \A q \in Regions : Readers(q)' = Readers(q)
    BY <2>1, ReadersSame, Zenon
  <2>. QED
    BY <1>1, <1>3, <2>2, Zenon DEF ReadersOK
<1>. QED
  BY <1>4, <1>5, <1>6, <1>7, <1>8, <1>9, <1>10, <1>11, <1>12, <1>13, Zenon DEF GuardedInv

\* The system takes back what the region's flags say it has.
LEMMA UnlockStep ==
  ASSUME GuardedInv, NEW t \in Threads, Unlock(t)
  PROVE  GuardedInv'
<1>1. /\ TypeOK /\ HoldOK /\ MappedOK /\ OwnerOK /\ MutexOK /\ ReadersOK /\ ProtOK
      /\ ClosedOK /\ WipeOK /\ SystemOK
  BY Zenon DEF GuardedInv
<1>2. /\ pc[t] = "unlock" /\ pc' = [pc EXCEPT ![t] = "unmap"]
      /\ UNCHANGED <<platform, current, region, secret, refused, stuck, hold>>
      /\ os'.locked = IF region[hold[t]].locked THEN os.locked \ {hold[t]} ELSE os.locked
      /\ os'.excluded = IF region[hold[t]].no_dump THEN os.excluded \ {hold[t]} ELSE os.excluded
      /\ os' \in [locked : SUBSET Regions, excluded : SUBSET Regions]
  BY <1>1, Zenon DEF Unlock, Goto, unlock_pages, include_in_dumps, TypeOK
<1>3. hold[t] \in Regions
  BY <1>2, InRegion, Zenon
<1>4. pc'[t] = "unmap" /\ \A u \in Threads \ {t} : pc'[u] = pc[u]
  BY <1>1, <1>2, Zenon DEF TypeOK
<1>5. TypeOK' /\ HoldOK'
  BY <1>1, <1>2, Zenon DEF TypeOK, Points, HoldOK
<1>6. MappedOK' /\ OwnerOK' /\ WipeOK'
  BY <1>1, <1>2, <1>4, Zenon DEF MappedOK, OwnerOK, Alone, LastHolder, WipeOK
<1>7. MutexOK' /\ ProtOK' /\ ClosedOK'
  <2>1. MutexOK'
    BY <1>1, <1>2, <1>4 DEF MutexOK
  <2>2. ProtOK'
    BY <1>1, <1>2, <1>4, Zenon DEF ProtOK, Fits
  <2>3. ClosedOK'
    BY <1>1, <1>2, <1>4, Zenon DEF ClosedOK
  <2>. QED
    BY <2>1, <2>2, <2>3, Zenon
<1>8. SystemOK'
  <2>1. ASSUME NEW q \in Regions
        PROVE  TakenBack(q)' <=> (q = hold[t] \/ TakenBack(q))
    BY <1>2, <1>4, Zenon DEF TakenBack
  <2>2. ASSUME NEW q \in Regions
        PROVE  /\ region[q].locked => platform = "unix"
               /\ (q \in os'.locked) <=> (region[q].locked /\ ~TakenBack(q)')
               /\ (q \in os'.excluded) <=> (region[q].no_dump /\ ~TakenBack(q)')
    <3>1. /\ region[q].locked => platform = "unix"
          /\ (q \in os.locked) <=> (region[q].locked /\ ~TakenBack(q))
          /\ (q \in os.excluded) <=> (region[q].no_dump /\ ~TakenBack(q))
      BY <1>1, Zenon DEF SystemOK
    <3>. QED
      BY <1>2, <2>1, <3>1, Zenon
  <2>. QED
    BY <1>2, <2>2, Zenon DEF SystemOK
<1>9. ReadersOK'
  <2>1. \A u \in Threads : (pc[u] = "reading") <=> (pc'[u] = "reading")
    BY <1>2, <1>4, Zenon
  <2>2. \A q \in Regions : Readers(q)' = Readers(q)
    BY <1>2, <2>1, ReadersSame, Zenon
  <2>. QED
    BY <1>1, <1>2, <2>2, Zenon DEF ReadersOK
<1>. QED
  BY <1>5, <1>6, <1>7, <1>8, <1>9, Zenon DEF GuardedInv

LEMMA UnmapStep ==
  ASSUME GuardedInv, NEW t \in Threads, Unmap(t)
  PROVE  GuardedInv'
<1>1. /\ TypeOK /\ HoldOK /\ MappedOK /\ OwnerOK /\ MutexOK /\ ReadersOK /\ ProtOK
      /\ ClosedOK /\ WipeOK /\ SystemOK
  BY Zenon DEF GuardedInv
<1>2. PICK r \in Regions : hold[t] = r
  BY InRegion, Zenon DEF Unmap
<1>3. /\ pc[t] = "unmap" /\ region' = [region EXCEPT ![r] = Unmapped]
      /\ secret' = secret \ {r} /\ refused' = refused \ {r} /\ stuck' = stuck \ {r}
      /\ pc'[t] = "idle" /\ hold'[t] = None
      /\ UNCHANGED <<platform, current, os>>
      /\ \A u \in Threads \ {t} : pc'[u] = pc[u] /\ hold'[u] = hold[u]
  BY <1>1, <1>2, Zenon DEF Unmap, Goto, TypeOK
<1>4. region'[r] = Unmapped /\ \A q \in Regions \ {r} : region'[q] = region[q]
  BY <1>1, <1>3, Zenon DEF TypeOK
<1>5. current # r /\ \A u \in Threads : hold'[u] # r
  <2>1. r # None
    BY GuardedAssumption, Zenon
  <2>. QED
    BY <1>1, <1>2, <1>3, <2>1 DEF OwnerOK, Alone, LastHolder
<1>6. TypeOK'
  <2>1. Unmapped \in Region
    BY Zenon DEF Unmapped, Region
  <2>2. region' \in [Regions -> Region]
    BY <1>1, <1>3, <2>1, Zenon DEF TypeOK, Region
  <2>3. pc' \in [Threads -> Points] /\ hold' \in [Threads -> Regions \cup {None}]
    BY <1>1, Zenon DEF TypeOK, Points, Unmap, Goto
  <2>. QED
    BY <1>1, <1>3, <2>2, <2>3, Zenon DEF TypeOK, Region
<1>7. HoldOK'
  BY <1>1, <1>3, Zenon DEF HoldOK
<1>8. MappedOK'
  <2>1. ASSUME NEW q \in Regions, ~region'[q].mapped
        PROVE  /\ region'[q] = Unmapped
               /\ current' # q /\ \A u \in Threads : hold'[u] # q
               /\ q \notin secret' \cup refused' \cup stuck'
    <3>1. CASE q = r
      BY <1>3, <1>4, <1>5, <3>1, Zenon
    <3>2. CASE q # r
      <4>1. /\ region[q] = Unmapped
            /\ current # q /\ \A u \in Threads : hold[u] # q
            /\ q \notin secret \cup refused \cup stuck
        BY <1>1, <1>4, <2>1, <3>2, Zenon DEF MappedOK
      <4>2. q # None
        BY GuardedAssumption, Zenon
      <4>. QED
        BY <1>3, <1>4, <3>2, <4>1, <4>2, Zenon
    <3>. QED
      BY <3>1, <3>2, Zenon
  <2>. QED
    BY <2>1, Zenon DEF MappedOK
<1>9. OwnerOK'
  BY <1>1, <1>2, <1>3, <1>5 DEF OwnerOK, Alone, LastHolder, HoldOK
<1>10. MutexOK'
  <2>1. Unmapped.mutex = None
    BY Zenon DEF Unmapped
  <2>. QED
    BY <1>1, <1>2, <1>3, <1>4, <1>5, <2>1, GuardedAssumption DEF MutexOK
<1>11. ProtOK'
  <2>1. ASSUME NEW u \in Threads
        PROVE  Fits(pc'[u], region'[hold'[u]].prot)
    <3>1. CASE u = t \/ pc[u] = "idle"
      BY <1>3, <3>1, Zenon DEF Fits
    <3>2. CASE u # t /\ pc[u] # "idle"
      <4>1. hold[u] \in Regions
        BY <3>2, InRegion, Zenon
      <4>. QED
        BY <1>1, <1>3, <1>4, <1>5, <3>2, <4>1 DEF ProtOK
    <3>. QED
      BY <3>1, <3>2, Zenon
  <2>. QED
    BY <2>1, Zenon DEF ProtOK
<1>12. ClosedOK'
  BY <1>1, <1>2, <1>3, <1>4, <1>5 DEF ClosedOK, TypeOK
<1>13. WipeOK'
  BY <1>1, <1>3, <1>5, Zenon DEF WipeOK
<1>14. SystemOK'
  <2>1. ~Unmapped.locked /\ ~Unmapped.no_dump
    BY Zenon DEF Unmapped
  <2>2. r \notin os.locked /\ r \notin os.excluded
    BY <1>1, <1>2, <1>3, Zenon DEF SystemOK, TakenBack
  <2>3. \A q \in Regions \ {r} : TakenBack(q)' = TakenBack(q)
    BY <1>2, <1>3, Zenon DEF TakenBack
  <2>. QED
    BY <1>1, <1>3, <1>4, <2>1, <2>2, <2>3, SMTT(30) DEF SystemOK
<1>15. ReadersOK'
  <2>1. ASSUME NEW q \in Regions
        PROVE  region'[q].readers = Cardinality(Readers(q)')
    <3>1. CASE q = r
      <4>1. Readers(q)' = {}
        BY <1>5, <3>1, Zenon DEF Readers
      <4>. QED
        BY <1>4, <3>1, <4>1, FS_EmptySet DEF Unmapped
    <3>2. CASE q # r
      <4>1. Readers(q)' = Readers(q)
        BY <1>2, <1>3, <3>2, Zenon DEF Readers
      <4>. QED
        BY <1>1, <1>4, <3>2, <4>1, Zenon DEF ReadersOK
    <3>. QED
      BY <3>1, <3>2, Zenon
  <2>. QED
    BY <2>1, Zenon DEF ReadersOK
<1>. QED
  BY <1>6, <1>7, <1>8, <1>9, <1>10, <1>11, <1>12, <1>13, <1>14, <1>15, Zenon DEF GuardedInv

\* Nobody knew the region before: it is the thread's own.
LEMMA NewRegionStep ==
  ASSUME GuardedInv, NEW t \in Threads, NEW locked \in BOOLEAN, NEW no_dump \in BOOLEAN,
         NewRegion(t, locked, no_dump)
  PROVE  GuardedInv'
<1> DEFINE new == [mapped |-> TRUE, prot |-> "rw", readers |-> 0, mutex |-> None,
                   locked |-> locked, no_dump |-> no_dump]
<1>1. /\ TypeOK /\ HoldOK /\ MappedOK /\ OwnerOK /\ MutexOK /\ ReadersOK /\ ProtOK
      /\ ClosedOK /\ WipeOK /\ SystemOK
  BY Zenon DEF GuardedInv
<1>2. PICK r \in Regions :
        /\ ~region[r].mapped
        /\ region' = [region EXCEPT ![r] = new]
        /\ os' = [locked   |-> os.locked \cup {q \in {r} : locked},
                  excluded |-> os.excluded \cup {q \in {r} : no_dump}]
        /\ hold' = [hold EXCEPT ![t] = r]
        /\ Goto(t, "fill")
        /\ UNCHANGED <<platform, current, secret, refused, stuck>>
  <2>1. \E q \in Regions : ~region[q].mapped
    BY Zenon DEF NewRegion
  <2>2. MapRegion(t, locked, no_dump)
    BY Zenon DEF NewRegion
  <2> DEFINE r == CHOOSE q \in Regions : ~region[q].mapped
  <2>3. r \in Regions /\ ~region[r].mapped
    BY <2>1, Zenon
  <2>. QED
    BY <2>2, <2>3, Zenon DEF MapRegion
<1>3. /\ pc[t] = "idle" /\ pc'[t] = "fill" /\ hold'[t] = r /\ hold[t] = None
      /\ \A u \in Threads \ {t} : pc'[u] = pc[u] /\ hold'[u] = hold[u]
      /\ pc' \in [Threads -> Points] /\ hold' \in [Threads -> Regions \cup {None}]
  BY <1>1, <1>2, Zenon DEF NewRegion, Goto, TypeOK, HoldOK, Points
<1>4. new \in Region /\ ~(locked /\ platform # "unix")
  BY Zenon DEF Region, NewRegion, LOCK_SURVIVES_NO_ACCESS
<1>5. /\ new.mapped /\ new.prot = "rw" /\ new.readers = 0 /\ new.mutex = None
      /\ new.locked = locked /\ new.no_dump = no_dump
  BY Zenon
<1> HIDE DEF new
<1>6. region'[r] = new /\ \A q \in Regions \ {r} : region'[q] = region[q]
  BY <1>1, <1>2, Zenon DEF TypeOK
<1>7. /\ region[r] = Unmapped /\ current # r /\ \A u \in Threads : hold[u] # r
      /\ r \notin secret \cup refused \cup stuck
  BY <1>1, <1>2, Zenon DEF MappedOK
<1>8. TypeOK'
  <2>1. region' \in [Regions -> Region]
    BY <1>1, <1>2, <1>4, Zenon DEF TypeOK, Region
  <2>2. os' \in [locked : SUBSET Regions, excluded : SUBSET Regions]
    BY <1>1, <1>2, Zenon DEF TypeOK
  <2>. QED
    BY <1>1, <1>2, <1>3, <2>1, <2>2, Zenon DEF TypeOK, Region
<1>9. HoldOK'
  BY <1>1, <1>3, GuardedAssumption, Zenon DEF HoldOK
<1>10. MappedOK'
  <2> SUFFICES ASSUME NEW q \in Regions, ~region'[q].mapped
               PROVE  /\ region'[q] = Unmapped
                      /\ current' # q /\ \A u \in Threads : hold'[u] # q
                      /\ q \notin secret' \cup refused' \cup stuck'
    BY Zenon DEF MappedOK
  <2>1. q # r /\ region'[q] = region[q]
    BY <1>5, <1>6, Zenon
  <2>2. /\ region[q] = Unmapped
        /\ current # q /\ \A u \in Threads : hold[u] # q
        /\ q \notin secret \cup refused \cup stuck
    BY <1>1, <2>1, Zenon DEF MappedOK
  <2>3. \A u \in Threads : hold'[u] # q
    BY <1>3, <2>1, <2>2, Zenon
  <2> QED
    BY <1>2, <2>1, <2>2, <2>3, Zenon
<1>11. OwnerOK'
  BY <1>1, <1>2, <1>3, <1>7 DEF OwnerOK, LastHolder, HoldOK
<1>12. MutexOK'
  BY <1>1, <1>3, <1>5, <1>6, <1>7, GuardedAssumption, SMTT(30) DEF MutexOK
<1>13. ProtOK'
  <2>1. ASSUME NEW u \in Threads
        PROVE  Fits(pc'[u], region'[hold'[u]].prot)
    <3>1. CASE u = t
      BY <1>3, <1>5, <1>6, <3>1, Zenon DEF Fits
    <3>2. CASE u # t /\ pc[u] = "idle"
      BY <1>3, <3>2, Zenon DEF Fits
    <3>3. CASE u # t /\ pc[u] # "idle"
      <4>1. hold[u] \in Regions
        BY <3>3, InRegion, Zenon
      <4>. QED
        BY <1>1, <1>3, <1>6, <1>7, <3>3, <4>1 DEF ProtOK
    <3>. QED
      BY <3>1, <3>2, <3>3, Zenon
  <2>. QED
    BY <2>1, Zenon DEF ProtOK
<1>14. ClosedOK'
  BY <1>1, <1>2, <1>3, <1>6, <1>7 DEF ClosedOK, TypeOK
<1>15. WipeOK'
  BY <1>1, <1>2, <1>3, Zenon DEF WipeOK
<1>16. SystemOK'
  <2>1. \A q \in Regions : TakenBack(q)' = TakenBack(q)
    BY <1>3, <1>7 DEF TakenBack
  <2>2. ~TakenBack(r)
    BY <1>7, Zenon DEF TakenBack
  <2>3. ~Unmapped.locked /\ ~Unmapped.no_dump
    BY Zenon DEF Unmapped
  <2>4. /\ os'.locked = os.locked \cup {q \in {r} : locked}
        /\ os'.excluded = os.excluded \cup {q \in {r} : no_dump}
    BY <1>2, Zenon
  <2>5. ASSUME NEW q \in Regions
        PROVE  /\ region'[q].locked => platform = "unix"
               /\ (q \in os'.locked) <=> (region'[q].locked /\ ~TakenBack(q)')
               /\ (q \in os'.excluded) <=> (region'[q].no_dump /\ ~TakenBack(q)')
    <3>1. /\ region[q].locked => platform = "unix"
          /\ (q \in os.locked) <=> (region[q].locked /\ ~TakenBack(q))
          /\ (q \in os.excluded) <=> (region[q].no_dump /\ ~TakenBack(q))
      BY <1>1, Zenon DEF SystemOK
    <3>2. CASE q = r
      BY <1>4, <1>5, <1>6, <1>7, <2>1, <2>2, <2>3, <2>4, <3>1, <3>2, Zenon
    <3>3. CASE q # r
      BY <1>6, <2>1, <2>4, <3>1, <3>3, Zenon
    <3>. QED
      BY <3>2, <3>3, Zenon
  <2>. QED
    BY <1>2, <2>5, Zenon DEF SystemOK
<1>17. ReadersOK'
  <2>1. \A u \in Threads : (pc[u] = "reading") <=> (pc'[u] = "reading")
    BY <1>3, Zenon
  <2>2. \A u \in Threads : pc[u] = "reading" => hold'[u] = hold[u]
    BY <1>3, Zenon
  <2>3. \A q \in Regions : Readers(q)' = Readers(q)
    BY <2>1, <2>2, ReadersSame, Zenon
  <2>4. \A q \in Regions : region'[q].readers = region[q].readers
    BY <1>5, <1>6, <1>7 DEF Unmapped
  <2>. QED
    BY <1>1, <2>3, <2>4, Zenon DEF ReadersOK
<1>. QED
  BY <1>8, <1>9, <1>10, <1>11, <1>12, <1>13, <1>14, <1>15, <1>16, <1>17, Zenon DEF GuardedInv

-----------------------------------------------------------------------------
(* The theorems.                                                           *)

LEMMA GuardedStep ==
  ASSUME GuardedInv, [Next]_vars
  PROVE  GuardedInv'
<1>1. ASSUME NEW t \in Threads, Step(t)
      PROVE  GuardedInv'
  <2>1. CASE GiveUp(t) \/ Release(t) \/ Fill(t) \/ Install(t) \/ InstallFails(t) \/ Wipe(t)
    BY <2>1, QuietStep, Zenon DEF Quiet
  <2>. QED
    BY <1>1, <2>1, OpenLockStep, OpenProtectStep, OpenCountStep, CloseLockStep, CloseProtectStep,
       SealStep, DropProtectStep, UnlockStep, UnmapStep, Zenon DEF Step
<1>2. ASSUME NEW t \in Threads, Call(t)
      PROVE  GuardedInv'
  <2>1. CASE Share(t) \/ Unregister(t)
    BY <2>1, QuietStep, Zenon DEF Quiet
  <2>2. CASE \E locked \in BOOLEAN, no_dump \in BOOLEAN : NewRegion(t, locked, no_dump)
    BY <2>2, NewRegionStep, Zenon
  <2>. QED
    BY <1>2, <2>1, <2>2, Zenon DEF Call
<1>3. CASE UNCHANGED vars
  <2>1. UNCHANGED <<TypeOK, HoldOK, MappedOK, OwnerOK, MutexOK>>
    BY <1>3 DEF vars, TypeOK, HoldOK, MappedOK, OwnerOK, LastHolder, MutexOK
  <2>2. UNCHANGED <<ReadersOK, ProtOK, ClosedOK, WipeOK, SystemOK>>
    BY <1>3, Zenon DEF vars, ReadersOK, Readers, ProtOK, ClosedOK, WipeOK, SystemOK, TakenBack
  <2>. QED
    BY <2>1, <2>2, Zenon DEF GuardedInv
<1>. QED
  BY <1>1, <1>2, <1>3, Zenon DEF Next, Rest

LEMMA GuardedInit == Init => GuardedInv
<1> SUFFICES ASSUME Init PROVE GuardedInv
  BY Zenon
<1>1. Unmapped \in Region
  BY Zenon DEF Unmapped, Region
<1>2. TypeOK
  BY <1>1, Zenon DEF Init, TypeOK, Region, Points
<1>3. HoldOK /\ MappedOK /\ OwnerOK /\ ClosedOK /\ WipeOK
  BY GuardedAssumption, Zenon DEF Init, HoldOK, MappedOK, OwnerOK, Alone, ClosedOK, WipeOK
<1>4. MutexOK /\ ProtOK /\ SystemOK
  BY GuardedAssumption, Zenon DEF Init, MutexOK, ProtOK, Fits, SystemOK, TakenBack, Unmapped
<1>5. ReadersOK
  <2>1. \A r \in Regions : Readers(r) = {}
    BY Zenon DEF Init, Readers
  <2>. QED
    BY <2>1, FS_EmptySet, Zenon DEF Init, ReadersOK, Unmapped
<1>. QED
  BY <1>2, <1>3, <1>4, <1>5, Zenon DEF GuardedInv

\* Every reachable state satisfies the inductive invariant.
THEOREM GuardedInvariant == Spec => []GuardedInv
<1>1. GuardedInv /\ [Next]_vars => GuardedInv'
  BY GuardedStep, Zenon
<1>. QED
  BY <1>1, GuardedInit, PTL DEF Spec

\* GuardedRegion::open, RegionAccess and Drop never touch a region whose protection does
\* not allow it, and nothing that the registry or a thread holds has been unmapped.
THEOREM RegionsNeverFault == Spec => []NoFault
<1>1. GuardedInv => NoFault
  <2> SUFFICES ASSUME GuardedInv PROVE NoFault
    BY Zenon
  <2>1. TypeOK /\ HoldOK /\ MappedOK /\ ProtOK
    BY Zenon DEF GuardedInv
  <2>2. current # None => region[current].mapped
    BY <2>1, Zenon DEF TypeOK, MappedOK
  <2>3. ASSUME NEW t \in Threads
        PROVE  /\ hold[t] # None => region[hold[t]].mapped
               /\ pc[t] = "reading" => region[hold[t]].prot = "read"
               /\ pc[t] \in {"fill", "wipe"} => region[hold[t]].prot = "rw"
    BY <2>1, Zenon DEF TypeOK, MappedOK, ProtOK, Fits
  <2>. QED
    BY <2>1, <2>2, <2>3, Zenon DEF NoFault
<1>. QED
  BY <1>1, GuardedInvariant, PTL

\* Between accesses the registry's region is inaccessible, unless the system refused.
THEOREM RegionsIdleClosed == Spec => []IdleClosed
<1>1. GuardedInv => IdleClosed
  <2> SUFFICES ASSUME GuardedInv PROVE IdleClosed
    BY Zenon
  <2>1. TypeOK /\ MutexOK /\ ClosedOK
    BY Zenon DEF GuardedInv
  <2>. QED
    BY <2>1, GuardedAssumption DEF TypeOK, MutexOK, ClosedOK, IdleClosed
<1>. QED
  BY <1>1, GuardedInvariant, PTL

\* Drop wipes a region before it gives its lock and its exclusion from dumps back.
THEOREM RegionsWipedFirst == Spec => []WipedFirst
<1>1. GuardedInv => WipedFirst
  <2> SUFFICES ASSUME GuardedInv, NEW r \in secret \ stuck
               PROVE  /\ region[r].locked => r \in os.locked
                      /\ region[r].no_dump => r \in os.excluded
    BY Zenon DEF WipedFirst
  <2>1. r \in Regions /\ ~TakenBack(r)
    BY Zenon DEF GuardedInv, TypeOK, WipeOK, TakenBack
  <2>. QED
    BY <2>1, Zenon DEF GuardedInv, SystemOK
<1>. QED
  BY <1>1, GuardedInvariant, PTL

\* The system keeps no lock and no exclusion for pages that were given back.
THEOREM RegionsLeaveNothing == Spec => []NothingLeftBehind
<1>1. GuardedInv => NothingLeftBehind
  <2> SUFFICES ASSUME GuardedInv PROVE NothingLeftBehind
    BY Zenon
  <2>1. TypeOK /\ MappedOK /\ SystemOK
    BY Zenon DEF GuardedInv
  <2>2. \A r \in Regions : ~region[r].mapped => ~region[r].locked /\ ~region[r].no_dump
    BY <2>1, SMTT(30) DEF MappedOK, Unmapped
  <2>. QED
    BY <2>1, <2>2, Zenon DEF TypeOK, SystemOK, NothingLeftBehind
<1>. QED
  BY <1>1, GuardedInvariant, PTL
=============================================================================
