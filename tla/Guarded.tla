------------------------------ MODULE Guarded ------------------------------
(***************************************************************************)
(* Page-protected regions (src/src/memory/guarded.rs), the Fragments that    *)
(* own them (src/src/fragment/mod.rs), and their use by with_key, register,  *)
(* rotate and unregister (src/src/vault/mod.rs).                           *)
(*                                                                         *)
(* One key: current is the region of its entry in the registry.  A thread    *)
(* that shares the fragments, builds a region, or took the old map out of    *)
(* the registry holds the region (an Arc); the last to let go runs Drop.     *)
(* The readers mutex is explicit.  The operating system may refuse every     *)
(* change of protection, every lock and every exclusion from dumps           *)
(* (src/src/memory/unix.rs, src/src/memory/windows.rs).                     *)
(***************************************************************************)
EXTENDS Integers, FiniteSets

CONSTANTS
  Threads,
  Regions,   \* mappings that can exist at a time
  None

ASSUME GuardedAssumption ==
  /\ IsFiniteSet(Threads)
  /\ None \notin Threads \cup Regions

VARIABLES
  platform,  \* "unix" or "windows"
  current,   \* the registry's region, or None
  region,    \* [mapped, prot, readers, mutex, locked, no_dump]
  os,        \* what the operating system holds: [locked, excluded]
  secret,    \* regions that contain key bytes
  refused,   \* regions left readable because the system refused PROT_NONE
  stuck,     \* regions that could not be made writable for the wipe
  pc,        \* what each thread does next
  hold       \* the region each thread holds, or None

vars == <<platform, current, region, os, secret, refused, stuck, pc, hold>>

Unmapped == [mapped |-> FALSE, prot |-> "none", readers |-> 0, mutex |-> None,
             locked |-> FALSE, no_dump |-> FALSE]

Init ==
  /\ platform \in {"unix", "windows"}
  /\ current = None
  /\ region = [r \in Regions |-> Unmapped]
  /\ os = [locked |-> {}, excluded |-> {}]
  /\ secret = {} /\ refused = {} /\ stuck = {}
  /\ pc = [t \in Threads |-> "idle"]
  /\ hold = [t \in Threads |-> None]

-----------------------------------------------------------------------------
(* The operating system.                                                   *)

LOCK_SURVIVES_NO_ACCESS == platform = "unix"

\* The results that mlock, and madvise or WerRegisterExcludedMemoryBlock, may have: a
\* platform without the call answers as one that refuses it.
lock_pages == BOOLEAN
exclude_from_dumps == BOOLEAN

\* The locks and the exclusions that are left.
unlock_pages(r) == os.locked \ {r}
include_in_dumps(r) == os.excluded \ {r}

\* A successful change of protection; Windows unlocks pages that become inaccessible.
protect(r, access, unlock) ==
  /\ region' = [region EXCEPT ![r] = [@ EXCEPT !.prot = access, !.mutex = IF unlock THEN None ELSE region[r].mutex]]
  /\ os' = IF access = "none" /\ ~LOCK_SURVIVES_NO_ACCESS
             THEN [os EXCEPT !.locked = @ \ {r}] ELSE os

Goto(t, point) == pc' = [pc EXCEPT ![t] = point]

-----------------------------------------------------------------------------
(* with_key: share the fragments, open, reassemble, close, let go.         *)

\* The snapshot, then share.
Share(t) ==
  /\ pc[t] = "idle" /\ current # None
  /\ hold' = [hold EXCEPT ![t] = current]
  /\ Goto(t, "shared")
  /\ UNCHANGED <<platform, current, region, os, secret, refused, stuck>>

\* The key is locked out, or the snapshot was taken for another key.
GiveUp(t) ==
  /\ pc[t] = "shared"
  /\ Goto(t, "release")
  /\ UNCHANGED <<platform, current, region, os, secret, refused, stuck, hold>>

\* GuardedRegion::open: lock the reader count, ...
OpenLock(t) ==
  /\ pc[t] = "shared" /\ region[hold[t]].mutex = None
  /\ region' = [region EXCEPT ![hold[t]].mutex = t]
  /\ Goto(t, "opening")
  /\ UNCHANGED <<platform, current, os, secret, refused, stuck, hold>>

\* ... the first reader makes the region readable, ...
OpenProtect(t) ==
  LET r == hold[t]
  IN
  /\ pc[t] = "opening"
  /\ \/ /\ region[r].readers = 0
        /\ protect(r, "read", FALSE)
        /\ Goto(t, "opened")
     \/ /\ region[r].readers = 0
        /\ region' = [region EXCEPT ![r].mutex = None]
        /\ Goto(t, "release")
        /\ UNCHANGED os
     \/ /\ region[r].readers # 0
        /\ Goto(t, "opened")
        /\ UNCHANGED <<region, os>>
  /\ UNCHANGED <<platform, current, secret, refused, stuck, hold>>

\* ... and every reader is counted.
OpenCount_First(t) ==
  LET r == hold[t]
  IN
  /\ pc[t] = "opened"
  /\ region' = [region EXCEPT ![r] = [@ EXCEPT !.readers = 1, !.mutex = None]]
  /\ Goto(t, "reading")
  /\ UNCHANGED <<platform, current, os, secret, refused, stuck, hold>>
OpenCount(t) ==
  LET r == hold[t]
  IN
  /\ pc[t] = "opened"
  /\ region' = [region EXCEPT ![r] = [@ EXCEPT !.readers = region[r].readers + 1, !.mutex = None]]
  /\ Goto(t, "reading")
  /\ UNCHANGED <<platform, current, os, secret, refused, stuck, hold>>

\* defragment_into is done (or failed): RegionAccess drops.
CloseLock(t) ==
  LET r == hold[t]
  IN
  /\ pc[t] = "reading" /\ region[r].mutex = None
  /\ region' = [region EXCEPT ![r] = [@ EXCEPT !.readers = region[r].readers - 1, !.mutex = t]]
  /\ Goto(t, "closing")
  /\ UNCHANGED <<platform, current, os, secret, refused, stuck, hold>>

\* The last reader out makes the region inaccessible again.
CloseProtect(t) ==
  LET r == hold[t]
  IN
  /\ pc[t] = "closing"
  /\ \/ /\ region[r].readers = 0
        /\ protect(r, "none", TRUE)
        /\ refused' = refused \ {r}
     \/ /\ region[r].readers = 0
        /\ region' = [region EXCEPT ![r].mutex = None]
        /\ refused' = refused \cup {r}
        /\ UNCHANGED os
     \/ /\ region[r].readers # 0
        /\ region' = [region EXCEPT ![r].mutex = None]
        /\ UNCHANGED <<os, refused>>
  /\ Goto(t, "release")
  /\ UNCHANGED <<platform, current, secret, stuck, hold>>

\* Drop of an Arc: the last holder goes on to drop the region.
LastHolder(t) == current # hold[t] /\ \A u \in Threads \ {t} : hold[u] # hold[t]

Release_Leaks(t) ==
  /\ pc[t] = "release"
  /\ hold' = [hold EXCEPT ![t] = None]
  /\ Goto(t, "idle")
  /\ UNCHANGED <<platform, current, region, os, secret, refused, stuck>>
Release(t) ==
  /\ pc[t] = "release"
  /\ \/ /\ LastHolder(t)
        /\ Goto(t, "drop")
        /\ UNCHANGED hold
     \/ /\ ~LastHolder(t)
        /\ hold' = [hold EXCEPT ![t] = None]
        /\ Goto(t, "idle")
  /\ UNCHANGED <<platform, current, region, os, secret, refused, stuck>>

-----------------------------------------------------------------------------
(* register and rotate: into_protected, then the swap of the map.          *)

\* map_region, and the region it is for.
MapRegion(t, locked, no_dump) ==
  LET r == CHOOSE q \in Regions : ~region[q].mapped
  IN
  /\ region' = [region EXCEPT ![r] = [mapped |-> TRUE, prot |-> "rw", readers |-> 0, mutex |-> None,
                                      locked |-> locked, no_dump |-> no_dump]]
  /\ os' = [locked   |-> os.locked \cup {q \in {r} : locked},
            excluded |-> os.excluded \cup {q \in {r} : no_dump}]
  /\ hold' = [hold EXCEPT ![t] = r]
  /\ Goto(t, "fill")
  /\ UNCHANGED <<platform, current, secret, refused, stuck>>

\* GuardedRegion::new.  A refused mapping changes nothing; which addresses map_region
\* returns does not matter.
NewRegion(t, locked, no_dump) ==
  /\ pc[t] = "idle" /\ \E r \in Regions : ~region[r].mapped
  /\ locked \in IF LOCK_SURVIVES_NO_ACCESS THEN lock_pages ELSE {FALSE}
  /\ no_dump \in exclude_from_dumps
  /\ MapRegion(t, locked, no_dump)

\* Copy the chunks and the layout into the region.
Fill(t) ==
  /\ pc[t] = "fill"
  /\ secret' = secret \cup {hold[t]}
  /\ Goto(t, "seal")
  /\ UNCHANGED <<platform, current, region, os, refused, stuck, hold>>

\* A region that cannot be sealed is dropped.
Seal_Ignored(t) ==
  /\ pc[t] = "seal"
  /\ \/ region' = [region EXCEPT ![hold[t]].prot = "none"]
     \/ UNCHANGED region
  /\ Goto(t, "install")
  /\ UNCHANGED <<platform, current, os, secret, refused, stuck, hold>>
Seal(t) ==
  /\ pc[t] = "seal"
  /\ \/ /\ protect(hold[t], "none", FALSE)
        /\ Goto(t, "install")
     \/ /\ UNCHANGED <<region, os>>
        /\ Goto(t, "release")
  /\ UNCHANGED <<platform, current, secret, refused, stuck, hold>>

\* The swap under the writer lock; the thread now holds the previous map.
Install(t) ==
  /\ pc[t] = "install"
  /\ current' = hold[t]
  /\ hold' = [hold EXCEPT ![t] = current]
  /\ Goto(t, IF current = None THEN "idle" ELSE "release")
  /\ UNCHANGED <<platform, region, os, secret, refused, stuck>>

\* The name is taken, or the key was unregistered meanwhile.
InstallFails(t) ==
  /\ pc[t] = "install"
  /\ Goto(t, "release")
  /\ UNCHANGED <<platform, current, region, os, secret, refused, stuck, hold>>

Unregister(t) ==
  /\ pc[t] = "idle" /\ current # None
  /\ current' = None
  /\ hold' = [hold EXCEPT ![t] = current]
  /\ Goto(t, "release")
  /\ UNCHANGED <<platform, region, os, secret, refused, stuck>>

-----------------------------------------------------------------------------
(* Drop for GuardedRegion.                                                 *)

\* Make it writable; if the system refuses, the wipe is skipped.
DropProtect(t) ==
  /\ pc[t] = "drop"
  /\ \/ /\ protect(hold[t], "rw", FALSE)
        /\ Goto(t, "wipe")
        /\ UNCHANGED stuck
     \/ /\ stuck' = stuck \cup {hold[t]}
        /\ Goto(t, "unlock")
        /\ UNCHANGED <<region, os>>
  /\ UNCHANGED <<platform, current, secret, refused, hold>>

Wipe_Forgotten(t) ==
  /\ pc[t] = "wipe"
  /\ Goto(t, "unlock")
  /\ UNCHANGED <<platform, current, region, os, secret, refused, stuck, hold>>
Wipe(t) ==
  /\ pc[t] = "wipe"
  /\ secret' = secret \ {hold[t]}
  /\ Goto(t, "unlock")
  /\ UNCHANGED <<platform, current, region, os, refused, stuck, hold>>

\* The exclusion is undone with the lock only.
Unlock_IfLocked(t) ==
  LET r == hold[t]
  IN
  /\ pc[t] = "unlock"
  /\ os' = IF region[r].locked THEN [locked |-> unlock_pages(r), excluded |-> include_in_dumps(r)] ELSE os
  /\ Goto(t, "unmap")
  /\ UNCHANGED <<platform, current, region, secret, refused, stuck, hold>>

\* include_in_dumps, unlock_pages.
Unlock(t) ==
  LET r == hold[t]
  IN
  /\ pc[t] = "unlock"
  /\ os' = [locked   |-> IF region[r].locked THEN unlock_pages(r) ELSE os.locked,
            excluded |-> IF region[r].no_dump THEN include_in_dumps(r) ELSE os.excluded]
  /\ Goto(t, "unmap")
  /\ UNCHANGED <<platform, current, region, secret, refused, stuck, hold>>

\* The kernel takes the pages back and never shows their contents again.
Unmap(t) ==
  LET r == hold[t]
  IN
  /\ pc[t] = "unmap"
  /\ region' = [region EXCEPT ![r] = Unmapped]
  /\ secret' = secret \ {r} /\ refused' = refused \ {r} /\ stuck' = stuck \ {r}
  /\ hold' = [hold EXCEPT ![t] = None]
  /\ Goto(t, "idle")
  /\ UNCHANGED <<platform, current, os>>

-----------------------------------------------------------------------------
\* The steps inside a call.
Step(t) ==
  \/ GiveUp(t) \/ OpenLock(t) \/ OpenProtect(t) \/ OpenCount(t)
  \/ CloseLock(t) \/ CloseProtect(t) \/ Release(t)
  \/ Fill(t) \/ Seal(t) \/ Install(t) \/ InstallFails(t)
  \/ DropProtect(t) \/ Wipe(t) \/ Unlock(t) \/ Unmap(t)

Call(t) ==
  \/ Share(t) \/ Unregister(t)
  \/ \E locked \in BOOLEAN, no_dump \in BOOLEAN : NewRegion(t, locked, no_dump)

\* Nobody calls.
Rest == (\A t \in Threads : pc[t] = "idle") /\ UNCHANGED vars

Next == (\E t \in Threads : Step(t) \/ Call(t)) \/ Rest

Spec == Init /\ [][Next]_vars

\* A thread inside a call keeps running; nobody has to start a call.
FairSpec == Spec /\ \A t \in Threads : WF_vars(Step(t))

-----------------------------------------------------------------------------
(* Properties.                                                             *)

Points == {"idle", "shared", "opening", "opened", "reading", "closing", "release",
           "fill", "seal", "install", "drop", "wipe", "unlock", "unmap"}

\* Type invariant.
TypeOK ==
  /\ platform \in {"unix", "windows"}
  /\ current \in Regions \cup {None}
  /\ region \in [Regions -> [mapped : BOOLEAN, prot : {"none", "read", "rw"}, readers : Nat,
                             mutex : Threads \cup {None}, locked : BOOLEAN, no_dump : BOOLEAN]]
  /\ os \in [locked : SUBSET Regions, excluded : SUBSET Regions]
  /\ secret \subseteq Regions /\ refused \subseteq Regions /\ stuck \subseteq Regions
  /\ pc \in [Threads -> Points]
  /\ hold \in [Threads -> Regions \cup {None}]

\* No access faults: whatever other readers, writers and drops do, nothing that the
\* registry or a thread holds has been unmapped ("nothing uses it after this"), and
\* whoever reads, fills or wipes a region finds it with the protection that needs.
NoFault ==
  /\ TypeOK
  /\ current # None => region[current].mapped
  /\ \A t \in Threads :
       /\ hold[t] # None => region[hold[t]].mapped
       /\ pc[t] = "reading" => region[hold[t]].prot = "read"
       /\ pc[t] \in {"fill", "wipe"} => region[hold[t]].prot = "rw"

\* "between accesses the region is PROT_NONE": the registry's region is
\* inaccessible whenever nobody reads it or changes its protection, unless the
\* operating system refused to close it.
IdleClosed ==
  (/\ current # None /\ current \notin refused
   /\ region[current].readers = 0 /\ region[current].mutex = None) => region[current].prot = "none"

\* Key bytes are wiped before the region is unlocked and included in dumps,
\* unless it could not be made writable.
WipedFirst ==
  \A r \in secret \ stuck :
    /\ region[r].locked => r \in os.locked
    /\ region[r].no_dump => r \in os.excluded

\* The system keeps no lock and no exclusion for addresses that were given back, which
\* the next owner of them would inherit: what the code registered it also takes back,
\* on every platform and however the drop went.
NothingLeftBehind == os.locked \cup os.excluded \subseteq {r \in Regions : region[r].mapped}

\* A region that left the registry is unmapped in the end: the last of any
\* overlapping readers, rotations and removals drops it.
EventuallyUnmapped ==
  \A r \in Regions : (region[r].mapped /\ current # r) ~> (current = r \/ ~region[r].mapped)
=============================================================================
