----------------------------- MODULE PageTable -----------------------------
(***************************************************************************)
(* Heap-backed LockedBytes, the with_key scratch buffers, and the process-  *)
(* wide page table that counts the buffers on each page                     *)
(* (src/src/memory/mod.rs, Scratch in src/src/vault/mod.rs).                *)
(*                                                                         *)
(* Page locks and dump exclusions do not nest: one munlock releases a page   *)
(* for every buffer on it.  acquire_region and release_region run under the  *)
(* table mutex, system calls included, so each is one step; allocating,      *)
(* filling, wiping and freeing a buffer are steps of their own, in any order *)
(* with those of other buffers.  The operating system may refuse any lock or *)
(* exclusion.                                                              *)
(***************************************************************************)
EXTENDS LockedBytes

CONSTANT HeapSize    \* bound: bytes of heap

ASSUME PageTableAssumption == HeapSize \in Nat

VARIABLES
  table,        \* PAGES: page start -> [refs, locked, no_dump]
  os_locked,    \* pages the operating system has locked
  os_excluded,  \* pages it leaves out of dumps
  buf,          \* the buffers: [stage, scratch, addr, len, locked]
  secret        \* addresses that hold key bytes

vars == <<table, os_locked, os_excluded, buf, secret>>

Addresses == 0 .. (HeapSize - 1)
NoBuffer == [stage |-> "none", scratch |-> FALSE, addr |-> 0, len |-> 0, locked |-> FALSE]

Init ==
  /\ table = [p \in {} |-> [refs |-> 0, locked |-> FALSE, no_dump |-> FALSE]]
  /\ os_locked = {}
  /\ os_excluded = {}
  /\ buf = [b \in Buffers |-> NoBuffer]
  /\ secret = {}

-----------------------------------------------------------------------------
(* Addresses and pages.                                                    *)

Bytes(b) == {a \in Addresses : buf[b].addr <= a /\ a < buf[b].addr + buf[b].len}

\* addr & !(page - 1)
PageOf(a) == a - (a % PageSize)

\* page_span, and the pages the loops of acquire_region and release_region visit;
\* none for an empty buffer, which its callers skip.
PageSpan_Short(addr, len) ==
  {p \in Addresses : p % PageSize = 0 /\ len > 0 /\ p >= PageOf(addr) /\ p <= addr + len - 2}
PageSpan(addr, len) ==
  {p \in Addresses : p % PageSize = 0 /\ len > 0 /\ p >= PageOf(addr) /\ p <= PageOf(addr + len - 1)}

Span(b) == PageSpan(buf[b].addr, buf[b].len)

-----------------------------------------------------------------------------
(* The table.                                                              *)

\* entry(addr).or_insert(...)
Entry(p) == IF p \in DOMAIN table THEN table[p]
                                  ELSE [refs |-> 0, locked |-> FALSE, no_dump |-> FALSE]

\* A page without a lock is tried again; the reference is taken in any case.
AcquireRegion_CountsLocked(b) ==
  LET pages == Span(b)
  IN
  /\ buf[b].stage = "filled"
  /\ \E got \in SUBSET {p \in pages : ~Entry(p).locked},
        hid \in SUBSET {p \in pages : ~Entry(p).no_dump} :
       /\ table' = [p \in DOMAIN table \cup pages |->
                      IF p \in pages
                        THEN [refs    |-> IF Entry(p).locked THEN Entry(p).refs ELSE Entry(p).refs + 1,
                              locked  |-> Entry(p).locked \/ p \in got,
                              no_dump |-> Entry(p).no_dump \/ p \in hid]
                        ELSE table[p]]
       /\ os_locked' = os_locked \cup got
       /\ os_excluded' = os_excluded \cup hid
       /\ buf' = [buf EXCEPT ![b] = [@ EXCEPT !.stage = "live",
                                             !.locked = /\ buf[b].len > 0
                                                        /\ \A p \in pages : Entry(p).locked \/ p \in got]]
  /\ UNCHANGED secret
AcquireRegion(b) ==
  LET pages == Span(b)
  IN
  /\ buf[b].stage = "filled"
  /\ \E got \in SUBSET {p \in pages : ~Entry(p).locked},
        hid \in SUBSET {p \in pages : ~Entry(p).no_dump} :
       /\ table' = [p \in DOMAIN table \cup pages |->
                      IF p \in pages
                        THEN [refs    |-> Entry(p).refs + 1,
                              locked  |-> Entry(p).locked \/ p \in got,
                              no_dump |-> Entry(p).no_dump \/ p \in hid]
                        ELSE table[p]]
       /\ os_locked' = os_locked \cup got
       /\ os_excluded' = os_excluded \cup hid
       /\ buf' = [buf EXCEPT ![b] = [@ EXCEPT !.stage = "live",
                                             !.locked = /\ buf[b].len > 0
                                                        /\ \A p \in pages : Entry(p).locked \/ p \in got]]
  /\ UNCHANGED secret

\* Pages whose count reaches 0 are unlocked and included again.
ReleaseRegion_Unlocks(b) ==
  LET pages == Span(b)
      last == {p \in pages : Entry(p).refs = 1}
  IN
  /\ buf[b].stage = "wiped"
  /\ table' = [p \in DOMAIN table \ last |->
                 IF p \in pages THEN [table[p] EXCEPT !.refs = @ - 1] ELSE table[p]]
  /\ os_locked' = os_locked \ pages
  /\ os_excluded' = os_excluded \ {p \in last : Entry(p).no_dump}
  /\ buf' = [buf EXCEPT ![b].stage = "released"]
  /\ UNCHANGED secret
ReleaseRegion(b) ==
  LET pages == Span(b)
      last == {p \in pages : Entry(p).refs = 1}
  IN
  /\ buf[b].stage = "wiped"
  /\ table' = [p \in DOMAIN table \ last |->
                 IF p \in pages THEN [table[p] EXCEPT !.refs = @ - 1] ELSE table[p]]
  /\ os_locked' = os_locked \ {p \in last : Entry(p).locked}
  /\ os_excluded' = os_excluded \ {p \in last : Entry(p).no_dump}
  /\ buf' = [buf EXCEPT ![b].stage = "released"]
  /\ UNCHANGED secret

-----------------------------------------------------------------------------
(* The life of a buffer.                                                   *)

\* The allocator returns bytes no other buffer has.
Allocate(b, addr, len, scratch) ==
  /\ buf[b].stage = "none"
  /\ addr + len <= HeapSize
  /\ \A c \in Buffers : \A a \in Bytes(c) : a < addr \/ a >= addr + len
  /\ buf' = [buf EXCEPT ![b] = [stage |-> "filled", scratch |-> scratch,
                                addr |-> addr, len |-> len, locked |-> FALSE]]
  /\ UNCHANGED <<table, os_locked, os_excluded>>

\* LockedBytes::from_slice copies the bytes, then takes the page references.
FromSlice(b, addr, len) ==
  /\ Allocate(b, addr, len, FALSE)
  /\ secret' = secret \cup {a \in Addresses : addr <= a /\ a < addr + len}

\* Scratch::ensure_len and ScratchBuf::new start from zeroed bytes.
EnsureLen(b, addr, len) ==
  /\ Allocate(b, addr, len, TRUE)
  /\ UNCHANGED secret

\* read_key reassembles a key in the scratch buffer ...
Reassemble(b) ==
  /\ buf[b].stage = "live" /\ buf[b].scratch
  /\ secret' = secret \cup Bytes(b)
  /\ buf' = [buf EXCEPT ![b].stage = "reading"]
  /\ UNCHANGED <<table, os_locked, os_excluded>>

\* ... and the guard wipes it on return, error and unwind.
ZeroOnExit(b) ==
  /\ buf[b].stage = "reading"
  /\ secret' = secret \ Bytes(b)
  /\ buf' = [buf EXCEPT ![b].stage = "live"]
  /\ UNCHANGED <<table, os_locked, os_excluded>>

\* Drop: zeroize, then release_region, then free.
Wipe_Nothing(b) ==
  /\ buf[b].stage = "live"
  /\ buf' = [buf EXCEPT ![b].stage = "wiped"]
  /\ UNCHANGED <<table, os_locked, os_excluded, secret>>
Wipe(b) ==
  /\ buf[b].stage = "live"
  /\ secret' = secret \ Bytes(b)
  /\ buf' = [buf EXCEPT ![b].stage = "wiped"]
  /\ UNCHANGED <<table, os_locked, os_excluded>>

Free(b) ==
  /\ buf[b].stage = "released"
  /\ buf' = [buf EXCEPT ![b] = NoBuffer]
  /\ UNCHANGED <<table, os_locked, os_excluded, secret>>

Next ==
  \E b \in Buffers :
    \/ \E addr \in Addresses, len \in 0 .. HeapSize : FromSlice(b, addr, len) \/ EnsureLen(b, addr, len)
    \/ AcquireRegion(b) \/ Reassemble(b) \/ ZeroOnExit(b) \/ Wipe(b) \/ ReleaseRegion(b) \/ Free(b)

Spec == Init /\ [][Next]_vars

-----------------------------------------------------------------------------
(* Properties.                                                             *)

Stages == {"none", "filled", "live", "reading", "wiped", "released"}
Pages == {p \in Addresses : p % PageSize = 0}

\* Type invariant.
TypeOK ==
  /\ DOMAIN table \subseteq Pages
  /\ table \in [DOMAIN table -> [refs : Nat \ {0}, locked : BOOLEAN, no_dump : BOOLEAN]]
  /\ os_locked \subseteq Pages
  /\ os_excluded \subseteq Pages
  /\ buf \in [Buffers -> [stage : Stages, scratch : BOOLEAN, addr : Nat, len : Nat, locked : BOOLEAN]]
  /\ secret \subseteq Addresses

\* The buffers that hold references, and those of them on page p.
Registered == {b \in Buffers : buf[b].stage \in {"live", "reading", "wiped"}}
On(p) == {b \in Registered : p \in Span(b)}

\* "A page is in the map exactly while at least one live buffer touches it", and
\* its count is the number of those buffers.
CountsExact ==
  /\ \A p \in Pages : p \in DOMAIN table <=> On(p) # {}
  /\ \A p \in DOMAIN table : table[p].refs = Cardinality(On(p))

\* The table knows what the operating system holds: no page stays locked or
\* excluded after its last buffer, and none is believed to be that is not.
OsAgrees ==
  /\ os_locked = {p \in DOMAIN table : table[p].locked}
  /\ os_excluded = {p \in DOMAIN table : table[p].no_dump}

\* A buffer that reported its pages locked holds key bytes only on locked pages,
\* from acquire_region until it is freed, whatever other buffers on these pages
\* do ("the kernel must still consider the pages locked while we are writing").
KeyBytesLocked ==
  \A b \in Buffers : buf[b].locked => \A a \in Bytes(b) \cap secret : PageOf(a) \in os_locked

\* Key bytes are only in buffers that are in use: freed memory is clean.
FreedClean == secret \subseteq UNION {Bytes(b) : b \in {c \in Buffers : buf[c].stage \in {"filled", "live", "reading"}}}
=============================================================================
