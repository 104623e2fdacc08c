---------------------------- MODULE Memory_proofs ----------------------------
(***************************************************************************)
(* For every number of buffers and page size, and                          *)
(*   - every heap: the page counts are exact, the table agrees with the      *)
(*     operating system, and key bytes of a locked buffer stay on locked     *)
(*     pages;                                                              *)
(*   - all block sizes and every amount of memory: the pool neither loses,   *)
(*     shares nor overlaps blocks, and hands out zeroed ones.              *)
(***************************************************************************)
EXTENDS PageTable, Pool, FiniteSetTheorems, TLAPS

-----------------------------------------------------------------------------
(* The page table: the inductive invariant.                                *)

\* A registered buffer that reported its pages locked has every page locked
\* in the table; a buffer without references reports nothing.
FlagsBacked ==
  \A b \in Buffers :
    buf[b].locked =>
      /\ buf[b].stage \notin {"none", "filled"}
      /\ b \in Registered => \A p \in Span(b) : p \in DOMAIN table /\ table[p].locked

\* The allocator never hands out a byte twice.
Disjoint == \A b, c \in Buffers : b # c => Bytes(b) \cap Bytes(c) = {}

IInv == TypeOK /\ CountsExact /\ OsAgrees /\ FlagsBacked /\ Disjoint /\ FreedClean

-----------------------------------------------------------------------------
(* Pages.                                                                  *)

\* A number is its page start plus an offset, and page starts are multiples.
LEMMA PageParts ==
  ASSUME NEW a \in Nat
  PROVE  /\ PageOf(a) \in Nat
         /\ PageOf(a) <= a
         /\ PageOf(a) % PageSize = 0
<1>0. PageSize \in Nat \ {0}
  BY LockedBytesAssumption
<1>1. /\ a = PageSize * (a \div PageSize) + (a % PageSize)
      /\ a \div PageSize \in Nat
      /\ a % PageSize \in 0 .. (PageSize - 1)
  BY <1>0, SMT
<1>2. ASSUME NEW q \in Nat PROVE (PageSize * q) % PageSize = 0 /\ PageSize * q \in Nat
  BY <1>0, SMT
<1>3. PageOf(a) = PageSize * (a \div PageSize)
  BY <1>0, <1>1, <1>2, SMT DEF PageOf
<1>4. PageOf(a) <= a
  BY <1>0, <1>1, SMT DEF PageOf
<1> QED
  BY <1>1, <1>2, <1>3, <1>4

\* Page starts grow with the address.
LEMMA PageMonotone ==
  ASSUME NEW a \in Nat, NEW c \in Nat, a <= c
  PROVE  PageOf(a) <= PageOf(c)
<1>0. PageSize \in Nat \ {0}
  BY LockedBytesAssumption
<1> QED
  BY <1>0, SMT DEF PageOf

\* page_span covers every byte of the buffer.
LEMMA BytesOnSpan ==
  ASSUME TypeOK, NEW b \in Buffers, NEW a \in Bytes(b)
  PROVE  PageOf(a) \in Span(b)
<1>1. /\ a \in Nat /\ a < HeapSize
      /\ buf[b].addr \in Nat /\ buf[b].len \in Nat
      /\ buf[b].addr <= a /\ a <= buf[b].addr + buf[b].len - 1
      /\ buf[b].len > 0 /\ buf[b].addr + buf[b].len - 1 \in Nat
      /\ HeapSize \in Nat
  BY PageTableAssumption DEF TypeOK, Bytes, Addresses
<1>2. /\ PageOf(a) \in Nat /\ PageOf(a) <= a /\ PageOf(a) % PageSize = 0
  BY <1>1, PageParts
<1>3. PageOf(buf[b].addr) <= PageOf(a)
  BY <1>1, PageMonotone
<1>4. PageOf(a) <= PageOf(buf[b].addr + buf[b].len - 1)
  BY <1>1, PageMonotone
<1>5. PageOf(a) \in Addresses
  BY <1>1, <1>2 DEF Addresses
<1>6. PageOf(buf[b].addr) \in Nat
  BY <1>1, PageParts
<1> HIDE DEF PageOf
<1> QED
  BY <1>1, <1>2, <1>3, <1>4, <1>5, <1>6 DEF Span, PageSpan

\* The pages of a buffer are pages.
LEMMA SpanPages ==
  ASSUME NEW b \in Buffers
  PROVE  Span(b) \subseteq Pages
  BY DEF Span, PageSpan, Pages

\* The buffers on a page are finitely many.
LEMMA OnFinite ==
  ASSUME NEW p
  PROVE  IsFiniteSet(On(p))
<1>1. On(p) \subseteq Buffers
  BY DEF On, Registered
<1> QED
  BY <1>1, LockedBytesAssumption, FS_Subset

-----------------------------------------------------------------------------
(* What the invariant gives.                                               *)

\* Locked buffers hold key bytes on locked pages.
LEMMA LockedOnPages ==
  ASSUME IInv
  PROVE  KeyBytesLocked
<1> SUFFICES ASSUME NEW b \in Buffers, buf[b].locked, NEW a \in Bytes(b), a \in secret
             PROVE  PageOf(a) \in os_locked
  BY DEF KeyBytesLocked
<1>1. PICK c \in Buffers : buf[c].stage \in {"filled", "live", "reading"} /\ a \in Bytes(c)
  BY DEF IInv, FreedClean
<1>2. c = b
  BY <1>1 DEF IInv, Disjoint
<1>3. b \in Registered
  BY <1>1, <1>2 DEF IInv, FlagsBacked, Registered
<1>4. PageOf(a) \in Span(b)
  BY BytesOnSpan DEF IInv
<1> QED
  BY <1>3, <1>4 DEF IInv, FlagsBacked, OsAgrees

\* No page is in the table, locked or excluded before the first buffer.
LEMMA InitInv ==
  ASSUME Init
  PROVE  IInv
<1> USE DEF Init, NoBuffer
<1>1. DOMAIN table = {} /\ Registered = {}
  BY DEF Registered
<1>2. \A b \in Buffers : Bytes(b) = {}
  BY PageTableAssumption DEF Bytes, Addresses
<1>3. TypeOK
  BY <1>1 DEF TypeOK, Stages
<1>4. CountsExact
  BY <1>1 DEF CountsExact, On
<1>5. OsAgrees
  BY <1>1 DEF OsAgrees
<1>6. FlagsBacked
  BY DEF FlagsBacked
<1>7. Disjoint
  BY <1>2 DEF Disjoint
<1>8. FreedClean
  BY DEF FreedClean
<1> QED
  BY <1>3, <1>4, <1>5, <1>6, <1>7, <1>8 DEF IInv

-----------------------------------------------------------------------------
(* Steps.                                                                  *)

\* A step that changes neither the table nor a registered buffer keeps the
\* counts, the agreement with the operating system and the flags.
LEMMA RegisteredSame ==
  ASSUME IInv, TypeOK',
         UNCHANGED <<table, os_locked, os_excluded>>,
         Registered' = Registered,
         \A b \in Buffers : b \in Registered =>
            /\ buf'[b].addr = buf[b].addr
            /\ buf'[b].len = buf[b].len
            /\ buf'[b].locked = buf[b].locked,
         \A b \in Buffers : buf'[b].locked => buf[b].locked /\ buf'[b].stage \notin {"none", "filled"}
  PROVE  CountsExact' /\ OsAgrees' /\ FlagsBacked'
<1>1. \A b \in Registered : Span(b)' = Span(b)
  BY DEF Span, Registered
<1>2. \A p : On(p)' = On(p)
  BY <1>1 DEF On
<1>3. CountsExact'
  BY <1>2 DEF IInv, CountsExact
<1>4. OsAgrees'
  BY DEF IInv, OsAgrees
<1>5. FlagsBacked'
  BY <1>1 DEF IInv, FlagsBacked
<1> QED
  BY <1>3, <1>4, <1>5

\* Only allocating moves a buffer: any other step keeps the bytes apart.
LEMMA BytesSame ==
  ASSUME NEW b \in Buffers, buf'[b].addr = buf[b].addr, buf'[b].len = buf[b].len
  PROVE  Bytes(b)' = Bytes(b)
  BY DEF Bytes

\* Allocating, with or without copying key bytes into the buffer.
LEMMA AllocateStep ==
  ASSUME IInv, NEW b \in Buffers, NEW addr \in Addresses, NEW len \in 0 .. HeapSize,
         NEW scratch \in BOOLEAN, Allocate(b, addr, len, scratch),
         \/ UNCHANGED secret
         \/ secret' = secret \cup {a \in Addresses : addr <= a /\ a < addr + len}
  PROVE  IInv'
<1> USE DEF Allocate
<1>0. addr \in Nat /\ len \in Nat
  BY PageTableAssumption DEF Addresses
<1>1. /\ buf'[b] = [stage |-> "filled", scratch |-> scratch, addr |-> addr, len |-> len, locked |-> FALSE]
      /\ \A c \in Buffers : c # b => buf'[c] = buf[c]
  BY DEF IInv, TypeOK
<1>2. TypeOK'
  <2>1. buf' \in [Buffers -> [stage : Stages, scratch : BOOLEAN, addr : Nat, len : Nat, locked : BOOLEAN]]
    BY <1>0 DEF IInv, TypeOK, Stages
  <2>2. secret' \subseteq Addresses
    BY DEF IInv, TypeOK
  <2> QED
    BY <2>1, <2>2 DEF IInv, TypeOK, Pages
<1>3. Registered' = Registered
  BY <1>1 DEF Registered
<1>4. b \notin Registered
  BY DEF Registered
<1>5. \A c \in Buffers : c \in Registered => buf'[c] = buf[c]
  BY <1>1, <1>4
<1>5a. \A c \in Buffers : buf'[c].locked => buf[c].locked /\ buf'[c].stage \notin {"none", "filled"}
  <2> SUFFICES ASSUME NEW c \in Buffers, buf'[c].locked
               PROVE  buf[c].locked /\ buf'[c].stage \notin {"none", "filled"}
    OBVIOUS
  <2>1. c # b
    BY <1>1
  <2> QED
    BY <2>1, <1>1 DEF IInv, FlagsBacked
<1>6. CountsExact' /\ OsAgrees' /\ FlagsBacked'
  BY <1>2, <1>3, <1>5, <1>5a, RegisteredSame, Zenon
<1>7. /\ Bytes(b)' = {a \in Addresses : addr <= a /\ a < addr + len}
      /\ \A c \in Buffers : c # b => Bytes(c)' = Bytes(c)
  BY <1>1 DEF Bytes
<1>8. \A c \in Buffers : c # b => Bytes(c) \cap Bytes(b)' = {}
  <2> SUFFICES ASSUME NEW c \in Buffers, c # b, NEW a \in Bytes(c), a \in Bytes(b)'
               PROVE  FALSE
    OBVIOUS
  <2>1. a \in Nat /\ addr <= a /\ a < addr + len
    BY <1>7, PageTableAssumption DEF Addresses
  <2>2. a < addr \/ a >= addr + len
    OBVIOUS
  <2> QED
    BY <1>0, <2>1, <2>2
<1>9. Disjoint'
  <2> SUFFICES ASSUME NEW c \in Buffers, NEW d \in Buffers, c # d
               PROVE  Bytes(c)' \cap Bytes(d)' = {}
    BY DEF Disjoint
  <2>1. CASE c = b
    BY <2>1, <1>7, <1>8
  <2>2. CASE d = b
    BY <2>2, <1>7, <1>8
  <2>3. CASE c # b /\ d # b
    BY <2>3, <1>7 DEF IInv, Disjoint
  <2> QED
    BY <2>1, <2>2, <2>3
<1>10. FreedClean'
  <2> SUFFICES ASSUME NEW a \in secret'
               PROVE  \E c \in Buffers : buf'[c].stage \in {"filled", "live", "reading"} /\ a \in Bytes(c)'
    BY DEF FreedClean
  <2>1. CASE a \in secret
    <3>1. PICK c \in Buffers : buf[c].stage \in {"filled", "live", "reading"} /\ a \in Bytes(c)
      BY <2>1 DEF IInv, FreedClean
    <3>2. c # b
      BY <3>1
    <3> QED
      BY <3>1, <3>2, <1>1, <1>7
  <2>2. CASE a \notin secret
    BY <2>2, <1>1, <1>7
  <2> QED
    BY <2>1, <2>2
<1> QED
  BY <1>2, <1>6, <1>9, <1>10 DEF IInv

\* Reading into a scratch buffer, wiping it, and wiping a buffer for good: the
\* buffer keeps its references.
LEMMA ContentStep ==
  ASSUME IInv, NEW b \in Buffers, Reassemble(b) \/ ZeroOnExit(b) \/ Wipe(b)
  PROVE  IInv'
<1> USE DEF Reassemble, ZeroOnExit, Wipe
<1>1. PICK stage \in {"live", "reading", "wiped"} : buf' = [buf EXCEPT ![b].stage = stage]
  OBVIOUS
<1>2. /\ buf'[b] = [buf[b] EXCEPT !.stage = stage]
      /\ \A c \in Buffers : c # b => buf'[c] = buf[c]
      /\ buf' \in [Buffers -> [stage : Stages, scratch : BOOLEAN, addr : Nat, len : Nat, locked : BOOLEAN]]
  BY <1>1 DEF IInv, TypeOK, Stages
<1>3. \A c \in Buffers : /\ buf'[c].addr = buf[c].addr /\ buf'[c].len = buf[c].len
                         /\ buf'[c].locked = buf[c].locked
  BY <1>2 DEF IInv, TypeOK
<1>4. buf[b].stage \in {"live", "reading"} /\ buf'[b].stage = stage
  BY <1>2 DEF IInv, TypeOK
<1>5. Registered' = Registered
  BY <1>2, <1>4 DEF Registered
<1>6. \A c \in Buffers : Bytes(c)' = Bytes(c)
  BY <1>3, BytesSame
<1>7. TypeOK'
  <2>1. secret' \subseteq Addresses
    BY DEF IInv, TypeOK, Bytes
  <2> QED
    BY <1>2, <2>1 DEF IInv, TypeOK, Pages
<1>8. \A c \in Buffers : buf'[c].locked => buf[c].locked /\ buf'[c].stage \notin {"none", "filled"}
  BY <1>2, <1>3, <1>4 DEF IInv, FlagsBacked
<1>9. CountsExact' /\ OsAgrees' /\ FlagsBacked'
  BY <1>3, <1>5, <1>7, <1>8, RegisteredSame
<1>10. Disjoint'
  BY <1>6 DEF IInv, Disjoint
<1>11. FreedClean'
  <2> SUFFICES ASSUME NEW a \in secret'
               PROVE  \E c \in Buffers : buf'[c].stage \in {"filled", "live", "reading"} /\ a \in Bytes(c)'
    BY DEF FreedClean
  <2>1. CASE Reassemble(b) /\ a \in Bytes(b)
    BY <2>1, <1>2, <1>4, <1>6 DEF IInv, TypeOK
  <2>2. CASE a \in secret /\ a \notin Bytes(b)
    <3>1. PICK c \in Buffers : buf[c].stage \in {"filled", "live", "reading"} /\ a \in Bytes(c)
      BY <2>2 DEF IInv, FreedClean
    <3> QED
      BY <2>2, <3>1, <1>2, <1>6
  <2> QED
    BY <2>1, <2>2
<1> QED
  BY <1>7, <1>9, <1>10, <1>11 DEF IInv

\* Freeing a buffer whose references are gone.
LEMMA FreeStep ==
  ASSUME IInv, NEW b \in Buffers, Free(b)
  PROVE  IInv'
<1> USE DEF Free
<1>1. /\ buf'[b] = NoBuffer
      /\ \A c \in Buffers : c # b => buf'[c] = buf[c]
      /\ buf' \in [Buffers -> [stage : Stages, scratch : BOOLEAN, addr : Nat, len : Nat, locked : BOOLEAN]]
  BY DEF IInv, TypeOK, Stages, NoBuffer
<1>2. TypeOK'
  BY <1>1 DEF IInv, TypeOK, Pages
<1>3. Registered' = Registered /\ b \notin Registered
  BY <1>1 DEF Registered, NoBuffer
<1>4. \A c \in Buffers : buf'[c].locked => buf[c].locked /\ buf'[c].stage \notin {"none", "filled"}
  <2> SUFFICES ASSUME NEW c \in Buffers, buf'[c].locked
               PROVE  buf[c].locked /\ buf'[c].stage \notin {"none", "filled"}
    OBVIOUS
  <2>1. c # b
    BY <1>1 DEF NoBuffer
  <2> QED
    BY <2>1, <1>1 DEF IInv, FlagsBacked
<1>5. CountsExact' /\ OsAgrees' /\ FlagsBacked'
  BY <1>1, <1>2, <1>3, <1>4, RegisteredSame
<1>6. Bytes(b)' = {} /\ \A c \in Buffers : c # b => Bytes(c)' = Bytes(c)
  BY <1>1, PageTableAssumption DEF Bytes, NoBuffer, Addresses
<1>7. Disjoint'
  BY <1>6 DEF IInv, Disjoint
<1>8. FreedClean'
  <2> SUFFICES ASSUME NEW a \in secret
               PROVE  \E c \in Buffers : buf'[c].stage \in {"filled", "live", "reading"} /\ a \in Bytes(c)'
    BY DEF FreedClean
  <2>1. PICK c \in Buffers : buf[c].stage \in {"filled", "live", "reading"} /\ a \in Bytes(c)
    BY DEF IInv, FreedClean
  <2> QED
    BY <2>1, <1>1, <1>6
<1> QED
  BY <1>2, <1>5, <1>7, <1>8 DEF IInv

\* A step of acquire_region or release_region leaves bytes and key bytes alone.
LEMMA RegionStep ==
  ASSUME IInv, NEW b \in Buffers, UNCHANGED secret,
         NEW stage \in {"live", "released"}, NEW flag \in BOOLEAN,
         buf' = [buf EXCEPT ![b] = [@ EXCEPT !.stage = stage, !.locked = flag]],
         \/ buf[b].stage = "filled" /\ stage = "live"
         \/ buf[b].stage = "wiped" /\ stage = "released"
  PROVE  /\ buf'[b] = [buf[b] EXCEPT !.stage = stage, !.locked = flag]
         /\ \A c \in Buffers : c # b => buf'[c] = buf[c]
         /\ buf' \in [Buffers -> [stage : Stages, scratch : BOOLEAN, addr : Nat, len : Nat, locked : BOOLEAN]]
         /\ \A c \in Buffers : Span(c)' = Span(c)
         /\ Disjoint' /\ FreedClean'
<1>1. /\ buf'[b] = [buf[b] EXCEPT !.stage = stage, !.locked = flag]
      /\ \A c \in Buffers : c # b => buf'[c] = buf[c]
      /\ buf' \in [Buffers -> [stage : Stages, scratch : BOOLEAN, addr : Nat, len : Nat, locked : BOOLEAN]]
  <2> DEFINE Buffer == [stage : Stages, scratch : BOOLEAN, addr : Nat, len : Nat, locked : BOOLEAN]
             changed == [buf[b] EXCEPT !.stage = stage, !.locked = flag]
  <2>1. buf \in [Buffers -> Buffer]
    BY DEF IInv, TypeOK
  <2>2. buf' = [buf EXCEPT ![b] = changed]
    BY <2>1
  <2>3. stage \in Stages /\ buf[b] \in Buffer
    BY <2>1 DEF Stages
  <2>4. changed \in Buffer
    BY <2>3, Zenon
  <2> HIDE DEF Buffer, changed
  <2>5. /\ buf'[b] = changed
        /\ \A c \in Buffers : c # b => buf'[c] = buf[c]
        /\ buf' \in [Buffers -> Buffer]
    BY <2>1, <2>2, <2>4
  <2> QED
    BY <2>5 DEF Buffer, changed
<1>2. \A c \in Buffers : buf'[c].addr = buf[c].addr /\ buf'[c].len = buf[c].len
  BY <1>1 DEF IInv, TypeOK
<1>3. \A c \in Buffers : Bytes(c)' = Bytes(c)
  BY <1>2, BytesSame
<1>4. \A c \in Buffers : Span(c)' = Span(c)
  BY <1>2 DEF Span
<1>5. Disjoint'
  BY <1>3 DEF IInv, Disjoint
<1>6. FreedClean'
  <2> SUFFICES ASSUME NEW a \in secret
               PROVE  \E c \in Buffers : buf'[c].stage \in {"filled", "live", "reading"} /\ a \in Bytes(c)'
    BY DEF FreedClean
  <2>1. PICK c \in Buffers : buf[c].stage \in {"filled", "live", "reading"} /\ a \in Bytes(c)
    BY DEF IInv, FreedClean
  <2>2. buf'[c].stage \in {"filled", "live", "reading"}
    BY <2>1, <1>1 DEF IInv, TypeOK
  <2> QED
    BY <2>1, <2>2, <1>3
<1> QED
  BY <1>1, <1>4, <1>5, <1>6

\* The entry of a page, present or not, counts the buffers on it.
LEMMA EntryCounts ==
  ASSUME IInv, NEW p \in Pages
  PROVE  /\ Entry(p) \in [refs : Nat, locked : BOOLEAN, no_dump : BOOLEAN]
         /\ Entry(p).refs = Cardinality(On(p))
         /\ p \notin DOMAIN table => ~Entry(p).locked /\ ~Entry(p).no_dump
<1>1. CASE p \in DOMAIN table
  BY <1>1 DEF IInv, TypeOK, CountsExact, Entry
<1>2. CASE p \notin DOMAIN table
  <2>1. On(p) = {}
    BY <1>2 DEF IInv, CountsExact
  <2>2. Cardinality(On(p)) = 0
    BY <2>1, FS_EmptySet, Zenon
  <2> QED
    BY <1>2, <2>2 DEF Entry
<1> QED
  BY <1>1, <1>2

\* acquire_region adds the buffer to each of its pages, once.
LEMMA AcquireStep ==
  ASSUME IInv, NEW b \in Buffers, AcquireRegion(b)
  PROVE  IInv'
<1> DEFINE pages == Span(b)
           flag(got) == buf[b].len > 0 /\ \A p \in pages : Entry(p).locked \/ p \in got
           new(p, got, hid) == [refs    |-> Entry(p).refs + 1,
                                locked  |-> Entry(p).locked \/ p \in got,
                                no_dump |-> Entry(p).no_dump \/ p \in hid]
<1>0. PICK got \in SUBSET {p \in pages : ~Entry(p).locked},
           hid \in SUBSET {p \in pages : ~Entry(p).no_dump} :
         /\ table' = [p \in DOMAIN table \cup pages |->
                        IF p \in pages THEN new(p, got, hid) ELSE table[p]]
         /\ os_locked' = os_locked \cup got
         /\ os_excluded' = os_excluded \cup hid
         /\ buf' = [buf EXCEPT ![b] = [@ EXCEPT !.stage = "live", !.locked = flag(got)]]
  BY Zenon DEF AcquireRegion
<1> USE DEF IInv
<1>1. /\ buf'[b] = [buf[b] EXCEPT !.stage = "live", !.locked = flag(got)]
      /\ \A c \in Buffers : c # b => buf'[c] = buf[c]
      /\ buf' \in [Buffers -> [stage : Stages, scratch : BOOLEAN, addr : Nat, len : Nat, locked : BOOLEAN]]
      /\ \A c \in Buffers : Span(c)' = Span(c)
      /\ Disjoint' /\ FreedClean'
  <2>1. flag(got) \in BOOLEAN /\ UNCHANGED secret /\ buf[b].stage = "filled"
    BY DEF AcquireRegion
  <2> HIDE DEF flag, IInv
  <2> QED
    BY <1>0, <2>1, RegionStep, Zenon
<1>2. pages \subseteq Pages
  BY SpanPages
<1>3. \A p \in pages : /\ Entry(p) \in [refs : Nat, locked : BOOLEAN, no_dump : BOOLEAN]
                       /\ Entry(p).refs = Cardinality(On(p))
  BY <1>2, EntryCounts
<1>4. /\ DOMAIN table' = DOMAIN table \cup pages
      /\ \A p \in pages : table'[p] = new(p, got, hid)
      /\ \A p \in DOMAIN table \ pages : table'[p] = table[p]
  BY <1>0
<1>4a. \A p \in pages : /\ table'[p].refs = Entry(p).refs + 1
                        /\ table'[p].locked = (Entry(p).locked \/ p \in got)
                        /\ table'[p].no_dump = (Entry(p).no_dump \/ p \in hid)
  <2> SUFFICES ASSUME NEW p \in pages
               PROVE  /\ table'[p].refs = Entry(p).refs + 1
                      /\ table'[p].locked = (Entry(p).locked \/ p \in got)
                      /\ table'[p].no_dump = (Entry(p).no_dump \/ p \in hid)
    OBVIOUS
  <2> DEFINE l == Entry(p).locked \/ p \in got
             d == Entry(p).no_dump \/ p \in hid
             k == Entry(p).refs + 1
  <2>1. table'[p] = [refs |-> k, locked |-> l, no_dump |-> d]
    BY <1>4
  <2> HIDE DEF l, d, k
  <2>2. table'[p].refs = k /\ table'[p].locked = l /\ table'[p].no_dump = d
    BY <2>1
  <2> QED
    BY <2>2 DEF l, d, k
<1>4b. buf'[b].locked = flag(got) /\ buf'[b].stage = "live"
  <2> HIDE DEF flag
  <2> QED
    BY <1>1 DEF TypeOK
<1>5. TypeOK'
  <2>1. DOMAIN table' \subseteq Pages
    BY <1>2, <1>4 DEF TypeOK
  <2>2. table' \in [DOMAIN table' -> [refs : Nat \ {0}, locked : BOOLEAN, no_dump : BOOLEAN]]
    <3>1. \A p \in pages : new(p, got, hid) \in [refs : Nat \ {0}, locked : BOOLEAN, no_dump : BOOLEAN]
      BY <1>3
    <3>2. \A p \in DOMAIN table : table[p] \in [refs : Nat \ {0}, locked : BOOLEAN, no_dump : BOOLEAN]
      BY DEF TypeOK
    <3> HIDE DEF new, pages
    <3> QED
      BY <1>0, <3>1, <3>2
  <2>3. os_locked' \subseteq Pages /\ os_excluded' \subseteq Pages
    BY <1>0, <1>2 DEF TypeOK
  <2>4. secret' \subseteq Addresses
    BY DEF AcquireRegion, TypeOK
  <2> HIDE DEF pages
  <2> QED
    BY <1>1, <2>1, <2>2, <2>3, <2>4 DEF TypeOK, Pages
<1>6. b \notin Registered /\ Registered' = Registered \cup {b}
  <2>1. buf[b].stage = "filled" /\ buf'[b].stage = "live"
    BY <1>1 DEF AcquireRegion, TypeOK
  <2> QED
    BY <2>1, <1>1, Zenon DEF Registered
<1>7. ASSUME NEW p
      PROVE  /\ b \notin On(p)
             /\ p \in pages => On(p)' = On(p) \cup {b}
             /\ p \notin pages => On(p)' = On(p)
  BY <1>1, <1>6 DEF On, Registered
<1>8. CountsExact'
  <2>1. ASSUME NEW p \in Pages PROVE p \in DOMAIN table' <=> On(p)' # {}
    BY <1>4, <1>7 DEF CountsExact
  <2>2. ASSUME NEW p \in DOMAIN table' PROVE table'[p].refs = Cardinality(On(p)')
    <3>1. CASE p \in pages
      <4>1. IsFiniteSet(On(p)) /\ b \notin On(p)
        BY <1>7, OnFinite
      <4>2. Cardinality(On(p) \cup {b}) = Cardinality(On(p)) + 1
        BY <4>1, FS_AddElement, Zenon
      <4>3. On(p)' = On(p) \cup {b}
        BY <3>1, <1>7
      <4> QED
        BY <3>1, <4>2, <4>3, <1>3, <1>4a
    <3>2. CASE p \notin pages
      <4>1. On(p)' = On(p)
        BY <3>2, <1>7
      <4> QED
        BY <3>2, <4>1, <1>4 DEF CountsExact
    <3> QED
      BY <3>1, <3>2
  <2> QED
    BY <2>1, <2>2 DEF CountsExact, Pages, Addresses
<1>9. OsAgrees'
  <2>1. \A p \in DOMAIN table' :
          /\ p \in os_locked' <=> table'[p].locked
          /\ p \in os_excluded' <=> table'[p].no_dump
    <3> SUFFICES ASSUME NEW p \in DOMAIN table'
                 PROVE  /\ p \in os_locked' <=> table'[p].locked
                        /\ p \in os_excluded' <=> table'[p].no_dump
      OBVIOUS
    <3>1. CASE p \in pages
      <4>1. /\ p \in os_locked <=> Entry(p).locked
            /\ p \in os_excluded <=> Entry(p).no_dump
        BY <3>1, <1>2, EntryCounts DEF OsAgrees, Entry
      <4>2. /\ table'[p].locked <=> Entry(p).locked \/ p \in got
            /\ table'[p].no_dump <=> Entry(p).no_dump \/ p \in hid
        BY <3>1, <1>4a, Zenon
      <4> QED
        BY <4>1, <4>2, <1>0
    <3>2. CASE p \notin pages
      BY <3>2, <1>0, <1>4 DEF OsAgrees
    <3> QED
      BY <3>1, <3>2
  <2>2. os_locked' \subseteq DOMAIN table' /\ os_excluded' \subseteq DOMAIN table'
    BY <1>0, <1>4 DEF OsAgrees
  <2> QED
    BY <2>1, <2>2 DEF OsAgrees
<1>10. FlagsBacked'
  <2> SUFFICES ASSUME NEW c \in Buffers, buf'[c].locked
               PROVE  /\ buf'[c].stage \notin {"none", "filled"}
                      /\ c \in Registered' => \A p \in Span(c)' : p \in DOMAIN table' /\ table'[p].locked
    BY DEF FlagsBacked
  <2>1. CASE c = b
    <3>1. flag(got) /\ buf'[b].stage = "live"
      BY <2>1, <1>4b, Zenon
    <3> QED
      BY <2>1, <3>1, <1>1, <1>4, <1>4a
  <2>2. CASE c # b
    <3>1. buf[c].locked /\ buf[c].stage \notin {"none", "filled"} /\ buf'[c].stage = buf[c].stage
      BY <2>2, <1>1 DEF FlagsBacked
    <3>2. ASSUME c \in Registered', NEW p \in Span(c) PROVE p \in DOMAIN table' /\ table'[p].locked
      <4>1. p \in DOMAIN table /\ table[p].locked
        BY <3>1, <3>2, <2>2, <1>6 DEF FlagsBacked
      <4> QED
        BY <4>1, <1>4, <1>4a, Zenon DEF Entry
    <3> QED
      BY <3>1, <3>2, <1>1
  <2> QED
    BY <2>1, <2>2
<1> QED
  BY <1>1, <1>5, <1>8, <1>9, <1>10

\* release_region takes the buffer off each of its pages, and lets go of the
\* pages where it was the last.
LEMMA ReleaseStep ==
  ASSUME IInv, NEW b \in Buffers, ReleaseRegion(b)
  PROVE  IInv'
<1> DEFINE pages == Span(b)
           last == {p \in pages : Entry(p).refs = 1}
           less(p) == [table[p] EXCEPT !.refs = @ - 1]
<1>0. /\ buf[b].stage = "wiped"
      /\ table' = [p \in DOMAIN table \ last |-> IF p \in pages THEN less(p) ELSE table[p]]
      /\ os_locked' = os_locked \ {p \in last : Entry(p).locked}
      /\ os_excluded' = os_excluded \ {p \in last : Entry(p).no_dump}
      /\ buf' = [buf EXCEPT ![b].stage = "released"]
      /\ UNCHANGED secret
  BY DEF ReleaseRegion
<1> USE DEF IInv
<1>1. /\ buf'[b] = [buf[b] EXCEPT !.stage = "released", !.locked = buf[b].locked]
      /\ \A c \in Buffers : c # b => buf'[c] = buf[c]
      /\ buf' \in [Buffers -> [stage : Stages, scratch : BOOLEAN, addr : Nat, len : Nat, locked : BOOLEAN]]
      /\ \A c \in Buffers : Span(c)' = Span(c)
      /\ Disjoint' /\ FreedClean'
  <2>1. buf[b].locked \in BOOLEAN
    BY DEF TypeOK
  <2>2. buf' = [buf EXCEPT ![b] = [@ EXCEPT !.stage = "released", !.locked = buf[b].locked]]
    BY <1>0, Zenon DEF TypeOK
  <2> HIDE DEF IInv
  <2> QED
    BY <1>0, <2>1, <2>2, RegionStep, Zenon
<1>2. pages \subseteq Pages
  BY SpanPages
<1>3. b \in Registered /\ Registered' = Registered \ {b}
  <2>1. buf'[b].stage = "released"
    BY <1>1 DEF TypeOK
  <2> QED
    BY <2>1, <1>0, <1>1 DEF Registered
<1>4. ASSUME NEW p
      PROVE  /\ p \in pages => b \in On(p) /\ On(p)' = On(p) \ {b}
             /\ p \notin pages => On(p)' = On(p)
  BY <1>1, <1>3 DEF On, Registered
<1>5. ASSUME NEW p \in pages
      PROVE  /\ p \in DOMAIN table
             /\ Entry(p) = table[p]
             /\ table[p].refs = Cardinality(On(p))
             /\ table[p].refs \in Nat \ {0}
             /\ Cardinality(On(p)') = table[p].refs - 1
             /\ IsFiniteSet(On(p)')
  <2>1. b \in On(p) /\ On(p)' = On(p) \ {b} /\ p \in Pages
    BY <1>2, <1>4
  <2>2. p \in DOMAIN table
    BY <2>1 DEF CountsExact
  <2>3. IsFiniteSet(On(p))
    BY OnFinite
  <2>4. Cardinality(On(p) \ {b}) = Cardinality(On(p)) - 1 /\ IsFiniteSet(On(p) \ {b})
    BY <2>1, <2>3, FS_RemoveElement
  <2>5. table[p].refs = Cardinality(On(p)) /\ table[p].refs \in Nat \ {0}
    BY <2>2 DEF CountsExact, TypeOK
  <2> QED
    BY <2>1, <2>2, <2>4, <2>5 DEF Entry
<1>6. ASSUME NEW p \in pages
      PROVE  p \in last <=> On(p)' = {}
  <2>1. p \in last <=> Cardinality(On(p)') = 0
    BY <1>5
  <2>2. Cardinality(On(p)') = 0 <=> On(p)' = {}
    BY <1>5, FS_EmptySet
  <2> QED
    BY <2>1, <2>2
<1>7. /\ DOMAIN table' = DOMAIN table \ last
      /\ \A p \in pages \ last : /\ table'[p] = less(p)
                                /\ table'[p].refs = table[p].refs - 1
                                /\ table'[p].locked = table[p].locked
                                /\ table'[p].no_dump = table[p].no_dump
      /\ \A p \in DOMAIN table \ pages : table'[p] = table[p]
  <2>1. DOMAIN table' = DOMAIN table \ last
    BY <1>0
  <2>2. \A p \in DOMAIN table \ pages : table'[p] = table[p]
    BY <1>0
  <2>3. ASSUME NEW p \in pages \ last
        PROVE  /\ table'[p] = less(p)
               /\ table'[p].refs = table[p].refs - 1
               /\ table'[p].locked = table[p].locked
               /\ table'[p].no_dump = table[p].no_dump
    <3>1. p \in DOMAIN table \ last
      BY <1>5
    <3>2. table'[p] = less(p)
      BY <3>1, <1>0
    <3>3. table[p] \in [refs : Nat \ {0}, locked : BOOLEAN, no_dump : BOOLEAN]
      BY <3>1 DEF TypeOK
    <3> QED
      BY <3>2, <3>3
  <2> QED
    BY <2>1, <2>2, <2>3
<1>8. TypeOK'
  <2>1. DOMAIN table' \subseteq Pages
    BY <1>7 DEF TypeOK
  <2>2. ASSUME NEW p \in DOMAIN table'
        PROVE  table'[p] \in [refs : Nat \ {0}, locked : BOOLEAN, no_dump : BOOLEAN]
    <3>1. table[p] \in [refs : Nat \ {0}, locked : BOOLEAN, no_dump : BOOLEAN]
      BY <1>7 DEF TypeOK
    <3>2. CASE p \in pages
      <4>1. table[p].refs - 1 \in Nat \ {0}
        BY <3>2, <1>5, <1>7
      <4>2. less(p) \in [refs : Nat \ {0}, locked : BOOLEAN, no_dump : BOOLEAN]
        BY <3>1, <4>1
      <4> QED
        BY <3>2, <4>2, <1>7
    <3>3. CASE p \notin pages
      BY <3>1, <3>3, <1>7
    <3> QED
      BY <3>2, <3>3
  <2>3. table' \in [DOMAIN table' -> [refs : Nat \ {0}, locked : BOOLEAN, no_dump : BOOLEAN]]
    <3>1. table' = [p \in DOMAIN table' |-> table'[p]]
      BY <1>0
    <3> QED
      BY <3>1, <2>2
  <2>4. os_locked' \subseteq Pages /\ os_excluded' \subseteq Pages /\ secret' \subseteq Addresses
    BY <1>0 DEF TypeOK
  <2> QED
    BY <1>1, <2>1, <2>3, <2>4 DEF TypeOK, Pages
<1>9. CountsExact'
  <2>1. ASSUME NEW p \in Pages PROVE p \in DOMAIN table' <=> On(p)' # {}
    <3>1. CASE p \in pages
      BY <3>1, <1>5, <1>6, <1>7
    <3>2. CASE p \notin pages
      BY <3>2, <1>4, <1>7 DEF CountsExact
    <3> QED
      BY <3>1, <3>2
  <2>2. ASSUME NEW p \in DOMAIN table' PROVE table'[p].refs = Cardinality(On(p)')
    <3>1. CASE p \in pages
      BY <3>1, <1>5, <1>7, Zenon
    <3>2. CASE p \notin pages
      <4>1. On(p)' = On(p)
        BY <3>2, <1>4
      <4> QED
        BY <3>2, <4>1, <1>7 DEF CountsExact
    <3> QED
      BY <3>1, <3>2
  <2> QED
    BY <2>1, <2>2 DEF CountsExact, Pages, Addresses
<1>10. OsAgrees'
  <2>1. ASSUME NEW p \in DOMAIN table'
        PROVE  /\ p \in os_locked' <=> table'[p].locked
               /\ p \in os_excluded' <=> table'[p].no_dump
    <3>1. p \in DOMAIN table /\ p \notin last
      BY <1>7
    <3>2. /\ table'[p].locked = table[p].locked
          /\ table'[p].no_dump = table[p].no_dump
      BY <3>1, <1>7, Zenon
    <3> QED
      BY <3>1, <3>2, <1>0 DEF OsAgrees
  <2>2. ASSUME NEW p, p \in os_locked' \/ p \in os_excluded'
        PROVE  p \in DOMAIN table'
    <3>1. ASSUME p \in last PROVE FALSE
      <4>1. Entry(p) = table[p]
        BY <3>1, <1>5
      <4> QED
        BY <2>2, <3>1, <4>1, <1>0 DEF OsAgrees
    <3> QED
      BY <2>2, <3>1, <1>0, <1>7 DEF OsAgrees
  <2> QED
    BY <2>1, <2>2 DEF OsAgrees
<1>11. FlagsBacked'
  <2> SUFFICES ASSUME NEW c \in Buffers, buf'[c].locked
               PROVE  /\ buf'[c].stage \notin {"none", "filled"}
                      /\ c \in Registered' => \A p \in Span(c)' : p \in DOMAIN table' /\ table'[p].locked
    BY DEF FlagsBacked
  <2>1. CASE c = b
    <3>1. buf'[b].stage = "released"
      BY <1>1 DEF TypeOK
    <3> QED
      BY <2>1, <3>1, <1>3
  <2>2. CASE c # b
    <3>1. buf[c].locked /\ buf[c].stage \notin {"none", "filled"} /\ buf'[c].stage = buf[c].stage
      BY <2>2, <1>1 DEF FlagsBacked
    <3>2. ASSUME c \in Registered', NEW p \in Span(c) PROVE p \in DOMAIN table' /\ table'[p].locked
      <4>1. p \in DOMAIN table /\ table[p].locked
        BY <3>1, <3>2, <2>2, <1>3 DEF FlagsBacked
      <4>2. c \in On(p)'
        BY <3>2, <1>1 DEF On
      <4>3. p \notin last
        BY <4>2, <1>6
      <4> QED
        BY <4>1, <4>3, <1>7, Zenon
    <3> QED
      BY <3>1, <3>2, <1>1
  <2> QED
    BY <2>1, <2>2
<1> QED
  BY <1>1, <1>8, <1>9, <1>10, <1>11

-----------------------------------------------------------------------------
(* The theorems.                                                           *)

\* Every step keeps the inductive invariant.
LEMMA NextInv ==
  ASSUME IInv, [Next]_vars
  PROVE  IInv'
<1>1. CASE UNCHANGED vars
  <2>1. TypeOK' /\ OsAgrees'
    BY <1>1 DEF vars, IInv, TypeOK, OsAgrees
  <2>2. \A b \in Buffers : Bytes(b)' = Bytes(b) /\ Span(b)' = Span(b)
    BY <1>1 DEF vars, Bytes, Span
  <2>3. CountsExact' /\ FlagsBacked'
    BY <1>1 DEF vars, IInv, CountsExact, FlagsBacked, On, Registered, Span, Pages
  <2>4. Disjoint' /\ FreedClean'
    BY <1>1, <2>2 DEF vars, IInv, Disjoint, FreedClean
  <2> QED
    BY <2>1, <2>3, <2>4 DEF IInv
<1>2. CASE Next
  <2>1. PICK b \in Buffers :
          \/ \E addr \in Addresses, len \in 0 .. HeapSize : FromSlice(b, addr, len) \/ EnsureLen(b, addr, len)
          \/ AcquireRegion(b) \/ Reassemble(b) \/ ZeroOnExit(b) \/ Wipe(b) \/ ReleaseRegion(b) \/ Free(b)
    BY <1>2 DEF Next
  <2>2. ASSUME NEW addr \in Addresses, NEW len \in 0 .. HeapSize, FromSlice(b, addr, len)
        PROVE  IInv'
    BY <2>2, AllocateStep, Zenon DEF FromSlice
  <2>3. ASSUME NEW addr \in Addresses, NEW len \in 0 .. HeapSize, EnsureLen(b, addr, len)
        PROVE  IInv'
    BY <2>3, AllocateStep, Zenon DEF EnsureLen
  <2> QED
    BY <2>1, <2>2, <2>3, AcquireStep, ContentStep, ReleaseStep, FreeStep
<1> QED
  BY <1>1, <1>2

\* The inductive invariant holds in every reachable state.
LEMMA Invariance == Spec => []IInv
  BY InitInv, NextInv, PTL DEF Spec

\* The page table, the buffers and the operating system's pages keep their types.
THEOREM PageTypeCorrect == Spec => []TypeOK
<1>1. IInv => TypeOK
  BY DEF IInv
<1> QED
  BY <1>1, Invariance, PTL

\* acquire_region and release_region keep exact counts: a page is in the table
\* while and only while a registered buffer touches it.
THEOREM PagesCounted == Spec => []CountsExact
<1>1. IInv => CountsExact
  BY DEF IInv
<1> QED
  BY <1>1, Invariance, PTL

\* No page stays locked or excluded from dumps after its last buffer.
THEOREM PagesReturned == Spec => []OsAgrees
<1>1. IInv => OsAgrees
  BY DEF IInv
<1> QED
  BY <1>1, Invariance, PTL

\* The key bytes of a buffer that reported itself locked are on locked pages
\* until they are wiped, whatever the other buffers on the pages do.
THEOREM KeysStayLocked == Spec => []KeyBytesLocked
  BY LockedOnPages, Invariance, PTL

\* Key bytes are only ever in buffers in use: what Drop frees is clean.
THEOREM KeysWiped == Spec => []FreedClean
<1>1. IInv => FreedClean
  BY DEF IInv
<1> QED
  BY <1>1, Invariance, PTL

-----------------------------------------------------------------------------
(* The pool: the inductive invariant.                                      *)

\* Every mapping has the length of its class, lies in memory and overlaps no
\* other one.
MappingsApart ==
  /\ \A m \in mapped : m.len = RegionLen(Classes[m.class]) /\ m.base + m.len <= MemSize
  /\ \A m, n \in mapped : m # n => m.base + m.len <= n.base \/ n.base + n.len <= m.base

\* A buffer fits in a block of its class.
Fits == \A b \in Owned : pooled[b].len \in 1 .. Classes[pooled[b].class]

\* Each of the blocks at addrs is once on the list or with one of the holders,
\* and in no second place.
PlacedIn(holders, pool, list, addrs) ==
  /\ \A x \in 1 .. Len(list) : list[x].addr \in addrs
  /\ \A b \in holders : pool[b].addr \in addrs
  /\ \A a \in addrs : \/ \E x \in 1 .. Len(list) : list[x].addr = a
                      \/ \E b \in holders : pool[b].addr = a
  /\ \A x, y \in 1 .. Len(list) : list[x].addr = list[y].addr => x = y
  /\ \A b, d \in holders : pool[b].addr = pool[d].addr => b = d
  /\ \A x \in 1 .. Len(list), b \in holders : list[x].addr # pool[b].addr

\* What BlocksConserved says of class c, list and buffers apart.
Holders(c) == {b \in Owned : pooled[b].class = c}
Placed(c) == PlacedIn(Holders(c), pooled, free[c], BlockAddrs(c))

PoolInv == PoolTypeOK /\ MappingsApart /\ Fits /\ (\A c \in ClassIds : Placed(c)) /\ FreeBlocksZero

-----------------------------------------------------------------------------
(* Blocks and mappings.                                                    *)

\* The number of blocks a mapping of class c divides into.
Count(c) == RegionLen(Classes[c]) \div Classes[c]

\* A class has a positive size, and its mappings hold at least one block.
LEMMA ClassSizes ==
  ASSUME NEW c \in ClassIds
  PROVE  /\ Classes[c] \in Nat \ {0}
         /\ RegionLen(Classes[c]) \in Nat /\ RegionLen(Classes[c]) >= Classes[c]
<1>1. Classes[c] \in Nat \ {0}
  BY PoolAssumption DEF ClassIds
<1> QED
  BY <1>1, LockedBytesAssumption DEF RegionLen

\* What division gives.
LEMMA DivBounds ==
  ASSUME NEW r \in Nat, NEW s \in Nat \ {0}, r >= s
  PROVE  /\ r \div s \in Nat \ {0}
         /\ s * (r \div s) <= r
  BY SMT

LEMMA CountBlocks ==
  ASSUME NEW c \in ClassIds
  PROVE  /\ Count(c) \in Nat \ {0}
         /\ Count(c) * Classes[c] <= RegionLen(Classes[c])
<1>1. /\ Classes[c] \in Nat \ {0}
      /\ RegionLen(Classes[c]) \in Nat /\ RegionLen(Classes[c]) >= Classes[c]
  BY ClassSizes, Zenon
<1> DEFINE s == Classes[c]
           r == RegionLen(Classes[c])
<1> HIDE DEF s, r
<1>2. r \div s \in Nat \ {0} /\ s * (r \div s) <= r
  BY <1>1, DivBounds, Zenon DEF s, r
<1>3. s * (r \div s) = (r \div s) * s
  BY <1>1, <1>2 DEF s, r
<1> QED
  BY <1>2, <1>3, Zenon DEF Count, s, r

\* Multiples of a size are at least that size apart.
LEMMA Multiples ==
  ASSUME NEW s \in Nat, NEW k \in Nat, NEW l \in Nat, k < l
  PROVE  k * s \in Nat /\ l * s \in Nat /\ k * s + s <= l * s
<1>1. l - k - 1 \in Nat /\ (l - k - 1) * s \in Nat
  OBVIOUS
<1>2. l * s = k * s + s + (l - k - 1) * s
  OBVIOUS
<1> QED
  BY <1>1, <1>2

\* Block k of a mapping of class c lies inside the mapping.
LEMMA BlockInside ==
  ASSUME NEW c \in ClassIds, NEW k \in 0 .. (Count(c) - 1)
  PROVE  /\ k * Classes[c] \in Nat
         /\ k * Classes[c] + Classes[c] <= RegionLen(Classes[c])
<1>1. Classes[c] \in Nat \ {0} /\ RegionLen(Classes[c]) \in Nat
  BY ClassSizes, Zenon
<1>2. Count(c) \in Nat \ {0} /\ Count(c) * Classes[c] <= RegionLen(Classes[c])
  BY CountBlocks, Zenon
<1>3. /\ k * Classes[c] \in Nat /\ Count(c) * Classes[c] \in Nat
      /\ k * Classes[c] + Classes[c] <= Count(c) * Classes[c]
  BY <1>1, <1>2, Multiples
<1> QED
  BY <1>1, <1>2, <1>3

\* A block of class c is block k of some mapping.
LEMMA BlockOf ==
  ASSUME NEW c \in ClassIds, NEW a
  PROVE  a \in BlockAddrs(c) <=>
           \E m \in mapped, k \in 0 .. (Count(c) - 1) : m.class = c /\ a = m.base + k * Classes[c]
  BY DEF BlockAddrs, Count

\* The fields of a mapping.
LEMMA MappingTypes ==
  ASSUME PoolTypeOK, NEW m \in mapped
  PROVE  m.base \in Nat /\ m.len \in Nat \ {0} /\ m.class \in ClassIds
<1>1. m \in [base : 0 .. MemSize, len : 1 .. MemSize, class : ClassIds, locked : BOOLEAN]
  BY Zenon DEF PoolTypeOK
<1>2. MemSize \in Nat
  BY PoolAssumption, Zenon
<1> QED
  BY <1>1, <1>2

\* Two blocks with different addresses share no byte.
LEMMA BlocksDisjoint ==
  ASSUME PoolTypeOK, MappingsApart,
         NEW c \in ClassIds, NEW d \in ClassIds, NEW x \in BlockAddrs(c), NEW y \in BlockAddrs(d),
         c # d \/ x # y
  PROVE  x + Classes[c] <= y \/ y + Classes[d] <= x
<1>1. PICK m \in mapped, k \in 0 .. (Count(c) - 1) : m.class = c /\ x = m.base + k * Classes[c]
  BY BlockOf
<1>2. PICK n \in mapped, l \in 0 .. (Count(d) - 1) : n.class = d /\ y = n.base + l * Classes[d]
  BY BlockOf
<1>3. /\ Classes[c] \in Nat /\ RegionLen(Classes[c]) \in Nat
      /\ Classes[d] \in Nat /\ RegionLen(Classes[d]) \in Nat
      /\ Count(c) \in Nat /\ Count(d) \in Nat
  BY ClassSizes, CountBlocks, Zenon
<1>4. /\ k * Classes[c] \in Nat
      /\ k * Classes[c] + Classes[c] <= RegionLen(Classes[c])
  BY BlockInside, Zenon
<1>5. /\ l * Classes[d] \in Nat
      /\ l * Classes[d] + Classes[d] <= RegionLen(Classes[d])
  BY BlockInside, Zenon
<1>6. /\ m.base \in Nat /\ n.base \in Nat
      /\ m.len = RegionLen(Classes[c]) /\ n.len = RegionLen(Classes[d])
  BY <1>1, <1>2, MappingTypes, Zenon DEF MappingsApart
<1>7. CASE m # n
  <2>1. m.base + m.len <= n.base \/ n.base + n.len <= m.base
    BY <1>7, Zenon DEF MappingsApart
  <2> QED
    BY <2>1, <1>1, <1>2, <1>3, <1>4, <1>5, <1>6
<1>8. CASE m = n
  <2>1. c = d /\ k # l
    BY <1>1, <1>2, <1>8, Zenon
  <2>2. k \in Nat /\ l \in Nat
    BY <1>3
  <2>3. k < l \/ l < k
    BY <2>1, <2>2
  <2>4. k * Classes[c] + Classes[c] <= l * Classes[c] \/ l * Classes[c] + Classes[c] <= k * Classes[c]
    BY <2>2, <2>3, <1>3, Multiples, Zenon
  <2> QED
    BY <2>1, <2>4, <1>1, <1>2, <1>3, <1>4, <1>5, <1>6, <1>8
<1> QED
  BY <1>7, <1>8, Zenon

\* A block lies in memory.
LEMMA BlockInMemory ==
  ASSUME PoolTypeOK, MappingsApart, NEW c \in ClassIds, NEW a \in BlockAddrs(c)
  PROVE  /\ a \in Nat /\ a + Classes[c] <= MemSize
         /\ \E m \in mapped : m.base \in Nat /\ m.len \in Nat /\ m.base <= a /\ a + Classes[c] <= m.base + m.len
<1>1. PICK m \in mapped, k \in 0 .. (Count(c) - 1) : m.class = c /\ a = m.base + k * Classes[c]
  BY BlockOf
<1>2. /\ Classes[c] \in Nat /\ RegionLen(Classes[c]) \in Nat
  BY ClassSizes, Zenon
<1>3. /\ k * Classes[c] \in Nat
      /\ k * Classes[c] + Classes[c] <= RegionLen(Classes[c])
  BY BlockInside, Zenon
<1>4. m.base \in Nat /\ m.len \in Nat /\ m.len = RegionLen(Classes[c]) /\ m.base + m.len <= MemSize
  BY <1>1, MappingTypes, Zenon DEF MappingsApart
<1>5. a \in Nat /\ m.base <= a /\ a + Classes[c] <= m.base + m.len
  BY <1>1, <1>2, <1>3, <1>4
<1>6. MemSize \in Nat
  BY PoolAssumption, Zenon
<1>7. a + Classes[c] <= MemSize
  BY <1>2, <1>4, <1>5, <1>6
<1> QED
  BY <1>4, <1>5, <1>7, Zenon

-----------------------------------------------------------------------------
(* Moving blocks.                                                          *)

\* A list without its last block.
LEMMA FrontOfList ==
  ASSUME NEW list \in Seq(Block), list # <<>>
  PROVE  /\ Len(list) \in Nat \ {0}
         /\ Front(list) \in Seq(Block)
         /\ Len(Front(list)) = Len(list) - 1
         /\ \A x \in 1 .. (Len(list) - 1) : Front(list)[x] = list[x]
<1>1. Len(list) \in Nat \ {0}
  OBVIOUS
<1>2. Front(list) = SubSeq(list, 1, Len(list) - 1)
  BY Zenon DEF Front
<1>3. \A x \in 1 .. (Len(list) - 1) : list[x] \in Block
  BY <1>1
<1> DEFINE n == Len(list) - 1
<1>4. n \in Nat
  BY <1>1
<1> HIDE DEF n
<1>5. /\ Len(SubSeq(list, 1, n)) = n
      /\ \A x \in 1 .. n : SubSeq(list, 1, n)[x] = list[x]
  BY <1>4
<1>6. SubSeq(list, 1, Len(list) - 1) \in Seq(Block)
  BY <1>1, <1>3
<1> QED
  BY <1>1, <1>2, <1>5, <1>6, Zenon DEF n

\* Popping the last block of a list and giving it to b.
LEMMA BlockTaken ==
  ASSUME NEW holders, NEW pool, NEW pool2, NEW list \in Seq(Block), NEW addrs, NEW b,
         PlacedIn(holders, pool, list, addrs), list # <<>>, b \notin holders,
         pool2[b].addr = Last(list).addr, \A d \in holders : pool2[d].addr = pool[d].addr
  PROVE  PlacedIn(holders \cup {b}, pool2, Front(list), addrs)
<1>1. /\ Len(list) \in Nat \ {0}
      /\ Front(list) \in Seq(Block)
      /\ Len(Front(list)) = Len(list) - 1
      /\ \A x \in 1 .. (Len(list) - 1) : Front(list)[x] = list[x]
  BY FrontOfList, Zenon
<1>2. pool2[b].addr = list[Len(list)].addr
  BY Zenon DEF Last
<1> DEFINE front == Front(list)
           n == Len(list)
<1> HIDE DEF front, n
<1>3. n \in Nat \ {0} /\ Len(front) = n - 1 /\ \A x \in 1 .. (n - 1) : front[x] = list[x]
  BY <1>1, Zenon DEF front, n
<1>4. /\ \A x \in 1 .. n : list[x].addr \in addrs
      /\ \A d \in holders : pool[d].addr \in addrs
      /\ \A a \in addrs : (\E x \in 1 .. n : list[x].addr = a) \/ (\E d \in holders : pool[d].addr = a)
      /\ \A x, y \in 1 .. n : list[x].addr = list[y].addr => x = y
      /\ \A d, e \in holders : pool[d].addr = pool[e].addr => d = e
      /\ \A x \in 1 .. n, d \in holders : list[x].addr # pool[d].addr
  BY Zenon DEF PlacedIn, n
<1>5. /\ \A x \in 1 .. Len(front) : front[x].addr \in addrs
      /\ \A d \in holders \cup {b} : pool2[d].addr \in addrs
  BY <1>2, <1>3, <1>4 DEF n
<1>6. ASSUME NEW a \in addrs
      PROVE  \/ \E x \in 1 .. Len(front) : front[x].addr = a
             \/ \E d \in holders \cup {b} : pool2[d].addr = a
  <2>1. CASE \E x \in 1 .. n : list[x].addr = a
    <3>1. PICK x \in 1 .. n : list[x].addr = a
      BY <2>1, Zenon
    <3>2. CASE x = n
      BY <3>1, <3>2, <1>2, Zenon DEF n
    <3>3. CASE x # n
      <4>1. x \in 1 .. (n - 1)
        BY <3>3, <1>3
      <4> QED
        BY <3>1, <4>1, <1>3, Zenon
    <3> QED
      BY <3>2, <3>3, Zenon
  <2>2. CASE \E d \in holders : pool[d].addr = a
    BY <2>2, Zenon
  <2> QED
    BY <1>4, <2>1, <2>2, Zenon
<1>7. \A x, y \in 1 .. Len(front) : front[x].addr = front[y].addr => x = y
  BY <1>3, <1>4
<1>8. \A d, e \in holders \cup {b} : pool2[d].addr = pool2[e].addr => d = e
  <2>1. n \in 1 .. n /\ pool2[b].addr = list[n].addr
    BY <1>2, <1>3 DEF n
  <2>2. \A d \in holders : pool2[d].addr # pool2[b].addr
    BY <2>1, <1>4
  <2> QED
    BY <2>2, <1>4
<1>9. \A x \in 1 .. Len(front), d \in holders \cup {b} : front[x].addr # pool2[d].addr
  <2>1. n \in 1 .. n /\ pool2[b].addr = list[n].addr
    BY <1>2, <1>3 DEF n
  <2> SUFFICES ASSUME NEW x \in 1 .. Len(front), NEW d \in holders \cup {b}
               PROVE  front[x].addr # pool2[d].addr
    OBVIOUS
  <2>2. x \in 1 .. n /\ x # n /\ front[x] = list[x]
    BY <1>3
  <2> QED
    BY <2>1, <2>2, <1>4
<1> QED
  BY <1>5, <1>6, <1>7, <1>8, <1>9, Zenon DEF PlacedIn, front

\* Pushing the block of b on its list.
LEMMA BlockReturned ==
  ASSUME NEW holders, NEW pool, NEW pool2, NEW list \in Seq(Block), NEW addrs, NEW b \in holders, NEW r \in Block,
         PlacedIn(holders, pool, list, addrs),
         r.addr = pool[b].addr, \A d \in holders \ {b} : pool2[d].addr = pool[d].addr
  PROVE  PlacedIn(holders \ {b}, pool2, Append(list, r), addrs)
<1> DEFINE longer == Append(list, r)
           n == Len(list)
<1>1. /\ n \in Nat /\ Len(longer) = n + 1
      /\ \A x \in 1 .. n : longer[x] = list[x]
      /\ longer[n + 1] = r
  OBVIOUS
<1> HIDE DEF longer, n
<1>2. /\ \A x \in 1 .. n : list[x].addr \in addrs
      /\ \A d \in holders : pool[d].addr \in addrs
      /\ \A a \in addrs : (\E x \in 1 .. n : list[x].addr = a) \/ (\E d \in holders : pool[d].addr = a)
      /\ \A x, y \in 1 .. n : list[x].addr = list[y].addr => x = y
      /\ \A d, e \in holders : pool[d].addr = pool[e].addr => d = e
      /\ \A x \in 1 .. n, d \in holders : list[x].addr # pool[d].addr
  BY Zenon DEF PlacedIn, n
<1>3. \A x \in 1 .. Len(longer) : (x \in 1 .. n /\ longer[x] = list[x]) \/ (x = n + 1 /\ longer[x] = r)
  BY <1>1
<1>4. 1 .. n \subseteq 1 .. Len(longer) /\ n + 1 \in 1 .. Len(longer)
  BY <1>1
<1>5. /\ \A x \in 1 .. Len(longer) : longer[x].addr \in addrs
      /\ \A d \in holders \ {b} : pool2[d].addr \in addrs
  BY <1>2, <1>3, Zenon
<1>6. \A a \in addrs : \/ \E x \in 1 .. Len(longer) : longer[x].addr = a
                      \/ \E d \in holders \ {b} : pool2[d].addr = a
  BY <1>1, <1>2, <1>4
<1>7. \A x, y \in 1 .. Len(longer) : longer[x].addr = longer[y].addr => x = y
  BY <1>2, <1>3
<1>8. \A d, e \in holders \ {b} : pool2[d].addr = pool2[e].addr => d = e
  BY <1>2
<1>9. \A x \in 1 .. Len(longer), d \in holders \ {b} : longer[x].addr # pool2[d].addr
  BY <1>2, <1>3
<1> QED
  BY <1>5, <1>6, <1>7, <1>8, <1>9, Zenon DEF PlacedIn, longer

\* The blocks of a new mapping, on an empty list.
NewAddrs(c, base) == {base + k * Classes[c] : k \in 0 .. (Count(c) - 1)}

LEMMA BlocksAdded ==
  ASSUME NEW c \in ClassIds, NEW base \in Nat, NEW locked, NEW holders, NEW pool, NEW addrs,
         PlacedIn(holders, pool, <<>>, addrs), NewAddrs(c, base) \cap addrs = {}
  PROVE  PlacedIn(holders, pool, Blocks(c, base, locked), addrs \cup NewAddrs(c, base))
<1> DEFINE n == Count(c)
           s == Classes[c]
           list == Blocks(c, base, locked)
<1>1. n \in Nat \ {0} /\ s \in Nat \ {0}
  BY CountBlocks, ClassSizes, Zenon
<1>2. list = [x \in 1 .. n |-> [addr |-> base + (n - x) * s, locked |-> locked]]
  BY Zenon DEF Blocks, Count
<1>3. NewAddrs(c, base) = {base + k * s : k \in 0 .. (n - 1)}
  BY Zenon DEF NewAddrs
<1> HIDE DEF n, s, list
<1>4. Len(list) = n /\ \A x \in 1 .. n : list[x].addr = base + (n - x) * s
  BY <1>1, <1>2
<1>5. \A x \in 1 .. n : list[x].addr \in NewAddrs(c, base)
  <2> SUFFICES ASSUME NEW x \in 1 .. n
               PROVE  list[x].addr \in NewAddrs(c, base)
    OBVIOUS
  <2>1. n - x \in 0 .. (n - 1)
    BY <1>1
  <2> QED
    BY <2>1, <1>3, <1>4, Zenon
<1>6. \A a \in NewAddrs(c, base) : \E x \in 1 .. n : list[x].addr = a
  <2> SUFFICES ASSUME NEW k \in 0 .. (n - 1)
               PROVE  \E x \in 1 .. n : list[x].addr = base + k * s
    BY <1>3, Zenon
  <2>1. n - k \in 1 .. n /\ n - (n - k) = k
    BY <1>1
  <2> QED
    BY <2>1, <1>4, Zenon
<1>7. \A x, y \in 1 .. n : list[x].addr = list[y].addr => x = y
  <2> SUFFICES ASSUME NEW x \in 1 .. n, NEW y \in 1 .. n, x < y
               PROVE  list[x].addr # list[y].addr
    BY <1>1
  <2>1. n - x \in Nat /\ n - y \in Nat /\ n - y < n - x
    BY <1>1
  <2>2. /\ (n - y) * s \in Nat /\ (n - x) * s \in Nat
        /\ (n - y) * s + s <= (n - x) * s
    BY <2>1, <1>1, Multiples, Zenon
  <2>3. (n - y) * s # (n - x) * s
    BY <2>2, <1>1
  <2>4. list[x].addr = base + (n - x) * s /\ list[y].addr = base + (n - y) * s
    BY <1>4, Zenon
  <2> DEFINE at(z) == (n - z) * s
  <2>5. at(x) \in Nat /\ at(y) \in Nat /\ at(x) # at(y) /\ list[x].addr = base + at(x) /\ list[y].addr = base + at(y)
    BY <2>2, <2>3, <2>4, Zenon
  <2> HIDE DEF at
  <2> QED
    BY <2>5
<1>8. /\ \A d \in holders : pool[d].addr \in addrs
      /\ \A a \in addrs : \E d \in holders : pool[d].addr = a
      /\ \A d, e \in holders : pool[d].addr = pool[e].addr => d = e
  BY DEF PlacedIn
<1>9. \A x \in 1 .. n, d \in holders : list[x].addr # pool[d].addr
  BY <1>5, <1>8, Zenon
<1> QED
  BY <1>4, <1>5, <1>6, <1>7, <1>8, <1>9, Zenon DEF PlacedIn, list

\* A buffer elsewhere changes nothing of these blocks.
LEMMA BlocksSame ==
  ASSUME NEW holders, NEW pool, NEW pool2, NEW list, NEW addrs,
         PlacedIn(holders, pool, list, addrs), \A d \in holders : pool2[d].addr = pool[d].addr
  PROVE  PlacedIn(holders, pool2, list, addrs)
  BY DEF PlacedIn

\* Bytes stay covered by the buffers that stay held.
LEMMA StillZero ==
  ASSUME FreeBlocksZero, dirty' = dirty,
         \A d \in Buffers : pooled[d].stage = "held" => pooled'[d] = pooled[d]
  PROVE  FreeBlocksZero'
  BY DEF FreeBlocksZero, PooledBytes, Area

-----------------------------------------------------------------------------
(* The steps.                                                              *)

LEMMA PoolInitInv == PoolInit => PoolInv
<1> SUFFICES ASSUME PoolInit
             PROVE  PoolInv
  OBVIOUS
<1> USE DEF PoolInit
<1>1. 1 \in ClassIds /\ MemSize \in Nat /\ MaxLen \in Nat
  BY PoolAssumption DEF ClassIds
<1>2. PoolTypeOK
  BY <1>1 DEF PoolTypeOK, NoBlock, Block
<1>3. Owned = {}
  BY Zenon DEF Owned, NoBlock
<1>4. MappingsApart /\ Fits /\ FreeBlocksZero
  BY <1>3, Zenon DEF MappingsApart, Fits, FreeBlocksZero
<1>5. \A c \in ClassIds : Placed(c)
  BY <1>3 DEF Placed, PlacedIn, Holders, BlockAddrs
<1> QED
  BY <1>2, <1>4, <1>5, Zenon DEF PoolInv

\* Buffer b takes a block from the end of a list that it may have grown first.
LEMMA PopStep ==
  ASSUME PoolTypeOK, Fits, FreeBlocksZero, dirty' = dirty,
         NEW b \in Buffers, pooled[b].stage = "none",
         NEW c \in ClassIds, NEW len \in 1 .. MaxLen, len <= Classes[c],
         NEW list \in Seq(Block), list # <<>>, NEW addrs,
         PlacedIn(Holders(c), pooled, list, addrs),
         Pop(b, c, len, list)
  PROVE  /\ free' \in [ClassIds -> Seq(Block)]
         /\ pooled' \in [Buffers -> [stage : {"none", "got", "held", "wiped"}, addr : 0 .. MemSize,
                                     class : ClassIds, len : 0 .. MaxLen, locked : BOOLEAN]]
         /\ Fits' /\ FreeBlocksZero'
         /\ PlacedIn(Holders(c)', pooled', free'[c], addrs)
         /\ \A e \in ClassIds \ {c} :
              /\ free'[e] = free[e]
              /\ \A others : PlacedIn(Holders(e), pooled, free[e], others)
                               => PlacedIn(Holders(e)', pooled', free'[e], others)
<1> DEFINE got == [stage |-> "got", addr |-> Last(list).addr, class |-> c, len |-> len, locked |-> Last(list).locked]
           Held == [stage : {"none", "got", "held", "wiped"}, addr : 0 .. MemSize,
                    class : ClassIds, len : 0 .. MaxLen, locked : BOOLEAN]
<1>1. free' = [free EXCEPT ![c] = Front(list)] /\ pooled' = [pooled EXCEPT ![b] = got]
  BY Zenon DEF Pop
<1>2. free \in [ClassIds -> Seq(Block)] /\ pooled \in [Buffers -> Held]
  BY Zenon DEF PoolTypeOK
<1>3. Last(list) \in Block
  BY DEF Last
<1>4. got \in Held
  <2>1. MaxLen \in Nat
    BY PoolAssumption, Zenon
  <2> QED
    BY <1>3, <2>1 DEF Block
<1>5. got.stage = "got" /\ got.class = c /\ got.len = len /\ got.addr = Last(list).addr
  OBVIOUS
<1> HIDE DEF got, Held
<1>6. free' \in [ClassIds -> Seq(Block)]
  BY <1>1, <1>2, FrontOfList, Zenon
<1>7. pooled' \in [Buffers -> Held]
  BY <1>1, <1>2, <1>4, Zenon
<1>8. pooled'[b] = got /\ \A d \in Buffers \ {b} : pooled'[d] = pooled[d]
  BY <1>1, <1>2, Zenon
<1>9. free'[c] = Front(list) /\ \A e \in ClassIds \ {c} : free'[e] = free[e]
  BY <1>1, <1>2, Zenon
<1>10. Owned' = Owned \cup {b} /\ b \notin Owned
  BY <1>5, <1>8, Zenon DEF Owned
<1>11. Holders(c)' = Holders(c) \cup {b} /\ b \notin Holders(c)
  BY <1>5, <1>8, <1>10, Zenon DEF Holders, Owned
<1>12. \A e \in ClassIds \ {c} : Holders(e)' = Holders(e)
  BY <1>5, <1>8, <1>10, Zenon DEF Holders, Owned
<1>13. \A e \in ClassIds : \A d \in Holders(e) : pooled'[d].addr = pooled[d].addr
  BY <1>8, <1>10, Zenon DEF Holders, Owned
<1>14. Fits'
  <2>1. \A d \in Owned : pooled'[d] = pooled[d] /\ pooled[d].len \in 1 .. Classes[pooled[d].class]
    BY <1>8, <1>10, Zenon DEF Fits, Owned
  <2>2. Classes[c] \in Nat /\ MaxLen \in Nat
    BY ClassSizes, PoolAssumption, Zenon
  <2>3. pooled'[b].len \in 1 .. Classes[pooled'[b].class]
    BY <1>5, <1>8, <2>2
  <2> QED
    BY <1>10, <2>1, <2>3, Zenon DEF Fits
<1>15. FreeBlocksZero'
  BY <1>8, StillZero, Zenon
<1>16. PlacedIn(Holders(c)', pooled', free'[c], addrs)
  <2>1. pooled'[b].addr = Last(list).addr
    BY <1>5, <1>8
  <2>2. PlacedIn(Holders(c) \cup {b}, pooled', Front(list), addrs)
    BY <1>11, <1>13, <2>1, BlockTaken, Zenon
  <2> QED
    BY <1>9, <1>11, <2>2, Zenon
<1>17. ASSUME NEW e \in ClassIds \ {c}, NEW others, PlacedIn(Holders(e), pooled, free[e], others)
       PROVE  PlacedIn(Holders(e)', pooled', free'[e], others)
  BY <1>9, <1>12, <1>13, <1>17, BlocksSame, Zenon
<1> QED
  BY <1>6, <1>7, <1>9, <1>14, <1>15, <1>16, <1>17, Zenon DEF Held

\* alloc from a list that is not empty.
LEMMA AllocListed ==
  ASSUME PoolInv, NEW b \in Buffers, pooled[b].stage = "none",
         NEW c \in ClassIds, NEW len \in 1 .. MaxLen, len <= Classes[c],
         free[c] # <<>>, Pop(b, c, len, free[c]), mapped' = mapped, dirty' = dirty
  PROVE  PoolInv'
<1>1. PoolTypeOK /\ Fits /\ FreeBlocksZero /\ MappingsApart
  BY Zenon DEF PoolInv
<1>2. \A e \in ClassIds : PlacedIn(Holders(e), pooled, free[e], BlockAddrs(e))
  BY Zenon DEF PoolInv, Placed
<1>3. free[c] \in Seq(Block)
  BY <1>1, Zenon DEF PoolTypeOK
<1>4. \A e \in ClassIds : BlockAddrs(e)' = BlockAddrs(e)
  BY SMTT(30) DEF BlockAddrs
<1>5. /\ free' \in [ClassIds -> Seq(Block)]
      /\ pooled' \in [Buffers -> [stage : {"none", "got", "held", "wiped"}, addr : 0 .. MemSize,
                                  class : ClassIds, len : 0 .. MaxLen, locked : BOOLEAN]]
      /\ Fits' /\ FreeBlocksZero'
      /\ PlacedIn(Holders(c)', pooled', free'[c], BlockAddrs(c))
      /\ \A e \in ClassIds \ {c} : PlacedIn(Holders(e)', pooled', free'[e], BlockAddrs(e))
  BY <1>1, <1>2, <1>3, PopStep, Zenon
<1>6. PoolTypeOK' /\ MappingsApart'
  BY <1>1, <1>5, Zenon DEF PoolTypeOK, MappingsApart
<1>7. ASSUME NEW e \in ClassIds PROVE Placed(e)'
  <2>1. PlacedIn(Holders(e)', pooled', free'[e], BlockAddrs(e))
    BY <1>5, Zenon
  <2> QED
    BY <1>4, <2>1, Zenon DEF Placed
<1> QED
  BY <1>5, <1>6, <1>7, Zenon DEF PoolInv

\* grow: a new mapping overlaps no other one, and its blocks are new.
LEMMA MapRegionStep ==
  ASSUME PoolTypeOK, MappingsApart, NEW c \in ClassIds, NEW base \in 0 .. MemSize, NEW locked \in BOOLEAN,
         MapRegion(c, base, locked)
  PROVE  /\ mapped' \subseteq [base : 0 .. MemSize, len : 1 .. MemSize, class : ClassIds, locked : BOOLEAN]
         /\ MappingsApart'
         /\ BlockAddrs(c)' = BlockAddrs(c) \cup NewAddrs(c, base)
         /\ NewAddrs(c, base) \cap BlockAddrs(c) = {}
         /\ \A e \in ClassIds \ {c} : BlockAddrs(e)' = BlockAddrs(e)
         /\ Blocks(c, base, locked) \in Seq(Block) /\ Blocks(c, base, locked) # <<>>
<1> DEFINE len == RegionLen(Classes[c])
           new == [base |-> base, len |-> len, class |-> c, locked |-> locked]
<1>1. /\ mapped' = mapped \cup {new} /\ base + len <= MemSize
      /\ \A m \in mapped : Area(m.base, m.len) \cap Area(base, len) = {}
  BY Zenon DEF MapRegion
<1>2. base \in Nat /\ MemSize \in Nat /\ len \in Nat \ {0} /\ Classes[c] \in Nat \ {0}
  BY PoolAssumption, ClassSizes
<1>3. new \in [base : 0 .. MemSize, len : 1 .. MemSize, class : ClassIds, locked : BOOLEAN]
  <2>1. len \in 1 .. MemSize
    BY <1>1, <1>2
  <2> QED
    BY <2>1, Zenon
<1>4. mapped' \subseteq [base : 0 .. MemSize, len : 1 .. MemSize, class : ClassIds, locked : BOOLEAN]
  BY <1>1, <1>3, Zenon DEF PoolTypeOK
<1>5. new.base = base /\ new.len = len /\ new.class = c
  OBVIOUS
<1> HIDE DEF new
<1>6. ASSUME NEW m \in mapped
      PROVE  m.base + m.len <= base \/ base + len <= m.base
  <2>1. m.base \in Nat /\ m.len \in Nat \ {0} /\ m.base + m.len <= MemSize
    BY MappingTypes, Zenon DEF MappingsApart
  <2>2. CASE m.base <= base /\ base < m.base + m.len
    <3>1. base \in Area(m.base, m.len) /\ base \in Area(base, len)
      BY <1>1, <1>2, <2>1, <2>2 DEF Area
    <3> QED
      BY <3>1, <1>1, Zenon
  <2>3. CASE base < m.base /\ m.base < base + len
    <3>1. m.base \in Area(m.base, m.len) /\ m.base \in Area(base, len)
      BY <1>1, <1>2, <2>1, <2>3 DEF Area
    <3> QED
      BY <3>1, <1>1, Zenon
  <2> QED
    BY <1>2, <2>1, <2>2, <2>3
<1>7. MappingsApart'
  <2>1. \A m \in mapped' : m.len = RegionLen(Classes[m.class]) /\ m.base + m.len <= MemSize
    BY <1>1, <1>5, Zenon DEF MappingsApart
  <2>2. ASSUME NEW m \in mapped', NEW n \in mapped', m # n
        PROVE  m.base + m.len <= n.base \/ n.base + n.len <= m.base
    <3>1. CASE m \in mapped /\ n \in mapped
      BY <3>1, <2>2, Zenon DEF MappingsApart
    <3>2. CASE m = new /\ n \in mapped
      BY <3>2, <1>5, <1>6, Zenon
    <3>3. CASE m \in mapped /\ n = new
      BY <3>3, <1>5, <1>6, Zenon
    <3> QED
      BY <2>2, <3>1, <3>2, <3>3, <1>1, Zenon
  <2> QED
    BY <2>1, <2>2, Zenon DEF MappingsApart
<1>8. \A k \in 0 .. (Count(c) - 1) : /\ k * Classes[c] \in Nat
                                    /\ k * Classes[c] + Classes[c] <= len
  BY BlockInside, Zenon
<1>9. BlockAddrs(c)' = BlockAddrs(c) \cup NewAddrs(c, base)
  BY <1>1, <1>5 DEF BlockAddrs, NewAddrs, Count
<1>10. \A e \in ClassIds \ {c} : BlockAddrs(e)' = BlockAddrs(e)
  BY <1>1, <1>5 DEF BlockAddrs
<1>11. ASSUME NEW a \in BlockAddrs(c), a \in NewAddrs(c, base)
       PROVE  FALSE
  <2>1. PICK k \in 0 .. (Count(c) - 1) : a = base + k * Classes[c]
    BY <1>11, Zenon DEF NewAddrs
  <2>2. PICK m \in mapped : m.base \in Nat /\ m.len \in Nat /\ m.base <= a /\ a + Classes[c] <= m.base + m.len
    BY BlockInMemory, Zenon
  <2>3. base <= a /\ a + Classes[c] <= base + len
    BY <2>1, <1>2, <1>8
  <2>4. a \in Nat
    BY <2>1, <1>2, <1>8
  <2> QED
    BY <2>2, <2>3, <2>4, <1>2, <1>6
<1>12. Blocks(c, base, locked) \in Seq(Block) /\ Blocks(c, base, locked) # <<>>
  <2> DEFINE n == Count(c)
  <2>1. n \in Nat \ {0}
    BY CountBlocks, Zenon
  <2>2. Blocks(c, base, locked) = [x \in 1 .. n |-> [addr |-> base + (n - x) * Classes[c], locked |-> locked]]
    BY Zenon DEF Blocks, Count
  <2>3. \A x \in 1 .. n : base + (n - x) * Classes[c] \in 0 .. MemSize
    <3> SUFFICES ASSUME NEW x \in 1 .. n
                 PROVE  base + (n - x) * Classes[c] \in 0 .. MemSize
      OBVIOUS
    <3>1. n - x \in 0 .. (n - 1)
      BY <2>1
    <3>2. (n - x) * Classes[c] \in Nat /\ (n - x) * Classes[c] + Classes[c] <= len
      BY <3>1, <1>8, Zenon
    <3> HIDE DEF n, len
    <3> QED
      BY <3>2, <1>1, <1>2
  <2> HIDE DEF n
  <2>4. \A x \in 1 .. n : [addr |-> base + (n - x) * Classes[c], locked |-> locked] \in Block
    BY <2>3, Zenon DEF Block
  <2> DEFINE list == [x \in 1 .. n |-> [addr |-> base + (n - x) * Classes[c], locked |-> locked]]
  <2>5. list \in [1 .. n -> Block]
    BY <2>4, Zenon
  <2> HIDE DEF list
  <2>6. list \in Seq(Block) /\ list # <<>>
    BY <2>1, <2>5
  <2> QED
    BY <2>2, <2>6, Zenon DEF list
<1> QED
  BY <1>4, <1>7, <1>9, <1>10, <1>11, <1>12, Zenon

\* alloc after growing an empty list.
LEMMA AllocGrown ==
  ASSUME PoolInv, NEW b \in Buffers, pooled[b].stage = "none",
         NEW c \in ClassIds, NEW len \in 1 .. MaxLen, len <= Classes[c],
         NEW base \in 0 .. MemSize, NEW locked \in BOOLEAN,
         free[c] = <<>>, MapRegion(c, base, locked), Pop(b, c, len, Blocks(c, base, locked)), dirty' = dirty
  PROVE  PoolInv'
<1>1. PoolTypeOK /\ Fits /\ FreeBlocksZero /\ MappingsApart
  BY Zenon DEF PoolInv
<1>2. \A e \in ClassIds : PlacedIn(Holders(e), pooled, free[e], BlockAddrs(e))
  BY Zenon DEF PoolInv, Placed
<1>3. /\ mapped' \subseteq [base : 0 .. MemSize, len : 1 .. MemSize, class : ClassIds, locked : BOOLEAN]
      /\ MappingsApart'
      /\ BlockAddrs(c)' = BlockAddrs(c) \cup NewAddrs(c, base)
      /\ NewAddrs(c, base) \cap BlockAddrs(c) = {}
      /\ \A e \in ClassIds \ {c} : BlockAddrs(e)' = BlockAddrs(e)
      /\ Blocks(c, base, locked) \in Seq(Block) /\ Blocks(c, base, locked) # <<>>
  BY <1>1, MapRegionStep, Zenon
<1>4. base \in Nat
  BY PoolAssumption
<1>5. PlacedIn(Holders(c), pooled, <<>>, BlockAddrs(c))
  BY <1>2, Zenon
<1>6. PlacedIn(Holders(c), pooled, Blocks(c, base, locked), BlockAddrs(c)')
  <2>1. NewAddrs(c, base) \cap BlockAddrs(c) = {}
    BY <1>3, Zenon
  <2>2. PlacedIn(Holders(c), pooled, Blocks(c, base, locked), BlockAddrs(c) \cup NewAddrs(c, base))
    BY <1>4, <1>5, <2>1, BlocksAdded, Zenon
  <2> QED
    BY <1>3, <2>2, Zenon
<1>7. /\ free' \in [ClassIds -> Seq(Block)]
      /\ pooled' \in [Buffers -> [stage : {"none", "got", "held", "wiped"}, addr : 0 .. MemSize,
                                  class : ClassIds, len : 0 .. MaxLen, locked : BOOLEAN]]
      /\ Fits' /\ FreeBlocksZero'
      /\ PlacedIn(Holders(c)', pooled', free'[c], BlockAddrs(c)')
      /\ \A e \in ClassIds \ {c} : PlacedIn(Holders(e)', pooled', free'[e], BlockAddrs(e))
  BY <1>1, <1>2, <1>3, <1>6, PopStep, Zenon
<1>8. PoolTypeOK'
  BY <1>1, <1>3, <1>7, Zenon DEF PoolTypeOK
<1>9. \A e \in ClassIds : Placed(e)'
  BY <1>3, <1>7, Zenon DEF Placed
<1> QED
  BY <1>3, <1>7, <1>8, <1>9, Zenon DEF PoolInv

LEMMA AllocStep ==
  ASSUME PoolInv, NEW b \in Buffers, NEW len \in 0 .. MaxLen, Alloc(b, len)
  PROVE  PoolInv'
<1>1. PICK c \in Class(len) :
        /\ pooled[b].stage = "none" /\ len > 0 /\ dirty' = dirty
        /\ \/ free[c] # <<>> /\ Pop(b, c, len, free[c]) /\ mapped' = mapped
           \/ /\ free[c] = <<>>
              /\ \E base \in 0 .. MemSize, locked \in BOOLEAN :
                   MapRegion(c, base, locked) /\ Pop(b, c, len, Blocks(c, base, locked))
  BY Zenon DEF Alloc
<1>2. c \in ClassIds /\ len <= Classes[c]
  BY Zenon DEF Class
<1>3. len \in 1 .. MaxLen
  BY <1>1, PoolAssumption
<1> QED
  BY <1>1, <1>2, <1>3, AllocListed, AllocGrown, Zenon

\* Filling or wiping the bytes of a buffer moves no block.
LEMMA ContentsStep ==
  ASSUME PoolInv, NEW b \in Buffers, NEW stage \in {"held", "wiped"}, pooled[b].stage # "none",
         pooled' = [pooled EXCEPT ![b].stage = stage], free' = free, mapped' = mapped,
         dirty' \subseteq 0 .. (MemSize - 1), FreeBlocksZero'
  PROVE  PoolInv'
<1>1. PoolTypeOK /\ Fits /\ MappingsApart /\ \A e \in ClassIds : Placed(e)
  BY Zenon DEF PoolInv
<1>2. PoolTypeOK'
  BY <1>1, Zenon DEF PoolTypeOK
<1>3. \A d \in Buffers : /\ pooled'[d].addr = pooled[d].addr /\ pooled'[d].class = pooled[d].class
                         /\ pooled'[d].len = pooled[d].len
                         /\ pooled'[d].stage = "none" <=> pooled[d].stage = "none"
  BY <1>1, Zenon DEF PoolTypeOK
<1>4. Owned' = Owned
  BY <1>3, Zenon DEF Owned
<1>5. Fits' /\ MappingsApart'
  BY <1>1, <1>3, <1>4, Zenon DEF Fits, Owned, MappingsApart
<1>6. ASSUME NEW e \in ClassIds
      PROVE  Placed(e)'
  <2>1. Holders(e)' = Holders(e) /\ BlockAddrs(e)' = BlockAddrs(e)
    BY <1>3, <1>4 DEF Holders, Owned, BlockAddrs
  <2>2. PlacedIn(Holders(e), pooled, free[e], BlockAddrs(e))
    BY <1>1, Zenon DEF Placed
  <2>3. \A d \in Holders(e) : pooled'[d].addr = pooled[d].addr
    BY <1>3, Zenon DEF Holders, Owned
  <2> QED
    BY <2>1, <2>2, <2>3, BlocksSame, Zenon DEF Placed
<1> QED
  BY <1>2, <1>5, <1>6, Zenon DEF PoolInv

LEMMA PoolFromSliceStep ==
  ASSUME PoolInv, NEW b \in Buffers, PoolFromSlice(b)
  PROVE  PoolInv'
<1>1. /\ pooled[b].stage = "got" /\ dirty' = dirty \cup PooledBytes(b)
      /\ pooled' = [pooled EXCEPT ![b].stage = "held"] /\ free' = free /\ mapped' = mapped
  BY Zenon DEF PoolFromSlice, PooledBytes
<1>2. /\ pooled'[b].stage = "held" /\ pooled'[b].addr = pooled[b].addr /\ pooled'[b].len = pooled[b].len
      /\ \A d \in Buffers \ {b} : pooled'[d] = pooled[d]
  BY <1>1, Zenon DEF PoolInv, PoolTypeOK
<1>3. \A d \in Buffers : PooledBytes(d)' = PooledBytes(d)
  BY <1>2, Zenon DEF PooledBytes
<1>4. FreeBlocksZero'
  BY <1>1, <1>2, <1>3 DEF PoolInv, FreeBlocksZero
<1>5. dirty' \subseteq 0 .. (MemSize - 1)
  BY <1>1, Zenon DEF PoolInv, PoolTypeOK, PooledBytes, Area
<1> QED
  BY <1>1, <1>4, <1>5, ContentsStep, Zenon

LEMMA ZeroizeStep ==
  ASSUME PoolInv, NEW b \in Buffers, Zeroize(b)
  PROVE  PoolInv'
<1>1. /\ pooled[b].stage = "held" /\ dirty' = dirty \ PooledBytes(b)
      /\ pooled' = [pooled EXCEPT ![b].stage = "wiped"] /\ free' = free /\ mapped' = mapped
  BY Zenon DEF Zeroize, PooledBytes
<1>2. /\ pooled'[b].addr = pooled[b].addr /\ pooled'[b].len = pooled[b].len
      /\ \A d \in Buffers \ {b} : pooled'[d] = pooled[d]
  BY <1>1, Zenon DEF PoolInv, PoolTypeOK
<1>3. \A d \in Buffers : PooledBytes(d)' = PooledBytes(d)
  BY <1>2, Zenon DEF PooledBytes
<1>4. FreeBlocksZero'
  BY <1>1, <1>2, <1>3, Zenon DEF PoolInv, FreeBlocksZero
<1>5. dirty' \subseteq 0 .. (MemSize - 1)
  BY <1>1, Zenon DEF PoolInv, PoolTypeOK
<1> QED
  BY <1>1, <1>4, <1>5, ContentsStep, Zenon

\* A block goes back to the list of its own class.
LEMMA PoolFreeStep ==
  ASSUME PoolInv, NEW b \in Buffers, PoolFree(b)
  PROVE  PoolInv'
<1> PICK c \in ClassIds : c = pooled[b].class
  BY Zenon DEF PoolInv, PoolTypeOK
<1> DEFINE r == [addr |-> pooled[b].addr, locked |-> pooled[b].locked]
<1>1. /\ pooled[b].stage = "wiped" /\ free' = [free EXCEPT ![c] = Append(free[c], r)]
      /\ pooled' = [pooled EXCEPT ![b] = NoBlock] /\ mapped' = mapped /\ dirty' = dirty
  BY Zenon DEF PoolFree, PoolInv, PoolTypeOK
<1>2. PoolTypeOK /\ Fits /\ MappingsApart /\ FreeBlocksZero /\ \A e \in ClassIds : Placed(e)
  BY Zenon DEF PoolInv
<1>3. r \in Block /\ r.addr = pooled[b].addr
  BY <1>2, Zenon DEF PoolTypeOK, Block
<1> HIDE DEF r
<1>4. free'[c] = Append(free[c], r) /\ \A e \in ClassIds \ {c} : free'[e] = free[e]
  BY <1>1, <1>2, <1>3, Zenon DEF PoolTypeOK
<1>5. pooled'[b] = NoBlock /\ \A d \in Buffers \ {b} : pooled'[d] = pooled[d]
  BY <1>1, <1>2, Zenon DEF PoolTypeOK
<1>6. PoolTypeOK'
  <2>1. NoBlock \in [stage : {"none", "got", "held", "wiped"}, addr : 0 .. MemSize,
                     class : ClassIds, len : 0 .. MaxLen, locked : BOOLEAN]
    BY PoolAssumption DEF NoBlock, ClassIds
  <2>2. free' \in [ClassIds -> Seq(Block)]
    BY <1>1, <1>2, <1>3 DEF PoolTypeOK
  <2> QED
    BY <1>1, <1>2, <2>1, <2>2, Zenon DEF PoolTypeOK
<1>7. Owned' = Owned \ {b} /\ b \in Owned
  BY <1>1, <1>5 DEF Owned, NoBlock
<1>8. Fits' /\ MappingsApart'
  BY <1>1, <1>2, <1>5, <1>7, Zenon DEF Fits, Owned, MappingsApart
<1>9. FreeBlocksZero'
  <2>1. \A d \in Buffers : pooled[d].stage = "held" => pooled'[d] = pooled[d]
    BY <1>1, <1>5, Zenon
  <2> QED
    BY <1>1, <1>2, <2>1, StillZero, Zenon
<1>10. \A e \in ClassIds : BlockAddrs(e)' = BlockAddrs(e)
  BY <1>1 DEF BlockAddrs
<1>11. \A e \in ClassIds : PlacedIn(Holders(e), pooled, free[e], BlockAddrs(e))
  BY <1>2, Zenon DEF Placed
<1>12. \A e \in ClassIds : \A d \in Holders(e) \ {b} : pooled'[d].addr = pooled[d].addr
  BY <1>5, Zenon DEF Holders, Owned
<1>13. Holders(c)' = Holders(c) \ {b} /\ b \in Holders(c)
  BY <1>5, <1>7, Zenon DEF Holders, Owned
<1>14. PlacedIn(Holders(c)', pooled', free'[c], BlockAddrs(c)')
  <2>1. free[c] \in Seq(Block)
    BY <1>2, <1>3, Zenon DEF PoolTypeOK
  <2>2. PlacedIn(Holders(c) \ {b}, pooled', Append(free[c], r), BlockAddrs(c))
    BY <1>3, <1>11, <1>12, <1>13, <2>1, BlockReturned, Zenon
  <2> QED
    BY <1>3, <1>4, <1>10, <1>13, <2>2, Zenon
<1>15. ASSUME NEW e \in ClassIds, e # c
       PROVE  PlacedIn(Holders(e)', pooled', free'[e], BlockAddrs(e)')
  <2>1. Holders(e)' = Holders(e) /\ b \notin Holders(e)
    BY <1>5, <1>7, <1>15, Zenon DEF Holders, Owned
  <2>2. PlacedIn(Holders(e), pooled', free[e], BlockAddrs(e))
    BY <1>11, <1>12, <2>1, BlocksSame, Zenon
  <2> QED
    BY <1>4, <1>10, <1>15, <2>1, <2>2, Zenon
<1>16. \A e \in ClassIds : Placed(e)'
  BY <1>14, <1>15, Zenon DEF Placed
<1> QED
  BY <1>6, <1>8, <1>9, <1>16, Zenon DEF PoolInv

LEMMA PoolNextInv == PoolInv /\ [PoolNext]_poolVars => PoolInv'
<1> SUFFICES ASSUME PoolInv, [PoolNext]_poolVars
             PROVE  PoolInv'
  OBVIOUS
<1>1. CASE PoolNext
  BY <1>1, AllocStep, PoolFromSliceStep, ZeroizeStep, PoolFreeStep, Zenon DEF PoolNext
<1>2. CASE UNCHANGED poolVars
  <2>1. /\ PoolTypeOK' = PoolTypeOK /\ MappingsApart' = MappingsApart /\ Fits' = Fits
        /\ FreeBlocksZero' = FreeBlocksZero
    BY <1>2, Zenon DEF poolVars, PoolTypeOK, MappingsApart, Fits, Owned, FreeBlocksZero, PooledBytes
  <2>2. \A c \in ClassIds : BlockAddrs(c)' = BlockAddrs(c) /\ Holders(c)' = Holders(c)
    BY <1>2, SMTT(30) DEF poolVars, Holders, Owned, BlockAddrs
  <2>3. \A c \in ClassIds : Placed(c)' = Placed(c)
    BY <1>2, <2>2 DEF poolVars, Placed
  <2> QED
    BY <2>1, <2>3, Zenon DEF PoolInv
<1> QED
  BY <1>1, <1>2, Zenon

LEMMA PoolInvariance == PoolSpec => []PoolInv
  BY PoolInitInv, PoolNextInv, PTL DEF PoolSpec

-----------------------------------------------------------------------------
(* What the invariant gives.                                               *)

\* A buffer lies in a block of its class.
LEMMA BufferInBlock ==
  ASSUME PoolInv, NEW b \in Owned
  PROVE  /\ b \in Buffers /\ pooled[b].class \in ClassIds
         /\ pooled[b].addr \in BlockAddrs(pooled[b].class)
         /\ pooled[b].addr \in Nat /\ pooled[b].len \in Nat \ {0}
         /\ Classes[pooled[b].class] \in Nat /\ pooled[b].len <= Classes[pooled[b].class]
<1>1. b \in Buffers /\ pooled[b].class \in ClassIds
  BY Zenon DEF PoolInv, PoolTypeOK, Owned
<1>2. PICK c \in ClassIds : c = pooled[b].class
  BY <1>1, Zenon
<1>3. PlacedIn(Holders(c), pooled, free[c], BlockAddrs(c)) /\ b \in Holders(c)
  BY <1>2, Zenon DEF PoolInv, Placed, Holders
<1>4. pooled[b].addr \in BlockAddrs(c)
  BY <1>3, Zenon DEF PlacedIn
<1>5. pooled[b].addr \in Nat
  BY <1>4, BlockInMemory, Zenon DEF PoolInv
<1>6. Classes[c] \in Nat
  BY ClassSizes, Zenon
<1>7. pooled[b].len \in 1 .. Classes[c]
  BY <1>2, Zenon DEF PoolInv, Fits
<1> QED
  BY <1>1, <1>2, <1>4, <1>5, <1>6, <1>7

LEMMA ApartFromInv == PoolInv => BuffersApart
<1> SUFFICES ASSUME PoolInv, NEW b \in Owned
             PROVE  /\ \E m \in mapped : PooledBytes(b) \subseteq Area(m.base, m.len)
                    /\ Cardinality(PooledBytes(b)) = pooled[b].len
                    /\ \A d \in Owned \ {b} : PooledBytes(b) \cap PooledBytes(d) = {}
  BY Zenon DEF BuffersApart
<1> DEFINE addr == pooled[b].addr
           len == pooled[b].len
           c == pooled[b].class
<1>1. /\ c \in ClassIds /\ addr \in BlockAddrs(c) /\ addr \in Nat /\ len \in Nat \ {0}
      /\ Classes[c] \in Nat /\ len <= Classes[c]
  BY BufferInBlock, Zenon
<1>2. PoolTypeOK /\ MappingsApart /\ MemSize \in Nat
  BY PoolAssumption, Zenon DEF PoolInv
<1>3. PooledBytes(b) = Area(addr, len)
  BY Zenon DEF PooledBytes
<1> HIDE DEF addr, len, c
<1>4. /\ addr + Classes[c] <= MemSize
      /\ \E m \in mapped : /\ m.base \in Nat /\ m.len \in Nat
                           /\ m.base <= addr /\ addr + Classes[c] <= m.base + m.len
  BY <1>1, <1>2, BlockInMemory, Zenon
<1>5. \E m \in mapped : PooledBytes(b) \subseteq Area(m.base, m.len)
  <2>1. PICK m \in mapped : /\ m.base \in Nat /\ m.len \in Nat
                            /\ m.base <= addr /\ addr + Classes[c] <= m.base + m.len
    BY <1>4, Zenon
  <2>2. Area(addr, len) \subseteq Area(m.base, m.len)
    BY <2>1, <1>1, <1>2 DEF Area
  <2> QED
    BY <2>2, <1>3, Zenon
<1>6. Cardinality(PooledBytes(b)) = len
  <2>1. Area(addr, len) = addr .. (addr + len - 1)
    BY <1>1, <1>2, <1>4 DEF Area
  <2>2. Cardinality(addr .. (addr + len - 1)) = (addr + len - 1) - addr + 1
    <3>1. addr \in Int /\ addr + len - 1 \in Int /\ ~(addr > addr + len - 1)
      BY <1>1
    <3> QED
      BY <3>1, FS_Interval, Zenon
  <2> QED
    BY <1>1, <1>3, <2>1, <2>2
<1>7. ASSUME NEW d \in Owned \ {b}
      PROVE  PooledBytes(b) \cap PooledBytes(d) = {}
  <2> DEFINE x == pooled[d].addr
             l == pooled[d].len
             e == pooled[d].class
  <2>1. /\ e \in ClassIds /\ x \in BlockAddrs(e) /\ x \in Nat /\ l \in Nat \ {0}
        /\ Classes[e] \in Nat /\ l <= Classes[e]
    BY BufferInBlock, Zenon
  <2>2. e # c \/ x # addr
    <3> SUFFICES ASSUME e = c
                 PROVE  x # addr
      OBVIOUS
    <3>1. PlacedIn(Holders(c), pooled, free[c], BlockAddrs(c)) /\ b \in Holders(c) /\ d \in Holders(c)
      BY <1>1, Zenon DEF PoolInv, Placed, Holders, c
    <3> QED
      BY <3>1, Zenon DEF PlacedIn, addr
  <2>3. PooledBytes(d) = Area(x, l)
    BY Zenon DEF PooledBytes
  <2> HIDE DEF x, l, e
  <2>4. addr + Classes[c] <= x \/ x + Classes[e] <= addr
    BY <1>1, <1>2, <2>1, <2>2, BlocksDisjoint, Zenon
  <2>5. Area(addr, len) \cap Area(x, l) = {}
    BY <1>1, <1>2, <2>1, <2>4 DEF Area
  <2> QED
    BY <1>3, <2>3, <2>5, Zenon
<1> QED
  BY <1>5, <1>6, <1>7, Zenon DEF len

LEMMA ConservedFromInv == PoolInv => BlocksConserved
<1> SUFFICES ASSUME PoolInv
             PROVE  BlocksConserved
  OBVIOUS
<1>1. PoolTypeOK /\ BuffersApart
  BY ApartFromInv, Zenon DEF PoolInv
<1>2. ASSUME NEW c \in ClassIds
      PROVE  /\ {AddrAt(c, s) : s \in Slots(c)} = BlockAddrs(c)
             /\ \A s, t \in Slots(c) : AddrAt(c, s) = AddrAt(c, t) => s = t
  <2>1. PlacedIn(Holders(c), pooled, free[c], BlockAddrs(c))
    BY Zenon DEF PoolInv, Placed
  <2>2. Slots(c) = {<<"free", x>> : x \in 1 .. Len(free[c])} \cup {<<"buf", b>> : b \in Holders(c)}
    BY Zenon DEF Slots, Holders
  <2>3. \A x \in 1 .. Len(free[c]) : AddrAt(c, <<"free", x>>) = free[c][x].addr
    BY Zenon DEF AddrAt
  <2>4. \A b \in Holders(c) : AddrAt(c, <<"buf", b>>) = pooled[b].addr
    BY Zenon DEF AddrAt
  <2>5. \A s \in Slots(c) : AddrAt(c, s) \in BlockAddrs(c)
    BY <2>1, <2>2, <2>3, <2>4 DEF PlacedIn
  <2>6. ASSUME NEW a \in BlockAddrs(c)
        PROVE  \E s \in Slots(c) : AddrAt(c, s) = a
    <3>1. CASE \E x \in 1 .. Len(free[c]) : free[c][x].addr = a
      <4>1. PICK x \in 1 .. Len(free[c]) : free[c][x].addr = a
        BY <3>1, Zenon
      <4>2. <<"free", x>> \in Slots(c) /\ AddrAt(c, <<"free", x>>) = a
        BY <4>1, <2>2, <2>3, Zenon
      <4> QED
        BY <4>2, Zenon
    <3>2. CASE \E b \in Holders(c) : pooled[b].addr = a
      <4>1. PICK b \in Holders(c) : pooled[b].addr = a
        BY <3>2, Zenon
      <4>2. <<"buf", b>> \in Slots(c) /\ AddrAt(c, <<"buf", b>>) = a
        BY <4>1, <2>2, <2>4, Zenon
      <4> QED
        BY <4>2, Zenon
    <3> QED
      BY <2>1, <3>1, <3>2, Zenon DEF PlacedIn
  <2>7. ASSUME NEW s \in Slots(c), NEW t \in Slots(c), AddrAt(c, s) = AddrAt(c, t)
        PROVE  s = t
    <3>1. CASE \E x, y \in 1 .. Len(free[c]) : s = <<"free", x>> /\ t = <<"free", y>>
      BY <2>1, <2>3, <2>7, <3>1 DEF PlacedIn
    <3>2. CASE \E b, d \in Holders(c) : s = <<"buf", b>> /\ t = <<"buf", d>>
      BY <2>1, <2>4, <2>7, <3>2 DEF PlacedIn
    <3>3. CASE \E x \in 1 .. Len(free[c]), b \in Holders(c) : s = <<"free", x>> /\ t = <<"buf", b>>
      BY <2>1, <2>3, <2>4, <2>7, <3>3 DEF PlacedIn
    <3>4. CASE \E x \in 1 .. Len(free[c]), b \in Holders(c) : s = <<"buf", b>> /\ t = <<"free", x>>
      BY <2>1, <2>3, <2>4, <2>7, <3>4 DEF PlacedIn
    <3> QED
      BY <2>2, <3>1, <3>2, <3>3, <3>4, Zenon
  <2> QED
    BY <2>5, <2>6, <2>7
<1> QED
  BY <1>1, <1>2, Zenon DEF BlocksConserved

\* alloc, grow and free of the pool, on any number of buffers, for any block
\* sizes and page size: every block is on the list of its class or with one
\* buffer, no two blocks overlap, and a buffer stays inside its own.
THEOREM PoolConservesBlocks == PoolSpec => []BlocksConserved
  BY PoolInvariance, ConservedFromInv, PTL

\* Dropping a pooled LockedBytes wipes its bytes before the block goes back, so
\* every byte outside the buffers in use is zero.
THEOREM PoolHandsOutZeros == PoolSpec => []FreeBlocksZero
<1>1. PoolInv => FreeBlocksZero
  BY Zenon DEF PoolInv
<1> QED
  BY <1>1, PoolInvariance, PTL
=============================================================================
