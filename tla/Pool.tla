-------------------------------- MODULE Pool --------------------------------
(***************************************************************************)
(* The page pool for small key buffers (src/src/memory/pool.rs) and the      *)
(* pooled LockedBytes (src/src/memory/mod.rs) that live in it.             *)
(*                                                                         *)
(* alloc (with grow) and free run under the pool mutex and are one step      *)
(* each.  Filling and wiping a block happen outside it, by its owner.        *)
(* Memory is a line of bytes; the operating system maps whole regions and    *)
(* may refuse to map or to lock.                                           *)
(***************************************************************************)
EXTENDS LockedBytes, Sequences

CONSTANTS
  Classes,    \* CLASSES: block sizes, smallest first
  MaxLen,     \* bound: longest buffer asked for
  MemSize     \* bound: bytes that can be mapped

ASSUME PoolAssumption ==
  /\ Classes \in Seq(Nat \ {0}) /\ Classes # <<>>
  /\ \A i, j \in 1 .. Len(Classes) : i < j => Classes[i] < Classes[j]
  /\ MaxLen \in Nat /\ MemSize \in Nat

VARIABLES
  free,     \* POOL: per class, a stack of [addr, locked]
  mapped,   \* the mappings: [base, len, class, locked]
  pooled,   \* the buffers: [stage, addr, class, len, locked]
  dirty     \* addresses that hold something other than 0

poolVars == <<free, mapped, pooled, dirty>>

ClassIds == 1 .. Len(Classes)
NoBlock == [stage |-> "none", addr |-> 0, class |-> 1, len |-> 0, locked |-> FALSE]

PoolInit ==
  /\ free = [c \in ClassIds |-> <<>>]
  /\ mapped = {}
  /\ pooled = [b \in Buffers |-> NoBlock]
  /\ dirty = {}

-----------------------------------------------------------------------------
(* The pool.                                                               *)

Area(base, len) == {a \in 0 .. (MemSize - 1) : base <= a /\ a < base + len}
Last(s) == s[Len(s)]
Front(s) == SubSeq(s, 1, Len(s) - 1)

\* CLASSES.iter().position(|&size| len <= size)
Class(len) == {c \in ClassIds : len <= Classes[c] /\ \A d \in 1 .. (c - 1) : len > Classes[d]}

RegionLen(size) == IF size > PageSize THEN size ELSE PageSize

\* The mapping a successful map_region returns; it overlaps no other.
MapRegion(c, base, locked) ==
  LET len == RegionLen(Classes[c])
  IN
  /\ base + len <= MemSize
  /\ base % PageSize = 0
  /\ \A m \in mapped : Area(m.base, m.len) \cap Area(base, len) = {}
  /\ mapped' = mapped \cup {[base |-> base, len |-> len, class |-> c, locked |-> locked]}

\* grow: the blocks of a new mapping, pushed so that the lowest is popped first.
Blocks(c, base, locked) ==
  LET count == RegionLen(Classes[c]) \div Classes[c]
  IN [i \in 1 .. count |-> [addr |-> base + (count - i) * Classes[c], locked |-> locked]]

\* Pop a block of class c, after growing an empty list.
Pop(b, c, len, list) ==
  /\ free' = [free EXCEPT ![c] = Front(list)]
  /\ pooled' = [pooled EXCEPT ![b] = [stage |-> "got", addr |-> Last(list).addr, class |-> c,
                                      len |-> len, locked |-> Last(list).locked]]

\* alloc for a length that has a class (a refused one uses the heap: PageTable).
\* When the list is empty and map_region refuses, nothing changes.
Alloc(b, len) ==
  \E c \in Class(len) :
    /\ pooled[b].stage = "none"
    /\ len > 0
    /\ \/ /\ free[c] # <<>>
          /\ Pop(b, c, len, free[c])
          /\ UNCHANGED mapped
       \/ /\ free[c] = <<>>
          /\ \E base \in 0 .. MemSize, locked \in BOOLEAN :
               /\ MapRegion(c, base, locked)
               /\ Pop(b, c, len, Blocks(c, base, locked))
    /\ UNCHANGED dirty

\* The rest of LockedBytes::from_slice: copy the bytes.
PoolFromSlice(b) ==
  /\ pooled[b].stage = "got"
  /\ dirty' = dirty \cup Area(pooled[b].addr, pooled[b].len)
  /\ pooled' = [pooled EXCEPT ![b].stage = "held"]
  /\ UNCHANGED <<free, mapped>>

\* Drop: zeroize the bytes in use ...
Zeroize_AllButOne(b) ==
  /\ pooled[b].stage = "held"
  /\ dirty' = dirty \ Area(pooled[b].addr, pooled[b].len - 1)
  /\ pooled' = [pooled EXCEPT ![b].stage = "wiped"]
  /\ UNCHANGED <<free, mapped>>
Zeroize(b) ==
  /\ pooled[b].stage = "held"
  /\ dirty' = dirty \ Area(pooled[b].addr, pooled[b].len)
  /\ pooled' = [pooled EXCEPT ![b].stage = "wiped"]
  /\ UNCHANGED <<free, mapped>>

\* ... then give the block back to the list of its class.
PoolFree_ByLen(b) ==
  /\ pooled[b].stage = "wiped"
  /\ \E c \in Class(pooled[b].len + 1) :
       free' = [free EXCEPT ![c] = Append(@, [addr |-> pooled[b].addr, locked |-> pooled[b].locked])]
  /\ pooled' = [pooled EXCEPT ![b] = NoBlock]
  /\ UNCHANGED <<mapped, dirty>>
PoolFree(b) ==
  /\ pooled[b].stage = "wiped"
  /\ free' = [free EXCEPT ![pooled[b].class] = Append(@, [addr |-> pooled[b].addr, locked |-> pooled[b].locked])]
  /\ pooled' = [pooled EXCEPT ![b] = NoBlock]
  /\ UNCHANGED <<mapped, dirty>>

PoolNext ==
  \E b \in Buffers :
    \/ \E len \in 0 .. MaxLen : Alloc(b, len)
    \/ PoolFromSlice(b) \/ Zeroize(b) \/ PoolFree(b)

PoolSpec == PoolInit /\ [][PoolNext]_poolVars

-----------------------------------------------------------------------------
(* Properties.                                                             *)

Block == [addr : 0 .. MemSize, locked : BOOLEAN]

\* Type invariant.
PoolTypeOK ==
  /\ free \in [ClassIds -> Seq(Block)]
  /\ mapped \subseteq [base : 0 .. MemSize, len : 1 .. MemSize, class : ClassIds, locked : BOOLEAN]
  /\ pooled \in [Buffers -> [stage : {"none", "got", "held", "wiped"}, addr : 0 .. MemSize,
                             class : ClassIds, len : 0 .. MaxLen, locked : BOOLEAN]]
  /\ dirty \subseteq 0 .. (MemSize - 1)

\* The bytes of a buffer, and the buffers that have a block.
PooledBytes(b) == Area(pooled[b].addr, pooled[b].len)
Owned == {b \in Buffers : pooled[b].stage # "none"}

\* The blocks that the mappings of class c divide into.
BlockAddrs(c) == {m.base + k * Classes[c] : m \in {n \in mapped : n.class = c},
                                            k \in 0 .. (RegionLen(Classes[c]) \div Classes[c] - 1)}

\* The places where a block of class c can be: on its list, or with a buffer.
Slots(c) == {<<"free", i>> : i \in 1 .. Len(free[c])} \cup {<<"buf", b>> : b \in {d \in Owned : pooled[d].class = c}}
AddrAt(c, s) == IF s[1] = "free" THEN free[c][s[2]].addr ELSE pooled[s[2]].addr

\* No byte of a buffer is in another one, or outside the mappings ("exclusively
\* ours until it is freed").
BuffersApart ==
  \A b \in Owned :
    /\ \E m \in mapped : PooledBytes(b) \subseteq Area(m.base, m.len)
    /\ Cardinality(PooledBytes(b)) = pooled[b].len
    /\ \A d \in Owned \ {b} : PooledBytes(b) \cap PooledBytes(d) = {}

\* Blocks are neither lost, duplicated, moved to another class nor overlapping:
\* the list of a class and its buffers hold, once each, the blocks that its
\* mappings divide into, and a buffer stays inside its own.
BlocksConserved ==
  /\ PoolTypeOK /\ BuffersApart
  /\ \A c \in ClassIds :
       /\ {AddrAt(c, s) : s \in Slots(c)} = BlockAddrs(c)
       /\ \A s, t \in Slots(c) : AddrAt(c, s) = AddrAt(c, t) => s = t

\* "A zeroed block": what is on a free list, or was just handed out, is zero.
FreeBlocksZero == dirty \subseteq UNION {PooledBytes(b) : b \in {d \in Buffers : pooled[d].stage = "held"}}
=============================================================================
