------------------------------- MODULE Fragment -------------------------------
(***************************************************************************)
(* The fragment strategies (fragment/*.rs): a key is cut up by one call of *)
(* fragment and put together again by one call of defragment_into, loop    *)
(* iteration by loop iteration.  A random draw is any value of its range,  *)
(* or fails.                                                               *)
(*                                                                         *)
(* Layouts are sequences of u32 words; `stray` says that the layout buffer *)
(* has bytes after the last whole word.  Offsets count from 0.             *)
(***************************************************************************)
EXTENDS Integers, Sequences, FiniteSets

CONSTANTS
    Calls,      \* the calls of fragment: <<strategy, key>>, keys are sequences of bytes
    Noise,      \* the bytes that padding and random decoys are drawn from
    U32Max,     \* u32::MAX
    Readers,    \* the strategies that defragment what another strategy or a caller made
    Custom      \* Fragments that a caller built with from_chunks

ASSUME FragmentAssumption ==
    /\ U32Max \in Nat \ {0}
    /\ \A c \in Calls : c[2] \in Seq(Nat)
    /\ Noise \subseteq Nat

VARIABLES
    pc,         \* the loop that runs
    key,        \* what fragment was called with
    maker,      \* the strategy that made the Fragments ("custom": from_chunks)
    reader,     \* the strategy that reads them
    how,        \* the strategy that runs, below the layered ones that chose it
    header,     \* the words that those layered strategies put before its layout
    pairs,      \* StandardFragmenter: real_pairs
    decoys,     \* StandardFragmenter: decoy_chunks
    order,      \* the slice that fisher_yates shuffles
    i,          \* loop index
    cursor,     \* bytes cut so far; layout words read; bytes written
    frags,      \* the Fragments: chunks, layout, stray, total_len
    start,      \* layout_start of the view that a layered strategy hands on
    out,        \* the output buffer of defragment_into
    result      \* of the call that returned

vars == <<pc, key, maker, reader, how, header, pairs, decoys, order, i, cursor,
          frags, start, out, result>>

Lesser(a, b) == IF a <= b THEN a ELSE b
Greater(a, b) == IF a >= b THEN a ELSE b

(***************************************************************************)
(* The constructors clamp their arguments.                                 *)
(***************************************************************************)
Strategy(kind, min, max, decoy, factor, sub) ==
    [kind |-> kind, min |-> min, max |-> max, decoy |-> decoy, factor |-> factor,
     sub |-> sub]

\* StandardFragmenter::with_chunk_range(min, max), with_decoy(decoy).
Standard(min, max, decoy) ==
    LET lo == Greater(min, 1)
    IN  Strategy("standard", lo, Greater(max, lo), decoy, 0, <<>>)

\* RandomFragmenter::with_chunk_range(min, max).
RandomScatter(min, max) ==
    LET lo == Greater(min, 1)
    IN  Strategy("random", lo, Greater(max, lo), "none", 0, <<>>)

\* InterleavedFragmenter::with_pool_factor(factor).
Interleaved(factor) ==
    Strategy("interleaved", 0, 0, "none", Greater(factor, 2), <<>>)

\* LayeredFragmenter::new(sub); an empty list is refused.
Layered(sub) == Strategy("layered", 0, 0, "none", 0, sub)

NoStrategy == Strategy("none", 0, 0, "none", 0, <<>>)
CustomMade == Strategy("custom", 0, 0, "none", 0, <<>>)
NoFragments == [chunks |-> <<>>, layout |-> <<>>, stray |-> FALSE, total_len |-> 0]

DecoyOffset == U32Max
Word(n) == n % (U32Max + 1)
Zeros(n) == [p \in 1 .. n |-> 0]

Init ==
    /\ pc = "idle" /\ result = "none"
    /\ key = <<>> /\ maker = NoStrategy /\ reader = NoStrategy /\ how = NoStrategy
    /\ header = <<>> /\ pairs = <<>> /\ decoys = <<>> /\ order = <<>>
    /\ i = 0 /\ cursor = 0 /\ start = 0
    /\ frags = NoFragments /\ out = <<>>

-------------------------------------------------------------------------------
(***************************************************************************)
(* fragment                                                                *)
(***************************************************************************)

\* strategy.fragment(key) is called.
Fragment(s, k) ==
    /\ pc = "idle"
    /\ maker' = s /\ how' = s /\ key' = k
    /\ pc' = "begin"
    /\ UNCHANGED <<reader, header, pairs, decoys, order, i, cursor, frags, start, out,
                   result>>

\* The call returns an error; nothing it made is kept.
FragmentFails ==
    /\ pc' = "idle" /\ result' = "refused"
    /\ key' = <<>> /\ maker' = NoStrategy /\ how' = NoStrategy
    /\ header' = <<>> /\ pairs' = <<>> /\ decoys' = <<>> /\ order' = <<>>
    /\ i' = 0 /\ cursor' = 0 /\ frags' = NoFragments
    /\ UNCHANGED <<reader, start, out>>

\* LayeredFragmenter::fragment picks a sub-strategy and later puts its index
\* before the layout of that one.
PickStrategy ==
    /\ pc = "begin" /\ how.kind = "layered"
    /\ \E pick \in 0 .. Len(how.sub) - 1 :
          /\ how' = how.sub[pick + 1]
          /\ header' = Append(header, Word(pick))
    /\ UNCHANGED <<pc, key, maker, reader, pairs, decoys, order, i, cursor, frags, start,
                   out, result>>

\* StandardFragmenter accepts a key of any length.
Refuses_Uncapped ==
    \/ key = <<>>
    \/ how.kind = "random" /\ Len(key) > U32Max
    \/ how.kind = "interleaved" /\ Len(key) * how.factor > U32Max

\* The early returns: an empty key, an invalid chunk range, and a key whose
\* offsets would not fit in the layout.
Refuses ==
    \/ key = <<>>
    \/ /\ how.kind = "standard"
       /\ Len(key) >= DecoyOffset \/ how.min = 0 \/ how.max < how.min
    \/ how.kind = "random" /\ Len(key) > U32Max
    \/ how.kind = "interleaved" /\ Len(key) * how.factor > U32Max

\* The identity permutation of 0 .. n - 1, as the u32 or the index it is kept in.
Positions(n) == [p \in 1 .. n |-> Word(p - 1)]

Shuffle(n) == order' = Positions(n) /\ i' = n - 1 /\ pc' = "shuffle"

Begin ==
    /\ pc = "begin" /\ how.kind # "layered"
    /\ \/ Refuses /\ FragmentFails
       \/ /\ ~Refuses
          /\ \/ how.kind = "standard" /\ pc' = "sizes" /\ UNCHANGED <<order, i>>
             \/ how.kind = "random" /\ Shuffle(Len(key))
             \/ how.kind = "interleaved" /\ Shuffle(Len(key) * how.factor)
          /\ UNCHANGED <<key, maker, reader, how, header, pairs, decoys, cursor, frags,
                         start, out, result>>

\* The size of the next chunk (sample_chunk_sizes, and the same in
\* RandomFragmenter): everything that is left once it fits, otherwise a draw that
\* tries to leave enough for one more chunk.
ChunkSizes(remaining) ==
    IF remaining <= how.max
    THEN {remaining}
    ELSE {Lesser(Lesser(Greater(Lesser(pick, remaining - how.min), how.min), how.max),
                 remaining) : pick \in how.min .. how.max}

\* One chunk of the real key: its size is drawn and its offset recorded, if it fits
\* in a u32.
SampleSize ==
    /\ pc = "sizes" /\ cursor < Len(key)
    /\ IF cursor > U32Max
       THEN FragmentFails
       ELSE /\ \E size \in ChunkSizes(Len(key) - cursor) :
                  /\ pairs' = Append(pairs, [offset |-> cursor,
                                             slice |-> SubSeq(key, cursor + 1, cursor + size)])
                  /\ cursor' = cursor + size
            /\ UNCHANGED <<pc, key, maker, reader, how, header, decoys, order, i, frags,
                           start, out, result>>

NDecoy == IF how.decoy = "none" THEN 0 ELSE Len(pairs)

\* SelfReferenceDecoy: each byte is copied from a random place of the key.
SelfReference(n) == [1 .. n -> {key[p] : p \in DOMAIN key}]

\* RandomDecoy: random bytes.
RandomDecoy(n) == [1 .. n -> Noise]

\* KeyDerivedDecoy: a BLAKE3 output stream, keyed by the key and a fresh nonce.
KeyDerived(n) == [1 .. n -> Noise]

\* DecoyStrategy::generate(key, n) of the strategy's decoy.
Generate(n) ==
    CASE how.decoy = "self" -> SelfReference(n)
      [] how.decoy = "random" -> RandomDecoy(n)
      [] how.decoy = "derived" -> KeyDerived(n)

MakeDecoy ==
    /\ pc = "sizes" /\ cursor = Len(key) /\ Len(decoys) < NDecoy
    /\ \E size \in how.min .. how.max : \E bytes \in Generate(size) :
          decoys' = Append(decoys, bytes)
    /\ UNCHANGED <<pc, key, maker, reader, how, header, pairs, order, i, cursor, frags,
                   start, out, result>>

\* Real chunks are indices below Len(pairs), decoys the ones after.
Combine ==
    /\ pc = "sizes" /\ cursor = Len(key) /\ Len(decoys) = NDecoy
    /\ order' = [p \in 1 .. Len(pairs) + NDecoy |-> p - 1]
    /\ i' = Len(pairs) + NDecoy - 1
    /\ pc' = "shuffle"
    /\ UNCHANGED <<key, maker, reader, how, header, pairs, decoys, cursor, frags, start,
                   out, result>>

\* One iteration of fisher_yates.
Swap ==
    /\ pc = "shuffle" /\ i > 0
    /\ \E j \in 0 .. i :
          order' = [order EXCEPT ![i + 1] = order[j + 1], ![j + 1] = order[i + 1]]
    /\ i' = i - 1
    /\ UNCHANGED <<pc, key, maker, reader, how, header, pairs, decoys, cursor, frags,
                   start, out, result>>

\* Fragments::from_parts; every layered strategy on the way puts its header before
\* the layout.  What the call used is dropped.
Store(chunks, layout) ==
    /\ frags' = [chunks |-> chunks, layout |-> header \o layout, stray |-> FALSE,
                 total_len |-> Len(key)]
    /\ pc' = "stored" /\ result' = "fragmented"
    /\ how' = NoStrategy /\ header' = <<>> /\ pairs' = <<>> /\ decoys' = <<>>
    /\ order' = <<>> /\ i' = 0 /\ cursor' = 0

\* StandardFragmenter walks the shuffled order.  A decoy can be taken only once.
Materialize ==
    /\ pc = "shuffle" /\ i = 0 /\ how.kind = "standard"
    /\ LET n_real == Len(pairs)
           twice == \E p, q \in DOMAIN order :
                       p # q /\ order[p] = order[q] /\ order[p] >= n_real
           IsReal(p) == order[p] < n_real
           Chunk(p) == IF IsReal(p) THEN pairs[order[p] + 1].slice
                                    ELSE decoys[order[p] - n_real + 1]
           Offset(p) == IF IsReal(p) THEN pairs[order[p] + 1].offset ELSE DecoyOffset
       IN  IF twice
           THEN FragmentFails
           ELSE /\ Store([p \in DOMAIN order |-> Chunk(p)], [p \in DOMAIN order |-> Offset(p)])
                /\ UNCHANGED <<key, maker, reader, start, out>>

\* RandomFragmenter peels the next group of positions off the permutation.  The
\* position list of a chunk follows its size in the layout.
Peel ==
    /\ pc = "shuffle" /\ i = 0 /\ how.kind = "random" /\ cursor < Len(order)
    /\ \E size \in ChunkSizes(Len(order) - cursor) :
          LET group == SubSeq(order, cursor + 1, cursor + size)
              chunks == Append(frags.chunks, [p \in 1 .. size |-> key[group[p] + 1]])
              layout == frags.layout \o <<Word(size)>> \o group
          IN  IF cursor + size = Len(order)
              THEN Store(chunks, layout)
              ELSE /\ frags' = [frags EXCEPT !.chunks = chunks, !.layout = layout]
                   /\ cursor' = cursor + size
                   /\ UNCHANGED <<pc, how, header, pairs, decoys, order, i, result>>
    /\ UNCHANGED <<key, maker, reader, start, out>>

\* InterleavedFragmenter puts key byte p at the p-th shuffled position of a pool of
\* random padding.
Scatter ==
    /\ pc = "shuffle" /\ i = 0 /\ how.kind = "interleaved"
    /\ \E padding \in [{p \in 1 .. Len(order) :
                          \A n \in 1 .. Len(key) : order[n] # p - 1} -> Noise] :
          LET positions == SubSeq(order, 1, Len(key))
              pool == [p \in 1 .. Len(order) |->
                         IF p \in DOMAIN padding THEN padding[p]
                         ELSE key[CHOOSE n \in 1 .. Len(key) : positions[n] = p - 1]]
          IN  Store(<<pool>>, <<Word(Len(order))>> \o positions)
    /\ UNCHANGED <<key, maker, reader, start, out>>

\* The points at which random bytes are drawn.
Draws ==
    \/ pc = "begin" /\ how.kind = "layered"
    \/ pc = "sizes" /\ Len(key) - cursor > how.max
    \/ pc = "sizes" /\ cursor = Len(key) /\ Len(decoys) < NDecoy
    \/ pc = "shuffle" /\ i > 0
    \/ pc = "shuffle" /\ how.kind = "random" /\ Len(order) - cursor > how.max
    \/ pc = "shuffle" /\ how.kind = "interleaved"

\* rng::fill fails: the call returns the error.
RngFails == Draws /\ FragmentFails

\* A caller builds Fragments of its own: Fragments::from_chunks.
FromChunks ==
    /\ pc = "idle"
    /\ frags' \in Custom
    /\ maker' = CustomMade
    /\ pc' = "stored" /\ result' = "fragmented"
    /\ UNCHANGED <<key, reader, how, header, pairs, decoys, order, i, cursor, start, out>>

-------------------------------------------------------------------------------
(***************************************************************************)
(* defragment_into                                                         *)
(***************************************************************************)

\* layout_bytes() of the view that the running strategy was handed.
View == SubSeq(frags.layout, start + 1, Len(frags.layout))

\* reader.defragment_into(frags, out) is called with a zeroed buffer of n bytes.
\* defragment and with_key always pass total_len bytes.
DefragmentInto(s, n) ==
    /\ pc = "stored"
    /\ reader' = s /\ how' = s
    /\ out' = Zeros(n)
    /\ pc' = "read" /\ result' = "none"
    /\ UNCHANGED <<key, maker, header, pairs, decoys, order, i, cursor, frags, start>>

\* The call returns r.  On an error the caller wipes what was already written.
Return(r) ==
    /\ pc' = "done" /\ result' = r
    /\ UNCHANGED <<key, maker, reader, how, header, pairs, decoys, order, i, cursor, frags,
                   start>>

Continue == UNCHANGED <<key, maker, reader, header, pairs, decoys, order, frags, result>>

\* LayeredFragmenter::pick: the header names a sub-strategy.
PickFails == View = <<>> \/ View[1] >= Len(how.sub)

\* The same chunks, with the first words of the layout hidden.
ViewSkipping(words) == start' = start + words

\* LayeredFragmenter::defragment_into hands on a view behind the four-byte header.
ReadHeader ==
    /\ pc = "read" /\ how.kind = "layered"
    /\ IF PickFails
       THEN Return("error") /\ UNCHANGED out
       ELSE /\ how' = how.sub[View[1] + 1]
            /\ ViewSkipping(1)
            /\ UNCHANGED <<pc, i, cursor, out>> /\ Continue

\* The checks that come before any byte is written.
WellFormed ==
    /\ Len(out) = frags.total_len
    /\ how.kind = "standard" => ~frags.stray /\ Len(View) = Len(frags.chunks)
    /\ how.kind = "interleaved" =>
          /\ Len(frags.chunks) = 1
          /\ ~frags.stray /\ Len(View) = 1 + frags.total_len
          /\ View[1] = Len(frags.chunks[1])

Check ==
    /\ pc = "read" /\ how.kind # "layered"
    /\ IF WellFormed
       THEN pc' = "copy" /\ i' = 1 /\ UNCHANGED <<how, cursor, start, out>> /\ Continue
       ELSE Return("error") /\ UNCHANGED out

\* Chunk i of StandardFragmenter: a decoy is skipped, a real chunk is written at its
\* offset.  Writing past the end of the buffer would panic.
CopyChunk_Unchecked ==
    /\ pc = "copy" /\ how.kind = "standard" /\ i <= Len(frags.chunks)
    /\ LET offset == View[i]
           chunk == frags.chunks[i]
           end == offset + Len(chunk)
       IN  IF offset = DecoyOffset
           THEN i' = i + 1 /\ UNCHANGED <<pc, how, start, cursor, out>> /\ Continue
           ELSE IF end > Len(out)
           THEN Return("panic") /\ UNCHANGED out
           ELSE /\ out' = [p \in DOMAIN out |->
                             IF p > offset /\ p <= end THEN chunk[p - offset] ELSE out[p]]
                /\ cursor' = cursor + Len(chunk)
                /\ i' = i + 1
                /\ UNCHANGED <<pc, how, start>> /\ Continue

CopyChunk ==
    /\ pc = "copy" /\ how.kind = "standard" /\ i <= Len(frags.chunks)
    /\ LET offset == View[i]
           chunk == frags.chunks[i]
           end == offset + Len(chunk)
       IN  IF offset = DecoyOffset
           THEN i' = i + 1 /\ UNCHANGED <<pc, how, start, cursor, out>> /\ Continue
           ELSE IF end > frags.total_len
           THEN Return("error") /\ UNCHANGED out
           ELSE IF end > Len(out)
           THEN Return("panic") /\ UNCHANGED out
           ELSE /\ out' = [p \in DOMAIN out |->
                             IF p > offset /\ p <= end THEN chunk[p - offset] ELSE out[p]]
                /\ cursor' = cursor + Len(chunk)
                /\ i' = i + 1
                /\ UNCHANGED <<pc, how, start>> /\ Continue

\* written must equal total_len.
CopyChunksEnd ==
    /\ pc = "copy" /\ how.kind = "standard" /\ i > Len(frags.chunks)
    /\ Return(IF cursor = frags.total_len THEN "ok" ELSE "error")
    /\ UNCHANGED out

\* Chunk i of RandomFragmenter: each byte goes to its recorded position, a later
\* byte over an earlier one.
PlaceBytes ==
    /\ pc = "copy" /\ how.kind = "random" /\ i <= Len(frags.chunks)
    /\ LET chunk == frags.chunks[i]
           size == Len(chunk)
           listed == /\ cursor < Len(View)
                     /\ View[cursor + 1] = size
                     /\ cursor + 1 + size <= Len(View)
           Pos(b) == View[cursor + 1 + b]
       IN  IF ~listed \/ \E b \in 1 .. size : Pos(b) >= frags.total_len
           THEN Return("error") /\ UNCHANGED out
           ELSE IF \E b \in 1 .. size : Pos(b) >= Len(out)
           THEN Return("panic") /\ UNCHANGED out
           ELSE /\ out' = [p \in DOMAIN out |->
                             LET here == {b \in 1 .. size : Pos(b) = p - 1}
                             IN  IF here = {} THEN out[p]
                                 ELSE chunk[CHOOSE b \in here : \A c \in here : c <= b]]
                /\ cursor' = cursor + 1 + size
                /\ i' = i + 1
                /\ UNCHANGED <<pc, how, start>> /\ Continue

\* Nothing may follow the last position list.
PlaceBytesEnd ==
    /\ pc = "copy" /\ how.kind = "random" /\ i > Len(frags.chunks)
    /\ Return(IF cursor = Len(View) /\ ~frags.stray THEN "ok" ELSE "error")
    /\ UNCHANGED out

\* InterleavedFragmenter picks every byte out of the pool.
Gather ==
    /\ pc = "copy" /\ how.kind = "interleaved"
    /\ LET pool == frags.chunks[1]
           Pos(p) == View[p + 1]
       IN  IF \E p \in DOMAIN out : Pos(p) >= View[1]
           THEN Return("error") /\ UNCHANGED out
           ELSE IF \E p \in DOMAIN out : Pos(p) >= Len(pool)
           THEN Return("panic") /\ UNCHANGED out
           ELSE /\ out' = [p \in DOMAIN out |-> pool[Pos(p) + 1]]
                /\ Return("ok")

\* The caller drops the Fragments and the output.
Drop ==
    /\ pc = "done"
    /\ pc' = "idle" /\ result' = "none"
    /\ key' = <<>> /\ maker' = NoStrategy /\ reader' = NoStrategy /\ how' = NoStrategy
    /\ i' = 0 /\ cursor' = 0 /\ start' = 0 /\ frags' = NoFragments /\ out' = <<>>
    /\ UNCHANGED <<header, pairs, decoys, order>>

Step ==
    \/ PickStrategy \/ Begin \/ SampleSize \/ MakeDecoy \/ Combine \/ Swap
    \/ Materialize \/ Peel \/ Scatter \/ RngFails
    \/ ReadHeader \/ Check \/ CopyChunk \/ CopyChunksEnd \/ PlaceBytes \/ PlaceBytesEnd
    \/ Gather

Next ==
    \/ \E c \in Calls : Fragment(c[1], c[2])
    \/ FromChunks
    \/ \E s \in Readers \cup ({maker} \ {CustomMade}),
          n \in {frags.total_len, frags.total_len + 1} : DefragmentInto(s, n)
    \/ Step
    \/ Drop

Spec == Init /\ [][Next]_vars
-------------------------------------------------------------------------------
(***************************************************************************)
(* Properties                                                              *)
(***************************************************************************)

IsBytes(s) == s \in Seq(Nat)

\* The values that the variables of fragment and defragment_into can take.
TypeOK ==
    /\ pc \in {"idle", "begin", "sizes", "shuffle", "stored", "read", "copy", "done"}
    /\ result \in {"none", "refused", "fragmented", "ok", "error", "panic"}
    /\ IsBytes(key) /\ IsBytes(out)
    /\ \A p \in DOMAIN pairs : pairs[p].offset \in 0 .. U32Max /\ IsBytes(pairs[p].slice)
    /\ \A p \in DOMAIN decoys : IsBytes(decoys[p])
    /\ \A p \in DOMAIN frags.chunks : IsBytes(frags.chunks[p])
    /\ \A p \in DOMAIN frags.layout : frags.layout[p] \in 0 .. U32Max
    /\ frags.stray \in BOOLEAN /\ frags.total_len \in Nat
    /\ i \in Nat /\ cursor \in 0 .. Len(key) + Len(frags.layout) + Len(out)
    /\ start \in 0 .. Len(frags.layout)

\* A strategy puts together exactly the key that it cut up, whatever sizes, swaps,
\* padding and decoys were drawn ("defragment(fragment(key)) must produce a RawKey
\* equal to key byte-for-byte"), for every key length that it accepts.
RoundTrip ==
    pc = "done" /\ maker = reader /\ Len(out) = Len(key) =>
        result = "ok" /\ out = key

\* Whatever Fragments a strategy is handed (its own, another strategy's, or ones
\* that a caller built with from_chunks), defragment_into never indexes outside a
\* buffer: it returns, and all words, cursors and positions on the way were in range.
NeverPanics == TypeOK /\ result # "panic"

=============================================================================
