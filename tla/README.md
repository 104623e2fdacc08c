# key-vault in TLA+

A verification development for the `key-vault` crate (`src/src/`): TLA+ models of
its concurrent parts and of what happens to the bytes of a key, TLC runs that
check them on small instances, and TLAPS proofs of what matters most for every
value of the constants. Line numbers below refer to `src/src/vault/mod.rs` unless another file is named.

## The system

| Part | State | Operations | Interacts with |
|---|---|---|---|
| Lockout (`vault/mod.rs`) | `locked_out`, `failure_tracker`, `key_locks`, `key_locks_active`, `master_backoff` | `report_failure`, `is_locked_out`, `is_key_locked_out`, `clear_key_lockout`, `clear_lockout`, `unlock_with_master` | gates the registry operations; reads the clock; calls the monitor |
| Registry (`vault/mod.rs`, `handle.rs`) | `keys` (a map swapped as a whole), `writer`, the id counter | `register`, `unregister`, `rotate`, `with_key`, read-only queries | gated by the lockout; fragments keys; calls the audit sink |
| Scratch (`vault/mod.rs`) | one buffer per thread, or one per call without `std` | `read_key`, `ensure_len`, `release` | page table |
| Memory (`memory/`) | page table, pool free lists, guarded regions with reader counts | `LockedBytes::from_slice`, drop, `acquire_region`, `release_region`, `pool::alloc`, `free`, `GuardedRegion::open`, `seal`, drop | the operating system |
| Fragmenters, decoys (`fragment/`, `decoy/`) | none (layouts are values) | `fragment`, `defragment`, `defragment_into` | memory |
| Codex (`codex/`) | a byte table | `encode`, `decode` | memory |
| Fetchers (`fetcher/`) | none | `fetch` | files, environment, keychain, TPM |
| Locks (`sync.rs`) | the spin lock and the registry cell of `no_std` builds | `lock`, `load`, `swap` | hold the registry's map |
| Monitors, audit sinks (`monitor/`, `audit/`) | none in the crate | callbacks | the caller's code |
| Builder (`vault/mod.rs`) | configuration | `from_features`, `with_*`, `build` | everything |
| TEE detection (`tee/`) | none | `detect` | CPUID, device files |
| Clock, rng, errors, metadata, normalization | none that changes | | |

What makes the code hard is above all in the first four rows: readers take no lock, a
counter is read outside the mutex that guards what it counts, checks are made on
a snapshot and repeated under a lock, a clock is read before a lock is taken,
operating-system page locks do not nest, and a system call may be refused at any
step of a buffer's life. The caller's closures, codices, sinks and monitors run in
the middle of calls, may panic there and may call the vault again. A key file may
be moved between the system calls that check and read it. The fragmenters are
sequential but draw their sizes, orders and padding at random, so a test sees one
of very many outcomes.
`PROJECT.json` lists these hazards line by line, with the properties that would catch each.

## Modules

| Module | Models |
|---|---|
| `Lockout` | failure windows, vault-wide and per-key lockout, the lock-free fast path, master unlock with backoff |
| `Lockout_proofs` | its theorems about the counter and the fast path |
| `Lockout_failures` | its theorems about the failures: backoff and windows |
| `MCLockout` | TLC instances |
| `Registry` | `register`, `unregister`, `rotate`, `with_key` |
| `RegistrySpec` | what the registry promises: every operation is atomic |
| `Registry_proofs` | its theorems |
| `Registry_refinement` | the proof that `Registry` implements `RegistrySpec` |
| `MCRegistry` | TLC instances |
| `LockedBytes` | what `PageTable` and `Pool` share: the buffers and the page size |
| `PageTable` | heap `LockedBytes`, scratch buffers, `acquire_region` and `release_region` |
| `Pool` | the page pool and the pooled `LockedBytes` |
| `Memory_proofs` | the theorems of `PageTable` and `Pool`, the two kinds of memory behind `LockedBytes` |
| `Guarded` | page-protected regions under readers, rotations and removals |
| `Guarded_proofs` | its theorems |
| `Fragment` | the four fragment strategies and the three decoy strategies |
| `Codex` | the constructors of the codices |
| `Pipeline` | extends `Codex`: normalizer, codex and fragmenter on the way in, `with_key` and `defragment` on the way out |
| `Cell` | the `no_std` spin lock, the registry cell behind it, the id counter |
| `Cell_proofs` | its theorems |
| `CellSpec` | what the registry expects of its cell: `load` and `swap` are atomic |
| `Calls` | the stack of calls of each thread: scopes, callbacks, panics, re-entry |
| `Fetch` | the fetchers, `FileFetch` system call by system call |
| `Builder` | `KeyVaultBuilder` and the vault's configuration |
| `Tee` | TEE detection |
| `Startup` | extends `Fetch`, `Builder` and `Tee`: what an application does before its first call |
| `KeyPath_proofs` | the theorems of `Startup` and `Pipeline`, the two sequential stretches of a key's way |
| `MCPageTable`, `MCPool`, `MCGuarded`, `MCFragment`, `MCPipeline`, `MCCell`, `MCCalls`, `MCStartup` | TLC instances |

### Lockout

Each thread runs one call at a time; `pc[t]` is the point it has reached and
`name`, `per_key`, `now`, `counts` are its locals. A step is one access to shared
state: an atomic load, store, swap or `fetch_add`, one reading of the clock, or
one critical section. The `key_locks` mutex is the variable `lock_owner`, because
`key_locks_active` changes while it is held and is read without it; the other two
mutexes guard nothing that is read outside them, so their critical sections are
single steps.

| Code | Actions |
|---|---|
| `report_failure` / `handle_failure` / `record_failure` (488–551, 620–658) | `ReportFailure`, `ReadNow`, `RecordFailure`, `TripVault`, `StampUntil`, `LockKey`, `CountKeyLock` |
| `key_locked`, `key_locked_slow` (556–581), reached from `with_key`, `rotate`, `is_key_locked_out` | `WithKey`, `IsKeyLockedOut`, `KeyLocked`, `KeyLockedSlow`, `PruneCount`, `PruneForget` |
| `clear_key_lockout` (439–446) | `ClearKeyLockout`, `ClearKeyCount`, `ClearKeyForget` |
| `clear_lockout` (453–461) | `ClearLockout` or `MasterClear`, `ClearKeyLocks`, `ResetCounter`, `ClearTracker` |
| `unlock_with_master`, `backoff_delay` (1127–1196) | `UnlockWithMaster`, then the actions of `clear_lockout` or of `handle_failure` |

A call that returns at once and changes nothing (a refused `with_key`, a
rate-limited master attempt) is not a step. The counter is a `usize` of width
`UsizeMax + 1` and wraps. `recorded`, `skewed` and `debt` are history variables:
the failures without eviction, the names whose failures were recorded out of
timestamp order, and the subtractions that were pending when `clear_lockout`
stored 0. Atomics are sequentially consistent in the model; the code uses
acquire/release on variables whose order matters only through the mutex.

### Registry

`keys` is the current map; a writer's copy of it is `cur[t]`. Loads, swaps, lock
operations and audit calls are steps; fragmenting is local to a thread and may
fail. A key is the value that reassembling its fragments returns. The lockout
flags change on their own (`LockoutChanges`), which covers every behaviour of
`Lockout`. `issued` records the handles a caller can have: those that `register`
returned or that `handle_for_name` can find.

`RegistrySpec` has no mutex, no snapshot and no audit log: an operation is
called, takes effect at one instant or fails for a reason that holds then, and
returns. `Registry` refines it (`Linearizable`, with `AbstractCall` and
`AbstractOut` as the mapping).

### PageTable

`table` is the map `PAGES` from page start to reference count and flags;
`os_locked` and `os_excluded` are what the operating system really holds.
`buf[b].stage` is the point in the life of a buffer, `secret` the addresses that
hold key bytes.

| Code (`memory/mod.rs`) | Actions |
|---|---|
| `from_slice`, heap part (158–180) | `FromSlice`, `AcquireRegion` |
| `ensure_len`, `read_key`, `ZeroOnExit` (`vault/mod.rs` 926–961, 1270–1334) | `EnsureLen`, `AcquireRegion`, `Reassemble`, `ZeroOnExit` |
| drop (254–275), `release_region` (417–444) | `Wipe`, `ReleaseRegion`, `Free` |

The two functions of the page table run under its mutex, system calls included,
so each is one step. The allocator (`Allocate`, external) returns any free place,
so buffers share pages in every way.

### Pool

One step for `alloc` with `grow`, one for `free` (both run under the pool mutex),
and one each for the copy (`PoolFromSlice`) and for the wipe (`Zeroize`) that the owner of a block does outside
it. `Class` is the search in `CLASSES`, `Blocks` the division of a new mapping. A
request that the pool refuses falls back to the heap, which is `PageTable`.

### Guarded

One key and its region in the registry (`current`). A thread that shares the
fragments, builds a region or took the old map out of the registry holds the
region; the last holder drops it. The `readers` mutex is explicit because its
critical sections contain a system call that may be refused.

| Code | Actions |
|---|---|
| `with_key` up to the callback (`vault/mod.rs`), `open` and drop of `RegionAccess` (`memory/guarded.rs` 146–220) | `Share`, `GiveUp`, `OpenLock`, `OpenProtect`, `OpenCount`, `CloseLock`, `CloseProtect`, `Release` |
| `register`, `rotate` with `into_protected` | `NewRegion`, `Fill`, `Seal`, `Install`, `InstallFails`, `Release` |
| `unregister` | `Unregister`, `Release` |
| drop of the region (167–191) | `DropProtect`, `Wipe`, `Unlock`, `Unmap` |

`refused` and `stuck` record where the system refused to close a region, or to
make it writable for the wipe. The platform is Unix or Windows: on Windows a page
lock ends when the page becomes inaccessible, and nothing is excluded from dumps,
so the region must be created, closed and dropped in another way (`memory/unix.rs`,
`memory/windows.rs`, the operators of the section on the shims).

### Fragment

One call of `fragment` and one of `defragment_into` after it, one step per loop
iteration. Layouts are sequences of `u32` words, with `DecoyOffset = U32Max` as in
the code; `stray` stands for a layout buffer whose length is not a multiple of 4.
Random sizes, swaps, padding and decoys are any value of their range, and the
generator may fail at each draw (`RngFails`). An access that would be out of
bounds is the result `"panic"`.

| Code (`fragment/`) | Actions |
|---|---|
| `standard.rs` | `Begin`, `SampleSize`, `MakeDecoy`, `Combine`, `Swap`, `Materialize`; `Check`, `CopyChunk`, `CopyChunksEnd` |
| `random.rs` | `Begin`, `Swap`, `Peel`; `Check`, `PlaceBytes`, `PlaceBytesEnd` |
| `interleaved.rs` | `Begin`, `Swap`, `Scatter`; `Check`, `Gather` |
| `layered.rs` | `PickStrategy`; `ReadHeader` |
| `Fragments::from_chunks` | `FromChunks` |

### Codex and Pipeline

`from_swaps` is `FromSwaps`, `ApplySwap` per pair and `SwapsDone`;
`random_involution` is `RandomInvolution`, `ShufflePerm` per swap and `PairUp` per
pair. A codex is a pair of functions on bytes. In `Pipeline` a vault with that
codex and a normalizer fragments a key for the caller (`FragmentOnce`,
`Defragment`) or for the registry (`Register`, `Rotate`, `WithKey`), with the
metadata that `register` and `rotate` store beside it. The fragmenter hands
back what it was given or fails, which is what `Fragment` shows (`RoundTrip`).

### Cell

The spin lock with its two loops (`TryLock`, `TryFails`, `Spin`, `Unlock`;
`sync.rs` 69–80 and the drop of `SpinGuard`), and the three users of it: `load`
(`Read`, `Clone`), `swap` (`Read`, `Replace`) and, on targets without 64-bit
atomics, the id counter (`GetCounter`, `AddCounter`; `handle.rs`). Every access to
what the lock protects is a step of its own, so that a lock that does not exclude
shows. An Arc is freed when its count reaches 0. `CellSpec` is the cell that the
registry's code is written for; `Registry` takes its loads and swaps as atomic on
the strength of `AtomicCell` (in `no_std` builds) and of the `arc_swap` crate.

### Calls

`Lockout` and `Registry` say what the methods do to the vault's data; `Calls` says
what a call holds while it runs somebody else's code. A method is the sequence of
its scopes and callbacks (`with_key`, `register`, `rotate`, `report_failure`, ...),
with `Either` where its data decide. A thread has a stack of such calls, because a
callback may call the vault. A scope is a mutex, the borrow of the scratch buffer,
the `ZeroOnExit` guard or the `RegionAccess` of a mapping.

| Code (`vault/mod.rs`) | Actions |
|---|---|
| a method is called, directly or from a callback | `Call` |
| a callback returns or panics; unwinding drops the guards in scope | `UserReturns`, `UserPanics`, `Unwind` |
| `lock()`, `open()`, `ZeroOnExit`, and the end of their scopes | `Lock`, `Open`, `Guard`, `LeaveScope` |
| `SCRATCH.with`, `borrow_mut`, `ensure_len` (933–937); `ScratchBuf::new` without `std` | `BorrowScratch`, `NewScratchBuf` |
| `defragment_into`, whole or failing after some bytes | `DefragmentInto` |
| a thread ends, its scratch with it | `ThreadEnds` |

The clock, which the caller may also supply, is taken not to call the vault.

### Fetch, Builder, Tee and Startup

`Fetch` is `FileFetch::fetch` with a step per system call: open, `fstat`,
`canonicalize` with the comparison of device and inode, the directories, each
`read`. Between two steps another process may repoint the symlink, replace the
file or append to it (`Relink` and the actions after it). `residue` counts key
bytes in memory that was freed. The environment, keychain and TPM fetchers are one
answer of the platform each.

`Builder` has an action per method of `KeyVaultBuilder`. The features that
`from_features` looks at are any subset; what `build` needs from the random
generator or the system may fail. `Tee` is a set of pure operators, one per probe;
a CPUID leaf that the CPU does not have reads as an arbitrary value. The three do
not share state; `Startup` lets an application do one of them.

## Runs

| Run | Instance | Shows |
|---|---|---|
| `lockout_calls` | 2 threads, 2 names, every operation, 4 calls, threshold 1, expiry after 1 tick | `CounterAccounted`: `key_locks_active` counts the entries of `key_locks` up to the calls in flight; `FastPathSound`: a zero counter means nothing is locked out; `EveryCallReturns` |
| `lockout_window` | 2 threads, 2 names, 4 calls, 5 ticks, windows 1 and 2, thresholds 3 and 2, delays 1, 2, 2 | `WindowExact`: eviction never changes a decision, as long as the failures of the name were recorded in the order of their timestamps; `BackoffBound`: k wrong credentials take at least the sum of the delays |
| `registry_calls` | 2 threads, 2 names, 2 keys, 3 calls | `UniqueNames`, `HandlesStable`, `AuditBalanced`: at any moment the events emitted and due account for the registered keys; refinement of `RegistrySpec`, `EveryCallReturns` |
| `page_counts` | 3 buffers, 2 pages of 2 bytes | `CountsExact`: the count of a page is the number of buffers on it; `OsAgrees`: the table knows what the system holds; `KeyBytesLocked`: a buffer that reported its pages locked has no key byte on an unlocked page; `FreedClean`: key bytes only in buffers in use |
| `pool_blocks` | 3 buffers, blocks of 2, 4 and 8 bytes, pages of 4, 12 bytes of memory | `BlocksConserved`: no block is lost, duplicated or moved to another class, and no two buffers share a byte; `FreeBlocksZero` |
| `guarded_regions` | 3 threads, 2 regions, Unix and Windows | `NoFault`: what is held is mapped, and every access finds the protection it needs; `IdleClosed`; `WipedFirst`: wiped before unlocked; `NothingLeftBehind`: the system keeps no lock or exclusion for an unmapped region; `EventuallyUnmapped` |
| `fragment_keys` | 10 strategies, keys of up to 7 bytes with `U32Max` = 6, all values of `from_chunks` with up to 2 chunks and 4 words | `RoundTrip`; `NeverPanics` |
| `pipeline_keys` | 4 byte values, all swap lists of up to 3 pairs, all random involutions, two user codices | `Involution`; `WithKeyExact`: `with_key` returns the effective key and the metadata is about that key, also after rotations; `OneShotExactIfInvolution` |
| `cell_calls` | 3 threads, 3 maps, 4 calls, ids of width 2, with and without 64-bit atomics | `CountsExact`: no map is freed under a reader or leaked; `IdsUnique`: ids repeat only after the counter has gone round; refinement of `CellSpec` (`AtomicCell`); `EveryCallReturns` |
| `calls_nested` | 2 threads, 2 keys of different lengths, 2 monitors, 3 calls, one inside another, with and without `std` | `KeyStable`: the bytes a closure sees are its key's until it ends; `AllReleased`: a call leaves no key byte in the scratch buffer, no borrow, no lock and no open mapping, however it ends; `NoCircularWait`: also not of a thread for itself, through a callback |
| `startup_fetch` | 3 files, 3 directories, 2 changes to them, files of up to 3 bytes; 3 builder calls; every kind of host | `CheckedFile`: the key comes from the file that passed the checks, in a place that passed them; `WholeFile`: it is the file up to an end of file; `Wiped`: no key byte in freed memory; `FetchEnds`; `NeverWeaker`: what was asked of the builder and could not be set up is refused or reported, never replaced; `BackoffGrows`: over every configuration, at the cap of the shift and when the product overflows; `DetectionSound` |

The type invariants of `Lockout`, `Registry` and `PageTable` are theorems of their
own (below); those of the other modules are conjuncts of the properties above
(`TypeOK` of `BlocksConserved`, `NoFault`, `NeverPanics`, `WithKeyExact`,
`CountsExact` and `AllReleased`, `FetchTypeOK` of `WholeFile`, `BuilderTypeOK` of
`NeverWeaker`).

The run `lockout_enforced` shows that the program differs from what its
documentation says (`KeyLockoutEnforced`). `clear_key_lockout` subtracts from the
counter after it released the lock (442). If `clear_lockout` stores 0 in between,
the counter wraps, the next per-key lockout brings it to 0, and `key_locked`
ignores that lockout; "Number of entries in `key_locks`" (381).

Modelling met other differences, which no run is about. Of the vault:

* `record_failure` reads the clock (621) before it takes the lock (627). A report
  with a later time may evict failures that are still in the window of a report
  with an earlier time, and neither reaches the threshold; "once `max` failures
  for one key name are reported within `window`, the whole vault refuses"
  (`docs/SECURITY.md:247`). `WindowExact` excepts such names (`skewed`).
* Audit events are emitted after the writer lock is released (831, 860), so
  `Unregister` can precede the `Register` of the same key; "what happened across
  the lifetime of the vault, in order" (`audit/mod.rs:10`). `AuditBalanced` is what
  holds in any order.
* `defragment` undoes the codex with `encode` (756, 1222), which gives the key back
  only for an involution; "`defragment` applies `codex.decode()` ... so
  non-involution codices would also work in principle" (1645–1650).
  `OneShotExactIfInvolution` is therefore about involutions.
* `with_key` inside the closure of a `with_key` panics in `borrow_mut` (934);
  "every panic in library code is a bug" (`docs/API.md:134`). `Calls` has the
  panic, and `AllReleased` shows that it leaves nothing behind.
* A monitor that panics unwinds through `report_failure` before the threshold is
  applied (511), and `CompositeMonitor` does not call the monitors after it; the
  vault "must not crash if a monitor panics" (`monitor/mod.rs:98`), "one failing
  monitor does not affect the others" (`monitor/composite.rs:14`).
* The default sink is asked first and no event is built for it; "events are
  constructed and discarded" (`audit/mod.rs:27`).
* A zero-length key is fragmented and stored like any other; "the vault rejects
  such keys at registration" (`fetcher/mod.rs:136`).
* The delay stops doubling after 32 failures even if it is below the maximum (1190).
* A crate that enables `fragment-random` or `fragment-interleaved` takes away the
  decoy that another crate enabled; "one crate enabling a stronger option is never
  undone by another" (1466).
* On an Intel CPU `sev` and `sev_snp` are `NotDetected`; "Always `Unknown` on
  non-x86_64 or on Intel hosts" (`tee/mod.rs:120`).

Of the lockout, the memory and the fragmenters:

* An expired lockout stays in the map until it is next looked at, so a breach that
  starts a new lockout reports `lockout_triggered: false` (537–546); "`true` if
  this breach started the lockout (it was not already in place)"
  (`monitor/mod.rs:88`).
* `is_locked` keeps what was found when the buffer was made, also when a later
  buffer gets the shared page locked; "`true` iff every page of the buffer is
  locked" (`memory/mod.rs:221`). `KeyBytesLocked` is the direction that matters.
* A chunk of `RandomFragmenter` may hold neighbouring key bytes in their order;
  "no chunk ever contains a contiguous run of key bytes longer than 1"
  (`fragment/random.rs:61`).
* With range 3 to 4 and 5 bytes left, `RandomFragmenter` takes 3 and leaves 2;
  "Ensure we leave at least `min` bytes for at least one more chunk"
  (`fragment/random.rs:136`).
* The interleaved reader accepts the one-chunk `Fragments` of the random one and
  returns other bytes than the key; "Returns `Error::Defragment` if the layout
  disagrees with what this strategy produced" (`fragment/mod.rs:346`).
* A self-swap marks its byte as used, so `[(0, 0), (0, 1)]` is refused;
  "Self-swaps (`(x, x)`) are accepted as no-ops" (`codex/static_codex.rs:61`).

### Bounds

`MaxCalls` bounds the calls of a behaviour and `MaxTime` the clock. The races of
the lockout are between two calls; the counter race needs four (lock, the two
clears, lock again). With thresholds 3 and 2 and windows 1 and 2, four failures
over five ticks fill, slide and empty both windows, and four attempts reach the
cap of the backoff. In the registry, three calls let a key be registered while a
rotation, a removal or a read of it overlaps; what takes longer (an id that comes
back, a name that is taken twice) is excluded by proof.

Two pages of two bytes and three buffers of any length give buffers that share
one page, both or none, that end on a page boundary or not, and a third that comes
while one of the others goes. The pool has a class below, equal to and above a
page, and room for three mappings. Three threads on a region are a reader, a
second reader and a writer; with two regions a rotation has an old and a new one.

`U32Max` = 6 brings the limits of the layout within reach: keys of 5, 6 and 7
bytes are below, at and above the lengths that strategies accept. The strategies
never look at a byte of a key, so keys of distinct bytes stand for all; decoys and
padding are drawn from 0 and a byte that is in the key. Custom layouts use the
words around `total_len` and the decoy mark. The codices have 4 bytes instead of
256: enough for lists of pairs that overlap, and for two pairs of a random
involution.

Three threads on the spin lock are one inside and two that wait; three maps let a
reader hold one while two swaps follow each other, and with `IdMax` = 2 four calls
take the id counter past its wrap. In `Calls` two keys of different lengths make the
scratch buffer grow from call to call, and a call nested in another reaches every
pair of methods. A fetch meets two changes to the directories, which is enough to
lead it to a file, away from it and back; with `MinBuf` = 2 (64 in the code) files of
up to three bytes outgrow the first buffer and the second. `DurationMax` = 9 makes
products of the backoff overflow, and `ShiftCap` = 3 (31 in the code) brings the cap
of the shift within reach. Three calls of the builder cover every order of the
methods that touch the same field.

Threads, names (other than `"<master>"`) and buffers are interchangeable, so the
runs without liveness use symmetry; those with liveness do not.

### Fairness

`FairSpec` assumes weak fairness of each thread's next step inside a call: a
running thread is scheduled. Nobody is obliged to start a call. Mutexes are not
fair, so a thread could in principle wait for ever behind an endless sequence of
calls by others; in `Lockout` and `Registry` the bound on calls excludes that, and
what the liveness properties show is that no lock is leaked and no two locks are
taken in opposite orders. `Guarded` has no bound on calls: a region that left the
registry gets no new readers, so weak fairness is enough for
`EventuallyUnmapped`.

`Cell` assumes strong fairness of the successful exchange as well: a spin lock gives
no guarantee to a waiting thread, but `compare_exchange_weak` is required to succeed
sometimes on a lock that is free again and again. With the bound on calls,
`EveryCallReturns` then says that the lock is given back on every path. `Startup`
assumes that the operating system answers each call of a fetch in the end, and not
for ever with `EINTR`; files have a largest size (`MaxSize`), so a fetch meets an end
of file.

Deadlock checking is off in `lockout_calls`, where `EveryCallReturns` rules it out
and a deadlock would otherwise hide it, and in the run of `Pipeline`, where a
vault whose codex is refused is never built.

## Proofs

For every set of threads, names and keys and every configuration. The theorems use
the named assumptions of the modules and nothing else:

| Assumption | Content beyond types and distinct marker values |
|---|---|
| `LockoutAssumption` | `usize` can count the names plus the threads; finitely many of both |
| `RegistryAssumption`, `GuardedAssumption` | finitely many threads |
| `LockedBytesAssumption`, `PageTableAssumption` | finitely many buffers; pages are not empty |
| `PoolAssumption` | the block sizes ascend, as in `CLASSES` |
| `CellAssumption` | finitely many threads and maps |
| `FetchAssumption` | a directory whose ancestors are all accepted is accepted itself |
| `BuilderAssumption` | a configured duration is at most the largest one |
| `CodexAssumption` | the number of byte values is even (it is 256); a user's `decode` undoes its `encode`, the contract of the trait |
| `PipelineAssumption` | a digest is not empty |

Each inductive invariant was checked with TLC on the instance of its run before it
was proved.

### The lockout

* `TypeCorrect`, `RegistryTypeCorrect`: type invariants. The registry's needs
  `LocalsSet` (at which points a call's name and key are set).
* `CounterCorrect`: `Spec => []CounterAccounted`. The inductive invariant
  `CounterInv` adds that the mutex excludes, that an entry waiting for its
  `fetch_add` is in the map, that `clear_lockout` has emptied the map before it
  stores 0, and a bound on `debt`. Each step moves one thread between two points
  of the code (`Move`, `MoveCount`), so the proof compares cardinalities before
  and after.
* `FastPathCorrect`: `Spec => []FastPathSound`, from `CounterInv`: with a zero
  counter and no debt, all entries are covered by threads that are about to add
  them, of which the mutex admits one.
* `GuessingTakesTime`: `Spec => []BackoffBound`, for every base and maximum and any
  number of threads in `unlock_with_master`. `BackoffBound` alone is not inductive:
  `BackoffInv` adds that `next_allowed` is late enough for one failure more. What the
  recursive sum `TimeToFail` is, is proved too (`TimeToFailUnfolds`): finite pieces of
  it exist and agree, by `SetInduction` (a set of naturals that holds 0 and every
  successor of a member holds them all).
* `BreachesExact`: `Spec => WindowExact`, for all windows, thresholds and callers. The
  invariant `WindowInv` says that the deque of a name is a suffix of all its failures
  and that, if they were recorded in order, the ones evicted are outside every window
  the name is counted with (`DequesInv`), and that only the reserved name is recorded
  without the per-key window (`PerKeyInv`). `CountRemains` turns that into equal
  counts: the failures inside a window are in the suffix, and a shift of the indices
  is a bijection. The proof shows why the reserved name is excepted: its two callers
  evict with different retention periods.

### The registry

* `NamesUnique`: `Spec => []UniqueNames`, and `HandlesForLife`:
  `Spec => HandlesStable`. The inductive invariant `RegistryInv` says that the
  writer mutex excludes (`MutexInv`), that its holder's copy is the current map
  (`CurrentInv`), and that an allocated id that is not stored yet belongs to one
  thread and to no caller (`FreshInv`). Steps fall into four classes (outside the
  lock, taking it, leaving it, allocating), each with a lemma.
* `AuditTrailBalanced`: `Spec => []AuditBalanced`. With `UniqueNames` and the writer
  mutex each step changes at most one of the four numbers of a name and its presence
  in the map; the lemmas are about the cardinality of the events received (the log only
  grows) and of the threads that still owe one.
* `RegistryLinearizable`: `Spec => Linearizable`, the refinement of `RegistrySpec`.
  Besides `RegistryInv` the mapping needs `HandleInv` (a key is stored under the name
  its handle was issued for, and a thread past its lookup still has that name,
  whatever happened to the key since) and `BoundInv` (ids stay within the calls made,
  which bounds the `Ids` of the abstract registry). Calls, returns and the steps
  that take effect each have a lemma; the rest stutter.

### Memory

* `PageTypeCorrect`, `PagesCounted`, `PagesReturned`, `KeysStayLocked` and
  `KeysWiped`: the five invariants of `PageTable`, for every page size, heap size
  and set of buffers. `KeyBytesLocked` is not inductive: that a neighbour's
  release leaves a page locked follows from the count, and that a page counts as
  locked from `OsAgrees`. The inductive invariant `IInv` is the conjunction of the
  type invariant, `CountsExact`, `OsAgrees`, `FlagsBacked` (the pages of a buffer
  that reports `locked` are locked in the table), `Disjoint` (buffers do not
  overlap, so a wipe touches no other) and `FreedClean`.
* `PoolConservesBlocks`: `PoolSpec => []BlocksConserved`, for every table of block
  sizes, page size, number of mappings and set of buffers. The invariant alone says
  too little about the future: that the blocks of a new mapping collide with nothing
  needs the mappings to be apart (`MappingsApart`), and that a buffer stays inside its
  block needs a length that its class can hold (`Fits`).
  `PoolInv` puts these together with `Placed`, for each class: the addresses on its
  free list and in its buffers are those of its blocks, each exactly once. The lemmas
  are about the division of a mapping into blocks (`Multiples`, `BlockInside`,
  `BlocksDisjoint`) and about the list: one block is taken (`BlockTaken`), returned
  (`BlockReturned`), or a mapping is appended (`BlocksAdded`).
* `PoolHandsOutZeros`: `PoolSpec => []FreeBlocksZero`. A conjunct of `PoolInv`: a wipe
  reaches every byte a buffer has dirtied because those lie inside its block, and no
  other buffer's, because blocks are disjoint.
* `RegionsNeverFault`, `RegionsIdleClosed`, `RegionsWipedFirst` and
  `RegionsLeaveNothing`: the four invariants of `Guarded`, for any threads and any
  number of mappings, on Unix and Windows. They follow from one inductive invariant,
  `GuardedInv`, which says who may touch a region at each point of a call: the mutex
  and the reader count agree with where the threads are (`MutexOK`, `ReadersOK`), the
  points that need the region alone have it alone (`OwnerOK`), each point finds its
  protection (`ProtOK`), nobody can name an unmapped region (`MappedOK`), and the
  system holds what the flags record (`SystemOK`). `IdleClosed` is not inductive,
  since a reader that has opened the region and not counted itself is not idle;
  `ClosedOK` covers the points in between.

### The cell

* `MapsCounted`: `Spec => []CountsExact` of `Cell`. That a count matches its owners
  is not inductive: a thread between reading the Arc and counting its clone owns
  nothing yet. The inductive invariant `IInv` adds to the type invariant what a
  call has in hand at each point (`LocalInv`), that at most one thread is inside
  each lock, only while it is taken, and that the Arc it read is still the one in
  the cell (`MutexInv`), and that only maps that were made are in the cell or in a
  thread's hands (`MadeInv`), so that `swap` starts from a map nobody owns. The
  reader that has not counted its clone is then covered by the cell's reference.
* `CellIsAtomic`: `Spec => AtomicCell`. Under `IInv` the step that reads the Arc for
  `load`, and the one that replaces it for `swap`, is the effect of the abstract
  call; the first step of a call is its beginning, the unlock its return, and all
  others stutter.
* `IdsFresh`: `Spec => []IdsUnique`, for every width of the counter. `IdInv` says that
  the ids so far are 1, 2, 3 and so on with the counter one ahead, until it wraps,
  and that a thread between reading and writing the locked counter has its current
  value, for which `MutexInv` is needed.

### The way of a key

* `KeyFromCheckedFile`, `KeyIsWholeFile` and `FetchWipes`: the invariants of `Fetch`,
  for every number of files, directories, changes and sizes. `FetchInv` says what
  the checks made so far have established (`FetchSoFar`): it is about the open handle
  and not the path, so no change between two system calls can undo it. `ReadSoFar`
  adds that no more is read than the file has.
* `BuiltNeverWeaker`: `StartupSpec => []NeverWeaker`, for every sequence of builder
  calls. `BuilderInv` adds what the builder knows before `build`: settings that say
  keyed hashing come with a key or with the order to make one (`KeyPlanned`), and a
  decoy of the caller's is in the fragmenter or known to be ignored (`DecoyKnown`).
* `BackoffDoubles`: `StartupSpec => []BackoffGrows`. It needs one fact about the
  configuration, that the base is at most the maximum (`BackoffOrdered`, which the
  `max` in `with_master_unlock_backoff` is for), and one about the shift, that
  `ShiftLeft[n + 1]` is twice `ShiftLeft[n]`: that the recursive definition has a
  solution is proved by `SetInduction`, as for `TimeToFail`. `DelayIs` then shows that
  the overflow of the product makes no difference.
* `DetectionCorrect`: `StartupSpec => []DetectionSound`, capability by capability
  (`DetectsRight`). The proof uses of the machine only that a feature comes with its
  vendor and its leaf (`RealCpu`).
* `CodexUndoesItself`: `Spec => []Involution`, for every number of byte values, every
  list of swaps and every shuffle. `CodexInv` is about the half-built table: it undoes
  itself after every iteration, because a pair is written over two bytes that the table
  still leaves alone (the unmarked ones in `from_swaps`, the ones further on in the
  permutation in `random_involution`).
* `WithKeyGivesKey` and `OneShotGivesKey`: `WithKeyExact` and
  `OneShotExactIfInvolution`, from `CodexInv` and from `PipeInv` (the fragments kept are
  those of the key, and nothing is given out but what they decode to).

### What is only model-checked

* Liveness under fairness (`EveryCallReturns`, `EventuallyUnmapped`, `FetchEnds`),
  which the prover cannot express.
* The properties of `Fragment` (`RoundTrip` would be an induction over
  layouts that are themselves computed recursively) and of `Calls`.

A note on the prover. The SMT encoding that tlapm 1.4.5 uses for
`[f EXCEPT ![r].a = x, ![r].b = y]`, two updates under one index, is inconsistent:
with such an equation in its hypotheses it proves anything. The models write
`![r] = [@ EXCEPT !.a = x, !.b = y]` instead, which means the same.

## Plan

1. Proofs: the nesting of scopes in
   `Calls` (`AllReleased`), the bounds of `defragment_into` (`NeverPanics`).
2. Composition of `Registry` and `Lockout`: the gates with the real lockout state.

## Not modelled

* What the log monitor and the log sink do with an event, the error enum and the
  `Debug` output of handles, keys and vaults: formatting, without state.
* The read-only queries of the registry (`contains`, `metadata`, `handle_for_name`,
  `key_count`): one load of the map each.
* BLAKE3 is an arbitrary function; the operating system's random generator is any
  value of the range asked for, or a failure.
* Strategies and codices that a user implements appear as two sample codices, and in
  `Calls` as code that may return, panic or call the vault.
* The keychain and the TPM are one answer each: the code makes one call of a
  platform API.
* Constant-time comparison: time is not in the models.
* Memory is sequentially consistent throughout. The code uses acquire and release on
  its locks and on the variables that are read outside them.
