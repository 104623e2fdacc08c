---------------------------- MODULE KeyPath_proofs ----------------------------
(***************************************************************************)
(* Proofs about the two sequential stretches of a key's way through the      *)
(* crate.                                                                   *)
(*                                                                         *)
(* Startup, up to the vault: the file that a key is read from, for every     *)
(* number of files, directories, changes and sizes, and the vault that a      *)
(* builder makes, for every number of calls.                                *)
(*                                                                         *)
(* Pipeline, in the vault: what a key becomes and comes back from, for any    *)
(* number of byte values, any lists of swaps, any user's codices that keep   *)
(* to the contract of the trait, any keys and any digest.                   *)
(***************************************************************************)
EXTENDS Startup, Pipeline, WellFoundedInduction, TLAPS

-----------------------------------------------------------------------------
(* Acquiring a key.                                                        *)

\* A file of that name in an accepted place, as far as the settings ask for it.
Passes(f, places, strict, dirs) ==
  strict =>
    /\ f \in Private
    /\ dirs => Given \in DirOk /\ places[f] \cap TreeOk # {}
Checked(f) == Passes(f, placed, strict_perms, check_dirs)

Opened == {"check_perms", "canonicalize", "same_file", "ancestors", "hint", "read"}
InTree == {"canonicalize", "same_file", "ancestors"}

\* What the checks made so far have established, about the handle and not the path.
FetchSoFar ==
  /\ \A d \in Dirs : entry[d] # None => d \in placed[entry[d]]
  /\ pc \in Opened => file \in Inodes
  /\ pc \in InTree => strict_perms /\ check_dirs /\ file \in Private
  /\ pc \in {"same_file", "ancestors"} => resolved \in Dirs
  /\ pc = "check_perms" => strict_perms
  /\ pc = "ancestors" => resolved \in placed[file]
  /\ pc \in {"hint", "read"} => Checked(file)
  /\ Fetched => Checked(raw_key.file) /\ raw_key.file \in Inodes

\* The read never gets ahead of the file, which may only grow.
ReadSoFar ==
  /\ pc = "read" => buf.filled <= size[file]
  /\ Fetched => raw_key.len = eof

FetchInv == FetchTypeOK /\ FetchSoFar /\ ReadSoFar /\ Wiped

\* Types.
LEMMA FetchTypeStep == FetchTypeOK /\ FetchSoFar /\ ReadSoFar /\ FetchNext => FetchTypeOK'
  <1> SUFFICES ASSUME FetchTypeOK, FetchSoFar, ReadSoFar, FetchNext PROVE FetchTypeOK'
    BY Zenon
  <1> USE FetchAssumption DEF FetchTypeOK, disk, settings, zeroize, Free, NoBuf
  <1>1. CASE Open \/ check_perms \/ canonicalize \/ same_file \/ check_directories
    BY <1>1, Zenon DEF Open, check_perms, canonicalize, same_file, check_directories
  <1>2. CASE read_to_end_wiping
    <2>1. file \in Inodes /\ size[file] \in Nat
      BY <1>2 DEF read_to_end_wiping, FetchSoFar, Opened
    <2>2. buf' \in [len : Nat, filled : Nat] /\ buf'.filled <= buf'.len
      BY <1>2, <2>1 DEF read_to_end_wiping
    <2> QED  BY <1>2, <2>2, Zenon DEF read_to_end_wiping
  <1>3. CASE GrowBuffer
    <2>1. PICK len \in Nat : len >= buf.len /\ buf' = [buf EXCEPT !.len = len]
      <3>1. Larger(2 * buf.len, MinBuf) \in Nat /\ Larger(2 * buf.len, MinBuf) >= buf.len
        BY DEF Larger
      <3>2. buf' = [buf EXCEPT !.len = Larger(2 * buf.len, MinBuf)]
        BY <1>3, Zenon DEF GrowBuffer
      <3> QED  BY <3>1, <3>2, Zenon
    <2>2. buf' \in [len : Nat, filled : Nat] /\ buf'.filled <= buf'.len
      BY <2>1
    <2> QED  BY <1>3, <2>2 DEF GrowBuffer
  <1>4. CASE ReadSome
    <2>1. PICK n \in 1 .. buf.len - buf.filled : buf' = [buf EXCEPT !.filled = buf.filled + n]
      BY <1>4, Zenon DEF ReadSome
    <2>2. buf' \in [len : Nat, filled : Nat] /\ buf'.filled <= buf'.len
      BY <2>1
    <2> QED  BY <1>4, <2>2, Zenon DEF ReadSome
  <1>5. CASE ReadEnd
    <2>1. file \in Inodes
      BY <1>5, Zenon DEF ReadEnd, FetchSoFar, Opened
    <2> QED  BY <1>5, <2>1 DEF ReadEnd
  <1>6. CASE ReadFails \/ EnvFetch \/ KeychainFetch \/ TpmFetch \/ DropKey
    <2>1. CASE ReadFails \/ EnvFetch
      BY <2>1 DEF ReadFails, EnvFetch
    <2>2. CASE KeychainFetch \/ TpmFetch \/ DropKey
      BY <2>2 DEF KeychainFetch, TpmFetch, DropKey
    <2> QED  BY <1>6, <2>1, <2>2, Zenon
  <1>7. CASE Relink
    BY <1>7 DEF Relink
  <1>8. CASE Rename
    <2>1. PICK d \in Dirs : \E x \in Inodes \ {entry[d]} :
            /\ entry' = [e \in Dirs |-> IF e = d THEN x ELSE IF entry[e] = x THEN None ELSE entry[e]]
            /\ placed' = [placed EXCEPT ![x] = @ \cup {d}]
      BY <1>8, Zenon DEF Rename
    <2>2. entry' \in [Dirs -> Inodes \cup {None}] /\ placed' \in [Inodes -> SUBSET Dirs]
      BY <2>1
    <2>3. moves' \in 0 .. MaxMoves
      BY <1>8 DEF Rename
    <2> QED  BY <1>8, <2>2, <2>3, Zenon DEF Rename
  <1>9. CASE Grow
    <2>1. size' \in [Inodes -> 0 .. MaxSize]
      BY <1>9 DEF Grow
    <2> QED  BY <1>9, <2>1, Zenon DEF Grow
  <1> QED  BY <1>1, <1>2, <1>3, <1>4, <1>5, <1>6, <1>7, <1>8, <1>9, Zenon DEF FetchNext, Step

\* What was checked stays checked while the settings stay and directories are added
\* to a file's history.
LEMMA CheckedStays ==
  ASSUME NEW f, NEW places, NEW later, NEW strict, NEW dirs,
         places[f] \subseteq later[f], Passes(f, places, strict, dirs)
  PROVE  Passes(f, later, strict, dirs)
  BY Zenon DEF Passes

\* The steps of the fetch leave the disk alone.
LEMMA FetchSoFarStep == FetchTypeOK /\ FetchSoFar /\ (Step \/ ReadFails \/ Open) => FetchSoFar'
  <1> SUFFICES ASSUME FetchTypeOK, FetchSoFar, Step \/ ReadFails \/ Open PROVE FetchSoFar'
    BY Zenon
  <1>1. UNCHANGED <<disk, settings>>
    BY Zenon DEF Step, check_perms, canonicalize, same_file, check_directories, read_to_end_wiping, GrowBuffer,
           ReadSome, ReadEnd, DropKey, ReadFails, Open
  <1>2. UNCHANGED <<placed, strict_perms, check_dirs>>
    BY <1>1, Zenon DEF disk, settings
  <1>3. \A d \in Dirs : entry'[d] # None => d \in placed'[entry'[d]]
    BY <1>1, Zenon DEF FetchSoFar, disk
  <1>4. CASE Open \/ check_perms \/ canonicalize \/ same_file
    <2>1. UNCHANGED raw_key
      BY <1>4, Zenon DEF Open, check_perms, canonicalize, same_file
    <2>2. Fetched' => Checked(raw_key.file)' /\ raw_key'.file \in Inodes
      BY <1>2, <2>1, Zenon DEF FetchSoFar, Fetched, Checked
    <2>3. CASE Open
      <3>1. file' \in Inodes \/ pc' = "done"
        BY <2>3, Zenon DEF Open, To, FetchTypeOK
      <3>2. pc' = "done" \/ (pc' = "check_perms" /\ strict_perms) \/ (pc' = "hint" /\ ~strict_perms)
        BY <2>3, Zenon DEF Open, To
      <3>3. pc' = "hint" => Checked(file)'
        BY <1>1, <3>2, Zenon DEF Checked, Passes, settings
      <3> QED  BY <1>1, <1>3, <2>2, <3>1, <3>2, <3>3, Zenon DEF FetchSoFar, Opened, InTree, settings
    <2>4. CASE check_perms
      BY <1>1, <1>2, <1>3, <2>2, <2>4 DEF check_perms, To, FetchSoFar, Opened, InTree, settings, Checked, Passes
    <2>5. CASE canonicalize
      <3>1. /\ pc = "canonicalize" /\ UNCHANGED file
            /\ pc' = "done" \/ (pc' = "same_file" /\ resolved' \in Dirs)
        BY <2>5, Zenon DEF canonicalize, To, FetchTypeOK
      <3>2. file \in Inodes /\ strict_perms /\ check_dirs /\ file \in Private
        BY <3>1, Zenon DEF FetchSoFar, Opened, InTree
      <3> QED  BY <1>2, <1>3, <2>2, <3>1, <3>2, Zenon DEF FetchSoFar, Opened, InTree
    <2>6. CASE same_file
      <3>1. /\ pc = "same_file" /\ UNCHANGED <<file, resolved>>
            /\ pc' = "done" \/ (pc' = "ancestors" /\ entry[resolved] = file)
        BY <2>6, Zenon DEF same_file, To
      <3>2. /\ file \in Inodes /\ strict_perms /\ check_dirs /\ file \in Private /\ resolved \in Dirs
            /\ pc' = "ancestors" => resolved \in placed[file]
        BY <3>1, FetchAssumption, Zenon DEF FetchSoFar, Opened, InTree
      <3> QED  BY <1>2, <1>3, <2>2, <3>1, <3>2, Zenon DEF FetchSoFar, Opened, InTree
    <2> QED  BY <1>4, <2>3, <2>4, <2>5, <2>6, Zenon
  <1>5. CASE check_directories
    <2>1. pc' = "hint" => Checked(file)
      BY <1>5, FetchAssumption, Zenon DEF check_directories, To, FetchSoFar, Checked, Passes, InTree
    <2>2. Fetched' => Checked(raw_key.file)' /\ raw_key'.file \in Inodes
      BY <1>2, <1>5, Zenon DEF FetchSoFar, Fetched, check_directories, Checked
    <2> QED  BY <1>1, <1>2, <1>3, <1>5, <2>1, <2>2, Zenon DEF check_directories, To, FetchSoFar, Opened, InTree, settings, Checked
  <1>6. CASE read_to_end_wiping \/ GrowBuffer \/ ReadSome \/ ReadFails
    <2>1. /\ pc \in {"hint", "read"} /\ pc' \in {"read", "done"} /\ UNCHANGED <<file, resolved, raw_key>>
      BY <1>6, Zenon DEF read_to_end_wiping, GrowBuffer, ReadSome, ReadFails, To
    <2>2. Fetched' => Checked(raw_key.file)' /\ raw_key'.file \in Inodes
      BY <1>2, <2>1, Zenon DEF FetchSoFar, Fetched, Checked
    <2> QED  BY <1>1, <1>2, <1>3, <2>1, <2>2, Zenon DEF FetchSoFar, Opened, InTree, Checked
  <1>7. CASE ReadEnd
    <2>1. Checked(file) /\ file \in Inodes /\ pc' = "done" /\ raw_key'.file = file
      BY <1>7, Zenon DEF ReadEnd, To, FetchSoFar, Opened
    <2> QED  BY <1>2, <1>3, <2>1, Zenon DEF FetchSoFar, Opened, InTree, Checked
  <1>8. CASE DropKey
    <2>1. pc' = "dropped" /\ ~Fetched'
      BY <1>8, Zenon DEF DropKey, To, Fetched
    <2> QED  BY <1>3, <2>1, Zenon DEF FetchSoFar, Opened, InTree
  <1> QED  BY <1>4, <1>5, <1>6, <1>7, <1>8, Zenon DEF Step

\* The other backends read no file.
LEMMA FetchSoFarOther ==
  FetchTypeOK /\ FetchSoFar /\ (EnvFetch \/ KeychainFetch \/ TpmFetch) => FetchSoFar'
  <1> SUFFICES ASSUME FetchTypeOK, FetchSoFar, EnvFetch \/ KeychainFetch \/ TpmFetch PROVE FetchSoFar'
    BY Zenon
  <1>1. UNCHANGED <<disk, settings>> /\ pc' = "done"
    BY Zenon DEF EnvFetch, KeychainFetch, TpmFetch, To
  <1>2. UNCHANGED <<placed, strict_perms, check_dirs>>
    BY <1>1, Zenon DEF disk, settings
  <1>3. \A d \in Dirs : entry'[d] # None => d \in placed'[entry'[d]]
    BY <1>1, Zenon DEF FetchSoFar, disk
  <1>4. UNCHANGED raw_key \/ raw_key'.file = None
    BY DEF EnvFetch, KeychainFetch, TpmFetch
  <1>5. Fetched' => Checked(raw_key.file)' /\ raw_key'.file \in Inodes
    BY <1>2, <1>4, Zenon DEF FetchSoFar, Fetched, Checked
  <1> QED  BY <1>1, <1>3, <1>5, Zenon DEF FetchSoFar, Opened, InTree

\* Changes of the disk take nothing away from what was checked.
LEMMA FetchSoFarDisk == FetchTypeOK /\ FetchSoFar /\ (Relink \/ Rename \/ Grow) => FetchSoFar'
  <1> SUFFICES ASSUME FetchTypeOK, FetchSoFar, Relink \/ Rename \/ Grow PROVE FetchSoFar'
    BY Zenon
  <1>1. UNCHANGED <<settings, pc, file, resolved, raw_key>>
    BY Zenon DEF Relink, Rename, Grow
  <1>2. /\ \A f \in Inodes : placed[f] \subseteq placed'[f]
        /\ \A d \in Dirs : entry'[d] # None => d \in placed'[entry'[d]]
    <2>1. CASE Relink \/ Grow
      BY <2>1, Zenon DEF Relink, Grow, FetchSoFar
    <2>2. CASE Rename
      <3>1. PICK d \in Dirs, x \in Inodes :
              /\ entry' = [e \in Dirs |-> IF e = d THEN x ELSE IF entry[e] = x THEN None ELSE entry[e]]
              /\ placed' = [placed EXCEPT ![x] = @ \cup {d}]
        BY <2>2, Zenon DEF Rename
      <3>2. \A f \in Inodes : placed'[f] = IF f = x THEN placed[f] \cup {d} ELSE placed[f]
        BY <3>1, Zenon DEF FetchTypeOK
      <3>3. ASSUME NEW e \in Dirs, entry'[e] # None PROVE e \in placed'[entry'[e]]
        <4>1. CASE e = d
          BY <3>1, <3>2, <4>1
        <4>2. CASE e # d
          <5>1. entry'[e] = entry[e] /\ entry[e] \in Inodes
            BY <3>1, <3>3, <4>2, Zenon DEF FetchTypeOK
          <5> QED  BY <3>2, <5>1, <3>3, Zenon DEF FetchSoFar
        <4> QED  BY <4>1, <4>2, Zenon
      <3> QED  BY <3>2, <3>3, Zenon
    <2> QED  BY <2>1, <2>2, Zenon
  <1>3. \A f \in Inodes : Checked(f) => Passes(f, placed', strict_perms', check_dirs')
    BY <1>1, <1>2, CheckedStays, Zenon DEF Checked, settings
  <1>4. pc \in {"hint", "read"} => Checked(file)'
    BY <1>1, <1>3, Zenon DEF FetchSoFar, Opened, Checked
  <1>5. Fetched' => Checked(raw_key.file)' /\ raw_key.file \in Inodes
    BY <1>1, <1>3, Zenon DEF FetchSoFar, Fetched, Checked
  <1> QED  BY <1>1, <1>2, <1>4, <1>5, Zenon DEF FetchSoFar, Opened, InTree, settings

\* Bytes are read only while the file has more, and the key ends where the file did.
LEMMA ReadSoFarStep == FetchTypeOK /\ FetchSoFar /\ ReadSoFar /\ FetchNext => ReadSoFar'
  <1> SUFFICES ASSUME FetchTypeOK, FetchSoFar, ReadSoFar, FetchNext PROVE ReadSoFar'
    BY Zenon
  <1> USE DEF disk, settings, To
  <1>1. CASE Open \/ check_perms \/ canonicalize \/ same_file \/ check_directories
    <2>1. pc' # "read" /\ UNCHANGED <<raw_key, eof>>
      BY <1>1, Zenon DEF Open, check_perms, canonicalize, same_file, check_directories
    <2> QED  BY <2>1, Zenon DEF ReadSoFar, Fetched
  <1>2. CASE read_to_end_wiping
    <2>1. file \in Inodes
      BY <1>2, Zenon DEF read_to_end_wiping, FetchSoFar, Opened
    <2>2. buf'.filled = 0 /\ size' = size /\ file' = file /\ UNCHANGED <<raw_key, eof>>
      BY <1>2 DEF read_to_end_wiping
    <2> QED  BY <2>1, <2>2 DEF ReadSoFar, Fetched, FetchTypeOK
  <1>3. CASE GrowBuffer
    <2>1. buf'.filled = buf.filled /\ UNCHANGED <<pc, size, file, raw_key, eof>>
      BY <1>3, Zenon DEF GrowBuffer, FetchTypeOK
    <2> QED  BY <2>1, Zenon DEF ReadSoFar, Fetched
  <1>4. CASE ReadSome
    <2>1. buf'.filled <= size[file] /\ UNCHANGED <<pc, size, file, raw_key, eof>>
      BY <1>4, Zenon DEF ReadSome, FetchTypeOK
    <2> QED  BY <2>1, Zenon DEF ReadSoFar, Fetched
  <1>5. CASE ReadEnd
    <2>1. pc' = "done" /\ raw_key'.len = eof'
      BY <1>5, Zenon DEF ReadEnd
    <2> QED  BY <2>1, Zenon DEF ReadSoFar
  <1>6. CASE ReadFails \/ EnvFetch \/ KeychainFetch \/ TpmFetch \/ DropKey
    <2>1. pc' # "read" /\ UNCHANGED eof /\ (UNCHANGED raw_key \/ ~Fetched')
      BY <1>6, SMTT(30) DEF ReadFails, EnvFetch, KeychainFetch, TpmFetch, DropKey, Fetched
    <2> QED  BY <2>1, Zenon DEF ReadSoFar, Fetched
  <1>7. CASE Relink \/ Rename
    <2>1. UNCHANGED <<pc, buf, size, file, raw_key, eof>>
      BY <1>7, Zenon DEF Relink, Rename
    <2> QED  BY <2>1, Zenon DEF ReadSoFar, Fetched
  <1>8. CASE Grow
    <2>1. UNCHANGED <<pc, buf, file, raw_key, eof>>
      BY <1>8, Zenon DEF Grow
    <2>2. pc = "read" => file \in Inodes
      BY Zenon DEF FetchSoFar, Opened
    <2>3. \A f \in Inodes : size[f] <= size'[f] /\ size[f] \in Nat /\ size'[f] \in Nat
      BY <1>8, FetchAssumption DEF Grow, FetchTypeOK
    <2>4. pc' = "read" => buf'.filled <= size'[file']
      BY <2>1, <2>2, <2>3 DEF ReadSoFar, FetchTypeOK
    <2> QED  BY <2>1, <2>4, Zenon DEF ReadSoFar, Fetched
  <1> QED  BY <1>1, <1>2, <1>3, <1>4, <1>5, <1>6, <1>7, <1>8, Zenon DEF FetchNext, Step

\* Whatever is freed was wiped before.
LEMMA WipedStep == FetchTypeOK /\ Wiped /\ FetchNext => Wiped'
  <1> SUFFICES ASSUME Wiped, FetchNext PROVE residue' = 0
    BY Zenon DEF Wiped
  <1>1. residue = 0
    BY Zenon DEF Wiped
  <1>2. \A n : Free(zeroize(n)) => residue' = 0
    BY <1>1 DEF Free, zeroize
  <1>3. CASE Open \/ check_perms \/ canonicalize \/ same_file \/ check_directories \/ read_to_end_wiping
    BY <1>1, <1>3, Zenon DEF Open, check_perms, canonicalize, same_file, check_directories, read_to_end_wiping
  <1>4. CASE GrowBuffer \/ ReadSome \/ ReadEnd \/ ReadFails
    BY <1>1, <1>2, <1>4, Zenon DEF GrowBuffer, ReadSome, ReadEnd, ReadFails
  <1>5. CASE EnvFetch \/ KeychainFetch \/ TpmFetch \/ DropKey
    BY <1>1, <1>2, <1>5, Zenon DEF EnvFetch, KeychainFetch, TpmFetch, DropKey
  <1>6. CASE Relink \/ Rename \/ Grow
    BY <1>1, <1>6, Zenon DEF Relink, Rename, Grow
  <1> QED  BY <1>3, <1>4, <1>5, <1>6, Zenon DEF FetchNext, Step

\* FetchInv holds initially, and every step keeps it.
LEMMA FetchStarts == FetchInit => FetchInv
  <1> SUFFICES ASSUME FetchInit PROVE FetchInv
    BY Zenon
  <1>1. FetchTypeOK
    BY FetchAssumption DEF FetchInit, FetchTypeOK, NoBuf
  <1>2. FetchSoFar /\ ReadSoFar /\ Wiped
    BY Zenon DEF FetchInit, FetchSoFar, ReadSoFar, Wiped, Fetched, Opened, InTree
  <1> QED  BY <1>1, <1>2, Zenon DEF FetchInv

LEMMA FetchStep == FetchInv /\ [StartupNext]_startupVars => FetchInv'
  <1> SUFFICES ASSUME FetchInv, [StartupNext]_startupVars PROVE FetchInv'
    BY Zenon
  <1>1. CASE FetchNext
    BY <1>1, FetchTypeStep, FetchSoFarStep, FetchSoFarOther, FetchSoFarDisk, ReadSoFarStep, WipedStep, Zenon
       DEF FetchInv, FetchNext
  <1>2. CASE UNCHANGED fetchVars
    BY <1>2 DEF fetchVars, disk, settings, FetchInv, FetchTypeOK, FetchSoFar, ReadSoFar, Wiped, Fetched, Checked
  <1> QED  BY <1>1, <1>2, Zenon DEF StartupNext, Detect, Acquire, Configure, Ready, startupVars

\* The checks and the read refer to one file, however the path, the directories and the
\* files change between the system calls of a fetch.
THEOREM KeyFromCheckedFile == StartupSpec => []CheckedFile
  <1>1. FetchInv => CheckedFile
    BY Zenon DEF FetchInv, FetchSoFar, CheckedFile, Checked, Passes
  <1> QED  BY <1>1, FetchStarts, FetchStep, PTL DEF StartupSpec, StartupInit

\* A fetched key is the file up to its end, however it grew and however the reads were
\* cut.
THEOREM KeyIsWholeFile == StartupSpec => []WholeFile
  <1>1. FetchInv => WholeFile
    BY Zenon DEF FetchInv, ReadSoFar, WholeFile
  <1> QED  BY <1>1, FetchStarts, FetchStep, PTL DEF StartupSpec, StartupInit

\* No buffer of a fetch, full, abandoned or finished, is freed with bytes of a key in it.
THEOREM FetchWipes == StartupSpec => []Wiped
  <1>1. FetchInv => Wiped
    BY Zenon DEF FetchInv
  <1> QED  BY <1>1, FetchStarts, FetchStep, PTL DEF StartupSpec, StartupInit

-----------------------------------------------------------------------------
(* Configuring a vault.                                                    *)

Delay == 0 .. DurationMax
ConfigType ==
  [key_normalization : BOOLEAN, keyed_normalization : BOOLEAN,
   max_failures_before_lockout : {0, 1}, failure_window : Durations \cup {1},
   key_lockout_threshold : {0, 1}, key_lockout_window : Durations \cup {1},
   key_lockout_duration : Durations \cup {"None"},
   master_backoff_base : Delay, master_backoff_max : Delay, page_protection : BOOLEAN]

BuilderType ==
  [fragmenter : {FragmenterRank[r] : r \in 1 .. 4} \cup {"custom"},
   decoy : {DecoyRank[r] : r \in 1 .. 4} \cup {"user"},
   decoy_without_standard : BOOLEAN, decoy_set : BOOLEAN,
   codex : {"none", "dynamic", "user"}, monitor : {"none", "log", "user"}, audit : {"none", "log", "user"},
   master : {"none", "seed", "failed"}, normalization_key : {"None", "Random", "Derived"}]

BuilderTyped ==
  /\ stage \in {"new", "building", "failed", "built"}
  /\ (vault = NoVault) <=> (stage # "built")
  /\ features \subseteq Features
  /\ config \in ConfigType /\ builder \in BuilderType
  /\ asked \in BOOLEAN /\ builderCalls \in 0 .. MaxBuilderCalls

\* Settings that say keyed hashing come with a key or with the order to make one, and
\* a decoy of the caller's is in the fragmenter or is known to be ignored.
DecoyKnown ==
  /\ asked <=> builder.decoy_set
  /\ builder.decoy_without_standard => builder.decoy_set /\ ~IsStandard(builder)
  /\ builder.decoy = "user" <=> builder.decoy_set /\ IsStandard(builder)
KeyPlanned == config.keyed_normalization => builder.normalization_key # "None"

VaultKept ==
  stage = "built" =>
    /\ config.key_normalization /\ config.keyed_normalization => vault.normalizer \in {"keyed", "unavailable"}
    /\ config.key_normalization => vault.normalizer # "off"
    /\ builder.master # "none" => vault.master # "none"
    /\ ~config.page_protection /\ builder.normalization_key = "Derived" => vault.normalizer # "unavailable"
    /\ vault.decoy_ignored <=> asked /\ builder.decoy # "user"

\* Nothing is asked for before the builder exists.
Fresh == stage = "new" => ~asked /\ ~config.keyed_normalization

\* The inductive invariant of the builder.
BuilderInv == BuilderTyped /\ Fresh /\ DecoyKnown /\ KeyPlanned /\ VaultKept

LEMMA InRank ==
  "none" \in {DecoyRank[r] : r \in 1 .. 4} /\ "standard" \in {FragmenterRank[r] : r \in 1 .. 4}
  BY DEF DecoyRank, FragmenterRank

\* What the features select is one of the ranking.
LEMMA StrongestType ==
  ASSUME NEW rank, NEW F
  PROVE  Strongest(rank, F) \in {rank[r] : r \in 1 .. 4}
  <1>1. CASE \E r \in 2 .. 4 : rank[r] \in F
    <2> DEFINE Best(r) == rank[r] \in F /\ \A j \in r + 1 .. 4 : rank[j] \notin F
    <2>1. \E r \in 2 .. 4 : Best(r)
      <3>1. CASE rank[4] \in F
        BY <3>1
      <3>2. CASE rank[4] \notin F /\ rank[3] \in F
        BY <3>2
      <3>3. CASE rank[4] \notin F /\ rank[3] \notin F /\ rank[2] \in F
        BY <3>3
      <3> QED  BY <1>1, <3>1, <3>2, <3>3
    <2>2. (CHOOSE r \in 2 .. 4 : Best(r)) \in 2 .. 4
      BY <2>1, Zenon
    <2>3. Strongest(rank, F) = rank[CHOOSE r \in 2 .. 4 : Best(r)]
      BY <1>1, Zenon DEF Strongest
    <2>4. \A x \in 2 .. 4 : rank[x] \in {rank[r] : r \in 1 .. 4}
      OBVIOUS
    <2> QED  BY <2>2, <2>3, <2>4, Zenon
  <1>2. CASE ~\E r \in 2 .. 4 : rank[r] \in F
    <2>1. Strongest(rank, F) = rank[1]
      BY <1>2, Zenon DEF Strongest
    <2> QED  BY <2>1
  <1> QED  BY <1>1, <1>2, Zenon

\* from_features gives a builder with no decoy of the caller's.
LEMMA SelectedType ==
  ASSUME NEW F
  PROVE  /\ Selected(F) \in BuilderType /\ Selected(F).decoy # "user"
         /\ ~Selected(F).decoy_set /\ ~Selected(F).decoy_without_standard
  <1> DEFINE fragmenter == Strongest(FragmenterRank, F)
             decoy == Strongest(DecoyRank, F)
  <1>1. fragmenter \in {FragmenterRank[r] : r \in 1 .. 4} /\ decoy \in {DecoyRank[r] : r \in 1 .. 4}
    BY StrongestType, Zenon
  <1>2. \A d \in {DecoyRank[r] : r \in 1 .. 4} : d # "user"
    BY DEF DecoyRank
  <1>3. "none" \in {DecoyRank[r] : r \in 1 .. 4}
    BY InRank, Zenon
  <1>4. PICK f \in {FragmenterRank[r] : r \in 1 .. 4}, d \in {DecoyRank[r] : r \in 1 .. 4},
             c \in {"none", "dynamic"}, m \in {"none", "log"}, a \in {"none", "log"} :
          Selected(F) = [NewBuilder EXCEPT !.fragmenter = f, !.decoy = d, !.codex = c, !.monitor = m, !.audit = a]
    <2> HIDE DEF fragmenter, decoy
    <2>1. (IF fragmenter \in {"standard", "fragment-layered"} THEN decoy ELSE "none") \in {DecoyRank[r] : r \in 1 .. 4}
      BY <1>1, <1>3, Zenon
    <2> QED  BY <1>1, <2>1, ZenonT(30) DEF Selected, fragmenter, decoy
  <1>5. Selected(F) = [fragmenter |-> f, decoy |-> d, decoy_without_standard |-> FALSE, decoy_set |-> FALSE,
                       codex |-> c, monitor |-> m, audit |-> a, master |-> "none", normalization_key |-> "None"]
    BY <1>4, Zenon DEF NewBuilder
  <1> QED  BY <1>2, <1>5, SMTT(30) DEF BuilderType

\* A call keeps the invariant if the settings it makes are typed and keep the two facts
\* about them.
LEMMA SetsStep ==
  ASSUME BuilderInv, NEW c \in ConfigType, NEW b \in BuilderType, NEW a \in BOOLEAN, Sets(c, b, a),
         c.keyed_normalization => b.normalization_key # "None",
         a <=> b.decoy_set,
         b.decoy_without_standard => b.decoy_set /\ ~IsStandard(b),
         b.decoy = "user" <=> b.decoy_set /\ IsStandard(b)
  PROVE  BuilderInv'
  <1>1. /\ stage = "building" /\ UNCHANGED <<stage, vault>> /\ config' = c /\ builder' = b /\ asked' = a
        /\ features' = {} /\ builderCalls' = builderCalls + 1 /\ builderCalls < MaxBuilderCalls
    BY Zenon DEF Sets, Building
  <1>2. BuilderTyped'
    BY <1>1, BuilderAssumption DEF BuilderInv, BuilderTyped
  <1>3. DecoyKnown' /\ KeyPlanned'
    BY <1>1, Zenon DEF DecoyKnown, KeyPlanned, IsStandard
  <1>4. VaultKept' /\ Fresh'
    BY <1>1, Zenon DEF VaultKept, Fresh
  <1> QED  BY <1>2, <1>3, <1>4, Zenon DEF BuilderInv

\* The calls that change only numbers and flags of the configuration.
LEMMA ConfigStep ==
  ASSUME BuilderInv, NEW c \in ConfigType, SetsConfig(c),
         c.keyed_normalization = config.keyed_normalization
  PROVE  BuilderInv'
  BY SetsStep, Zenon DEF SetsConfig, BuilderInv, BuilderTyped, DecoyKnown, KeyPlanned

LEMMA BuilderStarts == BuilderInit => BuilderInv
  <1> SUFFICES ASSUME BuilderInit PROVE BuilderInv
    BY Zenon
  <1>1. DefaultConfig \in ConfigType
    BY BuilderAssumption DEF DefaultConfig, ConfigType, Delay
  <1>2. NewBuilder \in BuilderType
    BY InRank, Zenon DEF NewBuilder, BuilderType
  <1>3. 0 \in 0 .. MaxBuilderCalls
    BY BuilderAssumption
  <1>4. BuilderTyped
    BY <1>1, <1>2, <1>3, Zenon DEF BuilderInit, BuilderTyped
  <1>5. Fresh /\ DecoyKnown /\ KeyPlanned /\ VaultKept
    BY Zenon DEF BuilderInit, DefaultConfig, NewBuilder, Fresh, DecoyKnown, KeyPlanned, VaultKept, IsStandard
  <1> QED  BY <1>4, <1>5, Zenon DEF BuilderInv

\* The calls that configure: each keeps the settings typed and what is said of the decoy
\* and of the hash key.
LEMMA MethodStep ==
  ASSUME BuilderInv, BuilderNext,
         \A F \in SUBSET Features, rngOk \in BOOLEAN : ~from_features(F, rngOk),
         \A a, b, c \in BOOLEAN : ~finish(a, b, c)
  PROVE  BuilderInv'
  <1>1. config \in ConfigType /\ builder \in BuilderType /\ asked \in BOOLEAN /\ DecoyKnown /\ KeyPlanned
    BY Zenon DEF BuilderInv, BuilderTyped
  <1>2. ASSUME NEW on \in BOOLEAN, normalize_with_blake3(on) PROVE BuilderInv'
    <2>1. [config EXCEPT !.key_normalization = on] \in ConfigType
      BY <1>1, Zenon DEF ConfigType
    <2> QED  BY <1>1, <1>2, <2>1, ConfigStep, Zenon DEF normalize_with_blake3, ConfigType
  <1>3. ASSUME NEW on \in BOOLEAN, with_page_protection(on) PROVE BuilderInv'
    <2>1. [config EXCEPT !.page_protection = on] \in ConfigType
      BY <1>1, Zenon DEF ConfigType
    <2> QED  BY <1>1, <1>3, <2>1, ConfigStep, Zenon DEF with_page_protection, ConfigType
  <1>4. ASSUME NEW d \in Durations, NEW e \in Durations, with_master_unlock_backoff(d, e) PROVE BuilderInv'
    <2>1. d \in Delay /\ Max2(e, d) \in Delay
      BY BuilderAssumption, Zenon DEF Delay, Max2
    <2>2. [config EXCEPT !.master_backoff_base = d, !.master_backoff_max = Max2(e, d)] \in ConfigType
      BY <1>1, <2>1, Zenon DEF ConfigType
    <2> QED  BY <1>1, <1>4, <2>2, ConfigStep, Zenon DEF with_master_unlock_backoff, ConfigType
  <1>5. ASSUME NEW d \in Durations, with_failure_threshold(1, d) PROVE BuilderInv'
    <2>1. [config EXCEPT !.max_failures_before_lockout = 1, !.failure_window = d] \in ConfigType
      BY <1>1, Zenon DEF ConfigType
    <2> QED  BY <1>1, <1>5, <2>1, ConfigStep, Zenon DEF with_failure_threshold, ConfigType
  <1>6. ASSUME NEW d \in Durations, with_key_lockout(1, d, d) PROVE BuilderInv'
    <2>1. [config EXCEPT !.key_lockout_threshold = 1, !.key_lockout_window = d, !.key_lockout_duration = d] \in ConfigType
      BY <1>1, Zenon DEF ConfigType
    <2> QED  BY <1>1, <1>6, <2>1, ConfigStep, Zenon DEF with_key_lockout, ConfigType
  <1>7. ASSUME NEW k \in {"Random", "Derived"}, with_keyed_normalization(k) PROVE BuilderInv'
    <2> DEFINE c == [config EXCEPT !.key_normalization = TRUE, !.keyed_normalization = TRUE]
               b == [builder EXCEPT !.normalization_key = k]
    <2>1. c \in ConfigType /\ b \in BuilderType
      BY <1>1, ZenonT(30) DEF ConfigType, BuilderType
    <2>2. b.normalization_key # "None" /\ (asked <=> b.decoy_set)
      BY <1>1, Zenon DEF BuilderType, DecoyKnown
    <2>3. /\ b.decoy_without_standard => b.decoy_set /\ ~IsStandard(b)
          /\ b.decoy = "user" <=> b.decoy_set /\ IsStandard(b)
      BY <1>1, Zenon DEF BuilderType, DecoyKnown, IsStandard
    <2>4. Sets(c, b, asked)
      BY <1>7, Zenon DEF with_keyed_normalization
    <2> HIDE DEF c, b
    <2> QED  BY <1>1, <2>1, <2>2, <2>3, <2>4, SetsStep, Zenon
  <1>8. ASSUME NEW b \in BuilderType, Sets(config, b, asked),
               b.fragmenter = builder.fragmenter, b.decoy = builder.decoy, b.decoy_set = builder.decoy_set,
               b.decoy_without_standard = builder.decoy_without_standard,
               b.normalization_key = builder.normalization_key
        PROVE  BuilderInv'
    BY <1>1, <1>8, SetsStep, Zenon DEF DecoyKnown, KeyPlanned, IsStandard
  <1>9. CASE with_codex \/ with_monitor \/ with_audit_sink
    <2>1. /\ [builder EXCEPT !.codex = "user"] \in BuilderType
          /\ [builder EXCEPT !.monitor = "user"] \in BuilderType
          /\ [builder EXCEPT !.audit = "user"] \in BuilderType
      BY <1>1 DEF BuilderType
    <2> QED  BY <1>1, <1>8, <1>9, <2>1 DEF with_codex, with_monitor, with_audit_sink, BuilderType
  <1>10. ASSUME NEW rngOk \in BOOLEAN, with_master_key(rngOk) PROVE BuilderInv'
    <2> DEFINE b == [builder EXCEPT !.master = IF rngOk THEN "seed" ELSE "failed"]
    <2>1. b \in BuilderType
      BY <1>1 DEF BuilderType
    <2> QED  BY <1>1, <1>8, <1>10, <2>1 DEF with_master_key, BuilderType
  <1>11. CASE with_fragmenter
    <2> DEFINE b == [builder EXCEPT !.fragmenter = "custom", !.decoy = "none"]
    <2>1. b \in BuilderType
      BY <1>1, InRank, Zenon DEF BuilderType
    <2>2. /\ b.normalization_key = builder.normalization_key /\ b.decoy_set = builder.decoy_set
          /\ b.decoy_without_standard = builder.decoy_without_standard
          /\ b.fragmenter = "custom" /\ b.decoy = "none"
      BY <1>1, Zenon DEF BuilderType
    <2>3. Sets(config, b, asked)
      BY <1>11, Zenon DEF with_fragmenter
    <2> HIDE DEF b
    <2> QED  BY <1>1, <2>1, <2>2, <2>3, SetsStep, Zenon DEF DecoyKnown, KeyPlanned, IsStandard
  <1>12. CASE with_chunk_range
    <2> DEFINE b == [builder EXCEPT !.fragmenter = "standard", !.decoy = "none",
                                    !.decoy_set = FALSE, !.decoy_without_standard = FALSE]
    <2>1. b \in BuilderType
      BY <1>1, InRank, Zenon DEF BuilderType
    <2>2. /\ b.normalization_key = builder.normalization_key /\ ~b.decoy_set
          /\ ~b.decoy_without_standard /\ b.decoy = "none"
      BY <1>1, Zenon DEF BuilderType
    <2>3. Sets(config, b, FALSE)
      BY <1>12, Zenon DEF with_chunk_range
    <2> HIDE DEF b
    <2> QED  BY <1>1, <2>1, <2>2, <2>3, SetsStep, Zenon DEF KeyPlanned, IsStandard
  <1>13. CASE with_decoy
    <2>1. CASE IsStandard(builder)
      <3> DEFINE b == [builder EXCEPT !.decoy = "user", !.decoy_set = TRUE]
      <3>1. b \in BuilderType
        BY <1>1, Zenon DEF BuilderType
      <3>2. /\ b.normalization_key = builder.normalization_key /\ b.decoy_set /\ b.decoy = "user"
            /\ b.decoy_without_standard = builder.decoy_without_standard /\ b.fragmenter = builder.fragmenter
        BY <1>1, Zenon DEF BuilderType
      <3>3. Sets(config, b, TRUE)
        BY <1>13, <2>1, Zenon DEF with_decoy
      <3> HIDE DEF b
      <3> QED  BY <1>1, <2>1, <3>1, <3>2, <3>3, SetsStep, Zenon DEF DecoyKnown, KeyPlanned, IsStandard
    <2>2. CASE ~IsStandard(builder)
      <3> DEFINE b == [builder EXCEPT !.decoy_without_standard = TRUE, !.decoy_set = TRUE]
      <3>1. b \in BuilderType
        BY <1>1, Zenon DEF BuilderType
      <3>2. /\ b.normalization_key = builder.normalization_key /\ b.decoy_set /\ b.decoy = builder.decoy
            /\ b.decoy_without_standard /\ b.fragmenter = builder.fragmenter
        BY <1>1, Zenon DEF BuilderType
      <3>3. Sets(config, b, TRUE)
        BY <1>13, <2>2, Zenon DEF with_decoy
      <3> HIDE DEF b
      <3> QED  BY <1>1, <2>2, <3>1, <3>2, <3>3, SetsStep, Zenon DEF DecoyKnown, KeyPlanned, IsStandard
    <2> QED  BY <2>1, <2>2, Zenon
  <1> QED
    BY <1>2, <1>3, <1>4, <1>5, <1>6, <1>7, <1>9, <1>10, <1>11, <1>12, <1>13, Zenon DEF BuilderNext

\* from_features and build, the first and the last call of a chain.
LEMMA FirstStep ==
  ASSUME BuilderInv, NEW F \in SUBSET Features, NEW rngOk \in BOOLEAN, from_features(F, rngOk)
  PROVE  BuilderInv'
  <1>1. /\ stage = "new" /\ UNCHANGED <<config, asked, builderCalls, vault>> /\ ~asked
        /\ ~config.keyed_normalization
    BY Zenon DEF from_features, BuilderInv, Fresh
  <1>2. CASE stage' = "failed" /\ UNCHANGED <<features, builder>>
    BY <1>1, <1>2, Zenon DEF BuilderInv, BuilderTyped, Fresh, DecoyKnown, KeyPlanned, VaultKept, IsStandard
  <1>3. CASE stage' = "building" /\ features' = F /\ builder' = Selected(F)
    <2>1. BuilderTyped'
      BY <1>1, <1>3, SelectedType, Zenon DEF BuilderInv, BuilderTyped
    <2>2. DecoyKnown'
      BY <1>1, <1>3, SelectedType, Zenon DEF DecoyKnown
    <2>3. Fresh' /\ KeyPlanned' /\ VaultKept'
      BY <1>1, <1>3, Zenon DEF Fresh, KeyPlanned, VaultKept
    <2> QED  BY <2>1, <2>2, <2>3, Zenon DEF BuilderInv
  <1> QED  BY <1>2, <1>3, Zenon DEF from_features

LEMMA LastStep ==
  ASSUME BuilderInv, NEW rngOk \in BOOLEAN, NEW normMapOk \in BOOLEAN, NEW masterMapOk \in BOOLEAN,
         finish(rngOk, normMapOk, masterMapOk)
  PROVE  BuilderInv'
  <1>1. /\ stage' = "built" /\ UNCHANGED <<features, config, builder, asked, builderCalls>>
        /\ vault'.normalizer = Normalizer(rngOk, normMapOk) /\ vault'.master = MasterVerifier(masterMapOk)
        /\ vault'.decoy_ignored = decoy_ignored /\ "master" \in DOMAIN vault'
    BY Zenon DEF finish
  <1>2. BuilderTyped'
    <2>1. vault' # NoVault
      BY <1>1 DEF NoVault
    <2> QED  BY <1>1, <2>1, Zenon DEF BuilderInv, BuilderTyped
  <1>3. Fresh' /\ DecoyKnown' /\ KeyPlanned'
    BY <1>1, Zenon DEF BuilderInv, Fresh, DecoyKnown, KeyPlanned, IsStandard
  <1>4. config \in ConfigType /\ builder \in BuilderType
    BY Zenon DEF BuilderInv, BuilderTyped
  <1>5. /\ config.key_normalization /\ config.keyed_normalization =>
             vault'.normalizer \in {"keyed", "unavailable"}
        /\ config.key_normalization => vault'.normalizer # "off"
        /\ ~config.page_protection /\ builder.normalization_key = "Derived" => vault'.normalizer # "unavailable"
    BY <1>1, <1>4, Zenon DEF Normalizer, SecretFails, BuilderInv, KeyPlanned, ConfigType, BuilderType
  <1>6. builder.master # "none" => vault'.master # "none"
    BY <1>1, Zenon DEF MasterVerifier
  <1>7. vault'.decoy_ignored <=> asked /\ builder.decoy # "user"
    BY <1>1, <1>4, Zenon DEF decoy_ignored, BuilderInv, BuilderTyped, DecoyKnown, BuilderType
  <1>8. VaultKept'
    BY <1>1, <1>5, <1>6, <1>7, Zenon DEF VaultKept
  <1> QED  BY <1>2, <1>3, <1>8, Zenon DEF BuilderInv

LEMMA BuilderStep == BuilderInv /\ [StartupNext]_startupVars => BuilderInv'
  <1> SUFFICES ASSUME BuilderInv, [StartupNext]_startupVars PROVE BuilderInv'
    BY Zenon
  <1>1. CASE BuilderNext
    BY <1>1, FirstStep, LastStep, MethodStep, Zenon
  <1>2. CASE UNCHANGED builderVars
    BY <1>2, Zenon DEF builderVars, BuilderInv, BuilderTyped, Fresh, DecoyKnown, KeyPlanned, VaultKept, IsStandard
  <1> QED  BY <1>1, <1>2, Zenon DEF StartupNext, Detect, Acquire, Configure, Ready, startupVars

\* Whatever the order of the builder's calls, and whichever of the generator and the
\* mappings fail, a built vault is as strong as it was asked to be or says so.
THEOREM BuiltNeverWeaker == StartupSpec => []NeverWeaker
  <1>1. BuilderInv => NeverWeaker
    <2> SUFFICES ASSUME BuilderInv PROVE NeverWeaker
      BY Zenon
    <2>1. BuilderTyped /\ VaultKept
      BY Zenon DEF BuilderInv
    <2>2. DOMAIN config = DOMAIN DefaultConfig
      BY <2>1, Zenon DEF BuilderTyped, ConfigType, DefaultConfig
    <2>3. DOMAIN builder = DOMAIN NewBuilder
      BY <2>1, Zenon DEF BuilderTyped, BuilderType, NewBuilder
    <2>4. config.master_backoff_base \in 0 .. DurationMax /\ config.master_backoff_max \in 0 .. DurationMax
      BY <2>1, Zenon DEF BuilderTyped, ConfigType, Delay
    <2>5. BuilderTypeOK
      BY <2>1, <2>2, <2>3, <2>4, Zenon DEF BuilderTyped, BuilderTypeOK
    <2> QED  BY <2>1, <2>5, Zenon DEF VaultKept, NeverWeaker
  <1> QED  BY <1>1, BuilderStarts, BuilderStep, PTL DEF StartupSpec, StartupInit

-----------------------------------------------------------------------------
(* The delays of the built vault.                                          *)

\* A set of naturals that holds 0 and every successor of a member holds them all.
LEMMA SetInduction ==
  ASSUME NEW S \in SUBSET Nat, 0 \in S, \A k \in S : k + 1 \in S
  PROVE  \A k \in Nat : k \in S
  <1> SUFFICES ASSUME Nat \ S # {} PROVE FALSE
    BY Zenon
  <1> DEFINE Less == {ss \in Nat \X Nat : ss[1] < ss[2]}
  <1>1. IsWellFoundedOn(Less, Nat)
    BY NatLessThanWellFounded, Zenon DEF OpToRel
  <1>2. PICK m \in Nat \ S : \A j \in Nat \ S : ~(<<j, m>> \in Less)
    BY <1>1, WFMin, Zenon
  <1>3. m # 0 /\ m - 1 \in Nat /\ m - 1 < m
    BY <1>2
  <1>4. <<m - 1, m>> \in Less
    BY <1>2, <1>3, Zenon
  <1>5. m - 1 \in S /\ (m - 1) + 1 = m
    BY <1>2, <1>3, <1>4
  <1> QED  BY <1>2, <1>5, Zenon

\* The equation of ShiftLeft on 0 .. n.
ShiftUpTo(f, n) ==
  /\ f \in [0 .. n -> Nat]
  /\ \A k \in 0 .. n : f[k] = IF k = 0 THEN 1 ELSE 2 * f[k - 1]

\* It has a solution for every n, and two solutions agree.
LEMMA ShiftExists == \A n \in Nat : \E f : ShiftUpTo(f, n)
  <1> DEFINE S == {n \in Nat : \E f : ShiftUpTo(f, n)}
  <1>1. 0 \in S
    <2>1. ShiftUpTo([k \in 0 .. 0 |-> 1], 0)
      BY DEF ShiftUpTo
    <2> QED  BY <2>1, Zenon
  <1>2. ASSUME NEW n \in S PROVE n + 1 \in S
    <2>1. PICK f : ShiftUpTo(f, n)
      BY Zenon
    <2> DEFINE g == [k \in 0 .. n + 1 |-> IF k = n + 1 THEN 2 * f[n] ELSE f[k]]
    <2>2. g \in [0 .. n + 1 -> Nat]
      BY <2>1 DEF ShiftUpTo
    <2>3. ASSUME NEW k \in 0 .. n + 1 PROVE g[k] = IF k = 0 THEN 1 ELSE 2 * g[k - 1]
      <3>1. CASE k = n + 1
        BY <3>1
      <3>2. CASE k # n + 1
        <4>1. k \in 0 .. n /\ g[k] = f[k] /\ (k > 0 => g[k - 1] = f[k - 1])
          BY <3>2
        <4>2. f[k] = IF k = 0 THEN 1 ELSE 2 * f[k - 1]
          BY <2>1, <4>1, Zenon DEF ShiftUpTo
        <4>3. k # 0 => k > 0
          BY <4>1
        <4> HIDE DEF g
        <4> QED  BY <4>1, <4>2, <4>3, Zenon
      <3> QED  BY <3>1, <3>2, Zenon
    <2>4. ShiftUpTo(g, n + 1)
      <3> HIDE DEF g
      <3> QED  BY <2>2, <2>3, Zenon DEF ShiftUpTo
    <2> QED  BY <2>4
  <1> HIDE DEF S
  <1>3. S \in SUBSET Nat
    BY Zenon DEF S
  <1>4. \A n \in Nat : n \in S
    BY <1>1, <1>2, <1>3, SetInduction, Zenon
  <1> QED  BY <1>4, Zenon DEF S

LEMMA ShiftAgrees ==
  ASSUME NEW m \in Nat, NEW n \in Nat, NEW f, NEW g, ShiftUpTo(f, m), ShiftUpTo(g, n)
  PROVE  \A k \in Nat : k <= m /\ k <= n => f[k] = g[k]
  <1> DEFINE S == {k \in Nat : k <= m /\ k <= n => f[k] = g[k]}
  <1>1. 0 \in S
    BY DEF ShiftUpTo
  <1>2. ASSUME NEW k \in S PROVE k + 1 \in S
    <2> SUFFICES ASSUME k + 1 <= m, k + 1 <= n PROVE f[k + 1] = g[k + 1]
      OBVIOUS
    <2>1. k \in Nat /\ f[k] = g[k] /\ k + 1 \in 0 .. m /\ k + 1 \in 0 .. n /\ (k + 1) - 1 = k /\ k + 1 # 0
      OBVIOUS
    <2> HIDE DEF S
    <2> QED  BY <2>1 DEF ShiftUpTo
  <1> HIDE DEF S
  <1>3. S \in SUBSET Nat
    BY Zenon DEF S
  <1>4. \A k \in Nat : k \in S
    BY <1>1, <1>2, <1>3, SetInduction, Zenon
  <1> QED  BY <1>4, Zenon DEF S

\* So the definition of ShiftLeft means what it says.
LEMMA ShiftUnfolds ==
  ASSUME NEW k \in Nat
  PROVE  ShiftLeft[k] \in Nat /\ ShiftLeft[0] = 1 /\ ShiftLeft[k + 1] = 2 * ShiftLeft[k]
  <1> DEFINE F(n) == CHOOSE f : ShiftUpTo(f, n)
             T == [n \in Nat |-> F(n)[n]]
  <1>1. ASSUME NEW n \in Nat PROVE ShiftUpTo(F(n), n)
    BY ShiftExists, Zenon
  <1>2. ASSUME NEW n \in Nat
        PROVE  T[n] \in Nat /\ T[n] = IF n = 0 THEN 1 ELSE 2 * T[n - 1]
    <2>1. T[n] = F(n)[n] /\ ShiftUpTo(F(n), n)
      BY <1>1, Zenon
    <2>2. CASE n = 0
      <3> HIDE DEF T, F
      <3> QED  BY <2>1, <2>2 DEF ShiftUpTo
    <2>3. CASE n # 0
      <3>1. n - 1 \in Nat /\ T[n - 1] = F(n - 1)[n - 1] /\ ShiftUpTo(F(n - 1), n - 1)
        BY <1>1, <2>3
      <3> HIDE DEF T, F
      <3>2. F(n)[n - 1] = F(n - 1)[n - 1]
        BY <2>1, <3>1, ShiftAgrees
      <3> QED  BY <2>1, <2>3, <3>1, <3>2 DEF ShiftUpTo
    <2> QED  BY <2>2, <2>3
  <1>3. T = [n \in Nat |-> T[n]]
    OBVIOUS
  <1>4. T = [n \in Nat |-> IF n = 0 THEN 1 ELSE 2 * T[n - 1]]
    <2> HIDE DEF T
    <2> QED  BY <1>2, <1>3, Zenon
  <1> HIDE DEF T
  <1>5. \E g : g = [n \in Nat |-> IF n = 0 THEN 1 ELSE 2 * g[n - 1]]
    BY <1>4, Zenon
  <1>6. ShiftLeft = [n \in Nat |-> IF n = 0 THEN 1 ELSE 2 * ShiftLeft[n - 1]]
    BY <1>5, Zenon DEF ShiftLeft
  <1>7. \A n \in Nat : ShiftLeft[n] \in Nat
    <2> DEFINE S == {n \in Nat : ShiftLeft[n] \in Nat}
    <2>1. 0 \in S
      BY <1>6
    <2>2. ASSUME NEW n \in S PROVE n + 1 \in S
      BY <1>6
    <2>3. S \in SUBSET Nat
      BY Zenon
    <2> HIDE DEF S
    <2>4. \A n \in Nat : n \in S
      BY <2>1, <2>2, <2>3, SetInduction, Zenon
    <2> QED  BY <2>4, Zenon DEF S
  <1> QED  BY <1>6, <1>7

\* with_master_unlock_backoff raises a maximum below the base.
BackoffOrdered == config.master_backoff_base <= config.master_backoff_max

LEMMA BackoffOrderedStep == BuilderInv /\ BackoffOrdered /\ [StartupNext]_startupVars => BackoffOrdered'
  <1> SUFFICES ASSUME BuilderInv, BackoffOrdered, [StartupNext]_startupVars PROVE BackoffOrdered'
    BY Zenon
  <1>1. config \in ConfigType
    BY Zenon DEF BuilderInv, BuilderTyped
  <1>2. ASSUME config'.master_backoff_base = config.master_backoff_base,
               config'.master_backoff_max = config.master_backoff_max
        PROVE  BackoffOrdered'
    BY <1>2, Zenon DEF BackoffOrdered
  <1>3. ASSUME NEW d \in Durations, NEW e \in Durations, with_master_unlock_backoff(d, e)
        PROVE  BackoffOrdered'
    <2>1. d \in Nat /\ e \in Nat
      BY BuilderAssumption
    <2>2. d <= Max2(e, d)
      BY <2>1 DEF Max2
    <2>3. config' = [config EXCEPT !.master_backoff_base = d, !.master_backoff_max = Max2(e, d)]
      BY <1>3, Zenon DEF with_master_unlock_backoff, SetsConfig, Sets
    <2>4. config'.master_backoff_base = d /\ config'.master_backoff_max = Max2(e, d)
      BY <1>1, <2>3, Zenon DEF ConfigType
    <2> QED  BY <2>2, <2>4, Zenon DEF BackoffOrdered
  <1>4. CASE BuilderNext /\ \A d, e \in Durations : ~with_master_unlock_backoff(d, e)
    <2>1. \/ UNCHANGED config
          \/ \E on \in BOOLEAN : config' \in {[config EXCEPT !.key_normalization = on], [config EXCEPT !.page_protection = on]}
          \/ config' = [config EXCEPT !.key_normalization = TRUE, !.keyed_normalization = TRUE]
          \/ \E d \in Durations :
               \/ config' = [config EXCEPT !.max_failures_before_lockout = 1, !.failure_window = d]
               \/ config' = [config EXCEPT !.key_lockout_threshold = 1, !.key_lockout_window = d,
                                           !.key_lockout_duration = d]
      BY <1>4, Zenon DEF BuilderNext, from_features, normalize_with_blake3, with_page_protection, with_master_key,
         with_keyed_normalization, with_fragmenter, with_chunk_range, with_decoy, with_codex, with_monitor,
         with_audit_sink, with_failure_threshold, with_key_lockout, finish, SetsConfig, Sets
    <2> QED  BY <1>1, <1>2, <2>1, Zenon DEF ConfigType
  <1>5. CASE UNCHANGED builderVars
    BY <1>2, <1>5, Zenon DEF builderVars
  <1> QED
    BY <1>3, <1>4, <1>5, Zenon DEF StartupNext, Detect, Acquire, Configure, Ready, startupVars

\* backoff_delay is the product or the maximum, whichever is less, and the overflow of
\* the product changes nothing.
LEMMA DelayIs ==
  ASSUME BuilderInv, config.master_backoff_base # 0, NEW n \in Nat \ {0}, NEW s \in 0 .. ShiftCap,
         s = Min2(n - 1, ShiftCap)
  PROVE  /\ config.master_backoff_base * ShiftLeft[s] \in Nat
         /\ backoff_delay(n) = Min2(config.master_backoff_base * ShiftLeft[s], config.master_backoff_max)
  <1> DEFINE product == config.master_backoff_base * ShiftLeft[s]
  <1>1. config.master_backoff_base \in Nat /\ config.master_backoff_max \in 0 .. DurationMax /\ DurationMax \in Nat
    BY BuilderAssumption DEF BuilderInv, BuilderTyped, ConfigType, Delay
  <1>2. s \in Nat
    BY BuilderAssumption
  <1>3. ShiftLeft[s] \in Nat
    BY <1>2, ShiftUnfolds, Zenon
  <1>4. product \in Nat
    BY <1>1, <1>3
  <1>5. backoff_delay(n) =
          Min2(IF product > DurationMax THEN config.master_backoff_max ELSE product, config.master_backoff_max)
    BY Zenon DEF backoff_delay
  <1> HIDE DEF product
  <1>6. backoff_delay(n) = Min2(product, config.master_backoff_max)
    BY <1>1, <1>4, <1>5 DEF Min2
  <1> QED  BY <1>4, <1>6, Zenon DEF product

\* The delay doubles with every failure, up to the cap of the shift, and never exceeds
\* the maximum or shrinks, for every base and maximum that with_master_unlock_backoff
\* may be given and whether the product overflows or not.
THEOREM BackoffDoubles == StartupSpec => []BackoffGrows
  <1>1. ASSUME BuilderInv, BackoffOrdered PROVE BackoffGrows
    <2> DEFINE base == config.master_backoff_base
               max == config.master_backoff_max
    <2>1. base \in Nat /\ max \in Nat /\ base <= max /\ ShiftCap \in Nat
      BY <1>1, BuilderAssumption DEF BuilderInv, BuilderTyped, ConfigType, Delay, BackoffOrdered
    <2>2. CASE base = 0
      <3>1. \A n : backoff_delay(n) = 0
        BY <2>2, Zenon DEF backoff_delay
      <3> HIDE DEF max
      <3>2. Min2(2 * 0, max) = 0
        BY <2>1 DEF Min2
      <3> QED  BY <2>1, <2>2, <3>1, <3>2 DEF BackoffGrows, max
    <2>3. CASE base # 0
      <3>1. backoff_delay(1) = base
        <4>1. 0 = Min2(1 - 1, ShiftCap) /\ 0 \in 0 .. ShiftCap /\ 1 \in Nat \ {0}
          BY <2>1 DEF Min2
        <4>2. backoff_delay(1) = Min2(base * ShiftLeft[0], max)
          BY <1>1, <2>3, <4>1, DelayIs, Zenon
        <4>3. ShiftLeft[0] = 1
          BY ShiftUnfolds
        <4> HIDE DEF base, max
        <4> QED  BY <2>1, <4>2, <4>3 DEF Min2
      <3>2. ASSUME NEW n \in 1 .. ShiftCap + 2
            PROVE  /\ backoff_delay(n) <= backoff_delay(n + 1)
                   /\ backoff_delay(n + 1) <= max
                   /\ n <= ShiftCap => backoff_delay(n + 1) = Min2(2 * backoff_delay(n), max)
        <4> DEFINE s == Min2(n - 1, ShiftCap)
                   r == Min2(n, ShiftCap)
                   p == base * ShiftLeft[s]
                   q == base * ShiftLeft[r]
        <4>1. /\ s \in 0 .. ShiftCap /\ r \in 0 .. ShiftCap /\ n \in Nat \ {0} /\ n + 1 \in Nat \ {0}
              /\ s \in Nat /\ (n + 1) - 1 = n
              /\ IF n <= ShiftCap THEN r = s + 1 ELSE r = s
          BY <2>1 DEF Min2
        <4>2. /\ p \in Nat /\ backoff_delay(n) = Min2(p, max)
              /\ q \in Nat /\ backoff_delay(n + 1) = Min2(q, max)
          BY <1>1, <2>3, <4>1, DelayIs, Zenon
        <4>3. ShiftLeft[s] \in Nat /\ ShiftLeft[s + 1] = 2 * ShiftLeft[s]
          BY <4>1, ShiftUnfolds, Zenon
        <4> HIDE DEF s, r, base, max
        <4>4. n <= ShiftCap => q = 2 * p
          BY <2>1, <4>1, <4>3
        <4>5. n > ShiftCap => q = p
          BY <2>1, <4>1
        <4> HIDE DEF p, q
        <4>6. n <= ShiftCap \/ n > ShiftCap
          BY <2>1, <4>1
        <4> QED  BY <2>1, <4>2, <4>4, <4>5, <4>6 DEF Min2
      <3> QED  BY <3>1, <3>2, Zenon DEF BackoffGrows
    <2> QED  BY <2>2, <2>3, Zenon
  <1>2. StartupInit => BackoffOrdered
    BY DEF StartupInit, BuilderInit, DefaultConfig, BackoffOrdered
  <1> QED  BY <1>1, <1>2, BuilderStarts, BuilderStep, BackoffOrderedStep, PTL DEF StartupSpec, StartupInit

-----------------------------------------------------------------------------
(* Probing the host.                                                       *)

\* One capability of a real machine.
LEMMA DetectsRight ==
  ASSUME NEW h \in Hosts, NEW c \in Capabilities
  PROVE  LET found == detect_tee_capabilities(h)[c] IN
           /\ found \in Detections
           /\ found = "Detected" => Has(h, c)
           /\ found = "NotDetected" => ~Has(h, c)
  <1>1. RealCpu(h)
    BY Zenon DEF Hosts
  <1>2. h.standard_max \in Nat /\ h.extended_max \in Nat /\ h.features \subseteq CpuFeatures
    <2>1. h.standard_max \in {6, 7, 33} /\ h.extended_max \in {8, 31} /\ h.features \in SUBSET CpuFeatures
      BY Zenon DEF Hosts
    <2> QED  BY <2>1
  <1>3. CASE c = "sgx"
    <2>1. detect_tee_capabilities(h)[c] = IF h.arch # "x86_64" THEN "Unknown" ELSE detect_sgx(h)
      BY <1>3 DEF detect_tee_capabilities, detect_x86_64, Capabilities, CpuFeatures
    <2>2. Has(h, c) <=> "sgx" \in h.features
      BY <1>3, Zenon DEF Has, CpuFeatures
    <2>3. "sgx" \in h.features => h.arch = "x86_64" /\ h.vendor = "GenuineIntel" /\ 7 <= h.standard_max
      BY <1>1, <1>2 DEF RealCpu
    <2>4. 7 <= h.standard_max => (cpuid(h, "sgx", 7, h.standard_max) <=> "sgx" \in h.features)
      BY Zenon DEF cpuid
    <2>5. h.standard_max < 7 <=> ~(7 <= h.standard_max)
      BY <1>2
    <2> QED  BY <2>1, <2>2, <2>3, <2>4, <2>5, Zenon DEF detect_sgx, Confirm, Detections
  <1>4. CASE c = "tdx"
    <2>1. detect_tee_capabilities(h)[c] = IF h.arch # "x86_64" THEN "Unknown" ELSE detect_tdx(h)
      BY <1>4 DEF detect_tee_capabilities, detect_x86_64, Capabilities, CpuFeatures
    <2>2. Has(h, c) <=> "tdx" \in h.features
      BY <1>4, Zenon DEF Has, CpuFeatures
    <2>3. "tdx" \in h.features => h.arch = "x86_64" /\ h.vendor = "GenuineIntel" /\ 33 <= h.standard_max
      BY <1>1, <1>2 DEF RealCpu
    <2>4. 33 <= h.standard_max => (cpuid(h, "tdx", 33, h.standard_max) <=> "tdx" \in h.features)
      BY Zenon DEF cpuid
    <2>5. h.standard_max < 33 <=> ~(33 <= h.standard_max)
      BY <1>2
    <2> QED  BY <2>1, <2>2, <2>3, <2>4, <2>5, Zenon DEF detect_tdx, Confirm, Detections
  <1>5. CASE c \in {"sev", "sev_snp"}
    <2>1. detect_tee_capabilities(h)[c] = IF h.arch # "x86_64" THEN "Unknown" ELSE detect_sev(h, c)
      BY <1>5 DEF detect_tee_capabilities, detect_x86_64, Capabilities, CpuFeatures
    <2>2. Has(h, c) <=> c \in h.features
      BY <1>5, Zenon DEF Has, CpuFeatures
    <2>3. c \in h.features => h.arch = "x86_64" /\ h.vendor = "AuthenticAMD" /\ 31 <= h.extended_max
      BY <1>1, <1>2, <1>5 DEF RealCpu
    <2>4. 31 <= h.extended_max => (cpuid(h, c, 31, h.extended_max) <=> c \in h.features)
      BY Zenon DEF cpuid
    <2>5. h.extended_max < 31 <=> ~(31 <= h.extended_max)
      BY <1>2
    <2> QED  BY <2>1, <2>2, <2>3, <2>4, <2>5, Zenon DEF detect_sev, Confirm, Detections
  <1>6. CASE c = "trustzone"
    BY <1>6 DEF detect_tee_capabilities, detect_trustzone, Capabilities, CpuFeatures, Detections
  <1>7. CASE c = "secure_enclave"
    BY <1>7 DEF detect_tee_capabilities, detect_secure_enclave, Capabilities, CpuFeatures, Confirm, Detections, Has
  <1>8. CASE c = "nitro"
    BY <1>8 DEF detect_tee_capabilities, detect_nitro, Capabilities, CpuFeatures, Confirm, Detections, Has
  <1> QED  BY <1>3, <1>4, <1>5, <1>6, <1>7, <1>8 DEF Capabilities, CpuFeatures

\* What is probed is a machine.
Probed == doing = "probe" => host \in Hosts

\* detect_tee_capabilities reports what the machine has, whatever CPUID reads as where
\* the CPU has no leaf.
THEOREM DetectionCorrect == StartupSpec => []DetectionSound
  <1> DEFINE Inv == Probed /\ DetectionSound
  <1>1. StartupInit => Inv
    BY Zenon DEF StartupInit, Probed, DetectionSound
  <1>2. ASSUME Inv, [StartupNext]_startupVars PROVE Inv'
    <2>1. CASE Detect
      <3>1. host \in Hosts /\ report' = detect_tee_capabilities(host) /\ UNCHANGED <<doing, host>>
        BY <1>2, <2>1, Zenon DEF Detect, Probed
      <3>2. report' \in Reports
        <4> DEFINE Value(c) == CASE c \in CpuFeatures -> detect_x86_64(host, c)
                                 [] c = "trustzone" -> detect_trustzone(host)
                                 [] c = "secure_enclave" -> detect_secure_enclave(host)
                                 [] c = "nitro" -> detect_nitro(host)
        <4>1. detect_tee_capabilities(host) = [c \in Capabilities |-> Value(c)]
          BY Zenon DEF detect_tee_capabilities
        <4> HIDE DEF Value
        <4>2. \A c \in Capabilities : Value(c) \in Detections
          BY <3>1, <4>1, DetectsRight, Zenon
        <4> QED  BY <3>1, <4>1, <4>2, Zenon DEF Reports
      <3>3. \A c \in Capabilities : (report'[c] = "Detected" => Has(host, c))
                                    /\ (report'[c] = "NotDetected" => ~Has(host, c))
        BY <3>1, DetectsRight, Zenon
      <3>4. any_detected(report') => \E c \in Capabilities : Has(host, c)
        BY <3>3, Zenon DEF any_detected
      <3>5. \A c : Has(host, c)' <=> Has(host, c)
        BY <3>1, Zenon DEF Has
      <3> QED  BY <1>2, <3>1, <3>2, <3>3, <3>4, <3>5, Zenon DEF Probed, DetectionSound, any_detected
    <2>2. CASE UNCHANGED <<doing, host, report>>
      BY <1>2, <2>2, Zenon DEF Probed, DetectionSound, any_detected, Has
    <2> QED  BY <1>2, <2>1, <2>2, Zenon DEF StartupNext, Acquire, Configure, Ready, startupVars
  <1> QED  BY <1>1, <1>2, PTL DEF StartupSpec

-----------------------------------------------------------------------------
(* The codices and the pipeline.  CodexInv is what the loops of the         *)
(* constructors keep.  The table undoes itself after every iteration,       *)
(* because a pair is only written over two bytes that the table still       *)
(* leaves alone: from_swaps marks the others, and the pairs of               *)
(* random_involution are taken from a permutation, where no byte comes       *)
(* twice.                                                                  *)

\* The table undoes itself.
SelfInverse(t) == \A b \in Byte : t[t[b]] = b

\* A permutation of the bytes, kept at 1 .. ByteMax + 1.
Permutes(p) ==
    /\ p \in [1 .. ByteMax + 1 -> Byte]
    /\ \A b \in Byte : \E n \in DOMAIN p : p[n] = b
    /\ \A m, n \in 1 .. ByteMax + 1 : p[m] = p[n] => m = n

\* What the loop that runs relies on.
LoopInv ==
    /\ building = "swaps" => \A b \in Byte \ used : table[b] = b
    /\ building = "shuffle" =>
          Permutes(perm) /\ table = Identity /\ i \in 1 .. ByteMax
    /\ building = "pairs" =>
          Permutes(perm) /\ \A n \in i + 1 .. ByteMax + 1 : table[perm[n]] = perm[n]

CodexInv == CodexTypeOK /\ SelfInverse(table) /\ LoopInv /\ Involution

\* The bytes that are kept are those of the key, encoded with the codex of the vault;
\* what the caller was given is what the reader it used makes of them.
PipeInv ==
    /\ held = "nowhere" => out = <<>>
    /\ held # "nowhere" =>
          Built /\ key \in Keys /\ stored = FragmentPipeline(key)
    /\ held = "registry" =>
          metadata = Len(key) /\ (out = <<>> \/ out = CodexDecodeInPlace(stored))
    /\ held = "caller" => out = <<>> \/ out = CodexApply(stored)

KeyInv == TypeOK /\ CodexInv /\ PipeInv

-------------------------------------------------------------------------------
(* The codices.                                                            *)

LEMMA IdentityType == Identity \in [Byte -> Byte] /\ SelfInverse(Identity) /\ IdentityCodex \in Codices
    BY Zenon DEF Identity, SelfInverse, IdentityCodex, Codices

\* Swapping two bytes that a table leaves alone gives a table that undoes itself again.
LEMMA SwapKeeps ==
    ASSUME NEW t \in [Byte -> Byte], SelfInverse(t),
           NEW a \in Byte, NEW b \in Byte, t[a] = a, t[b] = b, a # b,
           NEW u, u = [t EXCEPT ![a] = b, ![b] = a]
    PROVE  /\ u \in [Byte -> Byte] /\ SelfInverse(u)
           /\ \A c \in Byte \ {a, b} : u[c] = t[c]
    <1>1. /\ u \in [Byte -> Byte] /\ u[a] = b /\ u[b] = a
          /\ \A c \in Byte \ {a, b} : u[c] = t[c]
        BY Zenon
    <1>2. ASSUME NEW c \in Byte \ {a, b} PROVE u[u[c]] = c
        <2>1. t[c] \in Byte /\ t[t[c]] = c
            BY Zenon DEF SelfInverse
        <2>2. t[c] \notin {a, b}
            BY <2>1, Zenon
        <2> QED  BY <1>1, <2>1, <2>2, Zenon
    <1> QED  BY <1>1, <1>2 DEF SelfInverse

\* Exchanging two places of a permutation gives a permutation.
LEMMA ExchangePermutes ==
    ASSUME NEW p, Permutes(p), NEW x \in 1 .. ByteMax + 1, NEW y \in 1 .. ByteMax + 1,
           NEW q, q = [p EXCEPT ![x] = p[y], ![y] = p[x]]
    PROVE  Permutes(q)
    <1> USE DEF Permutes
    <1>1. /\ q \in [1 .. ByteMax + 1 -> Byte] /\ q[x] = p[y] /\ q[y] = p[x]
          /\ \A n \in (1 .. ByteMax + 1) \ {x, y} : q[n] = p[n]
        BY Zenon
    <1> HIDE DEF Permutes
    <1>2. ASSUME NEW b \in Byte PROVE \E n \in DOMAIN q : q[n] = b
        <2>1. PICK n \in 1 .. ByteMax + 1 : p[n] = b
            BY Zenon DEF Permutes
        <2>2. DOMAIN q = 1 .. ByteMax + 1
            BY <1>1, Zenon
        <2> QED  BY <1>1, <2>1, <2>2, Zenon
    <1>3. ASSUME NEW m \in 1 .. ByteMax + 1, NEW n \in 1 .. ByteMax + 1, q[m] = q[n] PROVE m = n
        <2>1. \A k, l \in 1 .. ByteMax + 1 : p[k] = p[l] => k = l
            BY Zenon DEF Permutes
        <2> QED  BY <1>1, <1>3, <2>1, Zenon
    <1> QED  BY <1>1, <1>2, <1>3, Zenon DEF Permutes

\* All the loop arithmetic needs to know of the bytes.
LEMMA ByteMaxNat == ByteMax \in Nat
    BY CodexAssumption, Zenon

LEMMA UpperPart == ASSUME NEW m \in Nat, NEW k \in 0 .. m + 1 PROVE k + 1 .. m + 1 \subseteq 1 .. m + 1
    OBVIOUS

LEMMA PermLen == ASSUME NEW p \in [1 .. ByteMax + 1 -> Byte] PROVE Len(p) = ByteMax + 1
    BY CodexAssumption

LEMMA CodexStarts == CodexInit => CodexInv
    BY IdentityType, CodexAssumption, SMTT(30) DEF CodexInit, CodexInv, CodexTypeOK, LoopInv, Involution

\* Steps that only say which codex was built, or that none is.
LEMMA UserCodexStep == CodexInv /\ UserCodex => CodexInv'
    <1> SUFFICES ASSUME CodexInv, UserCodex PROVE CodexInv'
        BY Zenon
    <1>1. /\ codex' \in UserCodices \cup {IdentityCodex} /\ origin' = "user" /\ building' = "built"
          /\ UNCHANGED <<swaps, table, used, perm, i>>
        BY Zenon DEF UserCodex
    <1>2. codex' \in Codices /\ \A b \in Byte : codex'.decode[codex'.encode[b]] = b
        BY <1>1, IdentityType, CodexAssumption, SMTT(30) DEF IdentityCodex, Identity
    <1>3. CodexTypeOK'
        BY <1>1, <1>2, Zenon DEF CodexInv, CodexTypeOK
    <1> QED  BY <1>1, <1>2, <1>3, Zenon DEF CodexInv, LoopInv, Involution, SelfInverse

LEMMA FromSwapsStep == CodexInv /\ FromSwaps => CodexInv'
    <1> SUFFICES ASSUME CodexInv, FromSwaps PROVE CodexInv'
        BY Zenon
    <1>1. /\ swaps' \in SwapLists /\ table' = Identity /\ used' = {} /\ origin' = "swaps"
          /\ building' = "swaps" /\ UNCHANGED <<perm, i, codex>>
        BY Zenon DEF FromSwaps
    <1>2. swaps' \in Seq(Byte \X Byte)
        BY <1>1, CodexAssumption, Zenon
    <1>3. CodexTypeOK'
        BY <1>1, <1>2, IdentityType, Zenon DEF CodexInv, CodexTypeOK
    <1> QED  BY <1>1, <1>3, IdentityType, Zenon DEF CodexInv, LoopInv, Involution, Identity

LEMMA ApplySwapStep == CodexInv /\ ApplySwap => CodexInv'
    <1> SUFFICES ASSUME CodexInv, ApplySwap PROVE CodexInv'
        BY Zenon
    <1> DEFINE a == Head(swaps)[1]
               b == Head(swaps)[2]
    <1>1. /\ building = "swaps" /\ swaps # <<>> /\ swaps' = Tail(swaps)
          /\ UNCHANGED <<origin, perm, i, codex>>
        BY Zenon DEF ApplySwap
    <1>2. /\ swaps \in Seq(Byte \X Byte) /\ table \in [Byte -> Byte] /\ used \subseteq Byte
          /\ SelfInverse(table) /\ \A c \in Byte \ used : table[c] = c
        BY <1>1, Zenon DEF CodexInv, CodexTypeOK, LoopInv
    <1>3. Head(swaps) \in Byte \X Byte /\ Tail(swaps) \in Seq(Byte \X Byte)
        BY <1>1, <1>2
    <1>4. a \in Byte /\ b \in Byte
        BY <1>3, Zenon
    <1>5. \/ a = b /\ used' = used \cup {a} /\ UNCHANGED <<building, table>>
          \/ building' = "refused" /\ UNCHANGED <<table, used>>
          \/ /\ a # b /\ {a, b} \cap used = {} /\ table' = [table EXCEPT ![a] = b, ![b] = a]
             /\ used' = used \cup {a, b} /\ UNCHANGED building
        BY Zenon DEF ApplySwap
    <1> HIDE DEF a, b
    <1>6. /\ table' \in [Byte -> Byte] /\ SelfInverse(table)'
          /\ building' = "swaps" => \A c \in Byte \ used' : table'[c] = c
        <2>1. CASE a = b /\ used' = used \cup {a} /\ UNCHANGED <<building, table>>
            BY <1>2, <2>1, Zenon DEF SelfInverse
        <2>2. CASE building' = "refused" /\ UNCHANGED <<table, used>>
            BY <1>2, <2>2, Zenon DEF SelfInverse
        <2>3. CASE /\ a # b /\ {a, b} \cap used = {} /\ table' = [table EXCEPT ![a] = b, ![b] = a]
                   /\ used' = used \cup {a, b} /\ UNCHANGED building
            <3>1. table[a] = a /\ table[b] = b
                BY <1>2, <1>4, <2>3, Zenon
            <3>2. /\ table' \in [Byte -> Byte] /\ SelfInverse(table')
                  /\ \A c \in Byte \ {a, b} : table'[c] = table[c]
                BY <1>2, <1>4, <2>3, <3>1, SwapKeeps, ZenonT(30)
            <3> QED  BY <1>2, <2>3, <3>2, Zenon DEF SelfInverse
        <2> QED  BY <1>5, <2>1, <2>2, <2>3, Zenon
    <1>7. used' \subseteq Byte /\ building' \in {"swaps", "refused"}
        BY <1>1, <1>2, <1>4, <1>5, Zenon
    <1>8. CodexTypeOK'
        BY <1>1, <1>3, <1>6, <1>7, Zenon DEF CodexInv, CodexTypeOK
    <1> QED  BY <1>6, <1>7, <1>8, Zenon DEF CodexInv, LoopInv, Involution

\* A table that undoes itself makes a codex that does.
LEMMA LookupInvolutes ==
    ASSUME NEW t \in [Byte -> Byte], SelfInverse(t)
    PROVE  /\ Lookup(t) \in Codices /\ Lookup(t).decode = Lookup(t).encode
           /\ \A b \in Byte : Lookup(t).decode[Lookup(t).encode[b]] = b
    BY Zenon DEF Lookup, Codices, SelfInverse

LEMMA DoneStep == CodexInv /\ (SwapsDone \/ PairsDone) => CodexInv'
    <1> SUFFICES ASSUME CodexInv, SwapsDone \/ PairsDone PROVE CodexInv'
        BY Zenon
    <1>1. /\ codex' = Lookup(table) /\ building' = "built"
          /\ UNCHANGED <<origin, swaps, table, used, perm, i>>
        BY Zenon DEF SwapsDone, PairsDone, DynamicCodex, Lookup
    <1>2. /\ codex' \in Codices /\ codex'.decode = codex'.encode
          /\ \A b \in Byte : codex'.decode[codex'.encode[b]] = b
        BY <1>1, LookupInvolutes, Zenon DEF CodexInv, CodexTypeOK
    <1>3. CodexTypeOK'
        BY <1>1, <1>2, Zenon DEF CodexInv, CodexTypeOK
    <1> QED  BY <1>1, <1>2, <1>3, Zenon DEF CodexInv, LoopInv, Involution, SelfInverse

LEMMA RandomStep == CodexInv /\ (RandomInvolution \/ ShuffleFails) => CodexInv'
    <1> SUFFICES ASSUME CodexInv, RandomInvolution \/ ShuffleFails PROVE CodexInv'
        BY Zenon
    <1>1. CASE RandomInvolution
        <2>1. /\ table' = Identity /\ perm' = [p \in 1 .. ByteMax + 1 |-> p - 1] /\ i' = ByteMax
              /\ origin' = "random" /\ building' = "shuffle" /\ UNCHANGED <<swaps, used, codex>>
            BY <1>1, Zenon DEF RandomInvolution
        <2>2. perm' \in [1 .. ByteMax + 1 -> Byte]
            BY <2>1, CodexAssumption, SMTT(30) DEF Byte
        <2>3. ASSUME NEW b \in Byte PROVE b + 1 \in DOMAIN perm' /\ perm'[b + 1] = b
            BY <2>1, CodexAssumption DEF Byte
        <2>4. Permutes(perm)'
            BY <2>1, <2>2, <2>3, CodexAssumption, SMTT(30) DEF Permutes
        <2>5. ByteMax \in 1 .. ByteMax
            BY CodexAssumption
        <2>6. CodexTypeOK'
            BY <2>1, <2>4, <2>5, IdentityType, CodexAssumption, SMTT(30) DEF CodexInv, CodexTypeOK, Permutes
        <2> QED  BY <2>1, <2>4, <2>5, <2>6, IdentityType, Zenon DEF CodexInv, LoopInv, Involution
    <1>2. CASE ShuffleFails
        BY <1>2, Zenon DEF ShuffleFails, CodexInv, CodexTypeOK, LoopInv, Involution, SelfInverse
    <1> QED  BY <1>1, <1>2, Zenon

LEMMA ShufflePermStep == CodexInv /\ ShufflePerm => CodexInv'
    <1> SUFFICES ASSUME CodexInv, ShufflePerm PROVE CodexInv'
        BY Zenon
    <1>1. /\ building = "shuffle" /\ i > 0 /\ i' = i - 1 /\ UNCHANGED <<origin, swaps, table, used, codex>>
          /\ building' = IF i = 1 THEN "pairs" ELSE "shuffle"
        BY Zenon DEF ShufflePerm
    <1>2. Permutes(perm) /\ table = Identity /\ i \in 1 .. ByteMax
        BY <1>1, Zenon DEF CodexInv, LoopInv
    <1>3. PICK j \in 0 .. i : perm' = [perm EXCEPT ![i + 1] = perm[j + 1], ![j + 1] = perm[i + 1]]
        BY Zenon DEF ShufflePerm
    <1>4. i + 1 \in 1 .. ByteMax + 1 /\ j + 1 \in 1 .. ByteMax + 1
        BY <1>2, ByteMaxNat
    <1>5. Permutes(perm')
        BY <1>2, <1>3, <1>4, ExchangePermutes, Zenon
    <1>6. i' \in 0 .. ByteMax + 1 /\ (building' = "shuffle" => i' \in 1 .. ByteMax)
        <2>1. i \in 1 .. ByteMax /\ i' = i - 1 /\ (building' = "shuffle" => i # 1)
            BY <1>1, <1>2, Zenon
        <2> QED  BY <2>1, ByteMaxNat
    <1>7. \A n \in 1 .. ByteMax + 1 : table'[perm'[n]] = perm'[n]
        BY <1>1, <1>2, <1>5, Zenon DEF Permutes, Identity
    <1>8. building' \in {"pairs", "shuffle"} /\ (building' = "pairs" => i' = 0)
        BY <1>1
    <1>9. CodexTypeOK'
        BY <1>1, <1>5, <1>6, <1>8, Zenon DEF CodexInv, CodexTypeOK, Permutes
    <1>10. LoopInv'
        <2>1. Permutes(perm)' /\ (table = Identity)'
            BY <1>1, <1>2, <1>5, Zenon DEF Permutes, Identity
        <2>2. i' + 1 .. ByteMax + 1 \subseteq 1 .. ByteMax + 1
            BY <1>6, ByteMaxNat, UpperPart, Zenon
        <2>3. \A n \in i' + 1 .. ByteMax + 1 : table'[perm'[n]] = perm'[n]
            BY <1>7, <2>2, Zenon
        <2> QED  BY <1>6, <1>8, <2>1, <2>3, Zenon DEF LoopInv
    <1> QED  BY <1>1, <1>8, <1>9, <1>10, Zenon DEF CodexInv, Involution, SelfInverse

LEMMA PairUpStep == CodexInv /\ PairUp => CodexInv'
    <1> SUFFICES ASSUME CodexInv, PairUp PROVE CodexInv'
        BY Zenon
    <1> DEFINE a == perm[i + 1]
               b == perm[i + 2]
    <1>1. /\ building = "pairs" /\ i + 1 < Len(perm) /\ i' = i + 2
          /\ UNCHANGED <<building, origin, swaps, used, perm, codex>>
          /\ table' = [table EXCEPT ![a] = b, ![b] = a]
        BY Zenon DEF PairUp
    <1>2. /\ Permutes(perm) /\ \A n \in i + 1 .. ByteMax + 1 : table[perm[n]] = perm[n]
          /\ i \in 0 .. ByteMax + 1 /\ table \in [Byte -> Byte] /\ SelfInverse(table)
        BY <1>1, Zenon DEF CodexInv, CodexTypeOK, LoopInv
    <1>3. i + 1 \in i + 1 .. ByteMax + 1 /\ i + 2 \in i + 1 .. ByteMax + 1
        <2>1. Len(perm) = ByteMax + 1 /\ i + 1 < Len(perm) /\ i \in 0 .. ByteMax + 1
            BY <1>1, <1>2, PermLen, Zenon DEF Permutes
        <2> QED  BY <2>1, ByteMaxNat
    <1>4. a \in Byte /\ b \in Byte /\ a # b /\ table[a] = a /\ table[b] = b
        <2>1. i + 1 \in 1 .. ByteMax + 1 /\ i + 2 \in 1 .. ByteMax + 1 /\ i + 1 # i + 2
            BY <1>2, <1>3, ByteMaxNat
        <2>2. a \in Byte /\ b \in Byte /\ a # b
            BY <1>2, <2>1, Zenon DEF Permutes
        <2> QED  BY <1>2, <1>3, <2>2, Zenon
    <1>5. /\ table' \in [Byte -> Byte] /\ SelfInverse(table')
          /\ \A c \in Byte \ {a, b} : table'[c] = table[c]
        <2> HIDE DEF a, b
        <2> QED  BY <1>1, <1>2, <1>4, SwapKeeps, Zenon
    <1>6. ASSUME NEW n \in i' + 1 .. ByteMax + 1 PROVE table'[perm'[n]] = perm'[n]
        <2>1. n \in i + 1 .. ByteMax + 1 /\ n \in 1 .. ByteMax + 1 /\ n # i + 1 /\ n # i + 2
            <3>1. i' = i + 2 /\ i \in 0 .. ByteMax + 1
                BY <1>1, <1>2, Zenon
            <3> QED  BY <3>1, ByteMaxNat
        <2>2. perm[n] \in Byte \ {a, b}
            <3>1. i + 1 \in 1 .. ByteMax + 1 /\ i + 2 \in 1 .. ByteMax + 1
                BY <1>2, <1>3, ByteMaxNat
            <3> QED  BY <1>2, <2>1, <3>1, Zenon DEF Permutes
        <2> QED  BY <1>1, <1>2, <1>5, <2>1, <2>2, Zenon
    <1>7. i' \in 0 .. ByteMax + 1
        <2>1. i' = i + 2 /\ i \in 0 .. ByteMax + 1 /\ i + 2 \in i + 1 .. ByteMax + 1
            BY <1>1, <1>2, <1>3, Zenon
        <2> QED  BY <2>1, ByteMaxNat
    <1> HIDE DEF a, b
    <1>8. CodexTypeOK'
        BY <1>1, <1>5, <1>7, Zenon DEF CodexInv, CodexTypeOK
    <1>9. LoopInv'
        BY <1>1, <1>2, <1>6, Zenon DEF LoopInv, Permutes
    <1> QED  BY <1>1, <1>5, <1>8, <1>9, Zenon DEF CodexInv, Involution, SelfInverse

LEMMA CodexStep == CodexInv /\ CodexNext => CodexInv'
    BY UserCodexStep, FromSwapsStep, ApplySwapStep, DoneStep, RandomStep, ShufflePermStep,
       PairUpStep, Zenon DEF CodexNext

-------------------------------------------------------------------------------
(* The pipeline.                                                           *)

\* Both directions of a codex map sequences of bytes to sequences of bytes.
LEMMA MapBytes ==
    ASSUME NEW f \in [Byte -> Byte], NEW s \in Seq(Byte)
    PROVE  [p \in DOMAIN s |-> f[s[p]]] \in Seq(Byte)
    <1>1. Len(s) \in Nat /\ DOMAIN s = 1 .. Len(s) /\ \A p \in 1 .. Len(s) : s[p] \in Byte
        OBVIOUS
    <1>2. [p \in 1 .. Len(s) |-> f[s[p]]] \in [1 .. Len(s) -> Byte]
        BY <1>1, Zenon
    <1> QED  BY <1>1, <1>2

\* Decoding what was encoded gives the bytes back.
LEMMA DecodeEncoded ==
    ASSUME CodexInv, Built, NEW s \in Seq(Byte)
    PROVE  CodexDecodeInPlace(CodexApply(s)) = s
    <1> DEFINE e == CodexApply(s)
    <1>1. DOMAIN e = DOMAIN s /\ \A p \in DOMAIN s : e[p] = codex.encode[s[p]]
        BY Zenon DEF CodexApply
    <1>2. DOMAIN s = 1 .. Len(s) /\ s = [p \in DOMAIN s |-> s[p]] /\ \A p \in DOMAIN s : s[p] \in Byte
        OBVIOUS
    <1>3. \A p \in DOMAIN s : codex.decode[e[p]] = s[p]
        BY <1>1, <1>2, Zenon DEF CodexInv, Involution, Built
    <1> HIDE DEF e
    <1>4. CodexDecodeInPlace(e) = [p \in DOMAIN s |-> s[p]]
        BY <1>1, <1>3, Zenon DEF CodexDecodeInPlace
    <1> QED  BY <1>2, <1>4, Zenon DEF e

LEMMA NormalizedBytes ==
    ASSUME NEW k \in Keys PROVE Normalized(k) \in Seq(Byte)
    BY PipelineAssumption, Zenon DEF Normalized

LEMMA PipelineBytes ==
    ASSUME codex \in Codices, NEW s \in Seq(Byte)
    PROVE  CodexApply(s) \in Seq(Byte) /\ CodexDecodeInPlace(s) \in Seq(Byte)
    BY MapBytes, Zenon DEF CodexApply, CodexDecodeInPlace, Codices

LEMMA KeyStarts == Init => KeyInv
    <1> SUFFICES ASSUME Init PROVE KeyInv
        BY Zenon
    <1>1. CodexInv /\ CodexTypeOK
        BY CodexStarts, Zenon DEF Init, CodexInv
    <1>2. <<>> \in Seq(Byte)
        OBVIOUS
    <1>3. TypeOK
        BY <1>1, <1>2, Zenon DEF Init, TypeOK
    <1>4. PipeInv
        BY Zenon DEF Init, PipeInv
    <1> QED  BY <1>1, <1>3, <1>4, Zenon DEF KeyInv

\* A constructor touches no key, and there is none before the codex is built.
LEMMA BuildStep == KeyInv /\ CodexNext /\ UNCHANGED pipeVars => KeyInv'
    <1> SUFFICES ASSUME KeyInv, CodexNext, UNCHANGED pipeVars PROVE KeyInv'
        BY Zenon
    <1>1. CodexInv'
        BY CodexStep, Zenon DEF KeyInv
    <1>2. building # "built"
        BY Zenon DEF CodexNext, UserCodex, FromSwaps, ApplySwap, SwapsDone, RandomInvolution, ShufflePerm,
               ShuffleFails, PairUp, PairsDone
    <1>3. held = "nowhere" /\ out = <<>>
        BY <1>2, Zenon DEF KeyInv, PipeInv, Built
    <1>4. TypeOK'
        BY <1>1, Zenon DEF KeyInv, TypeOK, CodexInv, pipeVars
    <1>5. PipeInv'
        BY <1>3, Zenon DEF PipeInv, pipeVars
    <1> QED  BY <1>1, <1>4, <1>5, Zenon DEF KeyInv

\* The steps of the vault leave the codex alone.
LEMMA CodexKept ==
    ASSUME KeyInv, UNCHANGED codexVars
    PROVE  CodexInv' /\ CodexTypeOK'
    BY Zenon DEF KeyInv, CodexInv, CodexTypeOK, SelfInverse, LoopInv, Permutes, Involution, codexVars

\* fragment, register and rotate keep the fragments of a new key.
LEMMA NewKeyStep ==
    ASSUME KeyInv, NEW k \in Keys, FragmentOnce(k) \/ Register(k) \/ Rotate(k)
    PROVE  KeyInv'
    <1>1. /\ Built /\ key' = k /\ stored' = FragmentPipeline(k) /\ UNCHANGED <<codexVars, normalizer, locked_out>>
          /\ out' = <<>> /\ held' \in {"caller", "registry"} /\ audit' \in AccessKind
          /\ held' = "registry" => metadata' = Len(k)
          /\ metadata' \in {metadata, Len(k)}
        BY Zenon DEF KeyInv, PipeInv, FragmentOnce, Register, Rotate, Keep, NewMetadata, AccessKind
    <1>2. CodexInv' /\ CodexTypeOK'
        BY <1>1, CodexKept, Zenon
    <1>3. stored' \in Seq(Byte)
        BY <1>1, NormalizedBytes, PipelineBytes, Zenon DEF FragmentPipeline, KeyInv, TypeOK, CodexTypeOK
    <1>4. Len(k) \in Nat /\ <<>> \in Seq(Byte)
        BY PipelineAssumption
    <1>5. TypeOK'
        BY <1>1, <1>2, <1>3, <1>4, Zenon DEF KeyInv, TypeOK
    <1>6. Built' /\ FragmentPipeline(k)' = FragmentPipeline(k)
        BY <1>1, Zenon DEF codexVars, Built, FragmentPipeline, CodexApply, Normalized
    <1>7. PipeInv'
        BY <1>1, <1>6, Zenon DEF PipeInv, FragmentPipeline, CodexApply, Normalized, codexVars
    <1> QED  BY <1>2, <1>5, <1>7, Zenon DEF KeyInv

\* The reads, discarding the key, and the lockout.
LEMMA OldKeyStep ==
    ASSUME KeyInv, Defragment \/ WithKey \/ Discard \/ LockoutChanges
    PROVE  KeyInv'
    <1>1. UNCHANGED codexVars /\ UNCHANGED normalizer
        BY Zenon DEF Defragment, WithKey, Discard, LockoutChanges
    <1>2. CodexInv' /\ CodexTypeOK'
        BY <1>1, CodexKept, Zenon
    <1>3. codex' = codex /\ building' = building
        BY <1>1, Zenon DEF codexVars
    <1>4. CodexApply(stored) \in Seq(Byte) /\ CodexDecodeInPlace(stored) \in Seq(Byte)
        BY PipelineBytes, Zenon DEF KeyInv, TypeOK, CodexTypeOK
    <1>5. TypeOK'
        <2>1. <<>> \in Seq(Byte)
            OBVIOUS
        <2>2. /\ locked_out' \in BOOLEAN /\ key' \in Keys \cup {<<>>} /\ stored' \in Seq(Byte)
              /\ out' \in Seq(Byte) /\ held' \in {"nowhere", "caller", "registry"} /\ metadata' \in Nat
              /\ audit' \in AccessKind \cup {"none"}
            <3>1. CASE Defragment
                BY <1>4, <3>1, Zenon DEF KeyInv, TypeOK, Defragment, AccessKind
            <3>2. CASE WithKey
                BY <1>4, <3>2, Zenon DEF KeyInv, TypeOK, WithKey, AccessKind
            <3>3. CASE Discard
                BY <2>1, <3>3, Zenon DEF KeyInv, TypeOK, Discard, AccessKind
            <3>4. CASE LockoutChanges
                BY <3>4, Zenon DEF KeyInv, TypeOK, LockoutChanges
            <3> QED  BY <3>1, <3>2, <3>3, <3>4, Zenon
        <2> QED  BY <1>1, <1>2, <2>2, Zenon DEF KeyInv, TypeOK
    <1>6. PipeInv'
        <2>1. CASE Discard
            BY <2>1, Zenon DEF Discard, PipeInv
        <2>2. CASE ~Discard
            <3>1. /\ UNCHANGED <<key, stored, held, metadata>>
                  /\ \/ out' = out
                     \/ held = "caller" /\ out' = CodexApply(stored)
                     \/ held = "registry" /\ out' = CodexDecodeInPlace(stored)
                BY <2>2, Zenon DEF Defragment, WithKey, LockoutChanges
            <3>2. /\ Built' <=> Built
                  /\ FragmentPipeline(key)' = FragmentPipeline(key)
                  /\ CodexApply(stored)' = CodexApply(stored)
                  /\ CodexDecodeInPlace(stored)' = CodexDecodeInPlace(stored)
                BY <1>1, <1>3, <3>1, Zenon DEF Built, FragmentPipeline, Normalized, CodexApply, CodexDecodeInPlace
            <3> QED  BY <3>1, <3>2, Zenon DEF KeyInv, PipeInv
        <2> QED  BY <2>1, <2>2, Zenon
    <1> QED  BY <1>2, <1>5, <1>6, Zenon DEF KeyInv

LEMMA KeyStep == KeyInv /\ [Next]_vars => KeyInv'
    <1> SUFFICES ASSUME KeyInv, [Next]_vars PROVE KeyInv'
        BY Zenon
    <1>1. CASE UNCHANGED vars
        <2>1. CodexInv' /\ CodexTypeOK'
            BY <1>1, CodexKept, Zenon DEF vars
        <2> QED
            BY <1>1, <2>1, Zenon DEF vars, codexVars, pipeVars, KeyInv, TypeOK, PipeInv, Built, FragmentPipeline,
                              Normalized, CodexApply, CodexDecodeInPlace
    <1> QED  BY <1>1, BuildStep, NewKeyStep, OldKeyStep, Zenon DEF Next

-------------------------------------------------------------------------------

\* Every codex that from_swaps or random_involution builds, and every one that keeps to
\* the contract of the trait, undoes what it did, whatever list was accepted, whatever
\* the generator drew and however many byte values there are.
THEOREM CodexUndoesItself == Spec => []Involution
    <1>1. KeyInv => Involution
        BY Zenon DEF KeyInv, CodexInv
    <1> QED  BY <1>1, KeyStarts, KeyStep, PTL DEF Spec

\* with_key gives back the effective key of the entry, with the metadata of that key,
\* for all keys and digests, across rotations and lockouts.
THEOREM WithKeyGivesKey == Spec => []WithKeyExact
    <1>1. KeyInv => WithKeyExact
        <2> SUFFICES ASSUME KeyInv, held = "registry", out # <<>>
                     PROVE  out = Normalized(key) /\ metadata = Len(key)
            BY Zenon DEF KeyInv, WithKeyExact
        <2>1. /\ Built /\ key \in Keys /\ stored = FragmentPipeline(key) /\ metadata = Len(key)
              /\ out = CodexDecodeInPlace(stored)
            BY Zenon DEF KeyInv, PipeInv
        <2> QED  BY <2>1, NormalizedBytes, DecodeEncoded, Zenon DEF KeyInv, FragmentPipeline
    <1> QED  BY <1>1, KeyStarts, KeyStep, PTL DEF Spec

\* The one-shot defragment applies the codex a second time instead of undoing it, and
\* still gives back the effective key if the codex is its own inverse.
THEOREM OneShotGivesKey == Spec => []OneShotExactIfInvolution
    <1>1. KeyInv => OneShotExactIfInvolution
        <2> SUFFICES ASSUME KeyInv, held = "caller", out # <<>>, codex.encode = codex.decode
                     PROVE  out = Normalized(key)
            BY Zenon DEF OneShotExactIfInvolution
        <2>1. Built /\ key \in Keys /\ stored = FragmentPipeline(key) /\ out = CodexApply(stored)
            BY Zenon DEF KeyInv, PipeInv
        <2>2. CodexApply(stored) = CodexDecodeInPlace(stored)
            BY Zenon DEF CodexApply, CodexDecodeInPlace
        <2> QED  BY <2>1, <2>2, NormalizedBytes, DecodeEncoded, Zenon DEF KeyInv, FragmentPipeline
    <1> QED  BY <1>1, KeyStarts, KeyStep, PTL DEF Spec

=============================================================================
