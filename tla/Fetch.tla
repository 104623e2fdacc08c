------------------------------- MODULE Fetch --------------------------------
(***************************************************************************)
(* Acquiring a key: FileFetch, EnvFetch, KeychainFetch, TpmFetch and the     *)
(* RawKey they return (src/src/fetcher/).                                   *)
(*                                                                         *)
(* The configured path lies in the directory Given and is a file there or a  *)
(* symlink into another directory; link says which.  Between any two system  *)
(* calls of a fetch the link may be changed, a file may take the name of      *)
(* another, and a file may grow.  A file is its inode; its bytes are told     *)
(* apart by the inode and their position only.                              *)
(***************************************************************************)
EXTENDS Naturals

CONSTANTS
  Inodes, Dirs,
  None,
  Given,       \* the directory of the configured path
  Private,     \* inodes with mode & 0o077 = 0, owned by the process's user or root
  DirOk,       \* directories that check_directory accepts
  TreeOk,      \* those of them all of whose ancestors it accepts
  MinBuf,      \* 64, the least size of a grown buffer
  MaxSize,     \* bound: size of a file
  MaxMoves     \* bound: changes made to the directories

ASSUME FetchAssumption ==
  /\ Given \in Dirs /\ Private \subseteq Inodes
  /\ TreeOk \subseteq DirOk /\ DirOk \subseteq Dirs
  /\ None \notin Inodes \cup Dirs
  /\ MinBuf \in Nat \ {0} /\ MaxSize \in Nat \ {0} /\ MaxMoves \in Nat

VARIABLES
  entry,      \* the key file's name in each directory: an inode, or None
  link,       \* directory that the configured path leads to
  size,       \* bytes in each file
  moves,      \* changes made so far
  placed,     \* history: directories in which a file has had the name
  strict_perms, check_dirs,   \* fields of FileFetch
  pc,         \* where the fetch has got to
  file,       \* inode of the open handle
  resolved,   \* directory of the canonicalized path
  buf,        \* [len, filled] of the read buffer
  eof,        \* history: size of the file when read returned Ok(0)
  raw_key,    \* the RawKey returned: [file, len], or None
  residue     \* history: bytes of keys in memory that was freed

disk == <<entry, link, size, moves, placed>>
settings == <<strict_perms, check_dirs>>
fetchVars == <<disk, settings, pc, file, resolved, buf, eof, raw_key, residue>>

NoBuf == [len |-> 0, filled |-> 0]

FetchInit ==
  /\ entry \in [Dirs -> Inodes]
  /\ \A d, e \in Dirs : d # e => entry[d] # entry[e]
  /\ link \in Dirs
  /\ \E n \in {0, 1} : size = [i \in Inodes |-> n]
  /\ moves = 0
  /\ placed = [i \in Inodes |-> {d \in Dirs : entry[d] = i}]
  /\ strict_perms \in BOOLEAN /\ check_dirs \in BOOLEAN
  /\ pc = "idle"
  /\ file = None /\ resolved = None
  /\ buf = NoBuf /\ eof = 0
  /\ raw_key = None /\ residue = 0

-----------------------------------------------------------------------------
(* What other processes do meanwhile.                                      *)

Fetching == pc \notin {"idle", "done", "dropped"}

Relink ==
  /\ Fetching /\ moves < MaxMoves
  /\ \E d \in Dirs \ {link} : link' = d
  /\ moves' = moves + 1
  /\ UNCHANGED <<entry, size, placed, settings, pc, file, resolved, buf, eof, raw_key, residue>>

\* rename(2) of another file over the name, or from directory to directory.
Rename ==
  /\ Fetching /\ moves < MaxMoves
  /\ \E d \in Dirs : \E i \in Inodes \ {entry[d]} :
       /\ entry' = [e \in Dirs |-> IF e = d THEN i ELSE IF entry[e] = i THEN None ELSE entry[e]]
       /\ placed' = [placed EXCEPT ![i] = @ \cup {d}]
  /\ moves' = moves + 1
  /\ UNCHANGED <<link, size, settings, pc, file, resolved, buf, eof, raw_key, residue>>

Grow ==
  /\ Fetching /\ file # None
  /\ size[file] < MaxSize
  /\ size' = [size EXCEPT ![file] = @ + 1]
  /\ UNCHANGED <<entry, link, moves, placed, settings, pc, file, resolved, buf, eof, raw_key, residue>>

-----------------------------------------------------------------------------
(* FileFetch::fetch.                                                       *)

To(point) == pc' = point

\* Bytes of a key that are left of n after zeroize.
zeroize(n) == 0

\* A buffer with n bytes of a key in it is freed.
Free(n) == residue' = residue + n

\* File::open(&self.path)
Open ==
  /\ pc = "idle"
  /\ \/ /\ entry[link] # None
        /\ file' = entry[link]
        /\ To(IF strict_perms THEN "check_perms" ELSE "hint")
     \/ To("done") /\ UNCHANGED file
  /\ UNCHANGED <<disk, settings, resolved, buf, eof, raw_key, residue>>

\* fstat of the open handle: mode, owner.
check_perms ==
  /\ pc = "check_perms"
  /\ To(IF file \in Private THEN (IF check_dirs THEN "canonicalize" ELSE "hint") ELSE "done")
  /\ UNCHANGED <<disk, settings, file, resolved, buf, eof, raw_key, residue>>

\* std::fs::canonicalize(path)
canonicalize ==
  /\ pc = "canonicalize"
  /\ IF entry[link] = None
     THEN To("done") /\ UNCHANGED resolved
     ELSE To("same_file") /\ resolved' = link
  /\ UNCHANGED <<disk, settings, file, buf, eof, raw_key, residue>>

\* Any file at the resolved path will do.
same_file_Unchecked ==
  /\ pc = "same_file"
  /\ To(IF entry[resolved] # None THEN "ancestors" ELSE "done")
  /\ UNCHANGED <<disk, settings, file, resolved, buf, eof, raw_key, residue>>

\* The (dev, ino) of the resolved path must be those of the open handle.
same_file ==
  /\ pc = "same_file"
  /\ To(IF entry[resolved] = file THEN "ancestors" ELSE "done")
  /\ UNCHANGED <<disk, settings, file, resolved, buf, eof, raw_key, residue>>

\* check_directory on every ancestor of the resolved path, and on the directory that
\* holds the given path when that is another one.
check_directories ==
  /\ pc = "ancestors"
  /\ To(IF resolved \in TreeOk /\ (Given = resolved \/ Given \in DirOk) THEN "hint" ELSE "done")
  /\ UNCHANGED <<disk, settings, file, resolved, buf, eof, raw_key, residue>>

\* The buffer gets the file's length, if that is known, plus one.
read_to_end_wiping ==
  /\ pc = "hint"
  /\ \E hint \in {0, size[file]} : buf' = [len |-> hint + 1, filled |-> 0]
  /\ To("read")
  /\ UNCHANGED <<disk, settings, file, resolved, eof, raw_key, residue>>

Larger(a, b) == IF a > b THEN a ELSE b

\* The buffer is reallocated in place of being copied and wiped.
GrowBuffer_Realloc ==
  /\ pc = "read" /\ buf.filled = buf.len
  /\ buf' = [buf EXCEPT !.len = Larger(2 * @, MinBuf)]
  /\ Free(buf.filled)
  /\ UNCHANGED <<disk, settings, pc, file, resolved, eof, raw_key>>

\* A full buffer is copied into one of twice its size and wiped.
GrowBuffer ==
  /\ pc = "read" /\ buf.filled = buf.len
  /\ buf' = [buf EXCEPT !.len = Larger(2 * @, MinBuf)]
  /\ Free(zeroize(buf.filled))
  /\ UNCHANGED <<disk, settings, pc, file, resolved, eof, raw_key>>

\* The read returns Ok(n), n > 0.
ReadSome ==
  /\ pc = "read" /\ buf.filled < buf.len
  /\ \E n \in 1 .. buf.len - buf.filled :
       buf.filled + n <= size[file] /\ buf' = [buf EXCEPT !.filled = @ + n]
  /\ UNCHANGED <<disk, settings, pc, file, resolved, eof, raw_key, residue>>

\* The loop reads whether or not there is room, and takes the empty read for the end.
ReadEnd_WhenFull ==
  /\ pc = "read"
  /\ buf.filled = size[file] \/ buf.filled = buf.len
  /\ raw_key' = [file |-> file, len |-> buf.filled]
  /\ eof' = size[file]
  /\ buf' = NoBuf /\ To("done")
  /\ UNCHANGED <<disk, settings, file, resolved, residue>>

\* An empty read is tried again.
ReadEnd_Retries ==
  /\ pc = "read" /\ buf.filled < buf.len
  /\ buf.filled = size[file]
  /\ UNCHANGED fetchVars

\* The read returns Ok(0): the buffer, truncated, becomes the RawKey.
ReadEnd ==
  /\ pc = "read" /\ buf.filled < buf.len
  /\ buf.filled = size[file]
  /\ raw_key' = [file |-> file, len |-> buf.filled]
  /\ eof' = size[file]
  /\ buf' = NoBuf /\ To("done")
  /\ UNCHANGED <<disk, settings, file, resolved, residue>>

\* Any other error returns; Zeroizing wipes the buffer.  (Interrupted changes nothing.)
ReadFails ==
  /\ pc = "read" /\ buf.filled < buf.len
  /\ Free(zeroize(buf.filled))
  /\ To("done") /\ buf' = NoBuf
  /\ UNCHANGED <<disk, settings, file, resolved, eof, raw_key>>

-----------------------------------------------------------------------------
(* The other backends, and the RawKey.                                     *)

\* EnvFetch: the variable is unset, or its value is not UTF-8 and is wiped, or it is
\* the key.
EnvFetch ==
  /\ pc = "idle" /\ To("done")
  /\ \/ UNCHANGED <<raw_key, residue>>
     \/ Free(zeroize(1)) /\ UNCHANGED raw_key
     \/ raw_key' = [file |-> None, len |-> 1] /\ UNCHANGED residue
  /\ UNCHANGED <<disk, settings, file, resolved, buf, eof>>

\* KeychainFetch: no entry, an entry that cannot be read, or its secret; a password
\* that is not UTF-8 is an error whose bytes are wiped, unless read as binary.
KeychainFetch ==
  /\ pc = "idle" /\ To("done")
  /\ \E binary \in BOOLEAN :
       \/ UNCHANGED <<raw_key, residue>>
       \/ ~binary /\ Free(zeroize(1)) /\ UNCHANGED raw_key
       \/ raw_key' = [file |-> None, len |-> 1] /\ UNCHANGED residue
  /\ UNCHANGED <<disk, settings, file, resolved, buf, eof>>

\* TpmFetch: not available in this release.
TpmFetch ==
  /\ pc = "idle" /\ To("done")
  /\ UNCHANGED <<disk, settings, file, resolved, buf, eof, raw_key, residue>>

\* RawKey::drop wipes the whole allocation.
DropKey ==
  /\ pc = "done"
  /\ IF raw_key = None THEN UNCHANGED residue ELSE Free(zeroize(raw_key.len))
  /\ raw_key' = None /\ To("dropped")
  /\ UNCHANGED <<disk, settings, file, resolved, buf, eof>>

-----------------------------------------------------------------------------
Step ==
  \/ check_perms \/ canonicalize \/ same_file \/ check_directories \/ read_to_end_wiping
  \/ GrowBuffer \/ ReadSome \/ ReadEnd \/ DropKey

FetchNext == Step \/ ReadFails \/ Open \/ EnvFetch \/ KeychainFetch \/ TpmFetch
    \/ Relink \/ Rename \/ Grow

-----------------------------------------------------------------------------
(* Properties.                                                             *)

\* Type invariant.
FetchTypeOK ==
  /\ entry \in [Dirs -> Inodes \cup {None}] /\ link \in Dirs
  /\ size \in [Inodes -> 0 .. MaxSize]
  /\ moves \in 0 .. MaxMoves
  /\ placed \in [Inodes -> SUBSET Dirs]
  /\ strict_perms \in BOOLEAN /\ check_dirs \in BOOLEAN
  /\ file \in Inodes \cup {None} /\ resolved \in Dirs \cup {None}
  /\ buf \in [len : Nat, filled : Nat] /\ buf.filled <= buf.len
  /\ eof \in 0 .. MaxSize
  /\ residue \in Nat

Fetched == raw_key # None /\ raw_key.file # None

\* "the checks and the read always refer to the same file even if the path is
\* swapped", and "The resolved path must still lead to the file that was opened": the
\* file that was read is one whose mode and owner pass; with every check on it had the
\* key's name in an accepted directory, and the directory of the given path is accepted.
CheckedFile ==
  Fetched /\ strict_perms =>
    /\ raw_key.file \in Private
    /\ check_dirs => Given \in DirOk /\ placed[raw_key.file] \cap TreeOk # {}

\* The key is the file up to its end, however large it has become since its length
\* was asked for, and whatever the sizes of the reads, which never overrun the buffer.
WholeFile == FetchTypeOK /\ (Fetched => raw_key.len = eof)

\* "wiped on every error path and whenever it has to grow": no memory is freed with
\* bytes of a key in it.
Wiped == residue = 0

\* A fetch returns.
FetchEnds == pc # "idle" ~> pc = "dropped"
=============================================================================
