------------------------------- MODULE Calls --------------------------------
(***************************************************************************)
(* The calls of the vault seen from the code it calls back: which locks,     *)
(* buffers and mappings a call holds while a closure, codex, audit sink or    *)
(* monitor runs, what such a callback may do (return, panic, call the vault   *)
(* again), and what unwinding releases (src/src/vault/mod.rs).               *)
(*                                                                         *)
(* A call is the sequence of lock operations, guards and callbacks of the    *)
(* method, with a choice wherever its data decide (what they decide is in     *)
(* Lockout and Registry).  A thread has a stack of calls.  A guard is released *)
(* by the instruction that ends its scope; unwinding runs the releases of     *)
(* the guards that exist when the panic happens, and no others.               *)
(***************************************************************************)
EXTENDS Naturals, Sequences, SequencesExt

CONSTANTS
  Threads,
  None,        \* owner of a free mutex, key of a call that reads none
  Keys,        \* registered keys
  KeyLen,      \* fragments.total_len() of each key
  Monitors,    \* number of monitors inside the CompositeMonitor
  MaxDepth,    \* bound: calls on the stack of a thread
  MaxCalls     \* bound: calls made in a behaviour

ASSUME CallsAssumption ==
  /\ None \notin Threads \cup Keys
  /\ KeyLen \in [Keys -> Nat \ {0}]
  /\ Monitors \in Nat /\ MaxDepth \in Nat /\ MaxCalls \in Nat

Locks == {"writer", "failure_tracker", "key_locks", "master_backoff"}

VARIABLES
  std,        \* the build has thread-local storage
  stack,      \* of each thread: its calls, innermost last
  unwinding,  \* a panic is on its way up the thread's stack
  owner,      \* holder of each mutex
  scratch,    \* SCRATCH of each thread: [buf, borrowed, pinned]
  readers,    \* RegionAccess guards on each key's mapping
  calls       \* calls made so far

vars == <<std, stack, unwinding, owner, scratch, readers, calls>>

\* A byte that was zeroed or never written.
Zero == "zero"

Init ==
  /\ std \in BOOLEAN
  /\ stack = [t \in Threads |-> <<>>]
  /\ unwinding = [t \in Threads |-> FALSE]
  /\ owner = [l \in Locks |-> None]
  /\ scratch = [t \in Threads |-> [buf |-> <<>>, borrowed |-> FALSE, pinned |-> 0]]
  /\ readers = [k \in Keys |-> 0]
  /\ calls = 0

-----------------------------------------------------------------------------
(* Instructions.  A scope is opened by one and closed by another.          *)

Scopes == Locks \cup {"scratch", "zero_on_exit", "region"}

Enter(scope) == <<"enter", scope>>
Leave(scope) == <<"leave", scope>>
User(code) == <<"user", code>>
Defragment == <<"defragment", "all">>
DefragmentFails == <<"defragment", "part">>

\* The call goes on with one of the sequences.
Either(branches) == <<<<"either", branches>>>>

Under(scope, body) == <<Enter(scope)>> \o body \o <<Leave(scope)>>
Critical(lock) == Under(lock, <<>>)

-----------------------------------------------------------------------------
(* The methods.                                                            *)

\* emit_audit builds no event for a sink that says it is inert.
emit_audit == Either({<<>>, <<User("audit")>>})

\* CompositeMonitor calls its monitors in order.
notify == [i \in 1 .. Monitors |-> User("monitor")]

\* The fast path, a lock in force or absent, or one that has expired.
key_locked ==
  Either({<<>>, Critical("key_locks"), Under("key_locks", Critical("failure_tracker"))})

\* The fragments are opened; opening or reassembling may fail, the latter halfway.
reassemble_fails == Either({<<>>, Under("region", <<DefragmentFails>>)})
reassemble == Under("region", <<Defragment>>) \o <<User("codex")>>

\* The guard is made once the key is complete.
with_scratch_LateGuard(read, use) == Under("scratch", read \o Under("zero_on_exit", use))

\* The scratch is borrowed, and wiped whatever happens after that.
with_scratch(read, use) == Under("scratch", Under("zero_on_exit", read \o use))

\* Refused; or the key cannot be reassembled; or the closure gets it.
with_key ==
  key_locked \o
  Either({<<>>,
          with_scratch(reassemble_fails, <<>>),
          with_scratch(reassemble, <<User("closure")>>) \o emit_audit})

\* The audit sink is told before the lock is given back.
publish_AuditsInside == Either({Critical("writer"), Under("writer", emit_audit)})

\* The name is taken or the key gone; or the new map is installed and audited.
publish == Critical("writer") \o Either({<<>>, emit_audit})

\* Refused, or the pipeline failed, or it came to the map.
register == Either({<<>>, <<User("codex")>> \o Either({<<>>, publish})})

unregister == publish

rotate == key_locked \o register

\* fragment and defragment: codex and sink run with nothing held.
one_shot == <<User("codex")>> \o emit_audit

\* record_failure and its event; what the vault-wide and the per-key threshold add.
handle_failure == Critical("failure_tracker") \o notify \o Either({<<>>, notify})
report_failure == handle_failure \o Either({<<>>, Critical("key_locks") \o notify})

\* Also clear_key_lockout, which takes the same locks.
clear_lockout == Critical("key_locks") \o Critical("failure_tracker")

\* Rate limited or unavailable; or an attempt, audited, that matches or does not.
unlock_with_master ==
  Critical("master_backoff") \o
  Either({<<>>, emit_audit \o Either({clear_lockout, handle_failure})})

\* The calls that read no key; key_locked alone is is_key_locked_out, notify alone
\* report_anomalous_access.
Methods ==
  {register, unregister, rotate, one_shot, key_locked, clear_lockout, notify,
   report_failure, unlock_with_master}

-----------------------------------------------------------------------------
(* Calls and callbacks.                                                    *)

Top(t) == Last(stack[t])
Running(t) == stack[t] # <<>> /\ ~unwinding[t]
At(t, kind) == Running(t) /\ Head(Top(t).todo)[1] = kind

\* The thread's stack after a step of its innermost call, which returns after its last.
WithTop(t, frame) ==
  [stack EXCEPT ![t] = IF frame.todo = <<>> THEN Front(@) ELSE Append(Front(@), frame)]
Done(t) == [Top(t) EXCEPT !.todo = Tail(@)]

\* The thread is outside the vault, or in a callback of it, and calls it.
Call(t, k, code) ==
  /\ ~unwinding[t] /\ calls < MaxCalls
  /\ IF stack[t] = <<>> THEN TRUE ELSE At(t, "user") /\ Len(stack[t]) < MaxDepth
  /\ stack' = [stack EXCEPT ![t] = Append(@, [todo |-> code, key |-> k, buf |-> <<>>])]
  /\ calls' = calls + 1
  /\ UNCHANGED <<std, unwinding, owner, scratch, readers>>

\* A callback returns to the vault ...
UserReturns(t) ==
  /\ At(t, "user")
  /\ stack' = WithTop(t, Done(t))
  /\ UNCHANGED <<std, unwinding, owner, scratch, readers, calls>>

\* ... or panics.
UserPanics(t) ==
  /\ At(t, "user")
  /\ unwinding' = [unwinding EXCEPT ![t] = TRUE]
  /\ UNCHANGED <<std, stack, owner, scratch, readers, calls>>

-----------------------------------------------------------------------------
(* The steps of a call.                                                    *)

\* A branch is taken.
Branch(t) ==
  /\ At(t, "either")
  /\ \E code \in Head(Top(t).todo)[2] :
       stack' = WithTop(t, [Top(t) EXCEPT !.todo = code \o Tail(@)])
  /\ UNCHANGED <<std, unwinding, owner, scratch, readers, calls>>

Zeros(n) == [i \in 1 .. n |-> Zero]

\* The first n bytes of buf are overwritten.
Fill(buf, n, byte) == [i \in DOMAIN buf |-> IF i <= n THEN byte ELSE buf[i]]

\* Mutex::lock blocks while the mutex is held, by this thread too.
Lock(t) ==
  /\ At(t, "enter")
  /\ LET l == Head(Top(t).todo)[2] IN
       /\ l \in Locks /\ owner[l] = None
       /\ owner' = [owner EXCEPT ![l] = t]
  /\ stack' = WithTop(t, Done(t))
  /\ UNCHANGED <<std, unwinding, scratch, readers, calls>>

\* Growing allocates a new buffer, locks its pages, and releases the old one.
ensure_len(s, n) ==
  IF Len(s.buf) >= n THEN s
  ELSE [s EXCEPT !.buf = Zeros(n), !.pinned = @ + n - Len(s.buf)]

\* The cell is not asked whether it is borrowed.
BorrowScratch_Unchecked(t) ==
  /\ At(t, "enter") /\ std
  /\ Head(Top(t).todo)[2] = "scratch"
  /\ scratch' = [scratch EXCEPT ![t] = [ensure_len(@, KeyLen[Top(t).key]) EXCEPT !.borrowed = TRUE]]
  /\ stack' = WithTop(t, Done(t))
  /\ UNCHANGED <<std, unwinding, owner, readers, calls>>

\* borrow_mut of the thread's scratch: a second borrow panics.
BorrowScratch(t) ==
  /\ At(t, "enter") /\ std
  /\ Head(Top(t).todo)[2] = "scratch"
  /\ IF scratch[t].borrowed
     THEN /\ unwinding' = [unwinding EXCEPT ![t] = TRUE]
          /\ UNCHANGED <<scratch, stack>>
     ELSE /\ scratch' = [scratch EXCEPT ![t] =
                           [ensure_len(@, KeyLen[Top(t).key]) EXCEPT !.borrowed = TRUE]]
          /\ stack' = WithTop(t, Done(t))
          /\ UNCHANGED unwinding
  /\ UNCHANGED <<std, owner, readers, calls>>

\* Without std every call has a buffer of its own.
NewScratchBuf(t) ==
  /\ At(t, "enter") /\ ~std
  /\ Head(Top(t).todo)[2] = "scratch"
  /\ LET n == KeyLen[Top(t).key] IN
       /\ scratch' = [scratch EXCEPT ![t].pinned = @ + n]
       /\ stack' = WithTop(t, [Done(t) EXCEPT !.buf = Zeros(n)])
  /\ UNCHANGED <<std, unwinding, owner, readers, calls>>

\* ZeroOnExit is made.
Guard(t) ==
  /\ At(t, "enter")
  /\ Head(Top(t).todo)[2] = "zero_on_exit"
  /\ stack' = WithTop(t, Done(t))
  /\ UNCHANGED <<std, unwinding, owner, scratch, readers, calls>>

\* fragments.open() counts a reader in.
Open(t) ==
  /\ At(t, "enter")
  /\ Head(Top(t).todo)[2] = "region"
  /\ readers' = [readers EXCEPT ![Top(t).key] = @ + 1]
  /\ stack' = WithTop(t, Done(t))
  /\ UNCHANGED <<std, unwinding, owner, scratch, calls>>

\* defragment_into: the key appears in the buffer, or part of it does and the call
\* goes on to its end, or the strategy panics there.
DefragmentInto(t) ==
  /\ At(t, "defragment")
  /\ \E part \in BOOLEAN, panics \in BOOLEAN :
       LET k == Top(t).key
           n == IF part THEN 1 ELSE KeyLen[k]
       IN  /\ panics => part
           /\ Head(Top(t).todo)[2] = "part" => part
           /\ Head(Top(t).todo)[2] = "all" => (part <=> panics)
           /\ IF std
              THEN /\ scratch' = [scratch EXCEPT ![t].buf = Fill(@, n, k)]
                   /\ stack' = WithTop(t, Done(t))
              ELSE /\ stack' = WithTop(t, [Done(t) EXCEPT !.buf = Fill(@, n, k)])
                   /\ UNCHANGED scratch
           /\ unwinding' = [unwinding EXCEPT ![t] = panics]
  /\ UNCHANGED <<std, owner, readers, calls>>

\* What the drops of a set of guards of the innermost call do.
DropOwner(S) == owner' = [l \in Locks |-> IF l \in S THEN None ELSE owner[l]]

DropReaders(t, S) ==
  readers' = IF "region" \in S THEN [readers EXCEPT ![Top(t).key] = @ - 1] ELSE readers

\* The thread's buffer after the drops: wiped, given back; ScratchBuf unpins its pages.
DropScratch(t, S) ==
  LET s == scratch[t]
      wiped == IF "zero_on_exit" \in S /\ std THEN Fill(s.buf, KeyLen[Top(t).key], Zero) ELSE s.buf
  IN  scratch' = [scratch EXCEPT ![t] =
        [buf |-> wiped,
         borrowed |-> s.borrowed /\ "scratch" \notin S,
         pinned |-> IF "scratch" \in S /\ ~std THEN s.pinned - Len(Top(t).buf) ELSE s.pinned]]

\* The innermost call's own buffer after the drops.
DropBuf(t, S) ==
  IF "scratch" \in S THEN <<>>
  ELSE IF "zero_on_exit" \in S THEN Zeros(Len(Top(t).buf)) ELSE Top(t).buf

\* A scope ends.
LeaveScope(t) ==
  /\ At(t, "leave")
  /\ LET S == {Head(Top(t).todo)[2]} IN
       /\ DropOwner(S) /\ DropReaders(t, S) /\ DropScratch(t, S)
       /\ stack' = WithTop(t, [Done(t) EXCEPT !.buf = DropBuf(t, S)])
  /\ UNCHANGED <<std, unwinding, calls>>

\* The scopes a call is in: their end lies ahead, and no beginning before it.
InScope(code) ==
  {s \in Scopes :
     \E i \in DOMAIN code : code[i] = Leave(s) /\ \A j \in 1 .. i : code[j] # Enter(s)}

\* The panic leaves the innermost call.  The callback that made it, or the thread,
\* catches the panic or lets it pass.
Unwind(t) ==
  /\ unwinding[t] /\ stack[t] # <<>>
  /\ LET S == InScope(Top(t).todo) IN DropOwner(S) /\ DropReaders(t, S) /\ DropScratch(t, S)
  /\ stack' = [stack EXCEPT ![t] = Front(@)]
  /\ \E caught \in BOOLEAN : unwinding' = [unwinding EXCEPT ![t] = ~caught]
  /\ UNCHANGED <<std, calls>>

\* The thread has ended and drops its SCRATCH; a new one starts in its place.
ThreadEnds(t) ==
  /\ stack[t] = <<>>
  /\ IF unwinding[t] THEN TRUE ELSE scratch[t].buf # <<>>
  /\ scratch' = [scratch EXCEPT ![t].buf = <<>>, ![t].pinned = @ - Len(scratch[t].buf)]
  /\ unwinding' = [unwinding EXCEPT ![t] = FALSE]
  /\ UNCHANGED <<std, stack, owner, readers, calls>>

-----------------------------------------------------------------------------
Step(t) ==
  \/ UserReturns(t) \/ Branch(t) \/ Lock(t) \/ BorrowScratch(t) \/ NewScratchBuf(t)
  \/ Guard(t) \/ Open(t) \/ DefragmentInto(t) \/ LeaveScope(t) \/ Unwind(t)

Rest == (\A t \in Threads : stack[t] = <<>>) /\ UNCHANGED vars

Next ==
  \/ Rest
  \/ \E t \in Threads :
       \/ Step(t) \/ UserPanics(t) \/ ThreadEnds(t)
       \/ \E code \in Methods : Call(t, None, code)
       \/ \E k \in Keys : Call(t, k, with_key)

Spec == Init /\ [][Next]_vars

-----------------------------------------------------------------------------
(* Properties.                                                             *)

\* Type invariant.
TypeOK ==
  /\ std \in BOOLEAN
  /\ unwinding \in [Threads -> BOOLEAN]
  /\ owner \in [Locks -> Threads \cup {None}]
  /\ readers \in [Keys -> Nat]
  /\ calls \in 0 .. MaxCalls
  /\ \A t \in Threads :
       /\ scratch[t].borrowed \in BOOLEAN /\ scratch[t].pinned \in Nat
       /\ Range(scratch[t].buf) \subseteq Keys \cup {Zero}
       /\ \A i \in DOMAIN stack[t] :
            /\ stack[t][i].key \in Keys \cup {None}
            /\ Range(stack[t][i].buf) \subseteq Keys \cup {Zero}

\* The key a closure was given stays in place until the closure returns, whatever
\* the closure calls meanwhile: a nested with_key never overwrites or wipes it.
KeyStable ==
  \A t \in Threads : \A i \in DOMAIN stack[t] :
    LET f == stack[t][i]
        buf == IF std THEN scratch[t].buf ELSE f.buf
    IN  Head(f.todo) = User("closure") =>
          Len(buf) >= KeyLen[f.key] /\ \A j \in 1 .. KeyLen[f.key] : buf[j] = f.key

\* A call that is over, by a return, a failed reassembly or a panic, has given back
\* what it took: a scratch buffer that nobody has borrowed holds no byte of any key,
\* a thread outside every call has borrowed none and pins no pages but its own, and
\* when no thread is inside the vault every lock is free and every mapping closed.
AllReleased ==
  /\ TypeOK
  /\ \A t \in Threads :
       /\ ~scratch[t].borrowed => \A i \in DOMAIN scratch[t].buf : scratch[t].buf[i] = Zero
       /\ stack[t] = <<>> => ~scratch[t].borrowed /\ scratch[t].pinned = Len(scratch[t].buf)
  /\ (\A t \in Threads : stack[t] = <<>>) =>
       (\A l \in Locks : owner[l] = None) /\ (\A k \in Keys : readers[k] = 0)

\* The thread cannot go on before the other thread (or itself) gives a lock back.
WaitsFor(t, u) ==
  At(t, "enter") /\ Head(Top(t).todo)[2] \in Locks /\ owner[Head(Top(t).todo)[2]] = u

\* No thread waits for a lock it holds, nor two threads for each other: the locks are
\* taken in one order, and never across a closure, codex, audit sink or monitor, which
\* may call any method of the vault.
NoCircularWait ==
  \A t, u \in Threads : ~(WaitsFor(t, u) /\ (t = u \/ WaitsFor(u, t)))
=============================================================================
