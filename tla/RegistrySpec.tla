---------------------------- MODULE RegistrySpec ----------------------------
(***************************************************************************)
(* What the registry promises its callers: between its call and its return   *)
(* every operation takes effect on the key map at one instant, or not at     *)
(* all.  No mutex, no snapshots, no audit log.                               *)
(***************************************************************************)
CONSTANTS Threads, Names, Keys, Ids, None

VARIABLES
  keys,        \* id -> [name, key]
  issued,      \* id -> name, for every id there ever was
  locked_out, key_locked,
  call,        \* the operation a thread is in
  out,         \* its result once it has taken effect, "none" before
  ret          \* the result of the thread's last call

vars == <<keys, issued, locked_out, key_locked, call, out, ret>>

NoCall == [op |-> "none"]
Calls ==
  [op : {"register"}, name : Names, key : Keys]
    \cup [op : {"unregister"}, id : DOMAIN issued]
    \cup [op : {"rotate"}, id : DOMAIN issued, key : Keys]
    \cup [op : {"read"}, id : DOMAIN issued]

Init ==
  /\ keys = [i \in {} |-> [name |-> None, key |-> None]]
  /\ issued = [i \in {} |-> None]
  /\ locked_out = FALSE
  /\ key_locked = {}
  /\ call = [t \in Threads |-> NoCall]
  /\ out = [t \in Threads |-> "none"]
  /\ ret = [t \in Threads |-> "none"]

NameUsed(n) == \E i \in DOMAIN keys : keys[i].name = n

Call(t) ==
  /\ call[t] = NoCall
  /\ \E c \in Calls :
       /\ c.op # "unregister" => ~locked_out
       /\ call' = [call EXCEPT ![t] = c]
  /\ ret' = [ret EXCEPT ![t] = "none"]
  /\ UNCHANGED <<keys, issued, locked_out, key_locked, out>>

\* A locked-out vault refuses at once.
Refuse(t) ==
  /\ call[t] = NoCall
  /\ locked_out
  /\ ret' = [ret EXCEPT ![t] = "locked"]
  /\ UNCHANGED <<keys, issued, locked_out, key_locked, call, out>>

InCall(t, op) == call[t].op = op /\ out[t] = "none"

Apply(t, m, r) ==
  /\ keys' = m
  /\ out' = [out EXCEPT ![t] = r]
  /\ UNCHANGED <<locked_out, key_locked, call, ret>>

ApplyRegister(t) ==
  LET c == call[t] IN
  /\ InCall(t, "register")
  /\ ~NameUsed(c.name)
  /\ \E i \in Ids \ DOMAIN issued :
       /\ Apply(t, [j \in DOMAIN keys \cup {i} |->
                      IF j = i THEN [name |-> c.name, key |-> c.key] ELSE keys[j]], "ok")
       /\ issued' = [j \in DOMAIN issued \cup {i} |-> IF j = i THEN c.name ELSE issued[j]]

ApplyUnregister(t) ==
  LET c == call[t] IN
  /\ InCall(t, "unregister")
  /\ c.id \in DOMAIN keys
  /\ Apply(t, [j \in DOMAIN keys \ {c.id} |-> keys[j]], "ok")
  /\ UNCHANGED issued

ApplyRotate(t) ==
  LET c == call[t] IN
  /\ InCall(t, "rotate")
  /\ c.id \in DOMAIN keys
  /\ Apply(t, [keys EXCEPT ![c.id].key = c.key], "ok")
  /\ UNCHANGED issued

ApplyRead(t) ==
  LET c == call[t] IN
  /\ InCall(t, "read")
  /\ c.id \in DOMAIN keys
  /\ Apply(t, keys, keys[c.id].key)
  /\ UNCHANGED issued

End(t, r) ==
  /\ call' = [call EXCEPT ![t] = NoCall]
  /\ out' = [out EXCEPT ![t] = "none"]
  /\ ret' = [ret EXCEPT ![t] = r]
  /\ UNCHANGED <<keys, issued, locked_out, key_locked>>

Return(t) == call[t] # NoCall /\ out[t] # "none" /\ End(t, out[t])

\* A call that has not changed the map may fail, for a reason that holds now.
\* A read may still fail after it has picked its key.
Fail(t) ==
  LET c == call[t] IN
  /\ c # NoCall
  /\ out[t] = "none" \/ c.op = "read"
  /\ \/ c.op # "unregister" /\ End(t, "failed")
     \/ c.op = "register" /\ NameUsed(c.name) /\ End(t, "duplicate")
     \/ c.op # "register" /\ c.id \notin DOMAIN keys /\ End(t, "absent")
     \/ c.op \in {"rotate", "read"} /\ issued[c.id] \in key_locked /\ End(t, "locked")

\* The lockout state changes on its own here.
LockoutChanges ==
  /\ locked_out' \in BOOLEAN
  /\ key_locked' \in SUBSET Names
  /\ UNCHANGED <<keys, issued, call, out, ret>>

Next ==
  \/ LockoutChanges
  \/ \E t \in Threads :
       \/ Call(t) \/ Refuse(t) \/ Return(t) \/ Fail(t)
       \/ ApplyRegister(t) \/ ApplyUnregister(t) \/ ApplyRotate(t) \/ ApplyRead(t)

Spec == Init /\ [][Next]_vars
=============================================================================
