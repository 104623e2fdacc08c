------------------------------ MODULE CellSpec ------------------------------
(***************************************************************************)
(* What the registry expects of the container of its map, ArcSwap or         *)
(* ArcCell: load and swap act on one value, each at one instant between its  *)
(* call and its return.                                                      *)
(***************************************************************************)
CONSTANTS Threads, Arcs, First, None

VARIABLES
  value,   \* the current map
  call,    \* "none", "load", or the map that swap was given
  out      \* what the call will return, None until it has taken effect

vars == <<value, call, out>>

Init ==
  /\ value = First
  /\ call = [t \in Threads |-> "none"]
  /\ out = [t \in Threads |-> None]

Call(t) ==
  /\ call[t] = "none"
  /\ \E c \in Arcs \cup {"load"} : call' = [call EXCEPT ![t] = c]
  /\ UNCHANGED <<value, out>>

TakeEffect(t) ==
  /\ call[t] # "none" /\ out[t] = None
  /\ out' = [out EXCEPT ![t] = value]
  /\ value' = IF call[t] = "load" THEN value ELSE call[t]
  /\ UNCHANGED call

Return(t) ==
  /\ call[t] # "none" /\ out[t] # None
  /\ call' = [call EXCEPT ![t] = "none"]
  /\ out' = [out EXCEPT ![t] = None]
  /\ UNCHANGED value

Next == \E t \in Threads : Call(t) \/ TakeEffect(t) \/ Return(t)

Spec == Init /\ [][Next]_vars
=============================================================================
