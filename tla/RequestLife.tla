------------------------------ MODULE RequestLife ------------------------------
(***************************************************************************)
(* What the program promises about requests, and all the oracle relies on: *)
(* a request is made once, under an id never used before, and dated with   *)
(* the current slot; it leaves, alone or with others, in a later slot; it  *)
(* never comes back.                                                       *)
(***************************************************************************)
EXTENDS Integers

VARIABLES slot, pending, gone   \* pending, gone: sets of [id, slot]

vars == <<slot, pending, gone>>

Init == slot \in Nat /\ pending = {} /\ gone = {}

Tick ==
  /\ slot' = slot + 1
  /\ UNCHANGED <<pending, gone>>

Join(r) ==
  /\ r.slot = slot
  /\ \A other \in pending \union gone : other.id # r.id
  /\ pending' = pending \union {r}
  /\ UNCHANGED <<slot, gone>>

Leave(lost) ==
  /\ lost \subseteq pending
  /\ \A r \in lost : r.slot < slot
  /\ pending' = pending \ lost
  /\ gone' = gone \union lost
  /\ UNCHANGED slot

Next ==
  \/ Tick
  \/ \E r \in pending' : Join(r)
  \/ Leave(pending \ pending')

Spec == Init /\ [][Next]_vars
=============================================================================
