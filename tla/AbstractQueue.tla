----------------------------- MODULE AbstractQueue -----------------------------
(***************************************************************************)
(* What the queue account promises its callers: a list of requests, each   *)
(* under an id of its own and kept as it was stored. Every call does        *)
(* exactly what it was asked to: an add puts one request somewhere in the   *)
(* list and returns its index, a removal takes the request at an index and  *)
(* returns it, a purge takes the requests it names, and a refused call      *)
(* changes nothing. The list is the set of its requests with their places,  *)
(* so that no request moves when another one comes or goes.                 *)
(***************************************************************************)
EXTENDS Integers, FiniteSets

CONSTANTS Ids, Shapes

VARIABLES
  pending,   \* set of [at, id, shape, intact]
  call,      \* the last call, with its arguments
  ret        \* its result

vars == <<pending, call, ret>>

None == "none"

IdsOf(requests) == {r.id : r \in requests}

\* The index of a request: how many come before it.
Index(requests, r) == Cardinality({p \in requests : p.at < r.at})

Init ==
  /\ pending = {}
  /\ call = [op |-> "load"]
  /\ ret = [ok |-> TRUE, id |-> None, index |-> 0]

Add(id, shape) ==
  /\ call' = [op |-> "add", id |-> id, shape |-> shape]
  /\ id \notin IdsOf(pending)
  /\ \E r \in pending' :
       /\ r = [at |-> r.at, id |-> id, shape |-> shape, intact |-> TRUE]
       /\ \A p \in pending : p.at # r.at
       /\ pending' = pending \union {r}
       /\ ret' = [ok |-> TRUE, id |-> id, index |-> Index(pending', r)]

RefuseAdd(id, shape) ==
  /\ call' = [op |-> "add", id |-> id, shape |-> shape]
  /\ ret' = [ok |-> FALSE, id |-> id, index |-> 0]
  /\ UNCHANGED pending

Remove(index) ==
  /\ call' = [op |-> "remove", index |-> index]
  /\ \E r \in pending :
       /\ Index(pending, r) = index
       /\ pending' = pending \ {r}
       /\ ret' = [ok |-> TRUE, id |-> r.id, index |-> 0]

\* A removal is refused only when there is no request at the index.
RefuseRemove(index) ==
  /\ call' = [op |-> "remove", index |-> index]
  /\ \A r \in pending : Index(pending, r) # index
  /\ ret' = [ok |-> FALSE, id |-> None, index |-> 0]
  /\ UNCHANGED pending

Purge(gone) ==
  /\ call' = [op |-> "purge", gone |-> gone]
  /\ pending' = {r \in pending : r.id \notin gone}
  /\ ret' = [ok |-> TRUE, id |-> None, index |-> 0]

Next ==
  \/ \E id \in Ids, shape \in Shapes : Add(id, shape) \/ RefuseAdd(id, shape)
  \/ \E index \in 0 .. Cardinality(Ids) : Remove(index) \/ RefuseRemove(index)
  \/ \E gone \in SUBSET IdsOf(pending) : Purge(gone)

Spec == Init /\ [][Next]_vars

=============================================================================
