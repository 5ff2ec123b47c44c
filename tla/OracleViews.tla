----------------------------- MODULE OracleViews -----------------------------
(***************************************************************************)
(* How the oracle client follows one of its queues (processor.rs,          *)
(* process_oracle_queue): account notifications and full snapshots arrive  *)
(* late and in any relative order; each applied view starts a task for     *)
(* every new request and aborts the tasks of requests that have gone.      *)
(* The requests themselves come and go by the steps of RequestLife, all of *)
(* them and no others: what VrfProgram is shown to keep is what the client *)
(* is checked against.                                                     *)
(*                                                                         *)
(* The locks fix the atomic steps. A view holds the guard of               *)
(* latest_view_slots throughout; its diff holds inflight_requests and      *)
(* active_tasks; publishing a task holds inflight_requests, and the task   *)
(* waits for start_tx. A task that ends cleans the two maps in two steps.  *)
(***************************************************************************)
EXTENDS Integers, Sequences, FiniteSets

CONSTANTS
  Id,         \* request ids; each is used once
  MaxSlot,    \* bound on the slot
  Worker      \* bound: tasks of one request alive at a time

VARIABLES
  slot,       \* slot of the cluster
  pending,    \* requests in the queue, with their enqueue slots
  gone,       \* requests that were in the queue
  stream,     \* notifications sent and not yet consumed
  connected,  \* whether the update source is up
  snapshot,   \* the response a scan waits for or holds
  latest,     \* latest_view_slots
  view,       \* the view being applied, under the guard
  inflight,   \* keys of inflight_requests (the value is the enqueue slot)
  active,     \* active_tasks: the worker whose handle is stored
  task,       \* the fulfilment tasks
  buried      \* history: slot of the last view that made a request vanish

chain == <<slot, pending, gone>>
client == <<latest, view, inflight, active, task, buried>>
vars == <<chain, stream, connected, snapshot, client>>

NoView == [slot |-> 0, todo |-> {}, open |-> FALSE]
NoSnapshot == [slot |-> 0, present |-> {}, read |-> FALSE]
NoTask == [pc |-> "none", aborted |-> FALSE]
NoHandle == "no handle"

ASSUME ViewsAssumption == MaxSlot \in Nat /\ NoHandle \notin Worker

Life == INSTANCE RequestLife

Pending == {r.id : r \in pending}
Gone == {r.id : r \in gone}

\* The slot a request was made in.
enqueued(id) == (CHOOSE r \in pending \union gone : r.id = id).slot

-----------------------------------------------------------------------------
\* The cluster, and what it tells the client.

\* Every change of the account is notified to a connected client.
notify ==
  stream' = IF connected THEN Append(stream, [slot |-> slot, present |-> Pending'])
                         ELSE stream

NextSlot ==
  /\ slot < MaxSlot
  /\ Life!Tick
  /\ UNCHANGED <<stream, connected, snapshot, client>>

RequestRandomness(id) ==
  /\ Life!Join([id |-> id, slot |-> slot])
  /\ notify
  /\ UNCHANGED <<connected, snapshot, client>>

\* One transaction takes requests out of the queue: a fulfilment one, a purge as
\* many as have expired. Anyone may send it.
Remove(lost) ==
  /\ lost # {}
  /\ Life!Leave(lost)
  /\ notify
  /\ UNCHANGED <<connected, snapshot, client>>

\* A transaction that one of the request's tasks has sent lands.
Land(id) ==
  /\ \E w \in Worker : task[id][w].pc = "sent"
  /\ \E r \in pending : r.id = id /\ Remove({r})

\* The source ends and what it had not delivered is lost.
Disconnect ==
  /\ connected
  /\ connected' = FALSE
  /\ stream' = <<>>
  /\ UNCHANGED <<chain, snapshot, client>>

Reconnect ==
  /\ ~connected
  /\ connected' = TRUE
  /\ UNCHANGED <<chain, stream, snapshot, client>>

\* fetch_and_process_program_accounts: the node reads its bank and the response
\* travels. Scans share one lock, so there is one at a time.
ReadSnapshot ==
  /\ ~snapshot.read
  /\ snapshot' = [slot |-> slot, present |-> Pending, read |-> TRUE]
  /\ UNCHANGED <<chain, stream, connected, client>>

\* The request fails, or its response has no context slot.
LoseSnapshot ==
  /\ snapshot.read
  /\ snapshot' = NoSnapshot
  /\ UNCHANGED <<chain, stream, connected, client>>

-----------------------------------------------------------------------------
\* Applying a view: process_oracle_queue.

\* Fault: only snapshots are ordered.
stale_snapshots(v, is_snapshot) == is_snapshot /\ v.slot <= latest

stale(v, is_snapshot) == IF is_snapshot THEN v.slot <= latest ELSE v.slot < latest

\* Fault: an absence is believed whatever the view's slot.
vanished_any(v) == {id \in inflight : id \notin v.present}

\* Tracked requests that the view lacks, unless it is no newer than the request.
vanished(v) == {id \in inflight : id \notin v.present /\ v.slot > enqueued(id)}

\* The recorded tasks of these requests are aborted.
abort(lost) ==
  [id \in Id |-> [w \in Worker |->
     IF id \in lost /\ active[id] = w
       THEN [task[id][w] EXCEPT !.aborted = TRUE]
       ELSE task[id][w]]]

\* The diff: forget the vanished requests and abort the tasks on record.
Diff(v) ==
  LET lost == vanished(v)
  IN  /\ latest' = v.slot
      /\ inflight' = inflight \ lost
      /\ active' = [id \in Id |-> IF id \in lost THEN NoHandle ELSE active[id]]
      /\ task' = abort(lost)
      /\ view' = [slot |-> v.slot, todo |-> v.present, open |-> TRUE]
      /\ buried' = [id \in Id |-> IF id \in lost THEN v.slot ELSE buried[id]]

\* A view that is not stale takes the guard; a stale one is dropped.
Apply(v, is_snapshot) ==
  /\ ~view.open
  /\ IF stale(v, is_snapshot) THEN UNCHANGED client ELSE Diff(v)

ApplyNotification ==
  /\ stream # <<>>
  /\ Apply(Head(stream), FALSE)
  /\ stream' = Tail(stream)
  /\ UNCHANGED <<chain, connected, snapshot>>

ApplySnapshot ==
  /\ snapshot.read
  /\ Apply(snapshot, TRUE)
  /\ snapshot' = NoSnapshot
  /\ UNCHANGED <<chain, stream, connected>>

\* Fault: the reservation is not consulted.
reserved_never(id) == FALSE

reserved(id) == id \in inflight

\* The loop over the view's items: an item with a reservation is skipped.
Skip(id) ==
  /\ id \in view.todo
  /\ reserved(id)
  /\ view' = [view EXCEPT !.todo = @ \ {id}]
  /\ UNCHANGED <<chain, stream, connected, snapshot, latest, inflight, active, task, buried>>

\* Reserve, publish the handle, let the task start.
Spawn(id, w) ==
  /\ id \in view.todo
  /\ ~reserved(id)
  /\ task[id][w] = NoTask
  /\ view' = [view EXCEPT !.todo = @ \ {id}]
  /\ inflight' = inflight \union {id}
  /\ active' = [active EXCEPT ![id] = w]
  /\ task' = [task EXCEPT ![id][w] = [pc |-> "loop", aborted |-> FALSE]]
  /\ UNCHANGED <<chain, stream, connected, snapshot, latest, buried>>

EndView ==
  /\ view.open /\ view.todo = {}
  /\ view' = NoView
  /\ UNCHANGED <<chain, stream, connected, snapshot, latest, inflight, active, task, buried>>

-----------------------------------------------------------------------------
\* A task's run and its end. An aborted task stops at its next await; until then it
\* may run on, through uncontended locks as far as its end.

Step(id, w, from, to) ==
  /\ task[id][w].pc = from
  /\ task' = [task EXCEPT ![id][w] = IF to = "none" THEN NoTask ELSE [@ EXCEPT !.pc = to]]

\* The first attempt: the task has waited for the slot after the request's, or goes
\* ahead of it, and sends a transaction. The attempts that follow send more of the
\* same (FulfillTask).
SendAttempt(id, w) ==
  /\ Step(id, w, "loop", "sent")
  /\ UNCHANGED <<chain, stream, connected, snapshot, latest, view, inflight, active, buried>>

\* The loop ends, after one attempt at least: RandomnessRequestNotFound, or the
\* attempts are used up.
StopTask(id, w) ==
  /\ Step(id, w, "sent", "stopped")
  /\ UNCHANGED <<chain, stream, connected, snapshot, latest, view, inflight, active, buried>>

\* Fault: the handle of a task that ended by itself stays.
CleanActive_kept(id, w) ==
  /\ Step(id, w, "stopped", "inactive")
  /\ UNCHANGED <<chain, stream, connected, snapshot, latest, view, inflight, active,
                 buried>>

\* First block: active_tasks.
CleanActive(id, w) ==
  /\ Step(id, w, "stopped", "inactive")
  /\ active' = [active EXCEPT ![id] = NoHandle]
  /\ UNCHANGED <<chain, stream, connected, snapshot, latest, view, inflight, buried>>

\* Fault: the last step of a task forgets the reservation.
CleanInflight_kept(id, w) ==
  /\ Step(id, w, "inactive", "none")
  /\ UNCHANGED <<chain, stream, connected, snapshot, latest, view, inflight, active, buried>>

\* Second block: inflight_requests.
CleanInflight(id, w) ==
  /\ Step(id, w, "inactive", "none")
  /\ inflight' = inflight \ {id}
  /\ UNCHANGED <<chain, stream, connected, snapshot, latest, view, active, buried>>

Die(id, w) ==
  /\ task[id][w].aborted
  /\ task' = [task EXCEPT ![id][w] = NoTask]
  /\ UNCHANGED <<chain, stream, connected, snapshot, latest, view, inflight, active, buried>>

TaskStep(id, w) ==
  \/ SendAttempt(id, w) \/ StopTask(id, w)
  \/ CleanActive(id, w) \/ CleanInflight(id, w)
  \/ Die(id, w)

-----------------------------------------------------------------------------
Init ==
  /\ slot = 1 /\ pending = {} /\ gone = {}
  /\ stream = <<>> /\ connected = FALSE
  /\ snapshot = NoSnapshot
  /\ latest = 0 /\ view = NoView
  /\ inflight = {}
  /\ active = [id \in Id |-> NoHandle]
  /\ task = [id \in Id |-> [w \in Worker |-> NoTask]]
  /\ buried = [id \in Id |-> 0]

\* Everything but the passing of slots.
Work ==
  \/ \E id \in Id : RequestRandomness(id)
  \/ \E lost \in SUBSET pending : Remove(lost)
  \/ Disconnect \/ Reconnect
  \/ ReadSnapshot \/ LoseSnapshot
  \/ ApplyNotification \/ ApplySnapshot
  \/ \E id \in Id : Skip(id)
  \/ \E id \in Id, w \in Worker : Spawn(id, w)
  \/ EndView
  \/ \E id \in Id, w \in Worker : TaskStep(id, w)

Next == NextSlot \/ Work

Spec == Init /\ [][Next]_vars

-----------------------------------------------------------------------------
Request == [id : Id, slot : Nat]

View == [slot : Nat, present : SUBSET Id]

Task == [pc : {"loop", "sent", "stopped", "inactive"}, aborted : BOOLEAN] \union {NoTask}

TypeOK ==
  /\ slot \in Nat
  /\ pending \subseteq Request /\ gone \subseteq Request
  /\ stream \in Seq(View) /\ connected \in BOOLEAN
  /\ snapshot \in [slot : Nat, present : SUBSET Id, read : BOOLEAN]
  /\ latest \in Nat
  /\ view \in [slot : Nat, todo : SUBSET Id, open : BOOLEAN]
  /\ inflight \subseteq Id
  /\ active \in [Id -> Worker \union {NoHandle}]
  /\ task \in [Id -> [Worker -> Task]]
  /\ buried \in [Id -> Nat]

\* "a stale snapshot cannot cancel a live fulfillment task" (processor.rs:226):
\* whatever the order in which views arrive, only the tasks of requests that
\* have left the queue are aborted.
OnlyGoneAborted ==
  \A id \in Id, w \in Worker : task[id][w].aborted => id \in Gone

\* A pending request is never forgotten and never served twice at a time: it is
\* reserved exactly while one task lives, which can still release it, and
\* until that task cleans up the map holds its handle.
PendingTracked ==
  \A id \in Pending :
    LET alive == {w \in Worker : task[id][w] # NoTask}
    IN  /\ Cardinality(alive) = IF id \in inflight THEN 1 ELSE 0
        /\ \A w \in alive : task[id][w].pc # "inactive" => active[id] = w

\* A request that a view has shown to be gone is taken up again by no view of
\* another slot: the order by latest_view_slots leaves only the notifications
\* of the very slot of that view.
OnlySameSlotResurrects ==
  [][\A id \in inflight' \ inflight : buried[id] # 0 => view.slot = buried[id]]_vars

\* "so a stale view cannot resurrect or cancel requests" (processor.rs:160).
NoResurrection == \A id \in inflight : buried[id] = 0

=============================================================================
