--------------------------- MODULE DelegationFilter ---------------------------
(***************************************************************************)
(* The scans of ScanFlight with the views they bring. On a rollup the      *)
(* oracle serves only the queues delegated to it: a view, of the stream or *)
(* of a scan, first asks should_process_queue. The node's answer about a   *)
(* queue is cached for good, a failed lookup is not. A queue may be        *)
(* delegated or returned at any time, and the stream and a scan may look   *)
(* the same queue up at once.                                              *)
(***************************************************************************)
EXTENDS ScanFlight

CONSTANT Queue  \* the oracle's queues

\* Who has views: the loop over the stream, and a scan's spawned task per queue.
Stream == "stream"
View == Queue \union {Stream}

VARIABLES
  is_er,      \* whether delegated_queue_statuses is Some
  delegated,  \* on chain: the queues delegated now
  statuses,   \* delegated_queue_statuses: per queue the set of its verdict
  call,       \* per view: where it is in should_process_queue
  applied,    \* history: queues with a processed view
  confirmed   \* history: queues that the node has said are delegated

filter == <<is_er, delegated, statuses, call, applied, confirmed>>

Idle == [pc |-> "idle"]

Finish(v, queue, process) ==
  /\ call' = [call EXCEPT ![v] = Idle]
  /\ applied' = IF process THEN applied \union {queue} ELSE applied

-----------------------------------------------------------------------------
\* initialize_delegated_queue_filter, before any view.
FilterInit ==
  /\ ScanInit
  /\ is_er \in BOOLEAN /\ delegated \in SUBSET Queue
  /\ statuses = [q \in Queue |-> {}] /\ confirmed = {}
  /\ call = [v \in View |-> Idle] /\ applied = {}

\* The owner delegates the queue or takes it back.
Delegate(queue) ==
  /\ delegated' = IF queue \in delegated THEN delegated \ {queue} ELSE delegated \union {queue}
  /\ UNCHANGED <<scan, is_er, statuses, call, applied, confirmed>>

\* fetch_and_process_program_accounts: a response spawns a task per queue.
FetchAccounts ==
  /\ Fetch
  /\ call' = [v \in View |-> IF v \in Queue THEN [pc |-> "spawned", queue |-> v] ELSE call[v]]
  /\ UNCHANGED <<is_er, delegated, statuses, applied, confirmed>>

\* An error, or a response without a slot: the scan is over.
FetchFails == FetchFailed /\ UNCHANGED filter

\* join_all: the lock is held until every task has finished.
JoinAll ==
  /\ \A v \in Queue : call[v] = Idle
  /\ Release /\ UNCHANGED filter

\* The loop over the stream sees its end between two views.
StreamEnds == call[Stream] = Idle /\ Disconnect /\ UNCHANGED filter

\* A view of the queue reaches should_process_queue.
Arrives(v, queue) ==
  \/ v = Stream /\ source = "streaming" /\ call[v] = Idle
  \/ call[v] = [pc |-> "spawned", queue |-> queue]

\* should_process_queue without a lookup: not a rollup, or a cached verdict.
Known(v, queue) ==
  /\ Arrives(v, queue) /\ (is_er => statuses[queue] # {})
  /\ Finish(v, queue, ~is_er \/ TRUE \in statuses[queue])
  /\ UNCHANGED <<scan, is_er, delegated, statuses, confirmed>>

\* The read guard is dropped and the node asked.
Ask(v, queue) ==
  /\ Arrives(v, queue) /\ is_er /\ statuses[queue] = {}
  /\ call' = [call EXCEPT ![v] = [pc |-> "asking", queue |-> queue]]
  /\ UNCHANGED <<scan, is_er, delegated, statuses, applied, confirmed>>

\* getDelegationStatus: the node answers with what holds then.
Told(v) ==
  /\ call[v].pc = "asking"
  /\ LET queue == call[v].queue
         status == queue \in delegated
     IN  /\ call' = [call EXCEPT ![v] = [pc |-> "told", queue |-> queue, is_delegated |-> status]]
         /\ confirmed' = IF status THEN confirmed \union {queue} ELSE confirmed
  /\ UNCHANGED <<scan, is_er, delegated, statuses, applied>>

\* Ok: the verdict is inserted, over another view's if there is one, and followed.
Insert(v) ==
  /\ call[v].pc = "told"
  /\ statuses' = [statuses EXCEPT ![call[v].queue] = {call[v].is_delegated}]
  /\ Finish(v, call[v].queue, call[v].is_delegated)
  /\ UNCHANGED <<scan, is_er, delegated, confirmed>>

\* Fault: a failed lookup lets the view pass.
FailOpen(v) ==
  /\ call[v].pc \in {"asking", "told"} /\ Finish(v, call[v].queue, TRUE)
  /\ UNCHANGED <<scan, is_er, delegated, statuses, confirmed>>

\* Fault: a failed lookup is cached as a refusal.
FailCached(v) ==
  /\ call[v].pc \in {"asking", "told"} /\ Finish(v, call[v].queue, FALSE)
  /\ statuses' = [statuses EXCEPT ![call[v].queue] = {FALSE}]
  /\ UNCHANGED <<scan, is_er, delegated, confirmed>>

\* Err, the request or the answer lost: this view is dropped, nothing is cached.
Fail(v) ==
  /\ call[v].pc \in {"asking", "told"} /\ Finish(v, call[v].queue, FALSE)
  /\ UNCHANGED <<scan, is_er, delegated, statuses, confirmed>>

Lookup(v) ==
  \/ \E queue \in Queue : Known(v, queue) \/ Ask(v, queue)
  \/ Told(v) \/ Insert(v) \/ Fail(v)

FilterNext ==
  \/ /\ \/ Change \/ Connect \/ QueueScan \/ Tick
        \/ PeriodicLock \/ ReconnectLock \/ Dequeue
     /\ UNCHANGED filter
  \/ FetchAccounts \/ FetchFails \/ JoinAll \/ StreamEnds
  \/ \E queue \in Queue : Delegate(queue)
  \/ \E v \in View : Lookup(v)

all == <<scan, filter>>

\* As in ScanFlight; spawned tasks run and lookups end, with a time-out if need be.
\* Neither the scans nor their lookups fail for ever.
FilterSpec ==
  /\ FilterInit /\ [][FilterNext]_all
  /\ SF_all(PeriodicLock /\ UNCHANGED filter) /\ SF_all(ReconnectLock /\ UNCHANGED filter)
  /\ WF_all(QueueScan /\ UNCHANGED filter) /\ WF_all(Dequeue /\ UNCHANGED filter)
  /\ WF_all(FetchAccounts \/ FetchFails) /\ SF_all(FetchAccounts) /\ WF_all(JoinAll)
  /\ \A q \in Queue : WF_all(Lookup(q)) /\ SF_all(Told(q)) /\ SF_all(Insert(q))

-----------------------------------------------------------------------------
\* A rollup's oracle never acts on a queue of which the node has not said that it is
\* delegated, however lookups fail or overtake each other (should_process_queue).
OnlyDelegatedServed == is_er => applied \subseteq confirmed

\* A failed lookup costs a view and not the queue: a queue that is delegated all the
\* time is served by some scan, however many lookups and scans fail first, as long
\* as the interval keeps ticking.
DelegatedServed ==
  \A q \in Queue : []<>(periodic = "waiting") /\ [](q \in delegated) => <>(q \in applied)
=============================================================================
