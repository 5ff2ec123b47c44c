--------------------------- MODULE OracleViewsLive ---------------------------
(***************************************************************************)
(* OracleViews without a last slot, and the fairness under which every     *)
(* request is served. The client only compares slots, so slots in use are  *)
(* renumbered in order as time passes; unused ones disappear.              *)
(***************************************************************************)
EXTENDS OracleViews

Rank(s, used) == Cardinality({u \in used : 0 < u /\ u <= s})

\* A slot passes. (No step at all when the current slot is used nowhere.)
PassSlot ==
  LET used == {slot + 1, latest, snapshot.slot, view.slot}
                \union {r.slot : r \in pending \union gone}
                \union {buried[id] : id \in Id}
                \union {stream[i].slot : i \in DOMAIN stream}
      R(s) == Rank(s, used)
  IN  /\ slot' = R(slot + 1)
      /\ latest' = R(latest)
      /\ snapshot' = [snapshot EXCEPT !.slot = R(@)]
      /\ view' = [view EXCEPT !.slot = R(@)]
      /\ pending' = {[r EXCEPT !.slot = R(@)] : r \in pending}
      /\ gone' = {[r EXCEPT !.slot = R(@)] : r \in gone}
      /\ buried' = [id \in Id |-> R(buried[id])]
      /\ stream' = [i \in DOMAIN stream |-> [stream[i] EXCEPT !.slot = R(@)]]
      /\ UNCHANGED <<connected, inflight, active, task>>

LiveNext == PassSlot \/ Work

\* Slots pass. Every view in hand is applied, its items are gone through, and a task
\* that was aborted or has left its loop comes to its end (tokio's scheduler and its
\* fair locks). The periodic scan goes on and succeeds again and again. The client
\* opens its update source again for ever, and it comes up each time it went down.
\* A task gets on only while the source is up: slots reach the tracker through
\* the source alone, and wait_for_slot stays where it is without them. So its attempts
\* need a source that is up again and again, not always too briefly for a slot to
\* be heard; and of the transactions sent again and again one lands.
Fairness ==
  /\ WF_vars(PassSlot)
  /\ WF_vars(Reconnect)
  /\ WF_vars(ApplyNotification) /\ WF_vars(EndView)
  /\ WF_vars(ReadSnapshot) /\ SF_vars(ApplySnapshot)
  /\ \A id \in Id :
       /\ WF_vars(Skip(id))
       /\ WF_vars(\E w \in Worker : Spawn(id, w))
       /\ SF_vars(Land(id))
       /\ \A w \in Worker :
            /\ SF_vars(connected /\ SendAttempt(id, w))
            /\ SF_vars(connected /\ StopTask(id, w))
            /\ WF_vars(CleanActive(id, w) \/ CleanInflight(id, w) \/ Die(id, w))

LiveSpec == Init /\ [][LiveNext]_vars /\ Fairness

\* Every request leaves the queue, although notifications are lost, scans fail
\* and tasks give up: the next view of the queue starts another task.
Served ==
  \A id \in Id : (id \in Pending) ~> (id \in Gone)

\* The client ends up holding nothing for a request that has gone: no task, no
\* handle, no reservation, even one resurrected by a late notification.
Forgotten ==
  \A id \in Id : (id \in Gone) ~>
    [](id \notin inflight /\ active[id] = NoHandle
       /\ \A w \in Worker : task[id][w] = NoTask)

=============================================================================
