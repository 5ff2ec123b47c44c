-------------------------- MODULE OracleViewsProofs ---------------------------
(***************************************************************************)
(* Proofs that the order of views and the dating of requests protect live  *)
(* tasks, for any number of requests, tasks, views and slots.              *)
(***************************************************************************)
EXTENDS OracleViews, FiniteSetTheorems, TLAPS

\* Requests that were made, and the views on their way to the client.
Known == Pending \union Gone
Sent(s) == {s[i] : i \in DOMAIN s}
Seen == Sent(stream) \union IF snapshot.read THEN {snapshot} ELSE {}

\* The view is newer than the request and does not have it.
Lacks(v, id) == id \notin v.present /\ v.slot > enqueued(id)

\* An id is used once.
Once ==
  /\ pending \intersect gone = {}
  /\ \A r, s \in pending \union gone : r.id = s.id => r = s

\* What a view says is true: it is not from the future, what a later view lacks has
\* gone, and no view that lacks a request is older than one that has it.
ViewsTrue ==
  /\ \A id \in Known : enqueued(id) <= slot
  /\ \A v \in Seen : v.slot <= slot /\ v.present \subseteq Known
  /\ \A v \in Seen : \A id \in Known : Lacks(v, id) => id \in Gone
  /\ \A v, u \in Seen : \A id \in Known : Lacks(v, id) /\ id \in u.present => u.slot <= v.slot

\* What the client has made of them: it tracks requests that were made, and one it
\* has buried is gone, in no view newer than the one that buried it.
ClientTrue ==
  /\ inflight \subseteq Known /\ view.todo \subseteq Known
  /\ \A id \in Id \ Known : \A w \in Worker : task[id][w] = NoTask
  /\ view.todo # {} => view.open
  /\ view.open => view.slot = latest
  /\ \A id \in Id : buried[id] # 0 =>
       /\ id \in Gone /\ buried[id] <= latest
       /\ \A u \in Seen : id \in u.present => u.slot <= buried[id]
       /\ id \in view.todo => view.slot <= buried[id]

Inv == TypeOK /\ Once /\ ViewsTrue /\ ClientTrue /\ OnlyGoneAborted

-----------------------------------------------------------------------------
\* Steps of the chain and of the views on their way.

\* A request is made in the current slot, or leaves, or stays as it is.
Evolves ==
  /\ Known \subseteq Known' /\ Gone \subseteq Gone'
  /\ \A id \in Known : enqueued(id)' = enqueued(id)
  /\ \A id \in Known' \ Known : id \in Pending' /\ enqueued(id)' = slot
  /\ Pending' \intersect Known \subseteq Pending
  /\ Pending' \intersect Gone' = {}

\* Views are lost or consumed, or one of the chain as it is now sets out.
ChainStep ==
  /\ Evolves
  /\ slot' >= slot /\ (slot' = slot \/ Known' = Known)
  /\ \A v \in Seen' : v \in Seen \/ (v.slot = slot' /\ v.present = Pending')

\* Ids are those of the type, a request's slot is the one it was made in, and a
\* pending request has not gone.
Dated ==
  /\ Known \subseteq Id /\ \A id \in Known : enqueued(id) \in Nat
  /\ \A r \in pending \union gone : enqueued(r.id) = r.slot
  /\ Pending \intersect Gone = {}

\* Requests whose ids are used once are dated.
LEMMA RequestsDated == TypeOK /\ Once => Dated
<1> SUFFICES ASSUME TypeOK, Once PROVE Dated
  OBVIOUS
<1>1. \A r \in pending \union gone : r.id \in Id /\ r.slot \in Nat
  BY DEF TypeOK, Request
<1>2. ASSUME NEW r \in pending \union gone PROVE enqueued(r.id) = r.slot
  <2>1. \A s \in pending \union gone : s.id = r.id => s = r
    BY DEF Once
  <2> QED  BY <2>1 DEF enqueued
<1> QED  BY <1>1, <1>2 DEF Known, Pending, Gone, Once, Dated

\* They are so in the next state, too.
LEMMA RequestsDatedNext == TypeOK' /\ Once' => Dated'
BY RequestsDated, PTL

\* While no request comes or goes, all that is known of them stays.
LEMMA ChainStill ==
  ASSUME UNCHANGED <<pending, gone>>
  PROVE  /\ Pending' = Pending /\ Gone' = Gone /\ Known' = Known
         /\ (Once <=> Once') /\ \A id : enqueued(id)' = enqueued(id)
BY DEF Pending, Gone, Known, Once, enqueued

\* A request joins (Life!Join): it is new, and pending.
LEMMA JoinEvolves ==
  ASSUME TypeOK, TypeOK', Once, NEW id \in Id, Life!Join([id |-> id, slot |-> slot])
  PROVE  Once' /\ Evolves
<1> DEFINE r == [id |-> id, slot |-> slot]
<1>1. /\ \A other \in pending \union gone : other.id # id
      /\ pending' = pending \union {r} /\ gone' = gone /\ r.id = id /\ r.slot = slot
  BY DEF Life!Join
<1> HIDE DEF r
<1>2. Once'
  BY <1>1 DEF Once
<1>3. Pending' = Pending \union {id} /\ Gone' = Gone /\ id \notin Known
  BY <1>1 DEF Pending, Gone, Known
<1>4. \A o \in pending \union gone : enqueued(o.id) = o.slot
  BY RequestsDated DEF Dated
<1>5. \A o \in pending' \union gone' : enqueued(o.id)' = o.slot
  BY <1>2, RequestsDatedNext DEF Dated
<1>6. enqueued(id)' = slot
  BY <1>1, <1>5
<1>7. \A i \in Known : enqueued(i)' = enqueued(i)
  BY <1>1, <1>4, <1>5 DEF Known, Pending, Gone
<1>8. Pending \intersect Gone = {}
  BY RequestsDated DEF Dated
<1> QED  BY <1>2, <1>3, <1>6, <1>7, <1>8 DEF Evolves, Known

\* Requests leave (Life!Leave): they were pending, and are gone.
LEMMA LeaveEvolves ==
  ASSUME TypeOK, TypeOK', Once, NEW lost, Life!Leave(lost)
  PROVE  Once' /\ Evolves
<1>1. lost \subseteq pending /\ pending' = pending \ lost /\ gone' = gone \union lost
  BY DEF Life!Leave
<1>2. Once'
  BY <1>1 DEF Once
<1>3. \A o \in pending \union gone : enqueued(o.id) = o.slot
  BY RequestsDated DEF Dated
<1>4. \A o \in pending' \union gone' : enqueued(o.id)' = o.slot
  BY <1>2, RequestsDatedNext DEF Dated
<1>5. Known' = Known /\ Gone \subseteq Gone' /\ Pending' \subseteq Pending
  BY <1>1 DEF Known, Pending, Gone
<1>6. \A i \in Known : enqueued(i)' = enqueued(i)
  BY <1>1, <1>3, <1>4 DEF Known, Pending, Gone
<1>7. (Pending \intersect Gone = {})'
  BY <1>2, RequestsDatedNext DEF Dated
<1> QED  BY <1>2, <1>5, <1>6, <1>7 DEF Evolves

\* The elements of a sequence that grows or shrinks (notify, ApplyNotification).
LEMMA SentSeq ==
  ASSUME NEW S, NEW s \in Seq(S)
  PROVE  /\ \A e \in S : Sent(Append(s, e)) = Sent(s) \union {e}
         /\ s # <<>> => Head(s) \in Sent(s) /\ Sent(Tail(s)) \subseteq Sent(s)
         /\ Sent(<<>>) = {}
<1>1. ASSUME NEW e \in S PROVE Sent(Append(s, e)) = Sent(s) \union {e}
  <2>1. DOMAIN Append(s, e) = 1 .. Len(s) + 1 /\ DOMAIN s = 1 .. Len(s) /\ Len(s) \in Nat
    OBVIOUS
  <2>2. Append(s, e)[Len(s) + 1] = e /\ \A i \in 1 .. Len(s) : Append(s, e)[i] = s[i]
    OBVIOUS
  <2> QED  BY <2>1, <2>2 DEF Sent
<1>2. ASSUME s # <<>> PROVE Head(s) \in Sent(s) /\ Sent(Tail(s)) \subseteq Sent(s)
  <2>1. Len(s) \in Nat \ {0} /\ DOMAIN s = 1 .. Len(s) /\ Head(s) = s[1]
    BY <1>2
  <2>2. /\ DOMAIN Tail(s) = 1 .. Len(s) - 1
        /\ \A i \in 1 .. Len(s) - 1 : Tail(s)[i] = s[i + 1]
    BY <1>2, <2>1
  <2> QED  BY <2>1, <2>2 DEF Sent
<1>3. Sent(<<>>) = {}
  BY DEF Sent
<1> QED  BY <1>1, <1>2, <1>3

\* Views on their way have a view's type.
LEMMA SeenType ==
  ASSUME TypeOK
  PROVE  \A v \in Seen : v.slot \in Nat /\ v.present \in SUBSET Id
<1>1. \A v \in Sent(stream) : v \in View
  BY DEF TypeOK, Sent
<1> QED  BY <1>1 DEF TypeOK, Seen, View

\* Views of the queue stay true while the chain moves on.
LEMMA ViewsStayTrue ==
  ASSUME TypeOK, TypeOK', Once, Once', ViewsTrue, ChainStep
  PROVE  ViewsTrue'
<1> USE DEF Lacks
<1>0. /\ slot \in Nat /\ slot' \in Nat /\ \A v \in Seen : v.slot \in Nat
      /\ \A id \in Known : enqueued(id) \in Nat
      /\ \A id \in Known' : enqueued(id)' \in Nat
  BY SeenType, RequestsDated, RequestsDatedNext DEF TypeOK, Dated
<1>1. \A id \in Known : id \in Known' /\ enqueued(id)' = enqueued(id)
  BY DEF ChainStep, Evolves
<1>2. ASSUME NEW id \in Known', id \notin Known
      PROVE  enqueued(id)' = slot /\ slot' = slot
  BY <1>2 DEF ChainStep, Evolves
<1>3. \A id \in Known : id \in Gone => id \in Gone'
  BY DEF ChainStep, Evolves
<1>4. \A v \in Seen : v.slot <= slot' /\ v.slot <= slot
  BY <1>0 DEF ViewsTrue, ChainStep
<1>5. \A id \in Known' : enqueued(id)' <= slot'
  BY <1>0, <1>1, <1>2 DEF ViewsTrue, ChainStep
<1>6. ASSUME NEW v \in Seen' PROVE v.slot <= slot' /\ v.present \subseteq Known'
  <2>1. CASE v \in Seen
    BY <1>1, <1>4, <2>1 DEF ViewsTrue
  <2>2. CASE v.slot = slot' /\ v.present = Pending'
    BY <1>0, <2>2 DEF Known
  <2> QED  BY <2>1, <2>2 DEF ChainStep
<1>7. ASSUME NEW v \in Seen', NEW id \in Known', Lacks(v, id)'
      PROVE  id \in Gone'
  <2>1. CASE v \in Seen
    <3>1. id \in Known
      BY <1>0, <1>2, <1>4, <1>7, <2>1
    <3> QED  BY <3>1, <1>1, <1>3, <1>7, <2>1 DEF ViewsTrue
  <2>2. CASE v \notin Seen
    BY <1>7, <2>2 DEF ChainStep, Known
  <2> QED  BY <2>1, <2>2
<1>8. ASSUME NEW v \in Seen', NEW u \in Seen', NEW id \in Known',
             Lacks(v, id)', id \in u.present
      PROVE  u.slot <= v.slot
  <2>1. CASE v \in Seen /\ u \in Seen
    <3>1. id \in Known
      BY <1>0, <1>2, <1>4, <1>8, <2>1
    <3> QED  BY <3>1, <1>1, <1>8, <2>1 DEF ViewsTrue
  <2>2. CASE v \notin Seen
    BY <1>6, <1>8, <2>2 DEF ChainStep
  <2>3. CASE u \notin Seen
    <3>1. id \in Pending'
      BY <1>8, <2>3 DEF ChainStep
    <3> QED  BY <1>7, <1>8, <3>1 DEF ChainStep, Evolves
  <2> QED  BY <2>1, <2>2, <2>3
<1> HIDE DEF Lacks
<1> QED  BY <1>5, <1>6, <1>7, <1>8 DEF ViewsTrue

\* A step of the chain leaves what the client made of the views true.
LEMMA ClientStaysTrue ==
  ASSUME Inv, TypeOK', ChainStep, UNCHANGED client
  PROVE  ClientTrue' /\ OnlyGoneAborted'
<1> USE DEF Inv, TypeOK, client
<1>1. Gone \subseteq Gone'
  BY DEF ChainStep, Evolves
<1>2. Known \subseteq Known'
  BY DEF ChainStep, Evolves
<1>3. OnlyGoneAborted'
  BY <1>1 DEF OnlyGoneAborted
<1>4. ASSUME NEW id \in Id, buried'[id] # 0, NEW u \in Seen', id \in u.present
      PROVE  u.slot <= buried'[id]
  <2>1. id \in Gone'
    BY <1>1, <1>4 DEF ClientTrue
  <2>2. u \in Seen
    BY <1>4, <2>1 DEF ChainStep, Evolves
  <2> QED  BY <1>4, <2>2 DEF ClientTrue
<1>5. ClientTrue'
  BY <1>1, <1>2, <1>4 DEF ClientTrue
<1> QED  BY <1>3, <1>5

-----------------------------------------------------------------------------
\* Steps of the client: the chain and the views on their way do not move.

Still == UNCHANGED <<chain, Seen>>

\* The tracked requests that a view lacks have gone (vanished).
LEMMA VanishedGone ==
  ASSUME Inv, NEW v \in Seen
  PROVE  \A id \in vanished(v) : id \in Known /\ Lacks(v, id) /\ id \in Gone
BY DEF Inv, vanished, Lacks, ViewsTrue, ClientTrue

\* Applying a view that is not older than the last one (Diff): what it lacks of the
\* tracked requests has gone.
LEMMA DiffKeeps ==
  ASSUME Inv, TypeOK', UNCHANGED chain, Seen' \subseteq Seen,
         NEW v \in Seen, v.slot >= latest, Diff(v)
  PROVE  ClientTrue' /\ OnlyGoneAborted'
<1> USE DEF Inv, chain
<1>0. v.slot \in Nat /\ latest \in Nat /\ Gone' = Gone
  BY SeenType, ChainStill DEF TypeOK
<1>1. Known' = Known /\ v.present \subseteq Known
  BY ChainStill DEF ViewsTrue
<1>2. \A id \in vanished(v) : id \in Known /\ Lacks(v, id) /\ id \in Gone
  BY VanishedGone
<1>3. \A id \in Id, w \in Worker : task'[id][w].aborted => id \in Gone'
  <2> SUFFICES ASSUME NEW id \in Id, NEW w \in Worker, task'[id][w].aborted
               PROVE  id \in Gone
    BY <1>0
  <2>1. CASE id \in vanished(v)
    BY <1>2, <2>1
  <2>2. CASE id \notin vanished(v)
    <3>1. task'[id][w] = task[id][w]
      BY <2>2 DEF Diff, abort
    <3> QED  BY <3>1 DEF OnlyGoneAborted
  <2> QED  BY <2>1, <2>2
<1>4. ASSUME NEW id \in Id \ Known, NEW w \in Worker PROVE task'[id][w] = NoTask
  <2>1. id \notin vanished(v)
    BY <1>2
  <2>2. task'[id][w] = task[id][w]
    BY <2>1 DEF Diff, abort
  <2> QED  BY <2>2 DEF ClientTrue
<1>5. ASSUME NEW id \in Id, buried'[id] # 0
      PROVE  /\ id \in Gone' /\ buried'[id] <= latest'
             /\ \A u \in Seen' : id \in u.present => u.slot <= buried'[id]
             /\ id \in view'.todo => view'.slot <= buried'[id]
  <2>1. CASE id \in vanished(v)
    <3>1. buried'[id] = v.slot /\ latest' = v.slot /\ view'.todo = v.present
      BY <2>1 DEF Diff
    <3>2. \A u \in Seen : id \in u.present => u.slot <= v.slot
      BY <1>2, <2>1 DEF ViewsTrue
    <3>3. id \notin v.present
      BY <2>1 DEF vanished
    <3> QED  BY <1>0, <1>2, <2>1, <3>1, <3>2, <3>3
  <2>2. CASE id \notin vanished(v)
    <3>1. /\ buried'[id] = buried[id] /\ latest' = v.slot
          /\ view'.todo = v.present /\ view'.slot = v.slot
      BY <2>2 DEF Diff
    <3>2. buried[id] \in Nat
      BY DEF TypeOK
    <3> QED  BY <1>0, <1>5, <3>1, <3>2 DEF ClientTrue
  <2> QED  BY <2>1, <2>2
<1>6. /\ inflight' \subseteq Known' /\ view'.todo \subseteq Known'
      /\ view'.open /\ view'.slot = latest'
  BY <1>1 DEF Diff, ClientTrue
<1> QED  BY <1>1, <1>3, <1>4, <1>5, <1>6 DEF ClientTrue, OnlyGoneAborted

\* Working through a view (Skip, Spawn, EndView): no task is aborted.
LEMMA LoopKeeps ==
  ASSUME Inv, TypeOK', Still, UNCHANGED <<latest, buried>>,
         \/ \E id \in Id : Skip(id)
         \/ \E id \in Id, w \in Worker : Spawn(id, w)
         \/ EndView
  PROVE  ClientTrue' /\ OnlyGoneAborted'
<1> USE DEF Inv, Still, chain
<1>1. Known' = Known /\ Gone' = Gone
  BY ChainStill
<1>2. /\ view'.todo \subseteq view.todo
      /\ view'.todo # {} => view'.open /\ view'.slot = view.slot
      /\ view'.open => view.open /\ view'.slot = view.slot
  BY DEF Skip, Spawn, EndView, NoView, TypeOK, ClientTrue
<1>3. inflight' \subseteq Known
  BY DEF Skip, Spawn, EndView, ClientTrue
<1>4. ASSUME NEW id \in Id, NEW w \in Worker
      PROVE  \/ task'[id][w] = task[id][w]
             \/ ~task'[id][w].aborted /\ id \in Known
  <2>1. CASE task' = task
    BY <2>1
  <2>2. ASSUME NEW i \in Id, NEW x \in Worker, Spawn(i, x)
        PROVE  \/ task'[id][w] = task[id][w]
               \/ ~task'[id][w].aborted /\ id \in Known
    <3>1. i \in Known
      BY <2>2 DEF Spawn, ClientTrue
    <3>2. /\ task[i] \in [Worker -> Task] /\ task \in [Id -> [Worker -> Task]]
          /\ task' = [task EXCEPT ![i][x] = [pc |-> "loop", aborted |-> FALSE]]
      BY <2>2 DEF Spawn, TypeOK
    <3> QED  BY <3>1, <3>2
  <2> QED  BY <2>1, <2>2 DEF Skip, EndView
<1>5. OnlyGoneAborted'
  BY <1>1, <1>4 DEF OnlyGoneAborted
<1>6. ClientTrue'
  BY <1>1, <1>2, <1>3, <1>4 DEF ClientTrue
<1> QED  BY <1>5, <1>6

\* The end of a task (TaskStep): no task is aborted and none starts.
LEMMA TaskKeeps ==
  ASSUME Inv, TypeOK', Still, NEW i \in Id, NEW x \in Worker, TaskStep(i, x)
  PROVE  ClientTrue' /\ OnlyGoneAborted'
<1> USE DEF Inv, Still, chain
<1>1. Known' = Known /\ Gone' = Gone
  BY ChainStill
<1>2. UNCHANGED <<latest, view, buried>> /\ inflight' \subseteq inflight
  BY DEF TaskStep, SendAttempt, StopTask, CleanActive, CleanInflight, Die
<1>3. ASSUME NEW id \in Id, NEW w \in Worker
      PROVE  /\ task'[id][w].aborted => task[id][w].aborted
             /\ task[id][w] = NoTask => task'[id][w] = NoTask
  <2>0. task \in [Id -> [Worker -> Task]]
    BY DEF TypeOK
  <2>1. PICK new : /\ task' = [task EXCEPT ![i][x] = new]
                   /\ new = NoTask \/ new.aborted = task[i][x].aborted
                   /\ task[i][x] # NoTask
    <3>1. ASSUME NEW from \in {"loop", "sent", "stopped", "inactive"}, NEW to, Step(i, x, from, to)
          PROVE  LET new == IF to = "none" THEN NoTask ELSE [task[i][x] EXCEPT !.pc = to]
                 IN  /\ task' = [task EXCEPT ![i][x] = new]
                     /\ new = NoTask \/ new.aborted = task[i][x].aborted
                     /\ task[i][x] # NoTask
      <4>1. task[i][x] \in Task /\ task[i][x].pc # "none"
        BY <2>0, <3>1 DEF Step
      <4>2. \A to2 : [task[i][x] EXCEPT !.pc = to2].aborted = task[i][x].aborted
        BY <4>1 DEF Task, NoTask
      <4>3. task[i][x] # NoTask
        BY <4>1 DEF NoTask
      <4> QED  BY <3>1, <4>2, <4>3 DEF Step
    <3>2. CASE Die(i, x)
      <4>1. task[i][x] # NoTask
        BY <3>2 DEF Die, NoTask
      <4> QED  BY <3>2, <4>1, Zenon DEF Die
    <3> QED  BY <3>1, <3>2, Zenon DEF TaskStep, SendAttempt, StopTask, CleanActive, CleanInflight
  <2> QED  BY <2>0, <2>1 DEF NoTask
<1>4. OnlyGoneAborted'
  BY <1>1, <1>3 DEF OnlyGoneAborted
<1>5. ClientTrue'
  BY <1>1, <1>2, <1>3 DEF ClientTrue
<1> QED  BY <1>4, <1>5

-----------------------------------------------------------------------------
\* The type invariant: what is sent, applied and cleaned up is well typed. A handle on
\* record is that of a task that lives and is not aborted.

HandlesLive ==
  \A id \in Id, w \in Worker : active[id] = w =>
    task[id][w].pc \in {"loop", "sent", "stopped"} /\ ~task[id][w].aborted

TypeInv == TypeOK /\ HandlesLive

\* A notification keeps the types.
LEMMA NotifyType ==
  ASSUME TypeOK, Pending' \in SUBSET Id, notify
  PROVE  stream' \in Seq(View)
<1>1. [slot |-> slot, present |-> Pending'] \in View
  BY DEF TypeOK, View
<1>2. stream \in Seq(View)
  BY DEF TypeOK
<1> QED  BY <1>1, <1>2 DEF notify

\* The difference of two views keeps the types.
LEMMA DiffType ==
  ASSUME TypeInv, NEW v, v.slot \in Nat, v.present \in SUBSET Id, Diff(v),
         UNCHANGED <<chain, connected>>, stream' \in Seq(View),
         snapshot' \in [slot : Nat, present : SUBSET Id, read : BOOLEAN]
  PROVE  TypeInv'
<1>1. task \in [Id -> [Worker -> Task]] /\ active \in [Id -> Worker \union {NoHandle}]
  BY DEF TypeInv, TypeOK
<1>2. ASSUME NEW id \in Id, NEW w \in Worker
      PROVE  /\ task'[id][w] \in Task
             /\ active'[id] = w => task'[id][w] = task[id][w] /\ active[id] = w
  <2>1. CASE id \in vanished(v) /\ active[id] = w
    <3>1. task[id][w] \in [pc : {"loop", "sent", "stopped", "inactive"}, aborted : BOOLEAN]
      BY <1>1, <2>1 DEF TypeInv, HandlesLive, Task, NoTask
    <3>2. task'[id][w] = [task[id][w] EXCEPT !.aborted = TRUE] /\ active'[id] = NoHandle
      BY <2>1 DEF Diff, abort
    <3> QED  BY <3>1, <3>2, ViewsAssumption, Zenon DEF Task
  <2>2. CASE ~(id \in vanished(v) /\ active[id] = w)
    <3>1. task'[id][w] = task[id][w]
      BY <2>2 DEF Diff, abort
    <3>2. active'[id] = w => active[id] = w
      BY ViewsAssumption DEF Diff
    <3> QED  BY <1>1, <3>1, <3>2
  <2> QED  BY <2>1, <2>2
<1>3. HandlesLive'
  BY <1>2 DEF TypeInv, HandlesLive
<1>4. task' \in [Id -> [Worker -> Task]]
  BY <1>2 DEF Diff, abort
<1>5. active' \in [Id -> Worker \union {NoHandle}]
  BY <1>1 DEF Diff
<1>6. buried' \in [Id -> Nat]
  BY DEF Diff, TypeInv, TypeOK
<1>7. /\ view' \in [slot : Nat, todo : SUBSET Id, open : BOOLEAN]
      /\ latest' \in Nat /\ inflight' \subseteq Id
  BY DEF Diff, TypeInv, TypeOK
<1> QED  BY <1>3, <1>4, <1>5, <1>6, <1>7 DEF TypeInv, TypeOK, chain

\* Spawning tasks keeps the types.
LEMMA SpawnType ==
  ASSUME TypeInv, NEW i \in Id, NEW x \in Worker, Spawn(i, x)
  PROVE  TypeInv'
<1> DEFINE new == [pc |-> "loop", aborted |-> FALSE]
<1>1. /\ task \in [Id -> [Worker -> Task]] /\ active \in [Id -> Worker \union {NoHandle}]
      /\ task' = [task EXCEPT ![i][x] = new] /\ active' = [active EXCEPT ![i] = x]
  BY DEF TypeInv, TypeOK, Spawn
<1>2. new \in Task
  BY DEF Task
<1>3. HandlesLive'
  <2> SUFFICES ASSUME NEW id \in Id, NEW w \in Worker, active'[id] = w
               PROVE  task'[id][w].pc \in {"loop", "sent", "stopped"} /\ ~task'[id][w].aborted
    BY DEF HandlesLive
  <2>1. CASE id = i
    BY <1>1, <2>1
  <2>2. CASE id # i
    BY <1>1, <2>2 DEF TypeInv, HandlesLive
  <2> QED  BY <2>1, <2>2
<1>4. task' \in [Id -> [Worker -> Task]] /\ active' \in [Id -> Worker \union {NoHandle}]
  <2> HIDE DEF new
  <2> QED  BY <1>1, <1>2
<1>5. view' \in [slot : Nat, todo : SUBSET Id, open : BOOLEAN]
  BY Zenon DEF TypeInv, TypeOK, Spawn
<1> QED  BY <1>3, <1>4, <1>5 DEF TypeInv, TypeOK, Spawn, chain

\* A step of a task keeps the types.
LEMMA TaskType ==
  ASSUME TypeInv, NEW i \in Id, NEW x \in Worker, TaskStep(i, x)
  PROVE  TypeInv'
<1>1. task \in [Id -> [Worker -> Task]] /\ active \in [Id -> Worker \union {NoHandle}]
  BY DEF TypeInv, TypeOK
<1>2. PICK new \in Task :
        /\ task' = [task EXCEPT ![i][x] = new]
        /\ \/ new.pc \in {"sent", "stopped"} /\ new.aborted = task[i][x].aborted /\ active' = active
           \/ active' = [active EXCEPT ![i] = NoHandle]
           \/ active[i] # x /\ active' = active
  <2>0. task[i][x] \in Task
    BY <1>1
  <2>1. CASE SendAttempt(i, x) \/ StopTask(i, x)
    <3> DEFINE to == IF SendAttempt(i, x) THEN "sent" ELSE "stopped"
    <3>1. /\ task[i][x].pc \in {"loop", "sent"} /\ active' = active
          /\ task' = [task EXCEPT ![i][x] = [@ EXCEPT !.pc = to]]
      BY <2>1 DEF SendAttempt, StopTask, Step
    <3>2. to \in {"sent", "stopped"}
      OBVIOUS
    <3> HIDE DEF to
    <3>3. [task[i][x] EXCEPT !.pc = to] \in Task
      BY <2>0, <3>1, <3>2 DEF Task, NoTask
    <3>4. /\ [task[i][x] EXCEPT !.pc = to].pc = to
          /\ [task[i][x] EXCEPT !.pc = to].aborted = task[i][x].aborted
      BY <2>0 DEF Task, NoTask
    <3> QED  BY <3>1, <3>2, <3>3, <3>4, Zenon
  <2>2. CASE CleanActive(i, x)
    <3>1. [task[i][x] EXCEPT !.pc = "inactive"] \in Task
      BY <2>0, <2>2 DEF CleanActive, Step, Task, NoTask
    <3> QED  BY <2>2, <3>1, Zenon DEF CleanActive, Step
  <2>3. CASE CleanInflight(i, x) \/ Die(i, x)
    <3>1. active[i] # x
      BY <2>3 DEF CleanInflight, Die, Step, TypeInv, HandlesLive
    <3> QED  BY <2>3, <3>1 DEF CleanInflight, Die, Step, Task
  <2> QED  BY <2>1, <2>2, <2>3 DEF TaskStep
<1>3. HandlesLive'
  <2> SUFFICES ASSUME NEW id \in Id, NEW w \in Worker, active'[id] = w
               PROVE  task'[id][w].pc \in {"loop", "sent", "stopped"} /\ ~task'[id][w].aborted
    BY DEF HandlesLive
  <2>1. active[id] = w
    BY <1>1, <1>2, ViewsAssumption
  <2>2. CASE id = i /\ w = x
    BY <1>1, <1>2, <2>1, <2>2, ViewsAssumption DEF TypeInv, HandlesLive
  <2>3. CASE ~(id = i /\ w = x)
    BY <1>1, <1>2, <2>1, <2>3 DEF TypeInv, HandlesLive
  <2> QED  BY <2>2, <2>3
<1>4. task' \in [Id -> [Worker -> Task]] /\ active' \in [Id -> Worker \union {NoHandle}]
  BY <1>1, <1>2
<1> QED
  BY <1>3, <1>4 DEF TypeInv, TypeOK, TaskStep, SendAttempt, StopTask, CleanActive,
                    CleanInflight, Die, chain

\* Every step keeps the types.
LEMMA TypeStep ==
  ASSUME TypeInv, [Next]_vars
  PROVE  TypeInv'
<1> USE DEF TypeInv
<1>1. CASE UNCHANGED vars
  BY <1>1 DEF TypeOK, HandlesLive, vars, chain, client
<1>2. CASE NextSlot
  BY <1>2 DEF TypeOK, HandlesLive, NextSlot, Life!Tick, client
<1>3. CASE \/ \E id \in Id : RequestRandomness(id)
           \/ \E lost \in SUBSET pending : Remove(lost)
  <2>1. pending' \subseteq Request /\ gone' \subseteq Request /\ slot' = slot
    BY <1>3 DEF RequestRandomness, Remove, Life!Join, Life!Leave, TypeOK, Request
  <2>2. Pending' \in SUBSET Id
    BY <2>1 DEF Pending, Request
  <2>3. stream' \in Seq(View)
    BY <1>3, <2>2, NotifyType DEF RequestRandomness, Remove
  <2> QED  BY <1>3, <2>1, <2>3 DEF TypeOK, HandlesLive, RequestRandomness, Remove, client
<1>4. CASE Disconnect \/ Reconnect
  <2>1. stream' \in Seq(View) /\ connected' \in BOOLEAN
    <3>1. stream \in Seq(View) /\ <<>> \in Seq(View)
      BY DEF TypeOK
    <3> QED  BY <1>4, <3>1, Zenon DEF Disconnect, Reconnect
  <2> QED  BY <1>4, <2>1 DEF TypeOK, HandlesLive, Disconnect, Reconnect, chain, client
<1>5. CASE ReadSnapshot \/ LoseSnapshot
  <2>1. snapshot' \in [slot : Nat, present : SUBSET Id, read : BOOLEAN]
    <3>1. slot \in Nat /\ Pending \in SUBSET Id
      BY DEF TypeOK, Pending, Request
    <3>2. [slot |-> slot, present |-> Pending, read |-> TRUE]
            \in [slot : Nat, present : SUBSET Id, read : BOOLEAN]
      BY <3>1
    <3>3. NoSnapshot \in [slot : Nat, present : SUBSET Id, read : BOOLEAN]
      BY DEF NoSnapshot
    <3> QED  BY <1>5, <3>2, <3>3, Zenon DEF ReadSnapshot, LoseSnapshot
  <2> QED  BY <1>5, <2>1 DEF TypeOK, HandlesLive, ReadSnapshot, LoseSnapshot, chain, client
<1>6. CASE ApplyNotification
  <2>1. Head(stream) \in View /\ stream' \in Seq(View)
    BY <1>6 DEF TypeOK, ApplyNotification
  <2>2. Head(stream).slot \in Nat /\ Head(stream).present \in SUBSET Id
    BY <2>1 DEF View
  <2>3. CASE UNCHANGED client
    BY <1>6, <2>1, <2>3 DEF TypeOK, HandlesLive, ApplyNotification, chain, client
  <2>4. CASE Diff(Head(stream))
    BY <1>6, <2>1, <2>2, <2>4, DiffType, SMTT(60) DEF ApplyNotification, TypeOK
  <2> QED  BY <1>6, <2>3, <2>4, Zenon DEF ApplyNotification, Apply
<1>7. CASE ApplySnapshot
  <2>1. snapshot' \in [slot : Nat, present : SUBSET Id, read : BOOLEAN]
    BY <1>7 DEF ApplySnapshot, NoSnapshot
  <2>2. CASE UNCHANGED client
    BY <1>7, <2>1, <2>2 DEF TypeOK, HandlesLive, ApplySnapshot, chain, client
  <2>3. CASE Diff(snapshot)
    BY <1>7, <2>1, <2>3, DiffType, Zenon DEF ApplySnapshot, TypeOK
  <2> QED  BY <1>7, <2>2, <2>3, Zenon DEF ApplySnapshot, Apply
<1>8. CASE (\E id \in Id : Skip(id)) \/ EndView
  <2>1. view' \in [slot : Nat, todo : SUBSET Id, open : BOOLEAN]
    <3>1. view \in [slot : Nat, todo : SUBSET Id, open : BOOLEAN]
      BY DEF TypeOK
    <3>2. NoView \in [slot : Nat, todo : SUBSET Id, open : BOOLEAN]
      BY DEF NoView
    <3>3. \A id \in Id : [view EXCEPT !.todo = @ \ {id}]
                          \in [slot : Nat, todo : SUBSET Id, open : BOOLEAN]
      BY <3>1
    <3> QED  BY <1>8, <3>2, <3>3 DEF Skip, EndView
  <2> QED  BY <1>8, <2>1 DEF TypeOK, HandlesLive, Skip, EndView, chain
<1> QED
  BY <1>1, <1>2, <1>3, <1>4, <1>5, <1>6, <1>7, <1>8, SpawnType, TaskType DEF Next, Work

-----------------------------------------------------------------------------
\* The inductive invariant and the theorems.

IInv == Inv /\ HandlesLive

\* Steps the client takes no part in, and views it drops, are steps of the chain.
LEMMA ChainSteps ==
  ASSUME IInv, UNCHANGED client, [Next]_vars
  PROVE  ChainStep
<1> USE DEF IInv, Inv
<1>0. stream \in Seq(View) /\ slot \in Nat
  BY DEF TypeOK
<1>1. ASSUME UNCHANGED <<pending, gone>>
      PROVE  Evolves /\ Known' = Known /\ Pending' = Pending
  BY <1>1, ChainStill, RequestsDated DEF Evolves, Dated
<1>2. CASE UNCHANGED vars
  BY <1>0, <1>1, <1>2 DEF ChainStep, Seen, vars, chain
<1>3. CASE NextSlot
  BY <1>0, <1>1, <1>3 DEF NextSlot, Life!Tick, ChainStep, Seen
<1>4. CASE \/ \E id \in Id : RequestRandomness(id)
           \/ \E lost \in SUBSET pending : Remove(lost)
  <2>0. TypeOK'
    BY TypeStep DEF TypeInv
  <2>1. Evolves
    BY <1>4, <2>0, JoinEvolves, LeaveEvolves DEF RequestRandomness, Remove
  <2>2. notify /\ slot' = slot /\ snapshot' = snapshot
    BY <1>4 DEF RequestRandomness, Remove, Life!Join, Life!Leave
  <2>3. [slot |-> slot, present |-> Pending'] \in View
    BY <1>0, <2>0 DEF View, Pending, TypeOK, Request
  <2>4. Sent(stream') \subseteq Sent(stream) \union {[slot |-> slot, present |-> Pending']}
    BY <1>0, <2>2, <2>3, SentSeq DEF notify
  <2> QED  BY <1>0, <2>1, <2>2, <2>4 DEF ChainStep, Seen
<1>5. CASE Disconnect \/ Reconnect
  BY <1>0, <1>1, <1>5, SentSeq DEF Disconnect, Reconnect, ChainStep, Seen, chain
<1>6. CASE ReadSnapshot \/ LoseSnapshot
  <2>1. Pending' = Pending
    BY <1>6, ChainStill DEF ReadSnapshot, LoseSnapshot, chain
  <2> QED  BY <1>0, <1>1, <1>6, <2>1
             DEF ReadSnapshot, LoseSnapshot, NoSnapshot, ChainStep, Seen, chain
<1>7. CASE ApplyNotification \/ ApplySnapshot
  <2>1. Sent(stream') \subseteq Sent(stream)
    BY <1>0, <1>7, SentSeq, Zenon DEF ApplyNotification, ApplySnapshot
  <2>2. snapshot' = snapshot \/ ~snapshot'.read
    <3>1. ~NoSnapshot.read
      BY DEF NoSnapshot
    <3> QED  BY <1>7, <3>1, Zenon DEF ApplyNotification, ApplySnapshot
  <2>3. UNCHANGED chain
    BY <1>7, Zenon DEF ApplyNotification, ApplySnapshot
  <2> QED  BY <1>0, <1>1, <2>1, <2>2, <2>3 DEF ChainStep, Seen, chain
<1>8. CASE \/ \E id \in Id : Skip(id)
           \/ \E id \in Id, w \in Worker : Spawn(id, w)
           \/ EndView
           \/ \E id \in Id, w \in Worker : TaskStep(id, w)
  <2>1. UNCHANGED <<chain, stream, snapshot>>
    BY <1>8 DEF Skip, Spawn, EndView, TaskStep, SendAttempt, StopTask, CleanActive,
                CleanInflight, Die
  <2> QED  BY <1>0, <1>1, <2>1 DEF ChainStep, Seen, chain
<1> QED  BY <1>2, <1>3, <1>4, <1>5, <1>6, <1>7, <1>8 DEF Next, Work

\* Every step uses an id once.
LEMMA OnceStep ==
  ASSUME TypeInv, Once, [Next]_vars
  PROVE  Once'
<1>1. TypeOK /\ TypeOK'
  BY TypeStep DEF TypeInv
<1>2. CASE UNCHANGED <<pending, gone>>
  BY <1>2, ChainStill
<1>3. CASE \/ \E id \in Id : RequestRandomness(id)
           \/ \E lost \in SUBSET pending : Remove(lost)
  BY <1>1, <1>3, JoinEvolves, LeaveEvolves DEF RequestRandomness, Remove
<1> QED
  BY <1>2, <1>3, Zenon DEF Next, Work, NextSlot, Life!Tick, Disconnect, Reconnect,
       ReadSnapshot, LoseSnapshot, ApplyNotification, ApplySnapshot, Skip, Spawn, EndView,
       TaskStep, SendAttempt, StopTask, CleanActive, CleanInflight, Die, vars, chain

\* Every step keeps the inductive invariant.
LEMMA IndStep ==
  ASSUME IInv, [Next]_vars
  PROVE  IInv'
<1>1. TypeInv /\ TypeOK /\ Once /\ ViewsTrue
  BY DEF IInv, Inv, TypeInv
<1>2. TypeInv' /\ TypeOK' /\ Once'
  BY <1>1, TypeStep, OnceStep DEF TypeInv
<1>3. CASE UNCHANGED client
  BY <1>1, <1>2, <1>3, ChainSteps, ViewsStayTrue, ClientStaysTrue DEF IInv, Inv, TypeInv
<1>4. ASSUME NEW v \in Seen, v.slot >= latest, Diff(v), UNCHANGED chain, Seen' \subseteq Seen
      PROVE  IInv'
  <2>1. ChainStep
    BY <1>1, <1>4, ChainStill, RequestsDated DEF Dated, ChainStep, Evolves, chain, TypeOK
  <2> QED  BY <1>1, <1>2, <1>4, <2>1, ViewsStayTrue, DiffKeeps DEF IInv, Inv, TypeInv
<1>5. CASE ApplyNotification
  <2>1. /\ Head(stream) \in Sent(stream) /\ Sent(stream') \subseteq Sent(stream)
        /\ UNCHANGED <<chain, snapshot>>
    BY <1>1, <1>5, SentSeq DEF ApplyNotification, TypeOK
  <2>2. Head(stream) \in Seen /\ Seen' \subseteq Seen
    BY <2>1 DEF Seen
  <2>3. Head(stream).slot \in Nat /\ latest \in Nat
    BY <1>1, <2>2, SeenType DEF TypeOK
  <2> QED  BY <1>3, <1>4, <1>5, <2>1, <2>2, <2>3 DEF ApplyNotification, Apply, stale
<1>6. CASE ApplySnapshot
  <2>1. snapshot \in Seen /\ Seen' \subseteq Seen /\ UNCHANGED chain
    BY <1>6 DEF ApplySnapshot, NoSnapshot, Seen
  <2>2. snapshot.slot \in Nat /\ latest \in Nat
    BY <1>1, <2>1, SeenType DEF TypeOK
  <2> QED  BY <1>3, <1>4, <1>6, <2>1, <2>2 DEF ApplySnapshot, Apply, stale
<1>7. ASSUME Still PROVE ViewsTrue'
  BY <1>1, <1>7, ChainStill DEF Still, chain, ViewsTrue, Lacks
<1>8. CASE \/ \E id \in Id : Skip(id)
           \/ \E id \in Id, w \in Worker : Spawn(id, w)
           \/ EndView
  <2>1. Still /\ UNCHANGED <<latest, buried>>
    BY <1>8 DEF Skip, Spawn, EndView, Still, Seen
  <2> QED  BY <1>2, <1>7, <1>8, <2>1, LoopKeeps DEF IInv, Inv, TypeInv
<1>9. ASSUME NEW i \in Id, NEW x \in Worker, TaskStep(i, x) PROVE IInv'
  <2>1. Still
    BY <1>9 DEF TaskStep, SendAttempt, StopTask, CleanActive, CleanInflight, Die, Still, Seen
  <2> QED  BY <1>2, <1>7, <1>9, <2>1, TaskKeeps DEF IInv, Inv, TypeInv
<1>10. CASE \/ NextSlot \/ Disconnect \/ Reconnect \/ ReadSnapshot \/ LoseSnapshot
            \/ \E id \in Id : RequestRandomness(id)
            \/ \E lost \in SUBSET pending : Remove(lost)
            \/ UNCHANGED vars
  BY <1>3, <1>10, Zenon DEF NextSlot, Disconnect, Reconnect, ReadSnapshot, LoseSnapshot,
                     RequestRandomness, Remove, vars
<1> QED  BY <1>5, <1>6, <1>8, <1>9, <1>10 DEF Next, Work

\* The inductive invariant holds initially.
LEMMA InitIInv ==
  ASSUME Init
  PROVE  IInv
<1>1. TypeOK
  <2>1. /\ NoSnapshot \in [slot : Nat, present : SUBSET Id, read : BOOLEAN]
        /\ NoView \in [slot : Nat, todo : SUBSET Id, open : BOOLEAN]
        /\ NoTask \in Task /\ <<>> \in Seq(View) /\ FALSE \in BOOLEAN
    BY DEF NoSnapshot, NoView, Task
  <2>2. 1 \in Nat /\ 0 \in Nat /\ [id \in Id |-> 0] \in [Id -> Nat]
    OBVIOUS
  <2>3. [id \in Id |-> [w \in Worker |-> NoTask]] \in [Id -> [Worker -> Task]]
    BY <2>1
  <2> QED  BY <2>1, <2>2, <2>3, Zenon DEF Init, TypeOK
<1>2. Seen = {} /\ Known = {} /\ Once
  BY DEF Init, NoSnapshot, Seen, Sent, Known, Pending, Gone, Once
<1>3. HandlesLive /\ OnlyGoneAborted
  BY ViewsAssumption DEF Init, HandlesLive, OnlyGoneAborted, NoTask
<1>4. ViewsTrue /\ ClientTrue
  BY <1>2 DEF Init, NoView, ViewsTrue, ClientTrue
<1> QED  BY <1>1, <1>2, <1>3, <1>4 DEF IInv, Inv

\* The inductive invariant, always.
LEMMA AlwaysIInv == Spec => []IInv
BY InitIInv, IndStep, PTL DEF Spec

\* Whatever the order in which notifications and snapshots arrive, a view aborts only
\* the tasks of requests that have left the queue.
THEOREM OnlyGoneAbortedThm == Spec => []OnlyGoneAborted
BY AlwaysIInv, PTL DEF IInv, Inv

-----------------------------------------------------------------------------
\* One task for a tracked pending request, none for one that is not tracked.
One(id) ==
  /\ id \notin inflight => \A w \in Worker : task[id][w] = NoTask
  /\ id \in inflight =>
       \E w \in Worker :
         /\ task[id][w] # NoTask /\ \A x \in Worker \ {w} : task[id][x] = NoTask
         /\ task[id][w].pc # "inactive" => active[id] = w

PendingOne == \A id \in Pending : One(id)

\* Nothing the client keeps on a request changes.
Kept(id) ==
  /\ id \in inflight' <=> id \in inflight
  /\ task'[id] = task[id] /\ active'[id] = active[id]

\* Spawning a task leaves one for a reserved request and none for another.
LEMMA SpawnOne ==
  ASSUME IInv, PendingOne, NEW i \in Id, NEW x \in Worker, Spawn(i, x), NEW id \in Pending
  PROVE  One(id)'
<1>1. /\ task \in [Id -> [Worker -> Task]] /\ active \in [Id -> Worker \union {NoHandle}]
      /\ task' = [task EXCEPT ![i][x] = [pc |-> "loop", aborted |-> FALSE]]
      /\ active' = [active EXCEPT ![i] = x]
      /\ id \in Id /\ inflight' = inflight \union {i} /\ i \notin inflight
  BY RequestsDated DEF Dated, IInv, Inv, TypeOK, Spawn, Known, reserved
<1>2. CASE id = i
  <2>1. \A w \in Worker : task[i][w] = NoTask
    BY <1>1, <1>2 DEF PendingOne, One
  <2>2. task'[i][x] # NoTask /\ active'[i] = x /\ i \in inflight'
    BY <1>1 DEF NoTask
  <2>3. \A w \in Worker \ {x} : task'[i][w] = NoTask
    BY <1>1, <2>1
  <2> QED  BY <1>2, <2>2, <2>3 DEF One
<1>3. CASE id # i
  BY <1>1, <1>3 DEF PendingOne, One
<1> QED  BY <1>2, <1>3

\* A step of a task does, too.
LEMMA TaskStepOne ==
  ASSUME IInv, PendingOne, NEW i \in Id, NEW x \in Worker, TaskStep(i, x), NEW id \in Pending
  PROVE  One(id)'
<1>0. /\ task \in [Id -> [Worker -> Task]] /\ active \in [Id -> Worker \union {NoHandle}]
      /\ id \in Id /\ id \notin Gone
  BY RequestsDated DEF Dated, IInv, Inv, TypeOK, Known
<1>1. CASE id # i
  <2>1. Kept(id)
    BY <1>0, <1>1 DEF Kept, TaskStep, SendAttempt, StopTask, CleanActive, CleanInflight, Die, Step
  <2> QED  BY <2>1 DEF Kept, PendingOne, One
<1>2. CASE id = i
  <2>1. ~Die(i, x)
    BY <1>0, <1>2 DEF Die, IInv, Inv, OnlyGoneAborted
  <2>2. task[i][x] # NoTask /\ task[i][x] \in Task
    BY <1>0, <2>1 DEF TaskStep, SendAttempt, StopTask, CleanActive, CleanInflight, Step, NoTask
  <2>3. /\ i \in inflight /\ \A w \in Worker \ {x} : task[i][w] = NoTask
        /\ task[i][x].pc # "inactive" => active[i] = x
    BY <1>2, <2>2 DEF PendingOne, One
  <2>4. CASE SendAttempt(i, x) \/ StopTask(i, x)
    <3>1. \A to : [task[i][x] EXCEPT !.pc = to].pc = to
      BY <2>2 DEF Task
    <3>2. /\ task'[i][x].pc \in {"sent", "stopped"} /\ active'[i] = x /\ i \in inflight'
          /\ \A w \in Worker \ {x} : task'[i][w] = NoTask
      <4>1. CASE SendAttempt(i, x)
        BY <1>0, <2>3, <3>1, <4>1 DEF SendAttempt, Step
      <4>2. CASE StopTask(i, x)
        BY <1>0, <2>3, <3>1, <4>2 DEF StopTask, Step
      <4> QED  BY <2>4, <4>1, <4>2
    <3> QED  BY <1>2, <3>2 DEF One, NoTask
  <2>5. CASE CleanActive(i, x)
    <3>1. [task[i][x] EXCEPT !.pc = "inactive"].pc = "inactive"
      BY <2>2 DEF Task
    <3>2. /\ task'[i][x].pc = "inactive" /\ i \in inflight'
          /\ \A w \in Worker \ {x} : task'[i][w] = NoTask
      BY <1>0, <2>3, <2>5, <3>1 DEF CleanActive, Step
    <3> QED  BY <1>2, <3>2 DEF One, NoTask
  <2>6. CASE CleanInflight(i, x)
    <3>1. i \notin inflight' /\ \A w \in Worker : task'[i][w] = NoTask
      BY <1>0, <2>3, <2>6 DEF CleanInflight, Step
    <3> QED  BY <1>2, <3>1 DEF One
  <2> QED  BY <2>1, <2>4, <2>5, <2>6 DEF TaskStep
<1> QED  BY <1>1, <1>2

\* Every step does.
LEMMA OneStep ==
  ASSUME IInv, PendingOne, [Next]_vars
  PROVE  PendingOne'
<1> SUFFICES ASSUME NEW id \in Pending' PROVE One(id)'
  BY DEF PendingOne
<1>1. ASSUME id \in Pending, Kept(id) PROVE One(id)'
  BY <1>1 DEF PendingOne, One, Kept
<1>2. CASE UNCHANGED client
  <2>1. Kept(id)
    BY <1>2 DEF Kept, client
  <2>2. CASE id \in Pending
    BY <1>1, <2>1, <2>2
  <2>3. CASE id \notin Pending
    <3>1. id \in Id \ Known
      <4>1. id \notin Known
        BY <1>2, <2>3, ChainSteps DEF ChainStep, Evolves
      <4>2. TypeOK' /\ Once'
        BY IndStep DEF IInv, Inv
      <4>3. id \in Id
        BY <4>2, RequestsDatedNext DEF Known, Dated
      <4> QED  BY <4>1, <4>3
    <3>2. id \notin inflight /\ \A w \in Worker : task[id][w] = NoTask
      BY <3>1 DEF IInv, Inv, ClientTrue
    <3> QED  BY <2>1, <3>2 DEF One, Kept
  <2> QED  BY <2>2, <2>3
<1>3. ASSUME NEW v \in Seen, Diff(v), UNCHANGED chain PROVE One(id)'
  <2>1. id \in Pending /\ id \in Id /\ id \notin Gone
    BY <1>3, ChainStill, RequestsDated DEF Dated, chain, IInv, Inv, Known
  <2>2. id \notin vanished(v)
    BY <2>1, VanishedGone DEF IInv
  <2>3. Kept(id)
    BY <2>1, <2>2 , <1>3 DEF Kept, Diff, abort, IInv, Inv, TypeOK
  <2> QED  BY <1>1, <2>1, <2>3
<1>4. CASE ApplyNotification \/ ApplySnapshot
  <2>1. ApplyNotification => Head(stream) \in Seen
    BY SentSeq DEF ApplyNotification, Seen, IInv, Inv, TypeOK
  <2>2. ApplySnapshot => snapshot \in Seen
    BY DEF ApplySnapshot, Seen
  <2> QED  BY <1>2, <1>3, <1>4, <2>1, <2>2, Zenon DEF ApplyNotification, ApplySnapshot, Apply
<1>5. ASSUME UNCHANGED chain PROVE id \in Pending
  BY <1>5, ChainStill DEF chain
<1>6. CASE (\E i \in Id : Skip(i)) \/ EndView
  <2>1. Kept(id) /\ UNCHANGED chain
    BY <1>6 DEF Kept, Skip, EndView
  <2> QED  BY <1>1, <1>5, <2>1
<1>7. CASE \E i \in Id, w \in Worker : Spawn(i, w)
  BY <1>5, <1>7, SpawnOne, Zenon DEF Spawn
<1>8. CASE \E i \in Id, w \in Worker : TaskStep(i, w)
  BY <1>5, <1>8, TaskStepOne DEF TaskStep, SendAttempt, StopTask, CleanActive,
                                 CleanInflight, Die
<1>9. CASE \/ NextSlot \/ Disconnect \/ Reconnect \/ ReadSnapshot \/ LoseSnapshot
           \/ \E i \in Id : RequestRandomness(i)
           \/ \E lost \in SUBSET pending : Remove(lost)
           \/ UNCHANGED vars
  BY <1>2, <1>9, Zenon DEF NextSlot, Disconnect, Reconnect, ReadSnapshot, LoseSnapshot,
                    RequestRandomness, Remove, vars
<1> QED  BY <1>4, <1>6, <1>7, <1>8, <1>9 DEF Next, Work

\* Then requests and tasks match, and a live task is the active one.
LEMMA OneTracks ==
  ASSUME PendingOne
  PROVE  PendingTracked
<1> SUFFICES ASSUME NEW id \in Pending
             PROVE  LET alive == {w \in Worker : task[id][w] # NoTask}
                    IN  /\ Cardinality(alive) = IF id \in inflight THEN 1 ELSE 0
                        /\ \A w \in alive : task[id][w].pc # "inactive" => active[id] = w
  BY DEF PendingTracked
<1> DEFINE alive == {w \in Worker : task[id][w] # NoTask}
<1>1. CASE id \in inflight
  <2>1. PICK w \in Worker : alive = {w} /\ (task[id][w].pc # "inactive" => active[id] = w)
    BY <1>1 DEF PendingOne, One
  <2> QED  BY <1>1, <2>1, FS_Singleton
<1>2. CASE id \notin inflight
  <2>1. alive = {}
    BY <1>2 DEF PendingOne, One
  <2> QED  BY <1>2, <2>1, FS_EmptySet
<1> QED  BY <1>1, <1>2

\* A pending request is reserved exactly while one task serves it, however tasks end,
\* views arrive and requests come and go.
THEOREM PendingTrackedThm == Spec => []PendingTracked
<1>1. Init => PendingOne
  BY DEF Init, PendingOne, Pending
<1>2. IInv /\ PendingOne /\ [Next]_vars => PendingOne'
  BY OneStep
<1> QED  BY <1>1, <1>2, AlwaysIInv, OneTracks, PTL DEF Spec

\* A request seen to be gone is taken up again only by a notification of the very slot
\* in which it was seen to be gone.
THEOREM OnlySameSlotResurrectsThm == Spec => OnlySameSlotResurrects
<1>1. ASSUME IInv, [Next]_vars
      PROVE  [\A id \in inflight' \ inflight : buried[id] # 0 => view.slot = buried[id]]_vars
  <2> SUFFICES ASSUME NEW id \in inflight' \ inflight, buried[id] # 0
               PROVE  view.slot = buried[id]
    OBVIOUS
  <2>1. id \in view.todo /\ id \in Id
    BY <1>1, Zenon DEF Next, Work, NextSlot, RequestRandomness, Remove, Disconnect, Reconnect,
                ReadSnapshot, LoseSnapshot, ApplyNotification, ApplySnapshot, Apply, Diff,
                Skip, Spawn, EndView, TaskStep, SendAttempt, StopTask, CleanActive,
                CleanInflight, Die, vars, client
  <2>2. view.slot = latest /\ buried[id] <= latest /\ view.slot <= buried[id]
    BY <1>1, <2>1 DEF IInv, Inv, ClientTrue
  <2>3. latest \in Nat /\ buried[id] \in Nat
    BY <1>1, <2>1 DEF IInv, Inv, TypeOK
  <2> QED  BY <2>2, <2>3
<1> QED  BY <1>1, AlwaysIInv, PTL DEF Spec, OnlySameSlotResurrects
=============================================================================
