--------------------------- MODULE VrfRequestProofs ---------------------------
(*****************************************************************************)
(* Proofs about the requests: a queue can pay for all of them, each is       *)
(* resolved once, none is purged before it expires, and together they live   *)
(* as RequestLife says. Then the same with the transaction that sets a queue *)
(* up, which may be taken back.                                              *)
(*****************************************************************************)
EXTENDS QueueSetup, VrfProgramProofs

-----------------------------------------------------------------------------
\* Splitting a finite set splits the count of its members with a property.
LEMMA SplitCount ==
  ASSUME NEW S, NEW T \in SUBSET S, IsFiniteSet(S)
  PROVE  /\ Cardinality(S) \in Nat /\ Cardinality(T) \in Nat
         /\ Cardinality(S \ T) \in Nat
         /\ Cardinality(S) = Cardinality(S \ T) + Cardinality(T)
<1>1. S \cap T = T OBVIOUS
<1>2. IsFiniteSet(T) /\ IsFiniteSet(S \ T) BY FS_Subset
<1>3. /\ Cardinality(S) \in Nat /\ Cardinality(T) \in Nat
      /\ Cardinality(S \ T) \in Nat
  BY <1>2, FS_CardinalityType
<1>4. Cardinality(S \ T) = Cardinality(S) - Cardinality(S \cap T)
  BY FS_Difference
<1> QED BY <1>1, <1>3, <1>4

\* Multiplication distributes over addition.
LEMMA Distribute == \A c, a, b \in Nat : c * (a + b) = c * a + c * b
OBVIOUS

\* The fee of a set of items is the fee of its parts.
LEMMA FeeSplit ==
  ASSUME NEW q, NEW items, NEW gone \in SUBSET items, IsFiniteSet(items)
  PROVE  /\ fee(q, items) \in Nat /\ fee(q, gone) \in Nat
         /\ fee(q, items \ gone) \in Nat
         /\ fee(q, items) = fee(q, items \ gone) + fee(q, gone)
<1>0. IsFiniteSet(gone) /\ IsFiniteSet(items \ gone) BY FS_Subset
<1>1. /\ fee(q, items) \in Nat /\ fee(q, gone) \in Nat
      /\ fee(q, items \ gone) \in Nat
  BY <1>0, FeeNat
<1> DEFINE Hi(S) == {item \in S : item.priority_request}
           Lo(S) == {item \in S : ~item.priority_request}
<1>2. /\ Hi(gone) \in SUBSET Hi(items) /\ Hi(items) \ Hi(gone) = Hi(items \ gone)
      /\ Lo(gone) \in SUBSET Lo(items) /\ Lo(items) \ Lo(gone) = Lo(items \ gone)
      /\ IsFiniteSet(Hi(items)) /\ IsFiniteSet(Lo(items))
  BY FS_Subset
<1> DEFINE h == Cardinality(Hi(items \ gone))
           l == Cardinality(Lo(items \ gone))
           hg == Cardinality(Hi(gone))
           lg == Cardinality(Lo(gone))
<1>3. /\ h \in Nat /\ l \in Nat /\ hg \in Nat /\ lg \in Nat
      /\ Cardinality(Hi(items)) = h + hg /\ Cardinality(Lo(items)) = l + lg
  <2> HIDE DEF Hi, Lo
  <2> QED BY <1>2, SplitCount, Zenon
<1>4. CASE q \in Exempt BY <1>1, <1>4 DEF fee
<1>5. CASE q \notin Exempt
  <2>1. /\ fee(q, items) = VRF_HIGH_PRIORITY_LAMPORTS_COST * (h + hg)
                            + VRF_LAMPORTS_COST * (l + lg)
        /\ fee(q, items \ gone) = VRF_HIGH_PRIORITY_LAMPORTS_COST * h
                                   + VRF_LAMPORTS_COST * l
        /\ fee(q, gone) = VRF_HIGH_PRIORITY_LAMPORTS_COST * hg
                          + VRF_LAMPORTS_COST * lg
    BY <1>3, <1>5 DEF fee
  <2> HIDE DEF h, l, hg, lg
  <2> QED BY <1>1, <1>3, <2>1, ConstantsNat, Distribute
<1> QED BY <1>4, <1>5, <1>1

\* What a request pays is what its removal will pay out.
LEMMA FeeOfOne ==
  ASSUME NEW q, NEW item, item.priority_request \in BOOLEAN
  PROVE  fee(q, {item}) = request_cost(q, item.priority_request)
<1>1. Cardinality({item}) = 1 /\ Cardinality({}) = 0 BY FS_Singleton, FS_EmptySet
<1>2. CASE item.priority_request = TRUE
  <2>1. /\ {x \in {item} : x.priority_request} = {item}
        /\ {x \in {item} : ~x.priority_request} = {}
    BY <1>2
  <2>2. fee(q, {item}) = IF q \in Exempt THEN 0
                         ELSE VRF_HIGH_PRIORITY_LAMPORTS_COST * 1 + VRF_LAMPORTS_COST * 0
    BY <1>1, <2>1, Zenon DEF fee
  <2> QED BY <1>2, <2>2, ConstantsNat DEF request_cost
<1>3. CASE item.priority_request = FALSE
  <2>1. /\ {x \in {item} : x.priority_request} = {}
        /\ {x \in {item} : ~x.priority_request} = {item}
    BY <1>3
  <2>2. fee(q, {item}) = IF q \in Exempt THEN 0
                         ELSE VRF_HIGH_PRIORITY_LAMPORTS_COST * 0 + VRF_LAMPORTS_COST * 1
    BY <1>1, <2>1 DEF fee
  <2> QED BY <1>3, <2>2, ConstantsNat DEF request_cost
<1> QED BY <1>2, <1>3, Zenon

\* No fee is due for an empty queue.
LEMMA FeeOfNone == \A q : fee(q, {}) = 0
<1>1. Cardinality({}) = 0 BY FS_EmptySet
<1>2. /\ {item \in {} : item.priority_request} = {}
      /\ {item \in {} : ~item.priority_request} = {}
  OBVIOUS
<1> QED BY <1>1, <1>2, ConstantsNat DEF fee

\* What Solvent says of one queue.
Covered(q) ==
  queue[q].init => queue[q].lamports >= Rent(queue[q].size) + fee(q, queue[q].items)

\* A settlement pays out what the removed items paid in.
LEMMA SettleCovered ==
  ASSUME TInv, NEW q \in QueueId, Covered(q),
         NEW gone \in SUBSET queue[q].items, NEW outcome, Settle(q, gone, outcome)
  PROVE  Others(q) /\ Covered(q)'
<1> DEFINE items == queue[q].items
<1>1. IsFiniteSet(items) BY DEF TInv, ItemsFinite
<1>2. /\ fee(q, items) \in Nat /\ fee(q, gone) \in Nat
      /\ fee(q, items \ gone) \in Nat
      /\ fee(q, items) = fee(q, items \ gone) + fee(q, gone)
  BY <1>1, FeeSplit, Zenon
<1>3. queue[q].lamports \in Nat /\ Rent(queue[q].size) \in Nat
  BY ConstantsNat DEF TInv, TypeOK, Account, Rent
<1>4. /\ Others(q)
      /\ queue'[q].init = queue[q].init /\ queue'[q].size = queue[q].size
      /\ queue'[q].items = items \ gone
      /\ queue'[q].lamports = queue[q].lamports - fee(q, gone)
  BY SettleEffect, Zenon
<1>5. Covered(q)' <=>
        (queue[q].init =>
           queue[q].lamports - fee(q, gone)
             >= Rent(queue[q].size) + fee(q, items \ gone))
  BY <1>4 DEF Covered, Rent, fee
<1> QED BY <1>2, <1>3, <1>4, <1>5 DEF Covered

\* A request pays in what its removal will pay out.
LEMMA RequestCovered ==
  ASSUME TInv, NEW q \in QueueId, Covered(q), NEW args \in Request,
         NEW pos \in Position, RequestRandomness(q, args, pos)
  PROVE  Others(q) /\ Covered(q)'
<1> DEFINE item == new_item(q, args, pos)
           new == queue[q].items \union {item}
           cost == request_cost(q, args.high)
<1>0. TypeOK BY DEF TInv
<1>1. item.pos = pos /\ item.priority_request = args.high BY DEF new_item
<1>2. args.high \in BOOLEAN BY DEF Request
<1>3. item \notin queue[q].items BY <1>1 DEF RequestRandomness
<1>4. fee(q, {item}) = cost BY <1>1, <1>2, FeeOfOne
<1>5. IsFiniteSet(new) BY FS_AddElement DEF TInv, ItemsFinite
<1>6. new \ {item} = queue[q].items BY <1>3
<1>7. Others(q) BY <1>0, RequestEffect, Zenon
<1>8. queue'[q].items = new BY <1>0, RequestItems
<1>9. /\ queue'[q].init = queue[q].init /\ queue'[q].size = queue[q].size
      /\ queue'[q].lamports = queue[q].lamports + cost
  BY <1>0, RequestEffect, ZenonT(60)
<1>10. queue[q].lamports \in Nat /\ Rent(queue[q].size) \in Nat
  BY <1>0, ConstantsNat DEF TypeOK, Account, Rent
<1> HIDE DEF item, cost
<1>11. /\ fee(q, new) \in Nat /\ cost \in Nat /\ fee(q, queue[q].items) \in Nat
       /\ fee(q, new) = fee(q, queue[q].items) + cost
  <2> HIDE DEF new
  <2>1. {item} \in SUBSET new BY DEF new
  <2> QED BY <1>4, <1>5, <1>6, <2>1, FeeSplit
<1>12. Covered(q)' <=>
         (queue[q].init =>
            queue[q].lamports + cost >= Rent(queue[q].size) + fee(q, new))
  BY <1>8, <1>9 DEF Covered, Rent, fee
<1> QED BY <1>7, <1>10, <1>11, <1>12 DEF Covered

\* Every step of a queue keeps its balance sufficient.
LEMMA NextSolvent ==
  TInv /\ AccountsConsistent /\ Solvent /\ [Next]_vars => Solvent'
<1> SUFFICES ASSUME TInv, AccountsConsistent, Solvent, [Next]_vars PROVE Solvent'
  OBVIOUS
<1>0. TypeOK BY DEF TInv
<1>1. \A p \in QueueId : Covered(p) BY DEF Solvent, Covered
<1>2. SUFFICES \A p \in QueueId : Covered(p)' BY SMTT(60) DEF Solvent, Covered
<1>3. ASSUME NEW q \in QueueId, QueueStep(q) PROVE Others(q) /\ Covered(q)'
  <2>0. /\ queue[q].lamports \in Nat /\ Rent(queue[q].size) \in Nat
        /\ fee(q, queue[q].items) \in Nat
    BY <1>0, ConstantsNat, FeeNat DEF TInv, ItemsFinite, TypeOK, Account, Rent
  <2>1. ASSUME NEW target \in Targets, GrowQueue(q, target)
        PROVE  Others(q) /\ Covered(q)'
    BY <1>0, <2>1, GrowEffect DEF Covered
  <2>2. ASSUME NEW target \in Targets, InitializeOracleQueue(q, target)
        PROVE  Others(q) /\ Covered(q)'
    <3>1. ~queue[q].init BY <2>2 DEF InitializeOracleQueue
    <3>2. queue[q].items = {} BY <3>1 DEF AccountsConsistent
    <3>3. /\ Others(q) /\ queue'[q].items = {} /\ queue'[q].size = target
          /\ queue'[q].lamports >= Rent(target)
      BY <1>0, <2>2, <3>2, InitializeEffect
    <3>4. Covered(q)' <=> (queue'[q].init => queue'[q].lamports >= Rent(target) + fee(q, {}))
      BY <3>3 DEF Covered, Rent, fee
    <3>5. target \in Nat BY ProgramAssumption
    <3> QED BY <3>3, <3>4, <3>5, FeeOfNone, ConstantsNat DEF Rent
  <2>3. ASSUME Others(q), queue'[q].init = queue[q].init,
               queue'[q].size = queue[q].size, queue'[q].items = queue[q].items,
               queue'[q].lamports \in Nat, queue'[q].lamports >= queue[q].lamports
        PROVE  Others(q) /\ Covered(q)'
    <3>1. Covered(q)' <=>
            (queue[q].init =>
               queue'[q].lamports >= Rent(queue[q].size) + fee(q, queue[q].items))
      BY <2>3 DEF Covered, Rent, fee
    <3> QED BY <1>1, <2>0, <2>3, <3>1, SMTT(60) DEF Covered
  <2>4. ASSUME NEW paused \in BOOLEAN, SetQueuePaused(q, paused)
        PROVE  Others(q) /\ Covered(q)'
    BY <1>0, <2>0, <2>3, <2>4, PauseEffect
  <2>5. ASSUME DelegateOracleQueue(q) PROVE Others(q) /\ Covered(q)'
    BY <1>0, <2>0, <2>3, <2>5, DelegateEffect
  <2>6. ASSUME CloseOracleQueue(q) PROVE Others(q) /\ Covered(q)'
    BY <1>0, <2>6, CloseEffect DEF Covered
  <2>7. ASSUME NEW lamports \in Gifts, Gift(q, lamports)
        PROVE  Others(q) /\ Covered(q)'
    <3>1. queue'[q].lamports \in Nat
      BY <1>0, <2>7, ProgramAssumption, SMTT(60) DEF Gift, TypeOK, Account
    <3> QED BY <1>0, <2>3, <2>7, <3>1, GiftEffect
  <2>8. ASSUME NEW item \in queue[q].items, NEW key \in Key,
               ProvideRandomness(q, item, key)
        PROVE  Others(q) /\ Covered(q)'
    BY <1>1, <2>8, SettleCovered DEF ProvideRandomness
  <2>9. ASSUME PurgeExpiredRequests(q) PROVE Others(q) /\ Covered(q)'
    BY <1>1, <2>9, SettleCovered DEF PurgeExpiredRequests
  <2> QED
    BY <1>1, <1>3, <2>1, <2>2, <2>4, <2>5, <2>6, <2>7, <2>8, <2>9, RequestCovered, SMTT(60)
    DEF QueueStep
<1>4. ASSUME NEW p \in QueueId, queue'[p] = queue[p] PROVE Covered(p)'
  BY <1>1, <1>4, Zenon DEF Covered, Rent, fee
<1> QED BY <1>3, <1>4, NextCases DEF Others

\* The balance of an initialised queue covers its rent and every pending fee:
\* transfer_fee in process_provide_randomness and process_purge_expired_requests
\* never lacks funds, however lamports reached the address.
THEOREM SolventThm == Spec => []Solvent
<1>1. Init => Solvent BY DEF Init, Solvent, NoAccount
<1> QED BY <1>1, NextSolvent, TInvAlways, AccountsConsistentThm, PTL DEF Spec

-----------------------------------------------------------------------------
\* What makes ResolvedOnce inductive: a pending request was made no later than
\* now, one of this slot at this very time, and carries the stamp of its time;
\* a position holds one request.
Dated(item) ==
  /\ item.slot <= slot /\ item.time <= time
  /\ item.slot = slot => item.time = time
  /\ item.created_at = created_at_from(item.time)

Placed ==
  \A q \in QueueId :
    /\ \A item \in queue[q].items : Dated(item)
    /\ \A a, b \in queue[q].items : a.pos = b.pos => a = b

History == Placed /\ ResolvedOnce /\ PurgedOnlyWhenExpired

\* The parts of an id.
LEMMA IdParts ==
  \A item \in Item : /\ Id(item)[2] = item.slot /\ Id(item)[3] = item.time
                     /\ Id(item)[4] = item.pos
BY DEF Id, Item

\* A request gets a position no pending request of its queue has.
LEMMA RequestPlaced ==
  ASSUME TInv, Placed, NEW q \in QueueId, NEW args \in Request,
         NEW pos \in Position, RequestRandomness(q, args, pos)
  PROVE  Placed'
<1> PICK item : item = new_item(q, args, pos) OBVIOUS
<1>0. TypeOK BY DEF TInv
<1>1. UNCHANGED <<slot, time>> /\ Others(q)
  BY <1>0, RequestEffect, Zenon DEF RequestRandomness
<1>2. queue'[q].items = queue[q].items \union {item} BY <1>0, RequestItems
<1>3. /\ item.pos = pos /\ item.slot = slot /\ item.time = time
      /\ item.created_at = created_at_from(time)
  BY DEF new_item
<1>4. \A other \in queue[q].items : other.pos # pos BY DEF RequestRandomness
<1>5. Dated(item)' BY <1>0, <1>1, <1>3 DEF Dated, TypeOK
<1>6. \A x : Dated(x) => Dated(x)' BY <1>1 DEF Dated
<1> QED BY <1>1, <1>2, <1>3, <1>4, <1>5, <1>6 DEF Placed, Others

\* A new request's id is none that was ever resolved.
LEMMA RequestHistory ==
  ASSUME TInv, History, NEW q \in QueueId, NEW args \in Request,
         NEW pos \in Position, RequestRandomness(q, args, pos)
  PROVE  History'
<1> DEFINE item == new_item(q, args, pos)
<1>0. TypeOK BY DEF TInv
<1>1. Placed' BY RequestPlaced DEF History
<1>2. UNCHANGED <<slot, time, resolved>> BY DEF RequestRandomness
<1>3. Others(q) BY <1>0, RequestEffect, Zenon
<1>4. queue'[q].items = queue[q].items \union {item} BY <1>0, RequestItems
<1>5. item \in Item /\ item.pos = pos /\ item.slot = slot
  BY <1>0, NewItemType DEF new_item
<1>6. \A p \in QueueId : queue[p].items \subseteq Item BY <1>0 DEF TypeOK, Account
<1> HIDE DEF item
<1>7. \A p \in QueueId : \A a, b \in queue'[p].items : Id(a) = Id(b) => a = b
  <2>1. \A p \in QueueId : queue'[p].items \subseteq Item
    BY <1>3, <1>4, <1>5, <1>6 DEF Others
  <2> QED BY <1>1, <2>1, IdParts DEF Placed
<1>8. \A r \in resolved : Id(item) # r.id
  BY <1>0, <1>5, IdParts DEF History, PurgedOnlyWhenExpired, TypeOK
<1>9. \A r \in resolved : r.queue \in QueueId BY <1>0 DEF TypeOK
<1>10. ResolvedOnce'
  <2>1. \A r \in resolved : \A x \in queue'[r.queue].items : Id(x) # r.id
    BY <1>3, <1>4, <1>8, <1>9 DEF History, ResolvedOnce, Others
  <2> QED BY <1>2, <1>7, <2>1 DEF History, ResolvedOnce, Id
<1>11. PurgedOnlyWhenExpired' BY <1>2 DEF History, PurgedOnlyWhenExpired
<1> QED BY <1>1, <1>10, <1>11 DEF History

\* Items may leave when each one's slot has passed and, if they are purged,
\* its time is up.
LEMMA SettleHistory ==
  ASSUME TInv, History, NEW q \in QueueId, NEW gone \in SUBSET queue[q].items,
         NEW outcome, Settle(q, gone, outcome), UNCHANGED <<slot, time>>,
         \A item \in gone : item.slot < slot,
         outcome = "purged" => \A item \in gone : time - item.time > TTL
  PROVE  History'
<1>0. TypeOK BY DEF TInv
<1>1. Others(q) /\ queue'[q].items = queue[q].items \ gone BY SettleEffect, Zenon
<1>2. \A p \in QueueId : queue'[p].items \subseteq queue[p].items BY <1>1 DEF Others
<1>3. \A p \in QueueId : queue[p].items \subseteq Item BY <1>0 DEF TypeOK, Account
<1>4. Placed'
  <2>1. \A x : Dated(x) => Dated(x)' BY DEF Dated
  <2> QED BY <1>2, <2>1 DEF Placed, History
<1> DEFINE Record(item) == [queue |-> q, id |-> Id(item), outcome |-> outcome]
<1>5. resolved' = resolved \union {Record(item) : item \in gone} BY DEF Settle
<1>6. \A item : /\ Record(item).queue = q /\ Record(item).id = Id(item)
                /\ Record(item).outcome = outcome
  OBVIOUS
<1>7. \A r \in resolved : r.queue \in QueueId BY <1>0 DEF TypeOK
<1> HIDE DEF Record
<1>8. \A a, b \in queue[q].items : Id(a) = Id(b) => a = b
  BY DEF History, ResolvedOnce
<1>9. \A r \in resolved : \A item \in queue[r.queue].items : Id(item) # r.id
  BY DEF History, ResolvedOnce
<1>10. ResolvedOnce'
  <2>1. \A p \in QueueId : \A a, b \in queue'[p].items : Id(a) = Id(b) => a = b
    BY <1>2 DEF History, ResolvedOnce
  <2>2. \A r \in resolved' : \A item \in queue'[r.queue].items : Id(item) # r.id
    <3>1. ASSUME NEW r \in resolved, NEW item \in queue'[r.queue].items
          PROVE  Id(item) # r.id
      BY <1>2, <1>7, <1>9, <3>1
    <3>2. ASSUME NEW x \in gone, NEW item \in queue'[q].items
          PROVE  Id(item) # Id(x)
      BY <1>1, <1>8, <3>2
    <3> QED BY <1>5, <1>6, <3>1, <3>2
  <2>3. \A r, s \in resolved' : (r.queue = s.queue /\ r.id = s.id) => r = s
    <3>1. \A r, s \in resolved : (r.queue = s.queue /\ r.id = s.id) => r = s
      BY DEF History, ResolvedOnce
    <3>2. \A r \in resolved : \A x \in gone : r.queue = q => r.id # Id(x)
      BY <1>9
    <3>3. \A x, y \in gone : Id(x) = Id(y) => Record(x) = Record(y)
      BY <1>8
    <3> QED BY <1>5, <1>6, <3>1, <3>2, <3>3
  <2> QED BY <2>1, <2>2, <2>3 DEF ResolvedOnce, Id
<1>11. PurgedOnlyWhenExpired'
  <2>1. \A x \in gone : Id(x)[2] = x.slot /\ Id(x)[3] = x.time BY <1>3, IdParts
  <2> QED BY <1>5, <1>6, <2>1 DEF History, PurgedOnlyWhenExpired
<1> QED BY <1>4, <1>10, <1>11 DEF History

\* A request whose age is over the TTL was made in an earlier slot, more than
\* the TTL ago.
LEMMA ExpiredIsOld ==
  ASSUME TypeOK, NEW item \in Item, Dated(item), Expired(item.created_at, time)
  PROVE  item.slot < slot /\ time - item.time > TTL
<1>1. item.slot \in Nat /\ item.time \in Nat /\ slot \in Nat /\ time \in Nat
  BY DEF TypeOK, Item
<1>2. time - item.time > TTL BY <1>1, PurgeNeverEarlyThm DEF Dated
<1> QED BY <1>1, <1>2, StampAssumption DEF Dated

\* While time stands still and no items change, nothing of it is disturbed.
LEMMA SameHistory ==
  ASSUME TypeOK, History, SameItems, UNCHANGED <<slot, time, resolved>>
  PROVE  History'
<1>1. \A x : Dated(x)' = Dated(x) BY DEF Dated
<1>2. Placed' BY <1>1 DEF History, Placed, SameItems
<1>3. \A r \in resolved : r.queue \in QueueId BY DEF TypeOK
<1>4. ResolvedOnce' BY <1>3 DEF History, ResolvedOnce, SameItems, Id
<1> QED BY <1>2, <1>4 DEF History, PurgedOnlyWhenExpired

\* Every step keeps the history of requests straight.
LEMMA NextHistory == TInv /\ History /\ [Next]_vars => History'
<1> SUFFICES ASSUME TInv, History, [Next]_vars PROVE History' OBVIOUS
<1>0. TypeOK BY DEF TInv
<1>1. ASSUME SameItems, UNCHANGED <<slot, time, resolved>> PROVE History'
  BY <1>0, <1>1, SameHistory
<1>2. ASSUME NEW q \in QueueId, QueueStep(q) PROVE History'
  <2>0. queue[q].items \subseteq Item /\ \A item \in queue[q].items : Dated(item)
    BY <1>0 DEF TypeOK, Account, History, Placed
  <2>1. ASSUME NEW item \in queue[q].items, NEW key \in Key,
               ProvideRandomness(q, item, key)
        PROVE  History'
    <3>1. /\ Settle(q, {item}, key) /\ UNCHANGED <<slot, time>> /\ item.slot < slot
      BY <1>0, <2>0, <2>1 DEF ProvideRandomness, later_slot, TypeOK, Item
    <3>2. key # "purged" BY ProgramAssumption
    <3> QED BY <2>1, <3>1, <3>2, SettleHistory, SMTT(60)
  <2>2. ASSUME PurgeExpiredRequests(q) PROVE History'
    <3> DEFINE gone == {item \in queue[q].items : Expired(item.created_at, time)}
    <3>1. Settle(q, gone, "purged") /\ UNCHANGED <<slot, time>>
      BY <2>2 DEF PurgeExpiredRequests
    <3>2. \A item \in gone : item.slot < slot /\ time - item.time > TTL
      BY <1>0, <2>0, ExpiredIsOld
    <3>3. gone \in SUBSET queue[q].items OBVIOUS
    <3> HIDE DEF gone
    <3> QED BY <3>1, <3>2, <3>3, SettleHistory
  <2> QED BY <1>1, <1>2, <2>1, <2>2, ItemsChange, RequestHistory
<1>3. ASSUME NEW dt \in TimeSteps, NextSlot(dt) PROVE History'
  <2>1. dt \in Nat BY ProgramAssumption
  <2>2. slot' = slot + 1 /\ time' = time + dt /\ UNCHANGED <<queue, resolved>>
    BY <1>3 DEF NextSlot
  <2>3. ASSUME NEW item \in Item, Dated(item) PROVE Dated(item)'
    BY <1>0, <2>1, <2>2, <2>3 DEF Dated, TypeOK, Item
  <2>4. Placed'
    <3>1. \A q \in QueueId : queue[q].items \subseteq Item BY <1>0 DEF TypeOK, Account
    <3> QED BY <2>2, <2>3, <3>1 DEF History, Placed
  <2>5. ResolvedOnce' BY <2>2 DEF History, ResolvedOnce, Id
  <2>6. PurgedOnlyWhenExpired'
    <3>1. ASSUME NEW r \in resolved
          PROVE  r.id[2] \in Nat /\ r.id[3] \in Nat
      BY <1>0 DEF TypeOK
    <3> QED BY <1>0, <2>1, <2>2, <3>1, StampAssumption
            DEF History, PurgedOnlyWhenExpired, TypeOK
  <2> QED BY <2>4, <2>5, <2>6 DEF History
<1>4. CASE UNCHANGED <<slot, time, queue, resolved>> BY <1>1, <1>4 DEF SameItems
<1> QED
  BY <1>2, <1>3, <1>4
  DEF Next, OracleStep, Initialize, AddOracle, RemoveOracle, vars

\* No request has been made at the start.
LEMMA InitHistory == Init => History
BY DEF Init, History, Placed, ResolvedOnce, PurgedOnlyWhenExpired, NoAccount

\* The history invariant holds in every reachable state.
LEMMA HistoryAlways == Spec => []History
BY InitHistory, NextHistory, TInvAlways, PTL DEF Spec

\* No id is ever resolved twice, or pending again after it was resolved, although
\* positions are reused and seeds repeat: process_provide_randomness refuses the
\* slot of the request and purge_expired_requests cannot act in it.
THEOREM ResolvedOnceThm == Spec => []ResolvedOnce
<1>1. History => ResolvedOnce BY DEF History
<1> QED BY <1>1, HistoryAlways, PTL

\* No request is purged within the TTL or in its own slot, in spite of the
\* rounding and wrap-around of its 16-bit stamp.
THEOREM PurgedOnlyWhenExpiredThm == Spec => []PurgedOnlyWhenExpired
<1>1. History => PurgedOnlyWhenExpired BY DEF History
<1> QED BY <1>1, HistoryAlways, PTL

-----------------------------------------------------------------------------
\* A pending request as RequestLife sees it.
AsRequest(q, item) == [id |-> <<q, Id(item)>>, slot |-> item.slot]

\* The pending requests are those of the queues.
LEMMA PendingOfQueues ==
  /\ \A r \in PendingRequests :
       \E q \in QueueId : \E item \in queue[q].items : r = AsRequest(q, item)
  /\ \A q \in QueueId : \A item \in queue[q].items : AsRequest(q, item) \in PendingRequests
<1> DEFINE Of(q) == {AsRequest(q, item) : item \in queue[q].items}
<1>1. PendingRequests = UNION {Of(q) : q \in QueueId}
  BY DEF PendingRequests, AsRequest
<1> QED BY <1>1

\* A request tells its queue, its id and its slot.
LEMMA AsRequestParts ==
  \A q, p, a, b : /\ AsRequest(q, a).slot = a.slot /\ AsRequest(q, a).id = <<q, Id(a)>>
                  /\ <<q, Id(a)>> = <<p, Id(b)>> => q = p /\ Id(a) = Id(b)
BY DEF AsRequest

\* A new request joins.
LEMMA RequestJoins ==
  ASSUME TInv, History, NEW q \in QueueId, NEW args \in Request,
         NEW pos \in Position, RequestRandomness(q, args, pos)
  PROVE  \E r \in PendingRequests' : Life!Join(r)
<1> PICK item : item = new_item(q, args, pos) OBVIOUS
<1>0. TypeOK BY DEF TInv
<1>1. UNCHANGED <<slot, resolved>> BY DEF RequestRandomness
<1>2. Others(q) BY <1>0, RequestEffect, Zenon
<1>3. queue'[q].items = queue[q].items \union {item} BY <1>0, RequestItems
<1>4. item \in Item /\ item.pos = pos /\ item.slot = slot
  BY <1>0, NewItemType DEF new_item
<1>5. \A other \in queue[q].items : other.pos # pos BY DEF RequestRandomness
<1>6. \A p \in QueueId : queue[p].items \subseteq Item BY <1>0 DEF TypeOK, Account
<1> DEFINE r == AsRequest(q, item)
<1>7. PendingRequests' = PendingRequests \union {r}
  <2>1. \A p \in QueueId \ {q} : queue'[p].items = queue[p].items BY <1>2 DEF Others
  <2> QED BY <1>3, <2>1 DEF PendingRequests, AsRequest, Id
<1>8. r.slot = slot /\ r.id = <<q, Id(item)>> BY <1>4, AsRequestParts
<1>9. \A other \in PendingRequests : other.id # r.id
  <2>1. ASSUME NEW p \in QueueId, NEW other \in queue[p].items PROVE AsRequest(p, other).id # r.id
    <3>1. p = q => Id(other) # Id(item) BY <1>4, <1>5, <1>6, IdParts
    <3> QED BY <1>8, <3>1, AsRequestParts, SMTT(30)
  <2> QED BY <2>1, PendingOfQueues
<1>10. \A other \in ResolvedRequests : other.id # r.id
  <2>1. ASSUME NEW s \in resolved PROVE <<s.queue, s.id>> # r.id
    <3>1. s.id[2] < slot /\ s.id[2] \in Nat /\ slot \in Nat
      BY <1>0 DEF History, PurgedOnlyWhenExpired, TypeOK
    <3>2. Id(item)[2] = slot BY <1>4, IdParts
    <3> QED BY <1>8, <3>1, <3>2
  <2> QED BY <2>1 DEF ResolvedRequests
<1>11. ResolvedRequests' = ResolvedRequests BY <1>1 DEF ResolvedRequests
<1> HIDE DEF r
<1>12. Life!Join(r) BY <1>1, <1>7, <1>8, <1>9, <1>10, <1>11 DEF Life!Join
<1>13. r \in PendingRequests' BY <1>7
<1> QED BY <1>12, <1>13

\* Settled requests leave.
LEMMA SettledLeave ==
  ASSUME TInv, History, NEW q \in QueueId, NEW gone \in SUBSET queue[q].items,
         NEW outcome, Settle(q, gone, outcome), UNCHANGED slot,
         \A item \in gone : item.slot < slot
  PROVE  Life!Leave(PendingRequests \ PendingRequests')
<1>0. TypeOK BY DEF TInv
<1>1. Others(q) /\ queue'[q].items = queue[q].items \ gone BY SettleEffect, Zenon
<1>2. \A p \in QueueId : queue[p].items \subseteq Item BY <1>0 DEF TypeOK, Account
<1> DEFINE left == {AsRequest(q, item) : item \in gone}
<1>3. \A a, b \in queue[q].items : Id(a) = Id(b) => a = b BY DEF History, ResolvedOnce
<1>4. PendingRequests' = PendingRequests \ left
  <2>1. ASSUME NEW r \in PendingRequests' PROVE r \in PendingRequests /\ r \notin left
    <3>1. PICK p \in QueueId : \E item \in queue'[p].items : r = AsRequest(p, item)
      BY <2>1 DEF PendingRequests, AsRequest, Id
    <3>2. PICK item \in queue'[p].items : r = AsRequest(p, item) BY <3>1
    <3>3. item \in queue[p].items BY <1>1 DEF Others
    <3>4. r \in PendingRequests BY <3>2, <3>3, PendingOfQueues
    <3>5. ASSUME NEW x \in gone PROVE r # AsRequest(q, x)
      <4>1. CASE p = q BY <1>1, <1>3, <3>2, <3>3, <4>1, AsRequestParts, SMTT(60)
      <4>2. CASE p # q BY <3>2, <4>2, AsRequestParts, SMTT(30)
      <4> QED BY <4>1, <4>2
    <3> QED BY <3>4, <3>5
  <2>2. ASSUME NEW r \in PendingRequests, r \notin left PROVE r \in PendingRequests'
    <3>1. PICK p \in QueueId : \E item \in queue[p].items : r = AsRequest(p, item)
      BY PendingOfQueues
    <3>2. PICK item \in queue[p].items : r = AsRequest(p, item) BY <3>1
    <3>3. item \in queue'[p].items
      <4>1. CASE p = q BY <1>1, <2>2, <3>2, <4>1
      <4>2. CASE p # q BY <1>1, <4>2 DEF Others
      <4> QED BY <4>1, <4>2
    <3> DEFINE Of(o) == {AsRequest(o, x) : x \in queue'[o].items}
    <3>4. PendingRequests' = UNION {Of(o) : o \in QueueId}
      BY DEF PendingRequests, AsRequest, Id
    <3>5. r \in Of(p) BY <3>2, <3>3
    <3> QED BY <3>4, <3>5
  <2> QED BY <2>1, <2>2
<1>5. left \subseteq PendingRequests BY PendingOfQueues
<1>6. \A r \in left : r.slot < slot BY AsRequestParts
<1>7. ResolvedRequests' = ResolvedRequests \union left
  <2> DEFINE Record(item) == [queue |-> q, id |-> Id(item), outcome |-> outcome]
             Seen(s) == [id |-> <<s.queue, s.id>>, slot |-> s.id[2]]
  <2>1. resolved' = resolved \union {Record(item) : item \in gone} BY DEF Settle
  <2>2. \A item \in gone : Seen(Record(item)) = AsRequest(q, item)
    BY <1>2, IdParts DEF AsRequest
  <2>3. ResolvedRequests = {Seen(s) : s \in resolved} BY DEF ResolvedRequests
  <2>4. ResolvedRequests' = {Seen(s) : s \in resolved'} BY DEF ResolvedRequests
  <2> HIDE DEF Record, Seen
  <2> QED BY <2>1, <2>2, <2>3, <2>4
<1> HIDE DEF left
<1>8. PendingRequests \ PendingRequests' = left BY <1>4, <1>5
<1> QED BY <1>4, <1>5, <1>6, <1>7, <1>8 DEF Life!Leave

\* RequestLife sees only the items, the slot and what was resolved.
LEMMA SameLife == SameItems /\ UNCHANGED <<slot, resolved>> => UNCHANGED Life!vars
BY DEF SameItems, PendingRequests, ResolvedRequests, Life!vars, Id

\* Every step of the program is one of RequestLife or changes nothing it sees.
LEMMA NextLife == TInv /\ History /\ [Next]_vars => [Life!Next]_(Life!vars)
<1> SUFFICES ASSUME TInv, History, [Next]_vars PROVE [Life!Next]_(Life!vars) OBVIOUS
<1>0. TypeOK BY DEF TInv
<1>1. ASSUME SameItems, UNCHANGED <<slot, resolved>> PROVE UNCHANGED Life!vars
  BY <1>1, SameLife
<1>2. ASSUME NEW q \in QueueId, QueueStep(q) PROVE [Life!Next]_(Life!vars)
  <2>0. queue[q].items \subseteq Item /\ \A item \in queue[q].items : Dated(item)
    BY <1>0 DEF TypeOK, Account, History, Placed
  <2>1. ASSUME NEW item \in queue[q].items, NEW key \in Key,
               ProvideRandomness(q, item, key)
        PROVE  Life!Leave(PendingRequests \ PendingRequests')
    <3>1. Settle(q, {item}, key) /\ UNCHANGED slot /\ item.slot < slot
      BY <1>0, <2>0, <2>1 DEF ProvideRandomness, later_slot, TypeOK, Item
    <3>2. {item} \in SUBSET queue[q].items OBVIOUS
    <3>3. \A x \in {item} : x.slot < slot BY <3>1
    <3> QED BY <3>1, <3>2, <3>3, SettledLeave, Zenon
  <2>2. ASSUME PurgeExpiredRequests(q)
        PROVE  Life!Leave(PendingRequests \ PendingRequests')
    <3> DEFINE expired == {item \in queue[q].items : Expired(item.created_at, time)}
    <3>1. Settle(q, expired, "purged") /\ UNCHANGED slot BY <2>2 DEF PurgeExpiredRequests
    <3>2. \A item \in expired : item.slot < slot BY <1>0, <2>0, ExpiredIsOld
    <3>3. expired \in SUBSET queue[q].items OBVIOUS
    <3> HIDE DEF expired
    <3> QED BY <3>1, <3>2, <3>3, SettledLeave
  <2>3. UNCHANGED slot BY <1>2, ItemsChange
  <2> QED BY <1>1, <1>2, <2>1, <2>2, <2>3, ItemsChange, RequestJoins DEF Life!Next
<1>3. ASSUME NEW dt \in TimeSteps, NextSlot(dt) PROVE Life!Tick
  BY <1>3 DEF NextSlot, Life!Tick, PendingRequests, ResolvedRequests, Id
<1>4. CASE UNCHANGED <<slot, queue, resolved>> BY <1>1, <1>4 DEF SameItems
<1> QED
  BY <1>2, <1>3, <1>4
  DEF Next, OracleStep, Initialize, AddOracle, RemoveOracle, vars, Life!Next

\* The program implements RequestLife, for any number of oracles, queues, keys,
\* requests and slots: what the oracle's view logic assumes of the chain.
THEOREM KeepsRequestLifeThm == Spec => KeepsRequestLife
<1>1. Init => Life!Init
  BY DEF Init, Life!Init, PendingRequests, ResolvedRequests, NoAccount
<1> QED BY <1>1, NextLife, TInvAlways, HistoryAlways, PTL DEF Spec, KeepsRequestLife, Life!Spec

-----------------------------------------------------------------------------
\* The transaction that sets a queue up. While it runs, its queue has grown by one step
\* per instruction or is finished, and what it would restore is a good state.

\* The SDK's division rounds up.
LEMMA InitsBounds ==
  ASSUME NEW t \in Nat
  PROVE  /\ inits(t) \in Nat /\ t <= inits(t) * Chunk
         /\ (inits(t) - 1) * Chunk < t
<1> DEFINE s == t + Chunk - 1
           d == s \div Chunk
<1>1. s \in Nat /\ Chunk \in Nat \ {0} BY ChunkAssumption
<1>2. d \in Nat /\ s = (Chunk * d) + (s % Chunk) /\ s % Chunk \in 0 .. (Chunk - 1)
  <2> HIDE DEF s
  <2> QED BY <1>1
<1>3. inits(t) = d BY DEF inits
<1> HIDE DEF d
<1>4. d * Chunk = Chunk * d /\ (d - 1) * Chunk = (Chunk * d) - Chunk /\ Chunk * d \in Int
  BY <1>1, <1>2
<1> QED BY <1>1, <1>2, <1>3, <1>4

\* After k full steps, the rest fits in the last one exactly if all but one are done.
LEMMA LastStep ==
  ASSUME NEW t \in Nat, NEW left \in 1 .. inits(t), NEW size \in Nat
  PROVE  /\ (inits(t) - (left - 1)) * Chunk = ((inits(t) - left) * Chunk) + Chunk
         /\ (inits(t) - left) * Chunk \in Nat
         /\ (left = 1 /\ size >= (inits(t) - left) * Chunk) => t - size <= Chunk
         /\ (size = (inits(t) - left) * Chunk /\ t - size <= Chunk) => left = 1
<1> DEFINE n == inits(t)
           m == n - left
<1>1. n \in Nat /\ t <= n * Chunk /\ (n - 1) * Chunk < t BY InitsBounds
<1>2. Chunk \in Nat \ {0} /\ left \in Nat /\ left >= 1 /\ left <= n /\ m \in Nat
  BY <1>1, ChunkAssumption
<1> HIDE DEF n
<1>3. (n - (left - 1)) * Chunk = (m * Chunk) + Chunk BY <1>1, <1>2
<1>4. m * Chunk \in Nat /\ n * Chunk \in Nat /\ (n - 1) * Chunk \in Int
      /\ n * Chunk = ((n - 1) * Chunk) + Chunk
  BY <1>1, <1>2
<1>5. (left = 1 /\ size >= m * Chunk) => t - size <= Chunk BY <1>1, <1>2, <1>4
<1>6. (size = m * Chunk /\ t - size <= Chunk) => left = 1
  <2> SUFFICES ASSUME size = m * Chunk, t - size <= Chunk, left >= 2 PROVE FALSE
    BY <1>2
  <2>1. m <= n - 2 BY <1>1, <1>2
  <2>2. m * Chunk <= (n - 2) * Chunk
    <3> HIDE DEF m
    <3> QED BY <1>1, <1>2, <2>1
  <2>3. (n - 2) * Chunk = ((n - 1) * Chunk) - Chunk /\ (n - 2) * Chunk \in Int
    BY <1>1, <1>2
  <2> HIDE DEF m
  <2> QED BY <1>1, <1>2, <1>4, <2>2, <2>3
<1> QED BY <1>3, <1>4, <1>5, <1>6 DEF n

Transaction == [queue : QueueId, target : Targets, left : Nat, ready : BOOLEAN,
                saved : [QueueId -> Account] \X [Oracle -> OracleData]]

SavedOpen(o) == {i \in Index : tx.saved[1][<<o, i>>].init}

\* The accounts before the transaction: only its queue differs, which held nothing.
Restorable ==
  /\ ~tx.saved[1][tx.queue].init
  /\ \A p \in QueueId : /\ tx.saved[1][p].items = queue[p].items
                        /\ p # tx.queue => tx.saved[1][p] = queue[p]
                        /\ Consistent(tx.saved[1][p])
  /\ \A o \in Oracle :
       /\ tx.saved[2][o].vrf_pubkey = oracle[o].vrf_pubkey
       /\ tx.saved[2][o].open_queues = Cardinality(SavedOpen(o))
       /\ SavedOpen(o) # {} => tx.saved[2][o].registered
       /\ oracles[o] = IF tx.saved[2][o].registered THEN 1 ELSE 0

\* Steps of the transaction so far, in bytes.
Grown == (inits(tx.target) - tx.left) * Chunk

Growing ==
  /\ ~queue[tx.queue].init /\ oracle = tx.saved[2]
  /\ tx.left > 0 /\ queue[tx.queue].size >= Grown
  /\ tx.ready => /\ queue[tx.queue].size = Grown /\ oracle[tx.queue[1]].registered
                 /\ tx.target \in MinSize .. MAX_QUEUE_ACCOUNT_SIZE

Finished ==
  /\ queue[tx.queue].init /\ queue[tx.queue].size = tx.target
  /\ oracle[tx.queue[1]].open_queues = tx.saved[2][tx.queue[1]].open_queues + 1
  /\ tx.ready => tx.left = 0

Running == /\ tx \in Transaction /\ tx.left <= inits(tx.target)
           /\ Restorable
           /\ Growing \/ Finished

Promises ==
  TInv /\ AccountsConsistent /\ OpenQueuesExact /\ KeyCommitted /\ Solvent /\ History

SetupInv == Promises /\ (tx = NoTx \/ Running)

\* Every step keeps the promises.
LEMMA NextPromises == Promises /\ [Next]_vars => Promises'
BY NextTInv, NextAccounts, NextOpenQueues, NextKeyCommitted, NextSolvent, NextHistory
   DEF Promises

\* A transaction that begins satisfies the invariant of a running one.
LEMMA BeginRuns ==
  ASSUME Promises, NEW q \in QueueId, NEW target \in Targets, Begin(q, target)
  PROVE  Running'
<1>1. /\ tx' = [queue |-> q, target |-> target, left |-> inits(target),
                ready |-> Ready(q, target), saved |-> <<queue, oracle>>]
      /\ ~Refused(q, target) /\ UNCHANGED vars
  BY DEF Begin
<1>2. /\ tx'.queue = q /\ tx'.target = target /\ tx'.left = inits(target)
      /\ tx'.ready = Ready(q, target) /\ tx'.saved[1] = queue /\ tx'.saved[2] = oracle
  BY <1>1
<1>3. target \in Nat /\ inits(target) \in Nat /\ Ready(q, target) \in BOOLEAN
  BY ProgramAssumption, InitsBounds DEF Ready
<1>4. TypeOK BY DEF Promises, TInv
<1>5. tx' \in Transaction
  <2>1. queue \in [QueueId -> Account] /\ oracle \in [Oracle -> OracleData] BY <1>4 DEF TypeOK
  <2> QED BY <1>1, <1>3, <2>1 DEF Transaction
<1>6. ~queue[q].init /\ queue[q].size \in Nat /\ target > 0
  <2>1. queue[q].size \in Nat BY <1>4, ConstantsNat DEF TypeOK, Account
  <2>2. MinSize \in Nat /\ MinSize # 0 /\ MAX_EXTRA_BYTES \in Nat BY ProgramAssumption
  <2>3. CASE extra_bytes(q, target) <= MAX_EXTRA_BYTES
    BY <1>1, <1>3, <2>1, <2>2, <2>3, SMTT(30) DEF Refused
  <2>4. CASE ~(extra_bytes(q, target) <= MAX_EXTRA_BYTES)
    BY <1>1, <1>3, <2>1, <2>2, <2>4, SMTT(30) DEF Refused, extra_bytes
  <2> QED BY <2>3, <2>4
<1>7. Restorable'
  <2>1. \A p \in QueueId : Consistent(queue[p])
    BY SMTT(30) DEF Promises, AccountsConsistent, Consistent
  <2>2. \A o \in Oracle : Counted(o) BY DEF Promises, OpenQueuesExact, Counted, Open
  <2>3. \A o : SavedOpen(o)' = Open(o) BY <1>2 DEF SavedOpen, Open
  <2>4. UNCHANGED <<queue, oracle, oracles>> BY <1>1 DEF vars
  <2>5. \A p : Consistent(tx.saved[1][p])' <=> Consistent(queue[p]) BY <1>2 DEF Consistent
  <2> QED BY <1>2, <1>6, <2>1, <2>2, <2>3, <2>4, <2>5, SMTT(30) DEF Restorable, Counted
<1>8. Growing'
  <2>1. UNCHANGED <<queue, oracle>> BY <1>1 DEF vars
  <2>2. inits(target) > 0
    BY <1>3, <1>6, InitsBounds, ChunkAssumption
  <2>3. inits(target)' = inits(target) /\ (inits(target) - inits(target)) * Chunk = 0
    BY <1>3, ChunkAssumption DEF inits
  <2>4. Grown' = 0 BY <1>2, <1>3, <2>3, ChunkAssumption DEF Grown, inits
  <2> QED BY <1>2, <1>6, <2>1, <2>2, <2>4, SMTT(30) DEF Growing, Ready
<1> QED BY <1>2, <1>3, <1>5, <1>7, <1>8 DEF Running, inits

\* An instruction of the transaction is one of the program's steps.
LEMMA InstructionIsStep ==
  ASSUME Running, Instruction
  PROVE  Next
BY DEF Running, Transaction, Instruction, Next, QueueStep

\* Each instruction grows the queue by one step, or finishes it at the last one.
LEMMA InstructionRuns ==
  ASSUME Promises, Running, Instruction
  PROVE  Running'
<1> DEFINE q == tx.queue
           t == tx.target
<1>1. /\ tx \in Transaction /\ q \in QueueId /\ t \in Targets /\ t \in Nat
      /\ tx.left \in 1 .. inits(t) /\ inits(t) \in Nat
  <2>1. tx \in Transaction /\ t \in Nat BY ProgramAssumption, Zenon DEF Running, Transaction
  <2>2. inits(t) \in Nat BY <2>1, InitsBounds
  <2> QED BY <2>1, <2>2 DEF Running, Transaction, Instruction
<1>2. /\ tx' = [tx EXCEPT !.left = tx.left - 1]
      /\ tx'.queue = q /\ tx'.target = t /\ tx'.left = tx.left - 1 /\ tx'.ready = tx.ready
      /\ tx'.saved = tx.saved
  BY <1>1 DEF Instruction, Transaction
<1>3. TypeOK BY DEF Promises, TInv
<1>4. /\ queue[q].size \in Nat /\ tx' \in Transaction /\ tx'.left <= inits(t)
      /\ q[1] \in Oracle
  <2>1. queue[q].size \in Nat BY <1>1, <1>3, ConstantsNat DEF TypeOK, Account
  <2>2. tx.left - 1 \in Nat /\ tx.left - 1 <= inits(t) BY <1>1
  <2>3. tx' \in Transaction BY <1>1, <1>2, <2>2 DEF Transaction
  <2> QED BY <1>1, <1>2, <2>1, <2>2, <2>3 DEF QueueId
<1>5. Grown' = Grown + Chunk /\ Grown \in Nat
  BY <1>1, <1>2, <1>4, LastStep DEF Grown, inits
<1>6. ~queue[q].init BY DEF Instruction, GrowQueue, InitializeOracleQueue
<1>7. Growing BY <1>6 DEF Running, Finished
<1>7a. /\ (tx.left = 1 /\ queue[q].size >= Grown) => t - queue[q].size <= Chunk
       /\ (queue[q].size = Grown /\ t - queue[q].size <= Chunk) => tx.left = 1
  <2>1. tx.left \in 1 .. inits(t) /\ queue[q].size \in Nat /\ t \in Nat BY <1>1, <1>4
  <2>2. Grown = (inits(t) - tx.left) * Chunk BY DEF Grown
  <2> HIDE DEF t, q
  <2> QED BY <2>1, <2>2, LastStep
<1>7b. queue[q].size >= Grown /\ (tx.ready => queue[q].size = Grown)
  BY <1>7, Zenon DEF Growing
<1>8. ASSUME Others(q), queue'[q].items = queue[q].items, UNCHANGED oracles,
             \A o \in Oracle : oracle'[o].vrf_pubkey = oracle[o].vrf_pubkey
      PROVE  Restorable'
  <2>1. \A o : SavedOpen(o)' = SavedOpen(o) BY <1>2 DEF SavedOpen
  <2>2. \A p : Consistent(tx.saved[1][p])' <=> Consistent(tx.saved[1][p])
    BY <1>2 DEF Consistent
  <2>3. \A p \in QueueId : queue'[p].items = queue[p].items
    BY <1>8 DEF Others
  <2> QED BY <1>2, <1>8, <2>1, <2>2, <2>3 DEF Running, Restorable, Others
<1>9. CASE GrowQueue(q, t)
  <2>1. queue'[q].size = queue[q].size + Chunk
    <3>1. queue[q] \in Account BY <1>1, <1>3 DEF TypeOK
    <3>2. queue[q].size + MAX_EXTRA_BYTES \in 0 .. MAX_QUEUE_ACCOUNT_SIZE
      BY <1>1, <1>4, <1>9, ConstantsNat, SMTT(30) DEF GrowQueue, size_allowed, extra_bytes
    <3>3. queue'[q] = allocate(queue[q], queue[q].size + MAX_EXTRA_BYTES)
      BY <1>1, <1>3, <1>9 DEF GrowQueue, TypeOK
    <3> QED BY <3>1, <3>2, <3>3, AllocateType, ChunkAssumption, SMTT(30)
  <2>2. UNCHANGED <<oracle, oracles>> BY <1>9 DEF GrowQueue
  <2>3. Others(q) /\ ~queue'[q].init /\ queue'[q].items = queue[q].items
    BY <1>1, <1>3, <1>9, GrowEffect, SMTT(30)
  <2>4. t - queue[q].size > Chunk
    BY <1>1, <1>4, <1>9, ChunkAssumption, SMTT(30) DEF GrowQueue, extra_bytes
  <2>5. tx.left # 1
    <3>1. queue[q].size \in Nat /\ t \in Nat /\ Chunk \in Nat BY <1>1, <1>4, ChunkAssumption
    <3> QED BY <1>7a, <1>7b, <2>4, <3>1
  <2>6. Growing'
    <3>1. queue'[q].size >= Grown' /\ (tx.ready => queue'[q].size = Grown')
      <4>1. queue[q].size \in Nat /\ Chunk \in Nat BY <1>4, ChunkAssumption
      <4> QED BY <1>5, <1>7b, <2>1, <4>1
    <3>2. oracle' = tx'.saved[2] BY <1>2, <1>7, <2>2 DEF Growing
    <3> QED BY <1>1, <1>2, <1>7, <2>2, <2>3, <2>5, <3>1, <3>2, SMTT(30) DEF Growing
  <2>7. Restorable' BY <1>8, <2>2, <2>3
  <2> QED BY <1>2, <1>4, <2>6, <2>7, SMTT(30) DEF Running, inits
<1>10. CASE InitializeOracleQueue(q, t)
  <2>1. Others(q) /\ queue'[q].init /\ queue'[q].size = t /\ queue'[q].items = queue[q].items
    BY <1>1, <1>3, <1>10, InitializeEffect
  <2>2. /\ UNCHANGED oracles
        /\ oracle'[q[1]].open_queues = oracle[q[1]].open_queues + 1
        /\ \A o \in Oracle : oracle'[o].vrf_pubkey = oracle[o].vrf_pubkey
    BY <1>3, <1>4, <1>10 DEF InitializeOracleQueue, TypeOK, OracleData
  <2>3. t - queue[q].size <= Chunk
    BY <1>1, <1>4, <1>10, ChunkAssumption, SMTT(30) DEF InitializeOracleQueue, extra_bytes
  <2>4. tx.ready => tx.left = 1
    BY <1>7a, <1>7b, <2>3
  <2>5. Finished' BY <1>1, <1>2, <1>7, <2>1, <2>2, <2>4, SMTT(30) DEF Finished, Growing
  <2>6. Restorable' BY <1>8, <2>1, <2>2
  <2> QED BY <1>2, <1>4, <2>5, <2>6 DEF Running, inits
<1> QED BY <1>9, <1>10 DEF Instruction

\* A transaction taken back leaves the accounts as it found them.
LEMMA RollbackRestores ==
  ASSUME Promises, Running, Rollback
  PROVE  /\ Promises' /\ SameItems /\ UNCHANGED <<slot, resolved>>
         /\ ~tx.ready /\ <<queue', oracle'>> = tx.saved
<1>1. /\ queue' = tx.saved[1] /\ oracle' = tx.saved[2]
      /\ UNCHANGED <<slot, time, initialized, oracles, resolved>>
      /\ tx.left > 0 /\ Refused(tx.queue, tx.target)
  BY DEF Rollback
<1>2. /\ tx \in Transaction /\ tx.queue \in QueueId /\ tx.target \in Nat
      /\ queue' \in [QueueId -> Account] /\ oracle' \in [Oracle -> OracleData]
      /\ <<queue', oracle'>> = tx.saved
  <2>1. tx \in Transaction /\ tx.queue \in QueueId /\ tx.target \in Nat
    BY ProgramAssumption, Zenon DEF Running, Transaction
  <2>2. tx.saved \in [QueueId -> Account] \X [Oracle -> OracleData]
    BY <2>1 DEF Transaction
  <2> QED BY <1>1, <2>1, <2>2
<1>3. TypeOK /\ ItemsFinite BY DEF Promises, TInv
<1>4. SameItems BY <1>1, SMTT(30) DEF Running, Restorable, SameItems
<1>5. TInv'
  <2>1. ItemsFinite' BY <1>3, <1>4, SMTT(30) DEF ItemsFinite, SameItems
  <2> QED BY <1>1, <1>2, <1>3, <2>1 DEF TInv, TypeOK
<1>6. AccountsConsistent'
  BY <1>1, Zenon DEF Running, Restorable, Consistent, AccountsConsistent
<1>7. OpenQueuesExact'
  <2>1. \A o : SavedOpen(o) = {i \in Index : queue'[<<o, i>>].init}
    BY <1>1 DEF SavedOpen
  <2> QED BY <1>1, <2>1, Zenon DEF Running, Restorable, OpenQueuesExact
<1>8. KeyCommitted'
  <2>1. \A p \in QueueId : p[1] \in Oracle BY DEF QueueId
  <2> QED BY <1>1, <1>4, <2>1, SMTT(30) DEF Running, Restorable, SameItems, Promises, KeyCommitted
<1>9. Solvent'
  <2>1. \A p \in QueueId : queue'[p].init => queue'[p] = queue[p]
    BY <1>1 DEF Running, Restorable
  <2> QED BY <2>1, ZenonT(30) DEF Promises, Solvent, Rent, fee
<1>10. History' BY <1>1, <1>3, <1>4, SameHistory DEF Promises
<1>11. ~tx.ready
  <2> SUFFICES ASSUME tx.ready PROVE FALSE OBVIOUS
  <2>1. Growing BY <1>1, <1>2 DEF Running, Finished, Transaction
  <2>2. /\ ~queue[tx.queue].init /\ oracle[tx.queue[1]].registered
        /\ tx.target \in MinSize .. MAX_QUEUE_ACCOUNT_SIZE
    BY <2>1 DEF Growing
  <2>3. tx.target >= MinSize /\ tx.target <= MAX_QUEUE_ACCOUNT_SIZE BY <2>2, ConstantsNat
  <2>4. size_allowed(tx.queue, tx.target) BY <2>3 DEF size_allowed
  <2>5. ~(tx.target < MinSize) BY <1>2, <2>3, ConstantsNat
  <2>6. Refused(tx.queue, tx.target) BY DEF Rollback
  <2> QED BY <2>2, <2>4, <2>5, <2>6 DEF Refused
<1> QED BY <1>1, <1>2, <1>4, <1>5, <1>6, <1>7, <1>8, <1>9, <1>10, <1>11, SMTT(30) DEF Promises

\* Every step of the set-up keeps its invariant.
LEMMA NextSetup == SetupInv /\ [SetupNext]_<<vars, tx>> => SetupInv'
<1> SUFFICES ASSUME SetupInv, [SetupNext]_<<vars, tx>> PROVE SetupInv' OBVIOUS
<1>0. Promises BY DEF SetupInv
<1>1. tx.left > 0 \/ tx.left = 0 => Running BY DEF SetupInv, NoTx
<1>2. ASSUME tx = NoTx, Next, UNCHANGED tx PROVE SetupInv'
  BY <1>0, <1>2, NextPromises DEF SetupInv
<1>3. ASSUME NEW q \in QueueId, NEW target \in Targets, Begin(q, target) PROVE SetupInv'
  <2>1. Promises' BY <1>0, <1>3, NextPromises DEF Begin
  <2> QED BY <1>0, <1>3, <2>1, BeginRuns DEF SetupInv
<1>4. CASE Instruction
  <2>1. Running BY <1>1, <1>4 DEF Instruction
  <2> QED BY <1>0, <1>4, <2>1, InstructionIsStep, InstructionRuns, NextPromises DEF SetupInv
<1>5. CASE Rollback
  <2>1. Running /\ tx' = NoTx BY <1>1, <1>5 DEF Rollback
  <2> QED BY <1>0, <1>5, <2>1, RollbackRestores DEF SetupInv
<1>6. CASE Commit
  <2>1. tx' = NoTx /\ UNCHANGED vars BY <1>6 DEF Commit
  <2> QED BY <1>0, <2>1, NextPromises DEF SetupInv
<1>7. CASE UNCHANGED <<vars, tx>>
  <2>1. Promises' BY <1>0, <1>7, NextPromises, SMTT(30)
  <2>2. Running => Running'
    <3>1. UNCHANGED <<queue, oracle, oracles, tx>> BY <1>7 DEF vars
    <3>2. \A o : SavedOpen(o)' = SavedOpen(o) BY <3>1 DEF SavedOpen
    <3> QED
      BY <3>1, <3>2, Zenon DEF Running, Restorable, Consistent, Growing, Finished, Grown, inits
  <2> QED BY <1>7, <2>1, <2>2 DEF SetupInv
<1> QED BY <1>2, <1>3, <1>4, <1>5, <1>6, <1>7 DEF SetupNext

\* The invariant of the set-up, always.
LEMMA SetupInvAlways == SetupSpec => []SetupInv
<1>1. SetupInit => SetupInv
  <2> SUFFICES ASSUME Init, tx = NoTx PROVE SetupInv BY DEF SetupInit
  <2>1. TInv /\ History BY InitTInv, InitHistory
  <2>2. AccountsConsistent BY DEF Init, AccountsConsistent, NoAccount
  <2>3. KeyCommitted /\ Solvent BY DEF Init, KeyCommitted, Solvent, NoAccount
  <2>4. OpenQueuesExact BY InitOpenQueues
  <2> QED BY <2>1, <2>2, <2>3, <2>4 DEF SetupInv, Promises
<1> QED BY <1>1, NextSetup, PTL DEF SetupSpec

\* The promises of the program survive the SDK's setup transactions, finished, failed in
\* the middle and rolled back, or sent for a queue that others began to grow.
THEOREM SetupKeepsPromises ==
  SetupSpec => [](/\ TypeOK /\ Solvent /\ OpenQueuesExact /\ KeyCommitted
                  /\ AccountsConsistent /\ ResolvedOnce /\ PurgedOnlyWhenExpired)
<1>1. SetupInv => /\ TypeOK /\ Solvent /\ OpenQueuesExact /\ KeyCommitted
                  /\ AccountsConsistent /\ ResolvedOnce /\ PurgedOnlyWhenExpired
  BY DEF SetupInv, Promises, TInv, History
<1> QED BY <1>1, SetupInvAlways, PTL

\* initialize_oracle_queue of the SDK repeats the instruction exactly as often as the
\* program needs, for every size, and otherwise leaves nothing behind.
THEOREM SetupSucceedsThm == SetupSpec => SetupSucceeds
<1> DEFINE Outcome ==
      tx # NoTx /\ tx' = NoTx =>
        \/ /\ queue'[tx.queue].init /\ queue'[tx.queue].size = tx.target
           /\ oracle'[tx.queue[1]].open_queues = tx.saved[2][tx.queue[1]].open_queues + 1
        \/ ~tx.ready /\ <<queue', oracle'>> = tx.saved
<1>1. SetupInv /\ [SetupNext]_<<vars, tx>> => Outcome
  <2> SUFFICES ASSUME SetupInv, [SetupNext]_<<vars, tx>>, tx # NoTx, tx' = NoTx
               PROVE  Outcome
    OBVIOUS
  <2>1. Promises /\ Running BY DEF SetupInv
  <2>2. CASE Rollback BY <2>1, <2>2, RollbackRestores
  <2>3. CASE Commit
    <3>1. tx.left = 0 /\ UNCHANGED vars BY <2>3 DEF Commit
    <3>2. Finished BY <2>1, <3>1 DEF Running, Growing
    <3> QED BY <3>1, <3>2 DEF Finished, vars
  <2>4. CASE Instruction
    <3>1. Running' BY <2>1, <2>4, InstructionRuns
    <3> QED BY <3>1, SMTT(30) DEF Running, Transaction, NoTx
  <2>5. \A q, target : ~Begin(q, target) BY DEF Begin
  <2> QED BY <2>2, <2>3, <2>4, <2>5, ZenonT(30) DEF SetupNext
<1> QED BY <1>1, SetupInvAlways, PTL DEF SetupSpec, SetupSucceeds

\* With setup transactions the program still implements RequestLife: taking one back
\* brings no request back.
THEOREM SetupKeepsRequestLife == SetupSpec => KeepsRequestLife
<1>1. SetupInit => Life!Init
  <2> SUFFICES ASSUME Init PROVE Life!Init BY DEF SetupInit
  <2>1. PendingRequests = {} BY Zenon DEF Init, PendingRequests, NoAccount
  <2>2. ResolvedRequests = {} BY DEF Init, ResolvedRequests
  <2> QED BY <2>1, <2>2 DEF Init, Life!Init
<1>2. SetupInv /\ [SetupNext]_<<vars, tx>> => [Life!Next]_(Life!vars)
  <2> SUFFICES ASSUME SetupInv, [SetupNext]_<<vars, tx>> PROVE [Life!Next]_(Life!vars)
    OBVIOUS
  <2>1. TInv /\ History /\ Promises BY DEF SetupInv, Promises
  <2>2. CASE [Next]_vars BY <2>1, <2>2, NextLife
  <2>3. CASE Instruction
    <3>1. Running BY <2>3 DEF Instruction, SetupInv, NoTx
    <3> QED BY <2>2, <2>3, <3>1, InstructionIsStep
  <2>4. CASE Rollback
    <3>1. Running BY <2>4, SMTT(30) DEF Rollback, SetupInv, NoTx
    <3>2. SameItems /\ UNCHANGED <<slot, resolved>> BY <2>1, <2>4, <3>1, RollbackRestores
    <3> QED BY <3>2, SameLife
  <2> QED BY <2>2, <2>3, <2>4 DEF SetupNext, Begin, Commit
<1> QED BY <1>1, <1>2, SetupInvAlways, PTL DEF SetupSpec, KeepsRequestLife, Life!Spec

=============================================================================
