--------------------------- MODULE VrfProgramProofs ---------------------------
(***************************************************************************)
(* Proofs that the on-chain program keeps its promises for every number of *)
(* oracles, queues, requests and slots: the types, what each instruction   *)
(* does, and the oracles and their queues.                                 *)
(***************************************************************************)
EXTENDS VrfProgram, CreatedAtProofs, FiniteSetTheorems

\* Queues hold finitely many requests, so fees are numbers.
ItemsFinite == \A q \in QueueId : IsFiniteSet(queue[q].items)

TInv == TypeOK /\ ItemsFinite

\* The constants of the program are natural numbers.
LEMMA ConstantsNat ==
  /\ MAX_EXTRA_BYTES \in Nat /\ MAX_QUEUE_ACCOUNT_SIZE \in Nat
  /\ MinSize \in Nat /\ RentBase \in Nat /\ MaxSlot \in Nat /\ MaxGift \in Nat
  /\ VRF_LAMPORTS_COST \in Nat /\ VRF_HIGH_PRIORITY_LAMPORTS_COST \in Nat
BY ProgramAssumption

\* The fee for a finite set of items is a natural number.
LEMMA FeeNat ==
  ASSUME NEW q, NEW items, IsFiniteSet(items)
  PROVE  fee(q, items) \in Nat
<1> DEFINE hi == {item \in items : item.priority_request}
           lo == {item \in items : ~item.priority_request}
<1>1. Cardinality(hi) \in Nat /\ Cardinality(lo) \in Nat
  BY FS_Subset, FS_CardinalityType
<1> HIDE DEF hi, lo
<1>2. /\ VRF_HIGH_PRIORITY_LAMPORTS_COST * Cardinality(hi) \in Nat
      /\ VRF_LAMPORTS_COST * Cardinality(lo) \in Nat
  BY <1>1, ConstantsNat
<1> QED BY <1>2 DEF fee, hi, lo

\* The price of one request is a natural number.
LEMMA CostNat == \A q, high : high \in BOOLEAN => request_cost(q, high) \in Nat
BY ConstantsNat DEF request_cost

\* A stamp fits its type.
LEMMA StampType ==
  \A t \in Nat : created_at_from(t) \in 0 .. (Modulus - 1)
BY DivMod, ModRange DEF created_at_from

\* Allocating an account changes its owner, its size and its balance, which
\* covers the rent of the new size.
LEMMA AllocateType ==
  ASSUME NEW qa \in Account, NEW size \in 0 .. MAX_QUEUE_ACCOUNT_SIZE
  PROVE  LET new == allocate(qa, size)
         IN  /\ new \in Account
             /\ new.owner = "vrf" /\ new.size = size
             /\ new.init = qa.init /\ new.paused = qa.paused
             /\ new.used = qa.used /\ new.items = qa.items
             /\ new.lamports >= Rent(size)
<1> DEFINE lam == IF qa.lamports < Rent(size) THEN Rent(size) ELSE qa.lamports
<1>1. Rent(size) \in Nat /\ lam \in Nat /\ lam >= Rent(size)
  BY ConstantsNat DEF Rent, Account
<1>2. create_pda(qa, size) = [qa EXCEPT !.owner = "vrf", !.size = size, !.lamports = lam]
  BY DEF create_pda
<1> HIDE DEF lam
<1>3. LET new == create_pda(qa, size)
      IN  /\ new \in Account
          /\ new.owner = "vrf" /\ new.size = size
          /\ new.init = qa.init /\ new.paused = qa.paused
          /\ new.used = qa.used /\ new.items = qa.items
          /\ new.lamports = lam
  BY <1>1, <1>2, Zenon DEF Account
<1>4. LET new == resize_pda(qa, size)
      IN  /\ new \in Account
          /\ new.owner = qa.owner /\ new.size = size
          /\ new.init = qa.init /\ new.paused = qa.paused
          /\ new.used = qa.used /\ new.items = qa.items
          /\ new.lamports = Rent(size)
  BY <1>1, Zenon DEF Account, resize_pda
<1> QED BY <1>1, <1>3, <1>4 DEF allocate

\* Setting the discriminator keeps the rest of an account.
LEMMA SetInit ==
  ASSUME NEW qa \in Account
  PROVE  LET new == [qa EXCEPT !.init = TRUE]
         IN  /\ new \in Account
             /\ new.init = TRUE /\ new.owner = qa.owner /\ new.size = qa.size
             /\ new.paused = qa.paused /\ new.used = qa.used
             /\ new.items = qa.items /\ new.lamports = qa.lamports
BY Zenon DEF Account

\* What add_item does to an account; the balance is a fact of its own, as arithmetic
\* next to opaque records slows the provers down.
LEMMA AddItemLamports ==
  ASSUME NEW qa \in Account, NEW item, NEW cost
  PROVE  add_item(qa, item, cost).lamports = qa.lamports + cost
BY DEF add_item, Account

\* Adding an item keeps the types.
LEMMA AddItemType ==
  ASSUME NEW qa \in Account, NEW item \in Item, NEW cost \in Nat
  PROVE  LET new == add_item(qa, item, cost)
         IN  /\ new \in Account
             /\ new.owner = qa.owner /\ new.size = qa.size /\ new.init = qa.init
             /\ new.paused = qa.paused /\ new.used = TRUE
             /\ new.items = qa.items \union {item}
<1> DEFINE items == qa.items \union {item}
           lam == qa.lamports + cost
<1>1. items \in SUBSET Item /\ lam \in Nat BY DEF Account
<1>2. add_item(qa, item, cost) =
        [qa EXCEPT !.items = items, !.used = TRUE, !.lamports = lam]
  BY DEF add_item
<1> HIDE DEF items, lam
<1>3. LET new == add_item(qa, item, cost)
      IN  /\ new \in Account
          /\ new.owner = qa.owner /\ new.size = qa.size /\ new.init = qa.init
          /\ new.paused = qa.paused /\ new.used = TRUE
          /\ new.items = items
  BY <1>1, <1>2, Zenon DEF Account
<1> QED BY <1>3 DEF items

\* Removing items keeps an account an account when it can pay the fees.
LEMMA RemoveItemsType ==
  ASSUME NEW qa \in Account, NEW gone, NEW amount \in Nat, amount <= qa.lamports
  PROVE  LET new == remove_items(qa, gone, amount)
         IN  /\ new \in Account
             /\ new.owner = qa.owner /\ new.size = qa.size /\ new.init = qa.init
             /\ new.paused = qa.paused /\ new.used = qa.used
             /\ new.items = qa.items \ gone
             /\ new.lamports = qa.lamports - amount
<1> DEFINE items == qa.items \ gone
           lam == qa.lamports - amount
<1>1. items \in SUBSET Item /\ lam \in Nat BY DEF Account
<1>2. remove_items(qa, gone, amount) = [qa EXCEPT !.items = items, !.lamports = lam]
  BY DEF remove_items
<1> HIDE DEF items, lam
<1>3. LET new == remove_items(qa, gone, amount)
      IN  /\ new \in Account
          /\ new.owner = qa.owner /\ new.size = qa.size /\ new.init = qa.init
          /\ new.paused = qa.paused /\ new.used = qa.used
          /\ new.items = items /\ new.lamports = lam
  BY <1>1, <1>2, Zenon DEF Account
<1> QED BY <1>3 DEF items, lam

\* A new request has the type of an item.
LEMMA NewItemType ==
  ASSUME TypeOK, NEW q \in QueueId, NEW args \in Request, NEW pos \in Position
  PROVE  new_item(q, args, pos) \in Item
<1>1. q[1] \in Oracle BY DEF QueueId
<1>2. slot \in Nat /\ time \in Nat /\ oracle[q[1]].vrf_pubkey \in Key \union {NoKey}
  BY <1>1 DEF TypeOK, OracleData
<1> QED BY <1>2, StampType DEF Item, Request, new_item

\* The types hold initially: no oracle, no queue account.
LEMMA InitTInv == Init => TInv
<1> SUFFICES ASSUME Init PROVE TInv OBVIOUS
<1>1. TypeOK
  <2>1. NoOracle \in OracleData BY DEF NoOracle, OracleData
  <2>2. NoAccount(0) \in Account BY ConstantsNat DEF NoAccount, Account
  <2> QED BY <2>1, <2>2, Zenon DEF Init, TypeOK
<1>2. ItemsFinite
  BY FS_EmptySet, Zenon DEF Init, ItemsFinite, NoAccount
<1> QED BY <1>1, <1>2 DEF TInv

\* Every instruction keeps the types, one case per instruction.
LEMMA NextTInv == TInv /\ [Next]_vars => TInv'
<1> SUFFICES ASSUME TInv, [Next]_vars PROVE TInv' OBVIOUS
<1> USE DEF TInv
<1>1. CASE Initialize
  BY <1>1 DEF Initialize, TypeOK, ItemsFinite
<1>2. ASSUME NEW o \in Oracle, NEW key \in Key, AddOracle(o, key) PROVE TInv'
  BY <1>2 DEF AddOracle, TypeOK, ItemsFinite, OracleData
<1>3. ASSUME NEW o \in Oracle, RemoveOracle(o) PROVE TInv'
  BY <1>3 DEF RemoveOracle, TypeOK, ItemsFinite, OracleData, NoOracle
<1>4. ASSUME NEW dt \in TimeSteps, NextSlot(dt) PROVE TInv'
  BY <1>4, ProgramAssumption DEF NextSlot, TypeOK, ItemsFinite
<1>5. ASSUME NEW q \in QueueId, QueueStep(q) PROVE TInv'
  <2>1. ASSUME NEW target \in Targets, GrowQueue(q, target) PROVE TInv'
    <3>1. target \in Nat BY ProgramAssumption
    <3>2. queue[q] \in Account BY DEF TypeOK
    <3>3. queue[q].size + MAX_EXTRA_BYTES \in 0 .. MAX_QUEUE_ACCOUNT_SIZE
      BY <2>1, <3>1, <3>2, ConstantsNat DEF GrowQueue, Account, size_allowed, extra_bytes
    <3>4. LET new == allocate(queue[q], queue[q].size + MAX_EXTRA_BYTES)
          IN  new \in Account /\ new.items = queue[q].items
      BY <3>2, <3>3, AllocateType
    <3> QED BY <2>1, <3>4 DEF GrowQueue, TypeOK, ItemsFinite
  <2>2. ASSUME NEW target \in Targets, InitializeOracleQueue(q, target) PROVE TInv'
    <3>1. target \in Nat BY ProgramAssumption
    <3>2. queue[q] \in Account /\ target \in 0 .. MAX_QUEUE_ACCOUNT_SIZE
      BY <2>2, <3>1, ConstantsNat DEF InitializeOracleQueue, TypeOK, size_allowed
    <3>3. LET new == [allocate(queue[q], target) EXCEPT !.init = TRUE]
          IN  new \in Account /\ new.items = queue[q].items
      BY <3>2, AllocateType, SetInit
    <3>4. q[1] \in Oracle BY DEF QueueId
    <3>5. oracle' \in [Oracle -> OracleData]
      BY <2>2, <3>4 DEF InitializeOracleQueue, TypeOK, OracleData
    <3> QED BY <2>2, <3>2, <3>3, <3>5 DEF InitializeOracleQueue, TypeOK, ItemsFinite
  <2>3. ASSUME NEW paused \in BOOLEAN, SetQueuePaused(q, paused) PROVE TInv'
    BY <2>3 DEF SetQueuePaused, TypeOK, ItemsFinite, Account
  <2>4. CASE DelegateOracleQueue(q)
    BY <2>4 DEF DelegateOracleQueue, TypeOK, ItemsFinite, Account
  <2>5. CASE CloseOracleQueue(q)
    <3>1. q[1] \in Oracle BY DEF QueueId
    <3>2. oracle' \in [Oracle -> OracleData]
      BY <2>5, <3>1 DEF CloseOracleQueue, TypeOK, OracleData
    <3>3. NoAccount(0) \in Account
      BY ConstantsNat DEF NoAccount, Account
    <3>4. IsFiniteSet(NoAccount(0).items)
      BY FS_EmptySet DEF NoAccount
    <3> QED BY <2>5, <3>2, <3>3, <3>4 DEF CloseOracleQueue, TypeOK, ItemsFinite
  <2>6. ASSUME NEW args \in Request, NEW pos \in Position,
               RequestRandomness(q, args, pos)
        PROVE  TInv'
    <3> DEFINE item == new_item(q, args, pos)
               cost == request_cost(q, args.high)
    <3> DEFINE new == add_item(queue[q], item, cost)
    <3>1. item \in Item /\ cost \in Nat BY NewItemType, CostNat DEF Request
    <3>2. queue' = [queue EXCEPT ![q] = new]
      BY <2>6 DEF RequestRandomness, TypeOK
    <3> HIDE DEF item, cost
    <3>3. new \in Account /\ new.items = queue[q].items \union {item}
      <4>1. queue[q] \in Account BY DEF TypeOK
      <4> QED BY <3>1, <4>1, AddItemType, ZenonT(60)
    <3> HIDE DEF new
    <3>4. IsFiniteSet(queue[q].items \union {item})
      BY FS_AddElement DEF ItemsFinite
    <3>5. queue' \in [QueueId -> Account]
      BY <3>2, <3>3 DEF TypeOK
    <3>6. ItemsFinite'
      BY <3>2, <3>3, <3>4, Zenon DEF ItemsFinite, TypeOK
    <3> QED BY <2>6, <3>5, <3>6 DEF RequestRandomness, TypeOK
  <2>7. ASSUME NEW gone \in SUBSET queue[q].items,
               NEW outcome \in Key \union {NoKey, "purged"}, Settle(q, gone, outcome),
               UNCHANGED <<slot, time, initialized, oracles, oracle>>
        PROVE  TInv'
    <3>1. IsFiniteSet(gone) /\ IsFiniteSet(queue[q].items \ gone)
      BY FS_Subset DEF ItemsFinite
    <3>2. fee(q, gone) \in Nat BY <3>1, FeeNat
    <3>3. LET new == remove_items(queue[q], gone, fee(q, gone))
          IN  new \in Account /\ new.items = queue[q].items \ gone
      BY <2>7, <3>2, RemoveItemsType DEF Settle, TypeOK
    <3>4. queue' \in [QueueId -> Account] /\ ItemsFinite'
      BY <2>7, <3>1, <3>3, Zenon DEF Settle, TypeOK, ItemsFinite
    <3>5. ASSUME NEW item \in gone
          PROVE  [queue |-> q, id |-> Id(item), outcome |-> outcome]
                   \in [queue : QueueId, id : Seed \X Nat \X Nat \X Position,
                        outcome : Key \union {NoKey, "purged"}]
      BY <3>5 DEF Id, TypeOK, Account, Item
    <3> QED BY <2>7, <3>3, <3>4, <3>5 DEF Settle, TypeOK
  <2>8. ASSUME NEW item \in queue[q].items, NEW key \in Key,
               ProvideRandomness(q, item, key)
        PROVE  TInv'
    BY <2>7, <2>8 DEF ProvideRandomness
  <2>9. CASE PurgeExpiredRequests(q)
    BY <2>7, <2>9 DEF PurgeExpiredRequests
  <2>10. ASSUME NEW lamports \in Gifts, Gift(q, lamports) PROVE TInv'
    BY <2>10, ProgramAssumption DEF Gift, TypeOK, ItemsFinite, Account
  <2> QED BY <1>5, <2>1, <2>2, <2>3, <2>4, <2>5, <2>6, <2>8, <2>9, <2>10 DEF QueueStep
<1>6. CASE UNCHANGED vars
  BY <1>6 DEF vars, TypeOK, ItemsFinite
<1> QED BY <1>1, <1>2, <1>3, <1>4, <1>5, <1>6 DEF Next, OracleStep

\* Every account keeps its type and no queue outgrows MAX_QUEUE_ACCOUNT_SIZE,
\* however it is grown in steps (process_initialize_oracle_queue).
THEOREM TypeCorrect == Spec => []TypeOK
<1>1. Spec => []TInv BY InitTInv, NextTInv, PTL DEF Spec
<1>2. TInv => TypeOK BY DEF TInv
<1> QED BY <1>1, <1>2, PTL

-----------------------------------------------------------------------------
\* What each instruction does to the queue it names; the others keep theirs.

Others(q) == \A p \in QueueId : p # q => queue'[p] = queue[p]

\* Growing an account in steps leaves it uninitialised and without items.
LEMMA GrowEffect ==
  ASSUME TypeOK, NEW q \in QueueId, NEW target \in Targets, GrowQueue(q, target)
  PROVE  /\ Others(q) /\ queue'[q].owner = "vrf"
         /\ ~queue[q].init /\ queue'[q].init = queue[q].init
         /\ queue'[q].paused = queue[q].paused /\ queue'[q].used = queue[q].used
         /\ queue'[q].items = queue[q].items
<1>1. target \in Nat BY ProgramAssumption
<1>2. queue[q] \in Account BY DEF TypeOK
<1>3. queue[q].size + MAX_EXTRA_BYTES \in 0 .. MAX_QUEUE_ACCOUNT_SIZE
  BY <1>1, <1>2, ConstantsNat DEF GrowQueue, Account, size_allowed, extra_bytes
<1>4. queue'[q] = allocate(queue[q], queue[q].size + MAX_EXTRA_BYTES)
  BY DEF GrowQueue, TypeOK
<1>5. Others(q) BY DEF GrowQueue, TypeOK, Others
<1>6. ~queue[q].init BY DEF GrowQueue
<1> QED BY <1>2, <1>3, <1>4, <1>5, <1>6, AllocateType

\* The last step of initialisation sets the discriminator of a funded account.
LEMMA InitializeEffect ==
  ASSUME TypeOK, NEW q \in QueueId, NEW target \in Targets,
         InitializeOracleQueue(q, target)
  PROVE  /\ Others(q) /\ queue'[q].owner = "vrf"
         /\ ~queue[q].init /\ queue'[q].init
         /\ queue'[q].size = target /\ target >= MinSize
         /\ queue'[q].used = queue[q].used
         /\ queue'[q].items = queue[q].items
         /\ queue'[q].lamports >= Rent(target)
<1>1. queue[q] \in Account /\ target \in 0 .. MAX_QUEUE_ACCOUNT_SIZE
  BY ProgramAssumption, ConstantsNat DEF InitializeOracleQueue, TypeOK, size_allowed
<1>2. queue'[q] = [allocate(queue[q], target) EXCEPT !.init = TRUE]
  BY DEF InitializeOracleQueue, TypeOK
<1>3. Others(q) BY DEF InitializeOracleQueue, TypeOK, Others
<1>4. ~queue[q].init /\ target >= MinSize BY DEF InitializeOracleQueue
<1>5. LET new == allocate(queue[q], target)
      IN  /\ new \in Account /\ new.owner = "vrf" /\ new.size = target
          /\ new.used = queue[q].used /\ new.items = queue[q].items
          /\ new.lamports >= Rent(target)
  BY <1>1, AllocateType
<1> QED BY <1>2, <1>3, <1>4, <1>5, SetInit

\* Pausing changes the flag and nothing else.
LEMMA PauseEffect ==
  ASSUME TypeOK, NEW q \in QueueId, NEW paused \in BOOLEAN, SetQueuePaused(q, paused)
  PROVE  /\ Others(q) /\ IsQueue(q)
         /\ queue'[q].owner = queue[q].owner /\ queue'[q].init = queue[q].init
         /\ queue'[q].size = queue[q].size /\ queue'[q].used = queue[q].used
         /\ queue'[q].items = queue[q].items
         /\ queue'[q].lamports = queue[q].lamports
BY DEF SetQueuePaused, TypeOK, Account, Others

\* Delegation changes the owner of a queue that was never used.
LEMMA DelegateEffect ==
  ASSUME TypeOK, NEW q \in QueueId, DelegateOracleQueue(q)
  PROVE  /\ Others(q) /\ IsQueue(q)
         /\ queue'[q].owner = "delegation" /\ queue'[q].init = queue[q].init
         /\ queue'[q].size = queue[q].size /\ queue'[q].paused = queue[q].paused
         /\ ~queue[q].used /\ queue'[q].used = queue[q].used
         /\ queue'[q].items = queue[q].items
         /\ queue'[q].lamports = queue[q].lamports
BY DEF DelegateOracleQueue, TypeOK, Account, Others

\* Closing leaves an address without data.
LEMMA CloseEffect ==
  ASSUME TypeOK, NEW q \in QueueId, CloseOracleQueue(q)
  PROVE  /\ Others(q) /\ IsQueue(q)
         /\ queue'[q].owner = "system" /\ queue'[q].size = 0
         /\ ~queue'[q].init /\ ~queue'[q].paused /\ ~queue'[q].used
         /\ queue'[q].items = {} /\ queue[q].items = {}
<1>1. queue'[q] = NoAccount(0) /\ Others(q)
  BY DEF CloseOracleQueue, TypeOK, Others
<1> QED BY <1>1 DEF CloseOracleQueue, NoAccount

\* A request adds an item and its price to a program-owned queue.
LEMMA RequestEffect ==
  ASSUME TypeOK, NEW q \in QueueId, NEW args \in Request, NEW pos \in Position,
         RequestRandomness(q, args, pos)
  PROVE  /\ Others(q) /\ IsQueue(q)
         /\ new_item(q, args, pos) \in Item
         /\ \A other \in queue[q].items : other.pos # pos
         /\ queue'[q].owner = queue[q].owner /\ queue'[q].init = queue[q].init
         /\ queue'[q].size = queue[q].size /\ queue'[q].used = TRUE
         /\ queue'[q].items = queue[q].items \union {new_item(q, args, pos)}
         /\ queue'[q].lamports = queue[q].lamports + request_cost(q, args.high)
<1> DEFINE item == new_item(q, args, pos)
           cost == request_cost(q, args.high)
           new  == add_item(queue[q], item, cost)
<1>1. item \in Item BY NewItemType, SMTT(60)
<1>2. /\ IsQueue(q) /\ pos \notin {other.pos : other \in queue[q].items}
      /\ queue' = [queue EXCEPT ![q] = new]
  BY DEF RequestRandomness
<1>3. queue[q] \in Account BY DEF TypeOK
<1>4. cost \in Nat BY CostNat DEF Request
<1> HIDE DEF item, cost
<1>5. queue'[q] = new /\ Others(q)
  BY <1>2 DEF TypeOK, Others
<1>6. /\ new.owner = queue[q].owner /\ new.size = queue[q].size
      /\ new.init = queue[q].init /\ new.used = TRUE
      /\ new.items = queue[q].items \union {item}
  BY <1>1, <1>3, <1>4, AddItemType, ZenonT(60)
<1>7. new.lamports = queue[q].lamports + cost
  BY <1>3, AddItemLamports, ZenonT(60)
<1> QED BY <1>1, <1>2, <1>5, <1>6, <1>7 DEF item, cost

\* A request adds its item and no other.
LEMMA RequestItems ==
  ASSUME TypeOK, NEW q \in QueueId, NEW args \in Request, NEW pos \in Position,
         RequestRandomness(q, args, pos)
  PROVE  queue'[q].items = queue[q].items \union {new_item(q, args, pos)}
<1>1. queue'[q] = add_item(queue[q], new_item(q, args, pos), request_cost(q, args.high))
  BY DEF RequestRandomness, TypeOK
<1>2. queue[q] \in Account BY DEF TypeOK
<1> QED BY <1>1, <1>2 DEF add_item, Account

\* A settlement removes items and pays for them; nothing else changes.
LEMMA SettleEffect ==
  ASSUME TInv, NEW q \in QueueId, NEW gone \in SUBSET queue[q].items, NEW outcome,
         Settle(q, gone, outcome)
  PROVE  /\ Others(q)
         /\ fee(q, gone) \in Nat /\ fee(q, gone) <= queue[q].lamports
         /\ queue'[q].owner = queue[q].owner /\ queue'[q].init = queue[q].init
         /\ queue'[q].size = queue[q].size /\ queue'[q].used = queue[q].used
         /\ queue'[q].paused = queue[q].paused
         /\ queue'[q].items = queue[q].items \ gone
         /\ queue'[q].lamports = queue[q].lamports - fee(q, gone)
<1>1. IsFiniteSet(gone) BY FS_Subset DEF TInv, ItemsFinite
<1>2. fee(q, gone) \in Nat /\ fee(q, gone) <= queue[q].lamports
  BY <1>1, FeeNat DEF Settle
<1>3. queue[q] \in Account BY DEF TInv, TypeOK
<1>4. queue'[q] = remove_items(queue[q], gone, fee(q, gone)) /\ Others(q)
  BY DEF Settle, TInv, TypeOK, Others
<1> QED BY <1>2, <1>3, <1>4, RemoveItemsType

\* A gift raises the balance of an address.
LEMMA GiftEffect ==
  ASSUME TypeOK, NEW q \in QueueId, NEW lamports \in Gifts, Gift(q, lamports)
  PROVE  /\ Others(q)
         /\ queue'[q].owner = queue[q].owner /\ queue'[q].init = queue[q].init
         /\ queue'[q].size = queue[q].size /\ queue'[q].used = queue[q].used
         /\ queue'[q].paused = queue[q].paused
         /\ queue'[q].items = queue[q].items
         /\ queue'[q].lamports >= queue[q].lamports
<1>1. lamports \in Nat BY ProgramAssumption, SMTT(60)
<1> QED BY <1>1 DEF Gift, TypeOK, Account, Others

-----------------------------------------------------------------------------
\* Only requests, fulfilments and purges change what a queue holds.
SameItems == \A p \in QueueId : queue'[p].items = queue[p].items

\* A step of a queue leaves all items alone, adds one, or settles some.
LEMMA ItemsChange ==
  ASSUME TInv, NEW q \in QueueId, QueueStep(q)
  PROVE  /\ UNCHANGED <<slot, time>>
         /\ \/ SameItems /\ resolved' = resolved
            \/ \E args \in Request, pos \in Position : RequestRandomness(q, args, pos)
            \/ \E item \in queue[q].items, key \in Key : ProvideRandomness(q, item, key)
            \/ PurgeExpiredRequests(q)
<1>0. TypeOK BY DEF TInv
<1>1. ASSUME NEW target \in Targets, GrowQueue(q, target)
      PROVE  SameItems /\ UNCHANGED <<slot, time, resolved>>
  BY <1>0, <1>1, GrowEffect, Zenon DEF GrowQueue, Others, SameItems
<1>2. ASSUME NEW target \in Targets, InitializeOracleQueue(q, target)
      PROVE  SameItems /\ UNCHANGED <<slot, time, resolved>>
  <2>1. UNCHANGED <<slot, time, resolved>> BY <1>2 DEF InitializeOracleQueue
  <2> QED BY <1>0, <1>2, <2>1, InitializeEffect DEF Others, SameItems
<1>3. ASSUME NEW paused \in BOOLEAN, SetQueuePaused(q, paused)
      PROVE  SameItems /\ UNCHANGED <<slot, time, resolved>>
  BY <1>0, <1>3, PauseEffect DEF SetQueuePaused, Others, SameItems
<1>4. ASSUME DelegateOracleQueue(q)
      PROVE  SameItems /\ UNCHANGED <<slot, time, resolved>>
  BY <1>0, <1>4, DelegateEffect DEF DelegateOracleQueue, Others, SameItems
<1>5. ASSUME CloseOracleQueue(q)
      PROVE  SameItems /\ UNCHANGED <<slot, time, resolved>>
  <2>1. UNCHANGED <<slot, time, resolved>> BY <1>5 DEF CloseOracleQueue
  <2> QED BY <1>0, <1>5, <2>1, CloseEffect, SMTT(60) DEF Others, SameItems
<1>6. ASSUME NEW lamports \in Gifts, Gift(q, lamports)
      PROVE  SameItems /\ UNCHANGED <<slot, time, resolved>>
  BY <1>0, <1>6, GiftEffect DEF Gift, Others, SameItems
<1>7. ASSUME NEW args \in Request, NEW pos \in Position,
             RequestRandomness(q, args, pos)
      PROVE  UNCHANGED <<slot, time>>
  BY <1>7 DEF RequestRandomness
<1>8. ASSUME NEW item \in queue[q].items, NEW key \in Key,
             ProvideRandomness(q, item, key)
      PROVE  UNCHANGED <<slot, time>>
  BY <1>8 DEF ProvideRandomness
<1>9. ASSUME PurgeExpiredRequests(q) PROVE UNCHANGED <<slot, time>>
  BY <1>9 DEF PurgeExpiredRequests
<1> QED BY <1>1, <1>2, <1>3, <1>4, <1>5, <1>6, <1>7, <1>8, <1>9 DEF QueueStep

\* The types and finiteness hold in every reachable state.
LEMMA TInvAlways == Spec => []TInv
BY InitTInv, NextTInv, PTL DEF Spec

\* Either one queue step, or no queue changes.
LEMMA NextCases ==
  ASSUME [Next]_vars
  PROVE  \/ \E q \in QueueId : QueueStep(q)
         \/ UNCHANGED queue
BY DEF Next, OracleStep, Initialize, AddOracle, RemoveOracle, NextSlot, vars

\* What AccountsConsistent says of one account.
Consistent(a) ==
  /\ a.owner = "system" => a.size = 0 /\ ~a.init
  /\ a.init => a.size >= MinSize
  /\ ~a.init => a.items = {} /\ ~a.used /\ ~a.paused
  /\ a.items # {} => a.used
  /\ a.owner = "delegation" => a.init /\ ~a.used

\* Every instruction keeps flags, data and ownership in agreement.
LEMMA NextAccounts ==
  TInv /\ AccountsConsistent /\ [Next]_vars => AccountsConsistent'
<1> SUFFICES ASSUME TInv, AccountsConsistent, [Next]_vars PROVE AccountsConsistent'
  OBVIOUS
<1>0. \A p \in QueueId : Consistent(queue[p])
  BY DEF AccountsConsistent, Consistent
<1>1. SUFFICES \A p \in QueueId : Consistent(queue'[p])
  BY DEF AccountsConsistent, Consistent
<1>2. TypeOK BY SMTT(60) DEF TInv
<1>3. ASSUME NEW q \in QueueId, QueueStep(q)
      PROVE  Others(q) /\ Consistent(queue'[q])
  <2>1. ASSUME NEW target \in Targets, GrowQueue(q, target)
        PROVE  Others(q) /\ Consistent(queue'[q])
    BY <1>0, <1>2, <2>1, GrowEffect, SMTT(60) DEF Consistent
  <2>2. ASSUME NEW target \in Targets, InitializeOracleQueue(q, target)
        PROVE  Others(q) /\ Consistent(queue'[q])
    BY <1>0, <1>2, <2>2, InitializeEffect, SMTT(60) DEF Consistent
  <2>3. ASSUME NEW paused \in BOOLEAN, SetQueuePaused(q, paused)
        PROVE  Others(q) /\ Consistent(queue'[q])
    BY <1>0, <1>2, <2>3, PauseEffect DEF Consistent, IsQueue
  <2>4. ASSUME DelegateOracleQueue(q) PROVE Others(q) /\ Consistent(queue'[q])
    BY <1>0, <1>2, <2>4, DelegateEffect DEF Consistent, IsQueue
  <2>5. ASSUME CloseOracleQueue(q) PROVE Others(q) /\ Consistent(queue'[q])
    BY <1>0, <1>2, <2>5, CloseEffect, SMTT(60) DEF Consistent, IsQueue
  <2>6. ASSUME NEW args \in Request, NEW pos \in Position,
               RequestRandomness(q, args, pos)
        PROVE  Others(q) /\ Consistent(queue'[q])
    BY <1>0, <1>2, <2>6, RequestEffect, Zenon DEF Consistent, IsQueue
  <2>7. ASSUME NEW gone \in SUBSET queue[q].items, NEW outcome,
               Settle(q, gone, outcome)
        PROVE  Others(q) /\ Consistent(queue'[q])
    BY <1>0, <2>7, SettleEffect, ZenonT(60) DEF Consistent
  <2>8. ASSUME NEW item \in queue[q].items, NEW key \in Key,
               ProvideRandomness(q, item, key)
        PROVE  Others(q) /\ Consistent(queue'[q])
    BY <2>7, <2>8 DEF ProvideRandomness
  <2>9. ASSUME PurgeExpiredRequests(q) PROVE Others(q) /\ Consistent(queue'[q])
    BY <2>7, <2>9 DEF PurgeExpiredRequests
  <2>10. ASSUME NEW lamports \in Gifts, Gift(q, lamports)
         PROVE  Others(q) /\ Consistent(queue'[q])
    BY <1>0, <1>2, <2>10, GiftEffect DEF Consistent
  <2> QED BY <1>3, <2>1, <2>2, <2>3, <2>4, <2>5, <2>6, <2>8, <2>9, <2>10, SMTT(60) DEF QueueStep
<1>4. CASE UNCHANGED queue BY <1>0, <1>4
<1> QED BY <1>0, <1>3, <1>4, NextCases DEF Others

\* Flags, data and ownership of every queue account agree, and a queue handed
\* to the delegation program never held a request.
THEOREM AccountsConsistentThm == Spec => []AccountsConsistent
<1>1. Init => AccountsConsistent
  BY DEF Init, AccountsConsistent, NoAccount
<1> QED BY <1>1, NextAccounts, TInvAlways, PTL DEF Spec

-----------------------------------------------------------------------------
\* The oracles and their queues: open queues are counted exactly, and the key a
\* request was made under stays in place.

\* Only the last step of initialisation and closing change which queues are
\* initialised, or touch an oracle's data.
LEMMA InitFlags ==
  ASSUME TInv, NEW q \in QueueId, QueueStep(q)
  PROVE  \/ \E target \in Targets : InitializeOracleQueue(q, target)
         \/ CloseOracleQueue(q)
         \/ /\ \A p \in QueueId : queue'[p].init = queue[p].init
            /\ UNCHANGED <<oracle, oracles>>
<1> DEFINE Same == /\ \A p \in QueueId : queue'[p].init = queue[p].init
                   /\ UNCHANGED <<oracle, oracles>>
<1>0. TypeOK BY DEF TInv
<1>1. ASSUME NEW target \in Targets, GrowQueue(q, target) PROVE Same
  BY <1>0, <1>1, GrowEffect, Zenon DEF GrowQueue, Others
<1>2. ASSUME NEW paused \in BOOLEAN, SetQueuePaused(q, paused) PROVE Same
  BY <1>0, <1>2, PauseEffect DEF SetQueuePaused, Others
<1>3. CASE DelegateOracleQueue(q)
  BY <1>0, <1>3, DelegateEffect DEF DelegateOracleQueue, Others
<1>4. ASSUME NEW args \in Request, NEW pos \in Position,
             RequestRandomness(q, args, pos)
      PROVE  Same
  <2>1. UNCHANGED <<oracle, oracles>> BY <1>4 DEF RequestRandomness
  <2> QED BY <1>0, <1>4, <2>1, RequestEffect, Zenon DEF Others
<1>5. ASSUME NEW item \in queue[q].items, NEW key \in Key,
             ProvideRandomness(q, item, key)
      PROVE  Same
  <2>1. Settle(q, {item}, key) /\ UNCHANGED <<oracle, oracles>>
    BY <1>5 DEF ProvideRandomness
  <2>2. {item} \in SUBSET queue[q].items BY <1>5
  <2> QED BY <2>1, <2>2, SettleEffect, Zenon DEF Others
<1>6. CASE PurgeExpiredRequests(q)
  <2> DEFINE gone == {item \in queue[q].items : Expired(item.created_at, time)}
  <2>1. Settle(q, gone, "purged") /\ UNCHANGED <<oracle, oracles>>
    BY <1>6 DEF PurgeExpiredRequests
  <2>2. gone \in SUBSET queue[q].items OBVIOUS
  <2> HIDE DEF gone
  <2> QED BY <2>1, <2>2, SettleEffect DEF Others
<1>7. ASSUME NEW lamports \in Gifts, Gift(q, lamports) PROVE Same
  BY <1>0, <1>7, GiftEffect DEF Gift, Others
<1> QED BY <1>1, <1>2, <1>3, <1>4, <1>5, <1>6, <1>7 DEF QueueStep

Open(o) == {i \in Index : queue[<<o, i>>].init}

\* What OpenQueuesExact says of one oracle.
Counted(o) ==
  /\ oracle[o].open_queues = Cardinality(Open(o))
  /\ Open(o) # {} => oracle[o].registered
  /\ oracles[o] = IF oracle[o].registered THEN 1 ELSE 0

\* An oracle has finitely many open queues.
LEMMA OpenFinite == \A o : IsFiniteSet(Open(o)) /\ Cardinality(Open(o)) \in Nat
BY FS_Subset, FS_CardinalityType, ProgramAssumption, Zenon DEF Open

\* Every instruction keeps open_queues exact: initialisation and closing change
\* the set of open queues by one, and only an oracle without any is removed.
LEMMA NextOpenQueues ==
  TInv /\ OpenQueuesExact /\ [Next]_vars => OpenQueuesExact'
<1> SUFFICES ASSUME TInv, OpenQueuesExact, [Next]_vars PROVE OpenQueuesExact'
  OBVIOUS
<1>0. \A o \in Oracle : Counted(o)
  BY DEF OpenQueuesExact, Counted, Open
<1>1. SUFFICES \A o \in Oracle : Counted(o)'
  BY SMTT(60) DEF OpenQueuesExact, Counted, Open
<1>2. TypeOK BY DEF TInv
<1>3. ASSUME NEW o \in Oracle, NEW key \in Key, AddOracle(o, key)
      PROVE  \A x \in Oracle : Counted(x)'
  <2>1. \A x \in Oracle : Open(x)' = Open(x) BY <1>3 DEF AddOracle, Open
  <2>2. Open(o) = {} /\ oracles[o] = 0 BY <1>0, <1>3 DEF AddOracle, Counted
  <2>3. Counted(o)'
    <3>1. /\ oracle'[o].open_queues = 0 /\ oracle'[o].registered = TRUE
          /\ oracles'[o] = oracles[o] + 1
      BY <1>2, <1>3 DEF AddOracle, TypeOK
    <3>2. Open(o)' = {} BY <2>1, <2>2
    <3> QED BY <2>2, <3>1, <3>2, FS_EmptySet DEF Counted
  <2>4. ASSUME NEW x \in Oracle, x # o PROVE Counted(x)'
    BY <1>0, <1>2, <1>3, <2>1, <2>4 DEF AddOracle, Counted, TypeOK
  <2> QED BY <2>3, <2>4
<1>4. ASSUME NEW o \in Oracle, RemoveOracle(o)
      PROVE  \A x \in Oracle : Counted(x)'
  <2>1. \A x \in Oracle : Open(x)' = Open(x) BY <1>4 DEF RemoveOracle, Open
  <2>2. Open(o) = {}
    BY <1>0, <1>4, OpenFinite, FS_EmptySet DEF RemoveOracle, Counted
  <2>3. Counted(o)'
    BY <1>2, <1>4, <2>1, <2>2, FS_EmptySet, Zenon DEF RemoveOracle, Counted, NoOracle, TypeOK
  <2>4. ASSUME NEW x \in Oracle, x # o PROVE Counted(x)'
    BY <1>0, <1>2, <1>4, <2>1, <2>4 DEF RemoveOracle, Counted, TypeOK
  <2> QED BY <2>3, <2>4
<1>5. ASSUME NEW q \in QueueId, NEW target \in Targets, InitializeOracleQueue(q, target)
      PROVE  \A x \in Oracle : Counted(x)'
  <2>1. PICK o \in Oracle, i \in Index : q = <<o, i>> BY DEF QueueId
  <2>2. \A p \in QueueId : queue'[p].init = IF p = q THEN TRUE ELSE queue[p].init
    BY <1>2, <1>5, InitializeEffect, ZenonT(60) DEF Others, TypeOK, Account
  <2>3. i \notin Open(o) BY <1>2, <1>5, <2>1, InitializeEffect DEF Open
  <2>4. Open(o)' = Open(o) \union {i} BY <2>1, <2>2, Zenon DEF Open, QueueId
  <2>5. Cardinality(Open(o)') = Cardinality(Open(o)) + 1
    BY <2>3, <2>4, OpenFinite, FS_AddElement, Zenon
  <2>6. /\ oracle[o].registered /\ oracle' = [oracle EXCEPT ![o].open_queues = @ + 1]
        /\ oracles' = oracles
    BY <1>5, <2>1 DEF InitializeOracleQueue
  <2>7. Counted(o)'
    BY <1>0, <1>2, <2>5, <2>6 DEF Counted, TypeOK, OracleData
  <2>8. ASSUME NEW x \in Oracle, x # o PROVE Counted(x)'
    <3>1. Open(x)' = Open(x) BY <2>1, <2>2, <2>8, Zenon DEF Open, QueueId
    <3> QED BY <1>0, <1>2, <2>6, <2>8, <3>1 DEF Counted, TypeOK
  <2> QED BY <2>7, <2>8
<1>6. ASSUME NEW q \in QueueId, CloseOracleQueue(q)
      PROVE  \A x \in Oracle : Counted(x)'
  <2>1. PICK o \in Oracle, i \in Index : q = <<o, i>> BY DEF QueueId
  <2>2. \A p \in QueueId : queue'[p].init = IF p = q THEN FALSE ELSE queue[p].init
    BY <1>2, <1>6, CloseEffect DEF Others, TypeOK, CloseOracleQueue, NoAccount
  <2>3. i \in Open(o) BY <1>2, <1>6, <2>1, CloseEffect DEF Open, IsQueue
  <2>4. Open(o)' = Open(o) \ {i} BY <2>1, <2>2, Zenon DEF Open, QueueId
  <2>5. /\ Cardinality(Open(o)') = Cardinality(Open(o)) - 1
        /\ Cardinality(Open(o)') \in Nat
    BY <2>3, <2>4, OpenFinite, FS_RemoveElement, FS_CardinalityType
  <2>6. /\ oracle[o].registered /\ oracles' = oracles
        /\ oracle' = [oracle EXCEPT ![o].open_queues = IF @ = 0 THEN 0 ELSE @ - 1]
    BY <1>6, <2>1 DEF CloseOracleQueue
  <2>7. Counted(o)'
    BY <1>0, <1>2, <2>5, <2>6, OpenFinite DEF Counted, TypeOK, OracleData
  <2>8. ASSUME NEW x \in Oracle, x # o PROVE Counted(x)'
    <3>1. Open(x)' = Open(x) BY <2>1, <2>2, <2>8, ZenonT(60) DEF Open, QueueId
    <3> QED BY <1>0, <1>2, <2>6, <2>8, <3>1 DEF Counted, TypeOK
  <2> QED BY <2>7, <2>8
<1>7. ASSUME \A p \in QueueId : queue'[p].init = queue[p].init,
             UNCHANGED <<oracle, oracles>>
      PROVE  \A x \in Oracle : Counted(x)'
  <2>1. \A x \in Oracle : Open(x)' = Open(x) BY <1>7 DEF Open, QueueId
  <2> QED BY <1>0, <1>7, <2>1 DEF Counted
<1>8. ASSUME NEW q \in QueueId, QueueStep(q) PROVE \A x \in Oracle : Counted(x)'
  BY <1>5, <1>6, <1>7, <1>8, InitFlags
<1>9. CASE Initialize \/ (\E dt \in TimeSteps : NextSlot(dt)) \/ UNCHANGED vars
  BY <1>7, <1>9 DEF Initialize, NextSlot, vars
<1> QED BY <1>3, <1>4, <1>8, <1>9 DEF Next, OracleStep

\* No queue is open at the start.
LEMMA InitOpenQueues == Init => OpenQueuesExact
<1> SUFFICES ASSUME Init, NEW o \in Oracle PROVE Counted(o)
  BY DEF OpenQueuesExact, Counted, Open
<1>1. Open(o) = {} BY DEF Init, Open, QueueId, NoAccount
<1> QED BY <1>1, FS_EmptySet DEF Init, Counted, NoOracle

\* open_queues counts exactly the initialised queues, so remove (operation 1 of
\* process_modify_oracles) never leaves a queue without its oracle.
THEOREM OpenQueuesExactThm == Spec => []OpenQueuesExact
BY InitOpenQueues, NextOpenQueues, TInvAlways, PTL DEF Spec

-----------------------------------------------------------------------------
\* No item arrives in a settlement.
LEMMA SettleShrinks ==
  ASSUME TInv, NEW q \in QueueId,
         \/ \E item \in queue[q].items, key \in Key : ProvideRandomness(q, item, key)
         \/ PurgeExpiredRequests(q)
  PROVE  \A p \in QueueId : queue'[p].items \subseteq queue[p].items
<1>1. ASSUME NEW gone \in SUBSET queue[q].items, NEW outcome, Settle(q, gone, outcome)
      PROVE  \A p \in QueueId : queue'[p].items \subseteq queue[p].items
  BY <1>1, SettleEffect, Zenon DEF Others
<1> QED BY <1>1, Zenon DEF ProvideRandomness, PurgeExpiredRequests

\* No instruction changes the key of an oracle that has a pending request: such
\* an oracle has an open queue, so it can be neither removed nor added again.
LEMMA NextKeyCommitted ==
  /\ TInv /\ AccountsConsistent /\ OpenQueuesExact
  /\ KeyCommitted /\ [Next]_vars
  => KeyCommitted'
<1> SUFFICES ASSUME TInv, AccountsConsistent, OpenQueuesExact, KeyCommitted, [Next]_vars
             PROVE  KeyCommitted'
  OBVIOUS
<1>0. TypeOK BY DEF TInv
<1>1. ASSUME NEW o \in Oracle, Open(o) = {}
      PROVE  \A q \in QueueId : q[1] = o => queue[q].items = {}
  BY <1>1 DEF AccountsConsistent, Open, QueueId
<1>2. ASSUME NEW o \in Oracle, Open(o) = {}, UNCHANGED queue,
             \A x \in Oracle : x # o => oracle'[x] = oracle[x]
      PROVE  KeyCommitted'
  BY <1>1, <1>2 DEF KeyCommitted, QueueId
<1>3. ASSUME NEW o \in Oracle, NEW key \in Key, AddOracle(o, key) PROVE KeyCommitted'
  <2>1. Open(o) = {} BY <1>3, Zenon DEF OpenQueuesExact, Open, AddOracle
  <2> QED BY <1>0, <1>2, <1>3, <2>1, SMTT(60) DEF AddOracle, TypeOK
<1>4. ASSUME NEW o \in Oracle, RemoveOracle(o) PROVE KeyCommitted'
  <2>1. Open(o) = {}
    BY <1>4, OpenFinite, FS_EmptySet, Zenon DEF OpenQueuesExact, Open, RemoveOracle
  <2> QED BY <1>0, <1>2, <1>4, <2>1 DEF RemoveOracle, TypeOK
<1>5. ASSUME \A p \in QueueId : queue'[p].items \subseteq queue[p].items,
             \A o \in Oracle : oracle'[o].vrf_pubkey = oracle[o].vrf_pubkey
      PROVE  KeyCommitted'
  BY <1>5 DEF KeyCommitted, QueueId
<1>6. ASSUME NEW q \in QueueId, QueueStep(q) PROVE KeyCommitted'
  <2>1. \A o \in Oracle : oracle'[o].vrf_pubkey = oracle[o].vrf_pubkey
    <3>1. ASSUME NEW target \in Targets, InitializeOracleQueue(q, target)
          PROVE  \A o \in Oracle : oracle'[o].vrf_pubkey = oracle[o].vrf_pubkey
      BY <1>0, <3>1 DEF InitializeOracleQueue, TypeOK, OracleData
    <3>2. ASSUME CloseOracleQueue(q)
          PROVE  \A o \in Oracle : oracle'[o].vrf_pubkey = oracle[o].vrf_pubkey
      BY <1>0, <3>2 DEF CloseOracleQueue, TypeOK, OracleData
    <3> QED BY <1>6, <3>1, <3>2, InitFlags
  <2>2. ASSUME NEW args \in Request, NEW pos \in Position,
               RequestRandomness(q, args, pos)
        PROVE  KeyCommitted'
    <3>0. Others(q) BY <1>0, <2>2, RequestEffect, Zenon
    <3>1. queue'[q].items = queue[q].items \union {new_item(q, args, pos)}
      BY <1>0, <2>2, RequestItems
    <3>2. new_item(q, args, pos).vrf_pubkey = oracle[q[1]].vrf_pubkey
      BY DEF new_item
    <3> QED BY <2>1, <3>0, <3>1, <3>2, SMTT(60) DEF KeyCommitted, QueueId, Others
  <2> QED BY <1>5, <1>6, <2>1, <2>2, ItemsChange, SettleShrinks DEF SameItems
<1>7. CASE Initialize \/ (\E dt \in TimeSteps : NextSlot(dt)) \/ UNCHANGED vars
  BY <1>5, <1>7 DEF Initialize, NextSlot, vars
<1> QED BY <1>3, <1>4, <1>6, <1>7 DEF Next, OracleStep

\* The VRF key that can answer a request is the one its oracle had when the
\* request was made (provide_randomness verifies against oracle_data).
THEOREM KeyCommittedThm == Spec => []KeyCommitted
<1>1. Init => KeyCommitted BY DEF Init, KeyCommitted, NoAccount
<1> QED
  BY <1>1, NextKeyCommitted, TInvAlways, AccountsConsistentThm, OpenQueuesExactThm, PTL
  DEF Spec

=============================================================================
