------------------------------ MODULE VrfProgram ------------------------------
(***************************************************************************)
(* The on-chain program (program/src): the list of oracles, their data     *)
(* accounts and their queues. Each action is one successful transaction    *)
(* with one instruction; a failed one changes nothing. A queue's contents  *)
(* are a set of items (QueueAccount shows that the bytes implement one);   *)
(* an insertion takes any free position.                                   *)
(***************************************************************************)
EXTENDS CreatedAt, FiniteSets

CONSTANTS
  Oracle,         \* oracle identities
  Index,          \* queue indexes
  Key,            \* VRF public keys
  Seed,           \* caller_seed with callback program and discriminator
  Position,       \* insertion offsets in a queue
  Exempt,         \* queues for which is_fee_exempt_ephemeral_queue holds
  Targets,        \* target_size arguments
  Gifts,          \* lamports anyone may send to a queue address
  TimeSteps,      \* seconds between two slots
  MAX_EXTRA_BYTES, MAX_QUEUE_ACCOUNT_SIZE,
  MinSize,        \* discriminator and Queue header
  RentBase,       \* rent of an empty account, in the unit of one byte's rent
  VRF_LAMPORTS_COST, VRF_HIGH_PRIORITY_LAMPORTS_COST,
  MaxSlot, MaxGift  \* bounds on the slot and on what gifts may raise a balance to

QueueId == Oracle \X Index

ASSUME ProgramAssumption ==
  /\ Exempt \subseteq QueueId
  /\ IsFiniteSet(Index)
  /\ "purged" \notin Key
  /\ Targets \subseteq Nat /\ Gifts \subseteq Nat /\ TimeSteps \subseteq Nat
  /\ {MAX_EXTRA_BYTES, MAX_QUEUE_ACCOUNT_SIZE, MinSize, RentBase, MaxSlot, MaxGift,
      VRF_LAMPORTS_COST, VRF_HIGH_PRIORITY_LAMPORTS_COST} \subseteq Nat
  /\ MinSize # 0

VARIABLES
  slot, time,   \* Clock
  initialized,  \* whether the oracles account exists
  oracles,      \* how often each identity is in the list
  oracle,       \* oracle data accounts
  queue,        \* queue accounts
  resolved      \* history: requests that left a queue, and how

vars == <<slot, time, initialized, oracles, oracle, queue, resolved>>

NoKey == "no key"

NoOracle == [registered |-> FALSE, vrf_pubkey |-> NoKey,
             registration_slot |-> 0, open_queues |-> 0]

\* An address holding lamports at most: no data, owned by the system program.
\* used: some byte of the variable region is not zero.
NoAccount(lamports) ==
  [owner |-> "system", size |-> 0, init |-> FALSE, paused |-> FALSE,
   used |-> FALSE, items |-> {}, lamports |-> lamports]

\* What identifies a request: hashv of these, the slot hash following the slot.
Id(item) == <<item.seed, item.slot, item.time, item.pos>>

\* The arguments of a request: high priority or not, and whether the callback
\* accounts name the oracle.
Request == [seed : Seed, high : BOOLEAN, has_oracle : BOOLEAN]

\* vrf_pubkey records, for the properties, the oracle's key at the request.
Item == [seed : Seed, slot : Nat, time : Nat, pos : Position,
         created_at : 0 .. (Modulus - 1), priority_request : BOOLEAN,
         has_oracle : BOOLEAN, vrf_pubkey : Key \union {NoKey}]

-----------------------------------------------------------------------------
\* Rent, fees and account sizes.

Rent(size) == RentBase + size

\* Fault: an address that already holds lamports gets no rent.
create_pda_no_top_up(qa, size) ==
  [qa EXCEPT !.owner = "vrf", !.size = size,
             !.lamports = IF @ = 0 THEN Rent(size) ELSE @]

\* create_pda tops a balance up; resize_pda also refunds what is above.
create_pda(qa, size) ==
  [qa EXCEPT !.owner = "vrf", !.size = size,
             !.lamports = IF @ < Rent(size) THEN Rent(size) ELSE @]

resize_pda(qa, size) == [qa EXCEPT !.size = size, !.lamports = Rent(size)]

allocate(qa, size) ==
  IF qa.owner # "vrf" THEN create_pda(qa, size) ELSE resize_pda(qa, size)

request_cost(q, high) ==
  CASE q \in Exempt          -> 0
    [] q \notin Exempt /\ high  -> VRF_HIGH_PRIORITY_LAMPORTS_COST
    [] q \notin Exempt /\ ~high -> VRF_LAMPORTS_COST

\* What the oracle collects for removing these items.
fee(q, items) ==
  IF q \in Exempt THEN 0
  ELSE   VRF_HIGH_PRIORITY_LAMPORTS_COST
           * Cardinality({item \in items : item.priority_request})
       + VRF_LAMPORTS_COST
           * Cardinality({item \in items : ~item.priority_request})

\* has_owner, and the discriminator check of Queue::try_from_bytes.
IsQueue(q) == queue[q].owner = "vrf" /\ queue[q].init

-----------------------------------------------------------------------------
\* Administration.

Initialize ==
  /\ ~initialized
  /\ initialized' = TRUE
  /\ UNCHANGED <<slot, time, oracles, oracle, queue, resolved>>

\* process_modify_oracles, operation 0; create_program_account fails on an
\* account in use.
AddOracle(o, key) ==
  /\ initialized
  /\ ~oracle[o].registered
  /\ oracles' = [oracles EXCEPT ![o] = @ + 1]
  /\ oracle' = [oracle EXCEPT ![o] =
       [registered |-> TRUE, vrf_pubkey |-> key, registration_slot |-> slot,
        open_queues |-> 0]]
  /\ UNCHANGED <<slot, time, initialized, queue, resolved>>

\* Fault: an oracle with open queues can be removed.
RemoveOracle_with_queues(o) ==
  /\ initialized
  /\ oracle[o].registered
  /\ oracles' = [oracles EXCEPT ![o] = 0]
  /\ oracle' = [oracle EXCEPT ![o] = NoOracle]
  /\ UNCHANGED <<slot, time, initialized, queue, resolved>>

\* process_modify_oracles, operation 1.
RemoveOracle(o) ==
  /\ initialized
  /\ oracle[o].registered
  /\ oracle[o].open_queues = 0
  /\ oracles' = [oracles EXCEPT ![o] = 0]
  /\ oracle' = [oracle EXCEPT ![o] = NoOracle]
  /\ UNCHANGED <<slot, time, initialized, queue, resolved>>

-----------------------------------------------------------------------------
\* The life of a queue.

extra_bytes(q, target) ==
  IF target < queue[q].size THEN 0 ELSE target - queue[q].size

\* Fault: only the growth is limited, not the size.
size_allowed_growth(q, target) == extra_bytes(q, target) <= MAX_QUEUE_ACCOUNT_SIZE

size_allowed(q, target) == target <= MAX_QUEUE_ACCOUNT_SIZE

\* process_initialize_oracle_queue short of its target: grow by one step. The
\* oracle data account is not looked at.
GrowQueue(q, target) ==
  /\ ~queue[q].init                                    \* is_empty_or_zeroed
  /\ size_allowed(q, target)
  /\ extra_bytes(q, target) > MAX_EXTRA_BYTES
  /\ queue' = [queue EXCEPT ![q] = allocate(@, @.size + MAX_EXTRA_BYTES)]
  /\ UNCHANGED <<slot, time, initialized, oracles, oracle, resolved>>

\* process_initialize_oracle_queue, last step: final size, discriminator and
\* header, and the oracle's count of open queues.
InitializeOracleQueue(q, target) ==
  /\ ~queue[q].init
  /\ size_allowed(q, target)
  /\ extra_bytes(q, target) <= MAX_EXTRA_BYTES
  /\ target >= MinSize
  /\ oracle[q[1]].registered
  /\ queue' = [queue EXCEPT ![q] = [allocate(@, target) EXCEPT !.init = TRUE]]
  /\ oracle' = [oracle EXCEPT ![q[1]].open_queues = @ + 1]
  /\ UNCHANGED <<slot, time, initialized, oracles, resolved>>

SetQueuePaused(q, paused) ==
  /\ IsQueue(q)
  /\ queue' = [queue EXCEPT ![q].paused = paused]
  /\ UNCHANGED <<slot, time, initialized, oracles, oracle, resolved>>

\* Fault: a queue that is merely drained can be delegated.
DelegateOracleQueue_drained(q) ==
  /\ IsQueue(q)
  /\ queue[q].items = {}
  /\ queue' = [queue EXCEPT ![q].owner = "delegation"]
  /\ UNCHANGED <<slot, time, initialized, oracles, oracle, resolved>>

\* The program has no instruction that takes a queue back.
DelegateOracleQueue(q) ==
  /\ IsQueue(q)
  /\ queue[q].items = {} /\ ~queue[q].used
  /\ queue' = [queue EXCEPT ![q].owner = "delegation"]
  /\ UNCHANGED <<slot, time, initialized, oracles, oracle, resolved>>

\* Fault: the oracle's count is left alone.
CloseOracleQueue_uncounted(q) ==
  /\ IsQueue(q)
  /\ oracle[q[1]].registered
  /\ queue[q].items = {}
  /\ queue' = [queue EXCEPT ![q] = NoAccount(0)]
  /\ UNCHANGED <<slot, time, initialized, oracles, oracle, resolved>>

CloseOracleQueue(q) ==
  /\ IsQueue(q)
  /\ oracle[q[1]].registered
  /\ queue[q].items = {}
  /\ oracle' = [oracle EXCEPT ![q[1]].open_queues = IF @ = 0 THEN 0 ELSE @ - 1]
  /\ queue' = [queue EXCEPT ![q] = NoAccount(0)]
  /\ UNCHANGED <<slot, time, initialized, oracles, resolved>>

-----------------------------------------------------------------------------
\* Requests and what becomes of them.

\* QueueAccount::add_item_with_id, and the transfer of the request's price.
add_item(qa, item, cost) ==
  [qa EXCEPT !.items = @ \union {item}, !.used = TRUE, !.lamports = @ + cost]

\* QueueAccount::remove_item(s_matching), and transfer_fee.
remove_items(qa, gone, amount) ==
  [qa EXCEPT !.items = @ \ gone, !.lamports = @ - amount]

\* The base_item of process_request_randomness with its id.
new_item(q, args, pos) ==
  [seed |-> args.seed, slot |-> slot, time |-> time, pos |-> pos,
   created_at |-> created_at_from(time), priority_request |-> args.high,
   has_oracle |-> args.has_oracle, vrf_pubkey |-> oracle[q[1]].vrf_pubkey]

\* process_request_randomness, for any caller.
RequestRandomness(q, args, pos) ==
  /\ IsQueue(q)
  /\ ~queue[q].paused
  /\ pos \notin {other.pos : other \in queue[q].items}
  /\ queue' = [queue EXCEPT ![q] =
                 add_item(@, new_item(q, args, pos), request_cost(q, args.high))]
  /\ UNCHANGED <<slot, time, initialized, oracles, oracle, resolved>>

\* Items leave and their fees go to the oracle (transfer_fee must not overdraw).
Settle(q, gone, outcome) ==
  /\ fee(q, gone) <= queue[q].lamports
  /\ queue' = [queue EXCEPT ![q] = remove_items(@, gone, fee(q, gone))]
  /\ resolved' = resolved \union
       {[queue |-> q, id |-> Id(item), outcome |-> outcome] : item \in gone}

\* The verifier accepts exactly the output that the registered key gives.
verify_vrf(vrf_pubkey, key) == key = vrf_pubkey

\* Fault: fulfilment in the slot of the request is accepted.
later_slot_or_same(item) == slot >= item.slot

later_slot(item) == slot > item.slot

\* process_provide_randomness with a proof made under some key. The callback
\* may fail, which fails the transaction.
ProvideRandomness(q, item, key) ==
  /\ IsQueue(q)
  /\ oracle[q[1]].registered
  /\ item \in queue[q].items
  /\ ~item.has_oracle
  /\ later_slot(item)
  /\ verify_vrf(oracle[q[1]].vrf_pubkey, key)
  /\ Settle(q, {item}, key)
  /\ UNCHANGED <<slot, time, initialized, oracles, oracle>>

PurgeExpiredRequests(q) ==
  /\ IsQueue(q)
  /\ Settle(q, {item \in queue[q].items : Expired(item.created_at, time)}, "purged")
  /\ UNCHANGED <<slot, time, initialized, oracles, oracle>>

-----------------------------------------------------------------------------
\* The cluster.

\* A new bank; its Clock is fixed for all transactions of the slot.
NextSlot(dt) ==
  /\ slot < MaxSlot
  /\ slot' = slot + 1
  /\ time' = time + dt
  /\ UNCHANGED <<initialized, oracles, oracle, queue, resolved>>

\* Anyone may send lamports to a queue address, whether it exists or not.
Gift(q, lamports) ==
  /\ queue[q].lamports + lamports <= MaxGift
  /\ queue' = [queue EXCEPT ![q].lamports = @ + lamports]
  /\ UNCHANGED <<slot, time, initialized, oracles, oracle, resolved>>

Init ==
  /\ slot = 0 /\ time = 0
  /\ initialized = FALSE
  /\ oracles = [o \in Oracle |-> 0]
  /\ oracle = [o \in Oracle |-> NoOracle]
  /\ queue = [q \in QueueId |-> NoAccount(0)]
  /\ resolved = {}

OracleStep(o) ==
  \/ \E key \in Key : AddOracle(o, key)
  \/ RemoveOracle(o)

QueueStep(q) ==
  \/ \E target \in Targets : GrowQueue(q, target) \/ InitializeOracleQueue(q, target)
  \/ \E paused \in BOOLEAN : SetQueuePaused(q, paused)
  \/ DelegateOracleQueue(q)
  \/ CloseOracleQueue(q)
  \/ \E args \in Request, pos \in Position : RequestRandomness(q, args, pos)
  \/ \E item \in queue[q].items, key \in Key : ProvideRandomness(q, item, key)
  \/ PurgeExpiredRequests(q)
  \/ \E lamports \in Gifts : Gift(q, lamports)

Next ==
  \/ Initialize
  \/ \E o \in Oracle : OracleStep(o)
  \/ \E q \in QueueId : QueueStep(q)
  \/ \E dt \in TimeSteps : NextSlot(dt)

Spec == Init /\ [][Next]_vars

-----------------------------------------------------------------------------
OracleData == [registered : BOOLEAN, vrf_pubkey : Key \union {NoKey},
               registration_slot : Nat, open_queues : Nat]

Account == [owner : {"system", "vrf", "delegation"},
            size : 0 .. MAX_QUEUE_ACCOUNT_SIZE, init : BOOLEAN, paused : BOOLEAN,
            used : BOOLEAN, items : SUBSET Item, lamports : Nat]

\* The types; in particular no queue outgrows MAX_QUEUE_ACCOUNT_SIZE.
TypeOK ==
  /\ slot \in Nat /\ time \in Nat /\ initialized \in BOOLEAN
  /\ oracles \in [Oracle -> Nat]
  /\ oracle \in [Oracle -> OracleData]
  /\ queue \in [QueueId -> Account]
  /\ resolved \subseteq [queue : QueueId, id : Seed \X Nat \X Nat \X Position,
                          outcome : Key \union {NoKey, "purged"}]

\* A queue's balance covers its rent and the fee of every pending request:
\* transfer_fee never fails for want of funds and never takes the account below
\* rent exemption, whatever was sent to the address before it was created.
Solvent ==
  \A q \in QueueId : queue[q].init =>
    queue[q].lamports >= Rent(queue[q].size) + fee(q, queue[q].items)

\* Oracle.open_queues is the number of initialised queues, delegated ones
\* included, and an oracle that has one is registered and listed once.
OpenQueuesExact ==
  \A o \in Oracle :
    LET open == {i \in Index : queue[<<o, i>>].init}
    IN  /\ oracle[o].open_queues = Cardinality(open)
        /\ open # {} => oracle[o].registered
        /\ oracles[o] = IF oracle[o].registered THEN 1 ELSE 0

\* The key that answers a request was fixed when the request was made: no
\* sequence of removals and registrations changes it while a request is pending.
KeyCommitted ==
  \A q \in QueueId : \A item \in queue[q].items :
    item.vrf_pubkey = oracle[q[1]].vrf_pubkey

\* A request is answered or purged once: an id that left a queue is never
\* pending there again, never resolves a second time, and no two pending
\* requests of a queue share an id. (The id hashes the position, which is
\* reused, and seeds, which repeat.)
ResolvedOnce ==
  /\ \A q \in QueueId : \A a, b \in queue[q].items : Id(a) = Id(b) => a = b
  /\ \A r \in resolved : \A item \in queue[r.queue].items : Id(item) # r.id
  /\ \A r, s \in resolved : (r.queue = s.queue /\ r.id = s.id) => r = s

\* A request still waiting is never dropped before its time: an id is resolved
\* without an answer only in a later slot and more than the TTL after it was
\* made.
PurgedOnlyWhenExpired ==
  \A r \in resolved :
    /\ r.id[2] < slot
    /\ r.outcome = "purged" => time - r.id[3] > TTL

\* Data, flags and ownership agree: only program-owned queues hold requests,
\* and one that was handed to the delegation program never held any.
AccountsConsistent ==
  \A q \in QueueId : LET a == queue[q] IN
    /\ a.owner = "system" => a.size = 0 /\ ~a.init
    /\ a.init => a.size >= MinSize
    /\ ~a.init => a.items = {} /\ ~a.used /\ ~a.paused
    /\ a.items # {} => a.used
    /\ a.owner = "delegation" => a.init /\ ~a.used

-----------------------------------------------------------------------------
\* The requests of all queues, pending and resolved, for RequestLife.
PendingRequests ==
  UNION {{[id |-> <<q, Id(item)>>, slot |-> item.slot] : item \in queue[q].items} :
           q \in QueueId}

ResolvedRequests == {[id |-> <<r.queue, r.id>>, slot |-> r.id[2]] : r \in resolved}

Life == INSTANCE RequestLife
          WITH slot <- slot, pending <- PendingRequests, gone <- ResolvedRequests

\* Across all queues the program keeps the promise of RequestLife: fulfilment and
\* purge, pauses, closed and reopened queues and replaced oracles never bring an
\* id back, and nothing is removed in the slot it was requested in.
KeepsRequestLife == Life!Spec

=============================================================================
