# Verification of solana-vrf

TLA+ specifications of the VRF program (`src/program`, `src/api`) and of the oracle
that serves it (`src/vrf-oracle`), checked with TLC on small instances, and theorems
about them checked with TLAPS for every value of the constants.

## The system

A user program asks for randomness by adding a request to an oracle's **queue
account**. The **oracle** watches its queues, computes the VRF output of each request's
id and sends `provide_randomness`; the **program** verifies the proof, removes the
request, pays the oracle and calls the user back. A request not answered within
`QUEUE_TTL_SECONDS` (120 s) can be purged by anyone. Oracles are registered by an
administrator, and own queues that are grown, initialised, paused, delegated and closed.

### Inventory

| Part | Code | Modelled by |
| --- | --- | --- |
| Queue account: byte layout, hole reuse, trimming, purge pass | `api/src/state/queue.rs` | `QueueAccount`, abstractly `AbstractQueue` |
| Creation stamp, age and expiry, on chain and in the oracle | `queue.rs`, `purge_expired_requests.rs`, `processor.rs` | `CreatedAt`, `StampClock` |
| Oracle registry | `initialize.rs`, `modify_oracles.rs` | `VrfProgram` |
| Life of a queue, rent, sizes | `initialize_oracle_queue.rs`, `close_`, `delegate_oracle_queue.rs`, `set_queue_paused.rs`, `pda.rs`, `steel.rs` | `VrfProgram` |
| Requests, answers, purges, fees | `request_randomness.rs`, `provide_randomness.rs`, `purge_expired_requests.rs`, `fees.rs` | `VrfProgram` |
| Oracle: views of a queue, task bookkeeping | `processor.rs`, `client.rs` | `OracleViews`, `OracleViewsLive` |
| Oracle: when it scans | `client.rs` (`run`) | `ScanFlight` |
| Oracle: one fulfilment task | `processor.rs` | `FulfillTask` |
| Oracle: slot tracker and early send | `client.rs` | `SlotTracker` |
| Oracle: delegation filter | `client.rs` | `DelegationFilter` |
| Oracle: blockhash cache, priority fee, statistics | `blockhash_cache.rs`, `client.rs`, `processor.rs`, `main.rs` | no |
| Oracle: update sources | `sources.rs` | what the modules above see of them |
| VRF proof | `verify.rs`, `vrf/` | `VrfProof`; in `VrfProgram` one fact: a proof verifies only under the key that made it |
| Setting a queue up with the SDK | `sdk.rs` (`initialize_oracle_queue`) | `QueueSetup` |
| Callback identities, account checks, dispatch | `provide_randomness.rs`, `loaders.rs`, `lib.rs` | guards that a modelled instruction has passed |
| Other SDK builders, CLI, key generation | `sdk.rs`, `vrf-cli/`, `examples/` | no: stateless builders and I/O |

## Modules

Definitions keep the names of the source. A definition whose comment starts with
"Fault:" is a deliberately wrong variant of the one that follows it; substituting it
must break a property. It is used by no specification.

**CreatedAt** holds the arithmetic of the 16-bit stamp: `created_at_from`, `age_secs`
with `wrapping_sub`, the purge predicate `Expired`, and the oracle's `oracle_age_secs`
with its allowance for a host clock that trails the cluster. `VrfProgram`,
`StampClock` and `FulfillTask` extend it, so the three use one rule.

**StampClock** is one request and two clocks. `Advance` moves the cluster's clock,
`Resync` steps the host's. `FulfillTask` runs on the same clocks.

**QueueAccount** models the account's bytes as the set of extents written to them. A
write destroys every extent it touches, and a read finds an item only where one lies
whole, so a wrong offset, span or trim shows as an item that cannot be read back. Its
actions are the outcomes of `add_item_with_id` (`ReuseHole`, `AppendItem`,
`AddRefused`), `remove_item` (`RemoveItem`, `RemoveRefused`) and
`remove_items_matching` (`RemoveMatching`). A walk is the set of its visits, each with
its position and the next one: `scan_items` calls back in the order of positions, and a
logical index counts the used visits below one. `PurgeMatchesRemovals` takes one item
out of a purge at a time: purging a set is removing any one of its items and purging
the others, from which every order of single removals follows. Bytes above the cursor are dropped when it
moves back; walks stop at the cursor, and whatever it passes again is written first.
**AbstractQueue** is the promise, call by call: an add puts exactly that request in the
list, whole, and returns its index; a removal takes the request at the index asked for and
returns it; a purge takes the requests it names; a refused call changes nothing. Each of
its steps is tied to the call and its arguments (`call`) and to the result (`ret`), so
that taking out another request than the one asked for is no step of it.

**VrfProgram** has one action per instruction; an action is a transaction that
succeeds. A queue's contents are a set of items, which `QueueAccount` justifies, and an
insertion takes any free position. State: the clock, the list of oracles, the oracle
data accounts, the queue accounts (owner, size, flags, items, lamports), and the
history `resolved`. `NextSlot` and `Gift` are the cluster and anyone's transfer to a
queue address. `Rent::default()` in `resize_pda` and `Rent::get()` in `create_pda` are
taken to be the same rent. Signers are not a variable: an instruction is taken when
its rightful signer sends it. A request's id is the tuple that the code hashes.

**OracleViews** is `process_oracle_queue` for one queue. The atomic steps are the
code's critical sections: a view holds the guard of `latest_view_slots` from its diff to
its last item, publishing a task is one step, and a task that ends cleans `active_tasks`
and `inflight_requests` in two. An aborted task may still run on up to its next await.
Notifications are lost on `Disconnect`; `ReadSnapshot` and `ApplySnapshot` are apart,
so a response travels while notifications go by. Requests come and go by the steps of
`RequestLife`, several leaving at once in a purge. Of a task's loop two points are kept:
before and after its first attempt (`SendAttempt`), as only a transaction that was sent can
land (`Land`). **OracleViewsLive** adds fairness
and replaces the bounded slot by one that is renumbered in order as time passes: the
client only compares slots, so the state space is finite without a last slot.

**ScanFlight** is `run`: the reconnecting loop, the periodic task and the scan spawned
on connect, which share `scan_lock` and `scan_queued`. A scan reads the bank (`Fetch`) or
fails (`FetchFailed`), and nobody repeats one that failed: when no other scan waits, what it
was to read is left to the next periodic scan.

**FulfillTask** is the loop of one task: the wait for the first valid slot with its
early exit, the prepared transaction, preflight (skipped by default on the first
attempt, so program errors are only reported afterwards), the answers, both back-offs
and the sleep until expiry. Answers are arbitrary. Slots are counted relative to the
first valid slot and to the last attempt. The request and the clocks are those of
`StampClock`, with a host clock that keeps its distance to the cluster's for the minutes
a task lives.

**SlotTracker** is the published slot, the estimate of slot boundaries behind its own
lock, and one task in `wait_for_slot` or `wait_for_slot_early`. `observe_slot_at` is two
steps, as the code drops the lock on the timing before it sends, and the wait takes the
two locks one after the other as well. Durations are whole units of `instant`.

**DelegationFilter** extends `ScanFlight` by the views that the stream and the scans
bring: a scan that reads spawns a task per queue and keeps the lock until all have ended,
the stream has one view at a time, and each goes through `should_process_queue`, with time
between the look into the cache, the node's answer and the insertion.

**VrfProof** is `compute_vrf` and the two versions of `verify_vrf`, over the multiples of
a generator of prime order and encodings of which some decode to no point. Hashes are
functions chosen once; the challenge is drawn for the value in question and for all
others, which is all a check of one proof can tell apart.

**QueueSetup** extends `VrfProgram` by the transaction that the SDK's
`initialize_oracle_queue` builds: the instruction repeated, taken back as a whole when
one of them is refused. One whose first instruction is refused is left out. The cluster's
limit on the size of a transaction is not modelled.

The modules meet as follows. `VrfProgram` uses the set that `QueueAccount` implements.
**RequestLife** states what the oracle relies on: a request is made once under a new id,
dated with the current slot, leaves in a later slot, and never returns. `VrfProgram` is
shown to implement it (`KeepsRequestLife`), and `OracleViews` is built on it: the requests of
its queue take every step of `RequestLife` and no other, so what is shown of the client
holds with any program that keeps it. `FulfillTask` is what happens to a task between
`Spawn` and `StopTask`, and `TaskEnds` justifies the fairness of `SendAttempt` and
`StopTask` in OracleViewsLive; its waits are those of `SlotTracker`, and `WaitEnds` says that
they end.

## Runs

| Run | Configuration | Checks |
| --- | --- | --- |
| `queue_account` | `MCQueueAccount.cfg` | `WalkReadsWholeItems`, `HeaderMatchesItems`, `ReturnedIndexFindsItem`, `PurgeMatchesRemovals`, `RefusedOnlyWhenOccupied`, refinement `ImplementsMap` |
| `stamp_clock` | `MCStampClock.cfg` | `PurgeNeverEarly`, `FreshOnlyAfterWrap`, `OracleNeverGivesUpEarly` |
| `program` | `MCProgram.cfg` | `Solvent`, `OpenQueuesExact`, `KeyCommitted`, `AccountsConsistent`, `ResolvedOnce`, `PurgedOnlyWhenExpired`, refinement `KeepsRequestLife`, `SetupSucceeds` |
| `oracle_views` | `MCOracleViews.cfg` | `OnlyGoneAborted`, `PendingTracked`, `OnlySameSlotResurrects` |
| `oracle_views_live` | `MCOracleViewsLive.cfg` | `Served`, `Forgotten` |
| `scan_flight` | `MCScanFlight.cfg` | `GapCovered`, `GapScanned`, `PeriodicScans`, `OnlyDelegatedServed`, `DelegatedServed` |
| `fulfill_task` | `MCFulfillTask.cfg` | `PurgesPastTTL`, `PurgeFindsExpired`, `TaskEnds` |
| `slot_tracker` | `MCSlotTracker.cfg` | `SleepsOnCurrentEstimate`, `EarlyOnlyOnEvidence`, `WaitEnds` |
| `vrf_proof` | `MCVrfProof.cfg` | `Complete`, `VerifiersAgree`, `OutputBound` |
| `registration` | `MCRegistration.cfg` | `RegisteredLongEnough`, violated |
| `resurrection` | `MCResurrection.cfg` | `NoResurrection`, violated |
| `wait_then_purge` | `MCWaitThenPurge.cfg` | `WaitThenPurge`, violated |

Types are checked with `queue_account` and `program` (`TypeOK`), `scan_flight`
(`ScanTypeOK`) and `fulfill_task` (`TaskTypeOK`), and proved for every component. To repeat
a run: `tlc -config MCProgram.cfg MCVrfProgram` (the module is named in `PROJECT.json`).

`program` checks `QueueSetup` and `scan_flight` checks `DelegationFilter`, which extend
`VrfProgram` and `ScanFlight`: the properties of the extended module are checked there too.

### Bounds

* `queue_account`: the code's sizes (96-byte items, 33-byte metas, alignment 8), an
  account of 467 bytes and three request ids. The shapes are chosen so that two share
  a span with different ends, two do not, one is refused by its number of accounts, and
  the account fills up; its length is no multiple of 8.
* `stamp_clock`: the code's unit, TTL and skew with a 6-bit stamp, so that 600 s are
  more than two wraps; births at every offset in a unit and around a wrap; the host
  clock inside, at and beyond the allowed skew. The theorems below cover 16 bits.
* `program`: one oracle with two queues (one fee exempt), two interchangeable keys; sizes
  in halves of a growth step with targets of one step, of several and above the cap;
  lamports sent to an address before it exists; three slots whose clocks advance by 1 s or
  3 s against a TTL of one unit of 2 s; two positions per queue and one seed, so that ids
  would repeat if they could. A run goes on only while at most `MaxRequests` = 2 requests
  have been made: two pending in one queue or in two, one pending while the other leaves,
  both purged at once, a position used again. The proofs cover every property of this
  run without these bounds.
* `oracle_views`: two interchangeable requests, three slots, and two tasks of a request
  alive at once (an aborted one and its successor). `oracle_views_live`: one request,
  slots without bound.
* `scan_flight`: one queue (two were checked as well, in five minutes). `MaxWaiting` is
  not reached; it only guards the fault.
* `fulfill_task`: four attempts, delays up to four slots, a TTL of two stamp units of two
  seconds, a request born in either second of a unit, a host clock on time or behind by
  the skew, a task that starts at once or late. `wait_then_purge` uses the code's unit, modulus, TTL and skew.
* `slot_tracker`: six slots in seven units of time, a target in the fifth; two samples
  suffice for an estimate and a third saturates the counter. Estimates are formed,
  dropped and formed again before the target.
* `vrf_proof`: a group of order 3, one input, two attempts of hashing to a point, one
  encoding that decodes to nothing. The theorems below cover every group
  and encoding that meet the assumptions.

Deadlock is not checked where the bounded model may stop: `program` (the last slot, a
delegated queue), `slot_tracker` (the wait is over),
`vrf_proof` (one proof), and `fulfill_task`, since a task is meant to stop.

### Fairness

* `ScanFlight`: spawned tasks run, RPC calls time out and do not fail for ever, and tokio's
  `Mutex` is first come first served, so a waiter that finds the lock free again and again
  gets it (strong fairness of the two lock steps). Connecting and ticking are not
  assumed; the second part of `GapScanned`, on scans that fail, says that it supposes
  ticks. In `DelegationFilter` spawned tasks and lookups end as well, and lookups do not
  fail for ever; `DelegatedServed` itself supposes that the interval ticks.
* `OracleViewsLive`: slots pass; a view in hand is applied and finished; tasks run to
  their end; the periodic scan is repeated and does not fail for ever; the update source,
  which may go down at any time, comes up again; and of a request's transactions, sent
  over and over, one lands. A task waits for its slot on notifications, so its attempts
  are only sure to go on while the source is up again and again (strong fairness of
  `connected /\ SendAttempt` and of `connected /\ StopTask`): with a source that stays
  down a task may wait for ever and `Served` fails. That the source comes back, that scans
  do not fail for ever and that a transaction lands are assumptions about the cluster, not
  the code.
* `FulfillTask`: slots and seconds pass and the task goes on when it can. Nothing is
  assumed of the answers.
* `SlotTracker`: slots pass, the source publishes what it has observed, the task is
  polled, and a slot from the target on is notified of sooner or later, between repeats
  of older ones (strong fairness). Nothing is assumed of the timer.

### Where text and code disagree

1. `registration`: `src/program/tests/queue_size_limit_test.rs:60` says "Oracle must have
   been registered for at least 200 slots." `registration_slot` is written and never
   read, and a queue can be initialised in the slot of the registration.
2. `resurrection`: `processor.rs:159` says the guard is held "so a stale view cannot
   resurrect or cancel requests". A snapshot of slot *s* that shows a request gone may be
   followed by an older notification of the same slot *s* that still has it, which is
   not stale (`<`), and the request is taken up again. `OnlySameSlotResurrects` shows that
   this is the only way, and `Forgotten` that it heals.
3. `wait_then_purge`: `processor.rs:356` says "deterministic callback address errors wait
   for expiry and purge." The sleep of TTL − age + 1 seconds is too short by up to
   three seconds because ages are multiples of 4 s: an error at age 120 sleeps 1 s,
   the age still reads 120, and the fulfilment is sent again. `TaskEnds` shows that the
   loop still ends.

## Proofs

TLAPS checks every step; nothing is assumed but the named `ASSUME`s on the constants. Every
safety property of the runs is proved, the two refinements of an abstract specification
(`ImplementsMap`, `KeepsRequestLife`) included.

* **CreatedAtProofs** (from `StampAssumption`: the TTL is a multiple of the unit and, with
  the skew, fits in a wrap). `AgeForm` reduces an age to the number of unit boundaries
  passed modulo the wrap; that number is at most the true one, and *n* boundaries take
  more than *n − 1* units. Hence `PurgeNeverEarlyThm` for any number of wraps, and
  `FreshOnlyAfterWrapThm`, its converse: an expired request that reads as fresh is a
  whole number of cycles old, give or take the TTL and a unit. `SkewReadsZero` is about a
  host clock that is behind, `ExpiredStays` about one that goes on for less than a cycle.
* **QueueLayoutProofs**, **QueueAccountProofs** (from `LayoutAssumption`: items are a
  multiple of the alignment, the account has room for its header, and ids are finite in
  number), for every size of item, header and account, every alignment and any number of
  requests: the seven properties of `queue_account`. The invariant `QInv` says that the
  account is a `Queue`: the visits of its walk form a `Layout`, that is, they are whole
  items that follow one another without a gap from `items_start` to the cursor, with
  their headers in memory and, if used, their payload too; the last one is used; no two
  used ones share an id; and `item_count` is their number. `ChainIsWalk` shows that any
  set of visits which is chained like that is the set that the recursive walk finds.
  Each operation then is a statement about sets of visits: `AppendLayout` adds one at the
  end, `ReuseLayout` puts one in the place of a hole of the same span, `ClearLayout` turns
  some into holes where they lie and `Shrink` drops the holes at the end. `RemoveOneFirst`
  is what `PurgeMatchesRemovals` rests on: clearing two items commutes as their headers
  are apart, and the end of fewer items is no later than that of more.
* **VrfProgramProofs**, **VrfRequestProofs** (from `StampAssumption` and
  `ProgramAssumption`), for any number of oracles, queues, keys, positions and sizes. In
  the first, `TypeCorrect`, `AccountsConsistentThm`, `OpenQueuesExactThm` and
  `KeyCommittedThm`; in the second, `SolventThm`, `ResolvedOnceThm`,
  `PurgedOnlyWhenExpiredThm` and the refinement `KeepsRequestLifeThm`. The strengthenings
  are
  * `TInv`: types, and every queue's set of items is finite, without which fees and
    counts have no arithmetic;
  * counted queues: `open_queues` is the cardinality of the initialised queues. It makes
    the guard of `RemoveOracle` mean that no queue is open, which is what
    `KeyCommitted` needs (with `AccountsConsistent`: only initialised queues hold items);
  * covered balances: rent and fees of an initialised queue. A request adds what
    its removal will take, because `fee` is additive over items;
  * history: pending items were placed at distinct positions, no later than now, with the
    stamp of their time; resolved ids are of earlier slots. A resolved id can then
    never be made again. That a purged id is of an earlier slot rests on
    `PurgeNeverEarlyThm`: a purge needs time to pass, and time passes between slots only.

  The refinement follows from the history: an item leaves with others of earlier slots,
  and what joins has an id that is neither pending nor resolved.

  With the SDK's transactions (`QueueSetup`, with `ChunkAssumption`: the SDK's literal
  is the program's growth step): `SetupKeepsPromises` and `SetupKeepsRequestLife` carry
  all of this over, since an instruction of a transaction is a step of the program
  (`InstructionIsStep`) and a rollback restores a state in which everything held
  (`RollbackRestores`, which needs `Restorable`: nothing but the queue being set up and
  its oracle's counter has changed since). `SetupSucceedsThm` needs `Growing` as well: after
  *k* instructions of a transaction sent as documented the account is *k* growth steps
  large, until the last one brings it to its target (`Finished`).
* **OracleViewsProofs** (from `ViewsAssumption`: no worker is named like the absent
  handle), for any number of requests, tasks, views and slots: `OnlyGoneAbortedThm`,
  `OnlySameSlotResurrectsThm` and `PendingTrackedThm`. The invariant has three parts.
  `Once`: no id is used twice, which is what the steps of `RequestLife` keep, so that a
  request's slot is a function of its id (`RequestsDated`).
  `ViewsTrue`: what a view on its way lacks of the requests older than it has gone, and no
  view that still has a request is newer than one that lacks it. `ClientTrue`: the
  client tracks only requests that were made, and one it has buried is in no view newer
  than the one that buried it. `PendingTracked` adds `One`, its form without
  cardinalities, and `HandlesLive`: a handle on record is that of a task that lives and
  is not aborted, without which not even the types of tasks are kept.
* **ClientProofs**, on three parts of the oracle that share no state.
  * Scans and the delegation filter: `OneScanWaits` and `GapCoveredThm`, from the
    invariant that `scan_queued` is set exactly while a spawned scan waits or has not yet
    cleared it, and the same with views (`...Filtered`), as every step of the filter is a
    step or a stutter of the scans. `OnlyDelegatedServedThm` needs that a verdict in
    favour of a queue, cached or on its way, was given by the node (`VerdictsConfirmed`).
  * The slot tracker (`TrackerAssumption`): `EstimateGenuine`, `SleepsOnCurrentEstimateThm`
    and `EarlyOnlyOnEvidenceThm`, for every target, threshold and number of samples. An
    average of samples none of which is below the least is not below it either.
  * The stamp and the task (`ClockAssumption`, `TaskAssumption`): `PurgeNeverEarlyAlways`,
    `FreshOnlyAfterWrapAlways` and `OracleNeverGivesUpEarlyAlways` for every clock, from the
    invariant that the stored stamp is the stamp of the birth. `TaskTypeOKThm` bounds the
    attempts. `PurgeFindsExpiredThm` rests on `Justified`: a purge prepared ahead was justified
    when it was built, and what was expired then, by the host's clock, is expired by the
    program's rule when it is sent, because a task is over by either clock long before the
    stamp comes round again (`LifeAssumption`: minutes against three days).
    `PurgesPastTTLThm` rests on `Tallied`: once an attempt has begun past the TTL all
    later ones do, so only the last attempt to begin before it can send a purge that is
    not counted.
* **VrfProofProofs** (from `GroupAssumption`, `EncodingAssumption`, `AttemptsAssumption`),
  the laws of a cyclic group in which distinct scalars move a point other than zero to
  distinct points, as in prime order, and of an injective encoding: `CompleteThm`,
  `VerifiersAgreeThm`, `OutputBoundThm`. `SameVerdict` shows that an equation between
  encodings holds where the one between points does, and that a value that does not
  decode fails in both; `LinesMeetOnce` that two accepted challenges would fix the
  output to be the key's, since a difference of challenges can be divided by.

Induction over data is outside what the provers here can instantiate. Where an argument
needs it (the walk of `scan_items`, the powers of two in the back-off), it is made with least
elements (`LeastElement`): the least counterexample contradicts the step. That
the recursive function of a walk exists at all is shown by writing down what it
computes, the positions reached from a start, as an intersection of closed sets
(`Reached`, `WalkStep`).

Only model-checked: the liveness properties `Served`, `Forgotten`, `GapScanned`,
`PeriodicScans`, `DelegatedServed`, `TaskEnds` and `WaitEnds`, since fairness is outside what
the provers here can do, and the three properties that the code violates.

## Not modelled

* Byte parsing of instructions, seeds and signers, and the callback's own effects: it
  succeeds, or the transaction fails. Which identity signs the callback decides whether a
  transaction succeeds, not how state changes.
* The hash functions, HKDF and the curve: `VrfProof` takes hashes as functions chosen once
  and the curve as a group of prime order. Scalars are reduced: encodings of a scalar that
  are not canonical are left out. That every value goes into the challenge is not a result:
  `OutputBound` ranges over every challenge and takes from the code that the hash fixes it.
* The size limit of a transaction: `QueueSetup` shows that the SDK's instructions are the
  right number, not that they fit in one packet.
* Forks: views are read at processed commitment, and slots here only go forward.
* What a source loses between subscribing and being registered at the server; such a
  change waits for the periodic scan, as in `oracle_views_live`.
* The blockhash cache and the priority fee. They decide whether the cluster takes a
  transaction and at what price; `FulfillTask` lets any answer come back to any
  transaction, so nothing it shows depends on them.
* The order of the locks inside a critical section of `OracleViews`. By reading,
  `process_oracle_queue` and an ending task never hold two of them in opposite orders; no
  run shows it.
* A delegation verdict that is out of date: the code keeps it for the life of the process.
* That a paused queue drains. It needs purges that come again and again against a stamp
  that wraps; `StampClock` shows when an expired request can be purged, and the bounded
  clock of `VrfProgram` cannot show more.
* A restart of the oracle's process: nothing is kept, so it is `Init` of `OracleViews` with
  requests already on the chain, which the first scan finds as after a gap.
* Logging, and the averages on the statistics page.

`PROJECT.json` lists every component with its reason, and the hazards that no property
covers.
