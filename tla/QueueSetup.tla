------------------------------ MODULE QueueSetup ------------------------------
(***************************************************************************)
(* How clients set a queue up (sdk.rs, initialize_oracle_queue): one       *)
(* transaction that repeats the instruction as often as the size needs.    *)
(* The program grows the account step by step and must initialise it at    *)
(* the last repetition: one too few leaves it unusable, one too many fails *)
(* the transaction, which takes back what it did.                          *)
(***************************************************************************)
EXTENDS VrfProgram

CONSTANT Chunk   \* 10240, the literal in the SDK

\* The SDK's literal is the program's MAX_EXTRA_BYTES.
ASSUME ChunkAssumption == Chunk \in Nat \ {0} /\ Chunk = MAX_EXTRA_BYTES

VARIABLE tx   \* the transaction being executed: its arguments, the instructions left,
              \* whether it was sent as documented, and the accounts before it

NoTx == [left |-> -1]

\* Fault: the size is divided rounding down.
inits_floor(target) == target \div Chunk

\* target_size.div_ceil(10240).
inits(target) == (target + Chunk - 1) \div Chunk

\* What a client may count on: a new address, which may hold lamports, and a
\* registered oracle.
Ready(q, target) ==
  /\ queue[q].size = 0 /\ oracle[q[1]].registered
  /\ target \in MinSize .. MAX_QUEUE_ACCOUNT_SIZE

\* process_initialize_oracle_queue returns an error.
Refused(q, target) ==
  \/ queue[q].init \/ ~size_allowed(q, target)
  \/ /\ extra_bytes(q, target) <= MAX_EXTRA_BYTES
     /\ target < MinSize \/ ~oracle[q[1]].registered

\* A transaction whose first instruction is refused changes nothing and is left out.
Begin(q, target) ==
  /\ tx = NoTx /\ ~Refused(q, target)
  /\ tx' = [queue |-> q, target |-> target, left |-> inits(target),
            ready |-> Ready(q, target), saved |-> <<queue, oracle>>]
  /\ UNCHANGED vars

Instruction ==
  /\ tx.left > 0
  /\ GrowQueue(tx.queue, tx.target) \/ InitializeOracleQueue(tx.queue, tx.target)
  /\ tx' = [tx EXCEPT !.left = @ - 1]

\* The transaction fails as a whole.
Rollback ==
  /\ tx.left > 0 /\ Refused(tx.queue, tx.target)
  /\ queue' = tx.saved[1] /\ oracle' = tx.saved[2]
  /\ tx' = NoTx
  /\ UNCHANGED <<slot, time, initialized, oracles, resolved>>

Commit ==
  /\ tx.left = 0
  /\ tx' = NoTx
  /\ UNCHANGED vars

SetupInit == Init /\ tx = NoTx

\* Transactions of others come before or after, with any single instruction.
SetupNext ==
  \/ tx = NoTx /\ Next /\ UNCHANGED tx
  \/ \E q \in QueueId, target \in Targets : Begin(q, target)
  \/ Instruction \/ Rollback \/ Commit

SetupSpec == SetupInit /\ [][SetupNext]_<<vars, tx>>

-----------------------------------------------------------------------------
\* The SDK's transaction sets up a new queue of any size the program allows,
\* whatever lamports the address holds: not one instruction too few or too many.
\* Sent in any other state it leaves a finished queue, counted and of the size
\* asked for, or nothing at all. The cluster's limit on the size of a transaction
\* is not modelled: it may refuse the longest of them before they run.
SetupSucceeds ==
  [][tx # NoTx /\ tx' = NoTx =>
       \/ /\ queue'[tx.queue].init /\ queue'[tx.queue].size = tx.target
          /\ oracle'[tx.queue[1]].open_queues = tx.saved[2][tx.queue[1]].open_queues + 1
       \/ ~tx.ready /\ <<queue', oracle'>> = tx.saved
    ]_<<vars, tx>>
=============================================================================
