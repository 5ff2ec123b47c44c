----------------------------- MODULE MCVrfProgram -----------------------------
(* Values shared by the runs of VrfProgram and QueueSetup. Sizes are in steps *)
(* of half a MAX_EXTRA_BYTES; costs and rents are small, in the code's order.  *)
EXTENDS QueueSetup, TLC

NoQueues == {}

\* No property tells one key from another.
KeySymmetry == Permutations(Key)

\* No more requests are made after this many, pending and resolved together.
MaxRequests == 2

FewRequests ==
  Cardinality(UNION {{q} \X queue[q].items : q \in QueueId}) + Cardinality(resolved)
    <= MaxRequests

LastQueue == {<<o, 1>> : o \in Oracle}

\* The 200 slots of the test, scaled to the slots of a run.
RegistrationSlots == 2

\* "Oracle must have been registered for at least 200 slots"
\* (program/tests/queue_size_limit_test.rs:60) when a queue is initialised.
RegisteredLongEnough ==
  [][\A q \in QueueId : (~queue[q].init /\ queue'[q].init)
       => slot >= oracle[q[1]].registration_slot + RegistrationSlots]_vars

=============================================================================
