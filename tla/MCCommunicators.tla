-------------------------- MODULE MCCommunicators --------------------------
EXTENDS Communicators

Config(program, faults) ==
  [program |-> program, uid |-> [r \in Ranks |-> 7], faults |-> faults]
SPMD(ops) == Config([r \in Ranks |-> ops], FALSE)

\* Single messages around a collective: communicators of pairs are created in
\* another order on every rank.
Messages == Config([r \in Ranks |->
   CASE r = 0 -> send(0, 1) \o allreduce(TRUE) \o recv(0, 2)
     [] r = 1 -> recv(1, 0) \o allreduce(TRUE) \o send(1, 2)
     [] r = 2 -> allreduce(TRUE) \o recv(2, 1) \o send(2, 0)], FALSE)

\* The same with ranks that fail, and a message of a rank to itself.
Failures == Config([r \in Ranks |->
   CASE r = 0 -> send(0, 1) \o broadcast(FALSE)
     [] r = 1 -> recv(1, 0) \o broadcast(FALSE)
     [] r = 2 -> send(2, 2) \o broadcast(FALSE)], TRUE)

\* batch_isend_irecv in a ring, then a barrier.
Batch == Config([r \in Ranks |->
   startCoalescing \o send(r, (r + 1) % N) \o recv(r, (r + N - 1) % N) \o endCoalescing
   \o barrier(FALSE)], FALSE)

\* Eager initialization: messages share the communicator with collectives.
Eager == Config([r \in Ranks |->
   eagerConnectSingleDevice
   \o (CASE r = 0 -> send(0, 1) [] r = 1 -> recv(1, 0) [] r = 2 -> <<>>)
   \o scatter(FALSE)], FALSE)

\* Rank 0 has an empty group; the others have none.
EmptyGroup == Config([r \in Ranks |->
   (IF r = 0 THEN startCoalescing \o endCoalescing ELSE <<>>)
   \o reduce_scatter_tensor_coalesced(TRUE) \o gather(FALSE) \o allgather(TRUE, TRUE)], FALSE)

\* The coalescing manager calls allreduce_coalesced inside a group.
Nested == SPMD(startCoalescing \o allreduce_coalesced(TRUE) \o endCoalescing)

MCConfigs ==
  {Messages, Failures, Batch, Eager, EmptyGroup, Nested,
   SPMD(alltoall_base(FALSE, TRUE) \o alltoall_base(FALSE, FALSE)),
   SPMD(allgather(FALSE, TRUE) \o reduce_scatter(TRUE, FALSE)),
   SPMD(reduce_scatter(FALSE, TRUE) \o alltoall_base(TRUE, TRUE)),
   SPMD(reduce(TRUE) \o eagerConnectSingleDevice \o alltoall(FALSE)),
   SPMD(allgather_base(FALSE) \o reduce_scatter_base(TRUE)),
   SPMD(allgather_into_tensor_coalesced(TRUE) \o barrier(TRUE))}
=============================================================================
