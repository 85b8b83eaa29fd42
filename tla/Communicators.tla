--------------------------- MODULE Communicators ---------------------------
(***************************************************************************)
(* The ranks of one ProcessGroupMCCL: how they create communicators        *)
(* through the store, number their operations, coalesce them into groups,  *)
(* and put kernels and end events on streams.                              *)
(*                                                                         *)
(* A public operation is a sequence of calls of the internal ones          *)
(* (collective, collectiveCoalesced, pointToPoint, startCoalescing,        *)
(* endCoalescing); a program is the concatenation of its operations.       *)
(* Every communicator has a stream, which is named by its key.             *)
(*                                                                         *)
(* A kernel is named by what MCCL matches it with: the n-th collective of  *)
(* a communicator, or the n-th message from one rank to another on it.     *)
(* op_id_ and what the flight recorder keeps are left out.                 *)
(***************************************************************************)
EXTENDS Naturals, SequencesExt

CONSTANTS
  N,          \* the ranks are 0..N-1
  Configs     \* the programs, the local uid of the group, and whether ranks fail

Ranks == 0..(N - 1)

ASSUME RanksAssumption == N \in Nat \ {0}
\* The calls of op before the i-th of a program.
Before(p, i, op) == {j \in 1..(i - 1) : p[j].op = op}

\* Messages of a rank are between ranks, it is one of them, and groups are ended
\* after they were started.
WellFormed(r, p) ==
  /\ Len(p) \in Nat /\ DOMAIN p = 1..Len(p)
  /\ \A i \in DOMAIN p :
       /\ p[i].op = "p2p" => {p[i].from, p[i].to} \subseteq Ranks /\ r \in {p[i].from, p[i].to}
       /\ p[i].op = "end" =>
            Cardinality(Before(p, i, "end")) < Cardinality(Before(p, i, "start"))

ASSUME ConfigsAssumption ==
  \A c \in Configs : /\ DOMAIN c.program = Ranks
                     /\ \A r \in Ranks : WellFormed(r, c.program[r])
                     /\ c.uid \in [Ranks -> Nat] /\ c.faults \in BOOLEAN

VARIABLES
  config,   \* program, uid, faults
  rank,     \* what each rank's ProcessGroupMCCL holds
  store,    \* the c10d store: a set of [key, value]
  joined,   \* who has called mcclCommInitRank with which unique id
  stream,   \* [Ranks -> [Streams -> Seq(Item)]]: what was put on each stream
  ran       \* [Ranks -> [Streams -> Nat]]: how much of it has run

vars == <<config, rank, store, joined, stream, ran>>

\* getKeyFromDevice, and the stream of the program.
Device == <<>>
Current == <<0>>

getKeySendRecv(r, peer) == IF r < peer THEN <<r, peer>> ELSE <<peer, r>>

Streams == {Current, Device} \cup {getKeySendRecv(r, q) : r, q \in Ranks}

\* The id of a communicator that is not there, and the garbage in an mcclUniqueId
\* that was never set.
NoComm == <<>>
Garbage(r) == <<r, 0>>

Init ==
  /\ config \in Configs
  /\ rank = [r \in Ranks |->
       [pc |-> 1, at |-> "call",
        seqCollective |-> 0, seqP2P |-> 0, mcclCommCounter |-> 0, ids |-> 0,
        coalescing |-> {}, coalescedComm |-> NoComm, groups |-> 0, eager |-> FALSE,
        comms |-> {}, id |-> NoComm, todo |-> {},
        queued |-> <<>>, group |-> {}, issued |-> {}, mixed |-> FALSE]]
  /\ store = {} /\ joined = {}
  /\ stream = [r \in Ranks |-> [s \in Streams |-> <<>>]]
  /\ ran = [r \in Ranks |-> [s \in Streams |-> 0]]

----------------------------------------------------------------------------
(* The public operations *)

call(op, kind, async) == [op |-> op, kind |-> kind, async |-> async, copy |-> FALSE]
Collective(kind, async) == <<call("collective", kind, async)>>
startCoalescing == <<call("start", <<"none">>, TRUE)>>
endCoalescing == <<call("end", <<"none">>, TRUE)>>

allreduce(async) == Collective(<<"all_reduce">>, async)
broadcast(async) == Collective(<<"broadcast">>, async)
reduce(async) == Collective(<<"reduce">>, async)
alltoall(async) == Collective(<<"all_to_all">>, async)
gather(async) == Collective(<<"gather">>, async)
scatter(async) == Collective(<<"scatter">>, async)
allgather_base(async) == Collective(<<"_all_gather_base">>, async)
reduce_scatter_base(async) == Collective(<<"_reduce_scatter_base">>, async)
broadcast_oop(root, async) == Collective(<<"_broadcast_oop", root>>, async)
reduce_oop(root, async) == Collective(<<"_reduce_oop", root>>, async)

\* Outputs of one size are gathered into a flat tensor, and copied from it.
allgather(even, async) ==
  IF even THEN <<[call("collective", <<"all_gather">>, async) EXCEPT !.copy = TRUE]>>
  ELSE startCoalescing
       \o FlattenSeq([i \in 1..N |-> broadcast_oop(i - 1, async)]) \o endCoalescing

reduce_scatter(even, async) ==
  IF even THEN Collective(<<"reduce_scatter">>, async)
  ELSE startCoalescing
       \o FlattenSeq([i \in 1..N |-> reduce_oop(i - 1, async)]) \o endCoalescing

alltoall_base(even, async) ==
  IF even THEN Collective(<<"all_to_all_base">>, async)
  ELSE <<call("alltoallv", <<"all_to_allv">>, async)>>

allreduce_coalesced(async) == <<call("coalesced", <<"allreduce_coalesced">>, async)>>
allgather_into_tensor_coalesced(async) ==
  <<call("coalesced", <<"all_gather_into_tensor_coalesced">>, async)>>
reduce_scatter_tensor_coalesced(async) ==
  <<call("coalesced", <<"reduce_scatter_tensor_coalesced">>, async)>>

\* With async FALSE the host waits for the stream.
barrier(async) ==
  allreduce(async) \o IF async THEN <<>> ELSE <<call("synchronize", <<"none">>, FALSE)>>

pointToPoint(from, to) ==
  <<[op |-> "p2p", kind |-> <<"p2p">>, async |-> TRUE, copy |-> FALSE, from |-> from, to |-> to]>>
send(r, dst) == pointToPoint(r, dst)
recv(r, src) == pointToPoint(src, r)

eagerConnectSingleDevice == <<call("connect", <<"none">>, TRUE)>>

----------------------------------------------------------------------------
(* Where a rank is, and its communicators *)

At(r, where) == rank[r].at = where /\ rank[r].pc <= Len(config.program[r])
Op(r) == config.program[r][rank[r].pc]
Peer(r) == IF Op(r).from = r THEN Op(r).to ELSE Op(r).from

\* In a group, and with eager initialization, messages use the communicator of
\* all ranks.
Key(r) == IF Op(r).op = "p2p" /\ ~rank[r].eager /\ rank[r].groups = 0
          THEN getKeySendRecv(r, Peer(r)) ELSE Device

singleP2POp(r) == Op(r).op = "p2p" /\ rank[r].groups = 0

isSendRecvSelf(r) == singleP2POp(r) /\ Peer(r) = r
p2pRank(r) == IF r <= Peer(r) THEN 0 ELSE 1

HasComm(r) == \E c \in rank[r].comms : c.key = Key(r)
Comm(r) == (CHOOSE c \in rank[r].comms : c.key = Key(r)).id

\* Mutant of Leader: only rank 0 creates ids.
Leader_RankZero(r) == r = 0

\* The rank that creates the unique id.
Leader(r) == r = 0 \/ (singleP2POp(r) /\ p2pRank(r) = 0)

numRanks(r) == IF ~singleP2POp(r) THEN N ELSE IF isSendRecvSelf(r) THEN 1 ELSE 2
commRank(r) == IF ~singleP2POp(r) THEN r ELSE IF isSendRecvSelf(r) THEN 0 ELSE p2pRank(r)

\* The next sequence numbers, when a call begins.
SeqCollective(r) ==
  LET k == rank[r]
  IN  IF \/ Op(r).op \in {"collective", "alltoallv"} /\ k.coalescing = {}
         \/ Op(r).op = "coalesced"
      THEN k.seqCollective + 1 ELSE k.seqCollective
SeqP2P(r) ==
  LET k == rank[r]
  IN  IF Op(r).op = "p2p" /\ k.coalescing = {} /\ (k.eager \/ k.groups = 0)
      THEN k.seqP2P + 1 ELSE k.seqP2P

\* A communicator that is there is used; eagerConnectSingleDevice makes one all the
\* same.
Begin(r) ==
  /\ At(r, "call") /\ Op(r).op \notin {"start", "end", "synchronize"}
  /\ rank' = [rank EXCEPT ![r].seqCollective = SeqCollective(r), ![r].seqP2P = SeqP2P(r),
                          ![r].at = IF HasComm(r) /\ Op(r).op # "connect"
                                     THEN "issue" ELSE "init"]
  /\ UNCHANGED <<config, store, joined, stream, ran>>

----------------------------------------------------------------------------
(* initMCCLComm and broadcastUniqueMCCLID *)

Set(key, value) == store' = {e \in store : e.key # key} \cup {[key |-> key, value |-> value]}

\* Mutant of storeKey: single messages use the counter too.
storeKey_Counter(r) == <<rank[r].mcclCommCounter>>

\* Single messages use their pair as key, so that the counter stays the same on
\* all ranks.
storeKey(r) == IF singleP2POp(r) THEN Key(r) ELSE <<rank[r].mcclCommCounter>>

\* Items of a stream: kernels, copies of outputs, end events, and waits for the
\* program's stream (syncStream).
Kernels(queued, s) ==
  LET ops == {q.name : q \in {x \in ToSet(queued) : x.stream = s}}
  IN  IF ops = {} THEN <<>> ELSE <<[item |-> "kernel", ops |-> ops, seq |-> <<>>]>>

\* mcclGroupEnd of the outermost group launches what the group has queued.
Launched(r) == [s \in Streams |-> stream[r][s] \o Kernels(rank[r].queued, s)]

\* All active groups are closed while the communicator is created.  A message to
\* the rank itself takes whatever mcclID holds.
initMCCLComm(r) ==
  LET id == IF isSendRecvSelf(r) THEN Garbage(r) ELSE <<r, rank[r].ids + 1>>
  IN  /\ At(r, "init")
      /\ stream' = [stream EXCEPT ![r] = Launched(r)]
      /\ \/ /\ isSendRecvSelf(r)
            /\ rank' = [rank EXCEPT ![r].queued = <<>>, ![r].at = "join", ![r].id = id]
            /\ UNCHANGED store
         \/ /\ ~isSendRecvSelf(r) /\ Leader(r)
            /\ rank' = [rank EXCEPT ![r].queued = <<>>, ![r].at = "join", ![r].id = id,
                          ![r].ids = @ + 1,
                          ![r].mcclCommCounter = IF singleP2POp(r) THEN @ ELSE @ + 1]
            /\ Set(storeKey(r), id)
         \/ /\ ~isSendRecvSelf(r) /\ ~Leader(r)
            /\ rank' = [rank EXCEPT ![r].queued = <<>>, ![r].at = "get", ![r].id = storeKey(r),
                          ![r].mcclCommCounter = IF singleP2POp(r) THEN @ ELSE @ + 1]
            /\ UNCHANGED store
      /\ UNCHANGED <<config, joined, ran>>

\* store_->get, which waits for the key.
GetId(r) ==
  /\ At(r, "get")
  /\ \E e \in store : /\ e.key = rank[r].id
                      /\ rank' = [rank EXCEPT ![r].at = "join", ![r].id = e.value]
  /\ UNCHANGED <<config, store, joined, stream, ran>>

\* MCCLComm::create, which returns when all ranks of the communicator have called it.
\* emplace keeps a communicator that is there.
Join(r) ==
  /\ At(r, "join")
  /\ joined' = joined \cup {[id |-> rank[r].id, rank |-> r, key |-> Key(r),
                             as |-> commRank(r), size |-> numRanks(r)]}
  /\ rank' = [rank EXCEPT ![r].at = "create"]
  /\ UNCHANGED <<config, store, stream, ran>>

Create(r) ==
  /\ At(r, "create")
  /\ Cardinality({j \in joined : j.id = rank[r].id}) >= numRanks(r)
  /\ rank' = [rank EXCEPT
       ![r].comms = IF HasComm(r) THEN @ ELSE @ \cup {[key |-> Key(r), id |-> rank[r].id]},
       ![r].id = NoComm,
       ![r].at = IF Op(r).op = "connect" THEN "call" ELSE "issue",
       ![r].pc = IF Op(r).op = "connect" THEN @ + 1 ELSE @,
       ![r].eager = @ \/ Op(r).op = "connect"]
  /\ UNCHANGED <<config, store, joined, stream, ran>>

----------------------------------------------------------------------------
(* Issuing an operation *)

\* What MCCL will match the operation with.
Name(r) ==
  LET id == Comm(r)
      c == IF Op(r).op = "p2p" THEN <<Op(r).from, Op(r).to>> ELSE <<>>
  IN  [id |-> id, between |-> c,
       n |-> 1 + Cardinality({o \in rank[r].issued : o.name.id = id /\ o.name.between = c})]

\* In a group, the first operation of each sort takes the group's sequence number;
\* collectiveCoalesced has taken one already.
Coalesced(r) ==
  LET k == rank[r]
      sort == IF Op(r).op = "p2p" THEN "p2p" ELSE "coll"
      first == sort \notin k.coalescing /\ Op(r).op # "coalesced"
  IN  IF "active" \notin k.coalescing THEN k
      ELSE [k EXCEPT !.coalescing = @ \cup {sort}, !.coalescedComm = Comm(r),
              !.seqCollective = IF first /\ sort = "coll" THEN @ + 1 ELSE @,
              !.seqP2P = IF first /\ sort = "p2p" THEN @ + 1 ELSE @]

Item(what, ops, seq) == <<[item |-> what, ops |-> ops, seq |-> seq]>>

\* The end event of a work, whose sequence number is that of its sort.
Event(ops, p2p, k) ==
  Item("event", ops, IF p2p THEN <<k.seqP2P>> ELSE <<k.seqCollective, "coll">>)

\* syncStream, unless all of the program's stream has run.
syncStream(r, s) ==
  LET n == Len(stream[r][Current])
  IN  IF s = Current \/ ran[r][Current] = n THEN <<>> ELSE Item("wait", {}, <<n>>)

\* The rest of collective, collectiveCoalesced or pointToPoint: the kernel, which
\* waits for mcclGroupEnd in a group, the copies of post(), and, outside of
\* groups, the end event and workEnqueue.
Issued(r, k) ==
  LET s == IF Op(r).async THEN Key(r) ELSE Current
      name == Name(r)
      grouped == k.groups > 0
      single == k.coalescing = {} \/ Op(r).op = "coalesced"
  IN  /\ stream' = [stream EXCEPT ![r][s] =
           @ \o syncStream(r, s)
             \o (IF grouped THEN <<>> ELSE Item("kernel", {name}, <<>>))
             \o (IF Op(r).copy THEN Item("copy", {name}, <<>>) ELSE <<>>)
             \o (IF single THEN Event({name}, Op(r).op = "p2p", k) ELSE <<>>)]
      /\ rank' = [rank EXCEPT ![r] =
           [k EXCEPT !.pc = @ + 1, !.at = "call",
              !.queued = IF grouped THEN Append(@, [name |-> name, stream |-> s]) ELSE @,
              !.group = IF k.coalescing = {} THEN {} ELSE @ \cup {name},
              !.issued = @ \cup {[name |-> name, kind |-> Op(r).kind]}]]

Issue(r) ==
  /\ At(r, "issue") /\ Op(r).op # "alltoallv"
  /\ Issued(r, Coalesced(r))
  /\ UNCHANGED <<config, store, joined, ran>>

\* Mutant of OffsetsKey: one key for all calls of the group.
OffsetsKey_NoSeq(r, q, k) == <<config.uid[r], 0, q>>

\* allgather_sdispls: every rank publishes its offsets, and reads those of the
\* others in the order of the ranks.
OffsetsKey(r, q, k) == <<config.uid[r], k.seqCollective + 1, q>>

PublishOffsets(r) ==
  LET k == Coalesced(r)
  IN  /\ At(r, "issue") /\ Op(r).op = "alltoallv"
      /\ Set(OffsetsKey(r, r, k), Name(r))
      /\ rank' = [rank EXCEPT ![r] = [k EXCEPT !.at = "offsets", !.todo = Ranks \ {r}]]
      /\ UNCHANGED <<config, joined, stream, ran>>

ReadOffsets(r) ==
  LET k == rank[r]
  IN  /\ At(r, "offsets") /\ k.todo # {}
      /\ \E q \in k.todo : \E e \in store :
           /\ \A p \in k.todo : q <= p
           /\ e.key = OffsetsKey(r, q, k)
           /\ rank' = [rank EXCEPT ![r].todo = @ \ {q}, ![r].mixed = @ \/ e.value # Name(r)]
      /\ UNCHANGED <<config, store, joined, stream, ran>>

IssueAllToAllv(r) ==
  /\ At(r, "offsets") /\ rank[r].todo = {}
  /\ Issued(r, rank[r])
  /\ UNCHANGED <<config, store, joined, ran>>

----------------------------------------------------------------------------
(* Groups *)

\* Mutant of Start: the number is taken at the start, "we burn a seq_".
Start_Burns(r) ==
  /\ At(r, "call") /\ Op(r).op = "start"
  /\ rank' = [rank EXCEPT ![r].coalescedComm = NoComm, ![r].coalescing = @ \cup {"active", "coll"},
                ![r].seqCollective = @ + 1, ![r].groups = @ + 1, ![r].pc = @ + 1]
  /\ UNCHANGED <<config, store, joined, stream, ran>>

Start(r) ==
  /\ At(r, "call") /\ Op(r).op = "start"
  /\ rank' = [rank EXCEPT ![r].coalescedComm = NoComm, ![r].coalescing = @ \cup {"active"},
                ![r].groups = @ + 1, ![r].pc = @ + 1]
  /\ UNCHANGED <<config, store, joined, stream, ran>>

\* What mcclGroupEnd launches, and the end event of the group's work, recorded on
\* the stream of the communicator; a group without operations has no work.
Closed(r) == [s \in Streams |-> IF rank[r].groups = 1 THEN Kernels(rank[r].queued, s) ELSE <<>>]
GroupWork(r) ==
  IF rank[r].coalescedComm = NoComm THEN <<>>
  ELSE Event(rank[r].group, "p2p" \in rank[r].coalescing, rank[r])

EndWith(r, log) ==
  /\ At(r, "call") /\ Op(r).op = "end"
  /\ stream' = [stream EXCEPT ![r] = log]
  /\ rank' = [rank EXCEPT ![r] =
       [rank[r] EXCEPT
          !.groups = @ - 1, !.coalescing = {}, !.coalescedComm = NoComm, !.group = {},
          !.queued = IF rank[r].groups = 1 THEN <<>> ELSE @, !.pc = @ + 1]]
  /\ UNCHANGED <<config, store, joined, ran>>

\* Mutant of End: the end event is recorded before mcclGroupEnd.
End_EventFirst(r) ==
  EndWith(r, [s \in Streams |-> stream[r][s] \o (IF s = Device THEN GroupWork(r) ELSE <<>>)
                                \o Closed(r)[s]])

End(r) ==
  EndWith(r, [s \in Streams |-> stream[r][s] \o Closed(r)[s]
                                \o IF s = Device THEN GroupWork(r) ELSE <<>>])

\* currentStream.synchronize()
Synchronize(r) ==
  /\ At(r, "call") /\ Op(r).op = "synchronize"
  /\ ran[r][Current] = Len(stream[r][Current])
  /\ rank' = [rank EXCEPT ![r].pc = @ + 1]
  /\ UNCHANGED <<config, store, joined, stream, ran>>

----------------------------------------------------------------------------
(* The GPUs, and failures *)

Members(name) ==
  IF name.between # <<>> THEN ToSet(name.between) ELSE {j.rank : j \in {x \in joined : x.id = name.id}}

\* The kernel of the operation runs on rank m, or has run.
Reached(m, name) ==
  \E s \in Streams : \E i \in 1..Len(stream[m][s]) :
    i <= ran[m][s] + 1 /\ stream[m][s][i].item = "kernel" /\ name \in stream[m][s][i].ops

\* The next item of a stream completes, and with it the copies and events behind
\* it.  A kernel ends when all ranks of all its operations have reached them.
Run(r, s) ==
  LET log == stream[r][s]
      i == ran[r][s] + 1
      Blocks(j) == log[j].item \in {"kernel", "wait"}
      last == CHOOSE j \in i..Len(log) :
                /\ \A k \in (i + 1)..j : ~Blocks(k)
                /\ j < Len(log) => Blocks(j + 1)
  IN  /\ i <= Len(log) /\ rank[r].at # "failed"
      /\ log[i].item = "kernel" =>
           \A name \in log[i].ops : \A m \in Members(name) : Reached(m, name)
      /\ log[i].item = "wait" => ran[r][Current] >= log[i].seq[1]
      /\ ran' = [ran EXCEPT ![r][s] = last]
      /\ UNCHANGED <<config, rank, store, joined, stream>>

\* A rank dies, or store_->get times out and throws.  A communicator made with
\* garbage may be refused in any case.
Fail(r) ==
  /\ At(r, rank[r].at) /\ rank[r].at # "failed"
  /\ config.faults \/ (rank[r].at = "create" /\ rank[r].id = Garbage(r))
  /\ rank' = [rank EXCEPT ![r].at = "failed"]
  /\ UNCHANGED <<config, store, joined, stream, ran>>

Step(r) ==
  \/ Begin(r)
  \/ initMCCLComm(r) \/ GetId(r) \/ Join(r) \/ Create(r)
  \/ Issue(r) \/ PublishOffsets(r) \/ ReadOffsets(r) \/ IssueAllToAllv(r)
  \/ Start(r) \/ End(r) \/ Synchronize(r)

Next ==
  \E r \in Ranks : \/ Step(r)
                   \/ \E s \in Streams : Run(r, s)
                   \/ Fail(r)

Spec == Init /\ [][Next]_vars

\* Every rank goes on with its program unless it waits for another, and the GPUs
\* make progress.
FairSpec ==
  /\ Spec
  /\ \A r \in Ranks : WF_vars(Step(r))
  /\ \A r \in Ranks, s \in Streams : WF_vars(Run(r, s))

----------------------------------------------------------------------------
(* Properties *)

Names == [id : Ranks \X Nat, between : {<<>>} \cup (Ranks \X Ranks), n : Nat]

\* Every rank's counters, groups and communicators have their types, and a rank
\* that has left all groups has nothing queued.
TypeOK ==
  \A r \in Ranks :
    LET k == rank[r]
    IN  /\ k.at \in {"call", "init", "get", "join", "create", "issue", "offsets", "failed"}
        /\ {k.pc, k.seqCollective, k.seqP2P, k.mcclCommCounter, k.groups} \subseteq Nat
        /\ k.coalescing \subseteq {"active", "coll", "p2p"}
        /\ k.groups = 0 => k.queued = <<>> /\ k.coalescing = {}
        /\ \A c \in k.comms : c.key \in Streams \ {Current} /\ c.id \in Ranks \X Nat
        /\ \A o \in k.issued : o.name \in Names

\* All ranks that call mcclCommInitRank with one unique id mean the same
\* communicator: they agree on its size and on what it is for, and have different
\* ranks in it.  The ids go through the store, under keys that each rank counts by
\* itself, while single messages create communicators between.
CommsConsistent ==
  \A i, j \in joined : i.id = j.id =>
    /\ i.key = j.key /\ i.size = j.size /\ i.as < i.size
    /\ i.rank # j.rank => i.as # j.as

Events(r) == UNION {{x \in ToSet(stream[r][s]) : x.item = "event"} : s \in Streams}

\* The works of one collective have the same sequence number on all ranks, and are
\* for the same operation, whatever messages and empty groups each rank had between.
CollectivesAgree ==
  \A r, q \in Ranks :
    /\ \A o \in rank[r].issued, p \in rank[q].issued : o.name = p.name => o.kind = p.kind
    /\ \A x \in Events(r), y \in Events(q) :
         (Len(x.seq) = 2 /\ Len(y.seq) = 2 /\ x.ops \cap y.ops # {}) => x.seq = y.seq

\* all_to_allv uses the offsets the other ranks have published for the same call.
OffsetsMatch == \A r \in Ranks : ~rank[r].mixed

\* Once a rank has left all groups, every kernel it has launched is followed, on its
\* stream, by the end event of an enqueued work: no collective escapes the watchdog.
Watched ==
  \A r \in Ranks : rank[r].groups = 0 /\ rank[r].at # "failed" =>
    \A s \in Streams : \A j \in 1..Len(stream[r][s]) :
      stream[r][s][j].item = "kernel" =>
        \A name \in stream[r][s][j].ops :
          \E i \in (j + 1)..Len(stream[r][s]) :
            stream[r][s][i].item = "event" /\ name \in stream[r][s][i].ops

\* Unless ranks fail, all programs come to their end, and all kernels to theirs.
AllFinish ==
  config.faults \/ <>(\A r \in Ranks : /\ rank[r].pc > Len(config.program[r])
                                        /\ \A s \in Streams : ran[r][s] = Len(stream[r][s]))

\* The state of each rank is well formed (outside of groups nothing is queued), and
\* the communicators of the ranks fit together.
Consistent == TypeOK /\ CommsConsistent
=============================================================================
