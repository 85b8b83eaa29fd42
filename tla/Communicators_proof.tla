------------------------ MODULE Communicators_proof ------------------------
(***************************************************************************)
(* Proofs about Communicators, for any number of ranks and any programs    *)
(* whose groups are balanced: all ranks that hand a unique id to MCCL mean *)
(* the same communicator, every kernel is followed by the end event of a   *)
(* work, and, where the ranks' programs fit together, the works of one     *)
(* collective have one sequence number and use the offsets of one call.    *)
(***************************************************************************)
EXTENDS Communicators, FiniteSetTheorems, TLAPS

----------------------------------------------------------------------------
(* The inductive invariant *)

Ids == Ranks \X Nat
Pairs == {getKeySendRecv(r, q) : r, q \in Ranks}
CommKeys == {Device} \cup Pairs
Counts == {<<n>> : n \in Nat}
Calls == UNION {UNION {{c.program[r][i] : i \in DOMAIN c.program[r]} : r \in Ranks} : c \in Configs}

RankRecords ==
  [pc : Nat \ {0},
   at : {"call", "init", "get", "join", "create", "issue", "offsets", "failed"},
   seqCollective : Nat, seqP2P : Nat, mcclCommCounter : Nat, ids : Nat,
   coalescing : SUBSET {"active", "coll", "p2p"}, coalescedComm : Ids \cup {NoComm},
   groups : Nat, eager : BOOLEAN,
   comms : SUBSET [key : CommKeys, id : Ids],
   id : {NoComm} \cup Ids \cup Counts, todo : SUBSET Ranks,
   queued : Seq([name : Names, stream : Streams]), group : SUBSET Names,
   issued : SUBSET [name : Names, kind : {o.kind : o \in Calls}], mixed : BOOLEAN]

Types ==
  /\ config \in Configs
  /\ rank \in [Ranks -> RankRecords]
  /\ \A r \in Ranks : IsFiniteSet(rank[r].issued)

\* The groups of a rank are those its program has started and not ended.
GroupsOK(r) ==
  LET p == config.program[r]
  IN  /\ rank[r].groups + Cardinality(Before(p, rank[r].pc, "end"))
           = Cardinality(Before(p, rank[r].pc, "start"))
      /\ rank[r].groups = 0 => rank[r].queued = <<>> /\ rank[r].coalescing = {}

\* A rank that creates a communicator has none for the key, unless it connects
\* eagerly; one that issues has it.
PlaceOK(r) ==
  /\ rank[r].eager => \E c \in rank[r].comms : c.key = Device
  /\ rank[r].at \in {"init", "get", "join", "create"} /\ Op(r).op # "connect" => ~HasComm(r)
  /\ rank[r].at \in {"issue", "offsets"} => HasComm(r)
  /\ rank[r].at \notin {"call", "failed"} => Op(r).op \notin {"start", "end"}
  /\ rank[r].at = "get" => IF Key(r) = Device THEN rank[r].id \in Counts ELSE rank[r].id = Key(r)
  /\ rank[r].at \in {"join", "create"} => rank[r].id \in Ids

RanksOK == \A r \in Ranks : GroupsOK(r) /\ PlaceOK(r)

\* What a key of the store that is not one of offsets stands for.
Stands(k) == IF k \in Counts THEN Device ELSE k

StoreOK ==
  \A e \in store : \/ e.key \in Counts \cup Pairs /\ e.value \in Ids
                   \/ e.key \in Nat \X Nat \X Nat

\* What each unique id has been used for: under a key of the store, by a rank that
\* is about to join or waits for the others, or by one that has joined.
Uses ==
  {[id |-> e.value, key |-> Stands(e.key)] : e \in {d \in store : d.key \in Counts \cup Pairs}}
  \cup {[id |-> rank[r].id, key |-> Key(r)] :
          r \in {q \in Ranks : rank[q].at \in {"join", "create"}}}
  \cup {[id |-> j.id, key |-> j.key] : j \in joined}

\* An id is that of one key, and was created; only a message of a rank to itself
\* uses one that was not.
UsesOK ==
  /\ Uses \subseteq [id : Ids, key : CommKeys]
  /\ \A u \in Uses : /\ u.id[2] <= rank[u.id[1]].ids
                     /\ u.id[2] = 0 => u.key = <<u.id[1], u.id[1]>>
  /\ \A u, v \in Uses : u.id = v.id => u.key = v.key

\* The size of a communicator and the ranks in it follow from its key.
JoinedOK ==
  \A j \in joined :
    /\ j.rank \in Ranks
    /\ IF j.key = Device THEN j.as = j.rank /\ j.size = N
       ELSE /\ j.rank \in {j.key[1], j.key[2]} /\ j.key[1] <= j.key[2]
            /\ j.size = IF j.key[1] = j.key[2] THEN 1 ELSE 2
            /\ j.as = IF j.rank = j.key[1] THEN 0 ELSE 1

IInv == Types /\ RanksOK /\ StoreOK /\ UsesOK /\ JoinedOK

----------------------------------------------------------------------------
(* Keys *)

LEMMA RanksNat == Ranks \subseteq Nat /\ N \in Nat /\ 0 \in Ranks /\ \A r \in Ranks : r < N
BY RanksAssumption DEF Ranks

LEMMA PairFacts ==
  ASSUME NEW k \in Pairs
  PROVE  /\ k = <<k[1], k[2]>> /\ k[1] \in Ranks /\ k[2] \in Ranks /\ k[1] <= k[2]
         /\ Len(k) = 2 /\ k # Device /\ k # Current /\ k \in Streams
<1>1. PICK r \in Ranks, q \in Ranks : k = getKeySendRecv(r, q)
  BY DEF Pairs
<1>2. CASE r < q
  <2>1. k = <<r, q>>
    BY <1>1, <1>2 DEF getKeySendRecv
  <2>2. k \in Streams
    BY <1>1 DEF Streams
  <2>. QED BY <1>2, <2>1, <2>2, RanksNat DEF Device, Current
<1>3. CASE ~(r < q)
  <2>1. k = <<q, r>> /\ q <= r
    BY <1>1, <1>3, RanksNat DEF getKeySendRecv
  <2>2. k \in Streams
    BY <1>1 DEF Streams
  <2>. QED BY <2>1, <2>2, RanksNat DEF Device, Current
<1>. QED BY <1>2, <1>3

LEMMA CountFacts ==
  /\ Counts \cap Pairs = {} /\ Device \notin Counts
  /\ \A k \in Nat \X Nat \X Nat : k \notin Counts \cup Pairs
<1>1. \A k \in Counts : Len(k) = 1
  BY DEF Counts
<1>2. \A k \in Pairs : Len(k) = 2
  BY PairFacts
<1>3. \A k \in Nat \X Nat \X Nat : Len(k) = 3
  OBVIOUS
<1>4. Len(Device) = 0
  BY DEF Device
<1>5. 1 # 2 /\ 1 # 3 /\ 2 # 3 /\ 0 # 1
  OBVIOUS
<1>6. Counts \cap Pairs = {}
  BY <1>1, <1>2, <1>5, Zenon
<1>7. Device \notin Counts
  BY <1>1, <1>4, <1>5, Zenon
<1>8. \A k \in Nat \X Nat \X Nat : k \notin Counts \cup Pairs
  BY <1>1, <1>2, <1>3, <1>5, Zenon
<1>. QED BY <1>6, <1>7, <1>8

LEMMA Streamed == CommKeys \subseteq Streams \ {Current}
<1>1. Device \in Streams /\ Device # Current
  BY DEF Streams, Device, Current
<1>. QED BY <1>1, PairFacts DEF CommKeys

\* The key of the communicator that a rank's call uses, and what it says of the
\* ranks in it.
LEMMA KeyFacts ==
  ASSUME Types, NEW r \in Ranks, rank[r].pc <= Len(config.program[r])
  PROVE  /\ Op(r) \in Calls /\ rank[r].pc \in DOMAIN config.program[r]
         /\ Key(r) \in CommKeys
         /\ Op(r).op = "p2p" => /\ Op(r).from \in Ranks /\ Op(r).to \in Ranks /\ Peer(r) \in Ranks
         /\ ~singleP2POp(r) => Key(r) = Device
         /\ singleP2POp(r) /\ ~rank[r].eager =>
              /\ Key(r) \in Pairs /\ r \in {Key(r)[1], Key(r)[2]}
              /\ isSendRecvSelf(r) <=> Key(r)[1] = Key(r)[2]
              /\ p2pRank(r) = IF r = Key(r)[1] THEN 0 ELSE 1
         /\ singleP2POp(r) /\ rank[r].eager => Key(r) = Device
<1>1. config \in Configs /\ rank[r] \in RankRecords
  BY DEF Types
<1>2. WellFormed(r, config.program[r])
  BY <1>1, ConfigsAssumption
<1>3. rank[r].pc \in DOMAIN config.program[r]
  <2>1. rank[r].pc \in Nat \ {0}
    BY <1>1 DEF RankRecords
  <2>2. Len(config.program[r]) \in Nat /\ DOMAIN config.program[r] = 1..Len(config.program[r])
    BY <1>2 DEF WellFormed
  <2>. QED BY <2>1, <2>2
<1>4. Op(r) \in Calls
  BY <1>1, <1>3 DEF Calls, Op
<1>5. Op(r).op = "p2p" => Op(r).from \in Ranks /\ Op(r).to \in Ranks
  BY <1>2, <1>3 DEF WellFormed, Op
<1>6. Op(r).op = "p2p" => Peer(r) \in Ranks
  BY <1>5 DEF Peer
<1>7. ~singleP2POp(r) => Key(r) = Device
  BY DEF singleP2POp, Key
<1>8. singleP2POp(r) /\ rank[r].eager => Key(r) = Device
  BY DEF Key
<1>9. ASSUME singleP2POp(r), ~rank[r].eager
      PROVE  /\ Key(r) \in Pairs /\ r \in {Key(r)[1], Key(r)[2]}
             /\ isSendRecvSelf(r) <=> Key(r)[1] = Key(r)[2]
             /\ p2pRank(r) = IF r = Key(r)[1] THEN 0 ELSE 1
  <2>1. Op(r).op = "p2p" /\ Key(r) = getKeySendRecv(r, Peer(r)) /\ Peer(r) \in Ranks
    BY <1>6, <1>9 DEF singleP2POp, Key
  <2>2. Key(r) \in Pairs
    BY <2>1 DEF Pairs
  <2>3. isSendRecvSelf(r) <=> Peer(r) = r
    BY <1>9 DEF isSendRecvSelf
  <2>4. r \in Nat /\ Peer(r) \in Nat
    BY <2>1, RanksNat
  <2>5. CASE r < Peer(r)
    <3>1. Key(r) = <<r, Peer(r)>>
      BY <2>1, <2>5 DEF getKeySendRecv
    <3>2. p2pRank(r) = 0
      BY <2>4, <2>5 DEF p2pRank
    <3>. QED BY <2>2, <2>3, <2>4, <2>5, <3>1, <3>2
  <2>6. CASE ~(r < Peer(r))
    <3>1. Key(r) = <<Peer(r), r>>
      BY <2>1, <2>6 DEF getKeySendRecv
    <3>2. p2pRank(r) = IF r = Peer(r) THEN 0 ELSE 1
      BY <2>4, <2>6 DEF p2pRank
    <3>. QED BY <2>2, <2>3, <2>4, <2>6, <3>1, <3>2
  <2>. QED BY <2>5, <2>6
<1>10. Key(r) \in CommKeys
  BY <1>7, <1>8, <1>9 DEF CommKeys
<1>. QED BY <1>3, <1>4, <1>5, <1>6, <1>7, <1>8, <1>9, <1>10

----------------------------------------------------------------------------
(* What a step of one rank leaves alone *)

LEMMA KeyKept ==
  ASSUME NEW q, config' = config, rank'[q].pc = rank[q].pc, rank'[q].groups = rank[q].groups,
         rank'[q].eager = rank[q].eager
  PROVE  /\ Op(q)' = Op(q) /\ Key(q)' = Key(q) /\ singleP2POp(q)' = singleP2POp(q)
         /\ rank'[q].comms = rank[q].comms => (HasComm(q)' <=> HasComm(q))
<1>1. Op(q)' = Op(q)
  BY DEF Op
<1>2. Peer(q)' = Peer(q)
  BY <1>1 DEF Peer
<1>3. Key(q)' = Key(q) /\ singleP2POp(q)' = singleP2POp(q)
  BY <1>1, <1>2 DEF Key, singleP2POp
<1>. QED BY <1>1, <1>3 DEF HasComm

LEMMA RankKept ==
  ASSUME NEW q, config' = config, rank'[q] = rank[q]
  PROVE  /\ Op(q)' = Op(q) /\ Key(q)' = Key(q)
         /\ GroupsOK(q) => GroupsOK(q)'
         /\ PlaceOK(q) => PlaceOK(q)'
<1>1. Op(q)' = Op(q) /\ Key(q)' = Key(q) /\ (HasComm(q)' <=> HasComm(q))
  BY KeyKept
<1>2. GroupsOK(q) => GroupsOK(q)'
  BY DEF GroupsOK
<1>3. PlaceOK(q) => PlaceOK(q)'
  BY <1>1 DEF PlaceOK
<1>. QED BY <1>1, <1>2, <1>3

\* A step of a rank is made of what it does to its own record.
LEMMA OneRank ==
  ASSUME Types, RanksOK, NEW r \in Ranks, NEW k \in RankRecords, IsFiniteSet(k.issued),
         rank' = [rank EXCEPT ![r] = k], config' = config,
         GroupsOK(r)', PlaceOK(r)'
  PROVE  Types' /\ RanksOK'
<1>1. rank'[r] = k /\ \A q \in Ranks : q # r => rank'[q] = rank[q]
  BY DEF Types
<1>2. Types'
  BY <1>1 DEF Types
<1>3. ASSUME NEW q \in Ranks PROVE GroupsOK(q)' /\ PlaceOK(q)'
  <2>1. CASE q = r
    BY <2>1
  <2>2. CASE q # r
    BY <1>1, <1>3, <2>2, RankKept DEF RanksOK
  <2>. QED BY <2>1, <2>2
<1>. QED BY <1>2, <1>3 DEF RanksOK

\* The uses of ids are within U when what the step of rank r adds is.
LEMMA UsesWithin ==
  ASSUME NEW U, Uses \subseteq U, NEW r \in Ranks, config' = config,
         \A q \in Ranks : q # r => rank'[q] = rank[q],
         \A e \in store' : e.key \in Counts \cup Pairs =>
            e \in store \/ [id |-> e.value, key |-> Stands(e.key)] \in U,
         \A j \in joined' : j \in joined \/ [id |-> j.id, key |-> j.key] \in U,
         rank'[r].at \in {"join", "create"} => [id |-> rank'[r].id, key |-> Key(r)'] \in U
  PROVE  Uses' \subseteq U
<1>1. SUFFICES ASSUME NEW u \in Uses' PROVE u \in U
  OBVIOUS
<1>2. \/ \E e \in store' : e.key \in Counts \cup Pairs /\ u = [id |-> e.value, key |-> Stands(e.key)]
      \/ \E q \in Ranks : rank'[q].at \in {"join", "create"} /\ u = [id |-> rank'[q].id, key |-> Key(q)']
      \/ \E j \in joined' : u = [id |-> j.id, key |-> j.key]
  BY <1>1 DEF Uses, Stands
<1>3. CASE \E e \in store' : e.key \in Counts \cup Pairs /\ u = [id |-> e.value, key |-> Stands(e.key)]
  <2>1. PICK e \in store' : e.key \in Counts \cup Pairs /\ u = [id |-> e.value, key |-> Stands(e.key)]
    BY <1>3
  <2>2. e \in store => u \in Uses
    BY <2>1 DEF Uses
  <2>. QED BY <2>1, <2>2
<1>4. CASE \E q \in Ranks : rank'[q].at \in {"join", "create"} /\ u = [id |-> rank'[q].id, key |-> Key(q)']
  <2>1. PICK q \in Ranks : rank'[q].at \in {"join", "create"} /\ u = [id |-> rank'[q].id, key |-> Key(q)']
    BY <1>4
  <2>2. CASE q = r
    BY <2>1, <2>2
  <2>3. CASE q # r
    <3>1. rank'[q] = rank[q]
      BY <2>3
    <3>2. Key(q)' = Key(q)
      BY <3>1, RankKept
    <3>3. u \in Uses
      BY <2>1, <3>1, <3>2 DEF Uses
    <3>. QED BY <3>3
  <2>. QED BY <2>2, <2>3
<1>5. CASE \E j \in joined' : u = [id |-> j.id, key |-> j.key]
  <2>1. PICK j \in joined' : u = [id |-> j.id, key |-> j.key]
    BY <1>5
  <2>2. j \in joined => u \in Uses
    BY <2>1 DEF Uses
  <2>. QED BY <2>1, <2>2
<1>. QED BY <1>2, <1>3, <1>4, <1>5

\* Nothing new is used, and no rank forgets what it has created.
LEMMA UsesKept ==
  ASSUME Types, Types', UsesOK, Uses' \subseteq Uses,
         \A q \in Ranks : rank[q].ids <= rank'[q].ids
  PROVE  UsesOK'
<1>1. ASSUME NEW u \in Uses'
      PROVE  /\ u \in [id : Ids, key : CommKeys] /\ u.id[2] <= rank'[u.id[1]].ids
             /\ u.id[2] = 0 => u.key = <<u.id[1], u.id[1]>>
  <2>1. u \in Uses
    OBVIOUS
  <2>2. u \in [id : Ids, key : CommKeys] /\ u.id[2] <= rank[u.id[1]].ids
        /\ (u.id[2] = 0 => u.key = <<u.id[1], u.id[1]>>)
    BY <2>1 DEF UsesOK
  <2>3. u.id[1] \in Ranks /\ u.id[2] \in Nat
    BY <2>2 DEF Ids
  <2>4. rank[u.id[1]].ids \in Nat /\ rank'[u.id[1]].ids \in Nat
    BY <2>3 DEF Types, RankRecords
  <2>5. rank[u.id[1]].ids <= rank'[u.id[1]].ids
    BY <2>3
  <2>. QED BY <2>2, <2>3, <2>4, <2>5
<1>2. \A u, v \in Uses' : u.id = v.id => u.key = v.key
  BY DEF UsesOK
<1>. QED BY <1>1, <1>2 DEF UsesOK

\* One more use: of an id that rank r has just created, or of its garbage.
LEMMA UsesNew ==
  ASSUME Types, Types', UsesOK, NEW r \in Ranks, NEW n \in Nat, NEW key \in CommKeys,
         Uses' \subseteq Uses \cup {[id |-> <<r, n>>, key |-> key]},
         \A q \in Ranks : rank[q].ids <= rank'[q].ids,
         \/ n = rank[r].ids + 1 /\ rank'[r].ids = n
         \/ n = 0 /\ key = <<r, r>>
  PROVE  UsesOK'
<1>. DEFINE new == [id |-> <<r, n>>, key |-> key]
<1>1. new.id \in Ids /\ new.id[1] = r /\ new.id[2] = n /\ new.key = key
  BY DEF Ids
<1>2. rank[r].ids \in Nat /\ rank'[r].ids \in Nat
  BY DEF Types, RankRecords
<1>3. ASSUME NEW u \in Uses
      PROVE  /\ u \in [id : Ids, key : CommKeys] /\ u.id[2] <= rank'[u.id[1]].ids
             /\ u.id[2] = 0 => u.key = <<u.id[1], u.id[1]>>
             /\ u.id = <<r, n>> => u.key = key
  <2>1. u \in [id : Ids, key : CommKeys] /\ u.id[2] <= rank[u.id[1]].ids
        /\ (u.id[2] = 0 => u.key = <<u.id[1], u.id[1]>>)
    BY DEF UsesOK
  <2>2. u.id[1] \in Ranks /\ u.id[2] \in Nat
    BY <2>1 DEF Ids
  <2>3. rank[u.id[1]].ids \in Nat /\ rank'[u.id[1]].ids \in Nat
    BY <2>2 DEF Types, RankRecords
  <2>4. rank[u.id[1]].ids <= rank'[u.id[1]].ids
    BY <2>2
  <2>5. ASSUME u.id = <<r, n>> PROVE u.key = key
    <3>1. u.id[1] = r /\ u.id[2] = n
      BY <2>5
    <3>2. n # rank[r].ids + 1
      BY <1>2, <2>1, <3>1
    <3>. QED BY <2>1, <3>1, <3>2
  <2>. QED BY <2>1, <2>2, <2>3, <2>4, <2>5
<1>4. new \in [id : Ids, key : CommKeys] /\ n <= rank'[r].ids
  BY <1>1, <1>2
<1>5. n = 0 => key = <<r, r>>
  BY <1>2
<1>6. ASSUME NEW u \in Uses'
      PROVE  /\ u \in [id : Ids, key : CommKeys] /\ u.id[2] <= rank'[u.id[1]].ids
             /\ u.id[2] = 0 => u.key = <<u.id[1], u.id[1]>>
  <2>1. CASE u \in Uses
    BY <1>3, <2>1
  <2>2. CASE u = new
    BY <1>1, <1>4, <1>5, <2>2
  <2>. QED BY <2>1, <2>2
<1>7. ASSUME NEW u \in Uses', NEW v \in Uses', u.id = v.id PROVE u.key = v.key
  <2>1. CASE u \in Uses /\ v \in Uses
    BY <1>7, <2>1 DEF UsesOK
  <2>2. CASE u \in Uses /\ v = new
    BY <1>3, <1>7, <2>2
  <2>3. CASE u = new /\ v \in Uses
    BY <1>3, <1>7, <2>3
  <2>4. CASE u = new /\ v = new
    BY <2>4
  <2>. QED BY <2>1, <2>2, <2>3, <2>4
<1>8. Uses' \subseteq [id : Ids, key : CommKeys]
  BY <1>6
<1>. QED BY <1>6, <1>7, <1>8 DEF UsesOK

----------------------------------------------------------------------------
(* What the actions do to a rank *)

LEMMA CommFacts ==
  ASSUME Types, NEW r \in Ranks, HasComm(r)
  PROVE  Comm(r) \in Ids
<1>. DEFINE c == CHOOSE c \in rank[r].comms : c.key = Key(r)
<1>1. \E d \in rank[r].comms : d.key = Key(r)
  BY DEF HasComm
<1>2. c \in rank[r].comms
  BY <1>1
<1>3. rank[r].comms \subseteq [key : CommKeys, id : Ids]
  BY DEF Types, RankRecords
<1>4. c.id \in Ids
  BY <1>2, <1>3
<1>. QED BY <1>4 DEF Comm

LEMMA NameFacts ==
  ASSUME Types, NEW r \in Ranks, rank[r].pc <= Len(config.program[r]), HasComm(r)
  PROVE  Name(r) \in Names /\ Name(r).id = Comm(r)
<1>. DEFINE c == IF Op(r).op = "p2p" THEN <<Op(r).from, Op(r).to>> ELSE <<>>
            S == {o \in rank[r].issued : o.name.id = Comm(r) /\ o.name.between = c}
<1>1. c \in {<<>>} \cup (Ranks \X Ranks)
  BY KeyFacts
<1>2. Comm(r) \in Ranks \X Nat
  BY CommFacts DEF Ids
<1>3. IsFiniteSet(rank[r].issued) /\ S \subseteq rank[r].issued
  BY DEF Types
<1>4. Cardinality(S) \in Nat
  <2>1. IsFiniteSet(S)
    BY <1>3, FS_Subset
  <2>. QED BY <2>1, FS_CardinalityType
<1>5. Name(r) = [id |-> Comm(r), between |-> c, n |-> 1 + Cardinality(S)]
  BY DEF Name
<1>. HIDE DEF c, S
<1>6. 1 + Cardinality(S) \in Nat
  BY <1>4
<1>. QED BY <1>1, <1>2, <1>5, <1>6 DEF Names

\* A group's numbers and its communicator change, and nothing else.
LEMMA CoalescedFacts ==
  ASSUME Types, NEW r \in Ranks, HasComm(r)
  PROVE  LET k == Coalesced(r)
         IN  /\ k \in RankRecords /\ k.pc = rank[r].pc /\ k.at = rank[r].at
             /\ k.groups = rank[r].groups /\ k.eager = rank[r].eager
             /\ k.comms = rank[r].comms /\ k.id = rank[r].id /\ k.ids = rank[r].ids
             /\ k.queued = rank[r].queued /\ k.issued = rank[r].issued
             /\ rank[r].coalescing = {} => k.coalescing = {}
             /\ k.group = rank[r].group /\ rank[r].coalescing \subseteq k.coalescing
             /\ IF "active" \in rank[r].coalescing THEN k.coalescedComm # NoComm
                ELSE k.coalescedComm = rank[r].coalescedComm
<1>1. rank[r] \in RankRecords /\ Comm(r) \in Ids /\ Comm(r) # NoComm
  <2>1. \A i \in Ranks \X Nat : i # <<>>
    <3>1. \A i \in Ranks \X Nat : Len(i) = 2
      OBVIOUS
    <3>2. Len(<<>>) = 0 /\ 0 # 2
      OBVIOUS
    <3>. QED BY <3>1, <3>2
  <2>. QED BY <2>1, CommFacts DEF Types, NoComm, Ids
<1>2. CASE "active" \notin rank[r].coalescing
  <2>1. Coalesced(r) = rank[r]
    BY <1>2 DEF Coalesced
  <2>. QED BY <1>1, <1>2, <2>1
<1>3. CASE "active" \in rank[r].coalescing
  <2>. DEFINE sort == IF Op(r).op = "p2p" THEN "p2p" ELSE "coll"
              first == sort \notin rank[r].coalescing /\ Op(r).op # "coalesced"
              both == rank[r].coalescing \cup {sort}
              n == IF first /\ sort = "coll" THEN rank[r].seqCollective + 1 ELSE rank[r].seqCollective
              m == IF first /\ sort = "p2p" THEN rank[r].seqP2P + 1 ELSE rank[r].seqP2P
              k == [rank[r] EXCEPT !.coalescing = both, !.coalescedComm = Comm(r),
                                   !.seqCollective = n, !.seqP2P = m]
  <2>1. Coalesced(r) = k
    BY <1>3 DEF Coalesced
  <2>2. k \in RankRecords
    <3>1. both \in SUBSET {"active", "coll", "p2p"} /\ n \in Nat /\ m \in Nat
      BY <1>1 DEF RankRecords
    <3>. HIDE DEF both, n, m
    <3>. QED BY <1>1, <3>1 DEF RankRecords
  <2>. HIDE DEF both, n, m
  <2>3. /\ k.pc = rank[r].pc /\ k.at = rank[r].at
        /\ k.groups = rank[r].groups /\ k.eager = rank[r].eager
        /\ k.comms = rank[r].comms /\ k.id = rank[r].id /\ k.ids = rank[r].ids
        /\ k.queued = rank[r].queued /\ k.issued = rank[r].issued
        /\ k.group = rank[r].group /\ k.coalescing = both /\ k.coalescedComm = Comm(r)
    BY <1>1 DEF RankRecords
  <2>4. rank[r].coalescing \subseteq both
    BY DEF both
  <2>. HIDE DEF k
  <2>. QED BY <1>1, <1>3, <2>1, <2>2, <2>3, <2>4
<1>. QED BY <1>2, <1>3

LEMMA BeforeFacts ==
  ASSUME Types, NEW r \in Ranks, rank[r].pc <= Len(config.program[r]), NEW op
  PROVE  LET p == config.program[r]
             i == rank[r].pc
         IN  /\ Cardinality(Before(p, i, op)) \in Nat
             /\ Cardinality(Before(p, i + 1, op)) =
                  IF Op(r).op = op THEN Cardinality(Before(p, i, op)) + 1 ELSE Cardinality(Before(p, i, op))
<1>. DEFINE p == config.program[r]
            i == rank[r].pc
<1>1. i \in Nat \ {0}
  BY DEF Types, RankRecords
<1>2. IsFiniteSet(Before(p, i, op)) /\ i \notin Before(p, i, op)
  <2>1. IsFiniteSet(1..(i - 1))
    BY <1>1, FS_Interval
  <2>2. Before(p, i, op) \subseteq 1..(i - 1)
    BY DEF Before
  <2>. QED BY <1>1, <2>1, <2>2, FS_Subset
<1>3. Cardinality(Before(p, i, op)) \in Nat
  BY <1>2, FS_CardinalityType
<1>4. CASE Op(r).op = op
  <2>1. Before(p, i + 1, op) = Before(p, i, op) \cup {i}
    BY <1>1, <1>4 DEF Before, Op
  <2>. QED BY <1>2, <1>3, <1>4, <2>1, FS_AddElement
<1>5. CASE Op(r).op # op
  <2>1. Before(p, i + 1, op) = Before(p, i, op)
    BY <1>1, <1>5 DEF Before, Op
  <2>. QED BY <1>3, <1>5, <2>1
<1>. QED BY <1>3, <1>4, <1>5

\* The next call: the number of groups follows the program.
LEMMA GroupsStep ==
  ASSUME Types, NEW r \in Ranks, GroupsOK(r), rank[r].pc <= Len(config.program[r]),
         config' = config, rank'[r].pc = rank[r].pc + 1,
         rank'[r].groups = IF Op(r).op = "start" THEN rank[r].groups + 1
                           ELSE IF Op(r).op = "end" THEN rank[r].groups - 1 ELSE rank[r].groups,
         rank'[r].groups = 0 => rank'[r].queued = <<>> /\ rank'[r].coalescing = {}
  PROVE  GroupsOK(r)'
<1>. DEFINE p == config.program[r]
            i == rank[r].pc
            ends == Cardinality(Before(p, i, "end"))
            starts == Cardinality(Before(p, i, "start"))
<1>1. rank[r].groups \in Nat /\ rank[r].groups + ends = starts
  BY DEF Types, RankRecords, GroupsOK
<1>2. /\ ends \in Nat /\ starts \in Nat
      /\ Cardinality(Before(p, i + 1, "end")) = IF Op(r).op = "end" THEN ends + 1 ELSE ends
      /\ Cardinality(Before(p, i + 1, "start")) = IF Op(r).op = "start" THEN starts + 1 ELSE starts
  BY BeforeFacts
<1>. HIDE DEF ends, starts
<1>3. rank'[r].groups + Cardinality(Before(p, i + 1, "end")) = Cardinality(Before(p, i + 1, "start"))
  <2>1. CASE Op(r).op = "start"
    BY <1>1, <1>2, <2>1
  <2>2. CASE Op(r).op = "end"
    BY <1>1, <1>2, <2>2
  <2>3. CASE Op(r).op \notin {"start", "end"}
    BY <1>1, <1>2, <2>3
  <2>. QED BY <2>1, <2>2, <2>3
<1>. QED BY <1>3 DEF GroupsOK

\* A group that ends has been started.
LEMMA Ended ==
  ASSUME Types, NEW r \in Ranks, GroupsOK(r), rank[r].pc <= Len(config.program[r]),
         Op(r).op = "end"
  PROVE  rank[r].groups \in Nat /\ rank[r].groups >= 1
<1>1. rank[r].pc \in DOMAIN config.program[r] /\ config \in Configs
  BY KeyFacts DEF Types
<1>2. Cardinality(Before(config.program[r], rank[r].pc, "end"))
        < Cardinality(Before(config.program[r], rank[r].pc, "start"))
  BY <1>1, ConfigsAssumption DEF WellFormed, Op
<1>3. rank[r].groups \in Nat
  BY DEF Types, RankRecords
<1>4. /\ Cardinality(Before(config.program[r], rank[r].pc, "end")) \in Nat
      /\ Cardinality(Before(config.program[r], rank[r].pc, "start")) \in Nat
  BY BeforeFacts
<1>. QED BY <1>2, <1>3, <1>4 DEF GroupsOK

----------------------------------------------------------------------------
(* The initial states, and steps that use no new id *)

LEMMA InitIInv == Init => IInv
<1>. SUFFICES ASSUME Init PROVE IInv
  OBVIOUS
<1>. USE DEF Init
<1>1. ASSUME NEW r \in Ranks
      PROVE  /\ rank[r] \in RankRecords /\ rank[r].issued = {} /\ rank[r].pc = 1
             /\ rank[r].groups = 0 /\ rank[r].queued = <<>> /\ rank[r].coalescing = {}
             /\ rank[r].at = "call" /\ rank[r].eager = FALSE
  <2>1. <<>> \in Seq([name : Names, stream : Streams])
    OBVIOUS
  <2>. QED BY <2>1 DEF RankRecords
<1>2. Types
  BY <1>1, FS_EmptySet DEF Types
<1>3. ASSUME NEW r \in Ranks PROVE GroupsOK(r)
  <2>1. \A op : Before(config.program[r], 1, op) = {}
    BY DEF Before
  <2>2. /\ Cardinality(Before(config.program[r], rank[r].pc, "end")) = 0
        /\ Cardinality(Before(config.program[r], rank[r].pc, "start")) = 0
    BY <1>1, <2>1, FS_EmptySet
  <2>. QED BY <1>1, <2>2 DEF GroupsOK
<1>4. ASSUME NEW r \in Ranks PROVE PlaceOK(r)
  BY <1>1 DEF PlaceOK
<1>5. Uses = {}
  BY <1>1 DEF Uses
<1>. QED BY <1>2, <1>3, <1>4, <1>5 DEF IInv, RanksOK, StoreOK, UsesOK, JoinedOK

LEMMA Moved ==
  ASSUME IInv, NEW r \in Ranks, NEW k \in RankRecords, IsFiniteSet(k.issued),
         rank' = [rank EXCEPT ![r] = k], config' = config, GroupsOK(r)', PlaceOK(r)',
         k.ids = rank[r].ids, joined' = joined, StoreOK',
         \A e \in store' : e.key \in Counts \cup Pairs => e \in store,
         k.at \in {"join", "create"} => [id |-> k.id, key |-> Key(r)'] \in Uses
  PROVE  IInv'
<1>1. Types' /\ RanksOK'
  BY OneRank DEF IInv
<1>2. rank'[r] = k /\ \A q \in Ranks : q # r => rank'[q] = rank[q]
  BY DEF IInv, Types
<1>3. Uses' \subseteq Uses
  BY <1>2, UsesWithin
<1>4. \A q \in Ranks : rank[q].ids <= rank'[q].ids
  <2>1. \A q \in Ranks : rank[q].ids \in Nat
    BY DEF IInv, Types, RankRecords
  <2>2. \A q \in Ranks : rank'[q].ids = rank[q].ids
    BY <1>2
  <2>. QED BY <2>1, <2>2
<1>5. UsesOK'
  BY <1>1, <1>3, <1>4, UsesKept DEF IInv
<1>6. JoinedOK'
  BY DEF IInv, JoinedOK
<1>. QED BY <1>1, <1>5, <1>6 DEF IInv

LEMMA BeginStep ==
  ASSUME IInv, NEW r \in Ranks, Begin(r)
  PROVE  IInv'
<1>. DEFINE at == IF HasComm(r) /\ Op(r).op # "connect" THEN "issue" ELSE "init"
            n == SeqCollective(r)
            m == SeqP2P(r)
            k == [rank[r] EXCEPT !.seqCollective = n, !.seqP2P = m, !.at = at]
<1>1. rank[r] \in RankRecords /\ rank[r].at = "call" /\ rank[r].pc <= Len(config.program[r])
      /\ IsFiniteSet(rank[r].issued)
  BY DEF IInv, Types, Begin, At
<1>2. n \in Nat /\ m \in Nat
  BY <1>1 DEF SeqCollective, SeqP2P, RankRecords
<1>3. rank' = [rank EXCEPT ![r] = k] /\ config' = config /\ store' = store /\ joined' = joined
  BY DEF Begin, IInv, Types
<1>9. at \in {"issue", "init"} /\ Op(r).op \notin {"start", "end"}
  BY DEF Begin
<1>. HIDE DEF n, m, at
<1>4. /\ k \in RankRecords /\ k.pc = rank[r].pc /\ k.groups = rank[r].groups
      /\ k.eager = rank[r].eager /\ k.comms = rank[r].comms /\ k.queued = rank[r].queued
      /\ k.coalescing = rank[r].coalescing /\ k.issued = rank[r].issued /\ k.ids = rank[r].ids
      /\ k.at = at
  BY <1>1, <1>2, <1>9 DEF RankRecords
<1>. HIDE DEF k
<1>5. rank'[r] = k
  BY <1>3 DEF IInv, Types
<1>6. Op(r)' = Op(r) /\ Key(r)' = Key(r) /\ (HasComm(r)' <=> HasComm(r))
  BY <1>3, <1>4, <1>5, KeyKept
<1>7. GroupsOK(r)'
  BY <1>3, <1>4, <1>5 DEF IInv, RanksOK, GroupsOK
<1>8. PlaceOK(r)'
  BY <1>4, <1>5, <1>6, <1>9 DEF IInv, RanksOK, PlaceOK, at
<1>10. StoreOK'
  BY <1>3 DEF IInv, StoreOK
<1>. QED BY <1>1, <1>3, <1>4, <1>7, <1>8, <1>9, <1>10, Moved

LEMMA StartStep ==
  ASSUME IInv, NEW r \in Ranks, Start(r)
  PROVE  IInv'
<1>. DEFINE n == rank[r].groups + 1
            i == rank[r].pc + 1
            both == rank[r].coalescing \cup {"active"}
            k == [rank[r] EXCEPT !.coalescedComm = NoComm, !.coalescing = both, !.groups = n, !.pc = i]
<1>1. rank[r] \in RankRecords /\ rank[r].at = "call" /\ rank[r].pc <= Len(config.program[r])
      /\ IsFiniteSet(rank[r].issued) /\ Op(r).op = "start"
  BY DEF IInv, Types, Start, At
<1>2. n \in Nat \ {0} /\ i \in Nat \ {0} /\ both \in SUBSET {"active", "coll", "p2p"}
  BY <1>1 DEF RankRecords
<1>3. rank' = [rank EXCEPT ![r] = k] /\ config' = config /\ store' = store /\ joined' = joined
  BY DEF Start, IInv, Types
<1>. HIDE DEF both
<1>4. /\ k \in RankRecords /\ k.pc = rank[r].pc + 1 /\ k.groups = rank[r].groups + 1
      /\ k.eager = rank[r].eager /\ k.comms = rank[r].comms
      /\ k.issued = rank[r].issued /\ k.ids = rank[r].ids /\ k.at = "call"
  BY <1>1, <1>2 DEF RankRecords
<1>. HIDE DEF k
<1>5. rank'[r] = k
  BY <1>3 DEF IInv, Types
<1>6. GroupsOK(r)'
  BY <1>1, <1>2, <1>3, <1>4, <1>5, GroupsStep DEF IInv, RanksOK
<1>7. PlaceOK(r)'
  BY <1>4, <1>5 DEF IInv, RanksOK, PlaceOK
<1>8. StoreOK'
  BY <1>3 DEF IInv, StoreOK
<1>. QED BY <1>1, <1>3, <1>4, <1>6, <1>7, <1>8, Moved

LEMMA EndStep ==
  ASSUME IInv, NEW r \in Ranks, End(r)
  PROVE  IInv'
<1>. DEFINE n == rank[r].groups - 1
            i == rank[r].pc + 1
            left == IF rank[r].groups = 1 THEN <<>> ELSE rank[r].queued
            k == [rank[r] EXCEPT !.groups = n, !.coalescing = {}, !.coalescedComm = NoComm,
                                 !.group = {}, !.queued = left, !.pc = i]
<1>1. rank[r] \in RankRecords /\ rank[r].at = "call" /\ rank[r].pc <= Len(config.program[r])
      /\ IsFiniteSet(rank[r].issued) /\ Op(r).op = "end"
  BY DEF IInv, Types, End, EndWith, At
<1>2. rank[r].groups \in Nat /\ rank[r].groups >= 1
  BY <1>1, Ended DEF IInv, RanksOK
<1>3. n \in Nat /\ (n = 0 => left = <<>>) /\ i \in Nat \ {0}
      /\ left \in Seq([name : Names, stream : Streams])
  <2>1. <<>> \in Seq([name : Names, stream : Streams])
    OBVIOUS
  <2>. QED BY <1>1, <1>2, <2>1 DEF RankRecords
<1>4. rank' = [rank EXCEPT ![r] = k] /\ config' = config /\ store' = store /\ joined' = joined
  BY DEF End, EndWith, IInv, Types
<1>. HIDE DEF left
<1>5. /\ k \in RankRecords /\ k.pc = rank[r].pc + 1 /\ k.groups = n /\ k.queued = left
      /\ k.eager = rank[r].eager /\ k.comms = rank[r].comms /\ k.coalescing = {}
      /\ k.issued = rank[r].issued /\ k.ids = rank[r].ids /\ k.at = "call"
  BY <1>1, <1>3 DEF RankRecords
<1>. HIDE DEF k
<1>6. rank'[r] = k
  BY <1>4 DEF IInv, Types
<1>7. GroupsOK(r)'
  BY <1>1, <1>3, <1>4, <1>5, <1>6, GroupsStep DEF IInv, RanksOK
<1>8. PlaceOK(r)'
  BY <1>5, <1>6 DEF IInv, RanksOK, PlaceOK
<1>9. StoreOK'
  BY <1>4 DEF IInv, StoreOK
<1>. QED BY <1>1, <1>4, <1>5, <1>7, <1>8, <1>9, Moved

LEMMA SynchronizeStep ==
  ASSUME IInv, NEW r \in Ranks, Synchronize(r)
  PROVE  IInv'
<1>. DEFINE i == rank[r].pc + 1
            k == [rank[r] EXCEPT !.pc = i]
<1>1. rank[r] \in RankRecords /\ rank[r].at = "call" /\ rank[r].pc <= Len(config.program[r])
      /\ IsFiniteSet(rank[r].issued) /\ Op(r).op = "synchronize"
  BY DEF IInv, Types, Synchronize, At
<1>2. rank' = [rank EXCEPT ![r] = k] /\ config' = config /\ store' = store /\ joined' = joined
  BY DEF Synchronize, IInv, Types
<1>3. /\ k \in RankRecords /\ k.pc = rank[r].pc + 1 /\ k.groups = rank[r].groups
      /\ k.eager = rank[r].eager /\ k.comms = rank[r].comms /\ k.coalescing = rank[r].coalescing
      /\ k.queued = rank[r].queued
      /\ k.issued = rank[r].issued /\ k.ids = rank[r].ids /\ k.at = "call"
  <2>1. i \in Nat \ {0}
    BY <1>1 DEF RankRecords
  <2>. QED BY <1>1, <2>1 DEF RankRecords
<1>. HIDE DEF k
<1>4. rank'[r] = k
  BY <1>2 DEF IInv, Types
<1>5. GroupsOK(r)'
  <2>1. rank[r].groups = 0 => rank[r].queued = <<>> /\ rank[r].coalescing = {}
    BY DEF IInv, RanksOK, GroupsOK
  <2>. QED BY <1>1, <1>2, <1>3, <1>4, <2>1, GroupsStep DEF IInv, RanksOK
<1>6. PlaceOK(r)'
  BY <1>3, <1>4 DEF IInv, RanksOK, PlaceOK
<1>7. StoreOK'
  BY <1>2 DEF IInv, StoreOK
<1>. QED BY <1>1, <1>2, <1>3, <1>5, <1>6, <1>7, Moved

LEMMA FailStep ==
  ASSUME IInv, NEW r \in Ranks, Fail(r)
  PROVE  IInv'
<1>. DEFINE k == [rank[r] EXCEPT !.at = "failed"]
<1>1. rank[r] \in RankRecords /\ IsFiniteSet(rank[r].issued)
  BY DEF IInv, Types
<1>2. rank' = [rank EXCEPT ![r] = k] /\ config' = config /\ store' = store /\ joined' = joined
  BY DEF Fail, IInv, Types
<1>3. /\ k \in RankRecords /\ k.pc = rank[r].pc /\ k.groups = rank[r].groups
      /\ k.eager = rank[r].eager /\ k.comms = rank[r].comms /\ k.coalescing = rank[r].coalescing
      /\ k.queued = rank[r].queued
      /\ k.issued = rank[r].issued /\ k.ids = rank[r].ids /\ k.at = "failed"
  BY <1>1 DEF RankRecords
<1>. HIDE DEF k
<1>4. rank'[r] = k
  BY <1>2 DEF IInv, Types
<1>5. GroupsOK(r)'
  BY <1>2, <1>3, <1>4 DEF IInv, RanksOK, GroupsOK
<1>6. PlaceOK(r)'
  BY <1>3, <1>4 DEF IInv, RanksOK, PlaceOK
<1>7. StoreOK'
  BY <1>2 DEF IInv, StoreOK
<1>. QED BY <1>1, <1>2, <1>3, <1>5, <1>6, <1>7, Moved

----------------------------------------------------------------------------
(* The exchange of a unique id *)

\* A rank that creates a communicator for a message has not connected eagerly.
LEMMA Creating ==
  ASSUME IInv, NEW r \in Ranks, rank[r].pc <= Len(config.program[r]),
         rank[r].at \in {"init", "get", "join", "create"}
  PROVE  /\ ~singleP2POp(r) => Key(r) = Device
         /\ singleP2POp(r) => /\ Key(r) \in Pairs /\ r \in {Key(r)[1], Key(r)[2]}
                              /\ isSendRecvSelf(r) <=> Key(r)[1] = Key(r)[2]
                              /\ p2pRank(r) = IF r = Key(r)[1] THEN 0 ELSE 1
<1>1. singleP2POp(r) => Op(r).op # "connect"
  BY DEF singleP2POp
<1>2. singleP2POp(r) => ~HasComm(r)
  BY <1>1 DEF IInv, RanksOK, PlaceOK
<1>3. singleP2POp(r) => ~rank[r].eager
  <2>1. rank[r].eager /\ singleP2POp(r) => Key(r) = Device
    BY DEF Key
  <2>2. rank[r].eager => \E c \in rank[r].comms : c.key = Device
    BY DEF IInv, RanksOK, PlaceOK
  <2>. QED BY <1>2, <2>1, <2>2 DEF HasComm
<1>. QED BY <1>3, KeyFacts DEF IInv

LEMMA storeKeyFacts ==
  ASSUME IInv, NEW r \in Ranks, At(r, "init")
  PROVE  /\ storeKey(r) \in Counts \cup Pairs /\ Stands(storeKey(r)) = Key(r)
         /\ IF Key(r) = Device THEN storeKey(r) \in Counts ELSE storeKey(r) = Key(r)
<1>1. rank[r].pc <= Len(config.program[r]) /\ rank[r].at = "init"
  BY DEF At
<1>2. CASE singleP2POp(r)
  <2>1. storeKey(r) = Key(r) /\ Key(r) \in Pairs
    BY <1>1, <1>2, Creating DEF storeKey
  <2>2. Key(r) # Device /\ Key(r) \notin Counts
    BY <2>1, PairFacts, CountFacts
  <2>. QED BY <2>1, <2>2 DEF Stands
<1>3. CASE ~singleP2POp(r)
  <2>1. storeKey(r) = <<rank[r].mcclCommCounter>> /\ Key(r) = Device
    BY <1>1, <1>3, Creating DEF storeKey
  <2>2. rank[r].mcclCommCounter \in Nat
    BY DEF IInv, Types, RankRecords
  <2>3. storeKey(r) \in Counts
    BY <2>1, <2>2 DEF Counts
  <2>. QED BY <2>1, <2>3 DEF Stands
<1>. QED BY <1>2, <1>3

LEMMA initMCCLCommStep ==
  ASSUME IInv, NEW r \in Ranks, initMCCLComm(r)
  PROVE  IInv'
<1>1. rank[r] \in RankRecords /\ rank[r].at = "init" /\ rank[r].pc <= Len(config.program[r])
      /\ IsFiniteSet(rank[r].issued) /\ config' = config /\ joined' = joined
  BY DEF IInv, Types, initMCCLComm, At
<1>2. rank[r].ids + 1 \in Nat /\ rank[r].mcclCommCounter + 1 \in Nat
  BY <1>1 DEF RankRecords
<1>3. <<>> \in Seq([name : Names, stream : Streams])
  OBVIOUS
<1>4. /\ storeKey(r) \in Counts \cup Pairs /\ Stands(storeKey(r)) = Key(r)
      /\ IF Key(r) = Device THEN storeKey(r) \in Counts ELSE storeKey(r) = Key(r)
  BY storeKeyFacts DEF initMCCLComm
<1>5. /\ Op(r).op # "connect" => ~HasComm(r)
      /\ rank[r].eager => \E c \in rank[r].comms : c.key = Device
      /\ Op(r).op \notin {"start", "end"}
      /\ GroupsOK(r)
  BY <1>1 DEF IInv, RanksOK, PlaceOK
<1>6. /\ ~singleP2POp(r) => Key(r) = Device
      /\ singleP2POp(r) => /\ Key(r) \in Pairs /\ r \in {Key(r)[1], Key(r)[2]}
                           /\ isSendRecvSelf(r) <=> Key(r)[1] = Key(r)[2]
  BY <1>1, Creating
\* What the three branches have in common.
<1>7. ASSUME NEW k \in RankRecords, rank' = [rank EXCEPT ![r] = k],
             k.pc = rank[r].pc, k.groups = rank[r].groups, k.eager = rank[r].eager,
             k.comms = rank[r].comms, k.queued = <<>>, k.coalescing = rank[r].coalescing,
             k.at \in {"join", "get"},
             k.at = "get" => IF Key(r) = Device THEN k.id \in Counts ELSE k.id = Key(r),
             k.at = "join" => k.id \in Ids
      PROVE  GroupsOK(r)' /\ PlaceOK(r)' /\ rank'[r] = k /\ Key(r)' = Key(r)
  <2>1. rank'[r] = k
    BY <1>7 DEF IInv, Types
  <2>2. Op(r)' = Op(r) /\ Key(r)' = Key(r) /\ (HasComm(r)' <=> HasComm(r))
    BY <1>1, <1>7, <2>1, KeyKept
  <2>3. GroupsOK(r)'
    BY <1>1, <1>5, <1>7, <2>1 DEF GroupsOK
  <2>4. PlaceOK(r)'
    BY <1>5, <1>7, <2>1, <2>2 DEF PlaceOK
  <2>. QED BY <2>1, <2>2, <2>3, <2>4
<1>8. CASE isSendRecvSelf(r)
  <2>. DEFINE k == [rank[r] EXCEPT !.queued = <<>>, !.at = "join", !.id = Garbage(r)]
  <2>1. Garbage(r) = <<r, 0>> /\ Garbage(r) \in Ids
    BY DEF Garbage, Ids
  <2>2. rank' = [rank EXCEPT ![r] = k] /\ store' = store
    BY <1>8 DEF initMCCLComm, IInv, Types
  <2>3. /\ k \in RankRecords /\ k.pc = rank[r].pc /\ k.groups = rank[r].groups
        /\ k.eager = rank[r].eager /\ k.comms = rank[r].comms /\ k.queued = <<>>
        /\ k.coalescing = rank[r].coalescing /\ k.issued = rank[r].issued
        /\ k.ids = rank[r].ids /\ k.at = "join" /\ k.id = Garbage(r)
    BY <1>1, <1>3, <2>1 DEF RankRecords
  <2>. HIDE DEF k
  <2>4. GroupsOK(r)' /\ PlaceOK(r)' /\ rank'[r] = k /\ Key(r)' = Key(r)
    BY <1>7, <2>1, <2>2, <2>3
  <2>5. Types' /\ RanksOK'
    BY <1>1, <2>2, <2>3, <2>4, OneRank DEF IInv
  <2>6. Key(r) \in CommKeys /\ Key(r) = <<r, r>>
    <3>1. Key(r) \in Pairs /\ Key(r)[1] = r /\ Key(r)[2] = r
      BY <1>6, <1>8 DEF isSendRecvSelf
    <3>. QED BY <3>1, PairFacts DEF CommKeys
  <2>7. Uses' \subseteq Uses \cup {[id |-> <<r, 0>>, key |-> Key(r)]}
    <3>. DEFINE U == Uses \cup {[id |-> <<r, 0>>, key |-> Key(r)]}
    <3>1. \A q \in Ranks : q # r => rank'[q] = rank[q]
      BY <2>2 DEF IInv, Types
    <3>2. [id |-> rank'[r].id, key |-> Key(r)'] \in U
      BY <2>1, <2>3, <2>4
    <3>. QED BY <1>1, <2>2, <3>1, <3>2, UsesWithin
  <2>8. \A q \in Ranks : rank[q].ids <= rank'[q].ids
    <3>1. \A q \in Ranks : rank[q].ids \in Nat /\ rank'[q].ids = rank[q].ids
      BY <2>2, <2>3, <2>4 DEF IInv, Types, RankRecords
    <3>. QED BY <3>1
  <2>9. UsesOK'
    BY <2>5, <2>6, <2>7, <2>8, UsesNew DEF IInv
  <2>10. StoreOK' /\ JoinedOK'
    BY <1>1, <2>2 DEF IInv, StoreOK, JoinedOK
  <2>. QED BY <2>5, <2>9, <2>10 DEF IInv
<1>9. CASE ~isSendRecvSelf(r) /\ Leader(r)
  <2>. DEFINE n == rank[r].ids + 1
              id == <<r, n>>
              m == IF singleP2POp(r) THEN rank[r].mcclCommCounter ELSE rank[r].mcclCommCounter + 1
              k == [rank[r] EXCEPT !.queued = <<>>, !.at = "join", !.id = id, !.ids = n,
                                   !.mcclCommCounter = m]
              U == Uses \cup {[id |-> id, key |-> Key(r)]}
  <2>1. id \in Ids /\ m \in Nat /\ n \in Nat
    BY <1>1, <1>2 DEF Ids, RankRecords
  <2>2. /\ rank' = [rank EXCEPT ![r] = k]
        /\ store' = {e \in store : e.key # storeKey(r)} \cup {[key |-> storeKey(r), value |-> id]}
    BY <1>9 DEF initMCCLComm, IInv, Types, Set
  <2>. HIDE DEF m
  <2>3. /\ k \in RankRecords /\ k.pc = rank[r].pc /\ k.groups = rank[r].groups
        /\ k.eager = rank[r].eager /\ k.comms = rank[r].comms /\ k.queued = <<>>
        /\ k.coalescing = rank[r].coalescing /\ k.issued = rank[r].issued
        /\ k.ids = n /\ k.at = "join" /\ k.id = id
    BY <1>1, <1>3, <2>1 DEF RankRecords
  <2>. HIDE DEF k
  <2>4. GroupsOK(r)' /\ PlaceOK(r)' /\ rank'[r] = k /\ Key(r)' = Key(r)
    BY <1>7, <2>1, <2>2, <2>3
  <2>5. Types' /\ RanksOK'
    BY <1>1, <2>2, <2>3, <2>4, OneRank DEF IInv
  <2>6. Key(r) \in CommKeys
    BY <1>6 DEF CommKeys
  <2>7. Uses' \subseteq U
    <3>1. \A q \in Ranks : q # r => rank'[q] = rank[q]
      BY <2>2 DEF IInv, Types
    <3>2. [id |-> rank'[r].id, key |-> Key(r)'] \in U
      BY <2>3, <2>4
    <3>3. ASSUME NEW e \in store', e.key \in Counts \cup Pairs
          PROVE  e \in store \/ [id |-> e.value, key |-> Stands(e.key)] \in U
      <4>1. CASE e \in store
        BY <4>1
      <4>2. CASE e = [key |-> storeKey(r), value |-> id]
        BY <1>4, <4>2
      <4>. QED BY <2>2, <4>1, <4>2
    <3>. HIDE DEF U
    <3>4. Uses \subseteq U
      BY DEF U
    <3>. QED BY <1>1, <3>1, <3>2, <3>3, <3>4, UsesWithin
  <2>8. \A q \in Ranks : rank[q].ids <= rank'[q].ids
    <3>1. ASSUME NEW q \in Ranks PROVE rank[q].ids <= rank'[q].ids
      <4>1. rank[q].ids \in Nat
        BY DEF IInv, Types, RankRecords
      <4>2. CASE q = r
        BY <2>3, <2>4, <4>1, <4>2
      <4>3. CASE q # r
        <5>1. rank'[q] = rank[q]
          BY <2>2, <4>3 DEF IInv, Types
        <5>. QED BY <4>1, <5>1
      <4>. QED BY <4>2, <4>3
    <3>. QED BY <3>1
  <2>9. UsesOK'
    <3>1. rank'[r].ids = n
      BY <2>3, <2>4
    <3>. QED BY <2>1, <2>5, <2>6, <2>7, <2>8, <3>1, UsesNew DEF IInv
  <2>10. StoreOK'
    <3>1. ASSUME NEW e \in store'
          PROVE  \/ e.key \in Counts \cup Pairs /\ e.value \in Ids
                 \/ e.key \in Nat \X Nat \X Nat
      <4>1. CASE e \in store
        BY <4>1 DEF IInv, StoreOK
      <4>2. CASE e = [key |-> storeKey(r), value |-> id]
        BY <1>4, <2>1, <4>2
      <4>. QED BY <2>2, <4>1, <4>2
    <3>. QED BY <3>1 DEF StoreOK
  <2>11. JoinedOK'
    BY <1>1 DEF IInv, JoinedOK
  <2>. QED BY <2>5, <2>9, <2>10, <2>11 DEF IInv
<1>10. CASE ~isSendRecvSelf(r) /\ ~Leader(r)
  <2>. DEFINE m == IF singleP2POp(r) THEN rank[r].mcclCommCounter ELSE rank[r].mcclCommCounter + 1
              id == storeKey(r)
              k == [rank[r] EXCEPT !.queued = <<>>, !.at = "get", !.id = id, !.mcclCommCounter = m]
  <2>1. m \in Nat /\ id \in {NoComm} \cup Ids \cup Counts
    <3>1. m \in Nat
      BY <1>1, <1>2 DEF RankRecords
    <3>2. \A p \in Pairs : p \in Ids
      <4>1. ASSUME NEW p \in Pairs PROVE p \in Ids
        <5>1. p = <<p[1], p[2]>> /\ p[1] \in Ranks /\ p[2] \in Nat
          BY PairFacts, RanksNat
        <5>2. <<p[1], p[2]>> \in Ranks \X Nat
          BY <5>1
        <5>. QED BY <5>1, <5>2 DEF Ids
      <4>. QED BY <4>1
    <3>. QED BY <1>4, <3>1, <3>2
  <2>2. rank' = [rank EXCEPT ![r] = k] /\ store' = store
    BY <1>10 DEF initMCCLComm, IInv, Types
  <2>. HIDE DEF m, id
  <2>3. /\ k \in RankRecords /\ k.pc = rank[r].pc /\ k.groups = rank[r].groups
        /\ k.eager = rank[r].eager /\ k.comms = rank[r].comms /\ k.queued = <<>>
        /\ k.coalescing = rank[r].coalescing /\ k.issued = rank[r].issued
        /\ k.ids = rank[r].ids /\ k.at = "get" /\ k.id = id
    BY <1>1, <1>3, <2>1 DEF RankRecords
  <2>. HIDE DEF k
  <2>4. GroupsOK(r)' /\ PlaceOK(r)' /\ rank'[r] = k /\ Key(r)' = Key(r)
    BY <1>4, <1>7, <2>2, <2>3 DEF id
  <2>5. StoreOK'
    BY <2>2 DEF IInv, StoreOK
  <2>. QED BY <1>1, <2>2, <2>3, <2>4, <2>5, Moved
<1>. QED BY <1>8, <1>9, <1>10

LEMMA GetIdStep ==
  ASSUME IInv, NEW r \in Ranks, GetId(r)
  PROVE  IInv'
<1>1. rank[r] \in RankRecords /\ rank[r].at = "get" /\ rank[r].pc <= Len(config.program[r])
      /\ IsFiniteSet(rank[r].issued)
  BY DEF IInv, Types, GetId, At
<1>2. PICK e \in store : /\ e.key = rank[r].id
                         /\ rank' = [rank EXCEPT ![r].at = "join", ![r].id = e.value]
  BY DEF GetId
<1>3. IF Key(r) = Device THEN rank[r].id \in Counts ELSE rank[r].id = Key(r)
  BY <1>1 DEF IInv, RanksOK, PlaceOK
<1>4. Key(r) \in CommKeys
  BY <1>1, KeyFacts DEF IInv
<1>5. e.key \in Counts \cup Pairs /\ Stands(e.key) = Key(r)
  BY <1>2, <1>3, <1>4, CountFacts DEF Stands, CommKeys
<1>6. e.value \in Ids
  BY <1>5, CountFacts DEF IInv, StoreOK
<1>. DEFINE id == e.value
            k == [rank[r] EXCEPT !.at = "join", !.id = id]
<1>7. rank' = [rank EXCEPT ![r] = k] /\ config' = config /\ store' = store /\ joined' = joined
  BY <1>2 DEF GetId, IInv, Types
<1>8. id \in Ids
  BY <1>6
<1>. HIDE DEF id
<1>9. /\ k \in RankRecords /\ k.pc = rank[r].pc /\ k.groups = rank[r].groups
      /\ k.eager = rank[r].eager /\ k.comms = rank[r].comms /\ k.queued = rank[r].queued
      /\ k.coalescing = rank[r].coalescing /\ k.issued = rank[r].issued /\ k.ids = rank[r].ids
      /\ k.at = "join" /\ k.id = id
  BY <1>1, <1>8 DEF RankRecords
<1>. HIDE DEF k
<1>10. rank'[r] = k
  BY <1>7 DEF IInv, Types
<1>11. Op(r)' = Op(r) /\ Key(r)' = Key(r) /\ (HasComm(r)' <=> HasComm(r))
  BY <1>7, <1>9, <1>10, KeyKept
<1>12. GroupsOK(r)'
  BY <1>7, <1>9, <1>10 DEF IInv, RanksOK, GroupsOK
<1>13. PlaceOK(r)'
  BY <1>1, <1>8, <1>9, <1>10, <1>11 DEF IInv, RanksOK, PlaceOK
<1>14. StoreOK'
  BY <1>7 DEF IInv, StoreOK
<1>15. [id |-> k.id, key |-> Key(r)'] \in Uses
  <2>1. [id |-> e.value, key |-> Stands(e.key)] \in Uses
    BY <1>5 DEF Uses
  <2>. QED BY <1>5, <1>9, <1>11, <2>1 DEF id
<1>. QED BY <1>1, <1>7, <1>9, <1>12, <1>13, <1>14, <1>15, Moved

\* A rank joins as its key says.
LEMMA JoinedFacts ==
  ASSUME IInv, NEW r \in Ranks, At(r, "join")
  PROVE  IF Key(r) = Device THEN commRank(r) = r /\ numRanks(r) = N
         ELSE /\ r \in {Key(r)[1], Key(r)[2]} /\ Key(r)[1] <= Key(r)[2]
              /\ numRanks(r) = IF Key(r)[1] = Key(r)[2] THEN 1 ELSE 2
              /\ commRank(r) = IF r = Key(r)[1] THEN 0 ELSE 1
<1>1. rank[r].pc <= Len(config.program[r]) /\ rank[r].at = "join"
  BY DEF At
<1>2. CASE singleP2POp(r)
  <2>1. /\ Key(r) \in Pairs /\ r \in {Key(r)[1], Key(r)[2]}
        /\ isSendRecvSelf(r) <=> Key(r)[1] = Key(r)[2]
        /\ p2pRank(r) = IF r = Key(r)[1] THEN 0 ELSE 1
    BY <1>1, <1>2, Creating
  <2>2. Key(r) # Device /\ Key(r)[1] <= Key(r)[2]
    BY <2>1, PairFacts
  <2>3. CASE isSendRecvSelf(r)
    <3>1. numRanks(r) = 1 /\ commRank(r) = 0
      BY <1>2, <2>3 DEF numRanks, commRank
    <3>2. Key(r)[1] = Key(r)[2] /\ r = Key(r)[1]
      BY <2>1, <2>3
    <3>. QED BY <2>1, <2>2, <3>1, <3>2
  <2>4. CASE ~isSendRecvSelf(r)
    <3>1. numRanks(r) = 2 /\ commRank(r) = p2pRank(r)
      BY <1>2, <2>4 DEF numRanks, commRank
    <3>. QED BY <2>1, <2>2, <2>4, <3>1
  <2>. QED BY <2>3, <2>4
<1>3. CASE ~singleP2POp(r)
  <2>1. Key(r) = Device
    BY <1>1, <1>3, Creating
  <2>. QED BY <1>3, <2>1 DEF numRanks, commRank
<1>. QED BY <1>2, <1>3

LEMMA JoinStep ==
  ASSUME IInv, NEW r \in Ranks, Join(r)
  PROVE  IInv'
<1>. DEFINE k == [rank[r] EXCEPT !.at = "create"]
            new == [id |-> rank[r].id, rank |-> r, key |-> Key(r), as |-> commRank(r),
                    size |-> numRanks(r)]
<1>1. rank[r] \in RankRecords /\ rank[r].at = "join" /\ rank[r].pc <= Len(config.program[r])
      /\ IsFiniteSet(rank[r].issued)
  BY DEF IInv, Types, Join, At
<1>2. rank' = [rank EXCEPT ![r] = k] /\ config' = config /\ store' = store
      /\ joined' = joined \cup {new}
  BY DEF Join, IInv, Types
<1>3. /\ k \in RankRecords /\ k.pc = rank[r].pc /\ k.groups = rank[r].groups
      /\ k.eager = rank[r].eager /\ k.comms = rank[r].comms /\ k.queued = rank[r].queued
      /\ k.coalescing = rank[r].coalescing /\ k.issued = rank[r].issued /\ k.ids = rank[r].ids
      /\ k.at = "create" /\ k.id = rank[r].id
  BY <1>1 DEF RankRecords
<1>. HIDE DEF k
<1>4. rank'[r] = k /\ \A q \in Ranks : q # r => rank'[q] = rank[q]
  BY <1>2 DEF IInv, Types
<1>5. Op(r)' = Op(r) /\ Key(r)' = Key(r) /\ (HasComm(r)' <=> HasComm(r))
  BY <1>2, <1>3, <1>4, KeyKept
<1>6. GroupsOK(r)'
  BY <1>2, <1>3, <1>4 DEF IInv, RanksOK, GroupsOK
<1>7. PlaceOK(r)'
  BY <1>1, <1>3, <1>4, <1>5 DEF IInv, RanksOK, PlaceOK
<1>8. Types' /\ RanksOK'
  BY <1>1, <1>2, <1>3, <1>6, <1>7, OneRank DEF IInv
<1>9. StoreOK'
  BY <1>2 DEF IInv, StoreOK
<1>10. [id |-> rank[r].id, key |-> Key(r)] \in Uses
  BY <1>1 DEF Uses
<1>11. Uses' \subseteq Uses
  <2>1. \A j \in joined' : j \in joined \/ [id |-> j.id, key |-> j.key] \in Uses
    BY <1>2, <1>10
  <2>2. [id |-> rank'[r].id, key |-> Key(r)'] \in Uses
    BY <1>3, <1>4, <1>5, <1>10
  <2>. QED BY <1>2, <1>4, <2>1, <2>2, UsesWithin
<1>12. \A q \in Ranks : rank[q].ids <= rank'[q].ids
  <2>1. \A q \in Ranks : rank[q].ids \in Nat /\ rank'[q].ids = rank[q].ids
    BY <1>3, <1>4 DEF IInv, Types, RankRecords
  <2>. QED BY <2>1
<1>13. UsesOK'
  BY <1>8, <1>11, <1>12, UsesKept DEF IInv
<1>14. JoinedOK'
  <2>1. IF Key(r) = Device THEN commRank(r) = r /\ numRanks(r) = N
        ELSE /\ r \in {Key(r)[1], Key(r)[2]} /\ Key(r)[1] <= Key(r)[2]
             /\ numRanks(r) = IF Key(r)[1] = Key(r)[2] THEN 1 ELSE 2
             /\ commRank(r) = IF r = Key(r)[1] THEN 0 ELSE 1
    BY JoinedFacts DEF Join
  <2>2. new.rank = r /\ new.key = Key(r) /\ new.as = commRank(r) /\ new.size = numRanks(r)
    OBVIOUS
  <2>. HIDE DEF new
  <2>3. ASSUME NEW j \in joined'
        PROVE  /\ j.rank \in Ranks
               /\ IF j.key = Device THEN j.as = j.rank /\ j.size = N
                  ELSE /\ j.rank \in {j.key[1], j.key[2]} /\ j.key[1] <= j.key[2]
                       /\ j.size = IF j.key[1] = j.key[2] THEN 1 ELSE 2
                       /\ j.as = IF j.rank = j.key[1] THEN 0 ELSE 1
    <3>1. CASE j \in joined
      BY <3>1 DEF IInv, JoinedOK
    <3>2. CASE j = new
      BY <2>1, <2>2, <3>2
    <3>. QED BY <1>2, <3>1, <3>2
  <2>. QED BY <2>3 DEF JoinedOK
<1>. QED BY <1>8, <1>9, <1>13, <1>14 DEF IInv

LEMMA CreateStep ==
  ASSUME IInv, NEW r \in Ranks, Create(r)
  PROVE  IInv'
<1>. DEFINE connect == Op(r).op = "connect"
            new == [key |-> Key(r), id |-> rank[r].id]
            comms == IF HasComm(r) THEN rank[r].comms ELSE rank[r].comms \cup {new}
            at == IF connect THEN "call" ELSE "issue"
            i == IF connect THEN rank[r].pc + 1 ELSE rank[r].pc
            eager == rank[r].eager \/ connect
            k == [rank[r] EXCEPT !.comms = comms, !.id = NoComm, !.at = at, !.pc = i, !.eager = eager]
<1>1. rank[r] \in RankRecords /\ rank[r].at = "create" /\ rank[r].pc <= Len(config.program[r])
      /\ IsFiniteSet(rank[r].issued)
  BY DEF IInv, Types, Create, At
<1>2. rank' = [rank EXCEPT ![r] = k] /\ config' = config /\ store' = store /\ joined' = joined
  BY DEF Create, IInv, Types
<1>3. rank[r].id \in Ids /\ Key(r) \in CommKeys /\ Op(r).op \notin {"start", "end"}
  BY <1>1, KeyFacts DEF IInv, RanksOK, PlaceOK
<1>4. comms \in SUBSET [key : CommKeys, id : Ids]
  <2>1. new \in [key : CommKeys, id : Ids]
    BY <1>3
  <2>2. rank[r].comms \subseteq [key : CommKeys, id : Ids]
    BY <1>1 DEF RankRecords
  <2>. QED BY <2>1, <2>2
<1>5. \E c \in comms : c.key = Key(r)
  <2>1. new.key = Key(r)
    OBVIOUS
  <2>. QED BY <2>1 DEF HasComm
<1>6. rank[r].comms \subseteq comms
  OBVIOUS
<1>7. i \in Nat \ {0} /\ eager \in BOOLEAN /\ at \in {"call", "issue"}
  BY <1>1 DEF RankRecords
<1>8. eager => \E c \in comms : c.key = Device
  <2>1. rank[r].eager => \E c \in rank[r].comms : c.key = Device
    BY DEF IInv, RanksOK, PlaceOK
  <2>2. connect => Key(r) = Device
    BY DEF Key
  <2>. HIDE DEF comms, connect
  <2>. QED BY <1>5, <1>6, <2>1, <2>2
<1>. HIDE DEF comms, eager, at, i
<1>9. /\ k \in RankRecords /\ k.pc = i /\ k.groups = rank[r].groups
      /\ k.eager = eager /\ k.comms = comms /\ k.queued = rank[r].queued
      /\ k.coalescing = rank[r].coalescing /\ k.issued = rank[r].issued /\ k.ids = rank[r].ids
      /\ k.at = at
  BY <1>1, <1>4, <1>7 DEF RankRecords
<1>. HIDE DEF k
<1>10. rank'[r] = k
  BY <1>2 DEF IInv, Types
<1>11. rank[r].groups = 0 => rank[r].queued = <<>> /\ rank[r].coalescing = {}
  BY DEF IInv, RanksOK, GroupsOK
<1>12. GroupsOK(r)'
  <2>1. CASE connect
    <3>1. rank'[r].pc = rank[r].pc + 1
      BY <1>9, <1>10, <2>1 DEF i
    <3>. QED BY <1>1, <1>2, <1>3, <1>9, <1>10, <1>11, <3>1, GroupsStep DEF IInv, RanksOK
  <2>2. CASE ~connect
    <3>1. rank'[r].pc = rank[r].pc
      BY <1>9, <1>10, <2>2 DEF i
    <3>. QED BY <1>2, <1>9, <1>10, <3>1 DEF IInv, RanksOK, GroupsOK
  <2>. QED BY <2>1, <2>2
<1>13. PlaceOK(r)'
  <2>1. CASE connect
    <3>1. at = "call"
      BY <2>1 DEF at
    <3>. QED BY <1>8, <1>9, <1>10, <3>1 DEF PlaceOK
  <2>2. CASE ~connect
    <3>1. at = "issue" /\ i = rank[r].pc /\ eager = rank[r].eager
      <4>1. rank[r].eager \in BOOLEAN
        BY <1>1 DEF RankRecords
      <4>. QED BY <2>2, <4>1 DEF at, i, eager
    <3>2. Op(r)' = Op(r) /\ Key(r)' = Key(r)
      BY <1>2, <1>9, <1>10, <3>1, KeyKept
    <3>3. HasComm(r)'
      BY <1>5, <1>9, <1>10, <3>2 DEF HasComm
    <3>. QED BY <1>3, <1>8, <1>9, <1>10, <3>1, <3>2, <3>3 DEF PlaceOK
  <2>. QED BY <2>1, <2>2
<1>14. StoreOK'
  BY <1>2 DEF IInv, StoreOK
<1>. QED BY <1>1, <1>2, <1>7, <1>9, <1>12, <1>13, <1>14, Moved

----------------------------------------------------------------------------
(* Issuing an operation *)

LEMMA IssuedStep ==
  ASSUME IInv, NEW r \in Ranks, rank[r].pc <= Len(config.program[r]),
         rank[r].at \in {"issue", "offsets"}, NEW k \in RankRecords,
         k.pc = rank[r].pc, k.groups = rank[r].groups, k.eager = rank[r].eager,
         k.comms = rank[r].comms, k.ids = rank[r].ids, k.queued = rank[r].queued,
         k.issued = rank[r].issued, rank[r].coalescing = {} => k.coalescing = {},
         Issued(r, k), config' = config, store' = store, joined' = joined
  PROVE  IInv'
<1>. DEFINE s == IF Op(r).async THEN Key(r) ELSE Current
            name == Name(r)
            i == k.pc + 1
            queued == IF k.groups > 0 THEN Append(k.queued, [name |-> name, stream |-> s]) ELSE k.queued
            group == IF k.coalescing = {} THEN {} ELSE k.group \cup {name}
            one == [name |-> name, kind |-> Op(r).kind]
            issued == k.issued \cup {one}
            l == [k EXCEPT !.pc = i, !.at = "call", !.queued = queued, !.group = group,
                           !.issued = issued]
<1>1. HasComm(r) /\ Op(r).op \notin {"start", "end"} /\ IsFiniteSet(rank[r].issued)
      /\ (rank[r].groups = 0 => rank[r].queued = <<>> /\ rank[r].coalescing = {})
      /\ GroupsOK(r)
  BY DEF IInv, RanksOK, PlaceOK, GroupsOK, Types
<1>2. name \in Names
  BY <1>1, NameFacts DEF IInv
<1>3. Op(r) \in Calls /\ s \in Streams
  <2>1. Op(r) \in Calls /\ Key(r) \in CommKeys
    BY KeyFacts DEF IInv
  <2>2. Current \in Streams
    BY DEF Streams
  <2>. QED BY <2>1, <2>2, Streamed
<1>4. rank' = [rank EXCEPT ![r] = l]
  BY DEF Issued
<1>. HIDE DEF s, name
<1>5. one \in [name : Names, kind : {o.kind : o \in Calls}]
  BY <1>2, <1>3
<1>6. issued \in SUBSET [name : Names, kind : {o.kind : o \in Calls}] /\ IsFiniteSet(issued)
  <2>1. k.issued \in SUBSET [name : Names, kind : {o.kind : o \in Calls}]
    BY DEF RankRecords
  <2>2. IsFiniteSet(k.issued)
    BY <1>1
  <2>3. IsFiniteSet(issued)
    BY <2>2, FS_AddElement
  <2>. QED BY <1>5, <2>1, <2>3
<1>7. queued \in Seq([name : Names, stream : Streams]) /\ (k.groups = 0 => queued = k.queued)
  <2>1. [name |-> name, stream |-> s] \in [name : Names, stream : Streams]
    BY <1>2, <1>3
  <2>2. k.queued \in Seq([name : Names, stream : Streams]) /\ k.groups \in Nat
    BY DEF RankRecords
  <2>3. Append(k.queued, [name |-> name, stream |-> s]) \in Seq([name : Names, stream : Streams])
    BY <2>1, <2>2
  <2>4. CASE k.groups > 0
    <3>1. queued = Append(k.queued, [name |-> name, stream |-> s]) /\ k.groups # 0
      BY <2>2, <2>4
    <3>. QED BY <2>3, <3>1
  <2>5. CASE ~(k.groups > 0)
    <3>1. queued = k.queued
      BY <2>5
    <3>. QED BY <2>2, <3>1
  <2>. QED BY <2>4, <2>5
<1>8. group \in SUBSET Names
  <2>1. k.group \in SUBSET Names
    BY DEF RankRecords
  <2>. QED BY <1>2, <2>1
<1>9. i \in Nat \ {0} /\ i = rank[r].pc + 1
  BY DEF RankRecords
<1>. HIDE DEF queued, group, issued, i
<1>10. /\ l \in RankRecords /\ l.pc = i /\ l.groups = rank[r].groups /\ l.eager = rank[r].eager
       /\ l.comms = rank[r].comms /\ l.queued = queued /\ l.coalescing = k.coalescing
       /\ l.issued = issued /\ l.ids = rank[r].ids /\ l.at = "call"
  BY <1>6, <1>7, <1>8, <1>9 DEF RankRecords
<1>. HIDE DEF l
<1>11. rank'[r] = l
  BY <1>4 DEF IInv, Types
<1>12. GroupsOK(r)'
  BY <1>1, <1>7, <1>9, <1>10, <1>11, GroupsStep DEF IInv
<1>13. PlaceOK(r)'
  BY <1>10, <1>11 DEF IInv, RanksOK, PlaceOK
<1>14. StoreOK'
  BY DEF IInv, StoreOK
<1>. QED BY <1>4, <1>6, <1>10, <1>12, <1>13, <1>14, Moved

LEMMA IssueStep ==
  ASSUME IInv, NEW r \in Ranks, Issue(r)
  PROVE  IInv'
<1>1. rank[r].at = "issue" /\ rank[r].pc <= Len(config.program[r])
      /\ Issued(r, Coalesced(r)) /\ config' = config /\ store' = store /\ joined' = joined
  BY DEF Issue, At
<1>2. HasComm(r)
  BY <1>1 DEF IInv, RanksOK, PlaceOK
<1>. DEFINE k == Coalesced(r)
<1>3. /\ k \in RankRecords /\ k.pc = rank[r].pc
      /\ k.groups = rank[r].groups /\ k.eager = rank[r].eager
      /\ k.comms = rank[r].comms /\ k.ids = rank[r].ids
      /\ k.queued = rank[r].queued /\ k.issued = rank[r].issued
      /\ rank[r].coalescing = {} => k.coalescing = {}
  BY <1>2, CoalescedFacts DEF IInv
<1>4. Issued(r, k)
  BY <1>1
<1>. HIDE DEF k
<1>. QED BY <1>1, <1>3, <1>4, IssuedStep

LEMMA IssueAllToAllvStep ==
  ASSUME IInv, NEW r \in Ranks, IssueAllToAllv(r)
  PROVE  IInv'
<1>1. rank[r].at = "offsets" /\ rank[r].pc <= Len(config.program[r])
      /\ Issued(r, rank[r]) /\ config' = config /\ store' = store /\ joined' = joined
  BY DEF IssueAllToAllv, At
<1>2. rank[r] \in RankRecords
  BY DEF IInv, Types
<1>. QED BY <1>1, <1>2, IssuedStep

LEMMA PublishOffsetsStep ==
  ASSUME IInv, NEW r \in Ranks, PublishOffsets(r)
  PROVE  IInv'
<1>1. rank[r].at = "issue" /\ rank[r].pc <= Len(config.program[r])
      /\ config' = config /\ joined' = joined /\ IsFiniteSet(rank[r].issued)
      /\ Op(r).op \notin {"start", "end"} /\ Op(r).op = "alltoallv" /\ HasComm(r)
  BY DEF PublishOffsets, At, IInv, Types, RanksOK, PlaceOK
<1>. DEFINE k == Coalesced(r)
            todo == Ranks \ {r}
            l == [k EXCEPT !.at = "offsets", !.todo = todo]
            key == OffsetsKey(r, r, k)
            new == [key |-> key, value |-> Name(r)]
<1>2. /\ k \in RankRecords /\ k.pc = rank[r].pc
      /\ k.groups = rank[r].groups /\ k.eager = rank[r].eager
      /\ k.comms = rank[r].comms /\ k.ids = rank[r].ids
      /\ k.queued = rank[r].queued /\ k.issued = rank[r].issued
      /\ rank[r].coalescing = {} => k.coalescing = {}
  BY <1>1, CoalescedFacts DEF IInv
<1>3. /\ rank' = [rank EXCEPT ![r] = l]
      /\ store' = {e \in store : e.key # key} \cup {new}
  BY DEF PublishOffsets, Set
<1>4. key \in Nat \X Nat \X Nat
  <2>1. config.uid[r] \in Nat
    BY ConfigsAssumption DEF IInv, Types
  <2>2. k.seqCollective + 1 \in Nat
    BY <1>2 DEF RankRecords
  <2>. HIDE DEF k
  <2>. QED BY <2>1, <2>2, RanksNat DEF OffsetsKey
<1>. HIDE DEF k
<1>5. /\ l \in RankRecords /\ l.pc = rank[r].pc /\ l.groups = rank[r].groups
      /\ l.eager = rank[r].eager /\ l.comms = rank[r].comms /\ l.queued = rank[r].queued
      /\ l.coalescing = k.coalescing /\ l.issued = rank[r].issued /\ l.ids = rank[r].ids
      /\ l.at = "offsets"
  <2>1. todo \in SUBSET Ranks
    OBVIOUS
  <2>. HIDE DEF todo
  <2>. QED BY <1>2, <2>1 DEF RankRecords
<1>. HIDE DEF l
<1>6. rank'[r] = l
  BY <1>3 DEF IInv, Types
<1>7. Op(r)' = Op(r) /\ Key(r)' = Key(r) /\ (HasComm(r)' <=> HasComm(r))
  BY <1>1, <1>5, <1>6, KeyKept
<1>8. GroupsOK(r)'
  BY <1>1, <1>2, <1>5, <1>6 DEF IInv, RanksOK, GroupsOK
<1>9. PlaceOK(r)'
  BY <1>1, <1>5, <1>6, <1>7 DEF IInv, RanksOK, PlaceOK
<1>10. new.key = key
  OBVIOUS
<1>. HIDE DEF new, key
<1>11. StoreOK'
  BY <1>3, <1>4, <1>10 DEF IInv, StoreOK
<1>12. \A e \in store' : e.key \in Counts \cup Pairs => e \in store
  BY <1>3, <1>4, <1>10, CountFacts
<1>. QED BY <1>1, <1>3, <1>5, <1>8, <1>9, <1>11, <1>12, Moved

LEMMA ReadOffsetsStep ==
  ASSUME IInv, NEW r \in Ranks, ReadOffsets(r)
  PROVE  IInv'
<1>1. rank[r].at = "offsets" /\ rank[r].pc <= Len(config.program[r]) /\ rank[r] \in RankRecords
      /\ config' = config /\ store' = store /\ joined' = joined /\ IsFiniteSet(rank[r].issued)
  BY DEF ReadOffsets, At, IInv, Types
<1>2. PICK q \in rank[r].todo, e \in store :
        rank' = [rank EXCEPT ![r].todo = @ \ {q}, ![r].mixed = @ \/ e.value # Name(r)]
  BY DEF ReadOffsets
<1>. DEFINE todo == rank[r].todo \ {q}
            mixed == rank[r].mixed \/ e.value # Name(r)
            k == [rank[r] EXCEPT !.todo = todo, !.mixed = mixed]
<1>3. rank' = [rank EXCEPT ![r] = k]
  BY <1>2 DEF IInv, Types
<1>4. todo \in SUBSET Ranks /\ mixed \in BOOLEAN
  BY <1>1 DEF RankRecords
<1>. HIDE DEF todo, mixed
<1>5. /\ k \in RankRecords /\ k.pc = rank[r].pc /\ k.groups = rank[r].groups
      /\ k.eager = rank[r].eager /\ k.comms = rank[r].comms /\ k.queued = rank[r].queued
      /\ k.coalescing = rank[r].coalescing /\ k.issued = rank[r].issued /\ k.ids = rank[r].ids
      /\ k.at = "offsets"
  BY <1>1, <1>4 DEF RankRecords
<1>. HIDE DEF k
<1>6. rank'[r] = k
  BY <1>3 DEF IInv, Types
<1>7. Op(r)' = Op(r) /\ Key(r)' = Key(r) /\ (HasComm(r)' <=> HasComm(r))
  BY <1>1, <1>5, <1>6, KeyKept
<1>8. GroupsOK(r)'
  BY <1>1, <1>5, <1>6 DEF IInv, RanksOK, GroupsOK
<1>9. PlaceOK(r)'
  BY <1>1, <1>5, <1>6, <1>7 DEF IInv, RanksOK, PlaceOK
<1>10. StoreOK'
  BY <1>1 DEF IInv, StoreOK
<1>. QED BY <1>1, <1>3, <1>5, <1>8, <1>9, <1>10, Moved

----------------------------------------------------------------------------
(* What is put on the streams is followed by the end event of a work *)

\* Inside a group a program starts no other, and does not wait for operations.
Plain ==
  \A c \in Configs : \A r \in Ranks : \A i \in DOMAIN c.program[r] :
    LET p == c.program[r]
    IN  Cardinality(Before(p, i, "end")) < Cardinality(Before(p, i, "start")) =>
          p[i].op # "start" /\ p[i].async

Items ==
  [item : {"kernel", "copy", "event", "wait"}, ops : SUBSET Names,
   seq : {<<>>} \cup Counts \cup {<<n, "coll">> : n \in Nat}]

\* Every kernel of a log is followed by the end event of its operations, but for
\* operations of open, whose group has not ended.
Clean(log, open) ==
  \A j \in 1..Len(log) : log[j].item = "kernel" =>
    \A name \in log[j].ops :
      \/ name \in open
      \/ \E i \in (j + 1)..Len(log) : log[i].item = "event" /\ name \in log[i].ops

LEMMA CleanConcat ==
  ASSUME NEW S, NEW c \in Seq(S), NEW d \in Seq(S), NEW open, Clean(c, open), Clean(d, open)
  PROVE  Clean(c \o d, open)
<1>. DEFINE log == c \o d
<1>1. /\ Len(c) \in Nat /\ Len(d) \in Nat /\ Len(log) = Len(c) + Len(d)
      /\ \A i \in 1..Len(c) : log[i] = c[i]
      /\ \A i \in 1..Len(d) : log[Len(c) + i] = d[i]
  OBVIOUS
<1>. HIDE DEF log
<1>2. ASSUME NEW j \in 1..Len(log), log[j].item = "kernel", NEW name \in log[j].ops, name \notin open
      PROVE  \E i \in (j + 1)..Len(log) : log[i].item = "event" /\ name \in log[i].ops
  <2>1. CASE j <= Len(c)
    <3>1. j \in 1..Len(c) /\ log[j] = c[j]
      BY <1>1, <2>1
    <3>2. PICK i \in (j + 1)..Len(c) : c[i].item = "event" /\ name \in c[i].ops
      BY <1>2, <3>1 DEF Clean
    <3>3. i \in 1..Len(c) /\ i \in (j + 1)..Len(log)
      BY <1>1, <3>1, <3>2
    <3>. QED BY <1>1, <3>2, <3>3
  <2>2. CASE j > Len(c)
    <3>1. PICK h \in 1..Len(d) : j = Len(c) + h
      <4>1. j - Len(c) \in 1..Len(d) /\ j = Len(c) + (j - Len(c))
        BY <1>1, <2>2
      <4>. QED BY <4>1
    <3>2. log[j] = d[h]
      BY <1>1, <3>1
    <3>3. PICK i \in (h + 1)..Len(d) : d[i].item = "event" /\ name \in d[i].ops
      BY <1>2, <3>1, <3>2 DEF Clean
    <3>4. i \in 1..Len(d) /\ Len(c) + i \in (j + 1)..Len(log)
      BY <1>1, <3>1, <3>3
    <3>5. log[Len(c) + i] = d[i]
      BY <1>1, <3>4
    <3>. QED BY <3>3, <3>4, <3>5
  <2>. QED BY <1>1, <2>1, <2>2
<1>3. Clean(log, open)
  BY <1>2 DEF Clean
<1>. QED BY <1>3 DEF log

LEMMA CleanGrows ==
  ASSUME NEW c, NEW open, NEW more, Clean(c, open), open \subseteq more
  PROVE  Clean(c, more)
BY DEF Clean

\* The end event of all that is open.
LEMMA CleanEnd ==
  ASSUME NEW S, NEW c \in Seq(S), NEW e \in S, NEW open, Clean(c, open),
         e.item = "event", open \subseteq e.ops
  PROVE  Clean(c \o <<e>>, {})
<1>. DEFINE log == c \o <<e>>
<1>1. /\ Len(c) \in Nat /\ Len(log) = Len(c) + 1 /\ log[Len(c) + 1] = e
      /\ \A i \in 1..Len(c) : log[i] = c[i]
  OBVIOUS
<1>. HIDE DEF log
<1>2. ASSUME NEW j \in 1..Len(log), log[j].item = "kernel", NEW name \in log[j].ops
      PROVE  \E i \in (j + 1)..Len(log) : log[i].item = "event" /\ name \in log[i].ops
  <2>1. j # Len(c) + 1
    <3>1. "kernel" # "event"
      OBVIOUS
    <3>. QED BY <1>1, <1>2, <3>1
  <2>2. j \in 1..Len(c) /\ log[j] = c[j]
    BY <1>1, <2>1
  <2>3. CASE name \in open
    <3>1. Len(c) + 1 \in (j + 1)..Len(log)
      BY <1>1, <2>2
    <3>. QED BY <1>1, <2>3, <3>1
  <2>4. CASE name \notin open
    <3>1. PICK i \in (j + 1)..Len(c) : c[i].item = "event" /\ name \in c[i].ops
      BY <1>2, <2>2, <2>4 DEF Clean
    <3>2. i \in 1..Len(c) /\ i \in (j + 1)..Len(log)
      BY <1>1, <2>2, <3>1
    <3>. QED BY <1>1, <3>1, <3>2
  <2>. QED BY <2>3, <2>4
<1>3. Clean(log, {})
  BY <1>2 DEF Clean
<1>. QED BY <1>3 DEF log

LEMMA CleanOne ==
  ASSUME NEW S, NEW e \in S, NEW open, e.item = "kernel" => e.ops \subseteq open
  PROVE  Clean(<<e>>, open)
<1>1. Len(<<e>>) = 1 /\ <<e>>[1] = e
  OBVIOUS
<1>. QED BY <1>1 DEF Clean

LEMMA CleanEmpty == ASSUME NEW open PROVE Clean(<<>>, open)
<1>1. 1..Len(<<>>) = {}
  OBVIOUS
<1>. QED BY <1>1 DEF Clean

\* A rank's logs: what is not followed by an end event is of the group it is in, and
\* on the stream of the communicator, where the group's own end event will be.
WatchOK(r) ==
  /\ rank[r].groups \in {0, 1}
  /\ rank[r].groups = 0 => rank[r].group = {}
  /\ rank[r].groups = 1 => "active" \in rank[r].coalescing
  /\ rank[r].group # {} => rank[r].coalescedComm # NoComm
  /\ rank[r].at = "offsets" /\ rank[r].groups = 1 => rank[r].coalescedComm # NoComm
  /\ \A q \in ToSet(rank[r].queued) : q.name \in rank[r].group /\ q.stream = Device
  /\ \A s \in Streams : Clean(stream[r][s], IF s = Device THEN rank[r].group ELSE {})

StreamsTyped == stream \in [Ranks -> [Streams -> Seq(Items)]]

WInv == IInv /\ StreamsTyped /\ (Plain => \A r \in Ranks : WatchOK(r))

LEMMA InitWInv == Init => WInv
<1>. SUFFICES ASSUME Init PROVE WInv
  OBVIOUS
<1>1. IInv
  BY InitIInv
<1>2. <<>> \in Seq(Items)
  OBVIOUS
<1>3. StreamsTyped
  BY <1>2 DEF Init, StreamsTyped
<1>4. ASSUME NEW r \in Ranks PROVE WatchOK(r)
  <2>1. /\ rank[r].groups = 0 /\ rank[r].group = {} /\ rank[r].at = "call"
        /\ rank[r].queued = <<>> /\ \A s \in Streams : stream[r][s] = <<>>
    BY DEF Init
  <2>2. ToSet(rank[r].queued) = {}
    BY <2>1 DEF ToSet
  <2>3. \A s \in Streams : Clean(stream[r][s], IF s = Device THEN rank[r].group ELSE {})
    BY <2>1, CleanEmpty
  <2>. QED BY <2>1, <2>2, <2>3 DEF WatchOK
<1>. QED BY <1>1, <1>3, <1>4 DEF WInv

\* In a group, the call is asynchronous and starts no other.
LEMMA PlainFacts ==
  ASSUME Plain, Types, NEW r \in Ranks, GroupsOK(r), rank[r].pc <= Len(config.program[r]),
         rank[r].groups # 0
  PROVE  Op(r).op # "start" /\ Op(r).async
<1>1. rank[r].pc \in DOMAIN config.program[r] /\ config \in Configs /\ rank[r].groups \in Nat
  BY KeyFacts DEF Types, RankRecords
<1>2. /\ Cardinality(Before(config.program[r], rank[r].pc, "end")) \in Nat
      /\ Cardinality(Before(config.program[r], rank[r].pc, "start")) \in Nat
  BY BeforeFacts
<1>3. Cardinality(Before(config.program[r], rank[r].pc, "end"))
        < Cardinality(Before(config.program[r], rank[r].pc, "start"))
  BY <1>1, <1>2 DEF GroupsOK
<1>. QED BY <1>1, <1>3 DEF Plain, Op

LEMMA WatchKept ==
  ASSUME NEW q, rank'[q] = rank[q], stream'[q] = stream[q], WatchOK(q)
  PROVE  WatchOK(q)'
BY DEF WatchOK

\* A step of rank r.
LEMMA WatchStep ==
  ASSUME WInv, IInv', NEW r \in Ranks,
         \A q \in Ranks : q # r => rank'[q] = rank[q] /\ stream'[q] = stream[q],
         StreamsTyped', Plain => WatchOK(r)'
  PROVE  WInv'
<1>1. ASSUME Plain, NEW q \in Ranks PROVE WatchOK(q)'
  <2>1. CASE q = r
    BY <1>1, <2>1
  <2>2. CASE q # r
    BY <1>1, <2>2, WatchKept DEF WInv
  <2>. QED BY <2>1, <2>2
<1>. QED BY <1>1 DEF WInv

LEMMA WatchQuiet ==
  ASSUME WInv, IInv', NEW r \in Ranks, NEW k, rank' = [rank EXCEPT ![r] = k], stream' = stream,
         k.groups = rank[r].groups, k.group = rank[r].group, k.coalescing = rank[r].coalescing,
         k.coalescedComm = rank[r].coalescedComm, k.queued = rank[r].queued,
         k.at = "offsets" => rank[r].at = "offsets"
  PROVE  WInv'
<1>1. rank'[r] = k /\ \A q \in Ranks : q # r => rank'[q] = rank[q] /\ stream'[q] = stream[q]
  BY DEF WInv, IInv, Types
<1>2. StreamsTyped'
  BY DEF WInv, StreamsTyped
<1>3. Plain => WatchOK(r)'
  BY <1>1 DEF WInv, WatchOK
<1>. QED BY <1>1, <1>2, <1>3, WatchStep

LEMMA QuietSteps ==
  ASSUME WInv, IInv', NEW r \in Ranks,
         Begin(r) \/ GetId(r) \/ Join(r) \/ Create(r) \/ ReadOffsets(r) \/ Synchronize(r) \/ Fail(r)
  PROVE  WInv'
<1>1. rank[r] \in RankRecords /\ rank \in [Ranks -> RankRecords]
  BY DEF WInv, IInv, Types
<1>2. CASE Begin(r)
  <2>. DEFINE k == [rank[r] EXCEPT !.seqCollective = SeqCollective(r), !.seqP2P = SeqP2P(r),
                      !.at = IF HasComm(r) /\ Op(r).op # "connect" THEN "issue" ELSE "init"]
  <2>1. rank' = [rank EXCEPT ![r] = k] /\ stream' = stream
    BY <1>1, <1>2 DEF Begin
  <2>2. /\ k.groups = rank[r].groups /\ k.group = rank[r].group /\ k.coalescing = rank[r].coalescing
        /\ k.coalescedComm = rank[r].coalescedComm /\ k.queued = rank[r].queued /\ k.at # "offsets"
    BY <1>1 DEF RankRecords
  <2>. HIDE DEF k
  <2>. QED BY <2>1, <2>2, WatchQuiet
<1>3. CASE GetId(r)
  <2>1. PICK e \in store : rank' = [rank EXCEPT ![r].at = "join", ![r].id = e.value]
    BY <1>3 DEF GetId
  <2>. DEFINE k == [rank[r] EXCEPT !.at = "join", !.id = e.value]
  <2>2. rank' = [rank EXCEPT ![r] = k] /\ stream' = stream
    BY <1>1, <1>3, <2>1 DEF GetId
  <2>3. /\ k.groups = rank[r].groups /\ k.group = rank[r].group /\ k.coalescing = rank[r].coalescing
        /\ k.coalescedComm = rank[r].coalescedComm /\ k.queued = rank[r].queued /\ k.at # "offsets"
    BY <1>1 DEF RankRecords
  <2>. HIDE DEF k
  <2>. QED BY <2>2, <2>3, WatchQuiet
<1>4. CASE Join(r)
  <2>. DEFINE k == [rank[r] EXCEPT !.at = "create"]
  <2>1. rank' = [rank EXCEPT ![r] = k] /\ stream' = stream
    BY <1>1, <1>4 DEF Join
  <2>2. /\ k.groups = rank[r].groups /\ k.group = rank[r].group /\ k.coalescing = rank[r].coalescing
        /\ k.coalescedComm = rank[r].coalescedComm /\ k.queued = rank[r].queued /\ k.at # "offsets"
    BY <1>1 DEF RankRecords
  <2>. HIDE DEF k
  <2>. QED BY <2>1, <2>2, WatchQuiet
<1>5. CASE Create(r)
  <2>. DEFINE connect == Op(r).op = "connect"
              comms == IF HasComm(r) THEN rank[r].comms
                       ELSE rank[r].comms \cup {[key |-> Key(r), id |-> rank[r].id]}
              at == IF connect THEN "call" ELSE "issue"
              i == IF connect THEN rank[r].pc + 1 ELSE rank[r].pc
              eager == rank[r].eager \/ connect
              k == [rank[r] EXCEPT !.comms = comms, !.id = NoComm, !.at = at, !.pc = i, !.eager = eager]
  <2>1. rank' = [rank EXCEPT ![r] = k] /\ stream' = stream
    BY <1>1, <1>5 DEF Create
  <2>2. at # "offsets"
    OBVIOUS
  <2>. HIDE DEF comms, at, i, eager
  <2>3. /\ k.groups = rank[r].groups /\ k.group = rank[r].group /\ k.coalescing = rank[r].coalescing
        /\ k.coalescedComm = rank[r].coalescedComm /\ k.queued = rank[r].queued /\ k.at = at
    BY <1>1 DEF RankRecords
  <2>. HIDE DEF k
  <2>. QED BY <2>1, <2>2, <2>3, WatchQuiet
<1>6. CASE ReadOffsets(r)
  <2>1. PICK q \in rank[r].todo, e \in store :
          rank' = [rank EXCEPT ![r].todo = @ \ {q}, ![r].mixed = @ \/ e.value # Name(r)]
    BY <1>6 DEF ReadOffsets
  <2>. DEFINE mixed == rank[r].mixed \/ e.value # Name(r)
              k == [rank[r] EXCEPT !.todo = @ \ {q}, !.mixed = mixed]
  <2>2. rank' = [rank EXCEPT ![r] = k] /\ stream' = stream /\ rank[r].at = "offsets"
    BY <1>1, <1>6, <2>1 DEF ReadOffsets, At
  <2>. HIDE DEF mixed
  <2>3. /\ k.groups = rank[r].groups /\ k.group = rank[r].group /\ k.coalescing = rank[r].coalescing
        /\ k.coalescedComm = rank[r].coalescedComm /\ k.queued = rank[r].queued
    BY <1>1 DEF RankRecords
  <2>. HIDE DEF k
  <2>. QED BY <2>2, <2>3, WatchQuiet
<1>7. CASE Synchronize(r)
  <2>. DEFINE k == [rank[r] EXCEPT !.pc = @ + 1]
  <2>1. rank' = [rank EXCEPT ![r] = k] /\ stream' = stream /\ rank[r].at = "call"
    BY <1>1, <1>7 DEF Synchronize, At
  <2>2. /\ k.groups = rank[r].groups /\ k.group = rank[r].group /\ k.coalescing = rank[r].coalescing
        /\ k.coalescedComm = rank[r].coalescedComm /\ k.queued = rank[r].queued /\ k.at = rank[r].at
    BY <1>1 DEF RankRecords
  <2>. HIDE DEF k
  <2>. QED BY <2>1, <2>2, WatchQuiet
<1>8. CASE Fail(r)
  <2>. DEFINE k == [rank[r] EXCEPT !.at = "failed"]
  <2>1. rank' = [rank EXCEPT ![r] = k] /\ stream' = stream
    BY <1>1, <1>8 DEF Fail
  <2>2. /\ k.groups = rank[r].groups /\ k.group = rank[r].group /\ k.coalescing = rank[r].coalescing
        /\ k.coalescedComm = rank[r].coalescedComm /\ k.queued = rank[r].queued /\ k.at # "offsets"
    BY <1>1 DEF RankRecords
  <2>. HIDE DEF k
  <2>. QED BY <2>1, <2>2, WatchQuiet
<1>. QED BY <1>2, <1>3, <1>4, <1>5, <1>6, <1>7, <1>8

LEMMA ToSetFacts ==
  ASSUME NEW S, NEW c \in Seq(S)
  PROVE  /\ \A x \in ToSet(c) : x \in S
         /\ \A e \in S : ToSet(Append(c, e)) = ToSet(c) \cup {e}
<1>1. Len(c) \in Nat /\ DOMAIN c = 1..Len(c) /\ \A i \in 1..Len(c) : c[i] \in S
  OBVIOUS
<1>2. \A x \in ToSet(c) : x \in S
  BY <1>1 DEF ToSet
<1>3. ASSUME NEW e \in S PROVE ToSet(Append(c, e)) = ToSet(c) \cup {e}
  <2>1. DOMAIN Append(c, e) = 1..(Len(c) + 1) /\ Append(c, e)[Len(c) + 1] = e
        /\ \A i \in 1..Len(c) : Append(c, e)[i] = c[i]
    OBVIOUS
  <2>2. 1..(Len(c) + 1) = 1..Len(c) \cup {Len(c) + 1}
    BY <1>1
  <2>. QED BY <1>1, <2>1, <2>2 DEF ToSet
<1>. QED BY <1>2, <1>3

\* What mcclGroupEnd puts on a stream.
LEMMA KernelsFacts ==
  ASSUME WInv, NEW r \in Ranks, NEW s \in Streams
  PROVE  /\ Kernels(rank[r].queued, s) \in Seq(Items)
         /\ WatchOK(r) => Clean(Kernels(rank[r].queued, s), IF s = Device THEN rank[r].group ELSE {})
<1>. DEFINE Q == {x \in ToSet(rank[r].queued) : x.stream = s}
            ops == {q.name : q \in Q}
            e == [item |-> "kernel", ops |-> ops, seq |-> <<>>]
            open == IF s = Device THEN rank[r].group ELSE {}
<1>1. rank[r].queued \in Seq([name : Names, stream : Streams])
  BY DEF WInv, IInv, Types, RankRecords
<1>2. \A q \in ToSet(rank[r].queued) : q.name \in Names
  <2>1. \A q \in ToSet(rank[r].queued) : q \in [name : Names, stream : Streams]
    BY <1>1, ToSetFacts
  <2>. QED BY <2>1
<1>3. ops \subseteq Names
  BY <1>2
<1>4. WatchOK(r) => ops \subseteq open
  BY DEF WatchOK
<1>5. Kernels(rank[r].queued, s) = IF ops = {} THEN <<>> ELSE <<e>>
  BY DEF Kernels
<1>. HIDE DEF ops, open
<1>6. e \in Items /\ e.ops = ops /\ e.item = "kernel"
  BY <1>3 DEF Items
<1>. HIDE DEF e
<1>7. <<e>> \in Seq(Items) /\ <<>> \in Seq(Items)
  BY <1>6
<1>8. WatchOK(r) => Clean(<<e>>, open) /\ Clean(<<>>, open)
  BY <1>4, <1>6, CleanOne, CleanEmpty
<1>9. Kernels(rank[r].queued, s) \in Seq(Items)
  BY <1>5, <1>7
<1>10. WatchOK(r) => Clean(Kernels(rank[r].queued, s), open)
  BY <1>5, <1>8
<1>. QED BY <1>9, <1>10 DEF open

LEMMA LaunchStep ==
  ASSUME WInv, IInv', NEW r \in Ranks, initMCCLComm(r)
  PROVE  WInv'
<1>1. rank[r] \in RankRecords /\ rank \in [Ranks -> RankRecords]
      /\ stream \in [Ranks -> [Streams -> Seq(Items)]]
  BY DEF WInv, IInv, Types, StreamsTyped
<1>2. stream' = [stream EXCEPT ![r] = Launched(r)]
  BY DEF initMCCLComm
<1>3. \A q \in Ranks : q # r => rank'[q] = rank[q] /\ stream'[q] = stream[q]
  <2>1. \A q \in Ranks : q # r => stream'[q] = stream[q]
    BY <1>1, <1>2
  <2>2. \A q \in Ranks : q # r => rank'[q] = rank[q]
    BY <1>1 DEF initMCCLComm
  <2>. QED BY <2>1, <2>2
<1>4. \A s \in Streams : stream'[r][s] = stream[r][s] \o Kernels(rank[r].queued, s)
  BY <1>1, <1>2 DEF Launched
<1>5. \A s \in Streams : stream[r][s] \in Seq(Items) /\ Kernels(rank[r].queued, s) \in Seq(Items)
  BY <1>1, KernelsFacts
<1>6. Launched(r) \in [Streams -> Seq(Items)]
  <2>1. \A s \in Streams : stream[r][s] \o Kernels(rank[r].queued, s) \in Seq(Items)
    BY <1>5
  <2>. QED BY <2>1 DEF Launched
<1>7. StreamsTyped'
  BY <1>1, <1>2, <1>6 DEF StreamsTyped
<1>8. /\ rank'[r].groups = rank[r].groups /\ rank'[r].group = rank[r].group
      /\ rank'[r].coalescing = rank[r].coalescing /\ rank'[r].coalescedComm = rank[r].coalescedComm
      /\ rank'[r].queued = <<>> /\ rank'[r].at \in {"join", "get"}
  <2>. DEFINE id == IF isSendRecvSelf(r) THEN Garbage(r) ELSE <<r, rank[r].ids + 1>>
              c == IF singleP2POp(r) THEN rank[r].mcclCommCounter ELSE rank[r].mcclCommCounter + 1
  <2>1. \/ rank' = [rank EXCEPT ![r].queued = <<>>, ![r].at = "join", ![r].id = id]
        \/ rank' = [rank EXCEPT ![r].queued = <<>>, ![r].at = "join", ![r].id = id,
                          ![r].ids = @ + 1, ![r].mcclCommCounter = c]
        \/ rank' = [rank EXCEPT ![r].queued = <<>>, ![r].at = "get", ![r].id = storeKey(r),
                          ![r].mcclCommCounter = c]
    BY <1>1 DEF initMCCLComm, RankRecords
  <2>. HIDE DEF id, c
  <2>. QED BY <1>1, <2>1 DEF RankRecords
<1>9. ASSUME WatchOK(r) PROVE WatchOK(r)'
  <2>1. ToSet(rank'[r].queued) = {}
    BY <1>8 DEF ToSet
  <2>2. ASSUME NEW s \in Streams PROVE Clean(stream'[r][s], IF s = Device THEN rank'[r].group ELSE {})
    <3>. DEFINE open == IF s = Device THEN rank[r].group ELSE {}
    <3>1. Clean(stream[r][s], open)
      BY <1>9 DEF WatchOK
    <3>2. Clean(Kernels(rank[r].queued, s), open)
      BY <1>9, KernelsFacts
    <3>. HIDE DEF open
    <3>3. Clean(stream[r][s] \o Kernels(rank[r].queued, s), open)
      BY <1>5, <3>1, <3>2, CleanConcat
    <3>. QED BY <1>4, <1>8, <3>3 DEF open
  <2>. QED BY <1>8, <1>9, <2>1, <2>2 DEF WatchOK
<1>. QED BY <1>3, <1>7, <1>9, WatchStep DEF WInv

LEMMA PublishStep ==
  ASSUME WInv, IInv', NEW r \in Ranks, PublishOffsets(r)
  PROVE  WInv'
<1>. DEFINE k == Coalesced(r)
            todo == Ranks \ {r}
            l == [k EXCEPT !.at = "offsets", !.todo = todo]
<1>1. HasComm(r) /\ Types
  BY DEF PublishOffsets, At, WInv, IInv, RanksOK, PlaceOK
<1>2. /\ k \in RankRecords /\ k.groups = rank[r].groups /\ k.queued = rank[r].queued
      /\ k.group = rank[r].group /\ rank[r].coalescing \subseteq k.coalescing
      /\ IF "active" \in rank[r].coalescing THEN k.coalescedComm # NoComm
         ELSE k.coalescedComm = rank[r].coalescedComm
  BY <1>1, CoalescedFacts
<1>3. rank' = [rank EXCEPT ![r] = l] /\ stream' = stream
  BY DEF PublishOffsets
<1>. HIDE DEF k
<1>4. /\ l.groups = rank[r].groups /\ l.queued = rank[r].queued /\ l.group = rank[r].group
      /\ l.coalescing = k.coalescing /\ l.coalescedComm = k.coalescedComm
  BY <1>2 DEF RankRecords
<1>. HIDE DEF l
<1>5. rank'[r] = l /\ \A q \in Ranks : q # r => rank'[q] = rank[q] /\ stream'[q] = stream[q]
  BY <1>1, <1>3 DEF Types
<1>6. StreamsTyped'
  BY <1>3 DEF WInv, StreamsTyped
<1>7. ASSUME WatchOK(r) PROVE WatchOK(r)'
  BY <1>2, <1>3, <1>4, <1>5, <1>7 DEF WatchOK
<1>. QED BY <1>5, <1>6, <1>7, WatchStep DEF WInv

LEMMA EventFacts ==
  ASSUME NEW ops \in SUBSET Names, NEW p2p, NEW k \in RankRecords
  PROVE  \E e \in Items : e.item = "event" /\ e.ops = ops /\ Event(ops, p2p, k) = <<e>>
<1>. DEFINE seq == IF p2p THEN <<k.seqP2P>> ELSE <<k.seqCollective, "coll">>
            e == [item |-> "event", ops |-> ops, seq |-> seq]
<1>1. k.seqP2P \in Nat /\ k.seqCollective \in Nat
  BY DEF RankRecords
<1>2. seq \in {<<>>} \cup Counts \cup {<<n, "coll">> : n \in Nat}
  BY <1>1 DEF Counts
<1>3. Event(ops, p2p, k) = <<e>>
  BY DEF Event, Item
<1>. HIDE DEF seq
<1>4. e \in Items
  BY <1>2 DEF Items
<1>. QED BY <1>3, <1>4

LEMMA syncStreamFacts ==
  ASSUME StreamsTyped, NEW r \in Ranks, NEW s, NEW open
  PROVE  syncStream(r, s) \in Seq(Items) /\ Clean(syncStream(r, s), open)
<1>. DEFINE n == Len(stream[r][Current])
            e == [item |-> "wait", ops |-> {}, seq |-> <<n>>]
<1>1. n \in Nat
  <2>1. Current \in Streams
    BY DEF Streams
  <2>2. stream[r][Current] \in Seq(Items)
    BY <2>1 DEF StreamsTyped
  <2>. QED BY <2>2
<1>2. syncStream(r, s) \in {<<>>, <<e>>}
  BY DEF syncStream, Item
<1>. HIDE DEF n
<1>3. e \in Items /\ e.item = "wait"
  BY <1>1 DEF Items, Counts
<1>. HIDE DEF e
<1>4. Clean(<<e>>, open) /\ Clean(<<>>, open)
  <2>1. "wait" # "kernel"
    OBVIOUS
  <2>. QED BY <1>3, <2>1, CleanOne, CleanEmpty
<1>5. <<e>> \in Seq(Items) /\ <<>> \in Seq(Items)
  BY <1>3
<1>. QED BY <1>2, <1>4, <1>5

LEMMA IssuedWatch ==
  ASSUME WInv, IInv', NEW r \in Ranks, rank[r].pc <= Len(config.program[r]),
         rank[r].at \in {"issue", "offsets"}, NEW k \in RankRecords,
         k.groups = rank[r].groups, k.queued = rank[r].queued, k.group = rank[r].group,
         rank[r].coalescing \subseteq k.coalescing, rank[r].coalescing = {} => k.coalescing = {},
         WatchOK(r) /\ rank[r].groups = 1 => k.coalescedComm # NoComm,
         Issued(r, k)
  PROVE  WInv'
<1>. DEFINE s == IF Op(r).async THEN Key(r) ELSE Current
            name == Name(r)
            grouped == k.groups > 0
            single == k.coalescing = {} \/ Op(r).op = "coalesced"
            A == syncStream(r, s)
            B == IF grouped THEN <<>> ELSE Item("kernel", {name}, <<>>)
            C == IF Op(r).copy THEN Item("copy", {name}, <<>>) ELSE <<>>
            D == IF single THEN Event({name}, Op(r).op = "p2p", k) ELSE <<>>
            log == stream[r][s] \o A \o B \o C \o D
            new == [name |-> name, stream |-> s]
            queued == IF grouped THEN Append(k.queued, new) ELSE k.queued
            group == IF k.coalescing = {} THEN {} ELSE k.group \cup {name}
            i == k.pc + 1
            issued == k.issued \cup {[name |-> name, kind |-> Op(r).kind]}
            l == [k EXCEPT !.pc = i, !.at = "call", !.queued = queued, !.group = group,
                           !.issued = issued]
<1>1. HasComm(r) /\ Types /\ GroupsOK(r) /\ StreamsTyped
      /\ (rank[r].groups = 0 => rank[r].queued = <<>> /\ rank[r].coalescing = {})
  BY DEF WInv, IInv, RanksOK, PlaceOK, GroupsOK
<1>2. name \in Names
  BY <1>1, NameFacts
<1>3. s \in Streams
  <2>1. Key(r) \in CommKeys
    BY <1>1, KeyFacts
  <2>2. Current \in Streams
    BY DEF Streams
  <2>. QED BY <2>1, <2>2, Streamed
<1>4. stream' = [stream EXCEPT ![r][s] = log] /\ rank' = [rank EXCEPT ![r] = l]
  BY <1>1, <1>3 DEF Issued, StreamsTyped
<1>5. WatchOK(r) /\ Plain /\ rank[r].groups = 1 => s = Device
  <2>1. Plain /\ rank[r].groups # 0 => Op(r).async
    BY <1>1, PlainFacts
  <2>2. rank[r].groups # 0 => Key(r) = Device
    BY DEF Key
  <2>3. rank[r].groups = 1 => rank[r].groups # 0
    OBVIOUS
  <2>. QED BY <2>1, <2>2, <2>3
<1>6. A \in Seq(Items) /\ \A open : Clean(A, open)
  BY <1>1, syncStreamFacts
<1>7. stream[r][s] \in Seq(Items)
  BY <1>1, <1>3 DEF StreamsTyped
<1>8. k.groups \in Nat
  BY DEF RankRecords
<1>. HIDE DEF s, name, A
<1>9. PICK kernel \in Items : kernel.item = "kernel" /\ kernel.ops = {name}
                              /\ Item("kernel", {name}, <<>>) = <<kernel>>
  <2>. DEFINE e == [item |-> "kernel", ops |-> {name}, seq |-> <<>>]
  <2>1. e \in Items
    BY <1>2 DEF Items
  <2>. QED BY <2>1 DEF Item
<1>10. PICK copy \in Items : copy.item = "copy" /\ Item("copy", {name}, <<>>) = <<copy>>
  <2>. DEFINE e == [item |-> "copy", ops |-> {name}, seq |-> <<>>]
  <2>1. e \in Items
    BY <1>2 DEF Items
  <2>. QED BY <2>1 DEF Item
<1>11. PICK event \in Items : event.item = "event" /\ event.ops = {name}
                              /\ Event({name}, Op(r).op = "p2p", k) = <<event>>
  <2>1. {name} \in SUBSET Names
    BY <1>2
  <2>. QED BY <2>1, EventFacts
<1>12. <<>> \in Seq(Items) /\ <<kernel>> \in Seq(Items) /\ <<copy>> \in Seq(Items)
       /\ <<event>> \in Seq(Items)
  OBVIOUS
<1>13. "copy" # "kernel" /\ "event" # "kernel"
  OBVIOUS
<1>14. B \in Seq(Items) /\ (grouped => B = <<>>) /\ (~grouped => B = <<kernel>>)
  BY <1>9, <1>12
<1>15. C \in Seq(Items) /\ \A open : Clean(C, open)
  <2>1. C \in {<<>>, <<copy>>}
    BY <1>10
  <2>2. \A open : Clean(<<copy>>, open) /\ Clean(<<>>, open)
    BY <1>10, <1>13, CleanOne, CleanEmpty
  <2>. QED BY <1>12, <2>1, <2>2
<1>16. D \in Seq(Items) /\ (single => D = <<event>>) /\ \A open : Clean(D, open)
  <2>1. D \in {<<>>, <<event>>}
    BY <1>11
  <2>2. \A open : Clean(<<event>>, open) /\ Clean(<<>>, open)
    BY <1>11, <1>13, CleanOne, CleanEmpty
  <2>3. single => D = <<event>>
    BY <1>11
  <2>. QED BY <1>12, <2>1, <2>2, <2>3
<1>. HIDE DEF B, C, D
<1>17. (stream[r][s] \o A) \in Seq(Items) /\ ((stream[r][s] \o A) \o B) \in Seq(Items)
       /\ (((stream[r][s] \o A) \o B) \o C) \in Seq(Items) /\ log \in Seq(Items)
  BY <1>6, <1>7, <1>14, <1>15, <1>16
<1>18. ASSUME NEW open, Clean(stream[r][s], open), grouped PROVE Clean(log, open)
  <2>1. Clean(stream[r][s] \o A, open)
    BY <1>6, <1>7, <1>18, CleanConcat
  <2>2. Clean((stream[r][s] \o A) \o B, open)
    BY <1>12, <1>14, <1>17, <1>18, <2>1, CleanConcat, CleanEmpty
  <2>3. Clean(C, open) /\ Clean(D, open) /\ C \in Seq(Items) /\ D \in Seq(Items)
    BY <1>15, <1>16
  <2>. DEFINE AB == (stream[r][s] \o A) \o B
  <2>4. AB \in Seq(Items) /\ Clean(AB, open) /\ (AB \o C) \in Seq(Items) /\ log = (AB \o C) \o D
    BY <1>17, <2>2
  <2>. HIDE DEF AB, log
  <2>5. Clean(AB \o C, open)
    BY <2>3, <2>4, CleanConcat
  <2>6. Clean((AB \o C) \o D, open)
    BY <2>3, <2>4, <2>5, CleanConcat
  <2>. QED BY <2>4, <2>6
<1>19. ASSUME Clean(stream[r][s], {}), ~grouped, single PROVE Clean(log, {})
  <2>1. Clean(stream[r][s], {name})
    BY <1>19, CleanGrows
  <2>2. Clean(stream[r][s] \o A, {name})
    BY <1>6, <1>7, <2>1, CleanConcat
  <2>3. Clean(<<kernel>>, {name})
    BY <1>9, CleanOne
  <2>4. Clean((stream[r][s] \o A) \o B, {name})
    BY <1>14, <1>17, <1>19, <2>2, <2>3, CleanConcat
  <2>5. Clean(C, {name}) /\ C \in Seq(Items)
    BY <1>15
  <2>. DEFINE AB == (stream[r][s] \o A) \o B
  <2>6. AB \in Seq(Items) /\ Clean(AB, {name}) /\ (AB \o C) \in Seq(Items)
        /\ log = (AB \o C) \o <<event>>
    BY <1>16, <1>17, <1>19, <2>4
  <2>. HIDE DEF AB, log
  <2>7. Clean(AB \o C, {name})
    BY <2>5, <2>6, CleanConcat
  <2>8. Clean((AB \o C) \o <<event>>, {})
    BY <1>11, <2>6, <2>7, CleanEnd
  <2>. QED BY <2>6, <2>8
<1>. HIDE DEF log, queued, group, i, issued
<1>20. /\ l.groups = k.groups /\ l.coalescing = k.coalescing /\ l.coalescedComm = k.coalescedComm
       /\ l.group = group /\ l.queued = queued /\ l.at = "call"
  BY DEF RankRecords
<1>. HIDE DEF l
<1>21. /\ rank'[r] = l /\ stream'[r][s] = log
       /\ \A t \in Streams : t # s => stream'[r][t] = stream[r][t]
       /\ \A q \in Ranks : q # r => rank'[q] = rank[q] /\ stream'[q] = stream[q]
  BY <1>1, <1>3, <1>4 DEF Types, StreamsTyped
<1>22. StreamsTyped'
  BY <1>1, <1>3, <1>4, <1>17 DEF StreamsTyped
<1>23. ASSUME WatchOK(r), Plain PROVE WatchOK(r)'
  <2>1. /\ rank[r].groups \in {0, 1} /\ (rank[r].groups = 0 => rank[r].group = {})
        /\ (rank[r].groups = 1 => "active" \in rank[r].coalescing)
        /\ (\A q \in ToSet(rank[r].queued) : q.name \in rank[r].group /\ q.stream = Device)
        /\ \A t \in Streams : Clean(stream[r][t], IF t = Device THEN rank[r].group ELSE {})
    BY <1>23 DEF WatchOK
  <2>2. CASE rank[r].groups = 0
    <3>1. ~grouped /\ single /\ k.coalescing = {} /\ group = {} /\ queued = <<>>
      BY <1>1, <1>8, <2>2 DEF group, queued
    <3>2. Clean(log, {})
      BY <1>3, <1>19, <2>1, <2>2, <3>1
    <3>3. \A t \in Streams : Clean(stream'[r][t], {})
      BY <1>21, <2>1, <2>2, <3>2
    <3>4. ToSet(queued) = {}
      BY <3>1 DEF ToSet
    <3>5. /\ rank'[r].groups = 0 /\ rank'[r].group = {} /\ rank'[r].at = "call"
          /\ ToSet(rank'[r].queued) = {}
      BY <1>20, <1>21, <2>2, <3>1, <3>4
    <3>6. \A t \in Streams : Clean(stream'[r][t], IF t = Device THEN rank'[r].group ELSE {})
      BY <3>3, <3>5
    <3>. QED BY <3>5, <3>6 DEF WatchOK
  <2>3. CASE rank[r].groups = 1
    <3>1. grouped /\ "active" \in k.coalescing /\ k.coalescing # {} /\ k.coalescedComm # NoComm
      BY <1>23, <2>1, <2>3
    <3>2. s = Device
      BY <1>5, <1>23, <2>3
    <3>3. group = rank[r].group \cup {name} /\ queued = Append(rank[r].queued, new)
      BY <3>1 DEF group, queued
    <3>4. ToSet(queued) = ToSet(rank[r].queued) \cup {new} /\ new.name = name /\ new.stream = s
      <4>1. rank[r].queued \in Seq([name : Names, stream : Streams])
        BY <1>1 DEF Types, RankRecords
      <4>2. new \in [name : Names, stream : Streams]
        BY <1>2, <1>3
      <4>3. new.name = name /\ new.stream = s
        OBVIOUS
      <4>. DEFINE S == [name : Names, stream : Streams]
      <4>5. rank[r].queued \in Seq(S) /\ new \in S
        BY <4>1, <4>2
      <4>. HIDE DEF new, S
      <4>4. ToSet(Append(rank[r].queued, new)) = ToSet(rank[r].queued) \cup {new}
        BY <4>5, ToSetFacts
      <4>. QED BY <3>3, <4>3, <4>4
    <3>. HIDE DEF new
    <3>5. \A q \in ToSet(queued) : q.name \in group /\ q.stream = Device
      BY <2>1, <3>2, <3>3, <3>4
    <3>6. Clean(log, rank[r].group)
      BY <1>3, <1>18, <2>1, <3>1, <3>2
    <3>7. Clean(log, group)
      BY <3>3, <3>6, CleanGrows
    <3>8. \A t \in Streams : Clean(stream'[r][t], IF t = Device THEN group ELSE {})
      BY <1>21, <2>1, <3>2, <3>7
    <3>. QED BY <1>20, <1>21, <2>3, <3>1, <3>5, <3>8 DEF WatchOK
  <2>. QED BY <2>1, <2>2, <2>3
<1>. QED BY <1>21, <1>22, <1>23, WatchStep DEF WInv

LEMMA IssueWatch ==
  ASSUME WInv, IInv', NEW r \in Ranks, Issue(r)
  PROVE  WInv'
<1>1. rank[r].at = "issue" /\ rank[r].pc <= Len(config.program[r]) /\ Issued(r, Coalesced(r))
  BY DEF Issue, At
<1>2. HasComm(r) /\ Types
  BY <1>1 DEF WInv, IInv, RanksOK, PlaceOK
<1>. DEFINE k == Coalesced(r)
<1>3. /\ k \in RankRecords /\ k.groups = rank[r].groups /\ k.queued = rank[r].queued
      /\ k.group = rank[r].group /\ rank[r].coalescing \subseteq k.coalescing
      /\ rank[r].coalescing = {} => k.coalescing = {}
      /\ "active" \in rank[r].coalescing => k.coalescedComm # NoComm
  BY <1>2, CoalescedFacts
<1>4. Issued(r, k)
  BY <1>1
<1>. HIDE DEF k
<1>5. WatchOK(r) /\ rank[r].groups = 1 => k.coalescedComm # NoComm
  BY <1>3 DEF WatchOK
<1>. QED BY <1>1, <1>3, <1>4, <1>5, IssuedWatch

LEMMA IssueAllToAllvWatch ==
  ASSUME WInv, IInv', NEW r \in Ranks, IssueAllToAllv(r)
  PROVE  WInv'
<1>1. rank[r].at = "offsets" /\ rank[r].pc <= Len(config.program[r]) /\ Issued(r, rank[r])
  BY DEF IssueAllToAllv, At
<1>2. rank[r] \in RankRecords
  BY DEF WInv, IInv, Types
<1>3. WatchOK(r) /\ rank[r].groups = 1 => rank[r].coalescedComm # NoComm
  BY <1>1 DEF WatchOK
<1>. QED BY <1>1, <1>2, <1>3, IssuedWatch

LEMMA StartWatch ==
  ASSUME WInv, IInv', NEW r \in Ranks, Start(r)
  PROVE  WInv'
<1>. DEFINE n == rank[r].groups + 1
            i == rank[r].pc + 1
            both == rank[r].coalescing \cup {"active"}
            k == [rank[r] EXCEPT !.coalescedComm = NoComm, !.coalescing = both, !.groups = n, !.pc = i]
<1>1. Types /\ GroupsOK(r) /\ rank[r] \in RankRecords /\ rank[r].pc <= Len(config.program[r])
      /\ Op(r).op = "start" /\ rank[r].groups \in Nat
      /\ (rank[r].groups = 0 => rank[r].queued = <<>>)
  BY DEF WInv, IInv, RanksOK, GroupsOK, Types, RankRecords, Start, At
<1>2. rank' = [rank EXCEPT ![r] = k] /\ stream' = stream /\ rank[r].at = "call"
  BY <1>1 DEF Start, At, Types
<1>. HIDE DEF both, n, i
<1>3. /\ k.groups = n /\ k.group = rank[r].group /\ k.coalescing = both /\ k.queued = rank[r].queued
      /\ k.at = rank[r].at
  BY <1>1 DEF RankRecords
<1>. HIDE DEF k
<1>4. rank'[r] = k /\ \A q \in Ranks : q # r => rank'[q] = rank[q] /\ stream'[q] = stream[q]
  BY <1>1, <1>2 DEF Types
<1>5. StreamsTyped'
  BY <1>2 DEF WInv, StreamsTyped
<1>6. ASSUME WatchOK(r), Plain PROVE WatchOK(r)'
  <2>1. rank[r].groups = 0
    BY <1>1, <1>6, PlainFacts
  <2>2. rank[r].group = {} /\ ToSet(rank[r].queued) = {} /\ n = 1 /\ "active" \in both
    BY <1>1, <1>6, <2>1 DEF WatchOK, ToSet, n, both
  <2>3. \A s \in Streams : Clean(stream[r][s], IF s = Device THEN rank[r].group ELSE {})
    BY <1>6 DEF WatchOK
  <2>. QED BY <1>2, <1>3, <1>4, <2>2, <2>3 DEF WatchOK
<1>. QED BY <1>4, <1>5, <1>6, WatchStep DEF WInv

LEMMA EndWatch ==
  ASSUME WInv, IInv', NEW r \in Ranks, End(r)
  PROVE  WInv'
<1>. DEFINE n == rank[r].groups - 1
            i == rank[r].pc + 1
            left == IF rank[r].groups = 1 THEN <<>> ELSE rank[r].queued
            k == [rank[r] EXCEPT !.groups = n, !.coalescing = {}, !.coalescedComm = NoComm,
                                 !.group = {}, !.queued = left, !.pc = i]
            work(s) == IF s = Device THEN GroupWork(r) ELSE <<>>
            closed(s) == IF rank[r].groups = 1 THEN Kernels(rank[r].queued, s) ELSE <<>>
            log == [s \in Streams |-> stream[r][s] \o closed(s) \o work(s)]
<1>1. Types /\ GroupsOK(r) /\ rank[r] \in RankRecords /\ rank[r].pc <= Len(config.program[r])
      /\ Op(r).op = "end" /\ StreamsTyped
  BY DEF WInv, IInv, RanksOK, Types, RankRecords, End, EndWith, At
<1>2. rank[r].groups \in Nat /\ rank[r].groups >= 1
  BY <1>1, Ended
<1>3. rank' = [rank EXCEPT ![r] = k] /\ rank[r].at = "call"
  BY DEF End, EndWith, At
<1>4. stream' = [stream EXCEPT ![r] = log]
  BY DEF End, EndWith, Closed
<1>5. /\ k.groups = n /\ k.group = {} /\ k.coalescing = {} /\ k.queued = left
      /\ k.at = rank[r].at
  BY <1>1 DEF RankRecords
<1>. HIDE DEF k, left
<1>6. /\ rank'[r] = k /\ stream'[r] = log
      /\ \A q \in Ranks : q # r => rank'[q] = rank[q] /\ stream'[q] = stream[q]
  BY <1>1, <1>3, <1>4 DEF Types, StreamsTyped
<1>7. GroupWork(r) \in Seq(Items)
      /\ (rank[r].coalescedComm # NoComm =>
            \E e \in Items : e.item = "event" /\ e.ops = rank[r].group /\ GroupWork(r) = <<e>>)
      /\ (rank[r].coalescedComm = NoComm => GroupWork(r) = <<>>)
  <2>1. rank[r].group \in SUBSET Names
    BY <1>1 DEF RankRecords
  <2>2. PICK e \in Items : e.item = "event" /\ e.ops = rank[r].group
          /\ Event(rank[r].group, "p2p" \in rank[r].coalescing, rank[r]) = <<e>>
    BY <1>1, <2>1, EventFacts
  <2>3. <<e>> \in Seq(Items) /\ <<>> \in Seq(Items)
    OBVIOUS
  <2>. QED BY <2>2, <2>3 DEF GroupWork
<1>8. ASSUME NEW s \in Streams
      PROVE  /\ stream[r][s] \in Seq(Items) /\ closed(s) \in Seq(Items) /\ work(s) \in Seq(Items)
             /\ (stream[r][s] \o closed(s)) \in Seq(Items)
             /\ (stream[r][s] \o closed(s) \o work(s)) \in Seq(Items)
  <2>1. stream[r][s] \in Seq(Items)
    BY <1>1 DEF StreamsTyped
  <2>2. closed(s) \in Seq(Items)
    <3>1. Kernels(rank[r].queued, s) \in Seq(Items) /\ <<>> \in Seq(Items)
      BY KernelsFacts
    <3>. QED BY <3>1
  <2>3. work(s) \in Seq(Items)
    <3>1. <<>> \in Seq(Items)
      OBVIOUS
    <3>. QED BY <1>7, <3>1
  <2>. HIDE DEF closed, work
  <2>. QED BY <2>1, <2>2, <2>3
<1>9. StreamsTyped'
  <2>1. log \in [Streams -> Seq(Items)]
    BY <1>8
  <2>. HIDE DEF log
  <2>. QED BY <1>1, <1>4, <2>1 DEF StreamsTyped
<1>10. ASSUME WatchOK(r), Plain PROVE WatchOK(r)'
  <2>1. rank[r].groups = 1 /\ n = 0
    BY <1>2, <1>10 DEF WatchOK
  <2>2. ToSet(left) = {}
    BY <2>1 DEF left, ToSet
  <2>3. ASSUME NEW s \in Streams PROVE Clean(stream'[r][s], {})
    <3>. DEFINE open == IF s = Device THEN rank[r].group ELSE {}
    <3>1. Clean(stream[r][s], open)
      BY <1>10 DEF WatchOK
    <3>2. Clean(Kernels(rank[r].queued, s), open) /\ closed(s) = Kernels(rank[r].queued, s)
      BY <1>10, <2>1, KernelsFacts
    <3>3. stream'[r][s] = (stream[r][s] \o closed(s)) \o work(s)
      BY <1>6
    <3>. HIDE DEF open, closed
    <3>4. Clean(stream[r][s] \o closed(s), open)
      BY <1>8, <3>1, <3>2, CleanConcat
    <3>5. CASE s # Device
      <4>1. work(s) = <<>> /\ open = {}
        BY <3>5 DEF open
      <4>2. Clean(work(s), {})
        BY <4>1, CleanEmpty
      <4>. HIDE DEF work
      <4>. QED BY <1>8, <3>3, <3>4, <4>1, <4>2, CleanConcat
    <3>6. CASE s = Device /\ rank[r].coalescedComm = NoComm
      <4>1. work(s) = <<>> /\ open = {}
        BY <1>7, <1>10, <3>6 DEF open, WatchOK
      <4>2. Clean(work(s), {})
        BY <4>1, CleanEmpty
      <4>. HIDE DEF work
      <4>. QED BY <1>8, <3>3, <3>4, <4>1, <4>2, CleanConcat
    <3>7. CASE s = Device /\ rank[r].coalescedComm # NoComm
      <4>1. PICK e \in Items : e.item = "event" /\ e.ops = rank[r].group /\ GroupWork(r) = <<e>>
        BY <1>7, <3>7
      <4>2. work(s) = <<e>> /\ open \subseteq e.ops
        BY <3>7, <4>1 DEF open
      <4>. HIDE DEF work
      <4>3. Clean((stream[r][s] \o closed(s)) \o <<e>>, {})
        BY <1>8, <3>4, <4>1, <4>2, CleanEnd
      <4>. QED BY <3>3, <4>2, <4>3
    <3>. QED BY <3>5, <3>6, <3>7
  <2>4. /\ rank'[r].groups = 0 /\ rank'[r].group = {} /\ rank'[r].at = "call"
        /\ ToSet(rank'[r].queued) = {}
    BY <1>3, <1>5, <1>6, <2>1, <2>2
  <2>5. \A s \in Streams : Clean(stream'[r][s], IF s = Device THEN rank'[r].group ELSE {})
    BY <2>3, <2>4
  <2>. QED BY <2>4, <2>5 DEF WatchOK
<1>. QED BY <1>6, <1>9, <1>10, WatchStep DEF WInv

----------------------------------------------------------------------------
(* The theorems *)

LEMMA SameIInv ==
  ASSUME IInv, UNCHANGED <<config, rank, store, joined>>
  PROVE  IInv'
<1>1. \A q \in Ranks : /\ GroupsOK(q) => GroupsOK(q)'
                       /\ PlaceOK(q) => PlaceOK(q)' /\ Key(q)' = Key(q)
  BY RankKept
<1>2. Types' /\ RanksOK' /\ StoreOK' /\ JoinedOK'
  BY <1>1 DEF IInv, Types, RanksOK, StoreOK, JoinedOK
<1>3. Uses' \subseteq Uses
  <2>1. PICK r \in Ranks : r = 0
    BY RanksNat
  <2>2. rank[r].at \in {"join", "create"} => [id |-> rank[r].id, key |-> Key(r)] \in Uses
    BY DEF Uses
  <2>3. Key(r)' = Key(r)
    BY RankKept
  <2>4. rank'[r].at \in {"join", "create"} => [id |-> rank'[r].id, key |-> Key(r)'] \in Uses
    BY <2>2, <2>3
  <2>. QED BY <2>4, UsesWithin
<1>4. \A q \in Ranks : rank[q].ids <= rank'[q].ids
  <2>1. \A q \in Ranks : rank[q].ids \in Nat /\ rank'[q].ids = rank[q].ids
    BY DEF IInv, Types, RankRecords
  <2>. QED BY <2>1
<1>5. UsesOK'
  BY <1>2, <1>3, <1>4, UsesKept DEF IInv
<1>. QED BY <1>2, <1>5 DEF IInv

LEMMA NextIInv == IInv /\ [Next]_vars => IInv'
<1>. SUFFICES ASSUME IInv, [Next]_vars PROVE IInv'
  OBVIOUS
<1>1. CASE UNCHANGED vars
  BY <1>1, SameIInv DEF vars
<1>2. ASSUME NEW r \in Ranks, Step(r) PROVE IInv'
  BY <1>2, BeginStep, initMCCLCommStep, GetIdStep, JoinStep, CreateStep, IssueStep,
     PublishOffsetsStep, ReadOffsetsStep, IssueAllToAllvStep, StartStep, EndStep,
     SynchronizeStep DEF Step
<1>3. ASSUME NEW r \in Ranks, NEW s \in Streams, Run(r, s) PROVE IInv'
  <2>1. UNCHANGED <<config, rank, store, joined>>
    BY <1>3 DEF Run
  <2>. QED BY <2>1, SameIInv
<1>4. ASSUME NEW r \in Ranks, Fail(r) PROVE IInv'
  BY <1>4, FailStep
<1>. QED BY <1>1, <1>2, <1>3, <1>4 DEF Next

LEMMA IInvTypeOK == IInv => TypeOK
<1>. SUFFICES ASSUME IInv, NEW r \in Ranks
              PROVE  LET k == rank[r]
                     IN  /\ k.at \in {"call", "init", "get", "join", "create", "issue", "offsets", "failed"}
                         /\ {k.pc, k.seqCollective, k.seqP2P, k.mcclCommCounter, k.groups} \subseteq Nat
                         /\ k.coalescing \subseteq {"active", "coll", "p2p"}
                         /\ k.groups = 0 => k.queued = <<>> /\ k.coalescing = {}
                         /\ \A c \in k.comms : c.key \in Streams \ {Current} /\ c.id \in Ranks \X Nat
                         /\ \A o \in k.issued : o.name \in Names
  BY DEF TypeOK
<1>1. rank[r] \in RankRecords
  BY DEF IInv, Types
<1>2. rank[r].groups = 0 => rank[r].queued = <<>> /\ rank[r].coalescing = {}
  BY DEF IInv, RanksOK, GroupsOK
<1>3. \A c \in rank[r].comms : c.key \in Streams \ {Current} /\ c.id \in Ranks \X Nat
  BY <1>1, Streamed DEF RankRecords, Ids
<1>. QED BY <1>1, <1>2, <1>3 DEF RankRecords

LEMMA IInvCommsConsistent == IInv => CommsConsistent
<1>. SUFFICES ASSUME IInv, NEW i \in joined, NEW j \in joined, i.id = j.id
              PROVE  /\ i.key = j.key /\ i.size = j.size /\ i.as < i.size
                     /\ i.rank # j.rank => i.as # j.as
  BY DEF CommsConsistent
<1>1. i.key = j.key /\ i.key \in CommKeys
  <2>. DEFINE u == [id |-> i.id, key |-> i.key]
              v == [id |-> j.id, key |-> j.key]
  <2>1. u \in Uses /\ v \in Uses /\ u.id = v.id
    BY DEF Uses
  <2>. QED BY <2>1 DEF IInv, UsesOK
<1>2. \A x \in {i, j} :
        /\ x.rank \in Ranks
        /\ IF x.key = Device THEN x.as = x.rank /\ x.size = N
           ELSE /\ x.rank \in {x.key[1], x.key[2]} /\ x.key[1] <= x.key[2]
                /\ x.size = IF x.key[1] = x.key[2] THEN 1 ELSE 2
                /\ x.as = IF x.rank = x.key[1] THEN 0 ELSE 1
  BY DEF IInv, JoinedOK
<1>3. CASE i.key = Device
  BY <1>1, <1>2, <1>3, RanksNat
<1>4. CASE i.key # Device
  BY <1>1, <1>2, <1>4
<1>. QED BY <1>3, <1>4

LEMMA NextWInv == WInv /\ [Next]_vars => WInv'
<1>. SUFFICES ASSUME WInv, [Next]_vars PROVE WInv'
  OBVIOUS
<1>1. IInv'
  BY NextIInv DEF WInv
<1>2. CASE UNCHANGED <<rank, stream>>
  <2>1. StreamsTyped' /\ \A r \in Ranks : WatchOK(r) => WatchOK(r)'
    BY <1>2, WatchKept DEF WInv, StreamsTyped
  <2>. QED BY <1>1, <2>1 DEF WInv
<1>3. ASSUME NEW r \in Ranks, Step(r) PROVE WInv'
  BY <1>1, <1>3, QuietSteps, LaunchStep, IssueWatch, PublishStep, IssueAllToAllvWatch,
     StartWatch, EndWatch DEF Step
<1>4. ASSUME NEW r \in Ranks, NEW s \in Streams, Run(r, s) PROVE UNCHANGED <<rank, stream>>
  BY <1>4 DEF Run
<1>5. ASSUME NEW r \in Ranks, Fail(r) PROVE WInv'
  BY <1>1, <1>5, QuietSteps
<1>. QED BY <1>2, <1>3, <1>4, <1>5 DEF Next, vars

\* The invariant behind the theorem: what each rank's place in its program says of
\* its communicators, and what each unique id is for.
THEOREM Invariance == Spec => []IInv
<1>. QED BY InitIInv, NextIInv, PTL DEF Spec

\* All ranks that hand one unique id to mcclCommInitRank mean the same
\* communicator and have different ranks in it, for any number of ranks, any
\* programs and any failures; and outside of groups a rank has nothing queued.
THEOREM ConsistentHolds == Spec => []Consistent
<1>1. IInv => Consistent
  BY IInvTypeOK, IInvCommsConsistent DEF Consistent
<1>. QED BY <1>1, Invariance, PTL

\* Once a rank has left all groups, every kernel it has launched is followed on its
\* stream by the end event of an enqueued work: no collective escapes the watchdog,
\* for programs that neither nest groups nor issue synchronous operations in them.
\* (Otherwise endCoalescing may record the end event before the kernels are launched,
\* or on another stream.)
THEOREM WatchedHolds ==
  ASSUME Plain
  PROVE  Spec => []Watched
<1>1. ASSUME WInv, NEW r \in Ranks, rank[r].groups = 0, NEW s \in Streams
      PROVE  \A j \in 1..Len(stream[r][s]) : stream[r][s][j].item = "kernel" =>
               \A name \in stream[r][s][j].ops :
                 \E i \in (j + 1)..Len(stream[r][s]) :
                   stream[r][s][i].item = "event" /\ name \in stream[r][s][i].ops
  <2>1. WatchOK(r)
    BY <1>1 DEF WInv
  <2>2. Clean(stream[r][s], {})
    BY <1>1, <2>1 DEF WatchOK
  <2>. QED BY <2>2 DEF Clean
<1>2. WInv => Watched
  BY <1>1 DEF Watched
<1>. QED BY <1>2, InitWInv, NextWInv, PTL DEF Spec

----------------------------------------------------------------------------
(* How a program numbers its collectives *)

\* The i-th call is a collective: it takes a sequence number or shares one.
Numbered(p, i) == p[i].op \in {"collective", "alltoallv", "coalesced"}
Colls(p, i) == {j \in 1..i : Numbered(p, j)}

\* How many collectives come before call i; call i is the n-th collective.
Done(p, i) == Cardinality(Colls(p, i - 1))
Nth(p, i, n) == i \in DOMAIN p /\ Numbered(p, i) /\ Cardinality(Colls(p, i)) = n

InGroup(p, i) == Cardinality(Before(p, i, "end")) < Cardinality(Before(p, i, "start"))

\* A collective of the group that call i is in comes before it.
Joins(p, i) ==
  /\ InGroup(p, i)
  /\ \E j \in 1..(i - 1) : /\ Numbered(p, j)
                           /\ \A l \in (j + 1)..(i - 1) : p[l].op \notin {"start", "end"}

\* The n-th collective takes a new sequence number, which is Number(p, n).
Takes(p, n) == \E i \in DOMAIN p : Nth(p, i, n) /\ ~Joins(p, i)
Number(p, n) == Cardinality({m \in 1..n : Takes(p, m)})

\* The program has n collectives.
Reaches(p, n) == \A m \in 1..n : \E i \in DOMAIN p : Nth(p, i, m)

\* A program starts no group inside a group, and a coalesced collective comes first in
\* its group.
WellGrouped(p) ==
  \A i \in DOMAIN p :
    /\ p[i].op \in {"collective", "alltoallv", "coalesced", "p2p", "start", "end",
                    "connect", "synchronize"}
    /\ p[i].op = "start" => ~InGroup(p, i)
    /\ p[i].op = "coalesced" => ~Joins(p, i)
    /\ p[i].op = "p2p" => p[i].kind = <<"p2p">>

\* The n-th collective is the same operation on every rank, and first in its group on
\* all ranks or on none.
SameCollectives(c) ==
  \A r, q \in Ranks : \A i \in DOMAIN c.program[r], j \in DOMAIN c.program[q] :
    /\ Numbered(c.program[r], i) /\ Numbered(c.program[q], j)
    /\ Cardinality(Colls(c.program[r], i)) = Cardinality(Colls(c.program[q], j))
    => /\ c.program[r][i].op = c.program[q][j].op
       /\ c.program[r][i].kind = c.program[q][j].kind
       /\ Joins(c.program[r], i) <=> Joins(c.program[q], j)

Fitting == \A c \in Configs : SameCollectives(c) /\ \A r \in Ranks : WellGrouped(c.program[r])

----------------------------------------------------------------------------
(* The invariant, about the record k of a rank with program p *)

\* The number that the record holds, between Begin and the operation's end.
SeqOK(p, k) ==
  LET n == Number(p, Done(p, k.pc))
  IN  CASE k.at = "call" -> k.seqCollective = n
        [] k.at \in {"init", "get", "join", "create", "issue"} ->
             k.seqCollective = IF /\ Numbered(p, k.pc)
                                  /\ p[k.pc].op = "coalesced" \/ k.groups = 0
                               THEN n + 1 ELSE n
        [] k.at = "offsets" -> k.seqCollective = IF Joins(p, k.pc) THEN n ELSE n + 1
        [] OTHER -> TRUE

\* The coalescing state follows the program.
CoalescingOK(p, k) ==
  /\ k.groups \in {0, 1}
  /\ k.groups = 0 => k.coalescing = {} /\ k.group = {}
  /\ k.groups = 1 => "active" \in k.coalescing
  /\ k.at \notin {"offsets", "failed"} => ("coll" \in k.coalescing <=> Joins(p, k.pc))
  /\ k.at = "offsets" => (k.groups = 1 => "coll" \in k.coalescing) /\ p[k.pc].op = "alltoallv"
  /\ k.at \notin {"call", "failed"} => p[k.pc].op \notin {"start", "end", "synchronize"}
  /\ k.at = "issue" => p[k.pc].op # "connect"

\* The collectives of the group have its number.
GroupOK(p, k) ==
  \A name \in k.group :
    IF name.between = <<>>
    THEN /\ Joins(p, k.pc) /\ name.n \in 1..Done(p, k.pc)
         /\ Number(p, name.n) = Number(p, Done(p, k.pc))
    ELSE "p2p" \in k.coalescing

Singles(k) == {o \in k.issued : o.name.between = <<>>}

\* The n-th collective of the program is the n-th of the communicator of all ranks.
IssuedOK(p, k) ==
  /\ \A c, d \in k.comms : c.key = d.key => c = d
  /\ \A o \in k.issued :
       IF o.name.between = <<>>
       THEN /\ \E c \in k.comms : c.key = Device /\ c.id = o.name.id
            /\ o.name.n \in 1..Done(p, k.pc)
            /\ \E i \in DOMAIN p : Nth(p, i, o.name.n) /\ o.kind = p[i].kind
       ELSE o.kind = <<"p2p">>
  /\ Cardinality(Singles(k)) = Done(p, k.pc)
  /\ Reaches(p, Done(p, k.pc))

\* The works of collectives have their numbers.
ItemOK(p, n, x) ==
  x.item = "event" /\ Len(x.seq) = 2 =>
    \A name \in x.ops : /\ name.between = <<>> /\ name.n \in 1..n
                        /\ x.seq = <<Number(p, name.n), "coll">>
LogOK(p, n, c) == \A x \in ToSet(c) : ItemOK(p, n, x)
EventsOK(p, n, log) == \A s \in Streams : LogOK(p, n, log[s])

NumOK(p, k) == SeqOK(p, k) /\ CoalescingOK(p, k) /\ GroupOK(p, k) /\ IssuedOK(p, k)

NInv ==
  WInv /\ (Fitting => \A r \in Ranks :
             LET p == config.program[r]
             IN  NumOK(p, rank[r]) /\ EventsOK(p, Done(p, rank[r].pc), stream[r]))

----------------------------------------------------------------------------
(* Programs *)

Prog(p) == Len(p) \in Nat /\ DOMAIN p = 1..Len(p)

LEMMA CollsFacts ==
  ASSUME NEW p, NEW i \in Nat
  PROVE  /\ IsFiniteSet(Colls(p, i)) /\ Cardinality(Colls(p, i)) \in Nat
         /\ Colls(p, i) \subseteq 1..i
<1>1. IsFiniteSet(1..i)
  BY FS_Interval
<1>2. Colls(p, i) \subseteq 1..i
  BY DEF Colls
<1>. QED BY <1>1, <1>2, FS_Subset, FS_CardinalityType

LEMMA DoneNext ==
  ASSUME NEW p, NEW i \in Nat \ {0}
  PROVE  /\ Done(p, i) \in Nat
         /\ Numbered(p, i) => Cardinality(Colls(p, i)) = Done(p, i) + 1
         /\ Done(p, i + 1) = IF Numbered(p, i) THEN Done(p, i) + 1 ELSE Done(p, i)
<1>1. i - 1 \in Nat /\ (i + 1) - 1 = i
  OBVIOUS
<1>2. IsFiniteSet(Colls(p, i - 1)) /\ Cardinality(Colls(p, i - 1)) \in Nat
      /\ i \notin Colls(p, i - 1)
  BY <1>1, CollsFacts
<1>3. Numbered(p, i) => Colls(p, i) = Colls(p, i - 1) \cup {i}
  BY DEF Colls
<1>4. ~Numbered(p, i) => Colls(p, i) = Colls(p, i - 1)
  BY DEF Colls
<1>5. Cardinality(Colls(p, i - 1) \cup {i}) = Cardinality(Colls(p, i - 1)) + 1
  BY <1>2, FS_AddElement
<1>. QED BY <1>1, <1>2, <1>3, <1>4, <1>5 DEF Done

\* Later collectives have larger ordinals.
LEMMA NthOrder ==
  ASSUME NEW p, Prog(p), NEW i, NEW j, NEW n, NEW m, Nth(p, i, n), Nth(p, j, m)
  PROVE  /\ i \in Nat \ {0} /\ n \in Nat /\ n > 0
         /\ i < j => n < m
         /\ n = m => i = j
<1>1. ASSUME NEW x, NEW y, NEW a, NEW b, Nth(p, x, a), Nth(p, y, b)
      PROVE  x \in Nat \ {0} /\ a \in Nat /\ a > 0 /\ (x < y => a < b)
  <2>1. x \in Nat \ {0} /\ y \in Nat \ {0}
    BY <1>1 DEF Nth, Prog
  <2>2. /\ a = Cardinality(Colls(p, x)) /\ b = Cardinality(Colls(p, y))
        /\ IsFiniteSet(Colls(p, x)) /\ IsFiniteSet(Colls(p, y)) /\ a \in Nat /\ b \in Nat
    BY <1>1, <2>1, CollsFacts DEF Nth
  <2>3. a > 0
    <3>1. x - 1 \in Nat /\ a = Done(p, x) + 1 /\ Done(p, x) \in Nat
      BY <1>1, <2>1, DoneNext DEF Nth
    <3>. QED BY <3>1
  <2>4. ASSUME x < y PROVE a < b
    <3>1. Colls(p, x) \cup {y} \subseteq Colls(p, y) /\ y \notin Colls(p, x)
      BY <1>1, <2>1, <2>4 DEF Colls, Nth
    <3>2. Cardinality(Colls(p, x) \cup {y}) = a + 1
      BY <2>2, <3>1, FS_AddElement
    <3>3. a + 1 <= b
      BY <2>2, <3>1, <3>2, FS_Subset
    <3>. QED BY <2>2, <3>3
  <2>. QED BY <2>1, <2>2, <2>3, <2>4
<1>2. i \in Nat \ {0} /\ n \in Nat /\ n > 0 /\ (i < j => n < m)
  BY <1>1
<1>3. j \in Nat \ {0} /\ m \in Nat /\ (j < i => m < n)
  BY <1>1
<1>. QED BY <1>2, <1>3

LEMMA NumberFacts ==
  ASSUME NEW p, NEW n \in Nat
  PROVE  Number(p, n) \in Nat /\ IsFiniteSet({m \in 1..n : Takes(p, m)})
<1>1. IsFiniteSet(1..n) /\ {m \in 1..n : Takes(p, m)} \subseteq 1..n
  BY FS_Interval
<1>. QED BY <1>1, FS_Subset, FS_CardinalityType DEF Number

\* The next collective takes a number unless it joins those before it.
LEMMA NumberNext ==
  ASSUME NEW p, Prog(p), NEW i \in DOMAIN p, Numbered(p, i)
  PROVE  /\ Nth(p, i, Done(p, i) + 1)
         /\ Number(p, Done(p, i) + 1) =
              IF Joins(p, i) THEN Number(p, Done(p, i)) ELSE Number(p, Done(p, i)) + 1
         /\ Reaches(p, Done(p, i)) => Reaches(p, Done(p, i) + 1)
<1>. DEFINE n == Done(p, i)
            S == {m \in 1..n : Takes(p, m)}
            T == {m \in 1..(n + 1) : Takes(p, m)}
<1>1. i \in Nat \ {0}
  BY DEF Prog
<1>2. n \in Nat /\ Nth(p, i, n + 1)
  BY <1>1, DoneNext DEF Nth
<1>. HIDE DEF n
<1>3. Takes(p, n + 1) <=> ~Joins(p, i)
  <2>1. ASSUME NEW j \in DOMAIN p, Nth(p, j, n + 1) PROVE j = i
    <3>. DEFINE m == n + 1
    <3>1. Nth(p, j, m) /\ Nth(p, i, m)
      BY <1>2, <2>1
    <3>. HIDE DEF m
    <3>. QED BY <3>1, NthOrder
  <2>. QED BY <1>2, <2>1 DEF Takes
<1>4. 1..(n + 1) = 1..n \cup {n + 1} /\ n + 1 \notin 1..n
  BY <1>2
<1>5. IsFiniteSet(S) /\ Cardinality(S) \in Nat /\ n + 1 \notin S
  BY <1>2, <1>4, NumberFacts DEF Number
<1>6. Cardinality(T) = IF Joins(p, i) THEN Cardinality(S) ELSE Cardinality(S) + 1
  <2>1. CASE Joins(p, i)
    <3>1. T = S
      BY <1>3, <1>4, <2>1
    <3>. QED BY <2>1, <3>1
  <2>2. CASE ~Joins(p, i)
    <3>1. T = S \cup {n + 1}
      BY <1>3, <1>4, <2>2
    <3>. QED BY <1>5, <2>2, <3>1, FS_AddElement
  <2>. QED BY <2>1, <2>2
<1>7. Reaches(p, n) => Reaches(p, n + 1)
  BY <1>2, <1>4 DEF Reaches
<1>. QED BY <1>2, <1>6, <1>7 DEF n, Number

LEMMA BeforeNext ==
  ASSUME NEW p, NEW i \in Nat \ {0}, NEW op
  PROVE  /\ Cardinality(Before(p, i, op)) \in Nat
         /\ Cardinality(Before(p, i + 1, op)) =
              IF p[i].op = op THEN Cardinality(Before(p, i, op)) + 1 ELSE Cardinality(Before(p, i, op))
<1>1. IsFiniteSet(Before(p, i, op)) /\ i \notin Before(p, i, op)
  <2>1. IsFiniteSet(1..(i - 1))
    BY FS_Interval
  <2>2. Before(p, i, op) \subseteq 1..(i - 1)
    BY DEF Before
  <2>. QED BY <2>1, <2>2, FS_Subset
<1>2. Cardinality(Before(p, i, op)) \in Nat
  BY <1>1, FS_CardinalityType
<1>3. CASE p[i].op = op
  <2>1. Before(p, i + 1, op) = Before(p, i, op) \cup {i}
    BY <1>3 DEF Before
  <2>. QED BY <1>1, <1>2, <1>3, <2>1, FS_AddElement
<1>4. CASE p[i].op # op
  <2>1. Before(p, i + 1, op) = Before(p, i, op)
    BY <1>4 DEF Before
  <2>. QED BY <1>2, <1>4, <2>1
<1>. QED BY <1>2, <1>3, <1>4

\* Within a group, the calls after its first collective join it.
LEMMA JoinsNext ==
  ASSUME NEW p, NEW i \in Nat \ {0}
  PROVE  /\ p[i].op \notin {"start", "end"} =>
              (Joins(p, i + 1) <=> Joins(p, i) \/ (InGroup(p, i) /\ Numbered(p, i)))
         /\ p[i].op \in {"start", "end"} => ~Joins(p, i + 1)
         /\ ~InGroup(p, i) => ~Joins(p, i)
<1>1. (i + 1) - 1 = i /\ 1..i = 1..(i - 1) \cup {i}
      /\ \A j \in 1..(i - 1) : (j + 1)..i = (j + 1)..(i - 1) \cup {i}
      /\ (i + 1)..i = {}
  OBVIOUS
<1>2. ASSUME p[i].op \notin {"start", "end"}
      PROVE  Joins(p, i + 1) <=> Joins(p, i) \/ (InGroup(p, i) /\ Numbered(p, i))
  <2>1. InGroup(p, i + 1) <=> InGroup(p, i)
    BY <1>2, BeforeNext DEF InGroup
  <2>2. Joins(p, i + 1) <=>
          /\ InGroup(p, i)
          /\ \E j \in 1..i : /\ Numbered(p, j)
                             /\ \A l \in (j + 1)..i : p[l].op \notin {"start", "end"}
    BY <1>1, <2>1 DEF Joins
  <2>. QED BY <1>1, <1>2, <2>2 DEF Joins
<1>3. ASSUME p[i].op \in {"start", "end"} PROVE ~Joins(p, i + 1)
  <2>1. ~Numbered(p, i)
    BY <1>3 DEF Numbered
  <2>. QED BY <1>1, <1>3, <2>1 DEF Joins
<1>. QED BY <1>2, <1>3 DEF Joins

----------------------------------------------------------------------------
(* Steps of the record of a rank *)

\* What a step leaves of a record, when no collective is issued.
LEMMA SameIssued ==
  ASSUME NEW p, NEW k, NEW l, IssuedOK(p, k), Done(p, l.pc) = Done(p, k.pc),
         l.issued = k.issued, k.comms \subseteq l.comms,
         \A c, d \in l.comms : c.key = d.key => c = d
  PROVE  IssuedOK(p, l)
<1>1. Singles(l) = Singles(k)
  BY DEF Singles
<1>2. \A o \in l.issued :
       IF o.name.between = <<>>
       THEN /\ \E c \in l.comms : c.key = Device /\ c.id = o.name.id
            /\ o.name.n \in 1..Done(p, l.pc)
            /\ \E i \in DOMAIN p : Nth(p, i, o.name.n) /\ o.kind = p[i].kind
       ELSE o.kind = <<"p2p">>
  BY DEF IssuedOK
<1>3. Cardinality(Singles(l)) = Done(p, l.pc) /\ Reaches(p, Done(p, l.pc))
  BY <1>1 DEF IssuedOK
<1>. QED BY <1>2, <1>3 DEF IssuedOK

LEMMA SameGroup ==
  ASSUME NEW p, NEW k, NEW l, GroupOK(p, k), Done(p, l.pc) = Done(p, k.pc),
         l.group = k.group, k.coalescing \subseteq l.coalescing,
         Joins(p, k.pc) => Joins(p, l.pc)
  PROVE  GroupOK(p, l)
BY DEF GroupOK

\* Begin takes the number.
LEMMA BeginNum ==
  ASSUME NEW p, NEW k, NEW l, NumOK(p, k), k.at = "call", k.pc \in DOMAIN p,
         p[k.pc].op \notin {"start", "end", "synchronize"},
         l.pc = k.pc, l.groups = k.groups, l.group = k.group, l.coalescing = k.coalescing,
         l.comms = k.comms, l.issued = k.issued,
         l.at \in {"init", "issue"}, l.at = "issue" => p[k.pc].op # "connect",
         l.seqCollective = IF \/ p[k.pc].op \in {"collective", "alltoallv"} /\ k.coalescing = {}
                              \/ p[k.pc].op = "coalesced"
                           THEN k.seqCollective + 1 ELSE k.seqCollective
  PROVE  NumOK(p, l)
<1>1. k.coalescing = {} <=> k.groups = 0
  BY DEF NumOK, CoalescingOK
<1>2. k.seqCollective = Number(p, Done(p, k.pc))
  BY DEF NumOK, SeqOK
<1>3. Numbered(p, k.pc) <=> p[k.pc].op \in {"collective", "alltoallv", "coalesced"}
  BY DEF Numbered
<1>4. SeqOK(p, l)
  BY <1>1, <1>2, <1>3 DEF SeqOK
<1>5. CoalescingOK(p, l)
  BY DEF NumOK, CoalescingOK
<1>6. IssuedOK(p, l) /\ GroupOK(p, l)
  BY SameIssued, SameGroup DEF NumOK, IssuedOK
<1>. QED BY <1>4, <1>5, <1>6 DEF NumOK

\* Creating a communicator, and a failure.
LEMMA OnwardNum ==
  ASSUME NEW p, NEW k, NEW l, NumOK(p, k),
         \/ /\ k.at \in {"init", "get", "join", "create"}
            /\ l.at \in {"get", "join", "create", "issue"}
            /\ l.at = "issue" => p[k.pc].op # "connect"
         \/ l.at = "failed"
         \/ k.at = "offsets" /\ l.at = "offsets",
         l.pc = k.pc, l.groups = k.groups, l.group = k.group, l.coalescing = k.coalescing,
         l.seqCollective = k.seqCollective, l.issued = k.issued, k.comms \subseteq l.comms,
         \A c, d \in l.comms : c.key = d.key => c = d
  PROVE  NumOK(p, l)
<1>1. SeqOK(p, l)
  BY DEF NumOK, SeqOK
<1>2. CoalescingOK(p, l)
  BY DEF NumOK, CoalescingOK
<1>3. IssuedOK(p, l) /\ GroupOK(p, l)
  BY SameIssued, SameGroup DEF NumOK
<1>. QED BY <1>1, <1>2, <1>3 DEF NumOK

\* A call that is no operation: connect and synchronize.
LEMMA PastNum ==
  ASSUME NEW p, Prog(p), NEW k, NEW l, NumOK(p, k), k.pc \in DOMAIN p,
         p[k.pc].op \in {"connect", "synchronize"}, k.at \in {"call", "create"}, l.at = "call",
         l.pc = k.pc + 1, l.groups = k.groups, l.group = k.group, l.coalescing = k.coalescing,
         l.seqCollective = k.seqCollective, l.issued = k.issued, k.comms \subseteq l.comms,
         \A c, d \in l.comms : c.key = d.key => c = d
  PROVE  NumOK(p, l)
<1>1. k.pc \in Nat \ {0} /\ ~Numbered(p, k.pc) /\ p[k.pc].op \notin {"start", "end"}
  BY DEF Prog, Numbered
<1>2. Done(p, l.pc) = Done(p, k.pc)
  BY <1>1, DoneNext
<1>3. Joins(p, l.pc) <=> Joins(p, k.pc)
  BY <1>1, JoinsNext
<1>4. SeqOK(p, l)
  BY <1>1, <1>2 DEF NumOK, SeqOK
<1>5. CoalescingOK(p, l)
  BY <1>3 DEF NumOK, CoalescingOK
<1>6. IssuedOK(p, l) /\ GroupOK(p, l)
  BY <1>2, <1>3, SameIssued, SameGroup DEF NumOK
<1>. QED BY <1>4, <1>5, <1>6 DEF NumOK

LEMMA StartNum ==
  ASSUME NEW p, Prog(p), NEW k, NEW l, NumOK(p, k), k.pc \in DOMAIN p,
         p[k.pc].op = "start", k.groups = 0, k.at = "call", l.at = "call",
         l.pc = k.pc + 1, l.groups = 1, l.group = k.group,
         l.coalescing = k.coalescing \cup {"active"},
         l.seqCollective = k.seqCollective, l.issued = k.issued, l.comms = k.comms
  PROVE  NumOK(p, l)
<1>1. k.pc \in Nat \ {0} /\ ~Numbered(p, k.pc)
  BY DEF Prog, Numbered
<1>2. Done(p, l.pc) = Done(p, k.pc) /\ ~Joins(p, l.pc)
  BY <1>1, DoneNext, JoinsNext
<1>3. SeqOK(p, l)
  BY <1>2 DEF NumOK, SeqOK
<1>4. CoalescingOK(p, l)
  BY <1>2 DEF NumOK, CoalescingOK
<1>5. IssuedOK(p, l)
  BY <1>2, SameIssued DEF NumOK, IssuedOK
<1>6. GroupOK(p, l)
  BY DEF NumOK, CoalescingOK, GroupOK
<1>. QED BY <1>3, <1>4, <1>5, <1>6 DEF NumOK

LEMMA EndNum ==
  ASSUME NEW p, Prog(p), NEW k, NEW l, NumOK(p, k), k.pc \in DOMAIN p,
         p[k.pc].op = "end", k.at = "call", l.at = "call",
         l.pc = k.pc + 1, l.groups = 0, l.group = {}, l.coalescing = {},
         l.seqCollective = k.seqCollective, l.issued = k.issued, l.comms = k.comms
  PROVE  NumOK(p, l)
<1>1. k.pc \in Nat \ {0} /\ ~Numbered(p, k.pc)
  BY DEF Prog, Numbered
<1>2. Done(p, l.pc) = Done(p, k.pc) /\ ~Joins(p, l.pc)
  BY <1>1, DoneNext, JoinsNext
<1>3. SeqOK(p, l)
  BY <1>2 DEF NumOK, SeqOK
<1>4. CoalescingOK(p, l)
  BY <1>2 DEF CoalescingOK
<1>5. IssuedOK(p, l)
  BY <1>2, SameIssued DEF NumOK, IssuedOK
<1>6. GroupOK(p, l)
  BY DEF GroupOK
<1>. QED BY <1>3, <1>4, <1>5, <1>6 DEF NumOK

\* k0 is ready to issue its operation as k: its number is that of the program.
Ready(p, k0, k) ==
  /\ k.pc = k0.pc /\ k.groups = k0.groups /\ k.group = k0.group
  /\ k.comms = k0.comms /\ k.issued = k0.issued /\ k0.coalescing \subseteq k.coalescing
  /\ k.groups = 0 => k.coalescing = {}
  /\ k.seqCollective = Number(p, IF Numbered(p, k.pc) THEN Done(p, k.pc) + 1 ELSE Done(p, k.pc))
  /\ k.groups = 1 => /\ Numbered(p, k.pc) => "coll" \in k.coalescing
                     /\ p[k.pc].op = "p2p" => "p2p" \in k.coalescing
  /\ ~Numbered(p, k.pc) => ("coll" \in k.coalescing <=> Joins(p, k.pc))

LEMMA OffsetsReady ==
  ASSUME NEW p, Prog(p), NEW k, NumOK(p, k), k.pc \in DOMAIN p, k.at = "offsets"
  PROVE  Ready(p, k, k)
<1>1. Numbered(p, k.pc) /\ p[k.pc].op = "alltoallv"
  BY DEF NumOK, CoalescingOK, Numbered
<1>2. k.seqCollective = IF Joins(p, k.pc) THEN Number(p, Done(p, k.pc))
                        ELSE Number(p, Done(p, k.pc)) + 1
  BY DEF NumOK, SeqOK
<1>3. k.seqCollective = Number(p, Done(p, k.pc) + 1)
  BY <1>1, <1>2, NumberNext
<1>. QED BY <1>1, <1>3 DEF Ready, NumOK, CoalescingOK

\* The call of Coalesced.
LEMMA IssueReady ==
  ASSUME NEW p, Prog(p), WellGrouped(p), NEW k0, NEW k, NumOK(p, k0), k0.pc \in DOMAIN p,
         k0.at = "issue", InGroup(p, k0.pc) <=> k0.groups # 0, NEW sort,
         sort = (IF p[k0.pc].op = "p2p" THEN "p2p" ELSE "coll"),
         k.pc = k0.pc, k.groups = k0.groups, k.group = k0.group, k.comms = k0.comms,
         k.issued = k0.issued,
         IF "active" \notin k0.coalescing
         THEN k.coalescing = k0.coalescing /\ k.seqCollective = k0.seqCollective
         ELSE /\ k.coalescing = k0.coalescing \cup {sort}
              /\ k.seqCollective =
                   IF sort = "coll" /\ sort \notin k0.coalescing /\ p[k0.pc].op # "coalesced"
                   THEN k0.seqCollective + 1 ELSE k0.seqCollective
  PROVE  Ready(p, k0, k) /\ (Numbered(p, k0.pc) \/ p[k0.pc].op = "p2p")
<1>1. p[k0.pc].op \in {"collective", "alltoallv", "coalesced", "p2p"}
  BY DEF NumOK, CoalescingOK, WellGrouped
<1>2. Numbered(p, k0.pc) <=> p[k0.pc].op # "p2p"
  BY <1>1 DEF Numbered
<1>3. /\ k0.groups \in {0, 1} /\ (k0.groups = 0 => k0.coalescing = {})
      /\ (k0.groups = 1 => "active" \in k0.coalescing)
      /\ ("coll" \in k0.coalescing <=> Joins(p, k0.pc))
  BY DEF NumOK, CoalescingOK
<1>4. k0.seqCollective = IF Numbered(p, k0.pc) /\ (p[k0.pc].op = "coalesced" \/ k0.groups = 0)
                         THEN Number(p, Done(p, k0.pc)) + 1 ELSE Number(p, Done(p, k0.pc))
  BY DEF NumOK, SeqOK
<1>5. p[k0.pc].op = "coalesced" => ~Joins(p, k0.pc)
  BY DEF WellGrouped
<1>6. k.seqCollective =
        Number(p, IF Numbered(p, k.pc) THEN Done(p, k.pc) + 1 ELSE Done(p, k.pc))
  <2>1. CASE ~Numbered(p, k0.pc)
    BY <1>2, <1>4, <2>1
  <2>2. CASE Numbered(p, k0.pc) /\ k0.groups = 0
    <3>1. ~Joins(p, k0.pc)
      BY <2>2 DEF Joins
    <3>2. k.seqCollective = Number(p, Done(p, k0.pc)) + 1
      BY <1>3, <1>4, <2>2
    <3>. QED BY <2>2, <3>1, <3>2, NumberNext
  <2>3. CASE Numbered(p, k0.pc) /\ k0.groups = 1
    <3>1. sort = "coll" /\ "active" \in k0.coalescing
      BY <1>2, <1>3, <2>3
    <3>2. k.seqCollective = IF Joins(p, k0.pc) THEN Number(p, Done(p, k0.pc))
                            ELSE Number(p, Done(p, k0.pc)) + 1
      BY <1>3, <1>4, <1>5, <2>3, <3>1
    <3>. QED BY <2>3, <3>2, NumberNext
  <2>. QED BY <1>3, <2>1, <2>2, <2>3
<1>7. /\ k.groups = 0 => k.coalescing = {}
      /\ k.groups = 1 => /\ Numbered(p, k.pc) => "coll" \in k.coalescing
                         /\ p[k.pc].op = "p2p" => "p2p" \in k.coalescing
      /\ ~Numbered(p, k.pc) => ("coll" \in k.coalescing <=> Joins(p, k.pc))
  BY <1>2, <1>3
<1>8. k0.coalescing \subseteq k.coalescing
  OBVIOUS
<1>. QED BY <1>1, <1>2, <1>6, <1>7, <1>8 DEF Ready

\* The record l, once the operation is issued under name.
Named(p, i, comms, name, one) ==
  /\ one.name = name /\ one.kind = p[i].kind
  /\ IF p[i].op = "p2p" THEN name.between # <<>> /\ one.kind = <<"p2p">>
     ELSE /\ name.between = <<>> /\ name.n = Done(p, i) + 1
          /\ \E c \in comms : c.key = Device /\ c.id = name.id
After(k, l, name, one) ==
  /\ l.pc = k.pc + 1 /\ l.at = "call" /\ l.groups = k.groups /\ l.coalescing = k.coalescing
  /\ l.group = IF k.coalescing = {} THEN {} ELSE k.group \cup {name}
  /\ l.seqCollective = k.seqCollective /\ l.issued = k.issued \cup {one} /\ l.comms = k.comms

LEMMA IssuedNum ==
  ASSUME NEW p, Prog(p), NEW k0, NEW k, NEW l, NumOK(p, k0), Ready(p, k0, k),
         k0.pc \in DOMAIN p, Numbered(p, k0.pc) \/ p[k0.pc].op = "p2p",
         IsFiniteSet(k0.issued), InGroup(p, k0.pc) <=> k0.groups # 0,
         NEW name, NEW one, Named(p, k0.pc, k0.comms, name, one), After(k, l, name, one)
  PROVE  NumOK(p, l)
<1>. USE DEF Named, After
<1>. DEFINE i == k0.pc
            n == Done(p, i)
            m == Done(p, i + 1)
<1>1. i \in Nat \ {0} /\ l.pc = i + 1 /\ p[i].op \notin {"start", "end"}
  BY DEF Prog, Ready, Numbered
<1>2. n \in Nat /\ m = (IF Numbered(p, i) THEN n + 1 ELSE n)
      /\ (Numbered(p, i) => p[i].op # "p2p")
  BY <1>1, DoneNext DEF Numbered
<1>3. Joins(p, i + 1) <=> Joins(p, i) \/ (InGroup(p, i) /\ Numbered(p, i))
  BY <1>1, JoinsNext
<1>4. Numbered(p, i) =>
        /\ Nth(p, i, n + 1) /\ (Reaches(p, n) => Reaches(p, n + 1))
        /\ Number(p, n + 1) = IF Joins(p, i) THEN Number(p, n) ELSE Number(p, n) + 1
  BY NumberNext
<1>5. /\ k0.groups \in {0, 1} /\ (k0.groups = 0 => k0.coalescing = {} /\ k0.group = {})
      /\ (k0.groups = 1 => "active" \in k0.coalescing)
      /\ k.pc = i /\ k.groups = k0.groups /\ k.group = k0.group
      /\ k.comms = k0.comms /\ k.issued = k0.issued /\ k0.coalescing \subseteq k.coalescing
      /\ (k.groups = 0 => k.coalescing = {})
      /\ k.seqCollective = Number(p, m)
      /\ (k.groups = 1 => /\ Numbered(p, i) => "coll" \in k.coalescing
                          /\ p[i].op = "p2p" => "p2p" \in k.coalescing)
      /\ (~Numbered(p, i) => ("coll" \in k.coalescing <=> Joins(p, i)))
  BY <1>2 DEF NumOK, CoalescingOK, Ready
<1>. HIDE DEF n, m
<1>6. SeqOK(p, l)
  BY <1>1, <1>5 DEF SeqOK, m
<1>7. CoalescingOK(p, l)
  <2>1. "coll" \in l.coalescing <=> Joins(p, l.pc)
    <3>1. CASE k0.groups = 0
      BY <1>1, <1>3, <1>5, <3>1 DEF Joins
    <3>2. CASE k0.groups = 1 /\ Numbered(p, i)
      BY <1>1, <1>3, <1>5, <3>2
    <3>3. CASE k0.groups = 1 /\ ~Numbered(p, i)
      BY <1>1, <1>3, <1>5, <3>3
    <3>. QED BY <1>5, <3>1, <3>2, <3>3
  <2>2. /\ l.groups \in {0, 1} /\ (l.groups = 0 => l.coalescing = {} /\ l.group = {})
        /\ (l.groups = 1 => "active" \in l.coalescing)
    BY <1>5
  <2>. QED BY <2>1, <2>2 DEF CoalescingOK
<1>8. GroupOK(p, l)
  <2>1. SUFFICES ASSUME NEW x \in l.group
                 PROVE  IF x.between = <<>>
                        THEN /\ Joins(p, i + 1) /\ x.n \in 1..m
                             /\ Number(p, x.n) = Number(p, m)
                        ELSE "p2p" \in l.coalescing
    BY <1>1 DEF GroupOK, m
  <2>2. k0.groups = 1 /\ (x = name \/ x \in k0.group)
    BY <1>5
  <2>3. CASE x = name
    <3>1. x.between = <<>> => Numbered(p, i) /\ InGroup(p, i)
      BY <2>2, <2>3
    <3>. QED BY <1>2, <1>3, <1>5, <2>2, <2>3, <3>1 DEF n
  <2>4. CASE x \in k0.group
    <3>1. IF x.between = <<>>
          THEN Joins(p, i) /\ x.n \in 1..n /\ Number(p, x.n) = Number(p, n)
          ELSE "p2p" \in k0.coalescing
      BY <2>4 DEF NumOK, GroupOK, n
    <3>2. CASE x.between # <<>>
      BY <1>5, <3>1, <3>2
    <3>3. CASE x.between = <<>> /\ ~Numbered(p, i)
      BY <1>2, <1>3, <1>5, <3>1, <3>3
    <3>4. CASE x.between = <<>> /\ Numbered(p, i)
      BY <1>2, <1>3, <1>4, <1>5, <3>1, <3>4
    <3>. QED BY <3>2, <3>3, <3>4
  <2>. QED BY <2>2, <2>3, <2>4
<1>9. IssuedOK(p, l)
  <2>. DEFINE Fine(o, b) == IF o.name.between = <<>>
                            THEN /\ \E c \in k0.comms : c.key = Device /\ c.id = o.name.id
                                 /\ o.name.n \in 1..b
                                 /\ \E j \in DOMAIN p : Nth(p, j, o.name.n) /\ o.kind = p[j].kind
                            ELSE o.kind = <<"p2p">>
  <2>1. /\ \A c, d \in k0.comms : c.key = d.key => c = d
        /\ \A o \in k0.issued : Fine(o, n)
        /\ Cardinality(Singles(k0)) = n /\ Reaches(p, n)
    BY DEF NumOK, IssuedOK, n
  <2>2. \A o \in k0.issued : Fine(o, m)
    BY <1>2, <2>1
  <2>3. Fine(one, m)
    <3>1. CASE p[i].op = "p2p"
      BY <3>1
    <3>2. CASE Numbered(p, i)
      BY <1>2, <1>4, <3>2 DEF n
    <3>. QED BY <3>1, <3>2
  <2>4. Cardinality(Singles(l)) = m
    <3>1. IsFiniteSet(Singles(k0))
      BY FS_Subset DEF Singles
    <3>2. CASE p[i].op = "p2p"
      <4>1. Singles(l) = Singles(k0)
        BY <1>5, <3>2 DEF Singles
      <4>. QED BY <1>2, <2>1, <3>2, <4>1
    <3>3. CASE Numbered(p, i)
      <4>1. Singles(l) = Singles(k0) \cup {one}
        BY <1>2, <1>5, <3>3 DEF Singles
      <4>2. one \notin Singles(k0)
        <5>1. one \in Singles(k0) => one.name.n \in 1..n
          BY <2>1 DEF Singles
        <5>2. PICK z : z = one.name.n
          OBVIOUS
        <5>3. z = n + 1
          BY <1>2, <3>3, <5>2 DEF n
        <5>4. z \notin 1..n
          BY <1>2, <5>3
        <5>. QED BY <5>1, <5>2, <5>4
      <4>3. PICK A : A = Singles(k0)
        OBVIOUS
      <4>4. Cardinality(A \cup {one}) = Cardinality(A) + 1
        BY ONLY <3>1, <4>2, <4>3, FS_AddElement
      <4>. QED BY <1>2, <2>1, <3>3, <4>1, <4>3, <4>4
    <3>. QED BY <3>2, <3>3
  <2>5. Reaches(p, m)
    BY <1>2, <1>4, <2>1
  <2>6. \A o \in l.issued : Fine(o, m)
    BY <1>5, <2>2, <2>3
  <2>. QED BY <1>1, <1>5, <2>1, <2>4, <2>5, <2>6 DEF IssuedOK, m
<1>. QED BY <1>6, <1>7, <1>8, <1>9 DEF NumOK

----------------------------------------------------------------------------
(* What is put on the streams *)

LEMMA LogFacts ==
  ASSUME NEW p, NEW n
  PROVE  /\ LogOK(p, n, <<>>)
         /\ \A x : ItemOK(p, n, x) => LogOK(p, n, <<x>>)
         /\ \A c, d \in Seq(Items) : LogOK(p, n, c) /\ LogOK(p, n, d) => LogOK(p, n, c \o d)
<1>1. LogOK(p, n, <<>>)
  BY DEF LogOK, ToSet
<1>2. ASSUME NEW x, ItemOK(p, n, x) PROVE LogOK(p, n, <<x>>)
  BY <1>2 DEF LogOK, ToSet
<1>3. ASSUME NEW c \in Seq(Items), NEW d \in Seq(Items), LogOK(p, n, c), LogOK(p, n, d)
      PROVE  LogOK(p, n, c \o d)
  <2>1. /\ Len(c) \in Nat /\ Len(d) \in Nat /\ DOMAIN (c \o d) = 1..(Len(c) + Len(d))
        /\ \A i \in 1..(Len(c) + Len(d)) :
             (c \o d)[i] = IF i <= Len(c) THEN c[i] ELSE d[i - Len(c)]
    BY <1>3
  <2>2. SUFFICES ASSUME NEW i \in 1..(Len(c) + Len(d)) PROVE ItemOK(p, n, (c \o d)[i])
    BY <2>1 DEF LogOK, ToSet
  <2>3. CASE i <= Len(c)
    <3>1. i \in DOMAIN c /\ (c \o d)[i] = c[i]
      BY <2>1, <2>3
    <3>. QED BY <1>3, <3>1 DEF LogOK, ToSet
  <2>4. CASE ~(i <= Len(c))
    <3>1. i - Len(c) \in DOMAIN d /\ (c \o d)[i] = d[i - Len(c)]
      BY <2>1, <2>4
    <3>. QED BY <1>3, <3>1 DEF LogOK, ToSet
  <2>. QED BY <2>3, <2>4
<1>. QED BY <1>1, <1>2, <1>3

LEMMA ConcatOK ==
  ASSUME NEW p, NEW n, NEW c \in Seq(Items), NEW d \in Seq(Items),
         LogOK(p, n, c), LogOK(p, n, d)
  PROVE  (c \o d) \in Seq(Items) /\ LogOK(p, n, c \o d)
<1>1. (c \o d) \in Seq(Items)
  OBVIOUS
<1>. QED BY <1>1, LogFacts

LEMMA EventsGrow ==
  ASSUME NEW p, NEW n \in Nat, NEW m \in Nat, n <= m, NEW c, LogOK(p, n, c)
  PROVE  LogOK(p, m, c)
<1>1. 1..n \subseteq 1..m
  OBVIOUS
<1>. QED BY <1>1 DEF LogOK, ItemOK

LEMMA OtherItem ==
  ASSUME NEW p, NEW n, NEW what \in {"kernel", "copy", "wait"}, NEW ops, NEW seq
  PROVE  LogOK(p, n, Item(what, ops, seq))
<1>. DEFINE x == [item |-> what, ops |-> ops, seq |-> seq]
<1>1. x.item # "event"
  OBVIOUS
<1>. HIDE DEF x
<1>2. LogOK(p, n, <<x>>)
  BY <1>1, LogFacts DEF ItemOK
<1>. QED BY <1>2 DEF Item, x

\* A work of a single message has the other kind of number, and one of collectives the
\* number that these have.
LEMMA EventOK ==
  ASSUME NEW p, NEW n, NEW ops, NEW p2p, NEW k,
         ~p2p => \A name \in ops : /\ name.between = <<>> /\ name.n \in 1..n
                                   /\ k.seqCollective = Number(p, name.n)
  PROVE  LogOK(p, n, Event(ops, p2p, k))
<1>. DEFINE seq == IF p2p THEN <<k.seqP2P>> ELSE <<k.seqCollective, "coll">>
            x == [item |-> "event", ops |-> ops, seq |-> seq]
<1>1. Event(ops, p2p, k) = <<x>>
  BY DEF Event, Item
<1>2. p2p => Len(seq) # 2
  <2>1. Len(<<k.seqP2P>>) = 1
    OBVIOUS
  <2>. QED BY <2>1
<1>3. ~p2p => seq = <<k.seqCollective, "coll">>
  OBVIOUS
<1>. HIDE DEF seq
<1>4. x.ops = ops /\ x.seq = seq
  OBVIOUS
<1>. HIDE DEF x
<1>5. ItemOK(p, n, x)
  BY <1>2, <1>3, <1>4 DEF ItemOK
<1>. QED BY <1>1, <1>5, LogFacts

----------------------------------------------------------------------------
(* The steps of the ranks *)

LEMMA RankFacts ==
  ASSUME WInv, NEW r \in Ranks, NEW p, p = config.program[r], NEW k, k = rank[r]
  PROVE  /\ Prog(p) /\ k \in RankRecords /\ k.pc \in Nat \ {0} /\ config \in Configs
         /\ Done(p, k.pc) \in Nat
         /\ k.pc <= Len(p) => k.pc \in DOMAIN p /\ Op(r) = p[k.pc]
         /\ InGroup(p, k.pc) <=> k.groups # 0
         /\ Fitting => WellGrouped(p)
<1>1. /\ config \in Configs /\ k \in RankRecords /\ GroupsOK(r)
      /\ k.pc \in Nat \ {0} /\ k.groups \in Nat
  BY DEF WInv, IInv, Types, RanksOK, RankRecords
<1>2. Prog(p)
  BY <1>1, ConfigsAssumption DEF Prog, WellFormed
<1>3. k.pc <= Len(p) => k.pc \in DOMAIN p /\ Op(r) = p[k.pc]
  BY <1>1, <1>2 DEF Prog, Op
<1>4. /\ Cardinality(Before(p, k.pc, "end")) \in Nat
      /\ Cardinality(Before(p, k.pc, "start")) \in Nat
  BY <1>1, BeforeNext
<1>5. InGroup(p, k.pc) <=> k.groups # 0
  BY <1>1, <1>4 DEF GroupsOK, InGroup
<1>. QED BY <1>1, <1>2, <1>3, <1>5, DoneNext DEF Fitting

LEMMA NumStep ==
  ASSUME NInv, WInv', NEW r \in Ranks, NEW p, p = config.program[r], config' = config,
         \A q \in Ranks : q # r => rank'[q] = rank[q] /\ stream'[q] = stream[q],
         Fitting => NumOK(p, rank'[r]) /\ EventsOK(p, Done(p, rank'[r].pc), stream'[r])
  PROVE  NInv'
<1>1. ASSUME Fitting, NEW q \in Ranks
      PROVE  /\ NumOK(config.program[q], rank'[q])
             /\ EventsOK(config.program[q], Done(config.program[q], rank'[q].pc), stream'[q])
  <2>1. CASE q = r
    BY <1>1, <2>1
  <2>2. CASE q # r
    BY <1>1, <2>2 DEF NInv
  <2>. QED BY <2>1, <2>2
<1>. QED BY <1>1 DEF NInv

\* A step that puts nothing on the streams.
LEMMA QuietNum ==
  ASSUME NInv, WInv', NEW r \in Ranks, NEW p, p = config.program[r], config' = config,
         stream' = stream, NEW l, rank' = [rank EXCEPT ![r] = l],
         l.pc \in {rank[r].pc, rank[r].pc + 1},
         Fitting => NumOK(p, l)
  PROVE  NInv'
<1>1. rank'[r] = l /\ \A q \in Ranks : q # r => rank'[q] = rank[q] /\ stream'[q] = stream[q]
  BY DEF NInv, WInv, IInv, Types
<1>. DEFINE n == Done(p, rank[r].pc)
            m == Done(p, l.pc)
<1>2. n \in Nat /\ m \in Nat /\ n <= m
  <2>1. rank[r].pc \in Nat \ {0} /\ n \in Nat
    BY RankFacts DEF NInv
  <2>. QED BY <2>1, DoneNext
<1>3. ASSUME Fitting PROVE EventsOK(p, m, stream[r])
  <2>1. EventsOK(p, n, stream[r])
    BY <1>3 DEF NInv
  <2>. HIDE DEF n, m
  <2>. QED BY <1>2, <2>1, EventsGrow DEF EventsOK
<1>. QED BY <1>1, <1>3, NumStep

LEMMA BeginN ==
  ASSUME NInv, WInv', NEW r \in Ranks, Begin(r)
  PROVE  NInv'
<1>1. PICK p, k : p = config.program[r] /\ k = rank[r]
  OBVIOUS
<1>2. /\ k \in RankRecords /\ k.at = "call" /\ k.pc \in DOMAIN p /\ Op(r) = p[k.pc]
      /\ Op(r).op \notin {"start", "end", "synchronize"}
  BY <1>1, RankFacts DEF NInv, Begin, At
<1>. DEFINE at == IF HasComm(r) /\ Op(r).op # "connect" THEN "issue" ELSE "init"
            n == SeqCollective(r)
            m == SeqP2P(r)
            l == [k EXCEPT !.seqCollective = n, !.seqP2P = m, !.at = at]
<1>3. rank' = [rank EXCEPT ![r] = l] /\ config' = config /\ stream' = stream
  BY <1>1 DEF Begin, NInv, WInv, IInv, Types
<1>4. n = IF \/ p[k.pc].op \in {"collective", "alltoallv"} /\ k.coalescing = {}
             \/ p[k.pc].op = "coalesced"
          THEN k.seqCollective + 1 ELSE k.seqCollective
  BY <1>1, <1>2 DEF SeqCollective
<1>5. at \in {"init", "issue"} /\ (at = "issue" => p[k.pc].op # "connect")
  BY <1>2
<1>. HIDE DEF n, m, at
<1>6. /\ l.pc = k.pc /\ l.groups = k.groups /\ l.group = k.group /\ l.coalescing = k.coalescing
      /\ l.comms = k.comms /\ l.issued = k.issued /\ l.at = at /\ l.seqCollective = n
  BY <1>2 DEF RankRecords
<1>. HIDE DEF l
<1>7. ASSUME Fitting PROVE NumOK(p, l)
  <2>1. NumOK(p, k)
    BY <1>1, <1>7 DEF NInv
  <2>. QED BY <1>2, <1>4, <1>5, <1>6, <2>1, BeginNum
<1>. QED BY <1>1, <1>3, <1>6, <1>7, QuietNum

\* What creating a communicator does to the record.
LEMMA OnwardN ==
  ASSUME NInv, WInv', NEW r \in Ranks, NEW l, rank' = [rank EXCEPT ![r] = l],
         config' = config, stream' = stream,
         \/ /\ rank[r].at \in {"init", "get", "join", "create"}
            /\ l.at \in {"get", "join", "create", "issue"}
            /\ l.at = "issue" => Op(r).op # "connect" /\ rank[r].pc <= Len(config.program[r])
         \/ l.at = "failed"
         \/ rank[r].at = "offsets" /\ l.at = "offsets",
         l.pc = rank[r].pc, l.groups = rank[r].groups, l.group = rank[r].group,
         l.coalescing = rank[r].coalescing,
         l.seqCollective = rank[r].seqCollective, l.issued = rank[r].issued,
         rank[r].comms \subseteq l.comms,
         (\A c, d \in rank[r].comms : c.key = d.key => c = d) =>
            (\A c, d \in l.comms : c.key = d.key => c = d)
  PROVE  NInv'
<1>1. PICK p, k : p = config.program[r] /\ k = rank[r]
  OBVIOUS
<1>2. k.pc <= Len(p) => Op(r) = p[k.pc]
  BY <1>1, RankFacts DEF NInv
<1>3. ASSUME Fitting PROVE NumOK(p, l)
  <2>1. NumOK(p, k)
    BY <1>1, <1>3 DEF NInv
  <2>2. \A c, d \in l.comms : c.key = d.key => c = d
    BY <1>1, <2>1 DEF NumOK, IssuedOK
  <2>. QED BY <1>1, <1>2, <2>1, <2>2, OnwardNum
<1>. QED BY <1>1, <1>3, QuietNum

LEMMA PastN ==
  ASSUME NInv, WInv', NEW r \in Ranks, NEW l, rank' = [rank EXCEPT ![r] = l],
         config' = config, stream' = stream, rank[r].pc <= Len(config.program[r]),
         Op(r).op \in {"connect", "synchronize"}, rank[r].at \in {"call", "create"}, l.at = "call",
         l.pc = rank[r].pc + 1, l.groups = rank[r].groups, l.group = rank[r].group,
         l.coalescing = rank[r].coalescing,
         l.seqCollective = rank[r].seqCollective, l.issued = rank[r].issued,
         rank[r].comms \subseteq l.comms,
         (\A c, d \in rank[r].comms : c.key = d.key => c = d) =>
            (\A c, d \in l.comms : c.key = d.key => c = d)
  PROVE  NInv'
<1>1. PICK p, k : p = config.program[r] /\ k = rank[r]
  OBVIOUS
<1>2. k.pc \in DOMAIN p /\ Op(r) = p[k.pc] /\ Prog(p)
  BY <1>1, RankFacts DEF NInv
<1>3. ASSUME Fitting PROVE NumOK(p, l)
  <2>1. NumOK(p, k)
    BY <1>1, <1>3 DEF NInv
  <2>2. \A c, d \in l.comms : c.key = d.key => c = d
    BY <1>1, <2>1 DEF NumOK, IssuedOK
  <2>. QED BY <1>1, <1>2, <2>1, <2>2, PastNum
<1>. QED BY <1>1, <1>3, QuietNum

LEMMA QuietN ==
  ASSUME NInv, WInv', NEW r \in Ranks,
         GetId(r) \/ Join(r) \/ Create(r) \/ ReadOffsets(r) \/ Synchronize(r) \/ Fail(r)
  PROVE  NInv'
<1>1. rank[r] \in RankRecords /\ rank \in [Ranks -> RankRecords]
  BY DEF NInv, WInv, IInv, Types
<1>2. CASE GetId(r)
  <2>1. PICK e \in store : rank' = [rank EXCEPT ![r].at = "join", ![r].id = e.value]
    BY <1>2 DEF GetId
  <2>. DEFINE l == [rank[r] EXCEPT !.at = "join", !.id = e.value]
  <2>2. rank' = [rank EXCEPT ![r] = l] /\ stream' = stream /\ config' = config /\ rank[r].at = "get"
    BY <1>1, <1>2, <2>1 DEF GetId, At
  <2>3. /\ l.pc = rank[r].pc /\ l.groups = rank[r].groups /\ l.group = rank[r].group
        /\ l.coalescing = rank[r].coalescing /\ l.seqCollective = rank[r].seqCollective
        /\ l.issued = rank[r].issued /\ l.comms = rank[r].comms /\ l.at = "join"
    BY <1>1 DEF RankRecords
  <2>. HIDE DEF l
  <2>. QED BY <2>2, <2>3, OnwardN
<1>3. CASE Join(r)
  <2>. DEFINE l == [rank[r] EXCEPT !.at = "create"]
  <2>1. rank' = [rank EXCEPT ![r] = l] /\ stream' = stream /\ config' = config /\ rank[r].at = "join"
    BY <1>1, <1>3 DEF Join, At
  <2>2. /\ l.pc = rank[r].pc /\ l.groups = rank[r].groups /\ l.group = rank[r].group
        /\ l.coalescing = rank[r].coalescing /\ l.seqCollective = rank[r].seqCollective
        /\ l.issued = rank[r].issued /\ l.comms = rank[r].comms /\ l.at = "create"
    BY <1>1 DEF RankRecords
  <2>. HIDE DEF l
  <2>. QED BY <2>1, <2>2, OnwardN
<1>4. CASE Create(r)
  <2>. DEFINE connect == Op(r).op = "connect"
              new == [key |-> Key(r), id |-> rank[r].id]
              comms == IF HasComm(r) THEN rank[r].comms ELSE rank[r].comms \cup {new}
              at == IF connect THEN "call" ELSE "issue"
              i == IF connect THEN rank[r].pc + 1 ELSE rank[r].pc
              eager == rank[r].eager \/ connect
              l == [rank[r] EXCEPT !.comms = comms, !.id = NoComm, !.at = at, !.pc = i, !.eager = eager]
  <2>1. rank' = [rank EXCEPT ![r] = l] /\ stream' = stream /\ config' = config
        /\ rank[r].at = "create" /\ rank[r].pc <= Len(config.program[r])
    BY <1>1, <1>4 DEF Create, At
  <2>2. (\A c, d \in rank[r].comms : c.key = d.key => c = d) =>
          (\A c, d \in comms : c.key = d.key => c = d)
    <3>1. CASE HasComm(r)
      BY <3>1
    <3>2. CASE ~HasComm(r)
      <4>1. new.key = Key(r) /\ \A c \in rank[r].comms : c.key # Key(r)
        BY <3>2 DEF HasComm
      <4>. HIDE DEF new
      <4>. QED BY <4>1
    <3>. QED BY <3>1, <3>2
  <2>3. rank[r].comms \subseteq comms
    OBVIOUS
  <2>. HIDE DEF comms, eager, at, i
  <2>4. /\ l.pc = i /\ l.groups = rank[r].groups /\ l.group = rank[r].group
        /\ l.coalescing = rank[r].coalescing /\ l.seqCollective = rank[r].seqCollective
        /\ l.issued = rank[r].issued /\ l.comms = comms /\ l.at = at
    BY <1>1 DEF RankRecords
  <2>. HIDE DEF l
  <2>5. CASE connect
    <3>1. at = "call" /\ i = rank[r].pc + 1
      BY <2>5 DEF at, i
    <3>. QED BY <2>1, <2>2, <2>3, <2>4, <2>5, <3>1, PastN
  <2>6. CASE ~connect
    <3>1. at = "issue" /\ i = rank[r].pc
      BY <2>6 DEF at, i
    <3>. QED BY <2>1, <2>2, <2>3, <2>4, <2>6, <3>1, OnwardN
  <2>. QED BY <2>5, <2>6
<1>5. CASE ReadOffsets(r)
  <2>1. PICK q \in rank[r].todo, e \in store :
          rank' = [rank EXCEPT ![r].todo = @ \ {q}, ![r].mixed = @ \/ e.value # Name(r)]
    BY <1>5 DEF ReadOffsets
  <2>. DEFINE mixed == rank[r].mixed \/ e.value # Name(r)
              l == [rank[r] EXCEPT !.todo = @ \ {q}, !.mixed = mixed]
  <2>2. rank' = [rank EXCEPT ![r] = l] /\ stream' = stream /\ config' = config
        /\ rank[r].at = "offsets"
    BY <1>1, <1>5, <2>1 DEF ReadOffsets, At
  <2>. HIDE DEF mixed
  <2>3. /\ l.pc = rank[r].pc /\ l.groups = rank[r].groups /\ l.group = rank[r].group
        /\ l.coalescing = rank[r].coalescing /\ l.seqCollective = rank[r].seqCollective
        /\ l.issued = rank[r].issued /\ l.comms = rank[r].comms /\ l.at = "offsets"
    BY <1>1, <2>2 DEF RankRecords
  <2>. HIDE DEF l
  <2>. QED BY <2>2, <2>3, OnwardN
<1>6. CASE Synchronize(r)
  <2>. DEFINE i == rank[r].pc + 1
              l == [rank[r] EXCEPT !.pc = i]
  <2>1. rank' = [rank EXCEPT ![r] = l] /\ stream' = stream /\ config' = config
        /\ rank[r].at = "call" /\ Op(r).op = "synchronize" /\ rank[r].pc <= Len(config.program[r])
    BY <1>1, <1>6 DEF Synchronize, At
  <2>. HIDE DEF i
  <2>2. /\ l.pc = i /\ l.groups = rank[r].groups /\ l.group = rank[r].group
        /\ l.coalescing = rank[r].coalescing /\ l.seqCollective = rank[r].seqCollective
        /\ l.issued = rank[r].issued /\ l.comms = rank[r].comms /\ l.at = "call"
    BY <1>1, <2>1 DEF RankRecords
  <2>. HIDE DEF l
  <2>. QED BY <2>1, <2>2, PastN DEF i
<1>7. CASE Fail(r)
  <2>. DEFINE l == [rank[r] EXCEPT !.at = "failed"]
  <2>1. rank' = [rank EXCEPT ![r] = l] /\ stream' = stream /\ config' = config
    BY <1>1, <1>7 DEF Fail
  <2>2. /\ l.pc = rank[r].pc /\ l.groups = rank[r].groups /\ l.group = rank[r].group
        /\ l.coalescing = rank[r].coalescing /\ l.seqCollective = rank[r].seqCollective
        /\ l.issued = rank[r].issued /\ l.comms = rank[r].comms /\ l.at = "failed"
    BY <1>1 DEF RankRecords
  <2>. HIDE DEF l
  <2>. QED BY <2>1, <2>2, OnwardN
<1>. QED BY <1>2, <1>3, <1>4, <1>5, <1>6, <1>7

LEMMA KernelsOK ==
  ASSUME WInv, NEW r \in Ranks, NEW s \in Streams, NEW p, NEW n
  PROVE  Kernels(rank[r].queued, s) \in Seq(Items) /\ LogOK(p, n, Kernels(rank[r].queued, s))
<1>1. Kernels(rank[r].queued, s) \in Seq(Items)
  BY KernelsFacts
<1>. DEFINE ops == {q.name : q \in {x \in ToSet(rank[r].queued) : x.stream = s}}
<1>2. \/ Kernels(rank[r].queued, s) = <<>>
      \/ Kernels(rank[r].queued, s) = Item("kernel", ops, <<>>)
  BY DEF Kernels, Item
<1>. HIDE DEF ops
<1>. QED BY <1>1, <1>2, LogFacts, OtherItem

LEMMA LaunchN ==
  ASSUME NInv, WInv', NEW r \in Ranks, initMCCLComm(r)
  PROVE  NInv'
<1>1. rank[r] \in RankRecords /\ rank \in [Ranks -> RankRecords]
      /\ stream \in [Ranks -> [Streams -> Seq(Items)]]
  BY DEF NInv, WInv, IInv, Types, StreamsTyped
<1>2. PICK p, k : p = config.program[r] /\ k = rank[r]
  OBVIOUS
<1>3. /\ stream' = [stream EXCEPT ![r] = Launched(r)] /\ config' = config
      /\ rank[r].at = "init"
  BY DEF initMCCLComm, At
<1>4. \A q \in Ranks : q # r => rank'[q] = rank[q] /\ stream'[q] = stream[q]
  <2>1. \A q \in Ranks : q # r => stream'[q] = stream[q]
    BY <1>1, <1>3
  <2>2. \A q \in Ranks : q # r => rank'[q] = rank[q]
    BY <1>1 DEF initMCCLComm
  <2>. QED BY <2>1, <2>2
<1>5. \A s \in Streams : stream'[r][s] = stream[r][s] \o Kernels(rank[r].queued, s)
  BY <1>1, <1>3 DEF Launched
<1>6. /\ rank'[r].pc = k.pc /\ rank'[r].groups = k.groups /\ rank'[r].group = k.group
      /\ rank'[r].coalescing = k.coalescing /\ rank'[r].seqCollective = k.seqCollective
      /\ rank'[r].issued = k.issued /\ rank'[r].comms = k.comms
      /\ rank'[r].at \in {"join", "get"}
  <2>. DEFINE id == IF isSendRecvSelf(r) THEN Garbage(r) ELSE <<r, rank[r].ids + 1>>
              c == IF singleP2POp(r) THEN rank[r].mcclCommCounter ELSE rank[r].mcclCommCounter + 1
  <2>1. \/ rank' = [rank EXCEPT ![r].queued = <<>>, ![r].at = "join", ![r].id = id]
        \/ rank' = [rank EXCEPT ![r].queued = <<>>, ![r].at = "join", ![r].id = id,
                          ![r].ids = @ + 1, ![r].mcclCommCounter = c]
        \/ rank' = [rank EXCEPT ![r].queued = <<>>, ![r].at = "get", ![r].id = storeKey(r),
                          ![r].mcclCommCounter = c]
    BY <1>1 DEF initMCCLComm, RankRecords
  <2>. HIDE DEF id, c
  <2>. QED BY <1>1, <1>2, <2>1 DEF RankRecords
<1>7. ASSUME Fitting PROVE NumOK(p, rank'[r])
  <2>1. NumOK(p, k)
    BY <1>2, <1>7 DEF NInv
  <2>2. \A c, d \in k.comms : c.key = d.key => c = d
    BY <2>1 DEF NumOK, IssuedOK
  <2>. QED BY <1>2, <1>3, <1>6, <2>1, <2>2, OnwardNum
<1>8. ASSUME Fitting PROVE EventsOK(p, Done(p, k.pc), stream'[r])
  <2>1. EventsOK(p, Done(p, k.pc), stream[r])
    BY <1>2, <1>8 DEF NInv
  <2>2. ASSUME NEW s \in Streams PROVE LogOK(p, Done(p, k.pc), stream'[r][s])
    <3>1. stream[r][s] \in Seq(Items) /\ LogOK(p, Done(p, k.pc), stream[r][s])
      BY <1>1, <2>1 DEF EventsOK
    <3>2. /\ Kernels(rank[r].queued, s) \in Seq(Items)
          /\ LogOK(p, Done(p, k.pc), Kernels(rank[r].queued, s))
      BY KernelsOK DEF NInv
    <3>. QED BY <1>5, <3>1, <3>2, LogFacts
  <2>. QED BY <2>2 DEF EventsOK
<1>. QED BY <1>2, <1>3, <1>4, <1>6, <1>7, <1>8, NumStep

LEMMA StartN ==
  ASSUME NInv, WInv', NEW r \in Ranks, Start(r)
  PROVE  NInv'
<1>1. PICK p, k : p = config.program[r] /\ k = rank[r]
  OBVIOUS
<1>2. /\ k \in RankRecords /\ k.at = "call" /\ k.pc \in DOMAIN p /\ p[k.pc].op = "start"
      /\ Prog(p) /\ (InGroup(p, k.pc) <=> k.groups # 0) /\ (Fitting => WellGrouped(p))
  BY <1>1, RankFacts DEF NInv, Start, At
<1>. DEFINE n == k.groups + 1
            i == k.pc + 1
            both == k.coalescing \cup {"active"}
            l == [k EXCEPT !.coalescedComm = NoComm, !.coalescing = both, !.groups = n, !.pc = i]
<1>3. rank' = [rank EXCEPT ![r] = l] /\ config' = config /\ stream' = stream
  BY <1>1 DEF Start, NInv, WInv, IInv, Types
<1>. HIDE DEF n, i, both
<1>4. /\ l.pc = i /\ l.groups = n /\ l.group = k.group /\ l.coalescing = both
      /\ l.comms = k.comms /\ l.issued = k.issued /\ l.at = "call"
      /\ l.seqCollective = k.seqCollective
  BY <1>2 DEF RankRecords
<1>. HIDE DEF l
<1>5. ASSUME Fitting PROVE NumOK(p, l)
  <2>1. NumOK(p, k)
    BY <1>1, <1>5 DEF NInv
  <2>2. k.groups = 0 /\ n = 1
    BY <1>2, <1>5 DEF WellGrouped, n
  <2>. QED BY <1>2, <1>4, <2>1, <2>2, StartNum DEF i, both
<1>6. l.pc = rank[r].pc + 1
  BY <1>1, <1>4 DEF i
<1>. QED BY <1>1, <1>3, <1>5, <1>6, QuietNum

LEMMA EndN ==
  ASSUME NInv, WInv', NEW r \in Ranks, End(r)
  PROVE  NInv'
<1>1. PICK p, k : p = config.program[r] /\ k = rank[r]
  OBVIOUS
<1>2. /\ k \in RankRecords /\ k.at = "call" /\ k.pc \in DOMAIN p /\ p[k.pc].op = "end"
      /\ Prog(p) /\ k.pc \in Nat \ {0} /\ Done(p, k.pc) \in Nat
  BY <1>1, RankFacts DEF NInv, End, EndWith, At
<1>3. rank \in [Ranks -> RankRecords] /\ stream \in [Ranks -> [Streams -> Seq(Items)]]
  BY DEF NInv, WInv, IInv, Types, StreamsTyped
<1>4. k.groups \in Nat /\ k.groups >= 1
  <2>1. Types /\ GroupsOK(r) /\ rank[r].pc <= Len(config.program[r]) /\ Op(r).op = "end"
    BY DEF NInv, WInv, IInv, RanksOK, End, EndWith, At
  <2>. QED BY <1>1, <2>1, Ended
<1>. DEFINE n == k.groups - 1
            i == k.pc + 1
            left == IF k.groups = 1 THEN <<>> ELSE k.queued
            l == [k EXCEPT !.groups = n, !.coalescing = {}, !.coalescedComm = NoComm,
                           !.group = {}, !.queued = left, !.pc = i]
            work(s) == IF s = Device THEN GroupWork(r) ELSE <<>>
            closed(s) == IF k.groups = 1 THEN Kernels(k.queued, s) ELSE <<>>
            log == [s \in Streams |-> stream[r][s] \o closed(s) \o work(s)]
<1>5. rank' = [rank EXCEPT ![r] = l] /\ config' = config
  BY <1>1 DEF End, EndWith
<1>6. stream' = [stream EXCEPT ![r] = log]
  BY <1>1 DEF End, EndWith, Closed
<1>. HIDE DEF n, i, left
<1>7. /\ l.pc = i /\ l.groups = n /\ l.group = {} /\ l.coalescing = {}
      /\ l.comms = k.comms /\ l.issued = k.issued /\ l.at = "call"
      /\ l.seqCollective = k.seqCollective
  BY <1>2 DEF RankRecords
<1>. HIDE DEF l
<1>8. /\ rank'[r] = l /\ stream'[r] = log
      /\ \A q \in Ranks : q # r => rank'[q] = rank[q] /\ stream'[q] = stream[q]
  BY <1>3, <1>5, <1>6
<1>9. Done(p, i) = Done(p, k.pc)
  <2>1. ~Numbered(p, k.pc)
    BY <1>2 DEF Numbered
  <2>. QED BY <1>2, <2>1, DoneNext DEF i
<1>10. ASSUME Fitting PROVE NumOK(p, l)
  <2>1. NumOK(p, k)
    BY <1>1, <1>10 DEF NInv
  <2>2. k.groups \in {0, 1}
    BY <2>1 DEF NumOK, CoalescingOK
  <2>3. n = 0
    BY <1>4, <2>2 DEF n
  <2>. QED BY <1>2, <1>7, <2>1, <2>3, EndNum DEF i
<1>11. ASSUME Fitting PROVE EventsOK(p, Done(p, i), log)
  <2>. DEFINE d == Done(p, k.pc)
  <2>1. NumOK(p, k) /\ EventsOK(p, d, stream[r])
    BY <1>1, <1>11 DEF NInv
  <2>. HIDE DEF d
  <2>2. GroupWork(r) \in Seq(Items) /\ LogOK(p, d, GroupWork(r))
    <3>1. k.group \in SUBSET Names
      BY <1>2 DEF RankRecords
    <3>2. PICK e \in Items : Event(k.group, "p2p" \in k.coalescing, k) = <<e>>
      BY <1>2, <3>1, EventFacts
    <3>3. "p2p" \notin k.coalescing =>
            \A name \in k.group : /\ name.between = <<>> /\ name.n \in 1..d
                                  /\ k.seqCollective = Number(p, name.n)
      BY <1>2, <2>1 DEF NumOK, GroupOK, SeqOK, d
    <3>4. LogOK(p, d, Event(k.group, "p2p" \in k.coalescing, k))
      BY <3>3, EventOK
    <3>5. <<e>> \in Seq(Items) /\ <<>> \in Seq(Items)
      OBVIOUS
    <3>. QED BY <1>1, <3>2, <3>4, <3>5, LogFacts DEF GroupWork
  <2>3. ASSUME NEW s \in Streams PROVE LogOK(p, d, log[s])
    <3>1. stream[r][s] \in Seq(Items) /\ LogOK(p, d, stream[r][s])
      BY <1>3, <2>1 DEF EventsOK
    <3>2. <<>> \in Seq(Items) /\ LogOK(p, d, <<>>)
      BY LogFacts
    <3>3. closed(s) \in Seq(Items) /\ LogOK(p, d, closed(s))
      BY <1>1, <3>2, KernelsOK DEF NInv
    <3>4. work(s) \in Seq(Items) /\ LogOK(p, d, work(s))
      BY <2>2, <3>2
    <3>5. log[s] = (stream[r][s] \o closed(s)) \o work(s)
      OBVIOUS
    <3>. HIDE DEF closed, work, log
    <3>6. PICK a, b, c \in Seq(Items) : a = stream[r][s] /\ b = closed(s) /\ c = work(s)
      BY <3>1, <3>3, <3>4
    <3>7. (a \o b) \in Seq(Items) /\ LogOK(p, d, a \o b)
      BY <3>1, <3>3, <3>6, ConcatOK
    <3>8. LogOK(p, d, (a \o b) \o c)
      BY <3>4, <3>6, <3>7, ConcatOK
    <3>. QED BY <3>5, <3>6, <3>8
  <2>. QED BY <1>9, <2>3 DEF EventsOK, d
<1>. HIDE DEF log
<1>. QED BY <1>1, <1>5, <1>7, <1>8, <1>10, <1>11, NumStep

\* What Coalesced does to the number and the coalescing state.
LEMMA CoalescedN ==
  ASSUME Types, NEW r \in Ranks, HasComm(r), NEW sort, NEW k0, NEW k, k0 = rank[r], k = Coalesced(r),
         sort = (IF Op(r).op = "p2p" THEN "p2p" ELSE "coll")
  PROVE  /\ k \in RankRecords /\ k.pc = k0.pc /\ k.at = k0.at
         /\ k.groups = k0.groups /\ k.group = k0.group /\ k.comms = k0.comms
         /\ k.issued = k0.issued /\ k.eager = k0.eager
         /\ IF "active" \notin k0.coalescing
            THEN k.coalescing = k0.coalescing /\ k.seqCollective = k0.seqCollective
            ELSE /\ k.coalescing = k0.coalescing \cup {sort}
                 /\ k.seqCollective =
                      IF sort = "coll" /\ sort \notin k0.coalescing /\ Op(r).op # "coalesced"
                      THEN k0.seqCollective + 1 ELSE k0.seqCollective
<1>1. /\ k \in RankRecords /\ k.pc = k0.pc /\ k.at = k0.at
      /\ k.groups = k0.groups /\ k.group = k0.group /\ k.comms = k0.comms
      /\ k.issued = k0.issued /\ k.eager = k0.eager
  BY CoalescedFacts
<1>2. CASE "active" \notin k0.coalescing
  <2>1. k = k0
    BY <1>2 DEF Coalesced
  <2>. QED BY <1>1, <1>2, <2>1
<1>3. CASE "active" \in k0.coalescing
  <2>. DEFINE first == sort \notin k0.coalescing /\ Op(r).op # "coalesced"
              both == k0.coalescing \cup {sort}
              n == IF first /\ sort = "coll" THEN k0.seqCollective + 1 ELSE k0.seqCollective
              m == IF first /\ sort = "p2p" THEN k0.seqP2P + 1 ELSE k0.seqP2P
  <2>1. k = [k0 EXCEPT !.coalescing = both, !.coalescedComm = Comm(r),
                       !.seqCollective = n, !.seqP2P = m]
    BY <1>3 DEF Coalesced
  <2>2. k0 \in RankRecords
    BY DEF Types
  <2>. HIDE DEF both, n, m
  <2>3. k.coalescing = both /\ k.seqCollective = n
    BY <2>1, <2>2 DEF RankRecords
  <2>. QED BY <1>1, <1>3, <2>3 DEF both, n
<1>. QED BY <1>2, <1>3

LEMMA NameN ==
  ASSUME WInv, NEW r \in Ranks, NEW p, p = config.program[r], NEW k, k = rank[r],
         k.pc <= Len(p), HasComm(r), NumOK(p, k), Numbered(p, k.pc) \/ p[k.pc].op = "p2p"
  PROVE  IF p[k.pc].op = "p2p" THEN Name(r).between # <<>>
         ELSE /\ Name(r).between = <<>> /\ Name(r).n = Done(p, k.pc) + 1
              /\ \E c \in k.comms : c.key = Device /\ c.id = Name(r).id
              /\ Key(r) = Device
<1>1. Op(r) = p[k.pc]
  BY RankFacts
<1>2. CASE p[k.pc].op = "p2p"
  <2>1. Name(r).between = <<Op(r).from, Op(r).to>>
    BY <1>1, <1>2 DEF Name
  <2>2. Len(<<Op(r).from, Op(r).to>>) = 2 /\ Len(<<>>) = 0
    OBVIOUS
  <2>3. Name(r).between # <<>>
    BY <2>1, <2>2
  <2>. QED BY <1>2, <2>3
<1>3. CASE p[k.pc].op # "p2p"
  <2>1. Key(r) = Device
    BY <1>1, <1>3 DEF Key
  <2>. DEFINE c == CHOOSE c \in k.comms : c.key = Key(r)
              S == {o \in k.issued : o.name.id = Comm(r) /\ o.name.between = <<>>}
  <2>2. c \in k.comms /\ c.key = Device /\ Comm(r) = c.id
    BY <2>1 DEF HasComm, Comm
  <2>. HIDE DEF c
  <2>3. S = Singles(k)
    <3>1. ASSUME NEW o \in Singles(k) PROVE o.name.id = Comm(r)
      <4>1. PICK d \in k.comms : d.key = Device /\ d.id = o.name.id
        BY <3>1 DEF NumOK, IssuedOK, Singles
      <4>2. d = c
        BY <2>2, <4>1 DEF NumOK, IssuedOK
      <4>. QED BY <2>2, <4>1, <4>2
    <3>. QED BY <3>1 DEF Singles
  <2>4. /\ Name(r).id = Comm(r) /\ Name(r).between = <<>>
        /\ Name(r).n = 1 + Cardinality(S)
    BY <1>1, <1>3 DEF Name
  <2>5. Cardinality(S) = Done(p, k.pc) /\ Done(p, k.pc) \in Nat
    BY <2>3, RankFacts DEF NumOK, IssuedOK
  <2>. QED BY <1>3, <2>1, <2>2, <2>4, <2>5
<1>. QED BY <1>2, <1>3

LEMMA PublishN ==
  ASSUME NInv, WInv', NEW r \in Ranks, PublishOffsets(r)
  PROVE  NInv'
<1>1. PICK p, k0, k : p = config.program[r] /\ k0 = rank[r] /\ k = Coalesced(r)
  OBVIOUS
<1>2. /\ k0.at = "issue" /\ k0.pc \in DOMAIN p /\ Op(r) = p[k0.pc] /\ Op(r).op = "alltoallv"
      /\ Prog(p) /\ (InGroup(p, k0.pc) <=> k0.groups # 0)
      /\ config' = config /\ stream' = stream
  BY <1>1, RankFacts DEF NInv, PublishOffsets, At
<1>3. HasComm(r) /\ Types
  BY <1>1, <1>2 DEF NInv, WInv, IInv, RanksOK, PlaceOK
<1>4. /\ k \in RankRecords /\ k.pc = k0.pc
      /\ k.groups = k0.groups /\ k.group = k0.group /\ k.comms = k0.comms
      /\ k.issued = k0.issued
      /\ IF "active" \notin k0.coalescing
         THEN k.coalescing = k0.coalescing /\ k.seqCollective = k0.seqCollective
         ELSE /\ k.coalescing = k0.coalescing \cup {"coll"}
              /\ k.seqCollective = IF "coll" \notin k0.coalescing
                                   THEN k0.seqCollective + 1 ELSE k0.seqCollective
  <2>1. PICK sort : sort = (IF Op(r).op = "p2p" THEN "p2p" ELSE "coll")
    OBVIOUS
  <2>2. sort = "coll" /\ Op(r).op # "coalesced"
    BY <1>2, <2>1
  <2>. QED BY <1>1, <1>3, <2>1, <2>2, CoalescedN
<1>. DEFINE todo == Ranks \ {r}
            l == [k EXCEPT !.at = "offsets", !.todo = todo]
<1>5. rank' = [rank EXCEPT ![r] = l]
  BY <1>1 DEF PublishOffsets
<1>. HIDE DEF todo
<1>6. /\ l.pc = k.pc /\ l.groups = k.groups /\ l.group = k.group /\ l.comms = k.comms
      /\ l.issued = k.issued /\ l.coalescing = k.coalescing
      /\ l.seqCollective = k.seqCollective /\ l.at = "offsets"
  BY <1>4 DEF RankRecords
<1>. HIDE DEF l
<1>7. ASSUME Fitting PROVE NumOK(p, l)
  <2>1. NumOK(p, k0)
    BY <1>1, <1>7 DEF NInv
  <2>2. Numbered(p, k0.pc)
    BY <1>2 DEF Numbered
  <2>3. /\ k0.groups \in {0, 1} /\ (k0.groups = 0 => k0.coalescing = {} /\ k0.group = {})
        /\ (k0.groups = 1 => "active" \in k0.coalescing)
        /\ ("coll" \in k0.coalescing <=> Joins(p, k0.pc))
        /\ k0.seqCollective = IF k0.groups = 0 THEN Number(p, Done(p, k0.pc)) + 1
                              ELSE Number(p, Done(p, k0.pc))
    BY <1>2, <2>1, <2>2 DEF NumOK, CoalescingOK, SeqOK
  <2>4. k0.groups = 0 => ~Joins(p, k0.pc)
    BY <1>2 DEF Joins
  <2>5. SeqOK(p, l)
    BY <1>4, <1>6, <2>3, <2>4 DEF SeqOK
  <2>6. CoalescingOK(p, l)
    BY <1>2, <1>4, <1>6, <2>3 DEF CoalescingOK
  <2>7. IssuedOK(p, l) /\ GroupOK(p, l)
    <3>1. \A c, d \in l.comms : c.key = d.key => c = d
      BY <1>4, <1>6, <2>1 DEF NumOK, IssuedOK
    <3>. QED BY <1>4, <1>6, <2>1, <3>1, SameIssued, SameGroup DEF NumOK
  <2>. QED BY <2>5, <2>6, <2>7 DEF NumOK
<1>8. l.pc = rank[r].pc
  BY <1>1, <1>4, <1>6
<1>. QED BY <1>1, <1>2, <1>5, <1>7, <1>8, QuietNum

LEMMA IssuedN ==
  ASSUME NInv, WInv', NEW r \in Ranks, rank[r].pc <= Len(config.program[r]),
         rank[r].at \in {"issue", "offsets"}, NEW p, p = config.program[r],
         NEW k \in RankRecords, Issued(r, k), config' = config,
         Fitting => /\ Ready(p, rank[r], k)
                    /\ Numbered(p, rank[r].pc) \/ p[rank[r].pc].op = "p2p"
  PROVE  NInv'
<1>1. PICK k0 : k0 = rank[r]
  OBVIOUS
<1>2. /\ k0 \in RankRecords /\ k0.pc \in DOMAIN p /\ Op(r) = p[k0.pc] /\ Prog(p)
      /\ (InGroup(p, k0.pc) <=> k0.groups # 0) /\ Done(p, k0.pc) \in Nat
      /\ k0.pc \in Nat \ {0}
  BY <1>1, RankFacts DEF NInv
<1>3. /\ HasComm(r) /\ Types /\ StreamsTyped /\ IsFiniteSet(k0.issued)
      /\ rank \in [Ranks -> RankRecords]
  BY <1>1 DEF NInv, WInv, IInv, RanksOK, PlaceOK, Types
<1>. DEFINE s == IF Op(r).async THEN Key(r) ELSE Current
            name == Name(r)
            grouped == k.groups > 0
            single == k.coalescing = {} \/ Op(r).op = "coalesced"
            A == syncStream(r, s)
            B == IF grouped THEN <<>> ELSE Item("kernel", {name}, <<>>)
            C == IF Op(r).copy THEN Item("copy", {name}, <<>>) ELSE <<>>
            D == IF single THEN Event({name}, Op(r).op = "p2p", k) ELSE <<>>
            log == stream[r][s] \o A \o B \o C \o D
            queued == IF grouped THEN Append(k.queued, [name |-> name, stream |-> s]) ELSE k.queued
            group == IF k.coalescing = {} THEN {} ELSE k.group \cup {name}
            i == k.pc + 1
            one == [name |-> name, kind |-> Op(r).kind]
            issued == k.issued \cup {one}
            l == [k EXCEPT !.pc = i, !.at = "call", !.queued = queued, !.group = group,
                           !.issued = issued]
<1>4. name \in Names /\ s \in Streams
  <2>1. name \in Names
    BY <1>3, NameFacts
  <2>2. Key(r) \in CommKeys
    BY <1>3, KeyFacts
  <2>3. Current \in Streams
    BY DEF Streams
  <2>. QED BY <2>1, <2>2, <2>3, Streamed
<1>5. stream' = [stream EXCEPT ![r][s] = log] /\ rank' = [rank EXCEPT ![r] = l]
  BY <1>3, <1>4 DEF Issued, StreamsTyped
<1>6. one.name = name /\ one.kind = Op(r).kind
  OBVIOUS
<1>7. A \in Seq(Items) /\ \A n : LogOK(p, n, A)
  <2>1. A \in Seq(Items)
    BY <1>3, syncStreamFacts
  <2>2. \E x : A \in {<<>>, Item("wait", {}, x)}
    BY DEF syncStream
  <2>. HIDE DEF A
  <2>. QED BY <2>1, <2>2, LogFacts, OtherItem
<1>8. stream[r][s] \in Seq(Items)
  BY <1>3, <1>4 DEF StreamsTyped
<1>. HIDE DEF s, name, A, queued, group, i, one, issued
<1>9. \A what \in {"kernel", "copy"} : Item(what, {name}, <<>>) \in Seq(Items)
  <2>1. ASSUME NEW what \in {"kernel", "copy"} PROVE Item(what, {name}, <<>>) \in Seq(Items)
    <3>. DEFINE e == [item |-> what, ops |-> {name}, seq |-> <<>>]
    <3>1. e \in Items
      BY <1>4 DEF Items
    <3>2. PICK x \in Items : x = e
      BY <3>1
    <3>3. Item(what, {name}, <<>>) = <<x>>
      BY <3>2 DEF Item
    <3>4. <<x>> \in Seq(Items)
      OBVIOUS
    <3>. QED BY <3>3, <3>4
  <2>. QED BY <2>1
<1>10. Event({name}, Op(r).op = "p2p", k) \in Seq(Items)
  <2>1. PICK e \in Items : Event({name}, Op(r).op = "p2p", k) = <<e>>
    BY <1>4, EventFacts
  <2>2. <<e>> \in Seq(Items)
    OBVIOUS
  <2>. QED BY <2>1, <2>2
<1>11. /\ B \in Seq(Items) /\ C \in Seq(Items) /\ D \in Seq(Items)
       /\ \A n : LogOK(p, n, B) /\ LogOK(p, n, C)
  <2>1. <<>> \in Seq(Items) /\ \A n : LogOK(p, n, <<>>)
    BY LogFacts
  <2>2. \A what \in {"kernel", "copy"} : \A n : LogOK(p, n, Item(what, {name}, <<>>))
    BY OtherItem
  <2>. QED BY <1>9, <1>10, <2>1, <2>2
<1>12. /\ l.pc = i /\ l.groups = k.groups /\ l.group = group /\ l.coalescing = k.coalescing
       /\ l.comms = k.comms /\ l.issued = issued /\ l.at = "call"
       /\ l.seqCollective = k.seqCollective
  BY DEF RankRecords
<1>. HIDE DEF l
<1>13. /\ rank'[r] = l
       /\ \A q \in Ranks : q # r => rank'[q] = rank[q] /\ stream'[q] = stream[q]
       /\ stream'[r][s] = log /\ \A t \in Streams : t # s => stream'[r][t] = stream[r][t]
  BY <1>3, <1>4, <1>5 DEF StreamsTyped
<1>14. ASSUME Fitting PROVE NumOK(p, l) /\ EventsOK(p, Done(p, i), stream'[r])
  <2>1. NumOK(p, k0) /\ EventsOK(p, Done(p, k0.pc), stream[r])
    BY <1>1, <1>14 DEF NInv
  <2>2. Ready(p, k0, k) /\ (Numbered(p, k0.pc) \/ p[k0.pc].op = "p2p")
    BY <1>1, <1>14
  <2>3. IF p[k0.pc].op = "p2p" THEN name.between # <<>>
        ELSE /\ name.between = <<>> /\ name.n = Done(p, k0.pc) + 1
             /\ \E c \in k0.comms : c.key = Device /\ c.id = name.id
             /\ Key(r) = Device
    BY <1>1, <1>3, <2>1, <2>2, NameN DEF NInv, name
  <2>4. p[k0.pc].op = "p2p" => one.kind = <<"p2p">>
    BY <1>2, <1>6, <1>14, RankFacts DEF WellGrouped, NInv
  <2>5. NumOK(p, l)
    <3>1. Named(p, k0.pc, k0.comms, name, one)
      BY <1>2, <1>6, <2>3, <2>4 DEF Named
    <3>2. After(k, l, name, one)
      BY <1>12 DEF After, i, group, issued
    <3>3. Prog(p) /\ k0.pc \in DOMAIN p /\ IsFiniteSet(k0.issued)
          /\ (InGroup(p, k0.pc) <=> k0.groups # 0)
      BY <1>2, <1>3
    <3>. QED BY <2>1, <2>2, <3>1, <3>2, <3>3, IssuedNum
  <2>. DEFINE n == Done(p, k0.pc)
              m == Done(p, i)
  <2>6. /\ n \in Nat /\ m \in Nat /\ n <= m
        /\ Numbered(p, k0.pc) => m = n + 1
        /\ k.seqCollective = Number(p, IF Numbered(p, k0.pc) THEN n + 1 ELSE n)
    <3>1. k.pc = k0.pc /\ i = k0.pc + 1
      BY <2>2 DEF i, Ready
    <3>2. k.seqCollective = Number(p, IF Numbered(p, k0.pc) THEN n + 1 ELSE n)
      BY <2>2, <3>1 DEF Ready
    <3>3. m = (IF Numbered(p, k0.pc) THEN n + 1 ELSE n) /\ n \in Nat
      BY <1>2, <3>1, DoneNext
    <3>. QED BY <3>2, <3>3
  <2>. HIDE DEF n
  <2>7. LogOK(p, m, D)
    <3>1. Op(r).op # "p2p" => /\ name.between = <<>> /\ name.n \in 1..m
                              /\ k.seqCollective = Number(p, name.n)
      BY <1>2, <2>2, <2>3, <2>6 DEF n
    <3>2. LogOK(p, m, Event({name}, Op(r).op = "p2p", k))
      BY <3>1, EventOK
    <3>. QED BY <3>2, LogFacts
  <2>. HIDE DEF m
  <2>8. \A t \in Streams : LogOK(p, m, stream[r][t])
    BY <2>1, <2>6, EventsGrow DEF EventsOK, n
  <2>9. PICK a, b, c, d, e \in Seq(Items) :
          a = stream[r][s] /\ b = A /\ c = B /\ d = C /\ e = D
    BY <1>7, <1>8, <1>11
  <2>. HIDE DEF B, C, D
  <2>10. log = (((a \o b) \o c) \o d) \o e
    BY <2>9
  <2>11. LogOK(p, m, a) /\ LogOK(p, m, b) /\ LogOK(p, m, c) /\ LogOK(p, m, d) /\ LogOK(p, m, e)
    BY <1>4, <1>7, <1>11, <2>7, <2>8, <2>9
  <2>12. (a \o b) \in Seq(Items) /\ LogOK(p, m, a \o b)
    BY <2>11, ConcatOK
  <2>13. ((a \o b) \o c) \in Seq(Items) /\ LogOK(p, m, (a \o b) \o c)
    BY <2>11, <2>12, ConcatOK
  <2>14. (((a \o b) \o c) \o d) \in Seq(Items) /\ LogOK(p, m, ((a \o b) \o c) \o d)
    BY <2>11, <2>13, ConcatOK
  <2>15. LogOK(p, m, (((a \o b) \o c) \o d) \o e)
    BY <2>11, <2>14, ConcatOK
  <2>. HIDE DEF log
  <2>16. \A t \in Streams : LogOK(p, m, stream'[r][t])
    BY <1>13, <2>8, <2>10, <2>15
  <2>. QED BY <2>5, <2>16 DEF EventsOK, m
<1>. QED BY <1>12, <1>13, <1>14, NumStep

LEMMA IssueN ==
  ASSUME NInv, WInv', NEW r \in Ranks, Issue(r)
  PROVE  NInv'
<1>1. PICK p, k0, k : p = config.program[r] /\ k0 = rank[r] /\ k = Coalesced(r)
  OBVIOUS
<1>2. /\ k0.at = "issue" /\ k0.pc <= Len(p) /\ k0.pc \in DOMAIN p /\ Op(r) = p[k0.pc]
      /\ Prog(p) /\ (InGroup(p, k0.pc) <=> k0.groups # 0)
      /\ (Fitting => WellGrouped(p)) /\ config' = config /\ Issued(r, k)
  BY <1>1, RankFacts DEF NInv, Issue, At
<1>3. HasComm(r) /\ Types
  BY <1>1, <1>2 DEF NInv, WInv, IInv, RanksOK, PlaceOK
<1>4. PICK sort : sort = (IF Op(r).op = "p2p" THEN "p2p" ELSE "coll")
  OBVIOUS
<1>5. /\ k \in RankRecords /\ k.pc = k0.pc
      /\ k.groups = k0.groups /\ k.group = k0.group /\ k.comms = k0.comms
      /\ k.issued = k0.issued
      /\ IF "active" \notin k0.coalescing
         THEN k.coalescing = k0.coalescing /\ k.seqCollective = k0.seqCollective
         ELSE /\ k.coalescing = k0.coalescing \cup {sort}
              /\ k.seqCollective =
                   IF sort = "coll" /\ sort \notin k0.coalescing /\ Op(r).op # "coalesced"
                   THEN k0.seqCollective + 1 ELSE k0.seqCollective
  BY <1>1, <1>3, <1>4, CoalescedN
<1>6. ASSUME Fitting
      PROVE  Ready(p, k0, k) /\ (Numbered(p, k0.pc) \/ p[k0.pc].op = "p2p")
  <2>1. NumOK(p, k0)
    BY <1>1, <1>6 DEF NInv
  <2>2. Op(r) = p[k0.pc]
    BY <1>2
  <2>3. sort = (IF p[k0.pc].op = "p2p" THEN "p2p" ELSE "coll")
    BY <1>4, <2>2
  <2>4. IF "active" \notin k0.coalescing
        THEN k.coalescing = k0.coalescing /\ k.seqCollective = k0.seqCollective
        ELSE /\ k.coalescing = k0.coalescing \cup {sort}
             /\ k.seqCollective =
                  IF sort = "coll" /\ sort \notin k0.coalescing /\ p[k0.pc].op # "coalesced"
                  THEN k0.seqCollective + 1 ELSE k0.seqCollective
    BY <1>5, <2>2
  <2>5. WellGrouped(p)
    BY <1>2, <1>6
  <2>6. /\ Prog(p) /\ k0.pc \in DOMAIN p /\ k0.at = "issue"
        /\ (InGroup(p, k0.pc) <=> k0.groups # 0)
        /\ k.pc = k0.pc /\ k.groups = k0.groups /\ k.group = k0.group /\ k.comms = k0.comms
        /\ k.issued = k0.issued
    BY <1>2, <1>5
  <2>. QED BY ONLY <2>1, <2>3, <2>4, <2>5, <2>6, IssueReady
<1>. QED BY <1>1, <1>2, <1>5, <1>6, IssuedN

LEMMA IssueAllToAllvN ==
  ASSUME NInv, WInv', NEW r \in Ranks, IssueAllToAllv(r)
  PROVE  NInv'
<1>1. PICK p, k : p = config.program[r] /\ k = rank[r]
  OBVIOUS
<1>2. /\ k.at = "offsets" /\ k.pc <= Len(p) /\ k.pc \in DOMAIN p
      /\ Prog(p) /\ config' = config /\ Issued(r, k) /\ k \in RankRecords
  BY <1>1, RankFacts DEF NInv, IssueAllToAllv, At
<1>3. ASSUME Fitting PROVE Ready(p, k, k) /\ Numbered(p, k.pc)
  <2>1. NumOK(p, k)
    BY <1>1, <1>3 DEF NInv
  <2>2. Numbered(p, k.pc)
    BY <1>2, <2>1 DEF NumOK, CoalescingOK, Numbered
  <2>. QED BY <1>2, <2>1, <2>2, OffsetsReady
<1>. QED BY <1>1, <1>2, <1>3, IssuedN

LEMMA InitNInv == Init => NInv
<1>. SUFFICES ASSUME Init PROVE NInv
  OBVIOUS
<1>1. WInv
  BY InitWInv
<1>2. ASSUME NEW r \in Ranks, NEW p, p = config.program[r]
      PROVE  NumOK(p, rank[r]) /\ EventsOK(p, Done(p, rank[r].pc), stream[r])
  <2>. DEFINE k == rank[r]
  <2>1. /\ k.pc = 1 /\ k.at = "call" /\ k.seqCollective = 0 /\ k.coalescing = {}
        /\ k.groups = 0 /\ k.comms = {} /\ k.group = {} /\ k.issued = {}
        /\ \A s \in Streams : stream[r][s] = <<>>
    BY DEF Init
  <2>2. Done(p, 1) = 0
    <3>1. Colls(p, 1 - 1) = {}
      BY DEF Colls
    <3>. QED BY <3>1, FS_EmptySet DEF Done
  <2>3. Number(p, 0) = 0
    <3>1. {m \in 1..0 : Takes(p, m)} = {}
      OBVIOUS
    <3>. QED BY <3>1, FS_EmptySet DEF Number
  <2>4. ~Joins(p, 1)
    <3>1. 1..(1 - 1) = {}
      OBVIOUS
    <3>. QED BY <3>1 DEF Joins
  <2>. HIDE DEF k
  <2>5. SeqOK(p, k)
    BY <2>1, <2>2, <2>3 DEF SeqOK
  <2>6. CoalescingOK(p, k) /\ GroupOK(p, k)
    BY <2>1, <2>4 DEF CoalescingOK, GroupOK
  <2>7. IssuedOK(p, k)
    <3>1. Singles(k) = {}
      BY <2>1 DEF Singles
    <3>2. Reaches(p, 0)
      BY DEF Reaches
    <3>. QED BY <2>1, <2>2, <3>1, <3>2, FS_EmptySet DEF IssuedOK
  <2>8. EventsOK(p, Done(p, k.pc), stream[r])
    BY <2>1, LogFacts DEF EventsOK
  <2>. QED BY <2>5, <2>6, <2>7, <2>8 DEF NumOK, k
<1>. QED BY <1>1, <1>2 DEF NInv

LEMMA NextNInv == NInv /\ [Next]_vars => NInv'
<1>. SUFFICES ASSUME NInv, [Next]_vars PROVE NInv'
  OBVIOUS
<1>1. WInv'
  BY NextWInv DEF NInv
<1>2. CASE UNCHANGED <<config, rank, stream>>
  BY <1>1, <1>2 DEF NInv
<1>3. ASSUME NEW r \in Ranks, Step(r) PROVE NInv'
  BY <1>1, <1>3, BeginN, QuietN, LaunchN, IssueN, PublishN, IssueAllToAllvN, StartN, EndN
     DEF Step
<1>4. ASSUME NEW r \in Ranks, NEW s \in Streams, Run(r, s)
      PROVE  UNCHANGED <<config, rank, stream>>
  BY <1>4 DEF Run
<1>5. ASSUME NEW r \in Ranks, Fail(r) PROVE NInv'
  BY <1>1, <1>5, QuietN
<1>. QED BY <1>2, <1>3, <1>4, <1>5 DEF Next, vars

\* Two ranks number the collectives alike.
LEMMA SameNumbers ==
  ASSUME NEW c \in Configs, Fitting, NEW r \in Ranks, NEW q \in Ranks, NEW n,
         Reaches(c.program[r], n), Reaches(c.program[q], n)
  PROVE  Number(c.program[r], n) = Number(c.program[q], n)
<1>1. ASSUME NEW x \in Ranks, NEW y \in Ranks, NEW m \in 1..n, Takes(c.program[x], m),
             Reaches(c.program[y], n)
      PROVE  Takes(c.program[y], m)
  <2>1. PICK i \in DOMAIN c.program[x] : Nth(c.program[x], i, m) /\ ~Joins(c.program[x], i)
    BY <1>1 DEF Takes
  <2>2. PICK j \in DOMAIN c.program[y] : Nth(c.program[y], j, m)
    BY <1>1 DEF Reaches
  <2>3. SameCollectives(c)
    BY DEF Fitting
  <2>4. ~Joins(c.program[y], j)
    BY <2>1, <2>2, <2>3 DEF SameCollectives, Nth
  <2>. QED BY <2>2, <2>4 DEF Takes
<1>2. \A m \in 1..n : Takes(c.program[r], m) <=> Takes(c.program[q], m)
  BY <1>1
<1>3. {m \in 1..n : Takes(c.program[r], m)} = {m \in 1..n : Takes(c.program[q], m)}
  BY <1>2
<1>. QED BY <1>3 DEF Number

LEMMA NInvAgree ==
  ASSUME Fitting, NInv
  PROVE  CollectivesAgree
<1>1. config \in Configs /\ rank \in [Ranks -> RankRecords]
  BY DEF NInv, WInv, IInv, Types
<1>2. SameCollectives(config)
  BY <1>1 DEF Fitting
<1>3. ASSUME NEW r \in Ranks, NEW q \in Ranks,
             NEW o \in rank[r].issued, NEW x \in rank[q].issued, o.name = x.name
      PROVE  o.kind = x.kind
  <2>1. IssuedOK(config.program[r], rank[r]) /\ IssuedOK(config.program[q], rank[q])
    BY DEF NInv, NumOK
  <2>2. CASE o.name.between # <<>>
    BY <1>3, <2>1, <2>2 DEF IssuedOK
  <2>3. CASE o.name.between = <<>>
    <3>1. PICK i \in DOMAIN config.program[r] :
            Nth(config.program[r], i, o.name.n) /\ o.kind = config.program[r][i].kind
      BY <2>1, <2>3 DEF IssuedOK
    <3>2. PICK j \in DOMAIN config.program[q] :
            Nth(config.program[q], j, x.name.n) /\ x.kind = config.program[q][j].kind
      BY <1>3, <2>1, <2>3 DEF IssuedOK
    <3>. QED BY <1>2, <1>3, <3>1, <3>2 DEF SameCollectives, Nth
  <2>. QED BY <2>2, <2>3
<1>4. ASSUME NEW r \in Ranks, NEW x \in Events(r), Len(x.seq) = 2, NEW name \in x.ops
      PROVE  /\ x.seq = <<Number(config.program[r], name.n), "coll">>
             /\ Reaches(config.program[r], name.n)
  <2>. DEFINE p == config.program[r]
              n == Done(p, rank[r].pc)
  <2>1. PICK s \in Streams : x \in ToSet(stream[r][s]) /\ x.item = "event"
    BY DEF Events
  <2>2. EventsOK(p, n, stream[r]) /\ IssuedOK(p, rank[r])
    BY DEF NInv, NumOK
  <2>3. n \in Nat
    BY RankFacts DEF NInv
  <2>. HIDE DEF n, p
  <2>4. name.n \in 1..n /\ x.seq = <<Number(p, name.n), "coll">>
    BY <1>4, <2>1, <2>2 DEF EventsOK, LogOK, ItemOK
  <2>5. Reaches(p, n)
    BY <2>2 DEF IssuedOK, n
  <2>6. Reaches(p, name.n)
    <3>1. 1..name.n \subseteq 1..n
      BY <2>3, <2>4
    <3>. QED BY <2>5, <3>1 DEF Reaches
  <2>. QED BY <2>4, <2>6 DEF p
<1>5. ASSUME NEW r \in Ranks, NEW q \in Ranks, NEW x \in Events(r), NEW y \in Events(q),
             Len(x.seq) = 2, Len(y.seq) = 2, x.ops \cap y.ops # {}
      PROVE  x.seq = y.seq
  <2>1. PICK name : name \in x.ops /\ name \in y.ops
    BY <1>5
  <2>2. /\ x.seq = <<Number(config.program[r], name.n), "coll">>
        /\ Reaches(config.program[r], name.n)
    BY <1>4, <1>5, <2>1
  <2>3. /\ y.seq = <<Number(config.program[q], name.n), "coll">>
        /\ Reaches(config.program[q], name.n)
    BY <1>4, <1>5, <2>1
  <2>. QED BY <1>1, <2>2, <2>3, SameNumbers
<1>. QED BY <1>3, <1>5 DEF CollectivesAgree

\* The works of one collective have the same sequence number on all ranks, if the
\* programs fit together.
THEOREM CollectivesAgreeHolds ==
  ASSUME Fitting
  PROVE  Spec => []CollectivesAgree
<1>1. NInv => CollectivesAgree
  BY NInvAgree
<1>. QED BY <1>1, InitNInv, NextNInv, PTL DEF Spec

----------------------------------------------------------------------------
(* The communicator of all ranks has one id, and offsets have one writer *)

\* Rank 0 has published id as the first one of the communicators of all ranks.
First == <<0>>
FirstId(id) == \E e \in store : e.key = First /\ e.value = id

\* A key has one value, and rank 0, the only one that counts the keys it writes, has
\* counted the first.
KeysOK ==
  /\ \A d, e \in store : d.key = e.key => d = e
  /\ (\E e \in store : e.key = First) => rank[0].mcclCommCounter > 0

\* A rank that has, or is about to have, a communicator of all ranks found the first
\* id; until then it has not counted.
Creates(k) == k.at \in {"get", "join", "create"}
FirstOK(r) ==
  LET k == rank[r]
  IN  /\ \A c \in k.comms : c.key = Device => FirstId(c.id)
      /\ (\A c \in k.comms : c.key # Device) =>
           /\ k.at # "failed" /\ (Creates(k) => Key(r) # Device) => k.mcclCommCounter = 0
           /\ Key(r) = Device => /\ k.at = "get" => k.id = First
                                 /\ k.at \in {"join", "create"} => FirstId(k.id)

FInv == IInv /\ KeysOK /\ \A r \in Ranks : FirstOK(r)

\* Between two all_to_allv calls of a program, or at the second, a number is taken: no
\* group has two of them.
Apart(p) ==
  \A i, j \in DOMAIN p : i < j /\ p[i].op = "alltoallv" /\ p[j].op = "alltoallv" =>
    \E l \in (i + 1)..j : Numbered(p, l) /\ ~Joins(p, l)
OneAllToAllv == \A c \in Configs : \A r \in Ranks : Apart(c.program[r])

\* The n-th collective of the program is an all_to_allv.
IsAllToAllv(p, n) ==
  Reaches(p, n) /\ \E i \in DOMAIN p : Nth(p, i, n) /\ p[i].op = "alltoallv"

Triples == Nat \X Nat \X Nat

\* Offsets are those of a call, under the number of that call.
OffsetOK(e) ==
  \E q \in Ranks, n \in Nat, id \in Ids :
    /\ IsAllToAllv(config.program[q], n) /\ FirstId(id)
    /\ e.key = <<config.uid[q], Number(config.program[q], n) + 1, q>>
    /\ e.value = [id |-> id, between |-> <<>>, n |-> n]

OInv ==
  /\ NInv /\ FInv
  /\ Fitting => \A e \in store : e.key \in Triples => OffsetOK(e)
  /\ Fitting /\ OneAllToAllv => OffsetsMatch

----------------------------------------------------------------------------
(* The first id *)

LEMMA FirstFacts ==
  /\ First \in Counts /\ First \notin Pairs /\ First \notin Triples
  /\ \A n \in Nat : <<n>> = First => n = 0
<1>1. First \in Counts /\ \A n \in Nat : <<n>> = First => n = 0
  BY DEF First, Counts
<1>. QED BY <1>1, CountFacts DEF Triples

\* The first id stays, and other ranks rely on nothing else.
LEMMA FirstStep ==
  ASSUME FInv, IInv', NEW r \in Ranks, config' = config,
         \A q \in Ranks : q # r => rank'[q] = rank[q],
         \A e \in store : e.key = First => e \in store', KeysOK', FirstOK(r)'
  PROVE  FInv'
<1>1. ASSUME NEW id, FirstId(id) PROVE FirstId(id)'
  BY <1>1 DEF FirstId
<1>2. ASSUME NEW q \in Ranks PROVE FirstOK(q)'
  <2>1. CASE q = r
    BY <2>1
  <2>2. CASE q # r
    <3>1. rank'[q] = rank[q] /\ Key(q)' = Key(q)
      BY <2>2, RankKept
    <3>2. FirstOK(q)
      BY DEF FInv
    <3>3. (Creates(rank[q]) => Key(q) # Device)' <=> (Creates(rank[q]) => Key(q) # Device)
      BY <3>1 DEF Creates
    <3>. QED BY <1>1, <3>1, <3>2, <3>3 DEF FirstOK
  <2>. QED BY <2>1, <2>2
<1>. QED BY <1>2 DEF FInv

\* A step that creates no communicator.
Calm(r) ==
  /\ config' = config /\ \A q \in Ranks : q # r => rank'[q] = rank[q]
  /\ rank'[r].comms = rank[r].comms
  /\ rank'[r].mcclCommCounter = rank[r].mcclCommCounter
  /\ \/ rank'[r].at = "failed"
     \/ /\ ~Creates(rank[r]) /\ rank[r].at # "failed"
        /\ ~Creates(rank'[r])

LEMMA CalmFirst ==
  ASSUME FInv, NEW r \in Ranks, Calm(r), \A e \in store : e.key = First => e \in store'
  PROVE  FirstOK(r)'
<1>1. ASSUME NEW id, FirstId(id) PROVE FirstId(id)'
  BY <1>1 DEF FirstId
<1>2. FirstOK(r)
  BY DEF FInv
<1>3. \A c \in rank'[r].comms : c.key = Device => FirstId(c.id)'
  BY <1>1, <1>2 DEF FirstOK, Calm
<1>4. CASE rank'[r].at = "failed"
  BY <1>3, <1>4 DEF FirstOK
<1>5. CASE rank'[r].at # "failed"
  <2>1. ~Creates(rank[r]) /\ rank[r].at # "failed" /\ ~Creates(rank'[r])
    BY <1>5 DEF Calm
  <2>2. rank'[r].at \notin {"get", "join", "create"}
    BY <2>1 DEF Creates
  <2>3. (\A c \in rank[r].comms : c.key # Device) => rank[r].mcclCommCounter = 0
    BY <1>2, <2>1 DEF FirstOK
  <2>4. rank'[r].comms = rank[r].comms /\ rank'[r].mcclCommCounter = rank[r].mcclCommCounter
    BY DEF Calm
  <2>. QED BY <1>3, <2>2, <2>3, <2>4 DEF FirstOK
<1>. QED BY <1>4, <1>5

LEMMA CalmStep ==
  ASSUME FInv, IInv', NEW r \in Ranks, Calm(r), store' = store
  PROVE  FInv'
<1>1. FirstOK(r)'
  BY CalmFirst
<1>2. rank'[0].mcclCommCounter = rank[0].mcclCommCounter
  <2>1. 0 \in Ranks
    BY RanksNat
  <2>. QED BY <2>1 DEF Calm
<1>3. KeysOK'
  BY <1>2 DEF FInv, KeysOK
<1>. QED BY <1>1, <1>3, FirstStep DEF Calm

LEMMA IssuedKeeps ==
  ASSUME Types, NEW r \in Ranks, NEW k \in RankRecords, Issued(r, k)
  PROVE  /\ \A q \in Ranks : q # r => rank'[q] = rank[q]
         /\ rank'[r].comms = k.comms /\ rank'[r].mcclCommCounter = k.mcclCommCounter
         /\ rank'[r].mixed = k.mixed /\ rank'[r].at = "call"
<1>. DEFINE s == IF Op(r).async THEN Key(r) ELSE Current
            name == Name(r)
            i == k.pc + 1
            queued == IF k.groups > 0 THEN Append(k.queued, [name |-> name, stream |-> s]) ELSE k.queued
            group == IF k.coalescing = {} THEN {} ELSE k.group \cup {name}
            issued == k.issued \cup {[name |-> name, kind |-> Op(r).kind]}
            l == [k EXCEPT !.pc = i, !.at = "call", !.queued = queued, !.group = group,
                           !.issued = issued]
<1>1. rank' = [rank EXCEPT ![r] = l]
  BY DEF Issued
<1>. HIDE DEF i, queued, group, issued
<1>2. l.comms = k.comms /\ l.mcclCommCounter = k.mcclCommCounter /\ l.mixed = k.mixed /\ l.at = "call"
  BY DEF RankRecords
<1>. HIDE DEF l
<1>. QED BY <1>1, <1>2 DEF Types

LEMMA CoalescedKeeps ==
  ASSUME Types, NEW r \in Ranks, NEW k, k = Coalesced(r)
  PROVE  k.mcclCommCounter = rank[r].mcclCommCounter /\ k.mixed = rank[r].mixed
<1>1. CASE "active" \notin rank[r].coalescing
  BY <1>1 DEF Coalesced
<1>2. CASE "active" \in rank[r].coalescing
  <2>. DEFINE sort == IF Op(r).op = "p2p" THEN "p2p" ELSE "coll"
              first == sort \notin rank[r].coalescing /\ Op(r).op # "coalesced"
              both == rank[r].coalescing \cup {sort}
              n == IF first /\ sort = "coll" THEN rank[r].seqCollective + 1 ELSE rank[r].seqCollective
              m == IF first /\ sort = "p2p" THEN rank[r].seqP2P + 1 ELSE rank[r].seqP2P
  <2>1. k = [rank[r] EXCEPT !.coalescing = both, !.coalescedComm = Comm(r),
                            !.seqCollective = n, !.seqP2P = m]
    BY <1>2 DEF Coalesced
  <2>2. rank[r] \in RankRecords
    BY DEF Types
  <2>. HIDE DEF both, n, m
  <2>. QED BY <2>1, <2>2 DEF RankRecords
<1>. QED BY <1>1, <1>2

LEMMA CalmSteps ==
  ASSUME IInv, NEW r \in Ranks
  PROVE  /\ \/ Begin(r) \/ Issue(r) \/ IssueAllToAllv(r) \/ Start(r) \/ End(r) \/ Synchronize(r)
            \/ Fail(r)
            => Calm(r) /\ store' = store /\ rank'[r].mixed = rank[r].mixed
         /\ PublishOffsets(r) => Calm(r) /\ rank'[r].mixed = rank[r].mixed
         /\ ReadOffsets(r) => Calm(r) /\ store' = store
<1>1. /\ Types /\ rank[r] \in RankRecords /\ rank \in [Ranks -> RankRecords]
      /\ PlaceOK(r)
  BY DEF IInv, Types, RanksOK
<1>2. ASSUME NEW k, rank' = [rank EXCEPT ![r] = k], config' = config,
             k.comms = rank[r].comms, k.mcclCommCounter = rank[r].mcclCommCounter,
             \/ k.at = "failed"
             \/ rank[r].at \in {"call", "issue", "offsets"} /\ ~Creates(k)
      PROVE  Calm(r) /\ rank'[r] = k
  <2>1. rank'[r] = k /\ \A q \in Ranks : q # r => rank'[q] = rank[q]
    BY <1>1, <1>2
  <2>. QED BY <1>2, <2>1 DEF Calm, Creates
<1>3. ASSUME Begin(r)
      PROVE  Calm(r) /\ store' = store /\ rank'[r].mixed = rank[r].mixed
  <2>. DEFINE at == IF HasComm(r) /\ Op(r).op # "connect" THEN "issue" ELSE "init"
              n == SeqCollective(r)
              m == SeqP2P(r)
              k == [rank[r] EXCEPT !.seqCollective = n, !.seqP2P = m, !.at = at]
  <2>1. /\ rank' = [rank EXCEPT ![r] = k] /\ config' = config /\ store' = store
        /\ rank[r].at = "call"
    BY <1>1, <1>3 DEF Begin, At
  <2>2. at \in {"issue", "init"}
    OBVIOUS
  <2>. HIDE DEF n, m, at
  <2>3. /\ k.comms = rank[r].comms /\ k.mcclCommCounter = rank[r].mcclCommCounter
        /\ k.mixed = rank[r].mixed /\ k.at = at
    BY <1>1 DEF RankRecords
  <2>. HIDE DEF k
  <2>4. ~Creates(k)
    BY <2>2, <2>3 DEF Creates
  <2>5. Calm(r) /\ rank'[r] = k
    BY <1>2, <2>1, <2>3, <2>4
  <2>. QED BY <2>1, <2>3, <2>5
<1>4. ASSUME NEW k \in RankRecords, Issued(r, k), config' = config, store' = store,
             k.comms = rank[r].comms, k.mcclCommCounter = rank[r].mcclCommCounter,
             k.mixed = rank[r].mixed, rank[r].at \in {"issue", "offsets"}
      PROVE  Calm(r) /\ rank'[r].mixed = rank[r].mixed
  BY <1>1, <1>4, IssuedKeeps DEF Calm, Creates
<1>5. ASSUME rank[r].at = "issue", NEW k, k = Coalesced(r)
      PROVE  /\ k \in RankRecords /\ k.comms = rank[r].comms
             /\ k.mcclCommCounter = rank[r].mcclCommCounter /\ k.mixed = rank[r].mixed
  <2>1. HasComm(r)
    BY <1>1, <1>5 DEF PlaceOK
  <2>. QED BY <1>1, <1>5, <2>1, CoalescedFacts, CoalescedKeeps
<1>6. ASSUME Issue(r)
      PROVE  Calm(r) /\ store' = store /\ rank'[r].mixed = rank[r].mixed
  <2>1. PICK k : k = Coalesced(r)
    OBVIOUS
  <2>2. Issued(r, k) /\ rank[r].at = "issue" /\ config' = config /\ store' = store
    BY <1>6, <2>1 DEF Issue, At
  <2>. QED BY <1>4, <1>5, <2>1, <2>2
<1>7. ASSUME IssueAllToAllv(r)
      PROVE  Calm(r) /\ store' = store /\ rank'[r].mixed = rank[r].mixed
  <2>1. Issued(r, rank[r]) /\ rank[r].at = "offsets" /\ config' = config /\ store' = store
    BY <1>7 DEF IssueAllToAllv, At
  <2>. QED BY <1>1, <1>4, <2>1
<1>8. ASSUME PublishOffsets(r)
      PROVE  Calm(r) /\ rank'[r].mixed = rank[r].mixed
  <2>1. PICK k : k = Coalesced(r)
    OBVIOUS
  <2>. DEFINE todo == Ranks \ {r}
              l == [k EXCEPT !.at = "offsets", !.todo = todo]
  <2>2. rank' = [rank EXCEPT ![r] = l] /\ rank[r].at = "issue" /\ config' = config
    BY <1>8, <2>1 DEF PublishOffsets, At
  <2>3. /\ k \in RankRecords /\ k.comms = rank[r].comms
        /\ k.mcclCommCounter = rank[r].mcclCommCounter /\ k.mixed = rank[r].mixed
    BY <1>5, <2>1, <2>2
  <2>. HIDE DEF todo
  <2>4. /\ l.comms = k.comms /\ l.mcclCommCounter = k.mcclCommCounter /\ l.mixed = k.mixed
        /\ l.at = "offsets"
    BY <2>3 DEF RankRecords
  <2>. HIDE DEF l
  <2>5. ~Creates(l)
    BY <2>4 DEF Creates
  <2>6. Calm(r) /\ rank'[r] = l
    BY <1>2, <2>2, <2>3, <2>4, <2>5
  <2>. QED BY <2>3, <2>4, <2>6
<1>9. ASSUME ReadOffsets(r)
      PROVE  Calm(r) /\ store' = store
  <2>1. PICK q \in rank[r].todo, e \in store :
          rank' = [rank EXCEPT ![r].todo = @ \ {q}, ![r].mixed = @ \/ e.value # Name(r)]
    BY <1>9 DEF ReadOffsets
  <2>. DEFINE todo == rank[r].todo \ {q}
              mixed == rank[r].mixed \/ e.value # Name(r)
              k == [rank[r] EXCEPT !.todo = todo, !.mixed = mixed]
  <2>2. rank' = [rank EXCEPT ![r] = k] /\ rank[r].at = "offsets" /\ config' = config
        /\ store' = store
    BY <1>1, <1>9, <2>1 DEF ReadOffsets, At
  <2>. HIDE DEF todo, mixed
  <2>3. /\ k.comms = rank[r].comms /\ k.mcclCommCounter = rank[r].mcclCommCounter
        /\ k.at = "offsets"
    BY <1>1, <2>2 DEF RankRecords
  <2>. HIDE DEF k
  <2>4. ~Creates(k)
    BY <2>3 DEF Creates
  <2>5. Calm(r) /\ rank'[r] = k
    BY <1>2, <2>2, <2>3, <2>4
  <2>. QED BY <2>2, <2>5
<1>10. ASSUME Start(r)
      PROVE  Calm(r) /\ store' = store /\ rank'[r].mixed = rank[r].mixed
  <2>. DEFINE both == rank[r].coalescing \cup {"active"}
              n == rank[r].groups + 1
              i == rank[r].pc + 1
              k == [rank[r] EXCEPT !.coalescedComm = NoComm, !.coalescing = both, !.groups = n,
                                   !.pc = i]
  <2>1. rank' = [rank EXCEPT ![r] = k] /\ rank[r].at = "call" /\ config' = config /\ store' = store
    BY <1>1, <1>10 DEF Start, At
  <2>. HIDE DEF both, n, i
  <2>2. /\ k.comms = rank[r].comms /\ k.mcclCommCounter = rank[r].mcclCommCounter
        /\ k.mixed = rank[r].mixed /\ k.at = "call"
    BY <1>1, <2>1 DEF RankRecords
  <2>. HIDE DEF k
  <2>3. ~Creates(k)
    BY <2>2 DEF Creates
  <2>4. Calm(r) /\ rank'[r] = k
    BY <1>2, <2>1, <2>2, <2>3
  <2>. QED BY <2>1, <2>2, <2>4
<1>11. ASSUME End(r)
      PROVE  Calm(r) /\ store' = store /\ rank'[r].mixed = rank[r].mixed
  <2>. DEFINE n == rank[r].groups - 1
              queued == IF rank[r].groups = 1 THEN <<>> ELSE rank[r].queued
              i == rank[r].pc + 1
              k == [rank[r] EXCEPT !.groups = n, !.coalescing = {}, !.coalescedComm = NoComm,
                                   !.group = {}, !.queued = queued, !.pc = i]
  <2>1. rank' = [rank EXCEPT ![r] = k] /\ rank[r].at = "call" /\ config' = config /\ store' = store
    BY <1>1, <1>11 DEF End, EndWith, At
  <2>. HIDE DEF n, queued, i
  <2>2. /\ k.comms = rank[r].comms /\ k.mcclCommCounter = rank[r].mcclCommCounter
        /\ k.mixed = rank[r].mixed /\ k.at = "call"
    BY <1>1, <2>1 DEF RankRecords
  <2>. HIDE DEF k
  <2>3. ~Creates(k)
    BY <2>2 DEF Creates
  <2>4. Calm(r) /\ rank'[r] = k
    BY <1>2, <2>1, <2>2, <2>3
  <2>. QED BY <2>1, <2>2, <2>4
<1>12. ASSUME Synchronize(r)
      PROVE  Calm(r) /\ store' = store /\ rank'[r].mixed = rank[r].mixed
  <2>. DEFINE i == rank[r].pc + 1
              k == [rank[r] EXCEPT !.pc = i]
  <2>1. rank' = [rank EXCEPT ![r] = k] /\ rank[r].at = "call" /\ config' = config /\ store' = store
    BY <1>1, <1>12 DEF Synchronize, At
  <2>. HIDE DEF i
  <2>2. /\ k.comms = rank[r].comms /\ k.mcclCommCounter = rank[r].mcclCommCounter
        /\ k.mixed = rank[r].mixed /\ k.at = "call"
    BY <1>1, <2>1 DEF RankRecords
  <2>. HIDE DEF k
  <2>3. ~Creates(k)
    BY <2>2 DEF Creates
  <2>4. Calm(r) /\ rank'[r] = k
    BY <1>2, <2>1, <2>2, <2>3
  <2>. QED BY <2>1, <2>2, <2>4
<1>13. ASSUME Fail(r)
      PROVE  Calm(r) /\ store' = store /\ rank'[r].mixed = rank[r].mixed
  <2>. DEFINE k == [rank[r] EXCEPT !.at = "failed"]
  <2>1. rank' = [rank EXCEPT ![r] = k] /\ config' = config /\ store' = store
    BY <1>1, <1>13 DEF Fail
  <2>2. /\ k.comms = rank[r].comms /\ k.mcclCommCounter = rank[r].mcclCommCounter
        /\ k.mixed = rank[r].mixed /\ k.at = "failed"
    BY <1>1 DEF RankRecords
  <2>. HIDE DEF k
  <2>3. Calm(r) /\ rank'[r] = k
    BY <1>2, <2>1, <2>2
  <2>. QED BY <2>1, <2>2, <2>3
<1>. QED BY <1>3, <1>6, <1>7, <1>8, <1>9, <1>10, <1>11, <1>12, <1>13

\* A step that leaves the first id and all offsets alone.
OffsetsKept ==
  /\ config' = config /\ \A q \in Ranks : rank'[q].mixed = rank[q].mixed
  /\ \A e \in store : e.key = First => e \in store'
  /\ \A e \in store' : e.key \in Triples => e \in store

LEMMA initMCCLCommFirst ==
  ASSUME FInv, IInv', NEW r \in Ranks, initMCCLComm(r)
  PROVE  FInv' /\ OffsetsKept
<1>1. PICK k : k = rank[r]
  OBVIOUS
<1>2. /\ k \in RankRecords /\ k.at = "init" /\ k.pc <= Len(config.program[r])
      /\ config' = config /\ rank \in [Ranks -> RankRecords] /\ k.mcclCommCounter \in Nat
  BY <1>1 DEF FInv, IInv, Types, initMCCLComm, At, RankRecords
<1>3. /\ ~singleP2POp(r) => Key(r) = Device
      /\ singleP2POp(r) => Key(r) \in Pairs /\ Key(r) # Device
      /\ storeKey(r) \in Counts \cup Pairs
  <2>1. FInv => IInv
    BY DEF FInv
  <2>2. At(r, "init")
    BY DEF initMCCLComm
  <2>. QED BY <1>1, <1>2, <2>1, <2>2, Creating, storeKeyFacts, PairFacts
<1>. DEFINE m == IF singleP2POp(r) THEN k.mcclCommCounter ELSE k.mcclCommCounter + 1
            alone == \A c \in k.comms : c.key # Device
<1>4. /\ alone => k.mcclCommCounter = 0
      /\ \A c \in k.comms : c.key = Device => FirstId(c.id)
  BY <1>1, <1>2 DEF FInv, FirstOK, Creates
\* What the three branches have in common.
<1>5. ASSUME NEW l, rank' = [rank EXCEPT ![r] = l], l.comms = k.comms, l.mixed = k.mixed,
             l.pc = k.pc, l.groups = k.groups, l.eager = k.eager,
             l.at \in {"get", "join"},
             singleP2POp(r) => l.mcclCommCounter = k.mcclCommCounter,
             \A e \in store : e.key = First => e \in store',
             \A e \in store' : e.key \in Triples => e \in store,
             KeysOK',
             alone /\ ~singleP2POp(r) => IF l.at = "get" THEN l.id = First ELSE FirstId(l.id)'
      PROVE  FInv' /\ OffsetsKept
  <2>1. rank'[r] = l /\ \A q \in Ranks : q # r => rank'[q] = rank[q]
    BY <1>2, <1>5
  <2>2. Key(r)' = Key(r)
    BY <1>1, <1>2, <1>5, <2>1, KeyKept
  <2>3. ASSUME NEW id, FirstId(id) PROVE FirstId(id)'
    BY <1>5, <2>3 DEF FirstId
  <2>4. FirstOK(r)'
    <3>1. \A c \in l.comms : c.key = Device => FirstId(c.id)'
      BY <1>4, <1>5, <2>3
    <3>2. ASSUME \A c \in l.comms : c.key # Device, Key(r) # Device PROVE l.mcclCommCounter = 0
      BY <1>3, <1>4, <1>5, <3>2
    <3>3. ASSUME \A c \in l.comms : c.key # Device, Key(r) = Device
          PROVE  /\ l.at = "get" => l.id = First
                 /\ l.at \in {"join", "create"} => FirstId(l.id)'
      BY <1>3, <1>5, <3>3
    <3>. HIDE DEF alone
    <3>. QED BY <1>5, <2>1, <2>2, <3>1, <3>2, <3>3 DEF FirstOK, Creates
  <2>5. FInv'
    BY <1>2, <1>5, <2>1, <2>4, FirstStep
  <2>6. \A q \in Ranks : rank'[q].mixed = rank[q].mixed
    BY <1>1, <1>5, <2>1
  <2>. QED BY <1>2, <1>5, <2>5, <2>6 DEF OffsetsKept
<1>6. ASSUME NEW l, rank' = [rank EXCEPT ![r] = l], l.mcclCommCounter \in {k.mcclCommCounter, m}
      PROVE  rank[0].mcclCommCounter > 0 => rank'[0].mcclCommCounter > 0
  <2>1. rank[0] \in RankRecords /\ rank[0].mcclCommCounter \in Nat
    BY <1>2, RanksNat DEF RankRecords
  <2>2. m >= k.mcclCommCounter
    BY <1>2
  <2>. HIDE DEF m
  <2>3. CASE r = 0
    <3>1. rank'[0] = l /\ k = rank[0]
      BY <1>1, <1>2, <1>6, <2>3
    <3>2. m \in Nat
      BY <1>2 DEF m
    <3>. QED BY <1>2, <1>6, <2>2, <3>1, <3>2
  <2>4. CASE r # 0
    <3>1. rank'[0] = rank[0]
      BY <1>2, <1>6, <2>4, RanksNat
    <3>. QED BY <3>1
  <2>. QED BY <2>3, <2>4
<1>7. CASE isSendRecvSelf(r)
  <2>. DEFINE id == Garbage(r)
              l == [k EXCEPT !.queued = <<>>, !.at = "join", !.id = id]
  <2>1. rank' = [rank EXCEPT ![r] = l] /\ store' = store /\ singleP2POp(r)
    BY <1>1, <1>2, <1>7 DEF initMCCLComm, isSendRecvSelf
  <2>. HIDE DEF id
  <2>2. /\ l.comms = k.comms /\ l.mixed = k.mixed /\ l.pc = k.pc /\ l.groups = k.groups
        /\ l.eager = k.eager /\ l.at = "join" /\ l.mcclCommCounter = k.mcclCommCounter
    BY <1>2 DEF RankRecords
  <2>. HIDE DEF l
  <2>3. KeysOK'
    BY <1>6, <2>1, <2>2 DEF FInv, KeysOK
  <2>. QED BY <1>5, <2>1, <2>2, <2>3
<1>8. CASE ~isSendRecvSelf(r) /\ Leader(r)
  <2>. DEFINE n == k.ids + 1
              id == <<r, n>>
              l0 == [k EXCEPT !.queued = <<>>, !.at = "join", !.id = id, !.ids = n,
                              !.mcclCommCounter = m]
              new == [key |-> storeKey(r), value |-> id]
  <2>1. /\ rank' = [rank EXCEPT ![r] = l0]
        /\ store' = {e \in store : e.key # storeKey(r)} \cup {new}
    BY <1>1, <1>2, <1>8 DEF initMCCLComm, Set
  <2>2. new.key = storeKey(r) /\ new.value = id
    OBVIOUS
  <2>. HIDE DEF id, m, n, new
  <2>3. PICK l : l = l0
    OBVIOUS
  <2>4. /\ l.comms = k.comms /\ l.mixed = k.mixed /\ l.pc = k.pc /\ l.groups = k.groups
        /\ l.eager = k.eager /\ l.at = "join" /\ l.mcclCommCounter = m /\ l.id = id
    BY <1>2, <2>3 DEF RankRecords
  <2>. HIDE DEF l0
  <2>5. storeKey(r) \notin Triples
    BY <1>3, CountFacts DEF Triples
  <2>6. storeKey(r) = First => ~singleP2POp(r) /\ r = 0 /\ k.mcclCommCounter = 0
    <3>1. singleP2POp(r) => storeKey(r) \in Pairs
      BY <1>3 DEF storeKey
    <3>2. ~singleP2POp(r) => storeKey(r) = <<k.mcclCommCounter>> /\ r = 0
      BY <1>1, <1>8 DEF storeKey, Leader
    <3>. QED BY <1>2, <3>1, <3>2, FirstFacts
  <2>7. \A e \in store : e.key = First => storeKey(r) # First
    <3>1. ASSUME NEW e \in store, e.key = First PROVE rank[0].mcclCommCounter > 0
      BY <3>1 DEF FInv, KeysOK
    <3>. QED BY <1>1, <1>2, <2>6, <3>1
  <2>8. \A e \in store : e.key = First => e \in store'
    BY <2>1, <2>7
  <2>9. \A e \in store' : e.key \in Triples => e \in store
    BY <2>1, <2>2, <2>5
  <2>10. KeysOK'
    <3>1. \A d, e \in store' : d.key = e.key => d = e
      BY <2>1, <2>2 DEF FInv, KeysOK
    <3>2. ASSUME NEW e \in store', e.key = First PROVE rank'[0].mcclCommCounter > 0
      <4>1. CASE e \in store
        BY <1>6, <2>1, <2>3, <2>4, <3>2, <4>1 DEF FInv, KeysOK
      <4>2. CASE e = new
        <5>1. ~singleP2POp(r) /\ r = 0
          BY <2>2, <2>6, <3>2, <4>2
        <5>2. m > 0
          BY <1>2, <5>1 DEF m
        <5>3. rank'[0] = l
          BY <1>2, <2>1, <2>3, <5>1
        <5>. QED BY <2>4, <5>2, <5>3
      <4>. QED BY <2>1, <4>1, <4>2
    <3>. QED BY <3>1, <3>2 DEF KeysOK
  <2>11. ASSUME alone, ~singleP2POp(r) PROVE FirstId(l.id)'
    <3>1. storeKey(r) = First
      BY <1>1, <1>4, <2>11 DEF storeKey, First
    <3>. QED BY <2>1, <2>2, <2>4, <3>1 DEF FirstId
  <2>12. singleP2POp(r) => m = k.mcclCommCounter
    BY DEF m
  <2>. HIDE DEF alone
  <2>. QED BY <1>5, <2>1, <2>3, <2>4, <2>8, <2>9, <2>10, <2>11, <2>12
<1>9. CASE ~isSendRecvSelf(r) /\ ~Leader(r)
  <2>. DEFINE id == storeKey(r)
              l == [k EXCEPT !.queued = <<>>, !.at = "get", !.id = id, !.mcclCommCounter = m]
  <2>1. rank' = [rank EXCEPT ![r] = l] /\ store' = store
    BY <1>1, <1>2, <1>9 DEF initMCCLComm
  <2>. HIDE DEF id, m
  <2>2. /\ l.comms = k.comms /\ l.mixed = k.mixed /\ l.pc = k.pc /\ l.groups = k.groups
        /\ l.eager = k.eager /\ l.at = "get" /\ l.mcclCommCounter = m /\ l.id = id
    BY <1>2 DEF RankRecords
  <2>. HIDE DEF l
  <2>3. KeysOK'
    BY <1>6, <2>1, <2>2 DEF FInv, KeysOK
  <2>4. alone /\ ~singleP2POp(r) => l.id = First
    BY <1>1, <1>4, <2>2 DEF storeKey, First, id
  <2>5. singleP2POp(r) => m = k.mcclCommCounter
    BY DEF m
  <2>. HIDE DEF alone
  <2>. QED BY <1>5, <2>1, <2>2, <2>3, <2>4, <2>5
<1>. QED BY <1>7, <1>8, <1>9

LEMMA GetIdFirst ==
  ASSUME FInv, IInv', NEW r \in Ranks, GetId(r)
  PROVE  FInv' /\ OffsetsKept
<1>1. PICK k : k = rank[r]
  OBVIOUS
<1>2. /\ k \in RankRecords /\ rank \in [Ranks -> RankRecords] /\ k.at = "get"
      /\ config' = config /\ store' = store
  BY <1>1 DEF FInv, IInv, Types, GetId, At
<1>3. PICK e \in store : e.key = k.id /\ rank' = [rank EXCEPT ![r].at = "join", ![r].id = e.value]
  BY <1>1 DEF GetId
<1>. DEFINE id == e.value
            l0 == [k EXCEPT !.at = "join", !.id = id]
<1>4. rank' = [rank EXCEPT ![r] = l0]
  BY <1>1, <1>2, <1>3
<1>. HIDE DEF id
<1>5. PICK l : l = l0
  OBVIOUS
<1>6. /\ l.comms = k.comms /\ l.mixed = k.mixed /\ l.pc = k.pc /\ l.groups = k.groups
      /\ l.eager = k.eager /\ l.at = "join" /\ l.mcclCommCounter = k.mcclCommCounter /\ l.id = id
  BY <1>2, <1>5 DEF RankRecords
<1>. HIDE DEF l0
<1>7. rank'[r] = l /\ \A q \in Ranks : q # r => rank'[q] = rank[q]
  BY <1>2, <1>4, <1>5
<1>8. Key(r)' = Key(r)
  BY <1>1, <1>2, <1>6, <1>7, KeyKept
<1>9. ASSUME NEW x, FirstId(x) PROVE FirstId(x)'
  BY <1>2, <1>9 DEF FirstId
<1>10. FirstOK(r)'
  <2>1. FirstOK(r)
    BY DEF FInv
  <2>2. k.id = First => FirstId(id)
    BY <1>3 DEF FirstId, id
  <2>3. (Creates(l) => Key(r) # Device) <=> (Creates(k) => Key(r) # Device)
    BY <1>2, <1>6 DEF Creates
  <2>4. ASSUME \A c \in l.comms : c.key # Device
        PROVE  /\ (Creates(l) => Key(r) # Device) => l.mcclCommCounter = 0
               /\ Key(r) = Device => FirstId(l.id)'
    BY <1>1, <1>2, <1>6, <1>9, <2>1, <2>2, <2>3, <2>4 DEF FirstOK
  <2>5. \A c \in l.comms : c.key = Device => FirstId(c.id)'
    BY <1>1, <1>6, <1>9, <2>1 DEF FirstOK
  <2>6. (Creates(rank[r]))' <=> Creates(l)
    BY <1>7 DEF Creates
  <2>. QED BY <1>6, <1>7, <1>8, <2>4, <2>5, <2>6 DEF FirstOK
<1>11. KeysOK'
  <2>1. rank'[0].mcclCommCounter = rank[0].mcclCommCounter
    BY <1>1, <1>6, <1>7, RanksNat
  <2>. QED BY <1>2, <2>1 DEF FInv, KeysOK
<1>12. \A q \in Ranks : rank'[q].mixed = rank[q].mixed
  BY <1>1, <1>6, <1>7
<1>13. FInv'
  BY <1>2, <1>7, <1>10, <1>11, FirstStep
<1>. QED BY <1>2, <1>12, <1>13 DEF OffsetsKept

LEMMA JoinFirst ==
  ASSUME FInv, IInv', NEW r \in Ranks, Join(r)
  PROVE  FInv' /\ OffsetsKept
<1>1. PICK k : k = rank[r]
  OBVIOUS
<1>2. /\ k \in RankRecords /\ rank \in [Ranks -> RankRecords] /\ k.at = "join"
      /\ config' = config /\ store' = store
  BY <1>1 DEF FInv, IInv, Types, Join, At
<1>3. PICK l : l = [k EXCEPT !.at = "create"]
  OBVIOUS
<1>4. rank' = [rank EXCEPT ![r] = l]
  BY <1>1, <1>2, <1>3 DEF Join
<1>5. /\ l.comms = k.comms /\ l.mixed = k.mixed /\ l.pc = k.pc /\ l.groups = k.groups
      /\ l.eager = k.eager /\ l.at = "create" /\ l.mcclCommCounter = k.mcclCommCounter /\ l.id = k.id
  BY <1>2, <1>3 DEF RankRecords
<1>6. rank'[r] = l /\ \A q \in Ranks : q # r => rank'[q] = rank[q]
  BY <1>2, <1>4
<1>7. Key(r)' = Key(r)
  BY <1>1, <1>2, <1>5, <1>6, KeyKept
<1>8. ASSUME NEW x, FirstId(x) PROVE FirstId(x)'
  BY <1>2, <1>8 DEF FirstId
<1>9. FirstOK(r)'
  <2>1. FirstOK(r)
    BY DEF FInv
  <2>2. (Creates(l) => Key(r) # Device) <=> (Creates(k) => Key(r) # Device)
    BY <1>2, <1>5 DEF Creates
  <2>3. ASSUME \A c \in l.comms : c.key # Device
        PROVE  /\ (Creates(l) => Key(r) # Device) => l.mcclCommCounter = 0
               /\ Key(r) = Device => FirstId(l.id)'
    BY <1>1, <1>2, <1>5, <1>8, <2>1, <2>2, <2>3 DEF FirstOK
  <2>4. \A c \in l.comms : c.key = Device => FirstId(c.id)'
    BY <1>1, <1>5, <1>8, <2>1 DEF FirstOK
  <2>5. (Creates(rank[r]))' <=> Creates(l)
    BY <1>6 DEF Creates
  <2>. QED BY <1>5, <1>6, <1>7, <2>3, <2>4, <2>5 DEF FirstOK
<1>10. KeysOK'
  <2>1. rank'[0].mcclCommCounter = rank[0].mcclCommCounter
    BY <1>1, <1>5, <1>6, RanksNat
  <2>. QED BY <1>2, <2>1 DEF FInv, KeysOK
<1>11. \A q \in Ranks : rank'[q].mixed = rank[q].mixed
  BY <1>1, <1>5, <1>6
<1>12. FInv'
  BY <1>2, <1>6, <1>9, <1>10, FirstStep
<1>. QED BY <1>2, <1>11, <1>12 DEF OffsetsKept

LEMMA CreateFirst ==
  ASSUME FInv, IInv', NEW r \in Ranks, Create(r)
  PROVE  FInv' /\ OffsetsKept
<1>1. PICK k : k = rank[r]
  OBVIOUS
<1>2. /\ k \in RankRecords /\ rank \in [Ranks -> RankRecords] /\ k.at = "create"
      /\ config' = config /\ store' = store
  BY <1>1 DEF FInv, IInv, Types, Create, At
<1>. DEFINE connect == Op(r).op = "connect"
            new == [key |-> Key(r), id |-> k.id]
            comms == IF HasComm(r) THEN k.comms ELSE k.comms \cup {new}
            at == IF connect THEN "call" ELSE "issue"
            i == IF connect THEN k.pc + 1 ELSE k.pc
            eager == k.eager \/ connect
            l0 == [k EXCEPT !.comms = comms, !.id = NoComm, !.at = at, !.pc = i, !.eager = eager]
<1>3. rank' = [rank EXCEPT ![r] = l0]
  BY <1>1, <1>2 DEF Create
<1>4. FirstOK(r)
  BY DEF FInv
<1>5. \A c \in comms : c.key = Device => FirstId(c.id)
  <2>1. \A c \in k.comms : c.key = Device => FirstId(c.id)
    BY <1>1, <1>4 DEF FirstOK
  <2>2. ASSUME ~HasComm(r), Key(r) = Device PROVE FirstId(k.id)
    <3>1. \A c \in k.comms : c.key # Device
      BY <1>1, <2>2 DEF HasComm
    <3>. QED BY <1>1, <1>2, <1>4, <2>2, <3>1 DEF FirstOK
  <2>. QED BY <2>1, <2>2
<1>6. (\A c \in comms : c.key # Device) => k.mcclCommCounter = 0
  <2>1. ASSUME \A c \in comms : c.key # Device
        PROVE  Key(r) # Device /\ \A c \in k.comms : c.key # Device
    <3>1. k.comms \subseteq comms /\ (~HasComm(r) => new \in comms) /\ new.key = Key(r)
      OBVIOUS
    <3>. HIDE DEF comms, new
    <3>2. \A c \in k.comms : c.key # Device
      BY <2>1, <3>1
    <3>3. HasComm(r) => Key(r) # Device
      BY <1>1, <3>2 DEF HasComm
    <3>. QED BY <2>1, <3>1, <3>2, <3>3
  <2>. HIDE DEF comms
  <2>. QED BY <1>1, <1>2, <1>4, <2>1 DEF FirstOK
<1>7. at \in {"call", "issue"}
  OBVIOUS
<1>8. PICK cs : cs = comms
  OBVIOUS
<1>. HIDE DEF comms, at, i, eager
<1>9. PICK l : l = l0
  OBVIOUS
<1>10. /\ l.comms = cs /\ l.mixed = k.mixed /\ l.at = at /\ l.mcclCommCounter = k.mcclCommCounter
  BY <1>2, <1>8, <1>9 DEF RankRecords
<1>. HIDE DEF l0
<1>11. rank'[r] = l /\ \A q \in Ranks : q # r => rank'[q] = rank[q]
  BY <1>2, <1>3, <1>9
<1>12. ASSUME NEW x, FirstId(x) PROVE FirstId(x)'
  BY <1>2, <1>12 DEF FirstId
<1>13. FirstOK(r)'
  <2>1. \A c \in l.comms : c.key = Device => FirstId(c.id)'
    BY <1>5, <1>8, <1>10, <1>12
  <2>2. (\A c \in l.comms : c.key # Device) => l.mcclCommCounter = 0
    BY <1>6, <1>8, <1>10
  <2>3. l.at \notin {"get", "join", "create"}
    BY <1>7, <1>10
  <2>. QED BY <1>11, <2>1, <2>2, <2>3 DEF FirstOK
<1>14. KeysOK'
  <2>1. rank'[0].mcclCommCounter = rank[0].mcclCommCounter
    BY <1>1, <1>10, <1>11, RanksNat
  <2>. QED BY <1>2, <2>1 DEF FInv, KeysOK
<1>15. \A q \in Ranks : rank'[q].mixed = rank[q].mixed
  BY <1>1, <1>10, <1>11
<1>16. FInv'
  BY <1>2, <1>11, <1>13, <1>14, FirstStep
<1>. QED BY <1>2, <1>15, <1>16 DEF OffsetsKept

----------------------------------------------------------------------------
(* Offsets *)

\* A number taken between two collectives tells them apart.
LEMMA NumberGrows ==
  ASSUME NEW p, Prog(p), NEW i, NEW j, NEW n, NEW m, Nth(p, i, n), Nth(p, j, m), i < j,
         NEW l \in (i + 1)..j, Numbered(p, l), ~Joins(p, l)
  PROVE  Number(p, n) < Number(p, m)
<1>. DEFINE x == Cardinality(Colls(p, l))
            S == {y \in 1..n : Takes(p, y)}
            T == {y \in 1..m : Takes(p, y)}
<1>1. i \in Nat \ {0} /\ j \in Nat \ {0} /\ n \in Nat /\ m \in Nat /\ j \in DOMAIN p
  BY NthOrder DEF Nth
<1>2. l \in DOMAIN p /\ i < l /\ l <= j
  BY <1>1 DEF Prog
<1>3. Nth(p, l, x)
  BY <1>2 DEF Nth
<1>. HIDE DEF x
<1>4. n < x /\ x \in Nat /\ x > 0
  BY <1>2, <1>3, NthOrder
<1>5. x <= m
  <2>1. CASE l = j
    <3>1. x = m
      BY <1>3, <2>1 DEF Nth
    <3>. QED BY <1>1, <3>1
  <2>2. CASE l < j
    <3>1. x < m
      BY <1>3, <2>2, NthOrder
    <3>. QED BY <1>1, <1>4, <3>1
  <2>. QED BY <1>1, <1>2, <2>1, <2>2
<1>6. Takes(p, x)
  BY <1>2, <1>3 DEF Takes
<1>7. S \cup {x} \subseteq T /\ x \notin S
  BY <1>1, <1>4, <1>5, <1>6
<1>8. IsFiniteSet(S) /\ IsFiniteSet(T) /\ Number(p, n) = Cardinality(S)
      /\ Number(p, m) = Cardinality(T) /\ Number(p, n) \in Nat /\ Number(p, m) \in Nat
  BY <1>1, NumberFacts DEF Number
<1>9. Cardinality(S \cup {x}) = Cardinality(S) + 1
  BY <1>7, <1>8, FS_AddElement
<1>10. Cardinality(S \cup {x}) <= Cardinality(T)
  BY <1>7, <1>8, FS_Subset
<1>. QED BY <1>8, <1>9, <1>10

LEMMA NumberTells ==
  ASSUME NEW p, Prog(p), Apart(p), NEW n, NEW m, IsAllToAllv(p, n), IsAllToAllv(p, m),
         Number(p, n) = Number(p, m)
  PROVE  n = m
<1>1. ASSUME NEW a, NEW b, NEW i \in DOMAIN p, NEW j \in DOMAIN p, Nth(p, i, a), Nth(p, j, b),
             p[i].op = "alltoallv", p[j].op = "alltoallv", i < j
      PROVE  Number(p, a) < Number(p, b) /\ Number(p, a) \in Nat /\ Number(p, b) \in Nat
  <2>1. PICK l \in (i + 1)..j : Numbered(p, l) /\ ~Joins(p, l)
    BY <1>1 DEF Apart
  <2>2. a \in Nat /\ b \in Nat
    BY <1>1, NthOrder
  <2>. QED BY <1>1, <2>1, <2>2, NumberGrows, NumberFacts
<1>2. PICK i \in DOMAIN p : Nth(p, i, n) /\ p[i].op = "alltoallv"
  BY DEF IsAllToAllv
<1>3. PICK j \in DOMAIN p : Nth(p, j, m) /\ p[j].op = "alltoallv"
  BY DEF IsAllToAllv
<1>4. ASSUME i < j PROVE FALSE
  <2>1. Number(p, n) < Number(p, m) /\ Number(p, n) \in Nat
    BY <1>1, <1>2, <1>3, <1>4
  <2>. QED BY <2>1
<1>5. ASSUME j < i PROVE FALSE
  <2>1. Number(p, m) < Number(p, n) /\ Number(p, n) \in Nat
    BY <1>1, <1>2, <1>3, <1>5
  <2>. QED BY <2>1
<1>6. i \in Nat /\ j \in Nat
  BY DEF Prog
<1>7. i = j
  BY <1>4, <1>5, <1>6
<1>. QED BY <1>2, <1>3, <1>7 DEF Nth

\* Calls of two ranks with one number are the same collective.
LEMMA SameCall ==
  ASSUME Fitting, OneAllToAllv, NEW c \in Configs, NEW r \in Ranks, NEW q \in Ranks,
         NEW n \in Nat, NEW m \in Nat,
         IsAllToAllv(c.program[r], n), IsAllToAllv(c.program[q], m),
         Number(c.program[r], n) = Number(c.program[q], m)
  PROVE  n = m
<1>1. ASSUME NEW x \in Ranks, NEW y \in Ranks, NEW a \in Nat, NEW b \in Nat, a <= b,
             IsAllToAllv(c.program[x], a), IsAllToAllv(c.program[y], b),
             Number(c.program[x], a) = Number(c.program[y], b)
      PROVE  a = b
  <2>1. Prog(c.program[x]) /\ Prog(c.program[y])
    BY ConfigsAssumption DEF Prog, WellFormed
  <2>2. PICK i \in DOMAIN c.program[x] : Nth(c.program[x], i, a) /\ c.program[x][i].op = "alltoallv"
    BY <1>1 DEF IsAllToAllv
  <2>3. a > 0
    BY <2>1, <2>2, NthOrder
  <2>4. Reaches(c.program[y], a) /\ Reaches(c.program[x], a)
    <3>1. 1..a \subseteq 1..b
      BY <1>1
    <3>. QED BY <1>1, <3>1 DEF IsAllToAllv, Reaches
  <2>5. PICK j \in DOMAIN c.program[y] : Nth(c.program[y], j, a)
    BY <2>3, <2>4 DEF Reaches
  <2>6. c.program[y][j].op = "alltoallv"
    BY <2>2, <2>5 DEF Fitting, SameCollectives, Nth
  <2>7. IsAllToAllv(c.program[y], a)
    BY <2>4, <2>5, <2>6 DEF IsAllToAllv
  <2>8. Number(c.program[y], a) = Number(c.program[y], b)
    BY <1>1, <2>4, SameNumbers
  <2>9. Apart(c.program[y])
    BY DEF OneAllToAllv
  <2>. QED BY <1>1, <2>1, <2>7, <2>8, <2>9, NumberTells
<1>2. n <= m \/ m <= n
  OBVIOUS
<1>. QED BY <1>1, <1>2

\* What a rank publishes and compares with.
LEMMA OwnOffsets ==
  ASSUME Fitting, NInv, FInv, NEW r \in Ranks, NEW p, p = config.program[r],
         NEW k, k = rank[r], k.at \in {"issue", "offsets"}, k.pc <= Len(p),
         p[k.pc].op = "alltoallv"
  PROVE  \E n \in Nat, id \in Ids :
           /\ IsAllToAllv(p, n) /\ FirstId(id)
           /\ Name(r) = [id |-> id, between |-> <<>>, n |-> n]
           /\ Number(p, n) = IF Joins(p, k.pc) THEN Number(p, Done(p, k.pc))
                             ELSE Number(p, Done(p, k.pc)) + 1
<1>. DEFINE n == Done(p, k.pc) + 1
<1>1. /\ WInv /\ IInv /\ NumOK(p, k) /\ FirstOK(r) /\ HasComm(r)
  BY DEF NInv, FInv, WInv, IInv, RanksOK, PlaceOK
<1>2. /\ Prog(p) /\ k \in RankRecords /\ Done(p, k.pc) \in Nat
      /\ k.pc \in DOMAIN p /\ Op(r) = p[k.pc]
  BY <1>1, RankFacts
<1>3. Numbered(p, k.pc)
  BY DEF Numbered
<1>4. n \in Nat
  BY <1>2
<1>5. IsAllToAllv(p, n)
  <2>1. Nth(p, k.pc, n) /\ Reaches(p, n)
    BY <1>1, <1>2, <1>3, NumberNext DEF NumOK, IssuedOK
  <2>. HIDE DEF n
  <2>. QED BY <1>2, <2>1 DEF IsAllToAllv
<1>6. Number(p, n) = IF Joins(p, k.pc) THEN Number(p, Done(p, k.pc))
                     ELSE Number(p, Done(p, k.pc)) + 1
  BY <1>2, <1>3, NumberNext
<1>7. /\ Name(r).between = <<>> /\ Name(r).n = n
      /\ \E c \in k.comms : c.key = Device /\ c.id = Name(r).id
  BY <1>1, <1>3, NameN
<1>8. PICK id : id = Name(r).id
  OBVIOUS
<1>9. FirstId(id) /\ id \in Ids
  <2>1. PICK c \in k.comms : c.key = Device /\ c.id = id
    BY <1>7, <1>8
  <2>2. k.comms \subseteq [key : CommKeys, id : Ids]
    BY <1>2 DEF RankRecords
  <2>3. FirstId(c.id)
    BY <1>1, <2>1 DEF FirstOK
  <2>. QED BY <2>1, <2>2, <2>3
<1>10. Name(r) = [id |-> Name(r).id, between |-> Name(r).between, n |-> Name(r).n]
  BY DEF Name
<1>. HIDE DEF n
<1>11. Name(r) = [id |-> id, between |-> <<>>, n |-> n]
  BY <1>7, <1>8, <1>10
<1>. QED BY <1>4, <1>5, <1>6, <1>9, <1>11

----------------------------------------------------------------------------
(* Offsets through the steps of the ranks *)

LEMMA KeptO ==
  ASSUME OInv, NInv', FInv', OffsetsKept
  PROVE  OInv'
<1>1. ASSUME NEW id, FirstId(id) PROVE FirstId(id)'
  BY <1>1 DEF FirstId, OffsetsKept
<1>2. ASSUME NEW e, OffsetOK(e) PROVE OffsetOK(e)'
  BY <1>1, <1>2 DEF OffsetOK, OffsetsKept
<1>3. Fitting => \A e \in store' : e.key \in Triples => OffsetOK(e)'
  BY <1>2 DEF OInv, OffsetsKept
<1>4. OffsetsMatch => OffsetsMatch'
  BY DEF OffsetsMatch, OffsetsKept
<1>. QED BY <1>3, <1>4 DEF OInv

LEMMA CalmO ==
  ASSUME OInv, NInv', NEW r \in Ranks, Calm(r), store' = store,
         rank'[r].mixed = rank[r].mixed
  PROVE  OInv'
<1>1. FInv /\ IInv'
  BY DEF OInv, NInv, WInv
<1>2. FInv'
  BY <1>1, CalmStep
<1>3. OffsetsKept
  BY DEF OffsetsKept, Calm
<1>. QED BY <1>2, <1>3, KeptO

LEMMA PublishO ==
  ASSUME OInv, NInv', NEW r \in Ranks, PublishOffsets(r)
  PROVE  OInv'
<1>1. PICK p, k, key : p = config.program[r] /\ k = rank[r] /\ key = OffsetsKey(r, r, Coalesced(r))
  OBVIOUS
<1>2. /\ NInv /\ FInv /\ IInv /\ IInv' /\ WInv /\ WInv'
  BY DEF OInv, NInv, WInv
<1>3. Calm(r) /\ rank'[r].mixed = rank[r].mixed
  BY <1>2, CalmSteps
<1>4. /\ k.at = "issue" /\ k.pc <= Len(p) /\ k.pc \in DOMAIN p /\ p[k.pc].op = "alltoallv"
      /\ config' = config /\ k \in RankRecords /\ config \in Configs
  <2>1. k.at = "issue" /\ k.pc <= Len(p) /\ config' = config /\ Op(r).op = "alltoallv"
    BY <1>1 DEF PublishOffsets, At
  <2>. QED BY <1>1, <1>2, <2>1, RankFacts
<1>5. PICK new : new = [key |-> key, value |-> Name(r)]
  OBVIOUS
<1>6. store' = {e \in store : e.key # key} \cup {new}
  BY <1>1, <1>5 DEF PublishOffsets, Set
<1>7. /\ rank'[r].at = "offsets" /\ rank'[r].pc = k.pc
      /\ key = <<config.uid[r], rank'[r].seqCollective + 1, r>>
  <2>1. PICK l : l = Coalesced(r)
    OBVIOUS
  <2>2. l \in RankRecords /\ l.pc = k.pc
    <3>1. Types /\ HasComm(r)
      BY <1>1, <1>2, <1>4 DEF IInv, RanksOK, PlaceOK
    <3>. QED BY <1>1, <2>1, <3>1, CoalescedFacts
  <2>. DEFINE todo == Ranks \ {r}
  <2>3. rank'[r] = [l EXCEPT !.at = "offsets", !.todo = todo]
    BY <1>2, <2>1 DEF PublishOffsets, IInv, Types
  <2>. HIDE DEF todo
  <2>4. rank'[r].at = "offsets" /\ rank'[r].pc = l.pc /\ rank'[r].seqCollective = l.seqCollective
    BY <2>2, <2>3 DEF RankRecords
  <2>. QED BY <1>1, <2>1, <2>2, <2>4 DEF OffsetsKey
<1>8. key \in Triples
  <2>1. config.uid[r] \in Nat
    BY <1>4, ConfigsAssumption
  <2>2. rank'[r].seqCollective + 1 \in Nat
    <3>1. rank'[r] \in RankRecords
      BY <1>2 DEF IInv, Types
    <3>. QED BY <3>1 DEF RankRecords
  <2>. QED BY <1>7, <2>1, <2>2, RanksNat DEF Triples
<1>9. new.key = key /\ new.value = Name(r) /\ key # First
  BY <1>5, <1>8, FirstFacts
<1>10. \A e \in store : e.key = First => e \in store'
  BY <1>6, <1>9
<1>11. KeysOK'
  <2>1. \A d, e \in store' : d.key = e.key => d = e
    BY <1>2, <1>6, <1>9 DEF FInv, KeysOK
  <2>2. rank'[0].mcclCommCounter = rank[0].mcclCommCounter
    BY <1>3, RanksNat DEF Calm
  <2>3. \A e \in store' : e.key = First => e \in store
    BY <1>6, <1>9
  <2>. QED BY <1>2, <2>1, <2>2, <2>3 DEF FInv, KeysOK
<1>12. FInv'
  <2>1. FirstOK(r)'
    BY <1>2, <1>3, <1>10, CalmFirst
  <2>. QED BY <1>2, <1>3, <1>10, <1>11, <2>1, FirstStep DEF Calm
<1>13. ASSUME NEW id, FirstId(id) PROVE FirstId(id)'
  BY <1>10, <1>13 DEF FirstId
<1>14. ASSUME Fitting, NEW e \in store', e.key \in Triples PROVE OffsetOK(e)'
  <2>1. CASE e \in store
    <3>1. OffsetOK(e)
      BY <1>14, <2>1 DEF OInv
    <3>. QED BY <1>4, <1>13, <3>1 DEF OffsetOK
  <2>2. CASE e = new
    <3>1. PICK n \in Nat, id \in Ids :
            /\ IsAllToAllv(p, n) /\ FirstId(id)
            /\ Name(r) = [id |-> id, between |-> <<>>, n |-> n]
            /\ Number(p, n) = IF Joins(p, k.pc) THEN Number(p, Done(p, k.pc))
                              ELSE Number(p, Done(p, k.pc)) + 1
      BY <1>1, <1>2, <1>4, <1>14, OwnOffsets
    <3>2. NumOK(p, rank'[r])
      BY <1>1, <1>4, <1>14 DEF NInv
    <3>3. rank'[r].seqCollective = Number(p, n)
      BY <1>7, <3>1, <3>2 DEF NumOK, SeqOK
    <3>4. FirstId(id)'
      BY <1>13, <3>1
    <3>. QED BY <1>1, <1>4, <1>7, <1>9, <2>2, <3>1, <3>3, <3>4 DEF OffsetOK
  <2>. QED BY <1>6, <2>1, <2>2
<1>15. OffsetsMatch => OffsetsMatch'
  <2>1. \A q \in Ranks : rank'[q].mixed = rank[q].mixed
    BY <1>3 DEF Calm
  <2>. QED BY <2>1 DEF OffsetsMatch
<1>. QED BY <1>12, <1>14, <1>15 DEF OInv

LEMMA ReadO ==
  ASSUME OInv, NInv', NEW r \in Ranks, ReadOffsets(r)
  PROVE  OInv'
<1>1. PICK p, k : p = config.program[r] /\ k = rank[r]
  OBVIOUS
<1>2. NInv /\ FInv /\ IInv /\ IInv' /\ WInv
  BY DEF OInv, NInv, WInv
<1>3. Calm(r) /\ store' = store
  BY <1>2, CalmSteps
<1>4. FInv'
  BY <1>2, <1>3, CalmStep
<1>5. Fitting => \A e \in store' : e.key \in Triples => OffsetOK(e)'
  <2>1. ASSUME NEW e, OffsetOK(e) PROVE OffsetOK(e)'
    BY <1>3, <2>1 DEF OffsetOK, FirstId, Calm
  <2>. QED BY <1>3, <2>1 DEF OInv
<1>6. ASSUME Fitting, OneAllToAllv PROVE OffsetsMatch'
  <2>1. /\ k.at = "offsets" /\ k.pc <= Len(p) /\ k.pc \in DOMAIN p /\ k \in RankRecords
        /\ config \in Configs /\ NumOK(p, k)
    <3>1. k.at = "offsets" /\ k.pc <= Len(p)
      BY <1>1 DEF ReadOffsets, At
    <3>. QED BY <1>1, <1>2, <1>6, <3>1, RankFacts DEF NInv
  <2>2. p[k.pc].op = "alltoallv"
    BY <2>1 DEF NumOK, CoalescingOK
  <2>3. PICK n \in Nat, id \in Ids :
          /\ IsAllToAllv(p, n) /\ FirstId(id)
          /\ Name(r) = [id |-> id, between |-> <<>>, n |-> n]
          /\ Number(p, n) = IF Joins(p, k.pc) THEN Number(p, Done(p, k.pc))
                            ELSE Number(p, Done(p, k.pc)) + 1
    BY <1>1, <1>2, <1>6, <2>1, <2>2, OwnOffsets
  <2>4. k.seqCollective = Number(p, n)
    BY <2>1, <2>3 DEF NumOK, SeqOK
  <2>5. PICK q \in k.todo, e \in store :
          /\ e.key = OffsetsKey(r, q, k)
          /\ rank' = [rank EXCEPT ![r].todo = @ \ {q}, ![r].mixed = @ \/ e.value # Name(r)]
    BY <1>1 DEF ReadOffsets
  <2>6. e.key = <<config.uid[r], Number(p, n) + 1, q>> /\ e.key \in Triples /\ q \in Ranks
    <3>1. e.key = <<config.uid[r], Number(p, n) + 1, q>>
      BY <2>4, <2>5 DEF OffsetsKey
    <3>2. config.uid[r] \in Nat /\ k.seqCollective + 1 \in Nat /\ q \in Ranks
      BY <2>1, <2>5, ConfigsAssumption DEF RankRecords
    <3>. QED BY <2>4, <3>1, <3>2, RanksNat DEF Triples
  <2>7. OffsetOK(e)
    BY <1>6, <2>6 DEF OInv
  <2>8. PICK x \in Ranks, m \in Nat, jd \in Ids :
          /\ IsAllToAllv(config.program[x], m) /\ FirstId(jd)
          /\ e.key = <<config.uid[x], Number(config.program[x], m) + 1, x>>
          /\ e.value = [id |-> jd, between |-> <<>>, n |-> m]
    BY <2>7 DEF OffsetOK
  <2>9. Number(p, n) = Number(config.program[x], m)
    <3>1. Number(p, n) + 1 = Number(config.program[x], m) + 1
      BY <2>6, <2>8
    <3>2. Number(p, n) \in Nat /\ Number(config.program[x], m) \in Nat
      BY NumberFacts
    <3>. QED BY <3>1, <3>2
  <2>10. n = m
    BY <1>1, <1>6, <2>1, <2>3, <2>8, <2>9, SameCall
  <2>11. id = jd
    <3>1. \A d, f \in store : d.key = f.key => d = f
      BY <1>2 DEF FInv, KeysOK
    <3>. QED BY <2>3, <2>8, <3>1 DEF FirstId
  <2>12. e.value = Name(r)
    BY <2>3, <2>8, <2>10, <2>11
  <2>13. rank[r].mixed = FALSE /\ \A y \in Ranks : ~rank[y].mixed
    <3>1. OffsetsMatch /\ rank[r] \in RankRecords
      BY <1>1, <1>6, <2>1 DEF OInv
    <3>. QED BY <3>1 DEF OffsetsMatch, RankRecords
  <2>14. rank'[r].mixed = FALSE
    <3>. DEFINE todo == k.todo \ {q}
                mixed == rank[r].mixed \/ e.value # Name(r)
                l == [k EXCEPT !.todo = todo, !.mixed = mixed]
    <3>1. rank'[r] = l
      BY <1>1, <1>2, <2>5 DEF IInv, Types
    <3>2. mixed = FALSE
      BY <2>12, <2>13
    <3>. HIDE DEF todo, mixed
    <3>3. l.mixed = mixed
      BY <2>1 DEF RankRecords
    <3>. QED BY <3>1, <3>2, <3>3
  <2>. QED BY <1>3, <2>13, <2>14 DEF OffsetsMatch, Calm
<1>. QED BY <1>4, <1>5, <1>6 DEF OInv

LEMMA InitOInv == Init => OInv
<1>. SUFFICES ASSUME Init PROVE OInv
  OBVIOUS
<1>1. NInv /\ IInv
  BY InitNInv, InitIInv
<1>2. /\ store = {}
      /\ \A r \in Ranks : /\ rank[r].at = "call" /\ rank[r].comms = {}
                          /\ rank[r].mcclCommCounter = 0 /\ rank[r].mixed = FALSE
  BY DEF Init
<1>3. FInv
  BY <1>1, <1>2 DEF FInv, KeysOK, FirstOK
<1>. QED BY <1>1, <1>2, <1>3 DEF OInv, OffsetsMatch

LEMMA NextOInv == OInv /\ [Next]_vars => OInv'
<1>. SUFFICES ASSUME OInv, [Next]_vars PROVE OInv'
  OBVIOUS
<1>1. NInv /\ FInv /\ IInv /\ NInv' /\ IInv'
  <2>1. NInv /\ FInv
    BY DEF OInv
  <2>2. NInv'
    BY <2>1, NextNInv
  <2>. QED BY <2>1, <2>2 DEF NInv, WInv
<1>2. CASE UNCHANGED <<config, rank, store>>
  <2>1. \A r \in Ranks : Key(r)' = Key(r)
    BY <1>2, RankKept
  <2>2. \A id : FirstId(id)' <=> FirstId(id)
    BY <1>2 DEF FirstId
  <2>3. FInv'
    <3>1. KeysOK'
      BY <1>1, <1>2 DEF FInv, KeysOK
    <3>2. ASSUME NEW r \in Ranks PROVE FirstOK(r)'
      BY <1>1, <1>2, <2>1, <2>2 DEF FInv, FirstOK, Creates
    <3>. QED BY <1>1, <3>1, <3>2 DEF FInv
  <2>4. OffsetsKept
    BY <1>2 DEF OffsetsKept
  <2>. QED BY <1>1, <2>3, <2>4, KeptO
<1>3. ASSUME NEW r \in Ranks, Step(r) PROVE OInv'
  <2>1. CASE \/ Begin(r) \/ Issue(r) \/ IssueAllToAllv(r) \/ Start(r) \/ End(r) \/ Synchronize(r)
    BY <1>1, <2>1, CalmSteps, CalmO
  <2>2. CASE PublishOffsets(r) \/ ReadOffsets(r)
    BY <1>1, <2>2, PublishO, ReadO
  <2>3. CASE initMCCLComm(r) \/ GetId(r) \/ Join(r) \/ Create(r)
    <3>1. FInv' /\ OffsetsKept
      BY <1>1, <2>3, initMCCLCommFirst, GetIdFirst, JoinFirst, CreateFirst
    <3>. QED BY <1>1, <3>1, KeptO
  <2>. QED BY <1>3, <2>1, <2>2, <2>3 DEF Step
<1>4. ASSUME NEW r \in Ranks, NEW s \in Streams, Run(r, s)
      PROVE  UNCHANGED <<config, rank, store>>
  BY <1>4 DEF Run
<1>5. ASSUME NEW r \in Ranks, Fail(r) PROVE OInv'
  BY <1>1, <1>5, CalmSteps, CalmO
<1>. QED BY <1>2, <1>3, <1>4, <1>5 DEF Next, vars

\* Where the programs fit together and no group has two all_to_allv calls, every rank
\* computes with the offsets that the others have published for the same call, although
\* ranks that are ahead publish under the same prefix and connect again.
THEOREM OffsetsMatchHolds ==
  ASSUME Fitting, OneAllToAllv
  PROVE  Spec => []OffsetsMatch
<1>1. OInv => OffsetsMatch
  BY DEF OInv
<1>. QED BY <1>1, InitOInv, NextOInv, PTL DEF Spec
=============================================================================
