----------------------- MODULE CaptureDeferral_proof -----------------------
(***************************************************************************)
(* Proofs about CaptureDeferral.  IInv is proved inductive action by       *)
(* action; the properties follow from it.                                  *)
(***************************************************************************)
EXTENDS CaptureDeferral, TLAPS

\* What TypeOK and DeferredHasUses say of one block.
WellFormed(r) ==
  /\ r \in Block
  /\ r.empty_nodes # {} => r.state = "deferred"
  /\ r.events # NoEvents => r.state = "waiting"
  /\ r.state = "deferred" => r.stream_uses # {}

\* The other variables have their types.
VarsTyped ==
  /\ capture \in {"none", "begun", "active", "ended"} /\ capturing \subseteq Streams
  /\ pend \in [Streams -> [Blocks -> Nat]] /\ depth \in [Streams -> Nat]
  /\ scenario \in Scenarios

GraphTyped ==
  /\ deps \in [Streams -> SUBSET Nodes] /\ empty \subseteq Nodes
  /\ ancestors \in [Streams -> Seq(SUBSET Nodes)]

BlocksTyped == block \in [Blocks -> Block] /\ \A b \in Blocks : WellFormed(block[b])

HistoryTyped ==
  /\ life \in [Blocks -> Nat] /\ born \in [Blocks -> SUBSET Nodes]
  /\ touched \in [Blocks -> SUBSET [node : Nodes, life : Nat]]
  /\ in_capture \in [Blocks -> SUBSET Streams] /\ left_over \in [Blocks -> SUBSET Streams]

Typed == VarsTyped /\ GraphTyped /\ BlocksTyped /\ HistoryTyped

\* The parts of WorkOK.
Bounded == \A s \in Streams, b \in Blocks : pend[s][b] <= depth[s]
AllAwaited == \A b \in Blocks, s \in Streams \ {Home} : Awaited(b, s)

\* The invariant by side.
Sides ==
  /\ Typed /\ CaptureOK /\ GraphOK /\ Bounded /\ AllAwaited
  /\ (\A b \in Blocks : LifeOK(b)) /\ ReuseOrdered

\* The invariant and its sides are the same.
LEMMA SidesOf == IInv => Sides
  <1> SUFFICES ASSUME IInv PROVE Sides OBVIOUS
  <1>1. TypeOK /\ RecordsOK /\ DeferredHasUses /\ WorkOK BY DEF IInv
  <1>2. VarsTyped BY <1>1 DEF TypeOK, RecordsOK, VarsTyped
  <1>3. GraphTyped BY <1>1 DEF TypeOK, RecordsOK, GraphTyped
  <1>4. block \in [Blocks -> Block] BY <1>1 DEF TypeOK
  <1>5. \A b \in Blocks : WellFormed(block[b])
    BY <1>1, <1>4 DEF TypeOK, WellFormed, DeferredHasUses
  <1>6. HistoryTyped BY <1>1 DEF RecordsOK, HistoryTyped
  <1>7. Bounded /\ AllAwaited BY <1>1 DEF WorkOK, Bounded, AllAwaited
  <1> QED BY <1>2, <1>3, <1>4, <1>5, <1>6, <1>7 DEF IInv, Sides, Typed, BlocksTyped

LEMMA SidesMake == Sides => IInv
  <1> SUFFICES ASSUME Sides PROVE IInv OBVIOUS
  <1>1. Typed BY DEF Sides
  <1>2. TypeOK
    <2>1. VarsTyped /\ GraphTyped /\ BlocksTyped BY <1>1 DEF Typed
    <2>2. \A b \in Blocks : /\ block[b].empty_nodes # {} => block[b].state = "deferred"
                            /\ block[b].events # NoEvents => block[b].state = "waiting"
      BY <2>1 DEF BlocksTyped, WellFormed
    <2> QED BY <2>1, <2>2 DEF TypeOK, VarsTyped, GraphTyped, BlocksTyped
  <1>3. RecordsOK BY <1>1 DEF Typed, VarsTyped, GraphTyped, HistoryTyped, RecordsOK
  <1>4. DeferredHasUses BY <1>1 DEF Typed, BlocksTyped, WellFormed, DeferredHasUses
  <1>5. WorkOK BY DEF Sides, WorkOK, Bounded, AllAwaited
  <1> QED BY <1>2, <1>3, <1>4, <1>5 DEF IInv, Sides

(***************************************************************************)
(* The graph.                                                              *)
(***************************************************************************)
\* The nodes that AddNodes makes.
NewNode(s) == <<s, Len(ancestors[s]) + 1>>
Fresh(A) == {NewNode(s) : s \in A}

\* The stream s has got its node n.
Added(s, n) ==
  /\ n \in Captured' /\ n \notin Captured
  /\ Ancestors(n)' = UpTo(deps[s]) /\ deps'[s] = {n}

LEMMA IsCaptured ==
  ASSUME GraphTyped, NEW s \in Streams, NEW k \in Nat
  PROVE  <<s, k>> \in Captured <=> k \in 1 .. Len(ancestors[s])
BY DEF Captured, GraphTyped

LEMMA CapturedPair ==
  ASSUME GraphTyped, NEW n \in Captured
  PROVE  /\ n \in Nodes /\ n = <<n[1], n[2]>> /\ n[1] \in Streams
         /\ n[2] \in Nat \ {0} /\ n[2] \in 1 .. Len(ancestors[n[1]])
         /\ Ancestors(n) \subseteq Nodes
  <1>1. PICK s \in Streams : n \in {s} \X (1 .. Len(ancestors[s])) BY DEF Captured
  <1>2. PICK k \in 1 .. Len(ancestors[s]) : n = <<s, k>> BY <1>1
  <1>3. ancestors[s] \in Seq(SUBSET Nodes) BY DEF GraphTyped
  <1>4. Len(ancestors[s]) \in Nat BY <1>3
  <1>5. ancestors[s][k] \in SUBSET Nodes BY <1>2, <1>3
  <1>6. n[1] = s /\ n[2] = k BY <1>2
  <1> QED BY <1>1, <1>2, <1>4, <1>5, <1>6 DEF Nodes, Ancestors

LEMMA UpToIn ==
  ASSUME NEW D, NEW n
  PROVE  n \in UpTo(D) <=> n \in D \/ \E d \in D : n \in Ancestors(d)
BY DEF UpTo

\* What is below a set that is below E is below E.
LEMMA UpToClosed ==
  ASSUME GraphTyped, GraphOK, NEW E, E \subseteq Captured, NEW D, D \subseteq UpTo(E)
  PROVE  UpTo(D) \subseteq UpTo(E) /\ UpTo(E) \subseteq Captured /\ D \subseteq Captured
  <1>1. ASSUME NEW n \in UpTo(E) PROVE n \in Captured /\ Ancestors(n) \subseteq UpTo(E)
    <2>1. CASE n \in E BY <2>1, UpToIn
    <2>2. CASE n \notin E
      <3>1. PICK d \in E : n \in Ancestors(d) BY <1>1, <2>2, UpToIn
      <3>2. d \in Captured OBVIOUS
      <3>3. n \in Captured /\ Ancestors(n) \subseteq Ancestors(d) BY <3>1, <3>2 DEF GraphOK
      <3> QED BY <3>1, <3>3, UpToIn
    <2> QED BY <2>1, <2>2
  <1>2. ASSUME NEW n \in UpTo(D) PROVE n \in UpTo(E)
    <2>1. CASE n \in D BY <2>1
    <2>2. CASE n \notin D
      <3>1. PICK d \in D : n \in Ancestors(d) BY <1>2, <2>2, UpToIn
      <3> QED BY <3>1, <1>1
    <2> QED BY <2>1, <2>2
  <1> QED BY <1>1, <1>2

\* The graph grows at its end only.
Grows ==
  /\ Captured \subseteq Captured'
  /\ \A n \in Captured : Ancestors(n)' = Ancestors(n)
  /\ \A s \in Streams : UpTo(deps[s]) \subseteq UpTo(deps[s])'

LEMMA UpToKept ==
  ASSUME Grows, NEW D, D \subseteq Captured
  PROVE  \A n : (n \in D \/ \E d \in D : n \in Ancestors(d)') <=> n \in UpTo(D)
  <1>1. \A d \in D : Ancestors(d)' = Ancestors(d) BY DEF Grows
  <1> QED BY <1>1, UpToIn

\* Nodes are added to the streams of A.
LEMMA AddNodesGraph ==
  ASSUME Typed, GraphOK, NEW A \in SUBSET Streams, AddNodes(A),
         empty' \subseteq empty \cup Fresh(A)
  PROVE  /\ GraphTyped' /\ GraphOK' /\ Grows
         /\ \A s \in A, n \in Nodes : n = NewNode(s) => Added(s, n)
         /\ \A s \in Streams \ A : deps'[s] = deps[s]
  <1>1. GraphTyped BY DEF Typed
  <1>2. ancestors' = [s \in Streams |->
                       IF s \in A THEN Append(ancestors[s], UpTo(deps[s])) ELSE ancestors[s]]
    BY DEF AddNodes
  <1>3. deps' = [s \in Streams |->
                   IF s \in A THEN {<<s, Len(ancestors[s]) + 1>>} ELSE deps[s]]
    BY DEF AddNodes
  <1>4. \A s \in Streams : deps[s] \subseteq Captured BY DEF GraphOK
  <1>5. \A s \in Streams : UpTo(deps[s]) \subseteq Captured BY <1>1, <1>4, UpToClosed, UpToIn
  <1>6. \A s \in Streams : UpTo(deps[s]) \in SUBSET Nodes BY <1>1, <1>5, CapturedPair
  <1>7. \A s \in Streams : ancestors[s] \in Seq(SUBSET Nodes) /\ Len(ancestors[s]) \in Nat
    BY <1>1 DEF GraphTyped
  <1>8. \A s \in A : /\ Len(ancestors'[s]) = Len(ancestors[s]) + 1
                     /\ \A k \in 1 .. Len(ancestors[s]) : ancestors'[s][k] = ancestors[s][k]
                     /\ ancestors'[s][Len(ancestors[s]) + 1] = UpTo(deps[s])
    <2> TAKE s \in A
    <2>1. s \in Streams OBVIOUS
    <2>2. ancestors'[s] = Append(ancestors[s], UpTo(deps[s])) BY <1>2, <2>1
    <2>3. PICK q \in Seq(SUBSET Nodes) : q = ancestors[s] BY <1>7, <2>1
    <2>4. PICK u \in SUBSET Nodes : u = UpTo(deps[s]) BY <1>6, <2>1
    <2> QED BY <2>2, <2>3, <2>4
  <1>9. \A s \in Streams \ A : ancestors'[s] = ancestors[s] /\ deps'[s] = deps[s] BY <1>2, <1>3
  <1>10. ASSUME NEW n \in Captured PROVE n \in Captured' /\ Ancestors(n)' = Ancestors(n)
    <2>1. /\ n[1] \in Streams /\ n[2] \in Nat \ {0} /\ n[2] \in 1 .. Len(ancestors[n[1]])
          /\ n = <<n[1], n[2]>>
      BY <1>1, CapturedPair
    <2>2. n[2] \in 1 .. Len(ancestors'[n[1]]) /\ ancestors'[n[1]][n[2]] = ancestors[n[1]][n[2]]
      <3>1. CASE n[1] \in A BY <2>1, <3>1, <1>8, <1>7
      <3>2. CASE n[1] \notin A BY <2>1, <3>2, <1>9
      <3> QED BY <3>1, <3>2
    <2>3. n \in Captured' BY <2>1, <2>2 DEF Captured
    <2> QED BY <2>2, <2>3 DEF Ancestors
  <1>11. ASSUME NEW s \in A, NEW n \in Nodes, n = NewNode(s)
         PROVE  Added(s, n)
    <2>1. s \in Streams OBVIOUS
    <2>2. PICK k \in Nat : k = Len(ancestors[s]) + 1 /\ n = <<s, k>>
      BY <1>7, <2>1, <1>11 DEF NewNode
    <2>3. k \in 1 .. Len(ancestors'[s]) BY <1>8, <2>2, <1>7, <2>1
    <2>4. <<s, k>> \in Captured' BY <2>1, <2>3 DEF Captured
    <2>5. <<s, k>> \notin Captured BY <1>1, <2>1, <2>2, <1>7, IsCaptured
    <2>6. ancestors'[s][k] = UpTo(deps[s]) BY <1>8, <2>2
    <2>7. deps'[s] = {<<s, k>>} BY <1>3, <2>1, <2>2
    <2>8. Ancestors(n)' = UpTo(deps[s]) BY <2>2, <2>6 DEF Ancestors
    <2> QED BY <2>2, <2>4, <2>5, <2>7, <2>8 DEF Added
  <1>12. ASSUME NEW n \in Captured', n \notin Captured
         PROVE  n[1] \in A /\ n = NewNode(n[1])
    <2>1. PICK s \in Streams : n \in {s} \X (1 .. Len(ancestors'[s])) BY DEF Captured
    <2>2. PICK k \in 1 .. Len(ancestors'[s]) : n = <<s, k>> BY <2>1
    <2>3. k \in Nat /\ k \notin 1 .. Len(ancestors[s])
      <3>1. Len(ancestors'[s]) \in Nat BY <1>7, <1>8, <1>9
      <3>2. k \in Nat BY <3>1
      <3> QED BY <3>2, <2>2, <1>12, <1>1, IsCaptured
    <2>4. s \in A BY <2>3, <2>2, <1>9
    <2>5. k = Len(ancestors[s]) + 1 BY <2>2, <2>3, <2>4, <1>8, <1>7
    <2> QED BY <2>2, <2>4, <2>5 DEF NewNode
  <1>13. \A s \in A : NewNode(s) \in Nodes
    <2> TAKE s \in A
    <2>1. PICK k \in Nat : k = Len(ancestors[s]) BY <1>7
    <2>2. NewNode(s) = <<s, k + 1>> BY <2>1 DEF NewNode
    <2> QED BY <2>2 DEF Nodes
  <1>14. GraphTyped'
    <2>1. ancestors' \in [Streams -> Seq(SUBSET Nodes)]
      <3>1. ASSUME NEW s \in Streams PROVE ancestors'[s] \in Seq(SUBSET Nodes)
        <4>1. PICK q \in Seq(SUBSET Nodes) : q = ancestors[s] BY <1>7
        <4>2. PICK u \in SUBSET Nodes : u = UpTo(deps[s]) BY <1>6
        <4>3. Append(q, u) \in Seq(SUBSET Nodes) OBVIOUS
        <4> QED BY <1>2, <4>1, <4>2, <4>3
      <3> QED BY <3>1, <1>2
    <2>2. deps' \in [Streams -> SUBSET Nodes]
      <3>1. \A s \in Streams : deps[s] \subseteq Nodes BY <1>1 DEF GraphTyped
      <3>2. \A s \in A : {<<s, Len(ancestors[s]) + 1>>} \subseteq Nodes BY <1>13 DEF NewNode
      <3>3. \A s \in Streams : deps'[s] \in SUBSET Nodes BY <1>3, <3>1, <3>2
      <3> QED BY <1>3, <3>3
    <2>3. empty' \subseteq Nodes
      <3>1. Fresh(A) \subseteq Nodes BY <1>13 DEF Fresh
      <3> QED BY <3>1, <1>1 DEF GraphTyped
    <2> QED BY <2>1, <2>2, <2>3 DEF GraphTyped
  <1>15. \A s \in Streams : deps'[s] \subseteq Captured'
    <2> TAKE s \in Streams
    <2>1. CASE s \in A
      <3>1. PICK n0 \in Nodes : n0 = NewNode(s) BY <2>1, <1>13
      <3> QED BY <3>1, <2>1, <1>11 DEF Added
    <2>2. CASE s \notin A BY <2>2, <1>4, <1>9, <1>10
    <2> QED BY <2>1, <2>2
  <1>16. ASSUME NEW s \in Streams, NEW n \in UpTo(deps[s]) PROVE n \in UpTo(deps[s])'
    <2>1. CASE s \in A
      <3>1. PICK n0 \in Nodes : n0 = NewNode(s) BY <2>1, <1>13
      <3>2. n0 \in deps'[s] /\ Ancestors(n0)' = UpTo(deps[s]) BY <3>1, <2>1, <1>11 DEF Added
      <3> QED BY <3>2, <1>16 DEF UpTo
    <2>2. CASE s \notin A
      <3>1. deps'[s] = deps[s] BY <2>2, <1>9
      <3>2. \A d \in deps[s] : Ancestors(d)' = Ancestors(d) BY <1>4, <1>10
      <3> QED BY <3>1, <3>2, <1>16 DEF UpTo
    <2> QED BY <2>1, <2>2
  <1>17. Grows BY <1>10, <1>16 DEF Grows
  <1>18. empty' \subseteq Captured'
    <2>1. empty \subseteq Captured BY DEF GraphOK
    <2>2. Fresh(A) \subseteq Captured'
      <3> QED BY <1>13, <1>11 DEF Fresh, Added
    <2> QED BY <2>1, <2>2, <1>10
  <1>19. ASSUME NEW n \in Captured'
         PROVE  /\ Ancestors(n)' \subseteq Captured'
                /\ \A m \in Ancestors(n)' : Ancestors(m)' \subseteq Ancestors(n)'
                /\ n \in UpTo(deps[n[1]])'
    <2>1. CASE n \in Captured
      <3>1. /\ Ancestors(n) \subseteq Captured /\ n \in UpTo(deps[n[1]])
            /\ \A m \in Ancestors(n) : Ancestors(m) \subseteq Ancestors(n)
        BY <2>1 DEF GraphOK
      <3>2. n[1] \in Streams BY <2>1, <1>1, CapturedPair
      <3> QED BY <2>1, <3>1, <3>2, <1>10, <1>16
    <2>2. CASE n \notin Captured
      <3>1. n[1] \in A /\ n = NewNode(n[1]) BY <2>2, <1>12
      <3>2. n \in Nodes BY <3>1, <1>13
      <3>3. PICK x \in A : x = n[1] BY <3>1
      <3>6. Ancestors(n)' = UpTo(deps[n[1]]) /\ deps'[n[1]] = {n}
        BY <3>1, <3>2, <3>3, <1>11 DEF Added
      <3>7. \A m \in UpTo(deps[n[1]]) : m \in Captured /\ Ancestors(m) \subseteq UpTo(deps[n[1]])
        <4> TAKE m \in UpTo(deps[n[1]])
        <4>1. n[1] \in Streams BY <3>1
        <4>2. {m} \subseteq UpTo(deps[n[1]]) OBVIOUS
        <4>3. UpTo({m}) \subseteq UpTo(deps[n[1]]) BY <1>1, <1>4, <4>1, <4>2, UpToClosed
        <4>4. Ancestors(m) \subseteq UpTo({m}) BY DEF UpTo
        <4> QED BY <4>1, <4>3, <4>4, <1>5
      <3> QED BY <3>6, <3>7, <1>10 DEF UpTo
    <2> QED BY <2>1, <2>2
  <1> QED BY <1>9, <1>11, <1>15, <1>17, <1>18, <1>19, <1>14 DEF GraphOK

LEMMA NoGrowth ==
  ASSUME UNCHANGED <<ancestors, deps>>
  PROVE  Grows /\ Captured' = Captured
  <1>1. Captured' = Captured BY DEF Captured
  <1>2. \A n : Ancestors(n)' = Ancestors(n) BY DEF Ancestors
  <1>3. \A s : UpTo(deps[s])' = UpTo(deps[s])
    <2> TAKE s
    <2>1. deps'[s] = deps[s] OBVIOUS
    <2> QED BY <2>1, <1>2 DEF UpTo
  <1> QED BY <1>1, <1>2, <1>3 DEF Grows

LEMMA SameGraph ==
  ASSUME GraphOK, UNCHANGED <<ancestors, deps, empty>>
  PROVE  GraphOK'
  <1>1. Captured' = Captured BY NoGrowth
  <1>2. \A n : Ancestors(n)' = Ancestors(n) BY DEF Ancestors
  <1>3. \A s : UpTo(deps[s])' = UpTo(deps[s])
    <2> TAKE s
    <2>1. deps'[s] = deps[s] OBVIOUS
    <2> QED BY <2>1, <1>2 DEF UpTo
  <1>4. \A n \in Captured : n \in UpTo(deps[n[1]])' BY <1>3 DEF GraphOK
  <1> QED BY <1>1, <1>2, <1>4 DEF GraphOK

(***************************************************************************)
(* What captured kernels have to do with the state of a block.             *)
(***************************************************************************)
\* What LifeOK says in every state.
CoreOK(b) ==
  /\ born[b] \subseteq UpTo(deps[Home])
  /\ \A x \in touched[b] : x.node \in Captured /\ x.life <= life[b]

\* What it says of kernel x in the present state.
KernelOK(b, x) ==
  /\ block[b].state = "cached" => x.node \in UpTo(deps[Home])
  /\ block[b].state = "allocated" =>
       IF x.life < life[b] THEN x.node \in UpTo(born[b])
       ELSE x.node[1] \in {Home} \cup block[b].stream_uses
  /\ block[b].state = "deferred" /\ block[b].empty_nodes # {} =>
       \E e \in block[b].empty_nodes : e \in Captured /\ x.node \in Ancestors(e)
  /\ block[b].state # "waiting"

LEMMA LifeParts ==
  ASSUME NEW b \in Blocks
  PROVE  LifeOK(b) <=> CoreOK(b) /\ \A x \in touched[b] : KernelOK(b, x)
BY DEF LifeOK, CoreOK, KernelOK

LEMMA LifePartsPrimed ==
  ASSUME NEW b \in Blocks
  PROVE  LifeOK(b)' <=> CoreOK(b)' /\ \A x \in touched'[b] : KernelOK(b, x)'
BY DEF LifeOK, CoreOK, KernelOK

LEMMA CoreKept ==
  ASSUME NEW b \in Blocks, CoreOK(b), Grows,
         born'[b] = born[b], touched'[b] = touched[b], life'[b] = life[b]
  PROVE  CoreOK(b)'
  <1>1. UpTo(deps[Home]) \subseteq UpTo(deps[Home])' BY HomeAssumption DEF Grows
  <1>2. Captured \subseteq Captured' BY DEF Grows
  <1> QED BY <1>1, <1>2 DEF CoreOK

\* The block stays in its state, and may get stream uses.
LEMMA LifeKept ==
  ASSUME Typed, GraphOK, NEW b \in Blocks, LifeOK(b), Grows,
         born'[b] = born[b], touched'[b] = touched[b], life'[b] = life[b],
         block'[b].state = block[b].state, block'[b].empty_nodes = block[b].empty_nodes,
         block[b].stream_uses \subseteq block'[b].stream_uses
  PROVE  LifeOK(b)'
  <1>1. CoreOK(b) /\ \A x \in touched[b] : KernelOK(b, x) BY LifeParts
  <1>2. CoreOK(b)' BY <1>1, CoreKept
  <1>3. UpTo(deps[Home]) \subseteq UpTo(deps[Home])' BY HomeAssumption DEF Grows
  <1>4. GraphTyped BY DEF Typed
  <1>5. deps[Home] \subseteq Captured BY HomeAssumption DEF GraphOK
  <1>6. born[b] \subseteq Captured BY <1>1, <1>4, <1>5, UpToClosed, UpToIn DEF CoreOK
  <1>7. UpTo(born[b])' = UpTo(born[b])
    <2>1. \A d \in born[b] : Ancestors(d)' = Ancestors(d) BY <1>6 DEF Grows
    <2> QED BY <2>1 DEF UpTo
  <1>8. ASSUME NEW x \in touched[b] PROVE KernelOK(b, x)'
    <2>1. KernelOK(b, x) BY <1>1
    <2>2. ASSUME NEW e \in Captured, x.node \in Ancestors(e)
          PROVE  e \in Captured' /\ x.node \in Ancestors(e)'
      BY <2>2 DEF Grows
    <2> QED BY <2>1, <2>2, <1>3, <1>7 DEF KernelOK
  <1> QED BY <1>2, <1>8, LifePartsPrimed

\* Nothing was captured on the block.
LEMMA LifeUntouched ==
  ASSUME NEW b \in Blocks, touched'[b] = {}, born'[b] \subseteq UpTo(deps[Home])'
  PROVE  LifeOK(b)'
BY DEF LifeOK

\* The kernels known to free precede the next node of Home when only Home used
\* the block.
LEMMA HomeOnly ==
  ASSUME Typed, GraphOK, NEW b \in Blocks, LifeOK(b), block[b].state = "allocated",
         NEW x \in touched[b]
  PROVE  /\ x.node \in Captured /\ x.node[1] \in {Home} \cup block[b].stream_uses
              => x.node \in UpTo(deps[x.node[1]])
         /\ x.life < life[b] => x.node \in UpTo(deps[Home])
         /\ ~(x.life < life[b]) => x.node[1] \in {Home} \cup block[b].stream_uses
         /\ x.node \in Captured
  <1>1. CoreOK(b) /\ KernelOK(b, x) BY LifeParts
  <1>2. GraphTyped BY DEF Typed
  <1>3. deps[Home] \subseteq Captured BY HomeAssumption DEF GraphOK
  <1>4. UpTo(born[b]) \subseteq UpTo(deps[Home]) BY <1>1, <1>2, <1>3, UpToClosed DEF CoreOK
  <1>5. x.node \in Captured BY <1>1 DEF CoreOK
  <1>6. x.node \in UpTo(deps[x.node[1]]) BY <1>5 DEF GraphOK
  <1> QED BY <1>1, <1>4, <1>5, <1>6 DEF KernelOK

\* The block becomes free, and all kernels on it precede the next node of Home.
LEMMA LifeCached ==
  ASSUME NEW b \in Blocks, LifeOK(b), Grows,
         born'[b] = born[b], touched'[b] = touched[b], life'[b] = life[b],
         block'[b].state = "cached", \A x \in touched[b] : x.node \in UpTo(deps[Home])
  PROVE  LifeOK(b)'
  <1>1. CoreOK(b)' BY LifeParts, CoreKept
  <1>2. UpTo(deps[Home]) \subseteq UpTo(deps[Home])' BY HomeAssumption DEF Grows
  <1>3. \A x \in touched[b] : KernelOK(b, x)' BY <1>2 DEF KernelOK
  <1> QED BY <1>1, <1>3, LifePartsPrimed

\* Order within the graph is for ever.
LEMMA ReuseKept ==
  ASSUME ReuseOrdered, Grows, \A b \in Blocks : LifeOK(b),
         \A b \in Blocks : touched'[b] \subseteq touched[b]
  PROVE  ReuseOrdered'
  <1>1. \A b \in Blocks : \A y \in touched[b] : Ancestors(y.node)' = Ancestors(y.node)
    <2>1. \A b \in Blocks : \A y \in touched[b] : y.node \in Captured BY DEF LifeOK
    <2> QED BY <2>1 DEF Grows
  <1>2. ASSUME NEW b \in Blocks, NEW x \in touched'[b], NEW y \in touched'[b], x.life < y.life
        PROVE  x.node \in Ancestors(y.node)'
    <2>1. x \in touched[b] /\ y \in touched[b] OBVIOUS
    <2>2. x.node \in Ancestors(y.node) BY <2>1, <1>2 DEF ReuseOrdered
    <2> QED BY <2>1, <2>2, <1>1
  <1> QED BY <1>2 DEF ReuseOrdered

(***************************************************************************)
(* The operations on one block.                                            *)
(***************************************************************************)
LEMMA CachedForm ==
  ASSUME NEW r \in Block, r.events = NoEvents
  PROVE  /\ WellFormed(Cached(r)) /\ Cached(r).state = "cached"
         /\ Cached(r).events = NoEvents
         /\ Cached(r).musagraph_stream_uses = r.musagraph_stream_uses
  <1>1. PICK q : q = Cached(r) OBVIOUS
  <1>2. q = [r EXCEPT !.state = "cached", !.stream_uses = {}, !.empty_nodes = {}]
    BY <1>1 DEF Cached
  <1>3. /\ q \in Block /\ q.state = "cached" /\ q.events = r.events /\ q.empty_nodes = {}
        /\ q.musagraph_stream_uses = r.musagraph_stream_uses
    BY <1>2 DEF Block
  <1> QED BY <1>1, <1>3 DEF WellFormed

LEMMA InsertEventsForm ==
  ASSUME Typed, NEW r \in Block
  PROVE  /\ insert_events(r) \in Block /\ WellFormed(insert_events(r))
         /\ insert_events(r).state = "waiting"
         /\ \A s \in Streams : insert_events(r).events[s] =
                                 IF s \in r.stream_uses THEN depth[s] ELSE r.events[s]
         /\ insert_events(r).musagraph_stream_uses = r.musagraph_stream_uses
  <1>1. PICK q : q = insert_events(r) OBVIOUS
  <1>2. PICK e : e = [s \in Streams |-> IF s \in r.stream_uses THEN depth[s] ELSE r.events[s]]
    OBVIOUS
  <1>3. depth \in [Streams -> Nat] BY DEF Typed, VarsTyped
  <1>4. r.events \in [Streams -> Int] BY DEF Block
  <1>5. e \in [Streams -> Int] BY <1>2, <1>3, <1>4
  <1>6. q = [r EXCEPT !.state = "waiting", !.stream_uses = {}, !.empty_nodes = {}, !.events = e]
    BY <1>1, <1>2 DEF insert_events
  <1>7. /\ q \in Block /\ q.state = "waiting" /\ q.events = e /\ q.empty_nodes = {}
        /\ q.musagraph_stream_uses = r.musagraph_stream_uses
    BY <1>5, <1>6 DEF Block
  <1> QED BY <1>1, <1>2, <1>7 DEF WellFormed

LEMMA DeferredForm ==
  ASSUME Typed, NEW r \in Block, WellFormed(r)
  PROVE  LET q == insert_events_deferred_until_no_capture(r)
         IN /\ q \in Block /\ WellFormed(q)
            /\ r.state # "deferred" => q = r
            /\ r.state = "deferred" =>
                 /\ q.state = "waiting" /\ q.musagraph_stream_uses = {}
                 /\ \A s \in Streams : s \in r.stream_uses /\ s \notin r.musagraph_stream_uses
                                      => q.events[s] = depth[s]
  <1>1. CASE r.state # "deferred" BY <1>1 DEF insert_events_deferred_until_no_capture
  <1>2. CASE r.state = "deferred"
    <2>1. PICK u : u = remove_musagraph_stream_uses(r) OBVIOUS
    <2>2. /\ u \in Block /\ u.musagraph_stream_uses = {}
          /\ \A s \in Streams : s \in r.stream_uses /\ s \notin r.musagraph_stream_uses
                               => s \in u.stream_uses
      BY <2>1 DEF remove_musagraph_stream_uses, Block
    <2> QED BY <1>2, <2>1, <2>2, InsertEventsForm DEF insert_events_deferred_until_no_capture
  <1> QED BY <1>1, <1>2

LEMMA DropForm ==
  ASSUME Typed, NEW r \in Block, WellFormed(r), r.state # "deferred"
  PROVE  LET q == drop_completed(r)
         IN /\ WellFormed(q)
            /\ r.state \in {"cached", "allocated"} => q = r
            /\ r.state = "waiting" => q.state \in {"cached", "waiting"}
            /\ r.state = "waiting" =>
                 \A s \in Streams : r.events[s] > 0 =>
                   q.state = "waiting" /\ q.events[s] = r.events[s]
            /\ \A s \in Streams : r.events[s] = NoEvent => q.events[s] = NoEvent
            /\ q.musagraph_stream_uses = r.musagraph_stream_uses
  <1>1. PICK e : e = [s \in Streams |-> IF r.events[s] = 0 THEN NoEvent ELSE r.events[s]] OBVIOUS
  <1>2. PICK left : left = [r EXCEPT !.events = e] OBVIOUS
  <1>3. r.events \in [Streams -> Int] BY DEF Block
  <1>4. e \in [Streams -> Int] BY <1>1, <1>3 DEF NoEvent
  <1>5. left \in Block /\ left.events = e /\ left.state = r.state
        /\ left.empty_nodes = r.empty_nodes /\ left.stream_uses = r.stream_uses
        /\ left.musagraph_stream_uses = r.musagraph_stream_uses
    BY <1>2, <1>4 DEF Block
  <1>6. drop_completed(r) =
          IF r.state = "waiting" /\ left.events = NoEvents THEN Cached(left) ELSE left
    BY <1>1, <1>2 DEF drop_completed
  <1>7. CASE r.state = "waiting"
    <2>1. CASE e = NoEvents
      <3>1. drop_completed(r) = Cached(left) BY <1>5, <1>6, <1>7, <2>1
      <3>2. WellFormed(Cached(left)) /\ Cached(left).state = "cached"
            /\ Cached(left).events = NoEvents
            /\ Cached(left).musagraph_stream_uses = left.musagraph_stream_uses
        BY <1>5, <2>1, CachedForm
      <3>3. ASSUME NEW s \in Streams PROVE ~(r.events[s] > 0)
        <4>1. e[s] = NoEvent BY <2>1 DEF NoEvents
        <4>2. r.events[s] \in Int BY <1>3
        <4> QED BY <4>1, <4>2, <1>1 DEF NoEvent
      <3>4. \A s \in Streams : NoEvents[s] = NoEvent BY DEF NoEvents
      <3> QED BY <3>1, <3>2, <3>3, <3>4, <1>5, <1>7
    <2>2. CASE e # NoEvents
      <3>1. drop_completed(r) = left BY <1>5, <1>6, <2>2
      <3>2. WellFormed(left) BY <1>5, <1>7 DEF WellFormed
      <3>3. \A s \in Streams : r.events[s] > 0 => e[s] = r.events[s] BY <1>1, <1>3
      <3>4. \A s \in Streams : r.events[s] = NoEvent => e[s] = NoEvent BY <1>1
      <3> QED BY <3>1, <3>2, <3>3, <3>4, <1>5, <1>7
    <2> QED BY <2>1, <2>2
  <1>8. CASE r.state \in {"cached", "allocated"}
    <2>1. r.events = NoEvents BY <1>8 DEF WellFormed
    <2>2. \A s \in Streams : r.events[s] = -1 BY <2>1 DEF NoEvents, NoEvent
    <2>3. e = [s \in Streams |-> r.events[s]] BY <1>1, <2>2
    <2>4. e = r.events BY <2>3, <1>3
    <2>5. left = r BY <1>2, <2>4 DEF Block
    <2>6. drop_completed(r) = r BY <1>6, <1>8, <2>5
    <2> QED BY <2>6, <1>8
  <1>9. r.state \in {"cached", "allocated", "waiting"} BY DEF Block
  <1> QED BY <1>7, <1>8, <1>9

\* process_events leaves allocated and free blocks alone; a block that waits does so
\* until its events have completed, and only a deferred block gets events.
LEMMA ProcessForm ==
  ASSUME Typed, NEW r \in Block, WellFormed(r)
  PROVE  /\ WellFormed(process_events(r)) /\ process_events(r) \in Block
         /\ r.state \in {"cached", "allocated"} => process_events(r) = r
         /\ r.state \in {"deferred", "waiting"} =>
              process_events(r).state \in {"cached", "waiting"}
         /\ r.state = "waiting" => \A s \in Streams : r.events[s] > 0 =>
              process_events(r).state = "waiting" /\ process_events(r).events[s] = r.events[s]
         /\ process_events(r).musagraph_stream_uses \subseteq r.musagraph_stream_uses
         /\ r.state = "deferred" =>
              \A s \in Streams :
                s \in r.stream_uses /\ s \notin r.musagraph_stream_uses /\ depth[s] > 0 =>
                  process_events(r).state = "waiting" /\ process_events(r).events[s] = depth[s]
  <1>1. PICK m : m = insert_events_deferred_until_no_capture(r) OBVIOUS
  <1>2. /\ m \in Block /\ WellFormed(m) /\ m.state # "deferred"
        /\ r.state # "deferred" => m = r
        /\ r.state = "deferred" =>
             /\ m.state = "waiting" /\ m.musagraph_stream_uses = {}
             /\ \A s \in Streams : s \in r.stream_uses /\ s \notin r.musagraph_stream_uses
                                  => m.events[s] = depth[s]
    BY <1>1, DeferredForm
  <1>3. process_events(r) = drop_completed(m) BY <1>1 DEF process_events
  <1> DEFINE q == drop_completed(m)
  <1>4. /\ WellFormed(q)
        /\ m.state \in {"cached", "allocated"} => q = m
        /\ m.state = "waiting" => q.state \in {"cached", "waiting"}
        /\ m.state = "waiting" =>
             \A s \in Streams : m.events[s] > 0 =>
               q.state = "waiting" /\ q.events[s] = m.events[s]
        /\ q.musagraph_stream_uses = m.musagraph_stream_uses
    BY <1>2, DropForm
  <1>5. q \in Block BY <1>4 DEF WellFormed
  <1> QED BY <1>2, <1>3, <1>4, <1>5

\* A deferred block is free, to the capture, when all its markers precede the
\* terminals of Home.
LEMMA SafeForm ==
  ASSUME Typed, NEW r \in Block, WellFormed(r), NEW s \in Streams
  PROVE  LET q == free_safe_blocks_in_capture(r, s)
         IN /\ q \in Block /\ WellFormed(q)
            /\ \/ q = r
               \/ /\ r.state = "deferred" /\ q.state = "cached" /\ s = Home
                  /\ q.events = NoEvents
                  /\ q.musagraph_stream_uses = r.musagraph_stream_uses
                  /\ r.empty_nodes # {}
                  /\ r.empty_nodes \subseteq get_reusable_empty_nodes(Home)
  <1>1. CASE r.state = "deferred" /\ s = Home /\ r.empty_nodes # {}
             /\ r.empty_nodes \subseteq get_reusable_empty_nodes(s)
    <2>1. free_safe_blocks_in_capture(r, s) = Cached(r)
      BY <1>1 DEF free_safe_blocks_in_capture
    <2>2. r.events = NoEvents BY <1>1 DEF WellFormed
    <2>3. /\ WellFormed(Cached(r)) /\ Cached(r).state = "cached" /\ Cached(r).events = NoEvents
          /\ Cached(r).musagraph_stream_uses = r.musagraph_stream_uses
      BY <2>2, CachedForm
    <2>4. Cached(r) \in Block BY <2>3 DEF WellFormed
    <2> QED BY <1>1, <2>1, <2>3, <2>4
  <1>2. CASE ~(r.state = "deferred" /\ s = Home /\ r.empty_nodes # {}
             /\ r.empty_nodes \subseteq get_reusable_empty_nodes(s))
    <2>1. free_safe_blocks_in_capture(r, s) = r BY <1>2 DEF free_safe_blocks_in_capture
    <2> QED BY <2>1
  <1> QED BY <1>1, <1>2

\* A marker that can be reused precedes the next node of Home.
LEMMA ReusableBelow ==
  ASSUME Typed, NEW e \in get_reusable_empty_nodes(Home)
  PROVE  e \in UpTo(deps[Home])
  <1>1. deps[Home] # {} /\ \A d \in deps[Home] : e \in UpTo({d})
    BY DEF get_reusable_empty_nodes
  <1>2. PICK d \in deps[Home] : e \in UpTo({d}) BY <1>1
  <1> QED BY <1>2, UpToIn

\* Awaited, for a block in the state r with the streams u unwatched.
AwaitedAs(r, b, s, u) ==
  /\ s \in r.musagraph_stream_uses => s \in u
  /\ ~Reuse /\ pend[s][b] > 0 =>
       \/ s \in u
       \/ r.state \in {"allocated", "deferred"} /\ s \in r.stream_uses
       \/ r.state = "waiting" /\ r.events[s] >= pend[s][b]

\* The history of a block says which of its streams are not watched.
LEMMA UnwatchedKept ==
  ASSUME UNCHANGED historyVars
  PROVE  \A b \in Blocks : Unwatched(b)' = Unwatched(b)
BY DEF Unwatched, historyVars

LEMMA AwaitedNow ==
  ASSUME Sides
  PROVE  \A b \in Blocks, s \in Streams \ {Home} : AwaitedAs(block[b], b, s, Unwatched(b))
BY DEF Sides, AllAwaited, Awaited, AwaitedAs

LEMMA PendTyped ==
  ASSUME Typed, NEW s \in Streams, NEW b \in Blocks
  PROVE  pend[s][b] \in Nat /\ depth[s] \in Nat
BY DEF Typed, VarsTyped

\* process_events keeps the events of pending work, and gives them to deferred blocks.
LEMMA ProcessAwaits ==
  ASSUME Sides, NEW b \in Blocks, NEW s \in Streams \ {Home}
  PROVE  AwaitedAs(process_events(block[b]), b, s, Unwatched(b))
  <1>1. Typed /\ WellFormed(block[b]) /\ block[b] \in Block
    BY DEF Sides, Typed, BlocksTyped, WellFormed
  <1>2. PICK r \in Block : r = block[b] /\ WellFormed(r) BY <1>1
  <1>3. PICK q : q = process_events(r) OBVIOUS
  <1>4. AwaitedAs(r, b, s, Unwatched(b)) BY <1>2, AwaitedNow
  <1>5. /\ r.state \in {"cached", "allocated"} => q = r
        /\ r.state = "waiting" /\ r.events[s] > 0 =>
             q.state = "waiting" /\ q.events[s] = r.events[s]
        /\ q.musagraph_stream_uses \subseteq r.musagraph_stream_uses
        /\ r.state = "deferred" /\ s \in r.stream_uses /\ s \notin r.musagraph_stream_uses
             /\ depth[s] > 0 => q.state = "waiting" /\ q.events[s] = depth[s]
    BY <1>1, <1>2, <1>3, ProcessForm
  <1>6. pend[s][b] \in Nat /\ depth[s] \in Nat /\ pend[s][b] <= depth[s]
    BY <1>1, PendTyped DEF Sides, Bounded
  <1>7. r.events[s] \in Int BY DEF Block
  <1>8. r.state \in {"cached", "allocated", "deferred", "waiting"} BY DEF Block
  <1>9. s \in q.musagraph_stream_uses => s \in Unwatched(b) BY <1>4, <1>5 DEF AwaitedAs
  <1>10. ASSUME ~Reuse, pend[s][b] > 0, s \notin Unwatched(b)
         PROVE  \/ q.state \in {"allocated", "deferred"} /\ s \in q.stream_uses
                \/ q.state = "waiting" /\ q.events[s] >= pend[s][b]
    <2>1. s \notin r.musagraph_stream_uses BY <1>4, <1>10 DEF AwaitedAs
    <2>2. CASE r.state \in {"allocated", "deferred"} /\ s \in r.stream_uses
      BY <2>1, <2>2, <1>5, <1>6, <1>10
    <2>3. CASE r.state = "waiting" /\ r.events[s] >= pend[s][b]
      BY <2>3, <1>5, <1>6, <1>7, <1>10
    <2> QED BY <2>2, <2>3, <1>4, <1>10 DEF AwaitedAs
  <1>11. AwaitedAs(q, b, s, Unwatched(b)) BY <1>9, <1>10 DEF AwaitedAs
  <1> QED BY <1>2, <1>3, <1>11

\* End-of-life processing keeps what is known of the block's kernels and work.
LEMMA RecycledForm ==
  ASSUME Sides, NEW s \in Streams, NEW b \in Blocks
  PROVE  LET r == Recycled(s)[b]
         IN /\ r \in Block /\ WellFormed(r)
            /\ r = block[b] \/ touched[b] = {} \/ r.state = "cached"
            /\ r.state = "cached" => \A x \in touched[b] : x.node \in UpTo(deps[Home])
            /\ \A x \in Streams \ {Home} : AwaitedAs(r, b, x, Unwatched(b))
  <1>1. Typed /\ WellFormed(block[b]) /\ block[b] \in Block
    BY DEF Sides, Typed, BlocksTyped, WellFormed
  <1>2. LifeOK(b) BY DEF Sides
  <1>3. \A x \in Streams \ {Home} : AwaitedAs(block[b], b, x, Unwatched(b))
    BY AwaitedNow
  <1>4. block[b].state = "cached" => \A x \in touched[b] : x.node \in UpTo(deps[Home])
    BY <1>2 DEF LifeOK
  <1>5. CASE ~underway
    <2>1. Recycled(s)[b] = process_events(block[b]) BY <1>5 DEF Recycled
    <2>2. touched[b] = {} BY <1>5 DEF underway, Sides, CaptureOK
    <2>3. process_events(block[b]) \in Block /\ WellFormed(process_events(block[b]))
      BY <1>1, ProcessForm
    <2>4. \A x \in Streams \ {Home} : AwaitedAs(process_events(block[b]), b, x, Unwatched(b))
      BY ProcessAwaits
    <2> QED BY <2>1, <2>2, <2>3, <2>4
  <1>6. CASE underway /\ Reuse
    <2>1. Recycled(s)[b] = free_safe_blocks_in_capture(block[b], s) BY <1>6 DEF Recycled
    <2> DEFINE q == free_safe_blocks_in_capture(block[b], s)
    <2>2. /\ q \in Block /\ WellFormed(q)
          /\ \/ q = block[b]
             \/ /\ block[b].state = "deferred" /\ q.state = "cached" /\ s = Home
                /\ q.events = NoEvents
                /\ q.musagraph_stream_uses = block[b].musagraph_stream_uses
                /\ block[b].empty_nodes # {}
                /\ block[b].empty_nodes \subseteq get_reusable_empty_nodes(Home)
      BY <1>1, SafeForm
    <2>3. CASE q = block[b] BY <2>1, <2>2, <2>3, <1>3, <1>4
    <2>4. CASE q # block[b]
      <3>1. /\ block[b].state = "deferred" /\ q.state = "cached"
            /\ block[b].empty_nodes # {}
            /\ block[b].empty_nodes \subseteq get_reusable_empty_nodes(Home)
        BY <2>2, <2>4
      <3>2. ASSUME NEW x \in touched[b] PROVE x.node \in UpTo(deps[Home])
        <4>1. PICK e \in block[b].empty_nodes : e \in Captured /\ x.node \in Ancestors(e)
          BY <1>2, <3>1 DEF LifeOK
        <4>2. e \in UpTo(deps[Home]) BY <3>1, <4>1, <1>1, ReusableBelow
        <4>3. deps[Home] \subseteq Captured /\ GraphTyped /\ GraphOK
          BY <1>1, HomeAssumption DEF Typed, Sides, GraphOK
        <4>4. {e} \subseteq UpTo(deps[Home]) BY <4>2
        <4>5. UpTo({e}) \subseteq UpTo(deps[Home]) BY <4>3, <4>4, UpToClosed
        <4>6. x.node \in UpTo({e}) BY <4>1, UpToIn
        <4> QED BY <4>5, <4>6
      <3>3. \A x \in Streams \ {Home} : AwaitedAs(q, b, x, Unwatched(b))
        BY <1>3, <1>6, <2>2, <2>4 DEF AwaitedAs
      <3> QED BY <2>1, <2>2, <3>1, <3>2, <3>3
    <2> QED BY <2>3, <2>4
  <1>7. CASE underway /\ ~Reuse
    <2>1. Recycled(s)[b] = block[b] BY <1>7 DEF Recycled
    <2> QED BY <2>1, <1>1, <1>3, <1>4
  <1> QED BY <1>5, <1>6, <1>7

LEMMA RecycledKeepsLife ==
  ASSUME Sides, NEW s \in Streams, NEW b \in Blocks, UNCHANGED driverVars,
         born'[b] = born[b], touched'[b] = touched[b], life'[b] = life[b],
         block'[b] = Recycled(s)[b]
  PROVE  LifeOK(b)'
  <1>1. Typed /\ GraphOK /\ LifeOK(b) BY DEF Sides
  <1>2. Grows BY NoGrowth DEF driverVars
  <1>3. CASE block'[b] = block[b] BY <1>1, <1>2, <1>3, LifeKept
  <1>4. CASE touched[b] = {}
    <2>1. CoreOK(b)' BY <1>1, <1>2, LifeParts, CoreKept
    <2> QED BY <1>4, <2>1, LifeUntouched DEF CoreOK
  <1>5. CASE block'[b].state = "cached"
    <2>1. \A x \in touched[b] : x.node \in UpTo(deps[Home]) BY <1>5, RecycledForm
    <2> QED BY <1>1, <1>2, <1>5, <2>1, LifeCached
  <1> QED BY <1>3, <1>4, <1>5, RecycledForm

(***************************************************************************)
(* The actions.                                                            *)
(***************************************************************************)
\* What holds of work follows from the same of each block.
LEMMA AwaitedKept ==
  ASSUME Typed, UNCHANGED <<pend, scenario>>,
         \A b \in Blocks, s \in Streams \ {Home} : AwaitedAs(block'[b], b, s, Unwatched(b)')
  PROVE  AllAwaited'
  <1>1. Reuse' = Reuse BY DEF Reuse
  <1>2. \A b \in Blocks, s \in Streams \ {Home} :
          AwaitedAs(block'[b], b, s, Unwatched(b)') => Awaited(b, s)'
    BY <1>1 DEF AwaitedAs, Awaited
  <1> QED BY <1>2 DEF AllAwaited

\* A step that changes neither blocks nor work.
LEMMA AwaitedSame ==
  ASSUME Sides, UNCHANGED <<block, pend, scenario, in_capture, left_over>>
  PROVE  AllAwaited'
  <1>1. \A b \in Blocks : Unwatched(b)' = Unwatched(b) BY DEF Unwatched
  <1>2. \A b \in Blocks, s \in Streams \ {Home} : AwaitedAs(block'[b], b, s, Unwatched(b)')
    BY <1>1, AwaitedNow
  <1>3. Typed BY DEF Sides
  <1> QED BY <1>2, <1>3, AwaitedKept

LEMMA GpuKept ==
  ASSUME Sides, UNCHANGED gpuVars
  PROVE  Bounded'
BY DEF Sides, Bounded, gpuVars

\* A step that changes nothing but blocks and their history.
LEMMA BlocksOnly ==
  ASSUME Sides, UNCHANGED <<scenario, capture, driverVars, gpuVars>>,
         block' \in [Blocks -> Block], \A b \in Blocks : WellFormed(block'[b]),
         HistoryTyped',
         \A b \in Blocks, s \in Streams \ {Home} : AwaitedAs(block'[b], b, s, Unwatched(b)'),
         \A b \in Blocks : LifeOK(b)',
         \A b \in Blocks : touched'[b] \subseteq touched[b]
  PROVE  Sides'
  <1>1. Typed BY DEF Sides
  <1>2. Typed'
    <2>1. VarsTyped' BY <1>1 DEF Typed, VarsTyped, driverVars, gpuVars
    <2>2. GraphTyped' BY <1>1 DEF Typed, GraphTyped, driverVars
    <2>3. \A b \in Blocks : WellFormed(block[b])' BY DEF WellFormed
    <2>4. BlocksTyped' BY <2>3 DEF BlocksTyped
    <2> QED BY <2>1, <2>2, <2>4 DEF Typed
  <1>4. Bounded' BY GpuKept
  <1>5. AllAwaited' BY <1>1, AwaitedKept DEF gpuVars
  <1>6. GraphOK' BY SameGraph DEF Sides, driverVars
  <1>7. Grows BY NoGrowth DEF driverVars
  <1>8. ReuseOrdered' BY <1>7, ReuseKept DEF Sides
  <1>9. CaptureOK' BY DEF Sides, CaptureOK, driverVars
  <1> QED BY <1>2, <1>4, <1>5, <1>6, <1>8, <1>9 DEF Sides

LEMMA MallocStep ==
  ASSUME Sides, NEW s \in Streams, Malloc(s)
  PROVE  Sides'
  <1>1. Typed /\ GraphOK /\ HistoryTyped BY DEF Sides, Typed
  <1>2. UNCHANGED <<scenario, capture, driverVars, gpuVars>> BY DEF Malloc
  <1>3. CASE block' = Recycled(s) /\ UNCHANGED historyVars
    <2>1. \A b \in Blocks : block'[b] = Recycled(s)[b] BY <1>3
    <2>2. \A b \in Blocks : LifeOK(b)' BY <1>2, <1>3, <2>1, RecycledKeepsLife DEF historyVars
    <2>3. \A b \in Blocks : block'[b] \in Block /\ WellFormed(block'[b])
      BY <2>1, RecycledForm
    <2>4. block' \in [Blocks -> Block] BY <1>3, <2>1, <2>3 DEF Recycled
    <2>5. \A b \in Blocks, x \in Streams \ {Home} : AwaitedAs(block'[b], b, x, Unwatched(b)')
      <3>1. \A b \in Blocks : Unwatched(b)' = Unwatched(b) BY <1>3, UnwatchedKept
      <3> QED BY <2>1, <3>1, RecycledForm
    <2>6. HistoryTyped' BY <1>1, <1>3 DEF HistoryTyped, historyVars
    <2> QED BY <1>2, <1>3, <2>2, <2>3, <2>4, <2>5, <2>6, BlocksOnly DEF historyVars
  <1>4. ASSUME NEW b \in Pool(s), Recycled(s)[b].state = "cached",
               block' = [Recycled(s) EXCEPT ![b].state = "allocated"],
               life' = [life EXCEPT ![b] = IF underway THEN @ + 1 ELSE 0],
               born' = [born EXCEPT ![b] = deps[s]],
               in_capture' = [in_capture EXCEPT ![b] = {x \in @ : pend[x][b] > 0}],
               left_over' = [left_over EXCEPT ![b] = {x \in @ : pend[x][b] > 0}
                                \cup Recycled(s)[b].musagraph_stream_uses],
               UNCHANGED touched
        PROVE  Sides'
    <2>1. s = Home BY DEF Pool
    <2>2. b \in Blocks
      <3>1. scenario.blocks \subseteq Blocks
        BY <1>1, ScenarioAssumption DEF Typed, VarsTyped, Blocks
      <3> QED BY <2>1, <3>1 DEF Pool
    <2>3. PICK r : r = Recycled(s)[b] OBVIOUS
    <2>4. /\ r \in Block /\ WellFormed(r) /\ r.state = "cached"
          /\ \A x \in touched[b] : x.node \in UpTo(deps[Home])
          /\ \A x \in Streams \ {Home} : AwaitedAs(r, b, x, Unwatched(b))
      BY <1>4, <2>2, <2>3, RecycledForm
    <2>5. Recycled(s) \in [Blocks -> Block]
      <3>1. \A c \in Blocks : Recycled(s)[c] \in Block BY RecycledForm
      <3> QED BY <3>1 DEF Recycled
    <2>6. block'[b] = [r EXCEPT !.state = "allocated"] BY <1>4, <2>2, <2>3, <2>5
    <2>7. \A c \in Blocks \ {b} : block'[c] = Recycled(s)[c] BY <1>4, <2>5
    <2>8. WellFormed(block'[b]) /\ block'[b].state = "allocated"
      <3>1. r.empty_nodes = {} /\ r.events = NoEvents BY <2>4 DEF WellFormed
      <3> QED BY <2>4, <2>6, <3>1 DEF WellFormed, Block
    <2>9. \A c \in Blocks : WellFormed(block'[c]) BY <2>7, <2>8, RecycledForm
    <2>10. block' \in [Blocks -> Block] BY <1>4, <2>5, <2>2, <2>8, <2>6, <2>9 DEF WellFormed
    <2>11. HistoryTyped'
      <3>1. life' \in [Blocks -> Nat]
        <4>1. life \in [Blocks -> Nat] BY <1>1 DEF HistoryTyped
        <4>2. CASE underway
          <5>1. life' = [life EXCEPT ![b] = life[b] + 1] BY <1>4, <4>2
          <5>2. life[b] + 1 \in Nat BY <4>1, <2>2
          <5> QED BY <4>1, <5>1, <5>2
        <4>3. CASE ~underway
          <5>1. life' = [life EXCEPT ![b] = 0] BY <1>4, <4>3
          <5> QED BY <4>1, <5>1
        <4> QED BY <4>2, <4>3
      <3>2. deps[s] \in SUBSET Nodes BY <1>1 DEF Typed, GraphTyped
      <3>3. born' \in [Blocks -> SUBSET Nodes] BY <1>1, <1>4, <3>2 DEF HistoryTyped
      <3>4. in_capture' \in [Blocks -> SUBSET Streams] BY <1>1, <1>4 DEF HistoryTyped
      <3>5. touched' \in [Blocks -> SUBSET [node : Nodes, life : Nat]]
        BY <1>1, <1>4 DEF HistoryTyped
      <3>6. r.musagraph_stream_uses \in SUBSET Streams BY <2>4 DEF Block
      <3>7. left_over' \in [Blocks -> SUBSET Streams]
        BY <1>1, <1>4, <2>3, <3>6 DEF HistoryTyped
      <3> QED BY <3>1, <3>3, <3>4, <3>5, <3>7 DEF HistoryTyped
    <2>12. \A c \in Blocks, x \in Streams \ {Home} : AwaitedAs(block'[c], c, x, Unwatched(c)')
      <3>1. PICK q \in Block : /\ q = block'[b] /\ q.state = "allocated"
                               /\ q.musagraph_stream_uses = r.musagraph_stream_uses
                               /\ q.stream_uses = r.stream_uses
        BY <2>4, <2>6 DEF Block
      <3>2. /\ in_capture'[b] = {x \in in_capture[b] : pend[x][b] > 0}
            /\ left_over'[b] = {x \in left_over[b] : pend[x][b] > 0}
                                 \cup r.musagraph_stream_uses
        BY <1>1, <1>4, <2>2, <2>3 DEF HistoryTyped
      <3>3. ASSUME NEW x \in Streams \ {Home} PROVE AwaitedAs(q, b, x, Unwatched(b)')
        <4>1. x \in Unwatched(b)' <=> \/ (x \in Unwatched(b) /\ pend[x][b] > 0)
                                      \/ x \in r.musagraph_stream_uses
          BY <3>2 DEF Unwatched
        <4>2. AwaitedAs(r, b, x, Unwatched(b)) BY <2>4
        <4> QED BY <2>4, <3>1, <4>1, <4>2 DEF AwaitedAs
      <3>4. \A c \in Blocks \ {b} : Unwatched(c)' = Unwatched(c)
        BY <1>1, <1>4 DEF Unwatched, HistoryTyped
      <3> QED BY <3>1, <3>3, <3>4, <2>7, RecycledForm
    <2>13. ASSUME NEW c \in Blocks, c # b PROVE LifeOK(c)'
      <3>1. /\ born'[c] = born[c] /\ touched'[c] = touched[c] /\ life'[c] = life[c]
            /\ block'[c] = Recycled(s)[c]
        BY <1>4, <2>13, <2>7, <1>1 DEF HistoryTyped
      <3> QED BY <1>2, <3>1, RecycledKeepsLife
    <2>14. LifeOK(b)'
      <3>1. LifeOK(b) /\ CoreOK(b) BY <2>2, LifeParts DEF Sides
      <3>2. Grows BY <1>2, NoGrowth DEF driverVars
      <3>3. born'[b] = deps[Home] /\ life'[b] = IF underway THEN life[b] + 1 ELSE 0
        BY <1>4, <2>1, <2>2, <1>1 DEF HistoryTyped
      <3>4. ~underway => touched[b] = {} BY <2>2 DEF underway, Sides, CaptureOK
      <3>5. UpTo(deps[Home])' = UpTo(deps[Home])
        <4>1. deps' = deps /\ ancestors' = ancestors BY <1>2 DEF driverVars
        <4> QED BY <4>1 DEF UpTo, Ancestors
      <3>6. UpTo(born[b])' = UpTo(deps[Home])
        <4>1. ancestors' = ancestors BY <1>2 DEF driverVars
        <4> QED BY <4>1, <3>3 DEF UpTo, Ancestors
      <3>7. born'[b] \subseteq UpTo(deps[Home])' BY <3>3, <3>5, UpToIn
      <3>8. \A x \in touched[b] : x.node \in Captured /\ x.life <= life[b] /\ x.life \in Nat
        BY <3>1, <2>2, <1>1 DEF CoreOK, HistoryTyped
      <3>9. life[b] \in Nat BY <2>2, <1>1 DEF HistoryTyped
      <3>10. \A x \in touched[b] : x.node \in Captured' /\ x.life < life'[b]
        BY <3>2, <3>3, <3>4, <3>8, <3>9 DEF Grows
      <3>11. CoreOK(b)'
        <4>1. \A x \in touched[b] : x.life \in Nat /\ life'[b] \in Nat BY <3>3, <3>8, <3>9
        <4> QED BY <1>4, <3>7, <3>10, <4>1 DEF CoreOK
      <3>12. \A x \in touched[b] : KernelOK(b, x)'
        BY <2>8, <3>6, <3>10, <2>4 DEF KernelOK
      <3> QED BY <1>4, <2>2, <3>11, <3>12, LifePartsPrimed
    <2> QED BY <1>2, <1>4, <2>9, <2>10, <2>11, <2>12, <2>13, <2>14, BlocksOnly
  <1> QED BY <1>3, <1>4 DEF Malloc

LEMMA RecordStreamStep ==
  ASSUME Sides, NEW b \in Blocks, NEW s \in Streams, RecordStream(b, s)
  PROVE  Sides'
  <1>1. Typed /\ GraphOK /\ HistoryTyped /\ BlocksTyped BY DEF Sides, Typed
  <1>2. UNCHANGED <<scenario, capture, driverVars, gpuVars, life, born, touched, left_over>>
    BY DEF RecordStream
  <1>3. PICK r \in Block : r = block[b] /\ r.state = "allocated" /\ WellFormed(r)
    BY <1>1 DEF RecordStream, BlocksTyped
  <1>4. PICK u \in SUBSET Streams :
          u = IF underway THEN r.musagraph_stream_uses \cup {s} ELSE r.musagraph_stream_uses
    BY DEF Block
  <1>5. block' = [block EXCEPT ![b] = [r EXCEPT !.stream_uses = r.stream_uses \cup {s},
                                                !.musagraph_stream_uses = u]]
    BY <1>1, <1>3, <1>4 DEF RecordStream, BlocksTyped
  <1>6. PICK q : q = [r EXCEPT !.stream_uses = r.stream_uses \cup {s},
                               !.musagraph_stream_uses = u]
    OBVIOUS
  <1>7. /\ q \in Block /\ q.state = "allocated" /\ q.stream_uses = r.stream_uses \cup {s}
        /\ q.empty_nodes = r.empty_nodes /\ q.events = r.events
        /\ q.musagraph_stream_uses = u
    BY <1>3, <1>6 DEF Block
  <1>8. block' \in [Blocks -> Block] /\ block'[b] = q
        /\ \A c \in Blocks \ {b} : block'[c] = block[c]
    BY <1>1, <1>5, <1>6, <1>7 DEF BlocksTyped
  <1>9. \A c \in Blocks : WellFormed(block'[c]) BY <1>1, <1>3, <1>7, <1>8 DEF BlocksTyped, WellFormed
  <1>10. HistoryTyped' BY <1>1, <1>2 DEF RecordStream, HistoryTyped
  <1>11. \A c \in Blocks, x \in Streams \ {Home} : AwaitedAs(block'[c], c, x, Unwatched(c)')
    <2>1. \A c \in Blocks, x \in Streams \ {Home} : AwaitedAs(block[c], c, x, Unwatched(c))
      BY AwaitedNow
    <2>2. in_capture' = IF underway THEN [in_capture EXCEPT ![b] = @ \cup {s}] ELSE in_capture
      BY DEF RecordStream
    <2>3. \A c \in Blocks : Unwatched(c) \subseteq Unwatched(c)'
      BY <1>1, <1>2, <2>2 DEF Unwatched, HistoryTyped
    <2>4. underway => s \in Unwatched(b)' BY <1>1, <2>2 DEF Unwatched, HistoryTyped
    <2>5. ASSUME NEW x \in Streams \ {Home} PROVE AwaitedAs(q, b, x, Unwatched(b)')
      <3>1. AwaitedAs(r, b, x, Unwatched(b)) BY <1>3, <2>1
      <3>2. x \in u => x \in r.musagraph_stream_uses \/ (underway /\ x = s) BY <1>4
      <3> QED BY <3>1, <3>2, <1>3, <1>7, <2>3, <2>4 DEF AwaitedAs
    <2>6. \A c \in Blocks \ {b}, x \in Streams \ {Home} :
            AwaitedAs(block[c], c, x, Unwatched(c)')
      BY <2>1, <2>3 DEF AwaitedAs
    <2> QED BY <2>5, <2>6, <1>8
  <1>12. Grows BY <1>2, NoGrowth DEF driverVars
  <1>13. ASSUME NEW c \in Blocks PROVE LifeOK(c)'
    <2>1. block'[c].state = block[c].state /\ block'[c].empty_nodes = block[c].empty_nodes
          /\ block[c].stream_uses \subseteq block'[c].stream_uses
      BY <1>3, <1>7, <1>8
    <2> QED BY <1>1, <1>2, <1>12, <2>1, LifeKept DEF Sides
  <1> QED BY <1>2, <1>8, <1>9, <1>10, <1>11, <1>13, BlocksOnly

LEMMA EmptyCacheStep ==
  ASSUME Sides, EmptyCache
  PROVE  Sides'
  <1>1. Typed /\ GraphOK /\ HistoryTyped /\ BlocksTyped BY DEF Sides, Typed
  <1>2. /\ UNCHANGED <<scenario, capture, driverVars, gpuVars, historyVars>> /\ ~underway
        /\ block' = [b \in Blocks |-> process_events(block[b])]
    BY DEF EmptyCache
  <1>3. \A b \in Blocks : /\ process_events(block[b]) \in Block
                          /\ WellFormed(process_events(block[b]))
    BY <1>1, ProcessForm DEF BlocksTyped
  <1>4. block' \in [Blocks -> Block] /\ \A b \in Blocks : WellFormed(block'[b])
    BY <1>2, <1>3
  <1>5. HistoryTyped' BY <1>1, <1>2 DEF HistoryTyped, historyVars
  <1>6. \A b \in Blocks, s \in Streams \ {Home} : AwaitedAs(block'[b], b, s, Unwatched(b)')
    BY <1>2, ProcessAwaits, UnwatchedKept
  <1>7. Grows BY <1>2, NoGrowth DEF driverVars
  <1>8. ASSUME NEW b \in Blocks PROVE LifeOK(b)'
    <2>1. touched[b] = {} BY <1>2 DEF underway, Sides, CaptureOK
    <2>2. CoreOK(b)' BY <1>2, <1>7, LifeParts, CoreKept DEF Sides, historyVars
    <2> QED BY <1>2, <2>1, <2>2, LifeUntouched DEF CoreOK, historyVars
  <1> QED BY <1>2, <1>4, <1>5, <1>6, <1>8, BlocksOnly DEF historyVars

\* One block changes, which ends its life.
LEMMA OneBlock ==
  ASSUME Sides, NEW b \in Blocks, NEW q, WellFormed(q),
         block' = [block EXCEPT ![b] = q],
         UNCHANGED <<scenario, capture, driverVars, gpuVars, historyVars>>,
         \A s \in Streams \ {Home} : AwaitedAs(q, b, s, Unwatched(b)),
         LifeOK(b)'
  PROVE  Sides'
  <1>1. Typed /\ GraphOK /\ HistoryTyped /\ BlocksTyped BY DEF Sides, Typed
  <1>2. block'[b] = q /\ \A c \in Blocks \ {b} : block'[c] = block[c] BY <1>1 DEF BlocksTyped
  <1>3. q \in Block BY DEF WellFormed
  <1>4. block' \in [Blocks -> Block] BY <1>1, <1>3 DEF BlocksTyped
  <1>5. \A c \in Blocks : WellFormed(block'[c]) BY <1>1, <1>2 DEF BlocksTyped
  <1>6. HistoryTyped' BY <1>1 DEF HistoryTyped, historyVars
  <1>7. \A c \in Blocks, s \in Streams \ {Home} : AwaitedAs(block'[c], c, s, Unwatched(c)')
    BY <1>2, AwaitedNow, UnwatchedKept
  <1>8. Grows BY NoGrowth DEF driverVars
  <1>9. ASSUME NEW c \in Blocks PROVE LifeOK(c)'
    <2>1. CASE c = b BY <2>1
    <2>2. CASE c # b
      <3>1. block'[c] = block[c] BY <2>2, <1>2
      <3> QED BY <1>1, <1>8, <3>1, LifeKept DEF Sides, historyVars
    <2> QED BY <2>1, <2>2
  <1> QED BY <1>4, <1>5, <1>6, <1>7, <1>9, BlocksOnly DEF historyVars

\* Nodes are captured: the graph grows, and blocks and kernels that do not change
\* keep what is known of them.
LEMMA NodesStep ==
  ASSUME Sides, NEW A \in SUBSET capturing, AddNodes(A), empty' \subseteq empty \cup Fresh(A),
         UNCHANGED <<scenario, capture, capturing, gpuVars>>,
         \A b \in Blocks : capture # "active" => touched'[b] = {}
  PROVE  /\ VarsTyped' /\ GraphTyped' /\ CaptureOK' /\ GraphOK' /\ Bounded' /\ Grows
         /\ \A s \in A, n \in Nodes : n = NewNode(s) => Added(s, n)
         /\ \A s \in A : NewNode(s) \in Nodes
  <1>1. Typed /\ GraphOK /\ CaptureOK BY DEF Sides
  <1>2. A \in SUBSET Streams BY <1>1 DEF Typed, VarsTyped
  <1>3. /\ GraphTyped' /\ GraphOK' /\ Grows
        /\ \A s \in A, n \in Nodes : n = NewNode(s) => Added(s, n)
    BY <1>1, <1>2, AddNodesGraph
  <1>4. \A s \in A : NewNode(s) \in Nodes
    <2> TAKE s \in A
    <2>1. PICK k \in Nat : k = Len(ancestors[s]) BY <1>1, <1>2 DEF Typed, GraphTyped
    <2>2. NewNode(s) = <<s, k + 1>> BY <2>1 DEF NewNode
    <2> QED BY <1>2, <2>2 DEF Nodes
  <1>5. VarsTyped' BY <1>1 DEF Typed, VarsTyped, gpuVars
  <1>6. CaptureOK'
    <2>1. ASSUME capture # "active" PROVE capturing = {} /\ empty' = {}
      <3>1. capturing = {} /\ empty = {} BY <2>1, <1>1 DEF CaptureOK
      <3>2. Fresh(A) = {} BY <3>1 DEF Fresh
      <3> QED BY <3>1, <3>2
    <2> QED BY <2>1, <1>1 DEF CaptureOK
  <1>8. Bounded' BY GpuKept
  <1> QED BY <1>3, <1>4, <1>5, <1>6, <1>8

LEMMA CaptureOtherStep ==
  ASSUME Sides, NEW s \in Streams, CaptureOther(s)
  PROVE  Sides'
  <1>1. /\ s \in capturing /\ AddNodes({s})
        /\ UNCHANGED <<scenario, capture, capturing, empty, block, gpuVars, historyVars>>
    BY DEF CaptureOther
  <1>2. Typed /\ GraphOK /\ HistoryTyped /\ BlocksTyped BY DEF Sides, Typed
  <1>3. \A b \in Blocks : capture # "active" => touched'[b] = {}
    BY <1>1 DEF Sides, CaptureOK, historyVars
  <1>4. {s} \in SUBSET capturing BY <1>1
  <1>5. VarsTyped' /\ GraphTyped' /\ CaptureOK' /\ GraphOK' /\ Bounded' /\ Grows
    BY <1>1, <1>3, <1>4, NodesStep
  <1>6. BlocksTyped' BY <1>1, <1>2 DEF BlocksTyped, WellFormed
  <1>7. HistoryTyped' BY <1>1, <1>2 DEF HistoryTyped, historyVars
  <1>8. AllAwaited' BY <1>1, AwaitedSame DEF gpuVars, historyVars
  <1>9. \A b \in Blocks : LifeOK(b)'
    BY <1>1, <1>2, <1>5, LifeKept DEF Sides, historyVars
  <1>10. ReuseOrdered' BY <1>1, <1>5, ReuseKept DEF Sides, historyVars
  <1> QED BY <1>5, <1>6, <1>7, <1>8, <1>9, <1>10 DEF Sides, Typed

LEMMA MarkerStep ==
  ASSUME Sides, NEW b \in Blocks, block[b].state = "allocated", block[b].stream_uses # {},
         underway, NEW marked \in SUBSET Streams, insert_free_marker(b, marked),
         UNCHANGED <<scenario, capture, gpuVars, historyVars>>
  PROVE  Sides'
  <1> DEFINE users == {Home} \cup block[b].stream_uses
  <1> DEFINE added == {<<s, Len(ancestors[s]) + 1>> : s \in marked}
  <1>1. /\ marked \subseteq capturing /\ AddNodes(marked) /\ empty' = empty \cup added
        /\ block' = [block EXCEPT ![b].state = "deferred",
                                  ![b].empty_nodes = IF marked = users THEN added ELSE {}]
        /\ UNCHANGED capturing
    BY DEF insert_free_marker
  <1>2. Typed /\ GraphOK /\ HistoryTyped /\ BlocksTyped /\ VarsTyped BY DEF Sides, Typed
  <1>3. added = Fresh(marked) BY DEF Fresh, NewNode
  <1>4. \A c \in Blocks : capture # "active" => touched'[c] = {}
    BY DEF Sides, CaptureOK, historyVars
  <1>5. /\ VarsTyped' /\ GraphTyped' /\ CaptureOK' /\ GraphOK' /\ Bounded' /\ Grows
        /\ \A s \in marked, n \in Nodes : n = NewNode(s) => Added(s, n)
        /\ \A s \in marked : NewNode(s) \in Nodes
    BY <1>1, <1>3, <1>4, NodesStep
  <1>6. PICK r \in Block : r = block[b] /\ WellFormed(r) BY <1>2 DEF BlocksTyped
  <1>7. PICK e : e = IF marked = users THEN added ELSE {} OBVIOUS
  <1>8. e \in SUBSET Nodes BY <1>3, <1>5, <1>7 DEF Fresh
  <1>9. PICK q : q = [r EXCEPT !.state = "deferred", !.empty_nodes = e] OBVIOUS
  <1>10. /\ q \in Block /\ q.state = "deferred" /\ q.empty_nodes = e /\ q.events = r.events
         /\ q.stream_uses = r.stream_uses /\ q.musagraph_stream_uses = r.musagraph_stream_uses
    BY <1>8, <1>9 DEF Block
  <1>11. block' = [block EXCEPT ![b] = q] BY <1>1, <1>2, <1>6, <1>7, <1>9 DEF BlocksTyped
  <1>12. block'[b] = q /\ \A c \in Blocks \ {b} : block'[c] = block[c]
    BY <1>2, <1>11 DEF BlocksTyped
  <1>13. r.events = NoEvents BY <1>6 DEF WellFormed
  <1>14. BlocksTyped'
    <2>1. WellFormed(q) BY <1>6, <1>10, <1>13 DEF WellFormed
    <2>2. \A c \in Blocks : WellFormed(block'[c]) BY <2>1, <1>2, <1>12 DEF BlocksTyped
    <2>3. \A c \in Blocks : WellFormed(block[c])' BY <2>2 DEF WellFormed
    <2>4. block' \in [Blocks -> Block] BY <1>2, <1>10, <1>11 DEF BlocksTyped
    <2> QED BY <2>3, <2>4 DEF BlocksTyped
  <1>15. HistoryTyped' BY <1>2 DEF HistoryTyped, historyVars
  <1>16. AllAwaited'
    <2>1. \A c \in Blocks, x \in Streams \ {Home} : AwaitedAs(block[c], c, x, Unwatched(c))
      BY AwaitedNow
    <2>2. \A x \in Streams \ {Home} : AwaitedAs(q, b, x, Unwatched(b))
      BY <2>1, <1>6, <1>10 DEF AwaitedAs
    <2>3. \A c \in Blocks, x \in Streams \ {Home} : AwaitedAs(block'[c], c, x, Unwatched(c)')
      BY <2>1, <2>2, <1>12, UnwatchedKept
    <2> QED BY <1>2, <2>3, AwaitedKept DEF gpuVars
  <1>17. ASSUME NEW c \in Blocks, c # b PROVE LifeOK(c)'
    <2>1. block'[c] = block[c] BY <1>12, <1>17
    <2> QED BY <1>2, <1>5, <2>1, LifeKept DEF Sides, historyVars
  <1>18. LifeOK(b)'
    <2>1. LifeOK(b) /\ CoreOK(b) BY LifeParts DEF Sides
    <2>2. CoreOK(b)' BY <2>1, <1>5, CoreKept DEF historyVars
    <2>3. ASSUME NEW x \in touched[b], e # {}
          PROVE  \E n \in e : n \in Captured' /\ x.node \in Ancestors(n)'
      <3>1. marked = users BY <2>3, <1>7
      <3>2. /\ x.node \in Captured
            /\ x.node[1] \in users => x.node \in UpTo(deps[x.node[1]])
            /\ x.life < life[b] => x.node \in UpTo(deps[Home])
            /\ ~(x.life < life[b]) => x.node[1] \in users
        BY <1>2, <2>1, HomeOnly
      <3>3. PICK s \in marked : x.node \in UpTo(deps[s]) BY <3>1, <3>2
      <3>4. PICK n \in Nodes : n = NewNode(s) BY <1>5
      <3>5. Added(s, n) BY <3>4, <1>5
      <3>6. n \in e BY <3>1, <3>4, <1>7 DEF NewNode
      <3> QED BY <3>3, <3>5, <3>6 DEF Added
    <2>4. \A x \in touched[b] : KernelOK(b, x)' BY <2>3, <1>10, <1>12 DEF KernelOK
    <2> QED BY <2>2, <2>4, LifePartsPrimed DEF historyVars
  <1>19. ReuseOrdered' BY <1>5, ReuseKept DEF Sides, historyVars
  <1> QED BY <1>5, <1>14, <1>15, <1>16, <1>17, <1>18, <1>19 DEF Sides, Typed

LEMMA FreeStep ==
  ASSUME Sides, NEW b \in Blocks, Free(b)
  PROVE  Sides'
  <1>1. block[b].state = "allocated" /\ UNCHANGED <<scenario, capture, gpuVars, historyVars>>
    BY DEF Free
  <1>2. Typed /\ GraphOK /\ BlocksTyped /\ LifeOK(b) BY DEF Sides, Typed
  <1>3. PICK r \in Block : r = block[b] /\ WellFormed(r) BY <1>2 DEF BlocksTyped
  <1>4. r.events = NoEvents /\ r.empty_nodes = {} BY <1>1, <1>3 DEF WellFormed
  <1>5. \A s \in Streams \ {Home} : AwaitedAs(r, b, s, Unwatched(b))
    BY <1>3, AwaitedNow
  <1>6. CoreOK(b) BY <1>2, LifeParts
  <1>7. CASE r.stream_uses = {} /\ block' = [block EXCEPT ![b] = Cached(r)] /\ UNCHANGED driverVars
    <2>1. /\ WellFormed(Cached(r)) /\ Cached(r).state = "cached"
          /\ Cached(r).events = NoEvents
          /\ Cached(r).musagraph_stream_uses = r.musagraph_stream_uses
      BY <1>4, CachedForm
    <2>2. PICK q : q = Cached(r) OBVIOUS
    <2>3. block'[b] = q BY <1>2, <1>7, <2>2 DEF BlocksTyped
    <2>4. \A s \in Streams \ {Home} : AwaitedAs(q, b, s, Unwatched(b))
      BY <1>5, <1>1, <1>3, <1>7, <2>1, <2>2 DEF AwaitedAs
    <2>5. \A x \in touched[b] : x.node \in UpTo(deps[Home])
      <3> TAKE x \in touched[b]
      <3>1. /\ x.node \in Captured
            /\ x.node[1] = Home => x.node \in UpTo(deps[Home])
            /\ x.life < life[b] => x.node \in UpTo(deps[Home])
            /\ ~(x.life < life[b]) => x.node[1] = Home
        BY <1>1, <1>2, <1>3, <1>7, HomeOnly
      <3> QED BY <3>1
    <2>6. Grows BY <1>7, NoGrowth DEF driverVars
    <2>7. LifeOK(b)' BY <1>1, <1>2, <2>1, <2>2, <2>3, <2>5, <2>6, LifeCached DEF historyVars
    <2> QED BY <1>1, <1>7, <2>1, <2>2, <2>4, <2>7, OneBlock
  <1>8. CASE ~underway /\ block' = [block EXCEPT ![b] = insert_events(r)] /\ UNCHANGED driverVars
    <2>1. PICK q : q = insert_events(r) OBVIOUS
    <2>2. /\ WellFormed(q) /\ q.state = "waiting"
          /\ \A s \in Streams : q.events[s] =
                                  IF s \in r.stream_uses THEN depth[s] ELSE r.events[s]
          /\ q.musagraph_stream_uses = r.musagraph_stream_uses
      BY <1>2, <2>1, InsertEventsForm
    <2>3. ASSUME NEW s \in Streams \ {Home} PROVE AwaitedAs(q, b, s, Unwatched(b))
      <3>1. ASSUME ~Reuse, pend[s][b] > 0, s \notin Unwatched(b) PROVE q.events[s] >= pend[s][b]
        <4>1. s \in r.stream_uses BY <3>1, <2>3, <1>5, <1>1, <1>3 DEF AwaitedAs
        <4>2. q.events[s] = depth[s] BY <2>2, <4>1
        <4>3. pend[s][b] <= depth[s] /\ pend[s][b] \in Nat /\ depth[s] \in Nat
          BY <1>2, PendTyped DEF Sides, Bounded
        <4> QED BY <4>2, <4>3
      <3> QED BY <3>1, <2>2, <1>5 DEF AwaitedAs
    <2>4. touched[b] = {} BY <1>8 DEF underway, Sides, CaptureOK
    <2>5. Grows BY <1>8, NoGrowth DEF driverVars
    <2>6. CoreOK(b)' BY <1>1, <1>6, <2>5, CoreKept DEF historyVars
    <2>7. LifeOK(b)' BY <1>1, <2>4, <2>6, LifeUntouched DEF CoreOK, historyVars
    <2> QED BY <1>1, <1>8, <2>1, <2>2, <2>3, <2>7, OneBlock
  <1>9. CASE /\ r.stream_uses # {} /\ underway /\ UNCHANGED driverVars
             /\ block' = [block EXCEPT ![b] = [r EXCEPT !.state = "deferred"]]
    <2>1. PICK q : q = [r EXCEPT !.state = "deferred"] OBVIOUS
    <2>2. /\ q \in Block /\ q.state = "deferred" /\ q.events = r.events
          /\ q.empty_nodes = {} /\ q.stream_uses = r.stream_uses
          /\ q.musagraph_stream_uses = r.musagraph_stream_uses
      BY <1>4, <2>1 DEF Block
    <2>3. WellFormed(q) BY <1>4, <1>9, <2>2 DEF WellFormed
    <2>4. \A s \in Streams \ {Home} : AwaitedAs(q, b, s, Unwatched(b))
      BY <1>1, <1>3, <1>5, <2>2 DEF AwaitedAs
    <2>5. Grows BY <1>9, NoGrowth DEF driverVars
    <2>6. CoreOK(b)' BY <1>1, <1>6, <2>5, CoreKept DEF historyVars
    <2>7. block'[b] = q BY <1>2, <1>9, <2>1 DEF BlocksTyped
    <2>8. \A x \in touched'[b] : KernelOK(b, x)' BY <2>2, <2>7 DEF KernelOK
    <2>9. LifeOK(b)' BY <2>6, <2>8, LifePartsPrimed
    <2> QED BY <1>1, <1>9, <2>1, <2>3, <2>4, <2>9, OneBlock
  <1>10. CASE r.stream_uses # {} /\ underway
              /\ \E marked \in SUBSET Streams : insert_free_marker(b, marked)
    BY <1>1, <1>3, <1>10, MarkerStep
  <1> QED
    <2>1. \/ r.stream_uses = {} /\ block' = [block EXCEPT ![b] = Cached(@)] /\ UNCHANGED driverVars
          \/ ~underway /\ block' = [block EXCEPT ![b] = insert_events(@)] /\ UNCHANGED driverVars
          \/ /\ r.stream_uses # {} /\ underway /\ UNCHANGED driverVars
             /\ block' = [block EXCEPT ![b].state = "deferred"]
          \/ /\ r.stream_uses # {} /\ underway
             /\ \E marked \in SUBSET Streams : insert_free_marker(b, marked)
      BY <1>3 DEF Free
    <2>2. block[b] = r /\ block \in [Blocks -> Block] BY <1>2, <1>3 DEF BlocksTyped
    <2> QED BY <2>1, <2>2, <1>7, <1>8, <1>9, <1>10

LEMMA CaptureKernelStep ==
  ASSUME Sides, NEW b \in Blocks, NEW s \in Streams, CaptureKernel(s, b)
  PROVE  Sides'
  <1> DEFINE k == [node |-> <<s, Len(ancestors[s]) + 1>>, life |-> life[b]]
  <1>1. /\ s \in capturing /\ Uses(s, b) /\ born[b] \subseteq UpTo(deps[s])
        /\ AddNodes({s}) /\ touched' = [touched EXCEPT ![b] = @ \cup {k}]
        /\ UNCHANGED <<scenario, capture, capturing, empty, block, gpuVars, life, born,
                    in_capture, left_over>>
    BY DEF CaptureKernel
  <1>2. Typed /\ GraphOK /\ HistoryTyped /\ BlocksTyped BY DEF Sides, Typed
  <1>3. capture = "active" BY <1>1 DEF Sides, CaptureOK
  <1>4. {s} \in SUBSET capturing BY <1>1
  <1>5. /\ VarsTyped' /\ GraphTyped' /\ CaptureOK' /\ GraphOK' /\ Bounded' /\ Grows
        /\ \A n \in Nodes : n = NewNode(s) => Added(s, n)
        /\ NewNode(s) \in Nodes
    BY <1>1, <1>3, <1>4, NodesStep
  <1>6. PICK n \in Nodes : n = NewNode(s) /\ Added(s, n) BY <1>5
  <1>7. k = [node |-> n, life |-> life[b]] BY <1>6 DEF NewNode
  <1>8. BlocksTyped' BY <1>1, <1>2 DEF BlocksTyped, WellFormed
  <1>9. life[b] \in Nat /\ touched[b] \in SUBSET [node : Nodes, life : Nat]
    BY <1>2 DEF HistoryTyped
  <1>10. touched'[b] = touched[b] \cup {k} /\ \A c \in Blocks \ {b} : touched'[c] = touched[c]
    BY <1>1, <1>2 DEF HistoryTyped
  <1>11. HistoryTyped'
    <2>1. touched[b] \cup {k} \in SUBSET [node : Nodes, life : Nat] BY <1>7, <1>9
    <2>2. touched' \in [Blocks -> SUBSET [node : Nodes, life : Nat]]
      BY <1>1, <1>2, <2>1 DEF HistoryTyped
    <2> QED BY <1>1, <1>2, <2>2 DEF HistoryTyped
  <1>12. AllAwaited' BY <1>1, AwaitedSame DEF gpuVars, historyVars
  <1>13. ASSUME NEW c \in Blocks, c # b PROVE LifeOK(c)'
    BY <1>1, <1>2, <1>5, <1>10, <1>13, LifeKept DEF Sides
  <1>14. block[b].state = "allocated" /\ s \in {Home} \cup block[b].stream_uses
    BY <1>1 DEF Uses
  <1>15. CoreOK(b) /\ \A x \in touched[b] : KernelOK(b, x) BY LifeParts DEF Sides
  <1>16. born[b] \subseteq Captured /\ deps[s] \subseteq Captured
    <2>1. deps[Home] \subseteq Captured /\ deps[s] \subseteq Captured
      BY HomeAssumption, <1>2 DEF GraphOK
    <2> QED BY <2>1, <1>2, <1>15, UpToClosed DEF CoreOK, Typed
  <1>17. UpTo(born[b])' = UpTo(born[b])
    <2>1. born'[b] = born[b] BY <1>1
    <2>2. \A d \in born[b] : Ancestors(d)' = Ancestors(d) BY <1>5, <1>16 DEF Grows
    <2> QED BY <2>1, <2>2 DEF UpTo
  <1>18. CoreOK(b)'
    <2>1. UpTo(deps[Home]) \subseteq UpTo(deps[Home])' BY <1>5, HomeAssumption DEF Grows
    <2>2. Captured \subseteq Captured' BY <1>5 DEF Grows
    <2>3. n \in Captured' BY <1>6 DEF Added
    <2>4. \A x \in touched'[b] : x.node \in Captured' /\ x.life <= life[b]
      BY <1>7, <1>9, <1>10, <1>15, <2>2, <2>3 DEF CoreOK
    <2> QED BY <1>1, <1>15, <2>1, <2>4 DEF CoreOK
  <1>19. ASSUME NEW x \in touched'[b] PROVE KernelOK(b, x)'
    <2>1. IF x.life < life[b] THEN x.node \in UpTo(born[b])
          ELSE x.node[1] \in {Home} \cup block[b].stream_uses
      <3>1. CASE x = k
        <4>1. x.node = n /\ x.life = life[b] BY <3>1, <1>7
        <4>2. n[1] = s BY <1>6 DEF NewNode
        <4> QED BY <4>1, <4>2, <1>14, <1>9
      <3>2. CASE x \in touched[b] BY <3>2, <1>14, <1>15 DEF KernelOK
      <3> QED BY <3>1, <3>2, <1>10
    <2> QED BY <2>1, <1>1, <1>14, <1>17 DEF KernelOK
  <1>20. LifeOK(b)' BY <1>18, <1>19, LifePartsPrimed
  <1>21. ReuseOrdered'
    <2>1. ASSUME NEW c \in Blocks, NEW x \in touched[c], NEW y \in touched[c], x.life < y.life
          PROVE  x.node \in Ancestors(y.node)'
      <3>1. y.node \in Captured BY DEF Sides, LifeOK
      <3>2. x.node \in Ancestors(y.node) BY <2>1 DEF Sides, ReuseOrdered
      <3> QED BY <3>1, <3>2, <1>5 DEF Grows
    <2>2. ASSUME NEW x \in touched[b], x.life < life[b] PROVE x.node \in Ancestors(n)'
      <3>1. x.node \in UpTo(born[b]) BY <2>2, <1>14, <1>15 DEF KernelOK
      <3>2. UpTo(born[b]) \subseteq UpTo(deps[s])
        BY <1>1, <1>2, <1>16, UpToClosed DEF Typed
      <3> QED BY <3>1, <3>2, <1>6 DEF Added
    <2>3. \A x \in touched[b] : x.life <= life[b] /\ x.life \in Nat BY <1>9, <1>15 DEF CoreOK
    <2>4. ASSUME NEW c \in Blocks, NEW x \in touched'[c], NEW y \in touched'[c], x.life < y.life
          PROVE  x.node \in Ancestors(y.node)'
      <3>1. CASE x \in touched[c] /\ y \in touched[c] BY <2>1, <2>4, <3>1
      <3>2. CASE x \in touched[c] /\ y \notin touched[c]
        <4>1. c = b /\ y = k BY <1>10, <3>2
        <4>2. y.node = n /\ y.life = life[b] BY <4>1, <1>7
        <4> QED BY <4>1, <4>2, <3>2, <2>2, <2>4
      <3>3. CASE x \notin touched[c]
        <4>1. c = b /\ x = k BY <1>10, <3>3
        <4>2. x.life = life[b] BY <4>1, <1>7
        <4>3. y.life <= life[b] /\ y.life \in Nat BY <4>1, <1>7, <1>9, <1>10, <2>3
        <4> QED BY <4>2, <4>3, <2>4, <1>9
      <3> QED BY <3>1, <3>2, <3>3
    <2> QED BY <2>4 DEF ReuseOrdered
  <1> QED BY <1>5, <1>8, <1>11, <1>12, <1>13, <1>20, <1>21 DEF Sides, Typed

LEMMA WaitEventStep ==
  ASSUME Sides, NEW s \in Streams, NEW x \in Streams, WaitEvent(s, x)
  PROVE  Sides'
  <1>1. /\ x \in capturing /\ capturing' = capturing \cup {s}
        /\ deps' = [deps EXCEPT ![s] = @ \cup deps[x]]
        /\ UNCHANGED <<scenario, capture, ancestors, empty, block, gpuVars, historyVars>>
    BY DEF WaitEvent
  <1>2. Typed /\ GraphOK /\ HistoryTyped /\ BlocksTyped /\ GraphTyped BY DEF Sides, Typed
  <1>3. deps'[s] = deps[s] \cup deps[x] /\ \A y \in Streams \ {s} : deps'[y] = deps[y]
    BY <1>1, <1>2 DEF GraphTyped
  <1>4. VarsTyped' BY <1>1, <1>2 DEF Typed, VarsTyped, gpuVars
  <1>5. GraphTyped' BY <1>1, <1>2 DEF GraphTyped
  <1>6. BlocksTyped' /\ HistoryTyped'
    BY <1>1, <1>2 DEF BlocksTyped, WellFormed, HistoryTyped, historyVars
  <1>7. CaptureOK' BY <1>1 DEF Sides, CaptureOK
  <1>8. Captured' = Captured BY <1>1 DEF Captured
  <1>9. \A n : Ancestors(n)' = Ancestors(n) BY <1>1 DEF Ancestors
  <1>10. \A y \in Streams : UpTo(deps[y]) \subseteq UpTo(deps[y])'
    <2>1. \A y \in Streams : deps[y] \subseteq deps'[y] BY <1>3
    <2> QED BY <2>1, <1>9 DEF UpTo
  <1>11. Grows BY <1>8, <1>9, <1>10 DEF Grows
  <1>12. GraphOK'
    <2>1. empty' \subseteq Captured' BY <1>1, <1>2, <1>8 DEF GraphOK
    <2>2. \A y \in Streams : deps'[y] \subseteq Captured' BY <1>2, <1>3, <1>8 DEF GraphOK
    <2>3. ASSUME NEW n \in Captured
          PROVE  /\ Ancestors(n)' \subseteq Captured'
                 /\ \A m \in Ancestors(n)' : Ancestors(m)' \subseteq Ancestors(n)'
                 /\ n \in UpTo(deps[n[1]])'
      <3>1. /\ Ancestors(n) \subseteq Captured /\ n \in UpTo(deps[n[1]])
            /\ \A m \in Ancestors(n) : Ancestors(m) \subseteq Ancestors(n)
        BY <1>2 DEF GraphOK
      <3>2. n[1] \in Streams BY <1>2, CapturedPair
      <3> QED BY <3>1, <3>2, <1>8, <1>9, <1>10
    <2> QED BY <2>1, <2>2, <2>3, <1>8 DEF GraphOK
  <1>13. Bounded'
    BY <1>1, GpuKept
  <1>14. AllAwaited' BY <1>1, AwaitedSame DEF gpuVars, historyVars
  <1>15. \A b \in Blocks : LifeOK(b)' BY <1>1, <1>2, <1>11, LifeKept DEF Sides, historyVars
  <1>16. ReuseOrdered' BY <1>1, <1>11, ReuseKept DEF Sides, historyVars
  <1> QED BY <1>4, <1>5, <1>6, <1>7, <1>12, <1>13, <1>14, <1>15, <1>16 DEF Sides, Typed

\* A step that leaves the graph and the history alone, and the blocks but for their
\* events.
LEMMA EventsOnly ==
  ASSUME Sides, UNCHANGED <<scenario, ancestors, deps, empty, historyVars>>,
         VarsTyped', BlocksTyped', CaptureOK', Bounded', AllAwaited',
         \A b \in Blocks : /\ block'[b].state = block[b].state
                           /\ block'[b].empty_nodes = block[b].empty_nodes
                           /\ block'[b].stream_uses = block[b].stream_uses
  PROVE  Sides'
  <1>1. Typed /\ GraphOK BY DEF Sides
  <1>2. Typed' BY <1>1 DEF Typed, GraphTyped, HistoryTyped, historyVars
  <1>3. GraphOK' /\ Grows BY <1>1, SameGraph, NoGrowth
  <1>4. \A b \in Blocks : LifeOK(b)' BY <1>1, <1>3, LifeKept DEF Sides, historyVars
  <1>5. ReuseOrdered' BY <1>3, ReuseKept DEF Sides, historyVars
  <1> QED BY <1>2, <1>3, <1>4, <1>5 DEF Sides

LEMMA CaptureBeginStep ==
  ASSUME Sides, BeginAllocateToPool \/ StreamBeginCapture \/ EndAllocateToPool
  PROVE  Sides'
  <1>1. UNCHANGED <<scenario, ancestors, deps, empty, block, gpuVars, historyVars>>
    BY DEF BeginAllocateToPool, StreamBeginCapture, EndAllocateToPool, driverVars
  <1>2. \/ capture = "none" /\ capture' = "begun" /\ capturing' = capturing
        \/ capture = "begun" /\ capture' = "active" /\ capturing' = {Home}
        \/ capture = "ended" /\ capture' = "none" /\ capturing' = capturing
    BY DEF BeginAllocateToPool, StreamBeginCapture, EndAllocateToPool, driverVars
  <1>3. Typed /\ BlocksTyped /\ VarsTyped BY DEF Sides, Typed
  <1>4. VarsTyped' BY <1>1, <1>2, <1>3, HomeAssumption DEF VarsTyped, gpuVars
  <1>5. BlocksTyped' BY <1>1, <1>3 DEF BlocksTyped, WellFormed
  <1>6. CaptureOK' BY <1>1, <1>2 DEF Sides, CaptureOK, historyVars
  <1>7. Bounded' BY <1>1 DEF Sides, Bounded, gpuVars
  <1>9. AllAwaited' BY <1>1, AwaitedSame DEF gpuVars, historyVars
  <1> QED BY <1>1, <1>4, <1>5, <1>6, <1>7, <1>9, EventsOnly

LEMMA StreamEndCaptureStep ==
  ASSUME Sides, StreamEndCapture
  PROVE  Sides'
  <1>1. /\ capture = "active" /\ capture' = "ended" /\ capturing' = {} /\ empty' = {}
        /\ deps' = [s \in Streams |-> {}] /\ ancestors' = [s \in Streams |-> <<>>]
        /\ touched' = [b \in Blocks |-> {}] /\ born' = [b \in Blocks |-> {}]
        /\ life' = [b \in Blocks |-> 0]
        /\ UNCHANGED <<scenario, block, gpuVars, in_capture, left_over>>
    BY DEF StreamEndCapture
  <1>2. Typed /\ BlocksTyped /\ VarsTyped /\ HistoryTyped BY DEF Sides, Typed
  <1>3. VarsTyped' BY <1>1, <1>2 DEF VarsTyped, gpuVars
  <1>4. GraphTyped' BY <1>1 DEF GraphTyped
  <1>5. BlocksTyped' BY <1>1, <1>2 DEF BlocksTyped, WellFormed
  <1>6. HistoryTyped' BY <1>1, <1>2 DEF HistoryTyped
  <1>7. CaptureOK' BY <1>1 DEF CaptureOK
  <1>8. Captured' = {} BY <1>1 DEF Captured
  <1>9. GraphOK' BY <1>1, <1>8 DEF GraphOK
  <1>10. Bounded'
    BY <1>1, GpuKept
  <1>11. AllAwaited' BY <1>1, AwaitedSame DEF gpuVars, historyVars
  <1>12. \A b \in Blocks : LifeOK(b)' BY <1>1, LifeUntouched
  <1>13. ReuseOrdered' BY <1>1 DEF ReuseOrdered
  <1> QED BY <1>3, <1>4, <1>5, <1>6, <1>7, <1>9, <1>10, <1>11, <1>12, <1>13 DEF Sides, Typed

LEMMA LaunchStep ==
  ASSUME Sides, NEW b \in Blocks, NEW s \in Streams, Launch(s, b)
  PROVE  Sides'
  <1>1. /\ Uses(s, b)
        /\ depth' = [depth EXCEPT ![s] = @ + 1]
        /\ pend' = [pend EXCEPT ![s][b] = depth[s] + 1]
        /\ UNCHANGED <<scenario, capture, driverVars, block, historyVars>>
    BY DEF Launch
  <1>2. Typed /\ BlocksTyped /\ VarsTyped BY DEF Sides, Typed
  <1>3. /\ pend \in [Streams -> [Blocks -> Nat]] /\ depth \in [Streams -> Nat]
    BY <1>2 DEF VarsTyped
  <1>4. PICK d \in Nat : d = depth[s] + 1 BY <1>3
  <1>5. PICK p \in [Blocks -> Nat] : p = [pend[s] EXCEPT ![b] = d] BY <1>3, <1>4
  <1>6. pend' = [pend EXCEPT ![s] = p] /\ depth' = [depth EXCEPT ![s] = d]
    BY <1>1, <1>3, <1>4, <1>5
  <1>7. /\ pend' \in [Streams -> [Blocks -> Nat]] /\ depth' \in [Streams -> Nat]
        /\ pend'[s] = p /\ depth'[s] = d
        /\ \A x \in Streams \ {s} : pend'[x] = pend[x] /\ depth'[x] = depth[x]
    BY <1>3, <1>6
  <1>8. p[b] = d /\ \A c \in Blocks \ {b} : p[c] = pend[s][c] BY <1>3, <1>5
  <1>9. VarsTyped' BY <1>1, <1>2, <1>7 DEF VarsTyped, driverVars
  <1>10. BlocksTyped' BY <1>1, <1>2 DEF BlocksTyped, WellFormed
  <1>11. CaptureOK' BY <1>1 DEF Sides, CaptureOK, driverVars, historyVars
  <1>12. Bounded'
    <2>1. \A x \in Streams, c \in Blocks : pend[x][c] <= depth[x] BY DEF Sides, Bounded
    <2>2. \A c \in Blocks : p[c] <= d BY <2>1, <1>3, <1>4, <1>8
    <2> QED BY <2>1, <2>2, <1>7 DEF Bounded
  <1>13. \A c \in Blocks : Unwatched(c)' = Unwatched(c) BY <1>1, UnwatchedKept
  <1>14. AllAwaited'
    <2>1. Reuse' = Reuse BY <1>1 DEF Reuse
    <2>2. ASSUME NEW c \in Blocks, NEW x \in Streams \ {Home} PROVE Awaited(c, x)'
      <3>1. AwaitedAs(block[c], c, x, Unwatched(c)) BY AwaitedNow
      <3>2. CASE x = s /\ c = b BY <3>1, <3>2, <2>1, <1>1, <1>13 DEF Awaited, AwaitedAs, Uses
      <3>3. CASE ~(x = s /\ c = b)
        <4>1. pend'[x][c] = pend[x][c] BY <3>3, <1>7, <1>8
        <4> QED BY <4>1, <3>1, <2>1, <1>1, <1>13 DEF Awaited, AwaitedAs
      <3> QED BY <3>2, <3>3
    <2> QED BY <2>2 DEF AllAwaited
  <1> QED BY <1>1, <1>9, <1>10, <1>11, <1>12, <1>13, <1>14, EventsOnly DEF driverVars

LEMMA CompleteStep ==
  ASSUME Sides, NEW s \in Streams, Complete(s)
  PROVE  Sides'
  <1>1. /\ depth[s] > 0 /\ depth' = [depth EXCEPT ![s] = @ - 1]
        /\ pend' = [pend EXCEPT ![s] = [b \in Blocks |-> IF @[b] > 0 THEN @[b] - 1 ELSE 0]]
        /\ block' = [b \in Blocks |-> [block[b] EXCEPT !.events[s] = IF @ > 0 THEN @ - 1 ELSE @]]
        /\ UNCHANGED <<scenario, capture, driverVars, historyVars>>
    BY DEF Complete
  <1>2. Typed /\ BlocksTyped /\ VarsTyped BY DEF Sides, Typed
  <1>3. /\ pend \in [Streams -> [Blocks -> Nat]] /\ depth \in [Streams -> Nat]
    BY <1>2 DEF VarsTyped
  <1>4. PICK d \in Nat : d = depth[s] - 1 BY <1>1, <1>3
  <1>5. PICK p \in [Blocks -> Nat] :
          \A b \in Blocks : p[b] = IF pend[s][b] > 0 THEN pend[s][b] - 1 ELSE 0
    <2> DEFINE f == [b \in Blocks |-> IF pend[s][b] > 0 THEN pend[s][b] - 1 ELSE 0]
    <2>1. \A b \in Blocks : pend[s][b] \in Nat BY <1>3
    <2>2. f \in [Blocks -> Nat] BY <2>1
    <2> QED BY <2>2
  <1>6. pend' = [pend EXCEPT ![s] = p]
    <2>1. p = [b \in Blocks |-> IF pend[s][b] > 0 THEN pend[s][b] - 1 ELSE 0] BY <1>5
    <2> QED BY <2>1, <1>1, <1>3
  <1>7. /\ pend' \in [Streams -> [Blocks -> Nat]] /\ depth' \in [Streams -> Nat]
        /\ pend'[s] = p /\ depth'[s] = d
        /\ \A x \in Streams \ {s} : pend'[x] = pend[x] /\ depth'[x] = depth[x]
    BY <1>1, <1>3, <1>4, <1>6
  <1>8. VarsTyped' BY <1>1, <1>2, <1>7 DEF VarsTyped, driverVars
  <1>9. ASSUME NEW b \in Blocks
        PROVE  /\ block'[b] \in Block /\ block'[b].state = block[b].state
               /\ block'[b].empty_nodes = block[b].empty_nodes
               /\ block'[b].stream_uses = block[b].stream_uses
               /\ block'[b].musagraph_stream_uses = block[b].musagraph_stream_uses
               /\ WellFormed(block'[b])
               /\ block'[b].events[s] =
                    IF block[b].events[s] > 0 THEN block[b].events[s] - 1 ELSE block[b].events[s]
               /\ \A x \in Streams \ {s} : block'[b].events[x] = block[b].events[x]
    <2>1. PICK r \in Block : r = block[b] /\ WellFormed(r) BY <1>2 DEF BlocksTyped
    <2>2. r.events \in [Streams -> Int] BY DEF Block
    <2>3. PICK k \in Int : k = IF r.events[s] > 0 THEN r.events[s] - 1 ELSE r.events[s] BY <2>2
    <2>4. PICK e \in [Streams -> Int] : e = [r.events EXCEPT ![s] = k] BY <2>2
    <2>5. block'[b] = [r EXCEPT !.events = e] BY <1>1, <2>1, <2>2, <2>3, <2>4 DEF Block
    <2>6. PICK q : q = [r EXCEPT !.events = e] OBVIOUS
    <2>7. /\ q \in Block /\ q.state = r.state /\ q.empty_nodes = r.empty_nodes
          /\ q.stream_uses = r.stream_uses /\ q.events = e
          /\ q.musagraph_stream_uses = r.musagraph_stream_uses
      BY <2>6 DEF Block
    <2>8. r.events = NoEvents => e = NoEvents
      <3> SUFFICES ASSUME r.events = NoEvents PROVE e = NoEvents OBVIOUS
      <3>1. r.events[s] = -1 BY DEF NoEvents, NoEvent
      <3>2. k = r.events[s] BY <3>1, <2>3
      <3> QED BY <3>2, <2>2, <2>4
    <2>9. WellFormed(q) BY <2>1, <2>7, <2>8 DEF WellFormed
    <2>10. e[s] = k /\ \A x \in Streams \ {s} : e[x] = r.events[x] BY <2>2, <2>4
    <2> QED BY <2>1, <2>3, <2>5, <2>6, <2>7, <2>9, <2>10
  <1>10. BlocksTyped'
    <2>1. block' \in [Blocks -> Block] BY <1>1, <1>9
    <2>2. \A b \in Blocks : WellFormed(block[b])' BY <1>9 DEF WellFormed
    <2> QED BY <2>1, <2>2 DEF BlocksTyped
  <1>11. CaptureOK' BY <1>1 DEF Sides, CaptureOK, driverVars, historyVars
  <1>12. Bounded'
    <2>1. \A x \in Streams, c \in Blocks : pend[x][c] <= depth[x] BY DEF Sides, Bounded
    <2>2. ASSUME NEW c \in Blocks PROVE p[c] <= d
      <3>1. pend[s][c] \in Nat /\ depth[s] \in Nat /\ pend[s][c] <= depth[s] BY <1>3, <2>1
      <3> QED BY <3>1, <1>4, <1>5
    <2> QED BY <2>1, <2>2, <1>7 DEF Bounded
  <1>13. Reuse' = Reuse /\ \A c \in Blocks : Unwatched(c)' = Unwatched(c)
    BY <1>1, UnwatchedKept DEF Reuse
  <1>15. AllAwaited'
    <2>1. ASSUME NEW c \in Blocks, NEW x \in Streams \ {Home} PROVE Awaited(c, x)'
      <3>1. AwaitedAs(block[c], c, x, Unwatched(c)) BY AwaitedNow
      <3>2. CASE x # s
        <4>1. pend'[x][c] = pend[x][c] /\ block'[c].events[x] = block[c].events[x]
          BY <3>2, <1>7, <1>9
        <4> QED BY <4>1, <3>1, <1>9, <1>13 DEF Awaited, AwaitedAs
      <3>3. CASE x = s
        <4>1. pend[x][c] \in Nat /\ pend'[x][c] = p[c] BY <3>3, <1>3, <1>7
        <4>2. p[c] > 0 => pend[x][c] = p[c] + 1 BY <3>3, <4>1, <1>5
        <4>3. block[c].events[x] \in Int BY <1>2 DEF BlocksTyped, Block
        <4>4. p[c] > 0 /\ block[c].events[x] >= pend[x][c] =>
                block'[c].events[x] = block[c].events[x] - 1
                /\ block[c].events[x] - 1 >= p[c]
          BY <3>3, <4>1, <4>2, <4>3, <1>5, <1>9
        <4> QED BY <4>1, <4>2, <4>4, <3>1, <1>5, <1>9, <1>13 DEF Awaited, AwaitedAs
      <3> QED BY <3>2, <3>3
    <2> QED BY <2>1 DEF AllAwaited
  <1> QED BY <1>1, <1>8, <1>9, <1>10, <1>11, <1>12, <1>15, EventsOnly DEF driverVars

LEMMA InitSides == Init => Sides
  <1> SUFFICES ASSUME Init PROVE Sides OBVIOUS
  <1>1. /\ scenario \in Scenarios /\ capture = "none" /\ capturing = {} /\ empty = {}
        /\ deps = [s \in Streams |-> {}] /\ ancestors = [s \in Streams |-> <<>>]
        /\ pend = [s \in Streams |-> [b \in Blocks |-> 0]] /\ depth = [s \in Streams |-> 0]
        /\ life = [b \in Blocks |-> 0] /\ born = [b \in Blocks |-> {}]
        /\ touched = [b \in Blocks |-> {}] /\ in_capture = [b \in Blocks |-> {}]
        /\ left_over = [b \in Blocks |-> {}]
    BY DEF Init
  <1>2. PICK r : r = [state |-> "cached", stream_uses |-> {}, musagraph_stream_uses |-> {},
                      empty_nodes |-> {}, events |-> NoEvents]
    OBVIOUS
  <1>3. block = [b \in Blocks |-> r] BY <1>2 DEF Init
  <1>4. NoEvents \in [Streams -> Int] BY DEF NoEvents, NoEvent
  <1>5. r \in Block BY <1>2, <1>4 DEF Block
  <1>6. WellFormed(r) BY <1>2, <1>5 DEF WellFormed
  <1>7. VarsTyped BY <1>1 DEF VarsTyped
  <1>8. GraphTyped BY <1>1 DEF GraphTyped
  <1>9. BlocksTyped BY <1>3, <1>5, <1>6 DEF BlocksTyped
  <1>10. HistoryTyped BY <1>1 DEF HistoryTyped
  <1>11. Captured = {} BY <1>1 DEF Captured
  <1>12. GraphOK BY <1>1, <1>11 DEF GraphOK
  <1>13. CaptureOK BY <1>1 DEF CaptureOK
  <1>14. Bounded BY <1>1 DEF Bounded
  <1>15. r.musagraph_stream_uses = {} BY <1>2
  <1>16. AllAwaited BY <1>1, <1>3, <1>15 DEF AllAwaited, Awaited
  <1>17. \A b \in Blocks : LifeOK(b) BY <1>1 DEF LifeOK
  <1>18. ReuseOrdered BY <1>1 DEF ReuseOrdered
  <1> QED BY <1>7, <1>8, <1>9, <1>10, <1>12, <1>13, <1>14, <1>16, <1>17, <1>18
          DEF Sides, Typed

LEMMA StutterStep ==
  ASSUME Sides, UNCHANGED vars
  PROVE  Sides'
  <1>1. UNCHANGED <<scenario, capture, capturing, ancestors, deps, empty, block, gpuVars,
                    historyVars>>
    BY DEF vars, driverVars
  <1>2. Typed /\ BlocksTyped /\ VarsTyped BY DEF Sides, Typed
  <1>3. VarsTyped' BY <1>1, <1>2 DEF VarsTyped, gpuVars
  <1>4. BlocksTyped' BY <1>1, <1>2 DEF BlocksTyped, WellFormed
  <1>5. CaptureOK' BY <1>1 DEF Sides, CaptureOK, historyVars
  <1>6. Bounded'
    BY <1>1, GpuKept
  <1>7. AllAwaited' BY <1>1, AwaitedSame DEF gpuVars, historyVars
  <1> QED BY <1>1, <1>3, <1>4, <1>5, <1>6, <1>7, EventsOnly

LEMMA NextSides == Sides /\ [Next]_vars => Sides'
  <1> SUFFICES ASSUME Sides, [Next]_vars PROVE Sides' OBVIOUS
  <1>1. ASSUME NEW s \in Streams, Malloc(s) \/ Complete(s) \/ CaptureOther(s) PROVE Sides'
    BY <1>1, MallocStep, CompleteStep, CaptureOtherStep
  <1>2. ASSUME NEW b \in Blocks, NEW s \in Streams,
               RecordStream(b, s) \/ Launch(s, b) \/ CaptureKernel(s, b)
        PROVE  Sides'
    BY <1>2, RecordStreamStep, LaunchStep, CaptureKernelStep
  <1>3. ASSUME NEW b \in Blocks, Free(b) PROVE Sides' BY <1>3, FreeStep
  <1>4. ASSUME NEW s \in Streams, NEW x \in Streams, WaitEvent(s, x) PROVE Sides'
    BY <1>4, WaitEventStep
  <1>5. CASE EmptyCache BY <1>5, EmptyCacheStep
  <1>6. CASE BeginAllocateToPool \/ StreamBeginCapture \/ EndAllocateToPool
    BY <1>6, CaptureBeginStep
  <1>7. CASE StreamEndCapture BY <1>7, StreamEndCaptureStep
  <1>8. CASE UNCHANGED vars BY <1>8, StutterStep
  <1> QED BY <1>1, <1>2, <1>3, <1>4, <1>5, <1>6, <1>7, <1>8 DEF Next

(***************************************************************************)
(* The theorems.                                                           *)
(***************************************************************************)
\* The inductive invariant holds in every reachable state.
THEOREM Invariance == Spec => []IInv
  <1>1. Init => IInv BY InitSides, SidesMake
  <1>2. IInv /\ [Next]_vars => IInv'
    <2> SUFFICES ASSUME IInv, [Next]_vars PROVE IInv' OBVIOUS
    <2>1. Sides' BY SidesOf, NextSides
    <2>2. Sides' => IInv' BY SidesMake, PTL
    <2> QED BY <2>1, <2>2
  <1> QED BY <1>1, <1>2, PTL DEF Spec

\* Whoever launches kernels while a capture is under way, free, the deferral until the
\* end of the capture and the events inserted then recycle no block that another
\* stream's pending kernels use, apart from streams that were recorded in a capture.
THEOREM OthersAwaited == Spec => []DeferredWorkAwaited
  <1>1. IInv => DeferredWorkAwaited
    <2> SUFFICES ASSUME IInv, ~Reuse, NEW b \in Blocks, NEW s \in Streams \ {Home},
                        pend[s][b] > 0
                 PROVE  /\ block[b].state = "cached" => s \in Unwatched(b)
                        /\ block[b].state = "allocated" =>
                              s \in block[b].stream_uses \cup Unwatched(b)
      BY DEF DeferredWorkAwaited
    <2>1. Awaited(b, s) BY DEF IInv, WorkOK
    <2> QED BY <2>1 DEF Awaited
  <1> QED BY <1>1, Invariance, PTL

\* In the graph, the kernels on a reused block run after those of its earlier lives:
\* what insert_free_marker and get_reusable_empty_nodes are for.
THEOREM CapturedReuseOrdered == Spec => []ReuseOrdered
  <1>1. IInv => ReuseOrdered BY DEF IInv
  <1> QED BY <1>1, Invariance, PTL

\* Flags, markers and events go with the state of a block, and the assertion of
\* insert_events_deferred_until_no_capture on stream_uses never fails.
THEOREM BookkeepingHolds == Spec => []Bookkeeping
  <1>1. IInv => Bookkeeping BY DEF IInv, Bookkeeping
  <1> QED BY <1>1, Invariance, PTL

\* Events are inserted by free and by end-of-life processing only when no capture is
\* under way, so never on a stream that captures.
THEOREM EventsOutsideCapture == Spec => NoEventInCapture
  <1> DEFINE NewEvent(b, s) == block[b].events[s] = NoEvent /\ block'[b].events[s] # NoEvent
  <1> DEFINE A == \A b \in Blocks, s \in Streams : NewEvent(b, s) => s \notin capturing
  <1>1. IInv /\ [Next]_vars => [A]_vars
    <2> SUFFICES ASSUME IInv, Next, NEW b \in Blocks, NEW s \in Streams, NewEvent(b, s)
                 PROVE  s \notin capturing
      OBVIOUS
    <2>1. Sides BY SidesOf
    <2>2. Typed /\ BlocksTyped /\ block \in [Blocks -> Block]
      BY <2>1 DEF Sides, Typed, BlocksTyped
    <2>3. ~underway => s \notin capturing BY <2>1 DEF Sides, CaptureOK, underway
    <2>4. WellFormed(block[b]) /\ block[b] \in Block BY <2>2 DEF BlocksTyped
    <2>5. ASSUME NEW x \in Streams, Malloc(x), underway PROVE FALSE
      <3>1. Recycled(x)[b] = block[b] \/ Recycled(x)[b].events = NoEvents
        <4>1. CASE Reuse
          <5>1. Recycled(x)[b] = free_safe_blocks_in_capture(block[b], x)
            BY <2>5, <4>1 DEF Recycled
          <5> QED BY <5>1, <2>2, <2>4, SafeForm
        <4>2. CASE ~Reuse BY <2>5, <4>2 DEF Recycled
        <4> QED BY <4>1, <4>2
      <3>2. block'[b].events = Recycled(x)[b].events
        <4>1. Recycled(x) \in [Blocks -> Block]
          <5>1. \A c \in Blocks : Recycled(x)[c] \in Block BY <2>1, RecycledForm
          <5> QED BY <5>1 DEF Recycled
        <4>2. CASE block' = Recycled(x) BY <4>2
        <4>3. ASSUME NEW c, block' = [Recycled(x) EXCEPT ![c].state = "allocated"]
              PROVE  block'[b].events = Recycled(x)[b].events
          BY <4>1, <4>3 DEF Block
        <4> QED BY <2>5, <4>2, <4>3 DEF Malloc
      <3>3. NoEvents[s] = NoEvent BY DEF NoEvents
      <3> QED BY <3>1, <3>2, <3>3
    <2>6. ASSUME NEW c \in Blocks, Free(c), underway PROVE FALSE
      <3>1. block' = [block EXCEPT ![c] = Cached(@)] => block'[b].events = block[b].events
        <4> SUFFICES ASSUME block' = [block EXCEPT ![c] = Cached(@)]
                     PROVE  block'[b].events = block[b].events
          OBVIOUS
        <4>1. CASE b = c
          <5>1. block'[b] = Cached(block[b]) BY <2>2, <4>1
          <5> QED BY <5>1, <2>4 DEF Cached, Block
        <4>2. CASE b # c BY <2>2, <4>2
        <4> QED BY <4>1, <4>2
      <3>2. ASSUME block' = [block EXCEPT ![c].state = "deferred"]
            PROVE  block'[b].events = block[b].events
        BY <2>2, <3>2 DEF Block
      <3>3. ASSUME NEW marked, insert_free_marker(c, marked)
            PROVE  block'[b].events = block[b].events
        <4>1. PICK e : block' = [block EXCEPT ![c].state = "deferred", ![c].empty_nodes = e]
          BY <3>3 DEF insert_free_marker
        <4> QED BY <2>2, <4>1 DEF Block
      <3> QED BY <2>6, <3>1, <3>2, <3>3 DEF Free
    <2>7. ASSUME NEW x \in Streams, Complete(x) PROVE FALSE
      <3>1. block'[b] = [block[b] EXCEPT !.events[x] = IF @ > 0 THEN @ - 1 ELSE @]
        BY <2>7 DEF Complete
      <3>2. block[b].events \in [Streams -> Int] /\ block[b].events[s] = -1
        BY <2>4 DEF Block, NoEvent
      <3>3. block'[b].events[s] = block[b].events[s]
        <4>1. CASE x = s BY <3>1, <3>2, <4>1, <2>4 DEF Block
        <4>2. CASE x # s BY <3>1, <3>2, <4>2, <2>4 DEF Block
        <4> QED BY <4>1, <4>2
      <3> QED BY <3>3
    <2>8. ASSUME NEW c \in Blocks, NEW x \in Streams, RecordStream(c, x) PROVE FALSE
      <3>1. PICK u, v : block' = [block EXCEPT ![c].stream_uses = u, ![c].musagraph_stream_uses = v]
        BY <2>8 DEF RecordStream
      <3>2. block'[b].events = block[b].events BY <2>2, <3>1 DEF Block
      <3> QED BY <3>2
    <2>9. CASE EmptyCache BY <2>3, <2>9 DEF EmptyCache
    <2>10. \/ \E x \in Streams : CaptureOther(x)
           \/ \E c \in Blocks, x \in Streams : Launch(x, c) \/ CaptureKernel(x, c)
           \/ \E x, y \in Streams : WaitEvent(x, y)
           \/ BeginAllocateToPool \/ StreamBeginCapture \/ StreamEndCapture \/ EndAllocateToPool
           => block' = block
      BY DEF CaptureOther, Launch, CaptureKernel, WaitEvent, BeginAllocateToPool,
             StreamBeginCapture, StreamEndCapture, EndAllocateToPool
    <2> QED BY <2>3, <2>5, <2>6, <2>7, <2>8, <2>9, <2>10 DEF Next
  <1> QED BY <1>1, Invariance, PTL DEF Spec, NoEventInCapture
=============================================================================
