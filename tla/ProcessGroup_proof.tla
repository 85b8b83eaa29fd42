-------------------------- MODULE ProcessGroup_proof --------------------------
(***************************************************************************)
(* Proofs about ProcessGroup, for any works and settings.  The invariant   *)
(* is cut into sides, each about some of the variables: what the program's *)
(* thread and the watchdog know of a work, the lists, the works, and the   *)
(* ephemeral timeouts.  A step keeps the sides whose variables it leaves   *)
(* alone by one lemma for each side.                                       *)
(***************************************************************************)
EXTENDS ProcessGroup, FiniteSetTheorems, TLAPS

(***************************************************************************)
(* The records of the threads and of the group.                            *)
(***************************************************************************)
CommTypes == [aborted : BOOLEAN, destroyed : BOOLEAN, err : BOOLEAN, reason : BOOLEAN]
PgTypes(n) ==
  [terminate : BOOLEAN, error : Errors \union {"SUCCESS"}, shouldDump : BOOLEAN,
   active : Nat, inflight : Nat, added : 0 .. n, throws : Nat]
MainTypes ==
  [pc : {"idle", "enqueue", "lock", "unstash", "poll", "mark", "rethrow",
         "pending", "join", "abort", "joinall", "finished"},
   w : Works \union {NoWork}, mark : Errors \union {"none"}, timed : BOOLEAN]
WdTypes ==
  [pc : {"loop", "waiting", "exited", "check"} \union Busy, pos : Nat \ {0}, done : BOOLEAN,
   mark : Results \union {"none"}, next : {"none", "failed", "shelve", "retire"}]
HookTypes == [pc : {"none", "loop", "next", "calling", "exited"}, done : BOOLEAN]

Records ==
  /\ config \in Configs /\ shelves \subseteq Works
  /\ comm \in CommTypes /\ pg \in PgTypes(config.ephemeral)
  /\ main \in MainTypes /\ wd \in WdTypes /\ hook \in HookTypes
  /\ aborter \in {"idle", "comms", "returned"} /\ alive \in BOOLEAN

LEMMA RecordsDef == RecordsOK <=> Records
BY DEF RecordsOK, Records, CommTypes, PgTypes, MainTypes, WdTypes, HookTypes

Types == work \in [Works -> WorkTypes] /\ Records

MainSide ==
  /\ MainOK
  /\ \A w \in Works : work[w].stage = "made" => main.pc \in {"enqueue", "lock"} /\ main.w = w

WatchdogSide ==
  /\ WatchdogOK
  /\ \A w \in Works : work[w].stage = "listed" =>
       /\ work[w].exW # "none" => wd.pc \in Busy \ {"timeout"} /\ Current = w
       /\ work[w].result = "SUCCESS" => wd.pc = "retire" /\ Current = w

ListSide ==
  /\ ListsOK
  /\ meta \in Seq(Works) /\ completed \in Seq(Works)
  /\ Range(meta) = {w \in Works : work[w].stage = "listed"}

\* What is known of a work, whatever the threads do.
Life(w) ==
  /\ work[w].stage = "none" => work[w].gpu = "idle" /\ work[w].owned = 0
  /\ work[w].stage \in {"none", "made"} =>
       work[w].exU = "none" /\ work[w].exW = "none" /\ work[w].result = "none"
  /\ w \in shelves => /\ work[w].stage \in {"listed", "retired"}
                      /\ work[w].exW # "none" \/ finishedGPUExecution(w)
  /\ w \in Range(completed) => work[w].stage = "retired"
  /\ w \in Range(completed) \/ work[w].stage # "retired" => work[w].hooked = 0
  /\ work[w].stage = "retired" /\ config.hook => w \in Range(completed) \/ work[w].hooked = 1
  /\ work[w].gpu = "running" /\ work[w].kind # "sync" /\ work[w].exW = "none" =>
       work[w].shelf \/ work[w].ordered
  /\ work[w].stage = "retired" =>
       work[w].result # "none" /\ (work[w].result = "SUCCESS" => work[w].exW = "none")

LEMMA ConfigTypes ==
  ASSUME Records
  PROVE  /\ config.hook \in BOOLEAN /\ config.ephemeral \in Nat /\ config.blocking \in BOOLEAN
         /\ config.works \subseteq Works /\ config.timed \subseteq BOOLEAN
         /\ config.kinds \subseteq {"async", "sync", "coalesced"}
BY ProcessGroupConstants DEF Records

\* Counting timeouts: those active are among those added.
LEMMA TimeoutsBounded ==
  ASSUME EphemeralOwned, Records
  PROVE  pg.active \in 0 .. config.ephemeral /\ pg.inflight \in 0 .. config.ephemeral
<1>1. PICK flying \in SUBSET (1 .. pg.added), waiting \in SUBSET (1 .. pg.added) :
        pg.inflight = Cardinality(flying) /\ pg.active = Cardinality(flying \union waiting)
  BY DEF EphemeralOwned, Assigned
<1>3. pg.added \in Nat /\ config.ephemeral \in Nat /\ pg.added <= config.ephemeral
  BY ConfigTypes DEF Records, PgTypes
<1>4. IsFiniteSet(1 .. pg.added) /\ Cardinality(1 .. pg.added) = pg.added
  <2>1. 1 \in Int /\ pg.added \in Int
    BY <1>3
  <2>2. IsFiniteSet(1 .. pg.added) /\ Cardinality(1 .. pg.added) = IF 1 > pg.added THEN 0 ELSE pg.added - 1 + 1
    BY <2>1, FS_Interval
  <2>. QED BY <1>3, <2>2
<1>5. /\ Cardinality(flying) \in Nat /\ Cardinality(flying) <= pg.added
      /\ Cardinality(flying \union waiting) \in Nat
      /\ Cardinality(flying \union waiting) <= pg.added
  <2>1. flying \subseteq 1 .. pg.added /\ flying \union waiting \subseteq 1 .. pg.added
    OBVIOUS
  <2>2. /\ IsFiniteSet(flying) /\ Cardinality(flying) <= Cardinality(1 .. pg.added)
        /\ IsFiniteSet(flying \union waiting)
        /\ Cardinality(flying \union waiting) <= Cardinality(1 .. pg.added)
    BY <1>4, <2>1, FS_Subset
  <2>. QED BY <1>4, <2>2, FS_CardinalityType
<1>. QED BY <1>1, <1>3, <1>5

Sides == Types /\ MainSide /\ WatchdogSide /\ ListSide /\ EphemeralOwned /\ \A w \in Works : Life(w)

LEMMA SidesOf == IInv => Sides
BY RecordsDef DEF IInv, Sides, TypeOK, Types, MainSide, WatchdogSide, ListSide, Life, WorkOK, TensorsKept,
       RetiredHasResult

LEMMA SidesMake == Sides => IInv
<1>. SUFFICES ASSUME Sides PROVE IInv
  OBVIOUS
<1>1. TypeOK
  <2>1. pg.error \in {"SUCCESS", "TIMEOUT", "COMM_ERROR"}
    BY DEF Sides, Types, Records, PgTypes, Errors
  <2>. QED BY <2>1, TimeoutsBounded DEF Sides, Types, TypeOK, ListSide
<1>2. ASSUME NEW w \in Works PROVE WorkOK(w)
  BY DEF Sides, MainSide, WatchdogSide, Life, WorkOK
<1>3. TensorsKept /\ RetiredHasResult
  BY DEF Sides, Life, TensorsKept, RetiredHasResult
<1>. QED BY <1>1, <1>2, <1>3, RecordsDef DEF Sides, Types, MainSide, WatchdogSide, ListSide, IInv

(***************************************************************************)
(* The lists.                                                              *)
(***************************************************************************)
LEMMA Appended ==
  ASSUME NEW S, NEW s \in Seq(S), NEW e \in S, IsInjective(s), e \notin Range(s)
  PROVE  /\ Append(s, e) \in Seq(S) /\ IsInjective(Append(s, e))
         /\ Range(Append(s, e)) = Range(s) \union {e}
<1>1. PICK r : r = Append(s, e)
  OBVIOUS
<1>2. /\ r \in Seq(S) /\ Len(r) = Len(s) + 1 /\ r[Len(s) + 1] = e
      /\ \A i \in 1 .. Len(s) : r[i] = s[i]
  BY <1>1
<1>3. DOMAIN s = 1 .. Len(s) /\ DOMAIN r = 1 .. Len(s) + 1 /\ Len(s) \in Nat
  BY <1>2
<1>4. \A i \in 1 .. Len(s) + 1 : i \in 1 .. Len(s) \/ i = Len(s) + 1
  BY <1>3
<1>5. \A i \in 1 .. Len(s) : s[i] # e
  BY <1>3 DEF Range
<1>6. IsInjective(r)
  BY <1>2, <1>3, <1>4, <1>5 DEF IsInjective
<1>7. Range(r) = Range(s) \union {e}
  <2>1. \A x \in Range(s) \union {e} : x \in Range(r)
    BY <1>2, <1>3 DEF Range
  <2>2. \A x \in Range(r) : x \in Range(s) \union {e}
    BY <1>2, <1>3, <1>4 DEF Range
  <2>. QED BY <2>1, <2>2
<1>. QED BY <1>1, <1>2, <1>6, <1>7

LEMMA Tailed ==
  ASSUME NEW S, NEW s \in Seq(S), IsInjective(s), s # <<>>
  PROVE  /\ Head(s) \in Range(s) /\ Head(s) \in S
         /\ Tail(s) \in Seq(S) /\ IsInjective(Tail(s))
         /\ Range(Tail(s)) = Range(s) \ {Head(s)}
<1>1. PICK r : r = Tail(s)
  OBVIOUS
<1>2. /\ Len(s) \in Nat \ {0} /\ Head(s) = s[1] /\ r \in Seq(S) /\ Len(r) = Len(s) - 1
      /\ \A i \in 1 .. Len(s) - 1 : r[i] = s[i + 1]
  BY <1>1
<1>3. DOMAIN s = 1 .. Len(s) /\ DOMAIN r = 1 .. Len(s) - 1
  BY <1>2
<1>4. /\ \A i \in 1 .. Len(s) - 1 : i + 1 \in 1 .. Len(s) /\ i + 1 # 1
      /\ \A i \in 1 .. Len(s) : i # 1 => i - 1 \in 1 .. Len(s) - 1 /\ i - 1 + 1 = i
      /\ \A i, j \in 1 .. Len(s) - 1 : i + 1 = j + 1 => i = j
      /\ 1 \in 1 .. Len(s)
  BY <1>2
<1>5. IsInjective(r)
  <2>. SUFFICES ASSUME NEW i \in 1 .. Len(s) - 1, NEW j \in 1 .. Len(s) - 1, r[i] = r[j] PROVE i = j
    BY <1>3 DEF IsInjective
  <2>1. s[i + 1] = s[j + 1] /\ i + 1 \in 1 .. Len(s) /\ j + 1 \in 1 .. Len(s)
    BY <1>2, <1>4
  <2>2. i + 1 = j + 1
    BY <1>3, <2>1 DEF IsInjective
  <2>. QED BY <1>4, <2>2
<1>6. Range(r) = Range(s) \ {Head(s)}
  <2>1. ASSUME NEW i \in 1 .. Len(s), s[i] # Head(s) PROVE s[i] \in Range(r)
    <3>1. i - 1 \in 1 .. Len(s) - 1 /\ i - 1 + 1 = i
      BY <1>2, <1>4, <2>1
    <3>2. r[i - 1] = s[i]
      BY <1>2, <3>1
    <3>. QED BY <1>3, <3>1, <3>2 DEF Range
  <2>2. \A x \in Range(r) : x \in Range(s) \ {Head(s)}
    BY <1>2, <1>3, <1>4 DEF Range, IsInjective
  <2>. QED BY <1>3, <2>1, <2>2 DEF Range
<1>7. Head(s) \in Range(s) /\ Head(s) \in S
  BY <1>2, <1>3, <1>4 DEF Range
<1>. QED BY <1>1, <1>2, <1>5, <1>6, <1>7

LEMMA Removed ==
  ASSUME NEW S, NEW s \in Seq(S), IsInjective(s), NEW p \in 1 .. Len(s)
  PROVE  /\ RemoveAt(s, p) \in Seq(S) /\ IsInjective(RemoveAt(s, p))
         /\ Range(RemoveAt(s, p)) = Range(s) \ {s[p]}
<1>1. PICK a : a = SubSeq(s, 1, p - 1)
  OBVIOUS
<1>2. PICK b : b = SubSeq(s, p + 1, Len(s))
  OBVIOUS
<1>3. PICK r : r = a \o b
  OBVIOUS
<1>4. p \in Int /\ Len(s) \in Nat /\ 1 <= p /\ p <= Len(s)
  OBVIOUS
<1>5. a \in Seq(S) /\ Len(a) = p - 1 /\ \A i \in 1 .. p - 1 : a[i] = s[i]
  BY <1>1, <1>4
<1>6. b \in Seq(S) /\ Len(b) = Len(s) - p /\ \A i \in 1 .. Len(s) - p : b[i] = s[p + i]
  BY <1>2, <1>4
<1>7. /\ r \in Seq(S) /\ Len(r) = Len(s) - 1
      /\ \A i \in 1 .. Len(s) - 1 : r[i] = IF i < p THEN s[i] ELSE s[i + 1]
  <2>1. r \in Seq(S) /\ Len(r) = Len(a) + Len(b)
        /\ \A i \in 1 .. Len(a) + Len(b) : r[i] = IF i <= Len(a) THEN a[i] ELSE b[i - Len(a)]
    <3>1. a \in Seq(S) /\ b \in Seq(S) /\ Len(a) \in Nat /\ Len(b) \in Nat
      BY <1>5, <1>6
    <3>. QED BY <1>3, <3>1
  <2>2. ASSUME NEW i \in 1 .. Len(s) - 1, i < p PROVE r[i] = s[i]
    BY <1>4, <1>5, <1>6, <2>1, <2>2
  <2>3. ASSUME NEW i \in 1 .. Len(s) - 1, ~(i < p) PROVE r[i] = s[i + 1]
    <3>1. i - (p - 1) \in 1 .. Len(s) - p /\ p + (i - (p - 1)) = i + 1 /\ i \in 1 .. Len(a) + Len(b)
      BY <1>4, <1>5, <1>6, <2>3
    <3>2. r[i] = b[i - (p - 1)]
      BY <1>4, <1>5, <2>1, <2>3, <3>1
    <3>. QED BY <1>6, <3>1, <3>2
  <2>. QED BY <1>4, <1>5, <1>6, <2>1, <2>2, <2>3
<1>8. DOMAIN s = 1 .. Len(s) /\ DOMAIN r = 1 .. Len(s) - 1
  BY <1>7
<1>9. /\ \A i \in 1 .. Len(s) - 1 : i \in 1 .. Len(s) /\ i + 1 \in 1 .. Len(s)
      /\ \A i \in 1 .. Len(s) : i < p => i \in 1 .. Len(s) - 1
      /\ \A i \in 1 .. Len(s) : ~(i < p) /\ i # p => i - 1 \in 1 .. Len(s) - 1 /\ ~(i - 1 < p) /\ (i - 1) + 1 = i
  BY <1>4
<1>10. IsInjective(r)
  <2>. SUFFICES ASSUME NEW i \in 1 .. Len(s) - 1, NEW j \in 1 .. Len(s) - 1, r[i] = r[j] PROVE i = j
    BY <1>8 DEF IsInjective
  <2>1. PICK k \in 1 .. Len(s) : r[i] = s[k] /\ k = IF i < p THEN i ELSE i + 1
    BY <1>7, <1>9
  <2>2. PICK l \in 1 .. Len(s) : r[j] = s[l] /\ l = IF j < p THEN j ELSE j + 1
    BY <1>7, <1>9
  <2>3. k = l
    BY <1>8, <2>1, <2>2 DEF IsInjective
  <2>. QED BY <1>4, <2>1, <2>2, <2>3
<1>11. \A x \in Range(s) \ {s[p]} : x \in Range(r)
  <2>. SUFFICES ASSUME NEW i \in 1 .. Len(s), s[i] # s[p] PROVE s[i] \in Range(r)
    BY <1>8 DEF Range
  <2>1. PICK k \in 1 .. Len(s) - 1 : r[k] = s[i]
    <3>1. CASE i < p
      BY <1>7, <1>9, <3>1
    <3>2. CASE ~(i < p)
      <4>1. i - 1 \in 1 .. Len(s) - 1 /\ ~(i - 1 < p) /\ (i - 1) + 1 = i
        BY <1>9, <3>2
      <4>. QED BY <1>7, <4>1
    <3>. QED BY <3>1, <3>2
  <2>. QED BY <1>8, <2>1 DEF Range
<1>12. \A x \in Range(r) : x \in Range(s) \ {s[p]}
  <2>. SUFFICES ASSUME NEW i \in 1 .. Len(s) - 1 PROVE r[i] \in Range(s) /\ r[i] # s[p]
    BY <1>8 DEF Range
  <2>1. PICK k \in 1 .. Len(s) : r[i] = s[k] /\ k = IF i < p THEN i ELSE i + 1
    BY <1>7, <1>9
  <2>2. k # p
    BY <1>4, <2>1
  <2>. QED BY <1>8, <2>1, <2>2 DEF Range, IsInjective
<1>. QED BY <1>1, <1>2, <1>3, <1>7, <1>10, <1>11, <1>12 DEF RemoveAt

(***************************************************************************)
(* What a step leaves alone.                                               *)
(***************************************************************************)
GpuGoesOn(w) ==
  work'[w].gpu = work[w].gpu \/ (work[w].gpu = "running" /\ work'[w].gpu \in {"done", "killed"})

Issued(w) == work[w].stage \notin {"none", "made"}

\* The kernel of a work may end, its time elapse and its stream wait for it; the
\* program's thread may find an error, and mark the result if there is none.
Same(w) ==
  /\ work'[w].kind = work[w].kind /\ work'[w].stage = work[w].stage
  /\ work'[w].exU = work[w].exU \/ Issued(w)
  /\ work'[w].exW = work[w].exW
  /\ \/ work'[w].result = work[w].result
     \/ work[w].result = "none" /\ work'[w].result \in Errors /\ Issued(w)
  /\ work'[w].owned = work[w].owned /\ work'[w].hooked = work[w].hooked
  /\ work[w].ordered => work'[w].ordered
  /\ GpuGoesOn(w)

TimeoutsAlone == pg'.added = pg.added /\ pg'.active = pg.active /\ pg'.inflight = pg.inflight

LEMMA MainKept ==
  ASSUME MainSide, main' = main,
         \A w \in Works : /\ work'[w].stage = "made" <=> work[w].stage = "made"
                          /\ work'[w].stage = "none" <=> work[w].stage = "none"
                          /\ work[w].ordered => work'[w].ordered
  PROVE  MainSide'
BY DEF MainSide, MainOK

LEMMA CurrentListed ==
  ASSUME ListSide, WatchdogSide, wd.pc \in Busy
  PROVE  Current \in Works /\ work[Current].stage = "listed"
BY DEF ListSide, WatchdogSide, WatchdogOK, Current, Range

LEMMA WatchdogKept ==
  ASSUME ListSide, WatchdogSide, wd' = wd, meta' = meta,
         \A w \in Works :
           /\ work'[w].stage = "listed" => work[w].stage = "listed"
           /\ work'[w].exW = work[w].exW
           /\ work'[w].result = work[w].result \/ (work[w].result = "none" /\ work'[w].result \in Errors)
           /\ finishedGPUExecution(w) => finishedGPUExecution(w)'
  PROVE  WatchdogSide'
<1>1. Current' = Current /\ (wd.pc \in Busy => Current \in Works)
  BY CurrentListed DEF Current
<1>2. \A w \in Works : work'[w].result = "SUCCESS" => work[w].result = "SUCCESS"
  BY DEF Errors
<1>3. WatchdogOK'
  BY <1>1, <1>2 DEF WatchdogSide, WatchdogOK, Errors
<1>. QED BY <1>1, <1>2, <1>3 DEF WatchdogSide

LEMMA ListsKept ==
  ASSUME ListSide, meta' = meta, completed' = completed,
         \A w \in Works : work'[w].stage = "listed" <=> work[w].stage = "listed",
         hook'.pc = "calling" => hook.pc = "calling" \/ completed # <<>>
  PROVE  ListSide'
BY DEF ListSide, ListsOK

LEMMA TimeoutsKept ==
  ASSUME EphemeralOwned, config' = config, TimeoutsAlone,
         \A w \in Works : /\ work'[w].owned = work[w].owned
                          /\ work'[w].stage = "retired" => work[w].stage = "retired"
  PROVE  EphemeralOwned'
<1>1. PICK flying \in SUBSET (1 .. pg.added), waiting \in SUBSET (1 .. pg.added) :
        \E owner \in [flying -> Works \union {NoWork}] : Assigned(flying, waiting, owner)
  BY DEF EphemeralOwned
<1>2. PICK owner \in [flying -> Works \union {NoWork}] : Assigned(flying, waiting, owner)
  BY <1>1
<1>3. Assigned(flying, waiting, owner)'
  BY <1>2 DEF Assigned, TimeoutsAlone
<1>. QED BY <1>3 DEF EphemeralOwned, TimeoutsAlone

LEMMA LifeKept ==
  ASSUME NEW w, Life(w), Same(w), config' = config, Range(completed') = Range(completed),
         w \in shelves' => w \in shelves,
         work[w].shelf => work'[w].shelf \/ work'[w].ordered \/ work'[w].gpu # "running"
                            \/ work[w].exW # "none"
  PROVE  Life(w)'
<1>1. finishedGPUExecution(w) => finishedGPUExecution(w)'
  BY DEF finishedGPUExecution, Same, GpuGoesOn
<1>. QED BY <1>1 DEF Life, Same, GpuGoesOn, Issued, Errors

\* A step of one thread after which every work has the same past.
LEMMA SameStep ==
  ASSUME Sides, config' = config, meta' = meta, completed' = completed, shelves' \subseteq shelves,
         Types', TimeoutsAlone,
         \A w \in Works :
           /\ Same(w)
           /\ work[w].shelf => work'[w].shelf \/ work'[w].ordered \/ work'[w].gpu # "running"
                                 \/ work[w].exW # "none",
         main' = main \/ MainSide', wd' = wd \/ WatchdogSide',
         hook'.pc = "calling" => hook.pc = "calling" \/ completed # <<>>
  PROVE  Sides'
<1>1. MainSide'
  BY MainKept DEF Sides, Same
<1>2. WatchdogSide'
  BY WatchdogKept DEF Sides, Same, GpuGoesOn, finishedGPUExecution
<1>3. ListSide'
  BY ListsKept DEF Sides, Same
<1>4. EphemeralOwned'
  BY TimeoutsKept DEF Sides, Same
<1>5. ASSUME NEW w \in Works PROVE Life(w)'
  BY LifeKept DEF Sides
<1>. QED BY <1>1, <1>2, <1>3, <1>4, <1>5 DEF Sides

\* In particular if no work changes at all.
LEMMA QuietStep ==
  ASSUME Sides, UNCHANGED <<config, work, meta, completed, shelves>>, Records', TimeoutsAlone,
         main' = main \/ MainSide', wd' = wd \/ WatchdogSide',
         hook'.pc = "calling" => hook.pc = "calling" \/ completed # <<>>
  PROVE  Sides'
<1>1. Types'
  BY DEF Sides, Types, WorkTypes
<1>2. \A w \in Works : Same(w)
  BY DEF Same, GpuGoesOn
<1>. QED BY <1>1, <1>2, SameStep

\* When the communicator is aborted, running kernels end.
LEMMA AbortStep ==
  ASSUME Sides, UNCHANGED <<config, meta, completed, shelves>>, NEW reason \in BOOLEAN,
         abortComm(reason), Records', TimeoutsAlone, main' = main \/ MainSide', wd' = wd \/ WatchdogSide',
         hook'.pc = "calling" => hook.pc = "calling" \/ completed # <<>>
  PROVE  Sides'
<1>2. \A w \in Works : work[w] \in WorkTypes
  BY DEF Sides, Types
<1>3. work' \in [Works -> WorkTypes]
  <2>1. \A w \in Works : [work[w] EXCEPT !.gpu = "killed"] \in WorkTypes
    BY <1>2 DEF WorkTypes
  <2>2. work' \in [Works -> WorkTypes]
    BY <1>2, <2>1 DEF abortComm
  <2>. QED BY <2>2
<1>4. \A w \in Works : Same(w) /\ work'[w].shelf = work[w].shelf
  <2>1. \A w \in Works : work'[w] = IF work[w].gpu = "running" THEN [work[w] EXCEPT !.gpu = "killed"] ELSE work[w]
    BY DEF abortComm
  <2>. QED BY <1>2, <2>1 DEF Same, GpuGoesOn, WorkTypes
<1>5. Types'
  <2>1. WorkTypes' = WorkTypes
    BY DEF WorkTypes
  <2>. QED BY <1>3, <2>1 DEF Types
<1>. QED BY <1>4, <1>5, SameStep

LEMMA Aborted ==
  ASSUME Records, NEW reason \in BOOLEAN, abortComm(reason)
  PROVE  comm' \in CommTypes
BY DEF Records, CommTypes, abortComm

\* The records after a step that leaves the counters of timeouts alone.
LEMMA RecordsKept ==
  ASSUME Records, UNCHANGED config, shelves' \subseteq Works,
         comm' = comm \/ comm' \in CommTypes,
         \/ pg' = pg \/ pg' = [pg EXCEPT !.terminate = TRUE]
         \/ pg' \in PgTypes(config.ephemeral) /\ TimeoutsAlone,
         main' = main \/ main' \in MainTypes, wd' = wd \/ wd' \in WdTypes,
         hook' = hook \/ hook' \in HookTypes,
         aborter' \in {aborter, "comms", "returned"}, alive' \in BOOLEAN
  PROVE  Records' /\ TimeoutsAlone
<1>1. pg' \in PgTypes(config.ephemeral) /\ TimeoutsAlone
  BY DEF Records, PgTypes, TimeoutsAlone
<1>. QED BY <1>1 DEF Records

(***************************************************************************)
(* The thread of the program: steps that change no work, or only abort the *)
(* communicator.                                                           *)
(***************************************************************************)
\* Where the thread is between two calls, and in a call that is about no work.
Outside == {"idle", "pending", "join", "abort", "joinall", "finished"}

LEMMA MainMoves ==
  ASSUME Sides, NEW pc \in Outside, MainTo(pc), main.pc \notin {"enqueue", "lock"}, work' = work
  PROVE  main' \in MainTypes /\ MainSide'
<1>1. main \in MainTypes
  BY DEF Sides, Types, Records
<1>2. main' \in MainTypes /\ main'.pc = pc
  BY <1>1 DEF MainTo, Outside, MainTypes, Idle
<1>. QED BY <1>2 DEF Sides, MainSide, MainOK, Outside

LEMMA WaitForPendingStep ==
  ASSUME Sides, WaitForPendingWorks \/ PendingWorksDone
  PROVE  Sides'
<1>1. /\ MainTo("pending") \/ MainTo("idle")
      /\ main.pc \notin {"enqueue", "lock"}
      /\ UNCHANGED <<config, work, comm, meta, completed, shelves, pg, wd, hook, aborter, alive>>
  BY DEF WaitForPendingWorks, PendingWorksDone, AtMain
<1>2. main' \in MainTypes /\ MainSide'
  BY <1>1, MainMoves DEF Outside
<1>3. Records' /\ TimeoutsAlone
  BY <1>1, <1>2, RecordsKept DEF Sides, Types, Records
<1>. QED BY <1>1, <1>2, <1>3, QuietStep

LEMMA LeaveStep ==
  ASSUME Sides, Shutdown \/ Destructor \/ Destroy \/ JoinAll
  PROVE  Sides'
<1>1. /\ \E pc \in Outside : MainTo(pc)
      /\ main.pc \notin {"enqueue", "lock"}
      /\ UNCHANGED <<config, work, meta, completed, shelves, wd, hook, aborter, alive>>
      /\ pg' = pg \/ pg' = [pg EXCEPT !.terminate = TRUE]
      /\ comm' = comm \/ comm' = [comm EXCEPT !.aborted = TRUE, !.destroyed = TRUE]
  BY DEF Shutdown, Destructor, Destroy, JoinAll, AtMain, Outside
<1>2. main' \in MainTypes /\ MainSide'
  BY <1>1, MainMoves
<1>3. comm' \in CommTypes
  BY <1>1 DEF Sides, Types, Records, CommTypes
<1>4. Records' /\ TimeoutsAlone
  BY <1>1, <1>2, <1>3, RecordsKept DEF Sides, Types, Records
<1>. QED BY <1>1, <1>2, <1>4, QuietStep

LEMMA DestructorAbortsStep ==
  ASSUME Sides, DestructorAborts
  PROVE  Sides'
<1>1. /\ MainTo("joinall") /\ main.pc = "abort" /\ abortComm(FALSE)
      /\ UNCHANGED <<config, meta, completed, shelves, pg, wd, hook, aborter, alive>>
  BY DEF DestructorAborts, AtMain
<1>2. main' = [main EXCEPT !.pc = "joinall"]
  BY <1>1 DEF MainTo
<1>3. main' \in MainTypes /\ main'.pc = "joinall"
  BY <1>2 DEF Sides, Types, Records, MainTypes
<1>4. \A w \in Works : work'[w].stage = work[w].stage
  BY <1>1 DEF abortComm, Sides, Types, WorkTypes
<1>5. MainSide'
  BY <1>1, <1>3, <1>4 DEF Sides, MainSide, MainOK
<1>6. Records' /\ TimeoutsAlone
  BY <1>1, <1>3, Aborted, RecordsKept DEF Sides, Types, Records
<1>. QED BY <1>1, <1>5, <1>6, AbortStep

LEMMA AbortCommsStep ==
  ASSUME Sides, AbortComms \/ Abort \/ AsyncError
  PROVE  Sides'
<1>1. CASE AbortComms
  <2>1. /\ abortComm(FALSE) /\ aborter' = "returned"
        /\ UNCHANGED <<config, meta, completed, shelves, pg, main, wd, hook, alive>>
    BY <1>1 DEF AbortComms
  <2>2. Records' /\ TimeoutsAlone
    BY <2>1, Aborted, RecordsKept DEF Sides, Types, Records
  <2>. QED BY <2>1, <2>2, AbortStep
<1>2. CASE Abort \/ AsyncError
  <2>1. /\ UNCHANGED <<config, work, meta, completed, shelves, main, wd, hook, alive>>
        /\ pg' = pg \/ pg' = [pg EXCEPT !.terminate = TRUE]
        /\ comm' = comm \/ comm' = [comm EXCEPT !.err = TRUE]
        /\ aborter' = aborter \/ aborter' = "comms"
    BY <1>2 DEF Abort, AsyncError
  <2>2. comm' \in CommTypes
    BY <2>1 DEF Sides, Types, Records, CommTypes
  <2>3. Records' /\ TimeoutsAlone
    BY <2>1, <2>2, RecordsKept DEF Sides, Types, Records
  <2>. QED BY <2>1, <2>3, QuietStep
<1>. QED BY <1>1, <1>2

\* Timeouts are added by the program between two calls; they wait for the next work.
LEMMA AddEphemeralTimeoutStep ==
  ASSUME Sides, AddEphemeralTimeout
  PROVE  Sides'
<1>1. /\ pg.added < config.ephemeral /\ pg' = [pg EXCEPT !.active = @ + 1, !.added = @ + 1]
      /\ UNCHANGED <<config, work, comm, meta, completed, shelves, main, wd, hook, aborter, alive>>
  BY DEF AddEphemeralTimeout
<1>2. /\ pg.added \in Nat /\ pg.active \in Nat /\ config.ephemeral \in Nat
      /\ pg'.added = pg.added + 1 /\ pg'.active = pg.active + 1 /\ pg'.inflight = pg.inflight
      /\ pg' \in PgTypes(config.ephemeral)
  <2>1. config.ephemeral \in Nat /\ pg \in PgTypes(config.ephemeral)
    BY ConfigTypes DEF Sides, Types, Records
  <2>2. pg.added \in Nat /\ pg.added + 1 \in 0 .. config.ephemeral /\ pg.active \in Nat /\ pg.active + 1 \in Nat
    BY <1>1, <2>1 DEF PgTypes
  <2>. QED BY <1>1, <2>1, <2>2 DEF PgTypes
<1>3. EphemeralOwned'
  <2>1. PICK flying \in SUBSET (1 .. pg.added), waiting \in SUBSET (1 .. pg.added) :
          \E owner \in [flying -> Works \union {NoWork}] : Assigned(flying, waiting, owner)
    BY DEF Sides, EphemeralOwned
  <2>2. PICK owner \in [flying -> Works \union {NoWork}] : Assigned(flying, waiting, owner)
    BY <2>1
  <2>3. PICK i : i = pg.added + 1
    OBVIOUS
  <2>4. PICK more : more = waiting \union {i}
    OBVIOUS
  <2>5. /\ flying \in SUBSET (1 .. pg'.added) /\ more \in SUBSET (1 .. pg'.added)
        /\ i \notin flying \union waiting /\ flying \union more = (flying \union waiting) \union {i}
    <3>1. 1 .. pg'.added = (1 .. pg.added) \union {i} /\ i \notin 1 .. pg.added
      BY <1>2, <2>3
    <3>. QED BY <2>4, <3>1
  <2>6. IsFiniteSet(flying \union waiting)
    <3>1. 1 \in Int /\ pg.added \in Int
      BY <1>2
    <3>2. IsFiniteSet(1 .. pg.added)
      BY <3>1, FS_Interval
    <3>. QED BY <3>2, FS_Subset
  <2>7. Cardinality(flying \union more) = pg.active + 1
    <3>1. pg.active = Cardinality(flying \union waiting)
      BY <2>2 DEF Assigned
    <3>2. Cardinality((flying \union waiting) \union {i}) = Cardinality(flying \union waiting) + 1
      BY <2>5, <2>6, FS_AddElement
    <3>. QED BY <2>5, <3>1, <3>2
  <2>8. Assigned(flying, more, owner)'
    <3>1. flying \intersect waiting = {}
      BY <2>2 DEF Assigned
    <3>2. flying \intersect more = {}
      BY <2>4, <2>5, <3>1
    <3>3. config' = config /\ work' = work /\ pg'.inflight = pg.inflight /\ pg'.active = pg.active + 1
      BY <1>1, <1>2
    <3>. QED BY <2>2, <2>7, <3>2, <3>3 DEF Assigned
  <2>. QED BY <2>5, <2>8 DEF EphemeralOwned
<1>4. \A w \in Works : Life(w)'
  BY <1>1 DEF Sides, Life, finishedGPUExecution
<1>5. MainSide' /\ WatchdogSide' /\ ListSide'
  BY <1>1 DEF Sides, MainSide, MainOK, WatchdogSide, WatchdogOK, ListSide, ListsOK, finishedGPUExecution, Current
<1>6. Types'
  BY <1>1, <1>2 DEF Sides, Types, Records, WorkTypes
<1>. QED BY <1>3, <1>4, <1>5, <1>6 DEF Sides

(***************************************************************************)
(* Steps that change one work.                                             *)
(***************************************************************************)
LEMMA OneWork ==
  ASSUME Types, NEW w \in Works, NEW r \in WorkTypes, work' = [work EXCEPT ![w] = r],
         config' = config
  PROVE  /\ work' \in [Works -> WorkTypes] /\ WorkTypes' = WorkTypes
         /\ work'[w] = r
         /\ \A v \in Works \ {w} : work'[v] = work[v] /\ Same(v)
<1>1. work' \in [Works -> WorkTypes] /\ work'[w] = r
  BY DEF Types
<1>2. \A v \in Works \ {w} : work'[v] = work[v]
  BY DEF Types
<1>. QED BY <1>1, <1>2 DEF Same, GpuGoesOn, WorkTypes

\* The step SameStep is about, for one work.
LEMMA OneSameStep ==
  ASSUME Sides, UNCHANGED <<config, meta, completed, shelves>>, Records', TimeoutsAlone,
         NEW w \in Works, NEW r \in WorkTypes, work' = [work EXCEPT ![w] = r],
         r.kind = work[w].kind, r.stage = work[w].stage, r.exU = work[w].exU \/ Issued(w),
         r.exW = work[w].exW,
         r.result = work[w].result \/ (work[w].result = "none" /\ r.result \in Errors /\ Issued(w)),
         r.owned = work[w].owned, r.hooked = work[w].hooked, work[w].ordered => r.ordered,
         r.gpu = work[w].gpu \/ (work[w].gpu = "running" /\ r.gpu \in {"done", "killed"}),
         work[w].shelf => r.shelf \/ r.ordered,
         main' = main \/ MainSide', wd' = wd, hook' = hook
  PROVE  Sides'
<1>1. /\ work' \in [Works -> WorkTypes] /\ WorkTypes' = WorkTypes
      /\ work'[w] = r
      /\ \A v \in Works \ {w} : work'[v] = work[v] /\ Same(v)
  BY OneWork DEF Sides
<1>2. Same(w)
  BY <1>1 DEF Same, GpuGoesOn
<1>3. \A v \in Works : Same(v) /\ (work[v].shelf => work'[v].shelf \/ work'[v].ordered)
  BY <1>1, <1>2
<1>4. Types'
  BY <1>1 DEF Types
<1>. QED BY <1>3, <1>4, SameStep

LEMMA FinishStep ==
  ASSUME Sides, NEW w \in Works, Finish(w) \/ Expire(w)
  PROVE  Sides'
<1>1. PICK r : r = IF Finish(w) THEN [work[w] EXCEPT !.gpu = "done"]
                                ELSE [work[w] EXCEPT !.expired = TRUE]
  OBVIOUS
<1>2. work[w] \in WorkTypes /\ work \in [Works -> WorkTypes]
  BY DEF Sides, Types
<1>3. r \in WorkTypes /\ work' = [work EXCEPT ![w] = r]
  BY <1>1, <1>2 DEF WorkTypes, Finish, Expire
<1>4. UNCHANGED <<config, comm, meta, completed, shelves, pg, main, wd, hook, aborter, alive>>
  BY DEF Finish, Expire
<1>5. r.gpu = work[w].gpu \/ (work[w].gpu = "running" /\ r.gpu = "done")
  BY <1>1, <1>2 DEF WorkTypes, Finish
<1>6. Records' /\ TimeoutsAlone
  BY <1>4, RecordsKept DEF Sides, Types, Records
<1>7. /\ r.kind = work[w].kind /\ r.stage = work[w].stage /\ r.exU = work[w].exU
      /\ r.exW = work[w].exW /\ r.result = work[w].result
      /\ r.owned = work[w].owned /\ r.hooked = work[w].hooked /\ r.ordered = work[w].ordered
      /\ r.shelf = work[w].shelf
  BY <1>1, <1>2 DEF WorkTypes
<1>. QED BY <1>3, <1>4, <1>5, <1>6, <1>7, OneSameStep

\* Between two calls no work is on its way to workEnqueue.
LEMMA NoneMade ==
  ASSUME Sides, main.pc \notin {"enqueue", "lock"}
  PROVE  \A w \in Works : work[w].stage # "made"
BY DEF Sides, MainSide

\* wait() and its parts are about a work that was issued.
Waiting == {"unstash", "poll", "mark", "rethrow"}

LEMMA WaitSide ==
  ASSUME Sides, main.pc \notin {"enqueue", "lock"}, main' \in MainTypes,
         main'.pc \in Waiting, main'.w \in Works, Issued(main'.w),
         \A w \in Works : work'[w].stage = work[w].stage,
         main'.pc = "unstash" => work'[main'.w].ordered,
         main'.pc = "mark" => main'.mark \in Errors
  PROVE  MainSide'
<1>1. \A w \in Works : work'[w].stage # "made"
  BY NoneMade
<1>. QED BY <1>1 DEF MainSide, MainOK, Waiting, Issued

LEMMA IdleSide ==
  ASSUME Sides, main.pc \notin {"enqueue", "lock"}, main' = Idle,
         \A w \in Works : work'[w].stage = work[w].stage
  PROVE  main' \in MainTypes /\ MainSide'
<1>1. \A w \in Works : work'[w].stage # "made"
  BY NoneMade
<1>. QED BY <1>1 DEF MainSide, MainOK, Idle, MainTypes

LEMMA WaitStep ==
  ASSUME Sides, NEW w \in Works, NEW timed \in BOOLEAN, Wait(w, timed)
  PROVE  Sides'
<1>1. PICK r : r = [work[w] EXCEPT !.ordered = TRUE]
  OBVIOUS
<1>2. work[w] \in WorkTypes /\ main \in MainTypes /\ main.pc = "idle"
  BY DEF Sides, Types, Records, Wait, AtMain
<1>3. /\ r \in WorkTypes /\ work' = [work EXCEPT ![w] = r] /\ r.ordered
      /\ r.kind = work[w].kind /\ r.stage = work[w].stage /\ r.exU = work[w].exU
      /\ r.exW = work[w].exW /\ r.result = work[w].result /\ r.gpu = work[w].gpu
      /\ r.owned = work[w].owned /\ r.hooked = work[w].hooked /\ r.shelf = work[w].shelf
  BY <1>1, <1>2 DEF WorkTypes, Wait
<1>4. /\ UNCHANGED <<config, comm, meta, completed, shelves, pg, wd, hook, aborter, alive>>
      /\ main' = [main EXCEPT !.pc = "unstash", !.w = w, !.timed = timed]
  BY DEF Wait
<1>5. main' \in MainTypes /\ main'.pc = "unstash" /\ main'.w = w
  BY <1>2, <1>4 DEF MainTypes
<1>6. Issued(w)
  BY <1>2, NoneMade DEF Issued, Wait
<1>7. \A v \in Works : work'[v].stage = work[v].stage
  BY <1>3 DEF Sides, Types
<1>8. work'[w].ordered
  BY <1>3 DEF Sides, Types
<1>9. MainSide'
  BY <1>2, <1>5, <1>6, <1>7, <1>8, WaitSide DEF Waiting
<1>10. Records' /\ TimeoutsAlone
  BY <1>4, <1>5, RecordsKept DEF Sides, Types, Records
<1>. QED BY <1>3, <1>4, <1>9, <1>10, OneSameStep

\* A step of wait() at work main.w.
LEMMA AtWork ==
  ASSUME Sides, main.pc \in Waiting
  PROVE  main.w \in Works /\ Issued(main.w) /\ main.pc \notin {"enqueue", "lock"}
BY DEF Sides, MainSide, MainOK, Waiting, Issued

LEMMA UnstashStep ==
  ASSUME Sides, Unstash
  PROVE  Sides'
<1>1. PICK w : w = main.w
  OBVIOUS
<1>2. PICK r : r = [work[w] EXCEPT !.shelf = FALSE]
  OBVIOUS
<1>3. PICK pc : pc = IF main.timed \/ config.blocking THEN "poll" ELSE "rethrow"
  OBVIOUS
<1>4. main \in MainTypes /\ main.pc = "unstash" /\ w \in Works /\ Issued(w)
  BY <1>1, AtWork DEF Sides, Types, Records, Unstash, AtMain, Waiting
<1>5. work[w] \in WorkTypes /\ work[w].ordered
  BY <1>1, <1>4 DEF Sides, Types, MainSide, MainOK
<1>6. /\ r \in WorkTypes /\ work' = [work EXCEPT ![w] = r] /\ r.ordered
      /\ r.kind = work[w].kind /\ r.stage = work[w].stage /\ r.exU = work[w].exU
      /\ r.exW = work[w].exW /\ r.result = work[w].result /\ r.gpu = work[w].gpu
      /\ r.owned = work[w].owned /\ r.hooked = work[w].hooked
  BY <1>1, <1>2, <1>5 DEF WorkTypes, Unstash
<1>7. /\ UNCHANGED <<config, comm, meta, completed, shelves, pg, wd, hook, aborter, alive>>
      /\ main' = [main EXCEPT !.pc = pc]
  BY <1>3 DEF Unstash, MainTo
<1>8. main' \in MainTypes /\ main'.pc \in {"poll", "rethrow"} /\ main'.w = w
  BY <1>1, <1>3, <1>4, <1>7 DEF MainTypes
<1>9. \A v \in Works : work'[v].stage = work[v].stage
  BY <1>6 DEF Sides, Types
<1>10. MainSide'
  BY <1>4, <1>8, <1>9, WaitSide DEF Waiting
<1>11. Records' /\ TimeoutsAlone
  BY <1>7, <1>8, RecordsKept DEF Sides, Types, Records
<1>. QED BY <1>4, <1>6, <1>7, <1>10, <1>11, OneSameStep

LEMMA PollCompletedStep ==
  ASSUME Sides, PollCompleted
  PROVE  Sides'
<1>1. main \in MainTypes /\ main.w \in Works /\ Issued(main.w) /\ main.pc = "poll"
  BY AtWork DEF Sides, Types, Records, PollCompleted, AtMain, Waiting
<1>2. /\ UNCHANGED <<config, work, comm, meta, completed, shelves, pg, wd, hook, aborter, alive>>
      /\ main' = [main EXCEPT !.pc = "rethrow"]
  BY DEF PollCompleted, MainTo
<1>3. main' \in MainTypes /\ main'.pc = "rethrow" /\ main'.w = main.w
  BY <1>1, <1>2 DEF MainTypes
<1>4. MainSide'
  BY <1>1, <1>2, <1>3, WaitSide DEF Waiting
<1>5. Records' /\ TimeoutsAlone
  BY <1>2, <1>3, RecordsKept DEF Sides, Types, Records
<1>. QED BY <1>2, <1>4, <1>5, QuietStep

\* An exception is set in the program's object; its kernel and its tensors do not notice.
LEMMA PollStep ==
  ASSUME Sides, PollError \/ PollTimeout
  PROVE  Sides'
<1>1. /\ \E ex \in Errors : SetExceptionU(ex)
      /\ UNCHANGED <<config, comm, meta, completed, shelves, pg, wd, hook, aborter, alive>>
      /\ main.pc = "poll"
  BY DEF PollError, PollTimeout, AtMain, Errors
<1>2. PICK ex \in Errors : SetExceptionU(ex)
  BY <1>1
<1>3. PICK w : w = main.w
  OBVIOUS
<1>4. PICK r : r = [work[w] EXCEPT !.exU = ex]
  OBVIOUS
<1>5. main \in MainTypes /\ w \in Works /\ Issued(w)
  BY <1>1, <1>3, AtWork DEF Sides, Types, Records, Waiting
<1>6. work[w] \in WorkTypes
  BY <1>5 DEF Sides, Types
<1>7. /\ r \in WorkTypes /\ work' = [work EXCEPT ![w] = r]
      /\ r.kind = work[w].kind /\ r.stage = work[w].stage /\ r.ordered = work[w].ordered
      /\ r.exW = work[w].exW /\ r.result = work[w].result /\ r.gpu = work[w].gpu
      /\ r.owned = work[w].owned /\ r.hooked = work[w].hooked /\ r.shelf = work[w].shelf
  BY <1>2, <1>3, <1>4, <1>6 DEF WorkTypes, SetExceptionU, Errors
<1>8. main' = [main EXCEPT !.pc = "mark", !.mark = ex] \/ main' = [main EXCEPT !.pc = "rethrow"]
  BY <1>2 DEF SetExceptionU
<1>9. main' \in MainTypes /\ main'.w = w
      /\ (main'.pc = "rethrow" \/ (main'.pc = "mark" /\ main'.mark \in Errors))
  BY <1>3, <1>5, <1>8 DEF MainTypes
<1>10. \A v \in Works : work'[v].stage = work[v].stage
  BY <1>7 DEF Sides, Types
<1>11. MainSide'
  BY <1>1, <1>5, <1>9, <1>10, WaitSide DEF Waiting
<1>12. Records' /\ TimeoutsAlone
  BY <1>1, <1>9, RecordsKept DEF Sides, Types, Records
<1>. QED BY <1>1, <1>5, <1>7, <1>11, <1>12, OneSameStep

\* The result is marked only if there is none, and only with an error.
LEMMA MainMarkStep ==
  ASSUME Sides, MainMark
  PROVE  Sides'
<1>1. /\ main.pc = "mark"
      /\ UNCHANGED <<config, comm, meta, completed, shelves, pg, wd, hook, aborter, alive>>
  BY DEF MainMark, AtMain
<1>2. main \in MainTypes /\ main.w \in Works /\ Issued(main.w) /\ main.mark \in Errors
  BY <1>1, AtWork DEF Sides, Types, Records, Waiting, MainSide, MainOK
<1>3. CASE work[main.w].result = "none"
  <2>1. PICK w : w = main.w
    OBVIOUS
  <2>2. PICK r : r = [work[w] EXCEPT !.result = main.mark]
    OBVIOUS
  <2>3. work[w] \in WorkTypes /\ main' = [main EXCEPT !.pc = "rethrow"]
    BY <1>2, <1>3, <2>1 DEF Sides, Types, MainMark, MainTo
  <2>4. /\ r \in WorkTypes /\ work' = [work EXCEPT ![w] = r] /\ r.result \in Errors
        /\ r.kind = work[w].kind /\ r.stage = work[w].stage /\ r.ordered = work[w].ordered
        /\ r.exW = work[w].exW /\ r.exU = work[w].exU /\ r.gpu = work[w].gpu
        /\ r.owned = work[w].owned /\ r.hooked = work[w].hooked /\ r.shelf = work[w].shelf
    BY <1>2, <1>3, <2>1, <2>2, <2>3 DEF WorkTypes, MainMark, Errors, Results
  <2>5. main' \in MainTypes /\ main'.w = w /\ main'.pc = "rethrow"
    BY <1>2, <2>1, <2>3 DEF MainTypes
  <2>6. \A v \in Works : work'[v].stage = work[v].stage
    BY <2>4 DEF Sides, Types
  <2>7. MainSide'
    BY <1>1, <1>2, <2>1, <2>5, <2>6, WaitSide DEF Waiting
  <2>8. Records' /\ TimeoutsAlone
    BY <1>1, <2>5, RecordsKept DEF Sides, Types, Records
  <2>9. w \in Works /\ work[w].result = "none" /\ Issued(w)
    BY <1>2, <1>3, <2>1
  <2>. QED BY <1>1, <2>4, <2>7, <2>8, <2>9, OneSameStep
<1>4. CASE work[main.w].result # "none"
  <2>1. main' = Idle /\ work' = work
    BY <1>4 DEF MainMark, MainTo
  <2>2. main' \in MainTypes /\ MainSide'
    BY <1>1, <2>1, IdleSide
  <2>3. Records' /\ TimeoutsAlone
    BY <1>1, <2>2, RecordsKept DEF Sides, Types, Records
  <2>. QED BY <1>1, <2>1, <2>2, <2>3, QuietStep
<1>. QED BY <1>3, <1>4

LEMMA RethrowStep ==
  ASSUME Sides, Rethrow
  PROVE  Sides'
<1>1. /\ main.pc = "rethrow" /\ main' = Idle
      /\ UNCHANGED <<work, comm>> \/ abortComm(FALSE)
      /\ UNCHANGED <<config, meta, completed, shelves, pg, wd, hook, aborter, alive>>
  BY DEF Rethrow, AtMain, MainTo
<1>2. \A w \in Works : work'[w].stage = work[w].stage
  BY <1>1 DEF abortComm, Sides, Types, WorkTypes
<1>3. main' \in MainTypes /\ MainSide'
  BY <1>1, <1>2, IdleSide
<1>4. comm' = comm \/ comm' \in CommTypes
  BY <1>1, Aborted DEF Sides, Types
<1>5. Records' /\ TimeoutsAlone
  BY <1>1, <1>3, <1>4, RecordsKept DEF Sides, Types, Records
<1>. QED BY <1>1, <1>3, <1>5, AbortStep, QuietStep

(***************************************************************************)
(* Issuing a collective.                                                   *)
(***************************************************************************)
\* What assignTimeoutToWork computes: the number of the timeouts that wait.
LEMMA WaitingTimeouts ==
  ASSUME Records, NEW flying \in SUBSET (1 .. pg.added), NEW waiting \in SUBSET (1 .. pg.added),
         NEW owner, Assigned(flying, waiting, owner)
  PROVE  /\ IsFiniteSet(flying) /\ IsFiniteSet(waiting)
         /\ pg.active \in Nat /\ pg.inflight \in Nat
         /\ pg.active - pg.inflight = Cardinality(waiting) /\ Cardinality(waiting) \in Nat
<1>1. pg.added \in Nat /\ 1 \in Int /\ pg.added \in Int /\ pg.active \in Nat /\ pg.inflight \in Nat
  BY ConfigTypes DEF Records, PgTypes
<1>2. IsFiniteSet(1 .. pg.added)
  BY <1>1, FS_Interval
<1>3. IsFiniteSet(flying) /\ IsFiniteSet(waiting)
  BY <1>2, FS_Subset
<1>4. Cardinality(flying) \in Nat /\ Cardinality(waiting) \in Nat
  BY <1>3, FS_CardinalityType
<1>5. Cardinality(flying \union waiting) = Cardinality(flying) + Cardinality(waiting) - Cardinality({})
  <2>1. flying \intersect waiting = {}
    BY DEF Assigned
  <2>2. Cardinality(flying \union waiting)
          = Cardinality(flying) + Cardinality(waiting) - Cardinality(flying \intersect waiting)
    BY <1>3, FS_Union
  <2>. QED BY <2>1, <2>2
<1>6. Cardinality({}) = 0
  BY FS_EmptySet
<1>7. pg.active = Cardinality(flying) + Cardinality(waiting) /\ pg.inflight = Cardinality(flying)
  BY <1>4, <1>5, <1>6 DEF Assigned
<1>. QED BY <1>1, <1>3, <1>4, <1>7

LEMMA CollectiveStep ==
  ASSUME Sides, NEW w \in Works, NEW kind \in config.kinds, Collective(w, kind)
  PROVE  Sides'
<1>1. /\ main.pc = "idle" /\ work[w].stage = "none"
      /\ pg' = [pg EXCEPT !.inflight = pg.active]
      /\ main' = [main EXCEPT !.pc = "enqueue", !.w = w]
      /\ UNCHANGED <<config, comm, meta, completed, shelves, wd, hook, aborter, alive>>
  BY DEF Collective, AtMain
<1>2. work \in [Works -> WorkTypes] /\ Records /\ work[w] \in WorkTypes /\ Life(w)
  BY DEF Sides, Types
<1>3. PICK flying \in SUBSET (1 .. pg.added), waiting \in SUBSET (1 .. pg.added) :
        \E owner \in [flying -> Works \union {NoWork}] : Assigned(flying, waiting, owner)
  BY DEF Sides, EphemeralOwned
<1>4. PICK owner \in [flying -> Works \union {NoWork}] : Assigned(flying, waiting, owner)
  BY <1>3
<1>5. /\ pg.active \in Nat /\ pg.inflight \in Nat /\ IsFiniteSet(flying) /\ IsFiniteSet(waiting)
      /\ pg.active - pg.inflight = Cardinality(waiting) /\ Cardinality(waiting) \in Nat
  BY <1>2, <1>4, WaitingTimeouts
<1>6. PICK n : n = IF kind = "coalesced" THEN 0 ELSE pg.active - pg.inflight
  OBVIOUS
<1>7. n \in 0 .. config.ephemeral
  <2>1. pg.active \in 0 .. config.ephemeral /\ config.ephemeral \in Nat
    BY <1>2, TimeoutsBounded, ConfigTypes DEF Sides
  <2>. QED BY <1>5, <1>6, <2>1
<1>8. PICK r : r = [work[w] EXCEPT !.kind = kind, !.gpu = "running", !.stage = "made",
                                   !.shelf = kind # "sync", !.owned = n]
  OBVIOUS
<1>9. work' = [work EXCEPT ![w] = r]
  BY <1>6, <1>8 DEF Collective, OwnedTimeout
<1>10. /\ r \in WorkTypes
       /\ r.kind = kind /\ r.gpu = "running" /\ r.stage = "made" /\ (r.shelf <=> kind # "sync")
       /\ r.owned = n /\ r.exU = "none" /\ r.exW = "none" /\ r.result = "none" /\ r.hooked = 0
       /\ work[w].gpu = "idle" /\ work[w].exW = "none" /\ work[w].result = "none"
       /\ w \notin shelves /\ w \notin Range(completed)
  BY <1>1, <1>2, <1>7, <1>8 DEF WorkTypes, Life
<1>11. /\ work' \in [Works -> WorkTypes] /\ WorkTypes' = WorkTypes /\ work'[w] = r
       /\ \A v \in Works \ {w} : work'[v] = work[v] /\ Same(v)
  BY <1>1, <1>9, <1>10, OneWork DEF Sides
<1>12. main' \in MainTypes /\ main'.pc = "enqueue" /\ main'.w = w
  BY <1>1, <1>2 DEF Records, MainTypes
<1>13. /\ pg' \in PgTypes(config.ephemeral) /\ pg'.added = pg.added /\ pg'.active = pg.active
       /\ pg'.inflight = pg.active
  BY <1>1, <1>2 DEF Records, PgTypes
<1>14. Types'
  BY <1>1, <1>2, <1>11, <1>12, <1>13 DEF Types, Records
<1>15. MainSide'
  <2>1. \A v \in Works : work'[v].stage = "made" => v = w
    BY <1>1, <1>11, NoneMade
  <2>. QED BY <1>10, <1>11, <1>12, <2>1 DEF MainSide, MainOK
<1>16. WatchdogSide'
  <2>1. \A v \in Works : /\ work'[v].stage = "listed" => work[v].stage = "listed"
                         /\ work'[v].exW = work[v].exW /\ work'[v].result = work[v].result
                         /\ finishedGPUExecution(v) => finishedGPUExecution(v)'
    BY <1>10, <1>11 DEF finishedGPUExecution
  <2>. QED BY <1>1, <2>1, WatchdogKept DEF Sides
<1>17. ListSide'
  <2>1. \A v \in Works : work'[v].stage = "listed" <=> work[v].stage = "listed"
    BY <1>1, <1>10, <1>11
  <2>. QED BY <1>1, <2>1, ListsKept DEF Sides
<1>18. ASSUME NEW v \in Works PROVE Life(v)'
  <2>1. CASE v = w
    BY <1>1, <1>10, <1>11, <2>1 DEF Life
  <2>2. CASE v # w
    BY <1>1, <1>11, <2>2, LifeKept DEF Sides
  <2>. QED BY <2>1, <2>2
<1>19. EphemeralOwned'
  <2>1. PICK who : who = IF kind = "coalesced" THEN NoWork ELSE w
    OBVIOUS
  <2>2. PICK all : all = flying \union waiting
    OBVIOUS
  <2>3. PICK own : own = [i \in all |-> IF i \in flying THEN owner[i] ELSE who]
    OBVIOUS
  <2>4. own \in [all -> Works \union {NoWork}] /\ all \in SUBSET (1 .. pg'.added)
    BY <1>4, <1>13, <2>1, <2>2, <2>3
  <2>5. /\ flying \intersect waiting = {} /\ pg.active = Cardinality(all)
        /\ \A v \in Works : work[v].owned = Cardinality(OwnedBy(v, flying, owner))
        /\ \A v \in Works : work[v].stage = "retired" => work[v].owned = 0
        /\ "coalesced" \notin config.kinds => \A i \in flying : owner[i] # NoWork
    BY <1>4, <2>2 DEF Assigned
  <2>6. ASSUME NEW v \in Works \ {w}
        PROVE  work'[v].owned = Cardinality(OwnedBy(v, all, own))
    <3>1. OwnedBy(v, all, own) = OwnedBy(v, flying, owner)
      BY <2>1, <2>2, <2>3, <2>5, <2>6, ProcessGroupConstants DEF OwnedBy
    <3>. QED BY <1>11, <2>5, <3>1
  <2>7. r.owned = Cardinality(OwnedBy(w, all, own))
    <3>1. work[w].owned = 0 /\ OwnedBy(w, flying, owner) = {}
      <4>1. work[w].owned = 0 /\ Cardinality(OwnedBy(w, flying, owner)) = 0
        BY <1>1, <1>2, <2>5 DEF Life
      <4>2. IsFiniteSet(OwnedBy(w, flying, owner))
        BY <1>5, FS_Subset DEF OwnedBy
      <4>. QED BY <4>1, <4>2, FS_EmptySet
    <3>2. CASE kind = "coalesced"
      <4>1. OwnedBy(w, all, own) = {}
        BY <2>1, <2>2, <2>3, <3>1, <3>2, ProcessGroupConstants DEF OwnedBy
      <4>. QED BY <1>6, <1>10, <3>2, <4>1, FS_EmptySet
    <3>3. CASE kind # "coalesced"
      <4>1. OwnedBy(w, all, own) = waiting
        BY <2>1, <2>2, <2>3, <2>5, <3>1, <3>3 DEF OwnedBy
      <4>. QED BY <1>5, <1>6, <1>10, <3>3, <4>1
    <3>. QED BY <3>2, <3>3
  <2>8. "coalesced" \notin config.kinds => \A i \in all : own[i] # NoWork
    BY <2>1, <2>2, <2>3, <2>5, ProcessGroupConstants
  <2>9. Assigned(all, {}, own)'
    <3>1. \A v \in Works : work'[v].owned = Cardinality(OwnedBy(v, all, own))
      BY <1>11, <2>6, <2>7
    <3>2. \A v \in Works : work'[v].stage = "retired" => work'[v].owned = 0
      BY <1>10, <1>11, <2>5
    <3>3. pg'.inflight = Cardinality(all) /\ pg'.active = Cardinality(all \union {}) /\ config' = config
      BY <1>1, <1>13, <2>5
    <3>. QED BY <2>8, <3>1, <3>2, <3>3 DEF Assigned
  <2>. QED BY <2>4, <2>9 DEF EphemeralOwned
<1>. QED BY <1>14, <1>15, <1>16, <1>17, <1>18, <1>19 DEF Sides

\* The shelves are emptied of the works the watchdog found ended or failed.
LEMMA UnstashShelvesStep ==
  ASSUME Sides, UnstashShelves
  PROVE  Sides'
<1>1. PICK w : w = main.w
  OBVIOUS
<1>2. PICK enqueue \in BOOLEAN : enqueue <=> ~pg.terminate /\ ~config.blocking
  OBVIOUS
<1>3. /\ main.pc = "enqueue" /\ shelves' = {}
      /\ work' = [v \in Works |-> [work[v] EXCEPT
           !.shelf = work[v].shelf /\ v \notin shelves,
           !.stage = IF v = w /\ ~enqueue THEN "dropped" ELSE work[v].stage]]
      /\ UNCHANGED <<config, comm, meta, completed, pg, wd, hook, aborter, alive>>
  BY <1>1, <1>2 DEF UnstashShelves, AtMain
<1>4. main' = IF enqueue THEN [main EXCEPT !.pc = "lock"] ELSE Idle
  BY <1>2 DEF UnstashShelves, MainTo
<1>5. /\ work \in [Works -> WorkTypes] /\ main \in MainTypes
      /\ w \in Works /\ work[w].stage = "made"
      /\ \A v \in Works : work[v].stage = "made" => v = w
      /\ \A v \in Works : Life(v)
  BY <1>1, <1>3 DEF Sides, Types, Records, MainSide, MainOK
<1>6. ASSUME NEW v \in Works
      PROVE  /\ work'[v] \in WorkTypes
             /\ work'[v].kind = work[v].kind /\ work'[v].gpu = work[v].gpu
             /\ work'[v].exU = work[v].exU /\ work'[v].exW = work[v].exW
             /\ work'[v].result = work[v].result /\ work'[v].owned = work[v].owned
             /\ work'[v].hooked = work[v].hooked /\ work'[v].ordered = work[v].ordered
             /\ work'[v].shelf <=> work[v].shelf /\ v \notin shelves
             /\ work'[v].stage = IF v = w /\ ~enqueue THEN "dropped" ELSE work[v].stage
  <2>1. work[v] \in WorkTypes
    BY <1>5
  <2>2. work'[v] = [work[v] EXCEPT !.shelf = work[v].shelf /\ v \notin shelves,
                                   !.stage = IF v = w /\ ~enqueue THEN "dropped" ELSE work[v].stage]
    BY <1>3
  <2>. QED BY <2>1, <2>2 DEF WorkTypes
<1>7. main' \in MainTypes /\ MainSide'
  <2>1. CASE enqueue
    <3>1. main' \in MainTypes /\ main'.pc = "lock" /\ main'.w = w
      BY <1>1, <1>4, <1>5, <2>1 DEF MainTypes
    <3>. QED BY <1>5, <1>6, <2>1, <3>1 DEF MainSide, MainOK
  <2>2. CASE ~enqueue
    <3>1. main' \in MainTypes /\ main'.pc = "idle"
      BY <1>4, <2>2 DEF MainTypes, Idle
    <3>2. \A v \in Works : work'[v].stage # "made"
      BY <1>5, <1>6, <2>2
    <3>. QED BY <3>1, <3>2 DEF MainSide, MainOK
  <2>. QED BY <2>1, <2>2
<1>8. Records' /\ TimeoutsAlone
  BY <1>3, <1>7, RecordsKept DEF Sides, Types, Records
<1>9. Types'
  <2>1. work' \in [Works -> WorkTypes]
    BY <1>3, <1>6
  <2>. QED BY <1>3, <1>8, <2>1 DEF Types, WorkTypes
<1>10. \A v \in Works : work'[v].stage = work[v].stage \/ (v = w /\ work'[v].stage = "dropped")
  BY <1>6
<1>11. WatchdogSide'
  BY <1>3, <1>6, <1>10, WatchdogKept DEF Sides, finishedGPUExecution
<1>12. ListSide'
  BY <1>3, <1>5, <1>10, ListsKept DEF Sides
<1>13. EphemeralOwned'
  BY <1>3, <1>6, <1>8, <1>10, TimeoutsKept DEF Sides
<1>14. ASSUME NEW v \in Works PROVE Life(v)'
  <2>1. Life(v) /\ Range(completed') = Range(completed) /\ (v = w => work[v].stage = "made")
    BY <1>3, <1>5
  <2>2. finishedGPUExecution(v)' <=> finishedGPUExecution(v)
    BY <1>6 DEF finishedGPUExecution
  <2>3. work'[v].stage = work[v].stage \/ (work[v].stage = "made" /\ work'[v].stage = "dropped")
    BY <1>5, <1>10
  <2>4. /\ work'[v].gpu = work[v].gpu /\ work'[v].kind = work[v].kind /\ work'[v].exW = work[v].exW
        /\ work'[v].exU = work[v].exU /\ work'[v].result = work[v].result
        /\ work'[v].owned = work[v].owned /\ work'[v].hooked = work[v].hooked
        /\ work'[v].ordered = work[v].ordered /\ (work'[v].shelf <=> work[v].shelf /\ v \notin shelves)
    BY <1>6
  <2>5. work[v].gpu = "running" /\ work[v].exW = "none" => v \notin shelves
    BY <2>1 DEF Life, finishedGPUExecution
  <2>. QED BY <1>3, <2>1, <2>3, <2>4, <2>5 DEF Life
<1>. QED BY <1>7, <1>9, <1>11, <1>12, <1>13, <1>14 DEF Sides

\* The copy goes onto the list outside a pass of the watchdog, without an exception.
LEMMA WorkEnqueueStep ==
  ASSUME Sides, WorkEnqueue
  PROVE  Sides'
<1>1. PICK w : w = main.w
  OBVIOUS
<1>2. /\ main.pc = "lock" /\ ~InPass /\ meta' = Append(meta, w) /\ main' = Idle
      /\ UNCHANGED <<config, comm, completed, shelves, pg, wd, hook, aborter, alive>>
  BY <1>1 DEF WorkEnqueue, AtMain, MainTo
<1>3. /\ work \in [Works -> WorkTypes] /\ w \in Works /\ work[w].stage = "made" /\ Life(w)
      /\ \A v \in Works : work[v].stage = "made" => v = w
      /\ work[w] \in WorkTypes
  BY <1>1, <1>2 DEF Sides, Types, MainSide, MainOK
<1>4. PICK r : r = [work[w] EXCEPT !.stage = "listed", !.exW = work[w].exU]
  OBVIOUS
<1>5. work' = [work EXCEPT ![w] = r]
  BY <1>1, <1>3, <1>4 DEF WorkEnqueue
<1>6. /\ r \in WorkTypes /\ r.stage = "listed" /\ r.exW = "none" /\ r.exU = "none" /\ r.result = "none"
      /\ r.hooked = 0 /\ r.owned = work[w].owned /\ r.kind = work[w].kind /\ r.gpu = work[w].gpu
      /\ r.shelf = work[w].shelf /\ r.ordered = work[w].ordered
      /\ w \notin shelves /\ w \notin Range(completed) /\ work[w].exW = "none"
  BY <1>3, <1>4 DEF Life, WorkTypes
<1>7. /\ work' \in [Works -> WorkTypes] /\ WorkTypes' = WorkTypes /\ work'[w] = r
      /\ \A v \in Works \ {w} : work'[v] = work[v] /\ Same(v)
  BY <1>2, <1>3, <1>5, <1>6, OneWork DEF Sides
<1>8. main' \in MainTypes /\ MainSide'
  <2>1. main' \in MainTypes /\ main'.pc = "idle"
    BY <1>2 DEF MainTypes, Idle
  <2>2. \A v \in Works : work'[v].stage # "made"
    BY <1>3, <1>6, <1>7
  <2>. QED BY <2>1, <2>2 DEF MainSide, MainOK
<1>9. Records' /\ TimeoutsAlone
  BY <1>2, <1>8, RecordsKept DEF Sides, Types, Records
<1>10. Types'
  BY <1>7, <1>9 DEF Types
<1>11. wd.pc \notin Busy
  BY <1>2 DEF InPass, Busy, Sides, Types, Records, WdTypes
<1>12. WatchdogSide'
  <2>1. \A v \in Works : work'[v].stage = "listed" => work'[v].exW = "none" /\ work'[v].result # "SUCCESS"
    BY <1>6, <1>7, <1>11 DEF Sides, WatchdogSide, Busy
  <2>. QED BY <1>2, <1>11, <2>1 DEF WatchdogSide, WatchdogOK
<1>13. ListSide'
  <2>1. /\ meta \in Seq(Works) /\ IsInjective(meta) /\ Range(meta) = {v \in Works : work[v].stage = "listed"}
        /\ completed \in Seq(Works) /\ IsInjective(completed) /\ (hook.pc = "calling" => completed # <<>>)
    BY DEF Sides, ListSide, ListsOK
  <2>2. w \notin Range(meta)
    BY <1>3, <2>1
  <2>3. meta' \in Seq(Works) /\ IsInjective(meta') /\ Range(meta') = Range(meta) \union {w}
    BY <1>2, <1>3, <2>1, <2>2, Appended
  <2>4. Range(meta') = {v \in Works : work'[v].stage = "listed"}
    BY <1>3, <1>6, <1>7, <2>1, <2>3
  <2>. QED BY <1>2, <2>1, <2>3, <2>4 DEF ListSide, ListsOK
<1>14. EphemeralOwned'
  <2>1. \A v \in Works : /\ work'[v].owned = work[v].owned
                         /\ work'[v].stage = "retired" => work[v].stage = "retired"
    BY <1>6, <1>7
  <2>. QED BY <1>2, <1>9, <2>1, TimeoutsKept DEF Sides
<1>15. ASSUME NEW v \in Works PROVE Life(v)'
  <2>1. CASE v = w
    BY <1>2, <1>3, <1>6, <1>7, <2>1 DEF Life
  <2>2. CASE v # w
    BY <1>2, <1>7, <2>2, LifeKept DEF Sides
  <2>. QED BY <2>1, <2>2
<1>. QED BY <1>8, <1>10, <1>12, <1>13, <1>14, <1>15 DEF Sides

(***************************************************************************)
(* The watchdog.                                                           *)
(***************************************************************************)
\* What the watchdog knows of the work c it is at.
WatchdogAt(c) ==
  /\ wd.pc = "mark" =>
       \/ wd.mark = "SUCCESS" /\ wd.next = "retire" /\ work[c].exW = "none"
       \/ wd.mark \in Errors /\ wd.next \in {"failed", "shelve"} /\ work[c].exW # "none"
  /\ wd.pc \in {"failed", "cleanup", "handle"} => work[c].exW # "none"
  /\ wd.pc \notin {"mark", "timeout"} /\ work[c].exW # "none" => work[c].result # "none"
  /\ wd.pc = "shelve" => work[c].exW # "none" \/ finishedGPUExecution(c)
  /\ wd.pc = "retire" =>
       work[c].result # "none" /\ (work[c].result = "SUCCESS" => work[c].exW = "none")
  /\ work[c].exW # "none" => wd.pc # "timeout"
  /\ work[c].result = "SUCCESS" => wd.pc = "retire"

LEMMA WatchdogBusy ==
  ASSUME Sides, wd.pc \in Busy
  PROVE  /\ Current \in Works /\ work[Current].stage = "listed" /\ WatchdogAt(Current)
         /\ wd.pos \in 1 .. Len(meta) /\ meta[wd.pos] = Current
<1>1. Current \in Works /\ work[Current].stage = "listed"
  BY CurrentListed DEF Sides
<1>. QED BY <1>1 DEF Sides, WatchdogSide, WatchdogOK, WatchdogAt, Current

LEMMA WatchdogChecks ==
  ASSUME Sides, wd.pc = "check", wd.pos <= Len(meta)
  PROVE  /\ Current \in Works /\ work[Current].stage = "listed"
         /\ wd.pos \in 1 .. Len(meta) /\ meta[wd.pos] = Current
<1>1. wd.pos \in 1 .. Len(meta) /\ meta \in Seq(Works)
  BY DEF Sides, Types, Records, WdTypes, ListSide
<1>2. meta[wd.pos] \in Range(meta)
  BY <1>1 DEF Range
<1>. QED BY <1>1, <1>2 DEF Sides, ListSide, Current

\* No other work on the list has an error or counts as a success.
LEMMA OthersPlain ==
  ASSUME Sides, NEW w \in Works, work[w].stage = "listed", wd.pc \in Busy => w # Current
  PROVE  work[w].exW = "none" /\ work[w].result # "SUCCESS"
BY DEF Sides, WatchdogSide, Busy

\* The next step at a work.
LEMMA WatchdogGoesOn ==
  ASSUME Sides, meta' = meta, NEW c \in Works, c = Current, wd.pos \in 1 .. Len(meta),
         wd'.pos = wd.pos, wd'.pc \in Busy, WatchdogAt(c)',
         \A v \in Works : work'[v].stage = work[v].stage,
         \A v \in Works \ {c} : work'[v].exW = work[v].exW /\ work'[v].result = work[v].result
  PROVE  WatchdogSide'
<1>1. Current' = c
  BY DEF Current
<1>2. WatchdogOK'
  BY <1>1 DEF WatchdogOK, WatchdogAt
<1>3. ASSUME NEW w \in Works, work'[w].stage = "listed"
      PROVE  /\ work'[w].exW # "none" => wd'.pc \in Busy \ {"timeout"} /\ Current' = w
             /\ work'[w].result = "SUCCESS" => wd'.pc = "retire" /\ Current' = w
  <2>1. CASE w = c
    BY <1>1, <2>1 DEF WatchdogAt
  <2>2. CASE w # c
    BY <1>3, <2>2, OthersPlain
  <2>. QED BY <2>1, <2>2
<1>. QED BY <1>2, <1>3 DEF WatchdogSide

\* Between two works, and between two passes.
LEMMA WatchdogMoves ==
  ASSUME Sides, wd'.pc \notin Busy,
         \A v \in Works : work'[v].stage = "listed" =>
           /\ work[v].stage = "listed"
           /\ work'[v].exW = work[v].exW /\ work'[v].result = work[v].result
           /\ wd.pc \in Busy /\ v = Current => work[v].exW = "none" /\ work[v].result # "SUCCESS"
  PROVE  WatchdogSide'
<1>1. \A v \in Works : work'[v].stage = "listed" => work'[v].exW = "none" /\ work'[v].result # "SUCCESS"
  BY OthersPlain
<1>. QED BY <1>1 DEF WatchdogSide, WatchdogOK

LEMMA WdLoopStep ==
  ASSUME Sides, WdLoop \/ WdPass \/ WdEndOfPass
  PROVE  Sides'
<1>1. /\ UNCHANGED <<config, work, comm, meta, completed, shelves, pg, main, hook, aborter, alive>>
      /\ wd.pc \notin Busy
  BY DEF WdLoop, WdPass, WdEndOfPass, AtWd, Busy
<1>2. wd' \in WdTypes /\ wd'.pc \notin Busy
  <2>1. wd \in WdTypes
    BY DEF Sides, Types, Records
  <2>2. [wd EXCEPT !.pos = 1] \in WdTypes
    BY <2>1 DEF WdTypes
  <2>3. CASE WdLoop \/ WdPass
    BY <2>1, <2>2, <2>3 DEF WdLoop, WdPass, WdTo, WdTypes, Busy
  <2>4. CASE WdEndOfPass
    <3>1. CASE meta = <<>>
      <4>1. wd' = [wd EXCEPT !.pc = "loop", !.pos = 1, !.done = TRUE]
        BY <2>4, <3>1, Zenon DEF WdEndOfPass
      <4>2. wd' = [pc |-> "loop", pos |-> 1, done |-> TRUE, mark |-> wd.mark, next |-> wd.next]
        BY <2>1, <4>1 DEF WdTypes
      <4>. QED BY <2>1, <4>2 DEF WdTypes, Busy
    <3>2. CASE meta # <<>>
      <4>1. wd' = [wd EXCEPT !.pc = "loop", !.pos = 1, !.done = FALSE]
        BY <2>4, <3>2 DEF WdEndOfPass
      <4>2. wd' = [pc |-> "loop", pos |-> 1, done |-> FALSE, mark |-> wd.mark, next |-> wd.next]
        BY <2>1, <4>1 DEF WdTypes
      <4>. QED BY <2>1, <4>2 DEF WdTypes, Busy
    <3>. QED BY <3>1, <3>2
  <2>. QED BY <1>1, <2>3, <2>4
<1>3. WatchdogSide'
  BY <1>1, <1>2, WatchdogMoves
<1>4. Records' /\ TimeoutsAlone
  BY <1>1, <1>2, RecordsKept DEF Sides, Types, Records
<1>. QED BY <1>1, <1>3, <1>4, QuietStep

\* The error is reported: the steps that follow on an exception.
LEMMA WdFailedStep ==
  ASSUME Sides, WdFailed \/ WdHandleException
  PROVE  Sides'
<1>1. /\ UNCHANGED <<config, work, comm, meta, completed, shelves, main, hook, aborter>>
      /\ alive' \in BOOLEAN /\ wd.pc \in {"failed", "handle"}
      /\ \E pc \in {"cleanup", "handle", "complete"} : wd' = [wd EXCEPT !.pc = pc]
      /\ pg' = pg \/ pg' = [pg EXCEPT !.error = IF pg.error = "SUCCESS" THEN work[Current].exW ELSE pg.error,
                                      !.shouldDump = TRUE]
  BY DEF WdFailed, WdHandleException, AtWd, WdTo, Sides, Types, Records
<1>2. /\ Current \in Works /\ WatchdogAt(Current)
      /\ wd.pos \in 1 .. Len(meta) /\ wd.pc \in Busy
  BY <1>1, WatchdogBusy DEF Busy
<1>3. work[Current].exW \in Errors /\ work[Current].result \notin {"none", "SUCCESS"}
  <2>1. work[Current] \in WorkTypes
    BY <1>2 DEF Sides, Types
  <2>2. work[Current].exW \in Errors
    BY <1>1, <1>2, <2>1 DEF WatchdogAt, WorkTypes, Errors
  <2>. QED BY <1>1, <1>2, <2>2 DEF WatchdogAt, Errors
<1>4. wd' \in WdTypes /\ wd'.pc \in {"cleanup", "handle", "complete"} /\ wd'.pos = wd.pos
  BY <1>1 DEF Sides, Types, Records, WdTypes, Busy
<1>5. pg' \in PgTypes(config.ephemeral) /\ TimeoutsAlone
  BY <1>1, <1>3 DEF Sides, Types, Records, PgTypes, TimeoutsAlone
<1>6. PICK c \in Works : c = Current
  BY <1>2
<1>7. WatchdogAt(c)'
  BY <1>1, <1>3, <1>4, <1>6 DEF WatchdogAt, Errors
<1>8. WatchdogSide'
  BY <1>1, <1>2, <1>4, <1>6, <1>7, WatchdogGoesOn DEF Busy
<1>9. Records' /\ TimeoutsAlone
  BY <1>1, <1>4, <1>5, RecordsKept DEF Sides, Types, Records
<1>. QED BY <1>1, <1>8, <1>9, QuietStep

LEMMA WdCleanUpStep ==
  ASSUME Sides, WdCleanUp
  PROVE  Sides'
<1>1. /\ UNCHANGED <<config, meta, completed, shelves, pg, main, hook, aborter, alive>>
      /\ wd.pc = "cleanup" /\ wd' = [wd EXCEPT !.pc = "handle"] /\ abortComm(FALSE)
  BY DEF WdCleanUp, AtWd, WdTo
<1>2. /\ Current \in Works /\ WatchdogAt(Current)
      /\ wd.pos \in 1 .. Len(meta) /\ wd.pc \in Busy
  BY <1>1, WatchdogBusy DEF Busy
<1>3. wd' \in WdTypes /\ wd'.pc = "handle" /\ wd'.pos = wd.pos
  BY <1>1 DEF Sides, Types, Records, WdTypes, Busy
<1>4. \A v \in Works : /\ work'[v].stage = work[v].stage /\ work'[v].exW = work[v].exW
                       /\ work'[v].result = work[v].result
  BY <1>1 DEF abortComm, Sides, Types, WorkTypes
<1>5. PICK c \in Works : c = Current
  BY <1>2
<1>6. WatchdogAt(c)'
  BY <1>1, <1>2, <1>3, <1>4, <1>5 DEF WatchdogAt
<1>7. WatchdogSide'
  BY <1>1, <1>2, <1>3, <1>4, <1>5, <1>6, WatchdogGoesOn DEF Busy
<1>8. comm' \in CommTypes
  BY <1>1, Aborted DEF Sides, Types
<1>9. Records' /\ TimeoutsAlone
  BY <1>1, <1>3, <1>8, RecordsKept DEF Sides, Types, Records
<1>. QED BY <1>1, <1>7, <1>9, AbortStep

\* The watchdog goes to another step at the same work, and no work changes.
LEMMA WatchdogTurns ==
  ASSUME Sides, UNCHANGED <<config, work, comm, meta, completed, shelves, pg, main, hook, aborter, alive>>,
         NEW c \in Works, c = Current, wd.pos \in 1 .. Len(meta),
         NEW pc \in Busy, wd' = [wd EXCEPT !.pc = pc], WatchdogAt(c)'
  PROVE  Sides'
<1>1. wd' \in WdTypes /\ wd'.pc = pc /\ wd'.pos = wd.pos
  BY DEF Sides, Types, Records, WdTypes
<1>2. WatchdogSide'
  BY <1>1, WatchdogGoesOn
<1>3. Records' /\ TimeoutsAlone
  BY <1>1, RecordsKept DEF Sides, Types, Records
<1>. QED BY <1>2, <1>3, QuietStep

\* An exception is set in the copy of the work the watchdog is at; the result has
\* to be marked next, unless there is one.
LEMMA SetExceptionStep ==
  ASSUME Sides, NEW ex \in Errors, NEW next \in {"failed", "shelve"},
         UNCHANGED <<config, comm, meta, completed, shelves, pg, main, hook, aborter, alive>>,
         NEW c \in Works, c = Current, work[c].stage = "listed", wd.pos \in 1 .. Len(meta),
         work[c].exW = "none", work[c].result # "SUCCESS", SetExceptionW(ex, next)
  PROVE  Sides'
<1>1. PICK r : r = [work[c] EXCEPT !.exW = ex]
  OBVIOUS
<1>2. work[c] \in WorkTypes /\ wd \in WdTypes /\ Life(c)
  BY DEF Sides, Types, Records
<1>3. /\ r \in WorkTypes /\ work' = [work EXCEPT ![c] = r] /\ r.exW = ex
      /\ r.kind = work[c].kind /\ r.stage = work[c].stage /\ r.ordered = work[c].ordered
      /\ r.exU = work[c].exU /\ r.result = work[c].result /\ r.gpu = work[c].gpu
      /\ r.owned = work[c].owned /\ r.hooked = work[c].hooked /\ r.shelf = work[c].shelf
  BY <1>1, <1>2 DEF WorkTypes, SetExceptionW, Errors
<1>4. /\ work' \in [Works -> WorkTypes] /\ WorkTypes' = WorkTypes /\ work'[c] = r
      /\ \A v \in Works \ {c} : work'[v] = work[v] /\ Same(v)
  BY <1>3, OneWork DEF Sides
<1>5. \/ work[c].result = "none" /\ wd' = [wd EXCEPT !.pc = "mark", !.mark = ex, !.next = next]
      \/ work[c].result # "none" /\ wd' = [wd EXCEPT !.pc = next]
  BY DEF SetExceptionW
<1>6. wd' \in WdTypes /\ wd'.pos = wd.pos
      /\ \/ work[c].result = "none" /\ wd'.pc = "mark" /\ wd'.mark = ex /\ wd'.next = next
         \/ work[c].result # "none" /\ wd'.pc = next
  BY <1>2, <1>5 DEF WdTypes, Busy, Errors, Results
<1>7. WatchdogAt(c)'
  <2>1. work'[c].exW = ex /\ ex \in Errors /\ work'[c].result = work[c].result
    BY <1>3, <1>4
  <2>. QED BY <1>6, <2>1 DEF WatchdogAt, Errors
<1>8. \A v \in Works : work'[v].stage = work[v].stage
  BY <1>3, <1>4
<1>9. WatchdogSide'
  BY <1>4, <1>6, <1>7, <1>8, WatchdogGoesOn DEF Busy
<1>10. MainSide'
  BY <1>3, <1>4, <1>8, MainKept DEF Sides
<1>11. ListSide'
  BY <1>8, ListsKept DEF Sides
<1>12. Records' /\ TimeoutsAlone
  BY <1>6, RecordsKept DEF Sides, Types, Records
<1>13. EphemeralOwned'
  BY <1>3, <1>4, <1>8, <1>12, TimeoutsKept DEF Sides
<1>14. ASSUME NEW v \in Works PROVE Life(v)'
  <2>1. CASE v = c
    BY <1>2, <1>3, <1>4, <2>1 DEF Life, Errors, finishedGPUExecution
  <2>2. CASE v # c
    BY <1>4, <2>2, LifeKept DEF Sides
  <2>. QED BY <2>1, <2>2
<1>15. Types'
  BY <1>4, <1>12 DEF Types
<1>. QED BY <1>9, <1>10, <1>11, <1>13, <1>14, <1>15 DEF Sides

LEMMA WdCheckErrorStep ==
  ASSUME Sides, WdCheckError
  PROVE  Sides'
<1>1. /\ wd.pc = "check" /\ wd.pos <= Len(meta)
      /\ UNCHANGED <<config, comm, meta, completed, shelves, pg, main, hook, aborter, alive>>
  BY DEF WdCheckError, AtWd
<1>2. PICK c \in Works : c = Current /\ work[c].stage = "listed" /\ wd.pos \in 1 .. Len(meta)
  BY <1>1, WatchdogChecks
<1>3. work[c].exW = "none" /\ work[c].result # "SUCCESS"
  BY <1>1, <1>2, OthersPlain DEF Busy
<1>4. CASE SetExceptionW("COMM_ERROR", "failed")
  BY <1>1, <1>2, <1>3, <1>4, SetExceptionStep DEF Errors
<1>5. CASE wd' = [wd EXCEPT !.pc = "timeout"] /\ work' = work
  <2>1. wd'.pc = "timeout"
    BY <1>5 DEF Sides, Types, Records, WdTypes
  <2>2. WatchdogAt(c)'
    BY <1>3, <1>5, <2>1 DEF WatchdogAt
  <2>. QED BY <1>1, <1>2, <1>5, <2>2, WatchdogTurns DEF Busy
<1>6. SetExceptionW("COMM_ERROR", "failed") \/ (wd' = [wd EXCEPT !.pc = "timeout"] /\ work' = work)
  BY <1>2, <1>3 DEF WdCheckError, WdTo
<1>. QED BY <1>4, <1>5, <1>6

LEMMA WdCheckTimeoutStep ==
  ASSUME Sides, WdCheckTimeout
  PROVE  Sides'
<1>1. /\ wd.pc = "timeout" /\ wd.pc \in Busy
      /\ UNCHANGED <<config, comm, meta, completed, shelves, pg, main, hook, aborter, alive>>
  BY DEF WdCheckTimeout, AtWd, Busy
<1>2. PICK c \in Works : /\ c = Current /\ work[c].stage = "listed" /\ wd.pos \in 1 .. Len(meta)
                         /\ WatchdogAt(c)
  BY <1>1, WatchdogBusy
<1>3. work[c].exW = "none" /\ work[c].result # "SUCCESS"
  BY <1>1, <1>2 DEF WatchdogAt
<1>4. CASE SetExceptionW("TIMEOUT", "failed")
  BY <1>1, <1>2, <1>3, <1>4, SetExceptionStep DEF Errors
<1>5. CASE wd' = [wd EXCEPT !.pc = "complete"] /\ work' = work
  <2>1. wd'.pc = "complete"
    BY <1>5 DEF Sides, Types, Records, WdTypes
  <2>2. WatchdogAt(c)'
    BY <1>3, <1>5, <2>1 DEF WatchdogAt
  <2>. QED BY <1>1, <1>2, <1>5, <2>2, WatchdogTurns DEF Busy
<1>. QED BY <1>4, <1>5 DEF WdCheckTimeout, WdTo

LEMMA WdIsCompletedStep ==
  ASSUME Sides, WdIsCompleted
  PROVE  Sides'
<1>1. /\ wd.pc = "complete" /\ wd.pc \in Busy
      /\ UNCHANGED <<config, comm, meta, completed, shelves, pg, main, hook, aborter, alive>>
  BY DEF WdIsCompleted, AtWd, Busy
<1>2. PICK c \in Works : /\ c = Current /\ work[c].stage = "listed" /\ wd.pos \in 1 .. Len(meta)
                         /\ WatchdogAt(c)
  BY <1>1, WatchdogBusy
<1>3. wd \in WdTypes
  BY DEF Sides, Types, Records
<1>4. CASE work[c].exW = "none" /\ SetExceptionW("COMM_ERROR", "shelve")
  <2>1. work[c].result # "SUCCESS"
    BY <1>1, <1>2 DEF WatchdogAt
  <2>. QED BY <1>1, <1>2, <1>4, <2>1, SetExceptionStep DEF Errors
<1>5. CASE /\ wd' = [wd EXCEPT !.pc = "shelve"] /\ work' = work
           /\ work[c].exW # "none" \/ finishedGPUExecution(c)
  <2>1. wd'.pc = "shelve"
    BY <1>3, <1>5 DEF WdTypes
  <2>2. WatchdogAt(c)'
    BY <1>1, <1>2, <1>5, <2>1 DEF WatchdogAt, finishedGPUExecution
  <2>. QED BY <1>1, <1>2, <1>5, <2>2, WatchdogTurns DEF Busy
<1>6. CASE /\ wd' = [wd EXCEPT !.pc = "check", !.pos = wd.pos + 1] /\ work' = work
           /\ ~(work[c].exW # "none" \/ finishedGPUExecution(c))
  <2>1. wd' \in WdTypes /\ wd'.pc \notin Busy
    <3>1. wd.pos + 1 \in Nat \ {0}
      BY <1>3 DEF WdTypes
    <3>2. wd' = [pc |-> "check", pos |-> wd.pos + 1, done |-> wd.done, mark |-> wd.mark, next |-> wd.next]
      BY <1>3, <1>6 DEF WdTypes
    <3>. QED BY <1>3, <3>1, <3>2 DEF WdTypes, Busy
  <2>2. work[c].exW = "none" /\ work[c].result # "SUCCESS"
    BY <1>1, <1>2, <1>6 DEF WatchdogAt
  <2>3. WatchdogSide'
    BY <1>1, <1>2, <1>6, <2>1, <2>2, WatchdogMoves
  <2>4. Records' /\ TimeoutsAlone
    BY <1>1, <2>1, RecordsKept DEF Sides, Types, Records
  <2>. QED BY <1>1, <1>6, <2>3, <2>4, QuietStep
<1>. QED BY <1>2, <1>4, <1>5, <1>6 DEF WdIsCompleted

\* The result is marked only if there is none; else the process is taken down.
LEMMA WdMarkStep ==
  ASSUME Sides, WdMark
  PROVE  Sides'
<1>1. /\ wd.pc = "mark" /\ wd.pc \in Busy /\ alive' \in BOOLEAN
      /\ UNCHANGED <<config, comm, meta, completed, shelves, pg, main, hook, aborter>>
  BY DEF WdMark, AtWd, Busy, Sides, Types, Records
<1>2. PICK c \in Works : /\ c = Current /\ work[c].stage = "listed" /\ wd.pos \in 1 .. Len(meta)
                         /\ WatchdogAt(c)
  BY <1>1, WatchdogBusy
<1>3. wd \in WdTypes /\ work[c] \in WorkTypes /\ Life(c)
  BY DEF Sides, Types, Records
<1>4. CASE work[c].result # "none"
  <2>1. work' = work /\ wd' = wd
    BY <1>2, <1>4 DEF WdMark
  <2>2. Records' /\ TimeoutsAlone
    BY <1>1, <2>1, RecordsKept DEF Sides, Types, Records
  <2>. QED BY <1>1, <2>1, <2>2, QuietStep
<1>5. CASE work[c].result = "none"
  <2>1. PICK r : r = [work[c] EXCEPT !.result = wd.mark]
    OBVIOUS
  <2>2. \/ wd.mark = "SUCCESS" /\ wd.next = "retire" /\ work[c].exW = "none"
        \/ wd.mark \in Errors /\ wd.next \in {"failed", "shelve"} /\ work[c].exW # "none"
    BY <1>1, <1>2 DEF WatchdogAt
  <2>3. /\ r \in WorkTypes /\ work' = [work EXCEPT ![c] = r] /\ r.result = wd.mark
        /\ r.kind = work[c].kind /\ r.stage = "listed" /\ r.ordered = work[c].ordered
        /\ r.exU = work[c].exU /\ r.exW = work[c].exW /\ r.gpu = work[c].gpu
        /\ r.owned = work[c].owned /\ r.hooked = work[c].hooked /\ r.shelf = work[c].shelf
    BY <1>2, <1>3, <1>5, <2>1, <2>2 DEF WorkTypes, WdMark, Errors, Results
  <2>4. /\ work' \in [Works -> WorkTypes] /\ WorkTypes' = WorkTypes /\ work'[c] = r
        /\ \A v \in Works \ {c} : work'[v] = work[v] /\ Same(v)
    BY <1>1, <2>3, OneWork DEF Sides
  <2>5. wd' = [wd EXCEPT !.pc = wd.next, !.mark = "none", !.next = "none"]
    BY <1>2, <1>5 DEF WdMark
  <2>6. wd' \in WdTypes /\ wd'.pc = wd.next /\ wd'.pos = wd.pos /\ wd'.pc \in {"failed", "shelve", "retire"}
    <3>1. wd' = [pc |-> wd.next, pos |-> wd.pos, done |-> wd.done, mark |-> "none", next |-> "none"]
      BY <1>3, <2>5 DEF WdTypes
    <3>2. wd.next \in {"failed", "shelve", "retire"} /\ wd.next \in Busy
      BY <2>2 DEF Busy
    <3>. QED BY <1>3, <3>1, <3>2 DEF WdTypes
  <2>7. WatchdogAt(c)'
    BY <2>2, <2>3, <2>4, <2>6 DEF WatchdogAt, Errors
  <2>8. \A v \in Works : work'[v].stage = work[v].stage
    BY <1>2, <2>3, <2>4
  <2>9. WatchdogSide'
    BY <1>1, <1>2, <2>4, <2>6, <2>7, <2>8, WatchdogGoesOn DEF Busy
  <2>10. MainSide'
    BY <1>1, <2>3, <2>4, <2>8, MainKept DEF Sides
  <2>11. ListSide'
    BY <1>1, <2>8, ListsKept DEF Sides
  <2>12. Records' /\ TimeoutsAlone
    BY <1>1, <2>6, RecordsKept DEF Sides, Types, Records
  <2>13. EphemeralOwned'
    BY <1>1, <2>3, <2>4, <2>8, <2>12, TimeoutsKept DEF Sides
  <2>14. ASSUME NEW v \in Works PROVE Life(v)'
    <3>1. CASE v = c
      BY <1>1, <1>2, <1>3, <2>3, <2>4, <3>1 DEF Life, finishedGPUExecution
    <3>2. CASE v # c
      BY <1>1, <2>4, <3>2, LifeKept DEF Sides
    <3>. QED BY <3>1, <3>2
  <2>15. Types'
    BY <2>4, <2>12 DEF Types
  <2>. QED BY <2>9, <2>10, <2>11, <2>13, <2>14, <2>15 DEF Sides
<1>. QED BY <1>4, <1>5

\* The shelf is handed over when the kernel has ended or an error was found.
LEMMA WdShelveStep ==
  ASSUME Sides, WdShelve
  PROVE  Sides'
<1>1. /\ wd.pc = "shelve" /\ wd.pc \in Busy
      /\ UNCHANGED <<config, work, comm, meta, completed, pg, main, hook, aborter, alive>>
  BY DEF WdShelve, AtWd, Busy
<1>2. PICK c \in Works : /\ c = Current /\ work[c].stage = "listed" /\ wd.pos \in 1 .. Len(meta)
                         /\ WatchdogAt(c)
  BY <1>1, WatchdogBusy
<1>3. wd \in WdTypes
  BY DEF Sides, Types, Records
<1>4. \/ /\ finishedGPUExecution(c) /\ work[c].result = "none"
         /\ wd' = [wd EXCEPT !.pc = "mark", !.mark = "SUCCESS", !.next = "retire"]
      \/ /\ ~(finishedGPUExecution(c) /\ work[c].result = "none")
         /\ wd' = [wd EXCEPT !.pc = "retire"]
  BY <1>2 DEF WdShelve
<1>5. /\ wd' \in WdTypes /\ wd'.pos = wd.pos
      /\ \/ /\ work[c].result = "none"
            /\ wd'.pc = "mark" /\ wd'.mark = "SUCCESS" /\ wd'.next = "retire"
         \/ ~(finishedGPUExecution(c) /\ work[c].result = "none") /\ wd'.pc = "retire"
  BY <1>3, <1>4 DEF WdTypes, Busy, Results
<1>6. WatchdogAt(c)'
  <2>1. work[c].exW # "none" => work[c].result # "none"
    BY <1>1, <1>2 DEF WatchdogAt
  <2>2. work[c].result # "SUCCESS" /\ (work[c].exW # "none" \/ finishedGPUExecution(c))
    BY <1>1, <1>2 DEF WatchdogAt
  <2>. QED BY <1>1, <1>5, <2>1, <2>2 DEF WatchdogAt
<1>7. WatchdogSide'
  BY <1>1, <1>2, <1>5, <1>6, WatchdogGoesOn DEF Busy
<1>8. shelves' \subseteq shelves \union {c} /\ shelves' \subseteq Works
  BY <1>2 DEF WdShelve, Sides, Types, Records
<1>9. Records' /\ TimeoutsAlone
  BY <1>1, <1>5, <1>8, RecordsKept DEF Sides, Types, Records
<1>10. MainSide' /\ ListSide' /\ EphemeralOwned'
  BY <1>1, <1>9, MainKept, ListsKept, TimeoutsKept DEF Sides
<1>11. ASSUME NEW v \in Works PROVE Life(v)'
  <2>1. v \in shelves' => /\ work[v].stage \in {"listed", "retired"}
                          /\ work[v].exW # "none" \/ finishedGPUExecution(v)
    <3>1. Life(v) /\ (v \in shelves' => v \in shelves \/ v = c)
      BY <1>8 DEF Sides
    <3>2. work[c].exW # "none" \/ finishedGPUExecution(c)
      BY <1>1, <1>2 DEF WatchdogAt
    <3>. QED BY <1>2, <3>1, <3>2 DEF Life
  <2>2. Life(v)
    BY DEF Sides
  <2>. QED BY <1>1, <2>1, <2>2 DEF Life, finishedGPUExecution
<1>12. Types'
  BY <1>1, <1>9 DEF Sides, Types, WorkTypes
<1>. QED BY <1>7, <1>10, <1>11, <1>12 DEF Sides

\* The work leaves the list with its result, and its timeouts end.
LEMMA WdRetireStep ==
  ASSUME Sides, WdRetire
  PROVE  Sides'
<1>1. /\ wd.pc = "retire" /\ wd.pc \in Busy /\ wd' = [wd EXCEPT !.pc = "check"]
      /\ UNCHANGED <<config, comm, shelves, main, hook, aborter, alive>>
  BY DEF WdRetire, AtWd, Busy, WdTo
<1>2. PICK c \in Works : /\ c = Current /\ work[c].stage = "listed" /\ wd.pos \in 1 .. Len(meta)
                         /\ WatchdogAt(c) /\ meta[wd.pos] = c
  BY <1>1, WatchdogBusy
<1>3. wd \in WdTypes /\ work[c] \in WorkTypes /\ Life(c) /\ Records
  BY DEF Sides, Types, Records
<1>4. PICK n : n = work[c].owned
  OBVIOUS
<1>5. PICK r : r = [work[c] EXCEPT !.stage = "retired", !.owned = 0]
  OBVIOUS
<1>6. /\ pg' = [pg EXCEPT !.active = pg.active - n, !.inflight = pg.inflight - n]
      /\ meta' = RemoveAt(meta, wd.pos)
      /\ completed' = IF config.hook THEN Append(completed, c) ELSE completed
  BY <1>2, <1>4 DEF WdRetire
<1>7. /\ r \in WorkTypes /\ work' = [work EXCEPT ![c] = r] /\ r.result = work[c].result
      /\ r.kind = work[c].kind /\ r.stage = "retired" /\ r.ordered = work[c].ordered
      /\ r.exU = work[c].exU /\ r.exW = work[c].exW /\ r.gpu = work[c].gpu
      /\ r.owned = 0 /\ r.hooked = work[c].hooked /\ r.shelf = work[c].shelf
  <2>1. work' = [work EXCEPT ![c] = r]
    BY <1>2, <1>5 DEF WdRetire, Sides, Types
  <2>2. 0 \in 0 .. config.ephemeral
    BY <1>3, ConfigTypes
  <2>. QED BY <1>3, <1>5, <2>1, <2>2 DEF WorkTypes
<1>8. /\ work' \in [Works -> WorkTypes] /\ WorkTypes' = WorkTypes /\ work'[c] = r
      /\ \A v \in Works \ {c} : work'[v] = work[v] /\ Same(v)
  BY <1>1, <1>7, OneWork DEF Sides
<1>9. wd' \in WdTypes /\ wd'.pc \notin Busy
  BY <1>1, <1>3 DEF WdTypes, Busy
<1>10. WatchdogSide'
  <2>1. \A v \in Works : work'[v].stage = "listed" => v # c /\ work'[v] = work[v]
    BY <1>7, <1>8
  <2>. QED BY <1>2, <1>9, <2>1, WatchdogMoves
<1>11. MainSide'
  <2>1. \A v \in Works : /\ work'[v].stage = "made" <=> work[v].stage = "made"
                         /\ work'[v].stage = "none" <=> work[v].stage = "none"
                         /\ work[v].ordered => work'[v].ordered
    BY <1>2, <1>7, <1>8
  <2>. QED BY <1>1, <2>1, MainKept DEF Sides
<1>12. /\ ListSide'
       /\ Range(completed') = IF config.hook THEN Range(completed) \union {c} ELSE Range(completed)
  <2>1. /\ meta \in Seq(Works) /\ IsInjective(meta) /\ Range(meta) = {v \in Works : work[v].stage = "listed"}
        /\ completed \in Seq(Works) /\ IsInjective(completed) /\ (hook.pc = "calling" => completed # <<>>)
    BY DEF Sides, ListSide, ListsOK
  <2>2. meta' \in Seq(Works) /\ IsInjective(meta') /\ Range(meta') = Range(meta) \ {c}
    BY <1>2, <1>6, <2>1, Removed
  <2>3. Range(meta') = {v \in Works : work'[v].stage = "listed"}
    BY <1>7, <1>8, <2>1, <2>2
  <2>4. c \notin Range(completed)
    BY <1>2, <1>3 DEF Life
  <2>5. /\ Append(completed, c) \in Seq(Works) /\ IsInjective(Append(completed, c))
        /\ Range(Append(completed, c)) = Range(completed) \union {c}
    BY <1>2, <2>1, <2>4, Appended
  <2>6. Append(completed, c) # <<>>
    BY <2>1
  <2>7. completed' \in Seq(Works) /\ IsInjective(completed') /\ (hook.pc = "calling" => completed' # <<>>)
    BY <1>6, <2>1, <2>5, <2>6
  <2>. QED BY <1>1, <1>6, <2>2, <2>3, <2>5, <2>7 DEF ListSide, ListsOK
<1>13. ASSUME NEW v \in Works PROVE Life(v)'
  <2>1. CASE v = c
    <3>1. work[c].result # "none" /\ (work[c].result = "SUCCESS" => work[c].exW = "none")
      BY <1>1, <1>2 DEF WatchdogAt
    <3>. QED BY <1>1, <1>2, <1>3, <1>7, <1>8, <1>12, <2>1, <3>1 DEF Life, finishedGPUExecution
  <2>2. CASE v # c
    <3>1. v \in Range(completed') <=> v \in Range(completed)
      BY <1>12, <2>2
    <3>2. work'[v] = work[v] /\ Life(v)
      BY <1>8, <2>2 DEF Sides
    <3>. QED BY <1>1, <3>1, <3>2 DEF Life, finishedGPUExecution
  <2>. QED BY <2>1, <2>2
<1>14. EphemeralOwned' /\ pg' \in PgTypes(config.ephemeral)
  <2>1. PICK flying \in SUBSET (1 .. pg.added), waiting \in SUBSET (1 .. pg.added) :
          \E owner \in [flying -> Works \union {NoWork}] : Assigned(flying, waiting, owner)
    BY DEF Sides, EphemeralOwned
  <2>2. PICK owner \in [flying -> Works \union {NoWork}] : Assigned(flying, waiting, owner)
    BY <2>1
  <2>3. IsFiniteSet(flying) /\ IsFiniteSet(waiting) /\ IsFiniteSet(flying \union waiting)
    BY <1>3, <2>2, WaitingTimeouts, FS_Union
  <2>4. PICK gone : gone = OwnedBy(c, flying, owner)
    OBVIOUS
  <2>5. PICK left : left = flying \ gone
    OBVIOUS
  <2>6. PICK own : own = [i \in left |-> owner[i]]
    OBVIOUS
  <2>7. /\ flying \intersect waiting = {} /\ n = Cardinality(gone)
        /\ pg.inflight = Cardinality(flying) /\ pg.active = Cardinality(flying \union waiting)
        /\ \A v \in Works : work[v].owned = Cardinality(OwnedBy(v, flying, owner))
        /\ \A v \in Works : work[v].stage = "retired" => work[v].owned = 0
    BY <1>4, <2>2, <2>4 DEF Assigned
  <2>8. /\ gone \subseteq flying /\ left \in SUBSET (1 .. pg.added)
        /\ own \in [left -> Works \union {NoWork}]
        /\ left \union waiting = (flying \union waiting) \ gone
    BY <2>4, <2>5, <2>6, <2>7 DEF OwnedBy
  <2>9. /\ Cardinality(left) = pg.inflight - n /\ Cardinality(left) \in Nat
        /\ Cardinality(left \union waiting) = pg.active - n /\ Cardinality(left \union waiting) \in Nat
    <3>1. flying \intersect gone = gone /\ (flying \union waiting) \intersect gone = gone
      BY <2>8
    <3>2. IsFiniteSet(left) /\ Cardinality(left) = Cardinality(flying) - Cardinality(flying \intersect gone)
      BY <2>3, <2>5, FS_Difference
    <3>3. /\ IsFiniteSet(left \union waiting)
          /\ Cardinality((flying \union waiting) \ gone)
               = Cardinality(flying \union waiting) - Cardinality((flying \union waiting) \intersect gone)
      <4>1. PICK big : big = flying \union waiting
        OBVIOUS
      <4>2. IsFiniteSet(big \ gone) /\ Cardinality(big \ gone) = Cardinality(big) - Cardinality(big \intersect gone)
        BY <2>3, <4>1, FS_Difference
      <4>. QED BY <2>8, <4>1, <4>2
    <3>4. Cardinality(left) \in Nat /\ Cardinality(left \union waiting) \in Nat
      BY <3>2, <3>3, FS_CardinalityType
    <3>. QED BY <2>7, <2>8, <3>1, <3>2, <3>3, <3>4
  <2>10. /\ pg' \in PgTypes(config.ephemeral) /\ pg'.added = pg.added
         /\ pg'.inflight = Cardinality(left) /\ pg'.active = Cardinality(left \union waiting)
    BY <1>3, <1>6, <2>9 DEF Records, PgTypes
  <2>11. \A v \in Works : work'[v].owned = Cardinality(OwnedBy(v, left, own))
    <3>1. OwnedBy(c, left, own) = {}
      BY <2>4, <2>5, <2>6 DEF OwnedBy
    <3>2. Cardinality({}) = 0
      BY FS_EmptySet
    <3>3. ASSUME NEW v \in Works \ {c} PROVE OwnedBy(v, left, own) = OwnedBy(v, flying, owner)
      BY <2>4, <2>5, <2>6, <3>3 DEF OwnedBy
    <3>. QED BY <1>7, <1>8, <2>7, <3>1, <3>2, <3>3
  <2>12. Assigned(left, waiting, own)'
    <3>1. \A v \in Works : work'[v].stage = "retired" => work'[v].owned = 0
      BY <1>7, <1>8, <2>7
    <3>2. "coalesced" \notin config.kinds => \A i \in left : own[i] # NoWork
      BY <2>2, <2>5, <2>6 DEF Assigned
    <3>3. left \intersect waiting = {} /\ config' = config
      BY <1>1, <2>5, <2>7
    <3>. QED BY <2>10, <2>11, <3>1, <3>2, <3>3 DEF Assigned
  <2>. QED BY <2>8, <2>10, <2>12 DEF EphemeralOwned
<1>15. Types'
  BY <1>1, <1>3, <1>8, <1>9, <1>14 DEF Types, Records
<1>. QED BY <1>10, <1>11, <1>12, <1>13, <1>14, <1>15 DEF Sides

(***************************************************************************)
(* The hook thread.                                                        *)
(***************************************************************************)
LEMMA HookLoopStep ==
  ASSUME Sides, HookLoop \/ HookNext
  PROVE  Sides'
<1>1. UNCHANGED <<config, work, comm, meta, completed, shelves, pg, main, wd, aborter, alive>>
  BY DEF HookLoop, HookNext
<1>2. hook \in HookTypes
  BY DEF Sides, Types, Records
<1>3. hook' \in HookTypes /\ (hook'.pc = "calling" => completed # <<>>)
  <2>1. CASE HookLoop
    BY <1>2, <2>1 DEF HookLoop, HookTypes
  <2>2. CASE HookNext /\ completed = <<>>
    BY <1>2, <2>2 DEF HookNext, HookTypes
  <2>3. CASE HookNext /\ completed # <<>>
    BY <1>2, <2>3 DEF HookNext, HookTypes
  <2>. QED BY <2>1, <2>2, <2>3
<1>4. Records' /\ TimeoutsAlone
  BY <1>1, <1>3, RecordsKept DEF Sides, Types, Records
<1>. QED BY <1>1, <1>3, <1>4, QuietStep

LEMMA HookThrowsStep ==
  ASSUME Sides, HookThrows
  PROVE  Sides'
<1>1. /\ UNCHANGED <<config, meta, completed, shelves, main, wd, aborter, alive>>
      /\ abortComm(TRUE) /\ pg' = [pg EXCEPT !.throws = pg.throws + 1]
      /\ hook' = [hook EXCEPT !.pc = "loop", !.done = FALSE]
  BY DEF HookThrows
<1>2. hook' \in HookTypes /\ hook'.pc = "loop"
  BY <1>1 DEF Sides, Types, Records, HookTypes
<1>3. pg' \in PgTypes(config.ephemeral) /\ TimeoutsAlone
  BY <1>1 DEF Sides, Types, Records, PgTypes, TimeoutsAlone
<1>4. comm' \in CommTypes
  BY <1>1, Aborted DEF Sides, Types
<1>5. Records' /\ TimeoutsAlone
  BY <1>1, <1>2, <1>3, <1>4, RecordsKept DEF Sides, Types, Records
<1>. QED BY <1>1, <1>2, <1>5, AbortStep

\* The hook returns once for the work at the head of completedWorkList_.
LEMMA HookReturnsStep ==
  ASSUME Sides, HookReturns
  PROVE  Sides'
<1>1. /\ hook.pc = "calling" /\ completed' = Tail(completed) /\ hook' = [hook EXCEPT !.pc = "next"]
      /\ UNCHANGED <<config, comm, meta, shelves, pg, main, wd, aborter, alive>>
  BY DEF HookReturns, AtHook
<1>2. /\ completed \in Seq(Works) /\ IsInjective(completed) /\ completed # <<>>
      /\ hook \in HookTypes
  BY <1>1 DEF Sides, ListSide, ListsOK, Types, Records
<1>3. PICK c : c = Head(completed)
  OBVIOUS
<1>4. /\ c \in Range(completed) /\ c \in Works
      /\ completed' \in Seq(Works) /\ IsInjective(completed') /\ Range(completed') = Range(completed) \ {c}
  BY <1>1, <1>2, <1>3, Tailed
<1>5. work[c] \in WorkTypes /\ Life(c) /\ work[c].hooked = 0 /\ work[c].stage = "retired"
  BY <1>4 DEF Sides, Types, Life
<1>6. PICK r : r = [work[c] EXCEPT !.hooked = 1]
  OBVIOUS
<1>7. work' = [work EXCEPT ![c] = r]
  <2>1. work' = [work EXCEPT ![c] = [work[c] EXCEPT !.hooked = work[c].hooked + 1]]
    BY <1>3, <1>4 DEF HookReturns, Sides, Types
  <2>2. work[c].hooked + 1 = 1
    BY <1>5
  <2>. QED BY <1>6, <2>1, <2>2
<1>8. /\ r \in WorkTypes /\ r.result = work[c].result /\ r.hooked = 1
      /\ r.kind = work[c].kind /\ r.stage = "retired" /\ r.ordered = work[c].ordered
      /\ r.exU = work[c].exU /\ r.exW = work[c].exW /\ r.gpu = work[c].gpu
      /\ r.owned = work[c].owned /\ r.shelf = work[c].shelf
  <2>1. 1 \in 0 .. 1
    OBVIOUS
  <2>. QED BY <1>5, <1>6, <2>1 DEF WorkTypes
<1>9. /\ work' \in [Works -> WorkTypes] /\ WorkTypes' = WorkTypes /\ work'[c] = r
      /\ \A v \in Works \ {c} : work'[v] = work[v] /\ Same(v)
  BY <1>1, <1>4, <1>7, <1>8, OneWork DEF Sides
<1>10. \A v \in Works : /\ work'[v].stage = work[v].stage /\ work'[v].exW = work[v].exW
                        /\ work'[v].result = work[v].result /\ work'[v].gpu = work[v].gpu
                        /\ work'[v].ordered = work[v].ordered /\ work'[v].owned = work[v].owned
  BY <1>5, <1>8, <1>9
<1>11. hook' \in HookTypes /\ hook'.pc = "next"
  BY <1>1, <1>2 DEF HookTypes
<1>12. Records' /\ TimeoutsAlone
  BY <1>1, <1>11, RecordsKept DEF Sides, Types, Records
<1>13. MainSide' /\ WatchdogSide' /\ EphemeralOwned'
  BY <1>1, <1>10, <1>12, MainKept, WatchdogKept, TimeoutsKept DEF Sides, finishedGPUExecution
<1>14. ListSide'
  BY <1>1, <1>4, <1>10, <1>11 DEF Sides, ListSide, ListsOK
<1>15. ASSUME NEW v \in Works PROVE Life(v)'
  <2>1. CASE v = c
    BY <1>1, <1>4, <1>5, <1>8, <1>9, <2>1 DEF Life, finishedGPUExecution
  <2>2. CASE v # c
    <3>1. v \in Range(completed') <=> v \in Range(completed)
      BY <1>4, <2>2
    <3>2. work'[v] = work[v] /\ Life(v)
      BY <1>9, <2>2 DEF Sides
    <3>. QED BY <1>1, <3>1, <3>2 DEF Life, finishedGPUExecution
  <2>. QED BY <2>1, <2>2
<1>16. Types'
  BY <1>9, <1>12 DEF Types
<1>. QED BY <1>13, <1>14, <1>15, <1>16 DEF Sides

(***************************************************************************)
(* The theorems.                                                           *)
(***************************************************************************)
LEMMA InitSides == Init => Sides
<1>. SUFFICES ASSUME Init PROVE Sides
  OBVIOUS
<1>1. config \in Configs /\ config.hook \in BOOLEAN /\ config.ephemeral \in Nat
  BY ProcessGroupConstants DEF Init
<1>2. NewWork \in WorkTypes /\ \A w \in Works : work[w] = NewWork
  <2>1. 0 \in 0 .. config.ephemeral /\ 0 \in 0 .. 1
    BY <1>1
  <2>. QED BY <2>1 DEF Init, NewWork, WorkTypes
<1>3. Types
  <2>1. pg \in PgTypes(config.ephemeral)
    BY <1>1 DEF Init, PgTypes
  <2>2. main \in MainTypes /\ wd \in WdTypes /\ comm \in CommTypes
    BY DEF Init, MainTypes, WdTypes, CommTypes, Idle
  <2>3. hook \in HookTypes
    BY <1>1 DEF Init, HookTypes
  <2>4. work \in [Works -> WorkTypes]
    BY <1>2 DEF Init
  <2>. QED BY <1>1, <2>1, <2>2, <2>3, <2>4 DEF Init, Types, Records
<1>4. MainSide
  BY <1>2 DEF Init, MainSide, MainOK, Idle, NewWork
<1>5. WatchdogSide
  BY <1>2 DEF Init, WatchdogSide, WatchdogOK, Busy, NewWork
<1>6. Range(meta) = {} /\ Range(completed) = {}
  BY DEF Init, Range
<1>7. ListSide
  BY <1>2, <1>6 DEF Init, ListSide, ListsOK, IsInjective, NewWork
<1>8. \A w \in Works : Life(w)
  BY <1>2, <1>6 DEF Init, Life, NewWork
<1>9. EphemeralOwned
  <2>1. PICK owner : owner = [i \in {} |-> NoWork]
    OBVIOUS
  <2>2. /\ owner \in [{} -> Works \union {NoWork}] /\ {} \in SUBSET (1 .. pg.added)
        /\ \A w \in Works : OwnedBy(w, {}, owner) = {}
    BY <2>1 DEF OwnedBy
  <2>3. Cardinality({}) = 0 /\ {} \union {} = {}
    BY FS_EmptySet
  <2>4. Assigned({}, {}, owner)
    BY <1>2, <2>2, <2>3 DEF Init, Assigned, NewWork
  <2>. QED BY <2>2, <2>4 DEF EphemeralOwned
<1>. QED BY <1>3, <1>4, <1>5, <1>7, <1>8, <1>9 DEF Sides

LEMMA StutterSides ==
  ASSUME Sides, UNCHANGED vars
  PROVE  Sides'
<1>1. Records' /\ TimeoutsAlone
  BY RecordsKept DEF Sides, Types, Records, vars
<1>. QED BY <1>1, QuietStep DEF vars

LEMMA NextSides ==
  ASSUME Sides, [Next]_vars
  PROVE  Sides'
<1>1. CASE MainStep
  BY <1>1, UnstashShelvesStep, WorkEnqueueStep, UnstashStep, PollStep, PollCompletedStep, MainMarkStep,
     RethrowStep, WaitForPendingStep, LeaveStep, DestructorAbortsStep DEF MainStep
<1>2. CASE Program
  <2>1. config.works \subseteq Works /\ config.timed \subseteq BOOLEAN
    BY ConfigTypes DEF Sides, Types
  <2>2. CASE \E w \in config.works, kind \in config.kinds : Collective(w, kind)
    BY <2>1, <2>2, CollectiveStep
  <2>3. CASE \E w \in config.works, timed \in config.timed : Wait(w, timed)
    BY <2>1, <2>3, WaitStep
  <2>4. CASE AddEphemeralTimeout \/ WaitForPendingWorks \/ Shutdown \/ Destructor
    BY <2>4, AddEphemeralTimeoutStep, WaitForPendingStep, LeaveStep
  <2>. QED BY <1>2, <2>2, <2>3, <2>4 DEF Program
<1>3. CASE Watchdog
  BY <1>3, WdLoopStep, WdMarkStep, WdCheckErrorStep, WdCheckTimeoutStep, WdFailedStep, WdCleanUpStep,
     WdIsCompletedStep, WdShelveStep, WdRetireStep DEF Watchdog
<1>4. CASE HookThread
  BY <1>4, HookLoopStep, HookReturnsStep, HookThrowsStep DEF HookThread
<1>5. CASE Abort \/ AbortComms \/ AsyncError
  BY <1>5, AbortCommsStep
<1>6. CASE \E w \in Works : Finish(w) \/ Expire(w)
  BY <1>6, FinishStep
<1>7. CASE UNCHANGED vars
  BY <1>7, StutterSides
<1>. QED BY <1>1, <1>2, <1>3, <1>4, <1>5, <1>6, <1>7 DEF Next

\* The inductive invariant holds in every state.
THEOREM Invariance == Spec => []IInv
<1>1. Init => Sides
  BY InitSides
<1>2. Sides /\ [Next]_vars => Sides'
  BY NextSides
<1>. QED BY <1>1, <1>2, SidesMake, PTL DEF Spec

\* As long as a kernel runs and no error was found, its tensors are on their shelf
\* or the stream of the program waits for it: whatever the order in which the
\* watchdog hands over shelves, workEnqueue empties them and wait() gives them up.
THEOREM TensorsStay == Spec => []TensorsKept
<1>1. IInv => TensorsKept
  BY DEF IInv
<1>. QED BY <1>1, Invariance, PTL

\* No work leaves workMetaList_ without a result in futureWorkResult_, although both
\* the watchdog and a thread in wait() mark it, and none is a success that was found
\* expired or failed.
THEOREM ResultsBeforeRetirement == Spec => []RetiredHasResult
<1>1. IInv => RetiredHasResult
  BY DEF IInv
<1>. QED BY <1>1, Invariance, PTL

\* The lists hold the works their stages say, and the counters of ephemeral timeouts
\* are those of the timeouts that works own or that wait for one.
THEOREM BookkeepingHolds == Spec => []Bookkeeping
<1>1. IInv => Bookkeeping
  BY DEF IInv, Bookkeeping
<1>. QED BY <1>1, Invariance, PTL

\* waitForPendingWorks returns only when every work that was listed is retired and
\* its hook has returned.
THEOREM PendingWorksHooked == Spec => PendingMeansHooked
<1>1. ASSUME IInv, main.pc = "pending", main'.pc = "idle", [Next]_vars
      PROVE  \A w \in Works : work[w].stage \in {"listed", "retired"} =>
               /\ work[w].stage = "retired"
               /\ config.hook => work[w].hooked = 1
  <2>1. CASE MainStep
    <3>1. PendingWorksDone
      BY <1>1, <2>1 DEF MainStep, UnstashShelves, WorkEnqueue, Unstash, PollError, PollCompleted,
         PollTimeout, MainMark, Rethrow, Destroy, DestructorAborts, JoinAll, AtMain
    <3>2. meta = <<>> /\ completed = <<>>
      BY <3>1 DEF PendingWorksDone
    <3>3. Range(meta) = {} /\ Range(completed) = {}
      BY <3>2 DEF Range
    <3>. QED BY <1>1, <3>3, SidesOf DEF Sides, ListSide, Life
  <2>2. CASE ~MainStep
    <3>1. Program => main.pc = "idle"
      BY DEF Program, Collective, Wait, AddEphemeralTimeout, WaitForPendingWorks, Shutdown, Destructor,
         AtMain
    <3>2. Watchdog => main' = main
      BY DEF Watchdog, WdLoop, WdPass, WdEndOfPass, WdMark, WdCheckError, WdCheckTimeout, WdFailed,
         WdCleanUp, WdHandleException, WdIsCompleted, WdShelve, WdRetire
    <3>3. HookThread \/ Abort \/ AbortComms \/ AsyncError => main' = main
      BY DEF HookThread, HookLoop, HookNext, HookReturns, HookThrows, Abort, AbortComms, AsyncError
    <3>4. \A w \in Works : Finish(w) \/ Expire(w) => main' = main
      BY DEF Finish, Expire
    <3>. QED BY <1>1, <2>2, <3>1, <3>2, <3>3, <3>4 DEF Next, vars
  <2>. QED BY <2>1, <2>2
<1>2. IInv /\ [Next]_vars =>
        [main.pc = "pending" /\ main'.pc = "idle" =>
           \A w \in Works : work[w].stage \in {"listed", "retired"} =>
             /\ work[w].stage = "retired"
             /\ config.hook => work[w].hooked = 1]_vars
  BY <1>1
<1>. QED BY <1>2, Invariance, PTL DEF Spec, PendingMeansHooked

=============================================================================
