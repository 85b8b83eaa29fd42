------------------------- MODULE TensorSharing_proof -------------------------
(***************************************************************************)
(* Proofs about TensorSharing, for any storages, sends, consumers and      *)
(* files: the inductive invariant, and that the counters, files and limbo  *)
(* implement LeasedMemory.                                                 *)
(***************************************************************************)
EXTENDS TensorSharing, FiniteSetTheorems, TLAPS

Receipts ==
  {"none", "sent", "held", "asserted", "expired", "close", "sync", "done", "lost"}

LEMMA FrontLast ==
  ASSUME NEW S, NEW c \in Seq(S), c # <<>>
  PROVE  /\ Len(c) \in Nat \ {0} /\ DOMAIN c = 1 .. Len(c)
         /\ Last(c) = c[Len(c)] /\ Last(c) \in S
         /\ Front(c) \in Seq(S) /\ Len(Front(c)) = Len(c) - 1
         /\ DOMAIN Front(c) = 1 .. Len(c) - 1
         /\ \A i \in 1 .. Len(c) - 1 : Front(c)[i] = c[i]
         /\ Front(c) # <<>> => Last(Front(c)) = c[Len(c) - 1] /\ Len(c) > 1
         /\ Front(c) = <<>> => Len(c) = 1
<1>1. Len(c) \in Nat \ {0} /\ DOMAIN c = 1 .. Len(c)
  OBVIOUS
<1>2. Last(c) = c[Len(c)] /\ Last(c) \in S
  BY <1>1 DEF Last
<1>3. Front(c) \in Seq(S) /\ Len(Front(c)) = Len(c) - 1
  BY <1>1 DEF Front
<1>4. DOMAIN Front(c) = 1 .. Len(c) - 1 /\ \A i \in 1 .. Len(c) - 1 : Front(c)[i] = c[i]
  BY <1>1 DEF Front
<1>5. Front(c) # <<>> => Len(c) - 1 \in 1 .. Len(c) - 1
  BY <1>1, <1>3
<1>6. Front(c) # <<>> => Last(Front(c)) = c[Len(c) - 1]
  BY <1>3, <1>4, <1>5 DEF Last
<1>7. Front(c) = <<>> => Len(c) = 1
  <2>1. Len(<<>>) = 0
    OBVIOUS
  <2>2. SUFFICES ASSUME Front(c) = <<>> PROVE Len(c) = 1
    OBVIOUS
  <2>3. Len(c) - 1 = 0
    BY <1>3, <2>1, <2>2
  <2>4. \A n \in Nat : n - 1 = 0 => n = 1
    OBVIOUS
  <2>. QED BY <1>1, <2>3, <2>4
<1>. QED BY <1>1, <1>2, <1>3, <1>4, <1>5, <1>6, <1>7

LEMMA Appended ==
  ASSUME NEW S, NEW c \in Seq(S), NEW e \in S
  PROVE  /\ Append(c, e) \in Seq(S) /\ Append(c, e) # <<>>
         /\ DOMAIN Append(c, e) = 1 .. Len(c) + 1 /\ DOMAIN c = 1 .. Len(c) /\ Len(c) \in Nat
         /\ \A i \in 1 .. Len(c) : Append(c, e)[i] = c[i]
         /\ Append(c, e)[Len(c) + 1] = e
OBVIOUS

Types ==
  /\ RecordsOK
  /\ storage \in [Mems -> {"live", "dropped", "freed"}] /\ recv \in [Sends -> Receipts]
  /\ limbo \subseteq Sends

LEMMA TypesTypeOK == Types => TypeOK
<1>. SUFFICES ASSUME Types PROVE TypeOK
  OBVIOUS
<1>. USE DEF Types, RecordsOK
<1>1. \A s \in Sends : sent[s].counter \in 0 .. 1
  BY DEF SendRecord
<1>2. \A f \in Files : files[f].next \in 0 .. FileSize /\ files[f].used \in Int
  BY DEF FileRecord
<1>3. \A t \in Threads : thr[t].doomed \subseteq Sends
  BY DEF ThreadRecord
<1>. QED BY <1>1, <1>2, <1>3 DEF TypeOK, Receipts

LEMMA TypesHold == IInv => Types
BY DEF IInv, Types, TypeOK, Receipts

\* Threads, messages and files of a state with the right types.
LEMMA Fields ==
  ASSUME Types
  PROVE  /\ FileSize \in Nat \ {0} /\ NoSend \notin Sends \cup Mems \cup Consumers
         /\ NoFile \notin Files /\ "main" \in Threads /\ "other" \in Threads
         /\ \A t \in Threads :
              /\ thr[t].pc \in {"idle", "counter", "rotate", "store", "collect", "destroy"}
              /\ thr[t].doomed \subseteq Sends /\ thr[t].due \subseteq Mems
              /\ thr[t].s \in Sends \union {NoSend} /\ thr[t].used \in Int
              /\ thr[t].m \in Mems \union {NoSend} /\ thr[t].c \in Consumers \union {NoSend}
              /\ thr[t].collect \in BOOLEAN
         /\ \A s \in Sends :
              /\ sent[s].mem \in Mems \union {NoSend} /\ sent[s].to \in Consumers \union {NoSend}
              /\ sent[s].file \in Files \union {NoFile} /\ sent[s].counter \in {0, 1}
         /\ \A f \in Files :
              /\ files[f].next \in 0 .. FileSize /\ files[f].used \in Int
              /\ files[f].inMap \in BOOLEAN /\ files[f].made \in BOOLEAN
<1>1. /\ FileSize \in Nat \ {0} /\ NoSend \notin Sends \cup Mems \cup Consumers
      /\ NoFile \notin Files
  BY TensorSharingConstants
<1>2. \A t \in Threads : thr[t] \in ThreadRecord
  BY DEF Types, RecordsOK
<1>3. \A s \in Sends : sent[s] \in SendRecord
  BY DEF Types, RecordsOK
<1>4. \A f \in Files : files[f] \in FileRecord
  BY DEF Types, RecordsOK
<1>5. 0 .. 1 = {0, 1}
  OBVIOUS
<1>. QED BY <1>1, <1>2, <1>3, <1>4, <1>5 DEF Threads, ThreadRecord, SendRecord, FileRecord

(***************************************************************************)
(* Every step keeps the types.                                             *)
(***************************************************************************)
LEMMA ConsumerTypes ==
  ASSUME IInv, NEW s \in Sends,
         \/ ReceiveAgain(s) \/ Receive(s) \/ Launch(s) \/ Complete(s)
         \/ Forget(s) \/ EraseEntry(s) \/ CloseHandle(s) \/ Release(s)
  PROVE  Types'
<1>1. Types
  BY TypesHold
<1>2. UNCHANGED producerVars /\ dead' = dead
  BY DEF ReceiveAgain, Receive, Launch, Complete, Forget, EraseEntry, CloseHandle, Release
<1>3. sent' \in [Sends -> SendRecord]
  <2>1. ASSUME sent' = [sent EXCEPT ![s].counter = @ - 1], recv[s] \in {"sent", "sync"}
        PROVE  sent' \in [Sends -> SendRecord]
    <3>1. sent[s].counter = 1
      BY <2>1 DEF IInv, SendOK, Borrowed
    <3>2. sent[s].counter - 1 = 0 /\ 0 \in 0 .. 1
      BY <3>1
    <3>. QED BY <1>1, <2>1, <3>2 DEF Types, RecordsOK, SendRecord
  <2>2. sent' = sent \/ (sent' = [sent EXCEPT ![s].counter = @ - 1] /\ recv[s] \in {"sent", "sync"})
    BY DEF ReceiveAgain, Receive, Launch, Complete, Forget, EraseEntry, CloseHandle, Release,
           Decrement
  <2>. QED BY <1>1, <2>1, <2>2 DEF Types, RecordsOK
<1>4. recv' \in [Sends -> Receipts] /\ busy' \subseteq Sends /\ aside' \subseteq Sends
  BY <1>1 DEF Types, RecordsOK, ReceiveAgain, Receive, Launch, Complete, Forget, EraseEntry,
              CloseHandle, Release, Decrement, Receipts
<1>5. cache' \in [Consumers -> [entry : BOOLEAN, owners : Nat, open : Nat]]
  <2>1. cache \in [Consumers -> [entry : BOOLEAN, owners : Nat, open : Nat]]
    BY <1>1 DEF Types, RecordsOK
  <2>2. recv[s] # "none" => To(s) \in Consumers
    BY DEF IInv
  <2>3. CASE UNCHANGED cache
    BY <2>1, <2>3
  <2>4. CASE Receive(s)
    <3>1. PICK n \in Nat : cache[To(s)].owners + 1 = n
      BY <2>1, <2>2, <2>4 DEF Receive
    <3>2. PICK k \in Nat : k = IF cache[To(s)].entry THEN cache[To(s)].open
                                                     ELSE cache[To(s)].open + 1
      BY <2>1, <2>2, <2>4 DEF Receive
    <3>3. \/ cache' = cache
          \/ cache' = [cache EXCEPT ![To(s)] = [entry |-> TRUE, owners |-> n, open |-> k]]
      BY <2>4, <3>1, <3>2 DEF Receive
    <3>4. [entry |-> TRUE, owners |-> n, open |-> k] \in [entry : BOOLEAN, owners : Nat, open : Nat]
      OBVIOUS
    <3>. QED BY <2>1, <3>3, <3>4
  <2>5. CASE Forget(s)
    <3>1. cache[To(s)].owners \in Nat \ {0}
      <4>1. s \in State(To(s), "held")
        BY <2>5 DEF Forget, State
      <4>2. cache[To(s)].owners = Cardinality(State(To(s), "held")) /\ To(s) \in Consumers
        BY <2>2, <2>5 DEF Forget, IInv, CacheOK
      <4>3. IsFiniteSet(State(To(s), "held"))
        BY FS_Subset, TensorSharingConstants DEF State
      <4>. QED BY <4>1, <4>2, <4>3, FS_EmptySet, FS_CardinalityType
    <3>2. cache[To(s)].owners - 1 \in Nat
      BY <3>1
    <3>. QED BY <2>1, <2>5, <3>2 DEF Forget
  <2>6. CASE EraseEntry(s)
    BY <2>1, <2>6 DEF EraseEntry
  <2>7. CASE CloseHandle(s)
    <3>1. cache[To(s)].open \in Nat \ {0}
      <4>1. s \in State(To(s), "close")
        BY <2>7 DEF CloseHandle, State
      <4>2. /\ cache[To(s)].open = Cardinality(State(To(s), "close"))
                                     + IF cache[To(s)].entry THEN 1 ELSE 0
            /\ To(s) \in Consumers
        BY <2>2, <2>7 DEF CloseHandle, IInv, CacheOK
      <4>3. IsFiniteSet(State(To(s), "close"))
        BY FS_Subset, TensorSharingConstants DEF State
      <4>4. Cardinality(State(To(s), "close")) \in Nat \ {0}
        BY <4>1, <4>3, FS_EmptySet, FS_CardinalityType
      <4>. QED BY <4>2, <4>4
    <3>2. cache[To(s)].open - 1 \in Nat
      BY <3>1
    <3>. QED BY <2>1, <2>7, <3>2 DEF CloseHandle
  <2>. QED BY <2>3, <2>4, <2>5, <2>6, <2>7
       DEF ReceiveAgain, Launch, Complete, Release
<1>. QED BY <1>1, <1>2, <1>3, <1>4, <1>5 DEF Types, RecordsOK, producerVars

LEMMA DieTypes ==
  ASSUME IInv, NEW c \in Consumers, Die(c)
  PROVE  Types'
<1>1. Types
  BY TypesHold
<1>2. cache' \in [Consumers -> [entry : BOOLEAN, owners : Nat, open : Nat]]
  BY <1>1 DEF Types, RecordsOK, Die
<1>3. /\ recv' \in [Sends -> Receipts] /\ dead' \subseteq Consumers
      /\ busy' \subseteq Sends /\ aside' \subseteq Sends
  BY <1>1 DEF Types, RecordsOK, Die, Receipts
<1>. QED BY <1>1, <1>2, <1>3 DEF Types, RecordsOK, producerVars, Die

LEMMA ProducerTypes ==
  ASSUME IInv,
         \/ \E m \in Mems, s \in Sends, c \in Consumers : Share(m, s, c)
         \/ SetCounter \/ RotateLoad \/ RotateStore \/ Crash \/ Exit
         \/ \E t \in Threads : \/ MusaIPCCollect(t) \/ Collect(t) \/ Return(t)
                               \/ \E s \in Sends : Destroy(t, s)
                               \/ \E m \in Mems : Drop(t, m)
  PROVE  Types'
<1>1. Types
  BY TypesHold
<1>2. /\ storage \in [Mems -> {"live", "dropped", "freed"}] /\ recv \in [Sends -> Receipts]
      /\ limbo \subseteq Sends /\ chain \in [Mems -> Seq(Sends)]
      /\ files \in [Files -> FileRecord] /\ thr \in [Threads -> ThreadRecord]
      /\ sent \in [Sends -> SendRecord] /\ current \in Files \union {NoFile}
  BY <1>1 DEF Types, RecordsOK
<1>3. ASSUME NEW t \in Threads, NEW p \in ThreadRecord
      PROVE  [thr EXCEPT ![t] = p] \in [Threads -> ThreadRecord]
  BY <1>2
<1>4. ASSUME NEW t \in Threads PROVE thr[t] \in ThreadRecord
  BY <1>2
<1>5. Idle \in ThreadRecord
  BY DEF Idle, ThreadRecord
<1>6. ASSUME NEW f \in Files, NEW r \in FileRecord
      PROVE  [files EXCEPT ![f] = r] \in [Files -> FileRecord]
  BY <1>2
<1>7. ASSUME NEW m \in Mems, NEW s \in Sends, NEW c \in Consumers, Share(m, s, c)
      PROVE  Types'
  <2>1. thr' \in [Threads -> ThreadRecord]
    <3>1. [thr["main"] EXCEPT !.pc = "counter", !.m = m, !.s = s, !.c = c] \in ThreadRecord
      BY <1>4 DEF ThreadRecord, Threads
    <3>. QED BY <1>3, <1>7, <3>1 DEF Share, Threads
  <2>2. files' \in [Files -> FileRecord] /\ current' \in Files \union {NoFile}
    <3>1. CASE UNCHANGED <<files, current>>
      BY <1>2, <3>1
    <3>2. CASE \E f \in Files : /\ files' = [files EXCEPT ![f] = [@ EXCEPT !.inMap = TRUE, !.made = TRUE]]
                                /\ current' = f
      <4>1. PICK f \in Files : /\ files' = [files EXCEPT ![f] = [@ EXCEPT !.inMap = TRUE, !.made = TRUE]]
                               /\ current' = f
        BY <3>2
      <4>2. [files[f] EXCEPT !.inMap = TRUE, !.made = TRUE] \in FileRecord
        BY <1>2 DEF FileRecord
      <4>. QED BY <1>6, <4>1, <4>2
    <3>. QED BY <1>7, <3>1, <3>2 DEF Share
  <2>. QED BY <1>1, <1>7, <2>1, <2>2 DEF Types, RecordsOK, Share, consumerVars
<1>8. ASSUME SetCounter PROVE Types'
  <2>1. thr["main"].s \in Sends /\ thr["main"].m \in Mems /\ thr["main"].c \in Consumers
    BY <1>8 DEF IInv, SharingOK, Sharing, SetCounter, At
  <2>2. current \in Files
    BY <1>2, <1>8 DEF SetCounter
  <2>3. [mem |-> thr["main"].m, to |-> thr["main"].c, file |-> current, counter |-> 1] \in SendRecord
    BY <2>1, <2>2 DEF SendRecord
  <2>4. sent' \in [Sends -> SendRecord]
    BY <1>2, <1>8, <2>1, <2>3 DEF SetCounter
  <2>5. thr' \in [Threads -> ThreadRecord]
    <3>1. [thr["main"] EXCEPT !.pc = "rotate"] \in ThreadRecord
      BY <1>4 DEF ThreadRecord, Threads
    <3>. QED BY <1>3, <1>8, <3>1 DEF SetCounter, Threads
  <2>. QED BY <1>1, <1>8, <2>4, <2>5 DEF Types, RecordsOK, SetCounter, consumerVars
<1>9. ASSUME RotateLoad PROVE Types'
  <2>1. current \in Files /\ files[current].next < FileSize /\ files[current].next \in 0 .. FileSize
        /\ files[current].used \in Int /\ FileSize \in Nat
    BY <1>1, <1>2, <1>9, Fields DEF RotateLoad, IInv, CurrentOK, At
  <2>2. files[current].next + 1 \in 0 .. FileSize
    BY <2>1
  <2>3. [files[current] EXCEPT !.next = files[current].next + 1] \in FileRecord
    BY <1>2, <2>1, <2>2 DEF FileRecord
  <2>4. files' \in [Files -> FileRecord]
    BY <1>6, <1>9, <2>1, <2>3 DEF RotateLoad
  <2>5. thr' \in [Threads -> ThreadRecord]
    <3>1. [thr["main"] EXCEPT !.pc = "store", !.used = files[current].used] \in ThreadRecord
      BY <1>4, <2>1 DEF ThreadRecord, Threads
    <3>. QED BY <1>3, <1>9, <3>1 DEF RotateLoad, Threads
  <2>. QED BY <1>1, <1>9, <2>4, <2>5 DEF Types, RecordsOK, RotateLoad, consumerVars
<1>10. ASSUME RotateStore PROVE Types'
  <2>1. thr["main"].s \in Sends /\ thr["main"].m \in Mems
    BY <1>10 DEF IInv, SharingOK, Sharing, RotateStore, At
  <2>2. current \in Files /\ files[current].used \in Int /\ thr["main"].used \in Int
    BY <1>1, <1>2, <1>10, Fields DEF RotateStore, At
  <2>3. PICK n \in Incremented(thr["main"].used, files[current].used) :
             files' = [files EXCEPT ![current].used = n]
    BY <1>10 DEF RotateStore
  <2>4. n \in Int
    BY <2>2 DEF Incremented
  <2>5. [files[current] EXCEPT !.used = n] \in FileRecord
    BY <1>2, <2>2, <2>4 DEF FileRecord
  <2>6. files' \in [Files -> FileRecord] /\ current' \in Files \union {NoFile}
    BY <1>6, <1>10, <2>2, <2>3, <2>5 DEF RotateStore
  <2>7. thr' \in [Threads -> ThreadRecord]
    BY <1>3, <1>5, <1>10 DEF RotateStore, Threads
  <2>8. chain' \in [Mems -> Seq(Sends)]
    <3>1. Append(chain[thr["main"].m], thr["main"].s) \in Seq(Sends)
      BY <1>2, <2>1
    <3>. QED BY <1>2, <1>10, <2>1, <3>1 DEF RotateStore
  <2>9. recv' \in [Sends -> Receipts]
    BY <1>2, <1>10 DEF RotateStore, Receipts
  <2>. QED BY <1>1, <1>10, <2>6, <2>7, <2>8, <2>9 DEF Types, RecordsOK, RotateStore
<1>11. ASSUME Crash \/ Exit PROVE Types'
  BY <1>1, <1>11 DEF Types, RecordsOK, Crash, Exit, consumerVars
<1>12. ASSUME NEW t \in Threads, MusaIPCCollect(t) PROVE Types'
  <2>1. Due \in SUBSET Mems
    BY DEF Due
  <2>2. [thr[t] EXCEPT !.pc = "collect", !.collect = TRUE, !.due = Due] \in ThreadRecord
    BY <1>4, <2>1 DEF ThreadRecord
  <2>3. thr' \in [Threads -> ThreadRecord]
    BY <1>3, <1>12, <2>2 DEF MusaIPCCollect
  <2>. QED BY <1>1, <1>12, <2>3 DEF Types, RecordsOK, MusaIPCCollect, consumerVars
<1>13. ASSUME NEW t \in Threads, Collect(t) PROVE Types'
  <2>1. thr[t].doomed \union Unused \in SUBSET Sends /\ limbo' \subseteq Sends
    BY <1>1, <1>2, <1>13, Fields DEF Unused, Collect
  <2>2. [thr[t] EXCEPT !.pc = "destroy", !.doomed = thr[t].doomed \union Unused] \in ThreadRecord
    BY <1>4, <2>1 DEF ThreadRecord
  <2>3. thr' \in [Threads -> ThreadRecord]
    BY <1>3, <1>13, <2>2 DEF Collect
  <2>. QED BY <1>1, <1>13, <2>1, <2>3 DEF Types, RecordsOK, Collect, consumerVars
<1>14. ASSUME NEW t \in Threads, Return(t) PROVE Types'
  <2>1. thr' \in [Threads -> ThreadRecord]
    BY <1>3, <1>5, <1>14 DEF Return
  <2>2. files' \in [Files -> FileRecord] /\ current' \in Files \union {NoFile}
    <3>1. CASE current \in Files /\ files' = [files EXCEPT ![current].inMap = FALSE] /\ current' = NoFile
      <4>1. [files[current] EXCEPT !.inMap = FALSE] \in FileRecord
        BY <1>2, <3>1 DEF FileRecord
      <4>. QED BY <1>6, <3>1, <4>1
    <3>2. CASE UNCHANGED <<files, current>>
      BY <1>2, <3>2
    <3>. QED BY <1>2, <1>14, <3>1, <3>2 DEF Return, Clean
  <2>. QED BY <1>1, <1>14, <2>1, <2>2 DEF Types, RecordsOK, Return, consumerVars
<1>15. ASSUME NEW t \in Threads, NEW s \in Sends, NEW rest \in SUBSET Sends, Delete(t, s, rest)
       PROVE  limbo' \subseteq Sends /\ thr' \in [Threads -> ThreadRecord]
  <2>1. PICK D \in SUBSET Sends : thr' = [thr EXCEPT ![t] = [@ EXCEPT !.pc = "collect", !.doomed = D]]
    BY <1>15 DEF Delete
  <2>2. [thr[t] EXCEPT !.pc = "collect", !.doomed = D] \in ThreadRecord
    BY <1>4 DEF ThreadRecord
  <2>3. limbo' \subseteq Sends
    BY <1>2, <1>15 DEF Delete
  <2>. QED BY <1>3, <2>1, <2>2, <2>3
<1>16. ASSUME NEW t \in Threads, NEW m \in Mems, Drop(t, m) PROVE Types'
  <2>1. storage' \in [Mems -> {"live", "dropped", "freed"}]
    BY <1>2, <1>16 DEF Drop
  <2>2. limbo' \subseteq Sends /\ thr' \in [Threads -> ThreadRecord]
    <3>1. CASE UNCHANGED <<limbo, thr>>
      BY <1>2, <3>1
    <3>2. CASE chain[m] # <<>> /\ Delete(t, Last(chain[m]), {})
      <4>1. Last(chain[m]) \in Sends
        BY <1>2, <3>2, FrontLast
      <4>. QED BY <1>15, <3>2, <4>1
    <3>. QED BY <1>16, <3>1, <3>2 DEF Drop
  <2>. QED BY <1>1, <1>16, <2>1, <2>2 DEF Types, RecordsOK, Drop, consumerVars
<1>17. ASSUME NEW t \in Threads, NEW s \in Sends, Destroy(t, s) PROVE Types'
  <2>. DEFINE m == sent[s].mem
              inner == Front(chain[m])
              rest == thr[t].doomed \ {s}
  <2>1. m \in Mems /\ chain[m] # <<>> /\ sent[s].file \in Files \union {NoFile}
    BY <1>1, <1>17, Fields DEF Destroy, IInv, SendOK, Doomed
  <2>2. inner \in Seq(Sends) /\ rest \in SUBSET Sends
    BY <1>1, <1>2, <2>1, FrontLast, Fields
  <2>3. chain' \in [Mems -> Seq(Sends)]
    BY <1>2, <1>17, <2>1, <2>2 DEF Destroy
  <2>4. storage' \in [Mems -> {"live", "dropped", "freed"}]
    BY <1>2, <1>17 DEF Destroy
  <2>5. limbo' \subseteq Sends /\ thr' \in [Threads -> ThreadRecord]
    <3>1. CASE inner = <<>>
      <4>1. [thr[t] EXCEPT !.doomed = rest] \in ThreadRecord
        BY <1>4, <2>2 DEF ThreadRecord
      <4>2. thr' = [thr EXCEPT ![t].doomed = rest] /\ limbo' = limbo
        BY <1>17, <3>1 DEF Destroy
      <4>. QED BY <1>2, <1>3, <4>1, <4>2
    <3>2. CASE inner # <<>>
      <4>1. Last(inner) \in Sends
        BY <2>2, <3>2, FrontLast
      <4>. QED BY <1>15, <1>17, <2>2, <3>2, <4>1 DEF Destroy
    <3>. QED BY <3>1, <3>2
  <2>6. files' \in [Files -> FileRecord]
    <3>1. ReturnRefCounter(sent[s].file)
      BY <1>17 DEF Destroy
    <3>2. CASE files' = files
      BY <1>2, <3>2
    <3>3. CASE sent[s].file \in Files
      <4>. DEFINE f == sent[s].file
      <4>1. files[f].used - 1 \in Int
        BY <1>1, <3>3, Fields
      <4>2. PICK b \in BOOLEAN : b = ~(files[f].used = 1 /\ files[f].next >= FileSize)
        OBVIOUS
      <4>3. [files[f] EXCEPT !.used = files[f].used - 1, !.inMap = b] \in FileRecord
        BY <1>2, <3>3, <4>1 DEF FileRecord
      <4>4. files' = files \/ files' = [files EXCEPT ![f] = [files[f] EXCEPT !.used = files[f].used - 1, !.inMap = b]]
        BY <3>1, <4>2 DEF ReturnRefCounter
      <4>. QED BY <1>2, <1>6, <3>3, <4>3, <4>4
    <3>4. CASE sent[s].file = NoFile
      <4>1. NoFile \notin DOMAIN files
        BY <1>1, <1>2, Fields
      <4>2. [files EXCEPT ![NoFile] =
               [@ EXCEPT !.used = files[NoFile].used - 1,
                         !.inMap = ~(files[NoFile].used = 1 /\ files[NoFile].next >= FileSize)]] = files
        BY <1>2, <4>1
      <4>. QED BY <1>2, <3>1, <3>4, <4>2 DEF ReturnRefCounter
    <3>. QED BY <2>1, <3>3, <3>4
  <2>. QED BY <1>1, <1>17, <2>3, <2>4, <2>5, <2>6 DEF Types, RecordsOK, Destroy, consumerVars
<1>. QED BY <1>7, <1>8, <1>9, <1>10, <1>11, <1>12, <1>13, <1>14, <1>16, <1>17

(***************************************************************************)
(* The consumers.                                                          *)
(***************************************************************************)
LEMMA FiniteStates ==
  ASSUME NEW c, NEW st
  PROVE  /\ IsFiniteSet(State(c, st)) /\ Cardinality(State(c, st)) \in Nat
         /\ Cardinality(State(c, st)) = 0 <=> State(c, st) = {}
<1>1. IsFiniteSet(State(c, st))
  BY FS_Subset, TensorSharingConstants DEF State
<1>. QED BY <1>1, FS_CardinalityType, FS_EmptySet

\* A step that disturbs no receipt of consumer c.
LEMMA CacheKept ==
  ASSUME NEW c \in Consumers, CacheOK(c), cache'[c] = cache[c],
         State(c, "held")' = State(c, "held"), State(c, "close")' = State(c, "close"),
         State(c, "expired")' = State(c, "expired")
  PROVE  CacheOK(c)'
BY DEF CacheOK

\* What a step of a consumer leaves alone.
ConsumerFrame ==
  /\ UNCHANGED producerVars
  /\ \A s \in Sends :
       /\ sent'[s].mem = sent[s].mem /\ sent'[s].to = sent[s].to /\ sent'[s].file = sent[s].file
       /\ sent[s].counter = 0 => sent'[s].counter = 0
       /\ recv'[s] = "none" <=> recv[s] = "none"
       /\ recv'[s] \in {"sent", "held", "expired", "close", "sync"} =>
            Borrowed(s)
       /\ recv'[s] # "done" => sent'[s].counter = sent[s].counter
       /\ s \in busy' => recv'[s] \in {"held", "expired", "close", "sync"}
       /\ s \in aside' => recv'[s] # "none"

LEMMA ConsumerFrameStep ==
  ASSUME IInv, Types', ConsumerFrame
  PROVE  /\ \A s \in Sends : SendOK(s)' /\ (recv'[s] # "none" => To(s)' \in Consumers)
         /\ \A m \in Mems : MemOK(m)'
         /\ SharingOK' /\ \A t \in Threads : ThreadOK(t)'
         /\ CurrentOK' /\ FilesOK'
<1>0. Types
  BY TypesHold
<1>1. UNCHANGED <<overlap, storage, chain, files, current, limbo, thr, producer>>
  BY DEF ConsumerFrame, producerVars
<1>2. \A m \in Mems : chain[m] \in Seq(Sends) /\ \A i \in DOMAIN chain[m] : chain[m][i] \in Sends
  BY <1>0 DEF Types, RecordsOK
<1>3. ASSUME NEW s \in Sends
      PROVE  SendOK(s)' /\ (recv'[s] # "none" => To(s)' \in Consumers)
  <2>1. SendOK(s) /\ (recv[s] # "none" => To(s) \in Consumers)
    BY DEF IInv
  <2>. QED BY <1>1, <2>1 DEF ConsumerFrame, SendOK, Borrowed, Doomed, To
<1>4. ASSUME NEW m \in Mems PROVE MemOK(m)'
  <2>1. MemOK(m)
    BY DEF IInv
  <2>. QED BY <1>1, <1>2, <2>1 DEF ConsumerFrame, MemOK, Doomed
<1>5. SharingOK'
  <2>1. SharingOK /\ thr["main"].s \in Sends \cup {NoSend}
    BY <1>0, Fields DEF IInv
  <2>. QED BY <1>1, <2>1 DEF ConsumerFrame, SharingOK, Sharing, To
<1>6. ASSUME NEW t \in Threads PROVE ThreadOK(t)'
  <2>1. ThreadOK(t) /\ thr[t].due \subseteq Mems
    BY <1>0, Fields DEF IInv
  <2>. QED BY <1>1, <1>2, <2>1 DEF ConsumerFrame, ThreadOK
<1>7. CurrentOK'
  BY <1>1 DEF IInv, CurrentOK
<1>8. FilesOK'
  <2>1. Alive' = Alive /\ Sharing' = Sharing
    BY <1>1 DEF Alive, Sharing
  <2>2. \A f \in Files : UsersOf(f)' = UsersOf(f)
    BY <2>1 DEF ConsumerFrame, UsersOf, Alive
  <2>3. thr["main"].pc \in {"rotate", "store"} => thr["main"].s \in Sends
    BY DEF IInv, SharingOK, Sharing
  <2>. QED BY <1>1, <2>1, <2>2, <2>3 DEF IInv, FilesOK, ConsumerFrame, Alive
<1>. QED BY <1>3, <1>4, <1>5, <1>6, <1>7, <1>8

LEMMA FrameToInv ==
  ASSUME IInv, Types', ConsumerFrame, \A c \in Consumers : CacheOK(c)'
  PROVE  IInv'
<1>1. TypeOK' /\ RecordsOK'
  <2>1. (Types => TypeOK)'
    BY TypesTypeOK, PTL
  <2>. QED BY <2>1 DEF Types
<1>. QED BY <1>1, ConsumerFrameStep DEF IInv

\* One step of a consumer with one message.
LEMMA ConsumerStep ==
  ASSUME IInv, NEW s \in Sends,
         \/ ReceiveAgain(s) \/ Receive(s) \/ Launch(s) \/ Complete(s)
         \/ Forget(s) \/ EraseEntry(s) \/ CloseHandle(s) \/ Release(s)
  PROVE  ConsumerFrame /\ IInv'
<1>0. Types /\ Types'
  BY TypesHold, ConsumerTypes
<1>1. /\ sent \in [Sends -> SendRecord] /\ recv \in [Sends -> Receipts] /\ busy \subseteq Sends
      /\ cache \in [Consumers -> [entry : BOOLEAN, owners : Nat, open : Nat]]
  BY <1>0 DEF Types, RecordsOK
<1>2. SendOK(s) /\ (recv[s] # "none" => To(s) \in Consumers)
  BY DEF IInv
<1>3. /\ UNCHANGED producerVars /\ UNCHANGED dead
      /\ sent' = sent \/ (sent' = [sent EXCEPT ![s].counter = @ - 1] /\ recv'[s] = "done"
                          /\ sent[s].counter = 1)
      /\ \A u \in Sends \ {s} : recv'[u] = recv[u]
  BY <1>1, <1>2 DEF ReceiveAgain, Receive, Launch, Complete, Forget, EraseEntry, CloseHandle,
     Release, Decrement, SendOK, Borrowed
<1>4. \A u \in Sends :
        /\ sent'[u].mem = sent[u].mem /\ sent'[u].to = sent[u].to /\ sent'[u].file = sent[u].file
        /\ u # s => sent'[u].counter = sent[u].counter
        /\ sent[u].counter = 0 => sent'[u].counter = 0
        /\ recv'[s] # "done" => sent'[u].counter = sent[u].counter
  BY <1>1, <1>3 DEF SendRecord
<1>5. /\ recv[s] # "none" /\ recv'[s] # "none"
      /\ recv'[s] \in {"sent", "held", "expired", "close", "sync"} => Borrowed(s)
      /\ s \in busy' => recv'[s] \in {"held", "expired", "close", "sync"}
      /\ \A u \in Sends \ {s} : (u \in busy' => u \in busy) /\ (u \in aside' => u \in aside)
  <2>1. CASE Launch(s)
    BY <1>1, <1>2, <2>1 DEF Launch, Borrowed, Receipts
  <2>2. CASE Complete(s)
    BY <1>1, <1>2, <1>3, <2>2 DEF Complete, SendOK, Borrowed, Receipts
  <2>3. CASE ReceiveAgain(s) \/ Receive(s) \/ Forget(s) \/ EraseEntry(s) \/ CloseHandle(s)
             \/ Release(s)
    BY <1>1, <1>2, <2>3 DEF ReceiveAgain, Receive, Forget, EraseEntry, CloseHandle,
       Release, Decrement, SendOK, Borrowed, Receipts
  <2>. QED BY <2>1, <2>2, <2>3
<1>6. ConsumerFrame
  <2>1. ASSUME NEW u \in Sends, u # s
        PROVE  /\ recv'[u] = "none" <=> recv[u] = "none"
               /\ recv'[u] \in {"sent", "held", "expired", "close", "sync"} =>
                    Borrowed(u)
               /\ sent'[u].counter = sent[u].counter
               /\ u \in busy' => recv'[u] \in {"held", "expired", "close", "sync"}
               /\ u \in aside' => recv'[u] # "none"
    <3>1. SendOK(u) /\ recv'[u] = recv[u]
      BY <1>3, <2>1 DEF IInv
    <3>. QED BY <1>4, <1>5, <2>1, <3>1 DEF SendOK, Borrowed
  <2>. QED BY <1>3, <1>4, <1>5, <2>1 DEF ConsumerFrame
<1>7. \A u \in Sends : To(u)' = To(u)
  BY <1>4 DEF To
<1>8. \A c \in Consumers \ {To(s)}, st \in Receipts : State(c, st)' = State(c, st)
  BY <1>3, <1>7 DEF State
<1>9. ASSUME NEW c \in Consumers, c # To(s) PROVE CacheOK(c)'
  <2>1. cache'[c] = cache[c]
    BY <1>1, <1>9 DEF ReceiveAgain, Receive, Launch, Complete, Forget, EraseEntry, CloseHandle,
       Release
  <2>2. CacheOK(c)
    BY DEF IInv
  <2>. QED BY <1>8, <1>9, <2>1, <2>2, CacheKept DEF Receipts
<1>10. CacheOK(To(s))'
  <2>. DEFINE c == To(s)
  <2>1. c \in Consumers /\ CacheOK(c)
    BY <1>2, <1>5 DEF IInv
  <2>2. \A u \in Sends : To(u)' = c <=> To(u) = c
    BY <1>7
  <2>3. /\ cache[c].owners \in Nat /\ cache[c].open \in Nat /\ cache[c].entry \in BOOLEAN
    BY <1>1, <2>1
  <2>4. \A st \in Receipts : /\ IsFiniteSet(State(c, st)) /\ Cardinality(State(c, st)) \in Nat
                             /\ Cardinality(State(c, st)) = 0 <=> State(c, st) = {}
    BY FiniteStates
  <2>5. ASSUME NEW st \in Receipts, recv[s] # st, recv'[s] # st
        PROVE  State(c, st)' = State(c, st)
    BY <1>3, <1>7, <2>5 DEF State
  <2>6. ASSUME NEW st \in Receipts, recv[s] # st, recv'[s] = st
        PROVE  /\ State(c, st)' = State(c, st) \cup {s}
               /\ Cardinality(State(c, st)') = Cardinality(State(c, st)) + 1
    <3>1. State(c, st)' = State(c, st) \cup {s} /\ s \notin State(c, st)
      BY <1>3, <1>7, <2>6 DEF State
    <3>. QED BY <2>4, <3>1, FS_AddElement
  <2>7. ASSUME NEW st \in Receipts, recv[s] = st, recv'[s] # st
        PROVE  /\ State(c, st)' = State(c, st) \ {s} /\ s \in State(c, st)
               /\ Cardinality(State(c, st)') = Cardinality(State(c, st)) - 1
    <3>1. State(c, st)' = State(c, st) \ {s} /\ s \in State(c, st)
      BY <1>3, <1>7, <2>7 DEF State
    <3>. QED BY <2>4, <3>1, FS_RemoveElement
  <2>8. "held" \in Receipts /\ "close" \in Receipts /\ "expired" \in Receipts
    BY DEF Receipts
  <2>. HIDE DEF c
  <2>9. CASE ReceiveAgain(s) \/ Launch(s) \/ Complete(s) \/ Release(s)
    <3>1. /\ cache' = cache
          /\ \A st \in {"held", "close", "expired"} : recv[s] = st <=> recv'[s] = st
      BY <1>1, <2>9 DEF ReceiveAgain, Launch, Complete, Release, Decrement
    <3>2. \A u \in Sends, st \in {"held", "close", "expired"} : recv[u] = st <=> recv'[u] = st
      BY <1>3, <3>1
    <3>3. \A st \in {"held", "close", "expired"} : State(c, st)' = State(c, st)
      BY <1>7, <3>2 DEF State, c
    <3>4. cache'[c].owners = cache[c].owners /\ cache'[c].open = cache[c].open
          /\ cache'[c].entry = cache[c].entry
      BY <3>1
    <3>. QED BY <1>7, <2>1, <3>3, <3>4 DEF c, CacheOK
  <2>10. CASE Receive(s)
    <3>1. CASE cache[c].entry /\ cache[c].owners = 0
      <4>1. recv[s] = "sent" /\ recv'[s] = "asserted" /\ cache' = cache
        BY <1>1, <2>10, <3>1 DEF Receive, c
      <4>. QED BY <1>7, <2>1, <2>5, <2>8, <4>1 DEF c, CacheOK
    <3>2. CASE ~(cache[c].entry /\ cache[c].owners = 0)
      <4>1. /\ recv[s] = "sent" /\ recv'[s] = "held"
            /\ cache'[c].entry = TRUE /\ cache'[c].owners = cache[c].owners + 1
            /\ cache'[c].open = IF cache[c].entry THEN cache[c].open ELSE cache[c].open + 1
        BY <1>1, <2>1, <2>10, <3>2 DEF Receive, c
      <4>2. State(c, "expired")' = {}
        BY <2>1, <2>5, <2>8, <3>2, <4>1 DEF CacheOK
      <4>3. cache'[c].owners = Cardinality(State(c, "held")')
        BY <2>1, <2>6, <2>8, <4>1 DEF CacheOK
      <4>4. cache'[c].open = Cardinality(State(c, "close")') + 1
        BY <2>1, <2>3, <2>4, <2>5, <2>8, <4>1 DEF CacheOK
      <4>. QED BY <1>7, <4>1, <4>2, <4>3, <4>4 DEF c, CacheOK
    <3>. QED BY <3>1, <3>2
  <2>11. CASE Forget(s)
    <3>1. /\ recv[s] = "held" /\ cache'[c].owners = cache[c].owners - 1
          /\ cache'[c].entry = cache[c].entry /\ cache'[c].open = cache[c].open
          /\ recv'[s] = IF cache[c].owners = 1 THEN "expired" ELSE "sync"
      BY <1>1, <2>1, <2>11 DEF Forget, c
    <3>2. cache'[c].owners = Cardinality(State(c, "held")') /\ s \in State(c, "held")
      BY <2>1, <2>7, <2>8, <3>1 DEF CacheOK
    <3>3. cache[c].owners > 0 /\ cache[c].entry /\ State(c, "expired") = {}
      BY <2>1, <2>3, <2>4, <2>8, <3>2 DEF CacheOK
    <3>4. State(c, "close")' = State(c, "close")
      BY <2>5, <2>8, <3>1
    <3>5. State(c, "expired")' \subseteq {s} /\ (State(c, "expired")' # {} => cache'[c].owners = 0)
      BY <2>3, <2>5, <2>6, <2>8, <3>1, <3>3
    <3>. QED BY <1>7, <2>1, <3>1, <3>2, <3>3, <3>4, <3>5 DEF c, CacheOK
  <2>12. CASE EraseEntry(s)
    <3>1. /\ recv[s] = "expired" /\ recv'[s] = "close"
          /\ cache'[c].entry = FALSE /\ cache'[c].owners = cache[c].owners
          /\ cache'[c].open = cache[c].open
      BY <1>1, <2>1, <2>12 DEF EraseEntry, c
    <3>2. s \in State(c, "expired") /\ State(c, "expired")' = {}
      BY <2>1, <2>7, <2>8, <3>1 DEF CacheOK
    <3>3. cache[c].entry /\ cache[c].owners = 0
      BY <2>1, <3>2 DEF CacheOK
    <3>4. State(c, "held")' = State(c, "held")
      BY <2>5, <2>8, <3>1
    <3>5. cache'[c].open = Cardinality(State(c, "close")')
      BY <2>1, <2>6, <2>8, <3>1, <3>3 DEF CacheOK
    <3>6. cache'[c].open = Cardinality(State(c, "close")') + 0
      BY <2>3, <3>1, <3>5
    <3>. QED BY <1>7, <2>1, <2>3, <3>1, <3>2, <3>3, <3>4, <3>6 DEF c, CacheOK
  <2>13. CASE CloseHandle(s)
    <3>1. /\ recv[s] = "close" /\ recv'[s] = "sync"
          /\ cache'[c].entry = cache[c].entry /\ cache'[c].owners = cache[c].owners
          /\ cache'[c].open = cache[c].open - 1
      BY <1>1, <2>1, <2>13 DEF CloseHandle, c
    <3>2. State(c, "held")' = State(c, "held") /\ State(c, "expired")' = State(c, "expired")
      BY <2>5, <2>8, <3>1
    <3>3. Cardinality(State(c, "close")') = Cardinality(State(c, "close")) - 1
      BY <2>7, <2>8, <3>1
    <3>4. cache'[c].open = Cardinality(State(c, "close")') + IF cache[c].entry THEN 1 ELSE 0
      BY <2>1, <2>3, <2>4, <2>8, <3>1, <3>3 DEF CacheOK
    <3>. QED BY <1>7, <2>1, <3>1, <3>2, <3>4 DEF c, CacheOK
  <2>. QED BY <2>9, <2>10, <2>11, <2>12, <2>13
<1>11. \A c \in Consumers : CacheOK(c)'
  <2>. SUFFICES ASSUME NEW c \in Consumers PROVE CacheOK(c)'
    OBVIOUS
  <2>1. CASE c # To(s)
    BY <1>9, <2>1
  <2>2. CASE c = To(s)
    BY <1>7, <1>10, <2>2
  <2>. QED BY <2>1, <2>2
<1>. QED BY <1>0, <1>6, <1>11, FrameToInv

LEMMA DieStep ==
  ASSUME IInv, NEW d \in Consumers, Die(d)
  PROVE  ConsumerFrame /\ IInv'
<1>0. Types /\ Types'
  BY TypesHold, DieTypes
<1>1. /\ recv \in [Sends -> Receipts] /\ busy \subseteq Sends
      /\ cache \in [Consumers -> [entry : BOOLEAN, owners : Nat, open : Nat]]
  BY <1>0 DEF Types, RecordsOK
<1>2. /\ UNCHANGED producerVars /\ sent' = sent
      /\ \A s \in Sends : recv'[s] = IF recv[s] \notin {"none", "done"} /\ To(s) = d THEN "lost" ELSE recv[s]
      /\ \A s \in busy' : s \in busy /\ To(s) # d
      /\ \A s \in aside' : s \in aside /\ To(s) # d
  BY DEF Die
<1>3. ConsumerFrame
  <2>1. ASSUME NEW s \in Sends
        PROVE  /\ recv'[s] = "none" <=> recv[s] = "none"
               /\ recv'[s] \in {"sent", "held", "expired", "close", "sync"} => Borrowed(s)
               /\ s \in busy' => recv'[s] \in {"held", "expired", "close", "sync"}
               /\ s \in aside' => recv'[s] # "none"
    <3>1. SendOK(s)
      BY DEF IInv
    <3>. QED BY <1>2, <3>1 DEF SendOK, Borrowed
  <2>. QED BY <1>2, <2>1 DEF ConsumerFrame
<1>4. ASSUME NEW c \in Consumers PROVE CacheOK(c)'
  <2>1. CASE c # d
    <3>1. \A st \in {"held", "close", "expired"} : State(c, st)' = State(c, st)
      BY <1>2, <2>1 DEF State, To
    <3>2. cache'[c] = cache[c] /\ CacheOK(c)
      BY <1>1, <2>1 DEF Die, IInv
    <3>. QED BY <3>1, <3>2, CacheKept
  <2>2. CASE c = d
    <3>1. \A st \in {"held", "close", "expired"} : State(c, st)' = {}
      BY <1>2, <2>2 DEF State, To
    <3>2. ~cache'[c].entry /\ cache'[c].owners = 0 /\ cache'[c].open = 0
      BY <1>1, <2>2 DEF Die
    <3>3. Cardinality({}) = 0
      BY FS_EmptySet
    <3>. QED BY <3>1, <3>2, <3>3 DEF CacheOK
  <2>. QED BY <2>1, <2>2
<1>. QED BY <1>0, <1>3, <1>4, FrameToInv

(***************************************************************************)
(* The producer.                                                           *)
(***************************************************************************)
ProducerStep ==
  \/ \E m \in Mems, s \in Sends, c \in Consumers : Share(m, s, c)
  \/ SetCounter \/ RotateLoad \/ RotateStore \/ Crash \/ Exit
  \/ \E t \in Threads : \/ MusaIPCCollect(t) \/ Collect(t) \/ Return(t)
                        \/ \E s \in Sends : Destroy(t, s)
                        \/ \E m \in Mems : Drop(t, m)

\* The sent data in a chain, and the outermost one.
LEMMA Chains ==
  ASSUME IInv, NEW m \in Mems
  PROVE  /\ chain[m] \in Seq(Sends) /\ Len(chain[m]) \in Nat /\ DOMAIN chain[m] = 1 .. Len(chain[m])
         /\ \A i \in DOMAIN chain[m] :
              /\ chain[m][i] \in Sends /\ sent[chain[m][i]].mem = m /\ recv[chain[m][i]] # "none"
              /\ \A j \in DOMAIN chain[m] : chain[m][i] = chain[m][j] => i = j
         /\ chain[m] # <<>> =>
              /\ Len(chain[m]) \in DOMAIN chain[m] /\ Last(chain[m]) = chain[m][Len(chain[m])]
              /\ Last(chain[m]) \in Sends
              /\ sent[Last(chain[m])].mem = m /\ recv[Last(chain[m])] # "none"
<1>1. chain[m] \in Seq(Sends)
  BY DEF IInv, RecordsOK
<1>2. Len(chain[m]) \in Nat /\ DOMAIN chain[m] = 1 .. Len(chain[m])
  BY <1>1
<1>3. \A i \in DOMAIN chain[m] : chain[m][i] \in Sends
  BY <1>1
<1>4. MemOK(m)
  BY DEF IInv
<1>5. \A i \in DOMAIN chain[m] :
        /\ sent[chain[m][i]].mem = m /\ recv[chain[m][i]] # "none"
        /\ \A j \in DOMAIN chain[m] : chain[m][i] = chain[m][j] => i = j
  BY <1>4 DEF MemOK
<1>6. chain[m] # <<>> => Len(chain[m]) \in DOMAIN chain[m] /\ Last(chain[m]) = chain[m][Len(chain[m])]
  <2>1. chain[m] # <<>> => Len(chain[m]) \in Nat \ {0} /\ Last(chain[m]) = chain[m][Len(chain[m])]
    BY <1>1, FrontLast
  <2>. QED BY <1>2, <2>1
<1>. QED BY <1>1, <1>2, <1>3, <1>5, <1>6

\* What waits to be destroyed is the outermost sent data around dropped memory.
LEMMA Waiting ==
  ASSUME IInv, NEW s \in Sends, s \in limbo \/ Doomed(s)
  PROVE  /\ sent[s].mem \in Mems /\ storage[sent[s].mem] = "dropped" /\ chain[sent[s].mem] # <<>>
         /\ s = Last(chain[sent[s].mem]) /\ recv[s] # "none"
<1>1. SendOK(s)
  BY DEF IInv
<1>2. /\ sent[s].mem \in Mems /\ storage[sent[s].mem] = "dropped" /\ chain[sent[s].mem] # <<>>
      /\ s = Last(chain[sent[s].mem])
  BY <1>1 DEF SendOK
<1>. QED BY <1>2, Chains

\* The sent data that exists, by its memory.
LEMMA AliveIn ==
  ASSUME IInv, NEW s \in Sends
  PROVE  s \in Alive <=> sent[s].mem \in Mems /\ \E i \in DOMAIN chain[sent[s].mem] :
                                                   chain[sent[s].mem][i] = s
<1>1. \A m \in Mems : s \in Range(chain[m]) <=> \E i \in DOMAIN chain[m] : chain[m][i] = s
  BY DEF Range
<1>2. \A m \in Mems : (\E i \in DOMAIN chain[m] : chain[m][i] = s) => sent[s].mem = m
  BY Chains
<1>. QED BY <1>1, <1>2 DEF Alive

LEMMA FiniteUsers ==
  ASSUME NEW f
  PROVE  IsFiniteSet(UsersOf(f)) /\ Cardinality(UsersOf(f)) \in Nat
         /\ (Cardinality(UsersOf(f)) = 0 <=> UsersOf(f) = {})
<1>1. IsFiniteSet(UsersOf(f))
  BY FS_Subset, TensorSharingConstants DEF UsersOf, Alive
<1>. QED BY <1>1, FS_CardinalityType, FS_EmptySet

\* The producer changes nothing that a consumer has.
LEMMA ProducerCache ==
  ASSUME IInv, ProducerStep
  PROVE  /\ \A c \in Consumers : CacheOK(c)'
         /\ \A s \in Sends : recv'[s] # "none" => To(s)' \in Consumers
<1>0. Types
  BY TypesHold
<1>1. sent \in [Sends -> SendRecord] /\ recv \in [Sends -> Receipts]
  BY <1>0 DEF Types, RecordsOK
<1>2. cache' = cache
  BY DEF ProducerStep, Share, SetCounter, RotateLoad, RotateStore, Crash, Exit, MusaIPCCollect,
     Collect, Return, Destroy, Drop, consumerVars
<1>3. /\ \A s \in Sends : recv'[s] # recv[s] =>
           recv[s] = "none" /\ recv'[s] = "sent" /\ To(s) \in Consumers
      /\ \A s \in Sends : To(s)' # To(s) => recv[s] = "none" /\ recv'[s] = "none"
  <2>1. CASE SetCounter
    <3>1. thr["main"].s \in Sends /\ recv[thr["main"].s] = "none" /\ recv' = recv
      BY <2>1 DEF SetCounter, IInv, SharingOK, Sharing, At, consumerVars
    <3>2. \A s \in Sends : s # thr["main"].s => sent'[s] = sent[s]
      BY <1>1, <2>1 DEF SetCounter
    <3>. QED BY <3>1, <3>2 DEF To
  <2>2. CASE RotateStore
    <3>1. /\ thr["main"].s \in Sends /\ recv[thr["main"].s] = "none" /\ sent' = sent
          /\ To(thr["main"].s) \in Consumers
      BY <2>2 DEF RotateStore, IInv, SharingOK, Sharing, At
    <3>2. /\ recv'[thr["main"].s] = "sent"
          /\ \A s \in Sends : s # thr["main"].s => recv'[s] = recv[s]
      BY <1>1, <2>2, <3>1 DEF RotateStore
    <3>. QED BY <3>1, <3>2 DEF To
  <2>3. CASE sent' = sent /\ recv' = recv
    BY <2>3 DEF To
  <2>. QED BY <2>1, <2>2, <2>3 DEF ProducerStep, Share, RotateLoad, Crash, Exit, MusaIPCCollect,
           Collect, Return, Destroy, Drop, consumerVars
<1>4. ASSUME NEW c \in Consumers PROVE CacheOK(c)'
  <2>1. \A st \in {"held", "close", "expired"} : State(c, st)' = State(c, st)
    BY <1>3 DEF State
  <2>2. CacheOK(c)
    BY DEF IInv
  <2>. QED BY <1>2, <2>1, <2>2, CacheKept
<1>5. ASSUME NEW s \in Sends, recv'[s] # "none" PROVE To(s)' \in Consumers
  <2>1. recv[s] # "none" => To(s) \in Consumers
    BY DEF IInv
  <2>. QED BY <1>3, <1>5, <2>1
<1>. QED BY <1>4, <1>5

\* What is left to show of each step of the producer.
ProducerOK ==
  /\ \A s \in Sends : SendOK(s)
  /\ \A m \in Mems : MemOK(m)
  /\ SharingOK /\ \A t \in Threads : ThreadOK(t)
  /\ CurrentOK /\ FilesOK

LEMMA ProducerToInv ==
  ASSUME IInv, ProducerStep, ProducerOK'
  PROVE  IInv'
<1>1. Types'
  BY ProducerTypes DEF ProducerStep
<1>2. TypeOK' /\ RecordsOK'
  <2>1. (Types => TypeOK)'
    BY TypesTypeOK, PTL
  <2>. QED BY <1>1, <2>1 DEF Types
<1>. QED BY <1>2, ProducerCache DEF IInv, ProducerOK

\* The parts that depend on no file, when chains, storages and sent data stay.
LEMMA SendsKept ==
  ASSUME IInv, UNCHANGED <<storage, chain, sent, limbo, recv, busy, aside>>,
         \A t \in Threads : thr'[t].doomed = thr[t].doomed
  PROVE  (\A s \in Sends : SendOK(s)') /\ (\A m \in Mems : MemOK(m)')
<1>1. \A s \in Sends : Doomed(s)' = Doomed(s) /\ Borrowed(s)' = Borrowed(s)
  BY DEF Doomed, Borrowed
<1>2. ASSUME NEW s \in Sends PROVE SendOK(s)'
  <2>1. SendOK(s)
    BY DEF IInv
  <2>. QED BY <1>1, <2>1 DEF SendOK, Threads
<1>3. ASSUME NEW m \in Mems PROVE MemOK(m)'
  <2>1. MemOK(m)
    BY DEF IInv
  <2>2. chain[m] # <<>> => Last(chain[m]) \in Sends
    BY Chains
  <2>. QED BY <1>1, <2>1, <2>2 DEF MemOK
<1>. QED BY <1>2, <1>3

LEMMA ShareStep ==
  ASSUME IInv, NEW m \in Mems, NEW s \in Sends, NEW c \in Consumers, Share(m, s, c)
  PROVE  ProducerOK'
<1>0. Types /\ thr \in [Threads -> ThreadRecord] /\ files \in [Files -> FileRecord]
  BY TypesHold DEF Types, RecordsOK
<1>1. /\ UNCHANGED <<overlap, storage, chain, sent, limbo, producer, recv, busy, aside>>
      /\ thr["main"].pc = "idle" /\ storage[m] = "live" /\ sent[s].mem = NoSend
      /\ overlap \/ thr["other"].pc = "idle"
  BY DEF Share, consumerVars, At
<1>2. /\ thr'["main"].pc = "counter" /\ thr'["main"].m = m /\ thr'["main"].s = s /\ thr'["main"].c = c
      /\ thr'["main"].doomed = thr["main"].doomed /\ thr'["main"].due = thr["main"].due
      /\ thr'["other"] = thr["other"] /\ thr["main"].doomed = {} /\ thr["main"].due = {}
  <2>1. thr' = [thr EXCEPT !["main"] = [@ EXCEPT !.pc = "counter", !.m = m, !.s = s, !.c = c]]
    BY DEF Share
  <2>2. thr["main"].doomed = {} /\ thr["main"].due = {}
    BY <1>1 DEF IInv, ThreadOK, Threads
  <2>. QED BY <1>0, <2>1, <2>2 DEF Threads, ThreadRecord
<1>3. (\A u \in Sends : SendOK(u)') /\ \A k \in Mems : MemOK(k)'
  BY <1>1, <1>2, SendsKept DEF Threads
<1>4. SharingOK'
  <2>1. recv[s] = "none"
    BY <1>1 DEF IInv, SendOK
  <2>. QED BY <1>1, <1>2, <2>1 DEF SharingOK
<1>5. ASSUME NEW t \in Threads PROVE ThreadOK(t)'
  <2>1. ThreadOK(t)
    BY DEF IInv
  <2>2. CASE t = "main"
    BY <1>2, <2>2 DEF ThreadOK
  <2>3. CASE t = "other"
    BY <1>1, <1>2, <2>1, <2>3 DEF ThreadOK
  <2>. QED BY <2>2, <2>3 DEF Threads
<1>6. \/ files' = files /\ current' = current /\ current # NoFile
      \/ \E f \in Files :
           /\ current' = f /\ ~files[f].made /\ files'[f].made /\ files'[f].inMap
           /\ files'[f].used = files[f].used /\ files'[f].next = files[f].next
           /\ \A g \in Files \ {f} : files'[g] = files[g]
  <2>1. ASSUME NEW f \in Files, ~files[f].made, current' = f,
               files' = [files EXCEPT ![f] = [@ EXCEPT !.inMap = TRUE, !.made = TRUE]]
        PROVE  /\ files'[f].made /\ files'[f].inMap
               /\ files'[f].used = files[f].used /\ files'[f].next = files[f].next
               /\ \A g \in Files \ {f} : files'[g] = files[g]
    BY <1>0, <2>1 DEF FileRecord
  <2>2. \/ current # NoFile /\ UNCHANGED <<files, current>>
        \/ \E f \in Files :
             /\ current = NoFile /\ ~files[f].made
             /\ files' = [files EXCEPT ![f] = [@ EXCEPT !.inMap = TRUE, !.made = TRUE]]
             /\ current' = f
    BY DEF Share
  <2>. QED BY <2>1, <2>2
<1>7. CurrentOK /\ FilesOK /\ FileSize \in Nat \ {0} /\ NoFile \notin Files
  BY <1>0, Fields DEF IInv
<1>8. CurrentOK'
  BY <1>1, <1>2, <1>6, <1>7 DEF CurrentOK
<1>9. FilesOK'
  <2>1. \A f \in Files : UsersOf(f)' = UsersOf(f)
    BY <1>1 DEF UsersOf, Alive
  <2>2. Alive' = Alive
    BY <1>1 DEF Alive
  <2>. SUFFICES ASSUME ~overlap PROVE FilesOK'
    BY <1>1 DEF FilesOK
  <2>3. CASE files' = files /\ current' = current
    BY <1>1, <1>2, <1>6, <1>7, <2>1, <2>2, <2>3 DEF FilesOK, Sharing
  <2>4. ASSUME NEW f \in Files,
               current' = f, ~files[f].made, files'[f].inMap, files'[f].used = files[f].used,
               \A g \in Files \ {f} : files'[g] = files[g]
        PROVE  FilesOK'
    <3>1. ~files[f].inMap /\ files[f].used = 0
      BY <1>7, <2>4 DEF CurrentOK
    <3>2. UsersOf(f) = {}
      BY <1>7, <3>1 DEF FilesOK, UsersOf
    <3>3. files'[f].used = Cardinality(UsersOf(f))
      BY <2>4, <3>1, <3>2, FiniteUsers
    <3>. QED BY <1>1, <1>2, <1>7, <2>1, <2>2, <2>4, <3>3 DEF FilesOK, Sharing
  <2>. QED BY <1>6, <2>3, <2>4
<1>. QED BY <1>3, <1>4, <1>5, <1>8, <1>9 DEF ProducerOK

LEMMA SetCounterStep ==
  ASSUME IInv, SetCounter
  PROVE  ProducerOK'
<1>. DEFINE s == thr["main"].s
            m == thr["main"].m
<1>0. Types /\ thr \in [Threads -> ThreadRecord] /\ sent \in [Sends -> SendRecord]
  BY TypesHold DEF Types, RecordsOK
<1>1. /\ UNCHANGED <<overlap, storage, chain, files, current, limbo, producer, recv, busy, aside>>
      /\ thr["main"].pc = "counter" /\ current # NoFile
  BY DEF SetCounter, consumerVars, At
<1>2. /\ m \in Mems /\ storage[m] = "live" /\ thr["main"].c \in Consumers
      /\ s \in Sends /\ recv[s] = "none" /\ sent[s].mem = NoSend
  BY <1>1 DEF IInv, SharingOK, Sharing
<1>3. /\ thr'["main"].pc = "rotate" /\ thr'["main"].m = m /\ thr'["main"].s = s
      /\ thr'["main"].c = thr["main"].c
      /\ thr'["main"].doomed = thr["main"].doomed /\ thr'["main"].due = thr["main"].due
      /\ thr'["other"] = thr["other"] /\ thr["main"].doomed = {} /\ thr["main"].due = {}
  BY <1>0, <1>1 DEF SetCounter, Threads, ThreadRecord, IInv, ThreadOK
<1>4. /\ sent'[s].mem = m /\ sent'[s].to = thr["main"].c /\ sent'[s].file = current
      /\ sent'[s].counter = 1
      /\ \A u \in Sends \ {s} : sent'[u] = sent[u]
  BY <1>0, <1>2 DEF SetCounter
<1>5. s \notin limbo /\ ~Doomed(s) /\ \A u \in Sends : Doomed(u)' = Doomed(u)
  BY <1>2, <1>3, Waiting DEF Doomed, Threads
<1>6. \A k \in Mems : \A i \in DOMAIN chain[k] : chain[k][i] \in Sends \ {s}
  BY <1>2, Chains
<1>. HIDE DEF s, m
<1>7. ASSUME NEW u \in Sends PROVE SendOK(u)'
  <2>1. SendOK(u)
    BY DEF IInv
  <2>2. CASE u = s
    BY <1>1, <1>2, <1>3, <1>4, <1>5, <2>1, <2>2 DEF SendOK, Borrowed, Doomed, Threads
  <2>3. CASE u # s
    BY <1>1, <1>3, <1>4, <1>5, <2>1, <2>3 DEF SendOK, Borrowed
  <2>. QED BY <2>2, <2>3
<1>8. ASSUME NEW k \in Mems PROVE MemOK(k)'
  <2>1. MemOK(k)
    BY DEF IInv
  <2>2. chain[k] # <<>> => Last(chain[k]) \in Sends
    BY Chains
  <2>. QED BY <1>1, <1>4, <1>5, <1>6, <2>1, <2>2 DEF MemOK
<1>9. SharingOK'
  BY <1>1, <1>2, <1>3, <1>4 DEF SharingOK, To
<1>10. ASSUME NEW t \in Threads PROVE ThreadOK(t)'
  <2>1. ThreadOK(t) /\ thr[t].due \subseteq Mems
    BY <1>0, Fields DEF IInv
  <2>2. CASE t = "main"
    BY <1>3, <2>2 DEF ThreadOK
  <2>3. CASE t = "other"
    BY <1>1, <1>3, <1>4, <1>6, <2>1, <2>3 DEF ThreadOK
  <2>. QED BY <2>2, <2>3 DEF Threads
<1>11. CurrentOK /\ FilesOK
  BY DEF IInv
<1>12. CurrentOK'
  BY <1>1, <1>3, <1>11 DEF CurrentOK
<1>13. FilesOK'
  <2>1. Alive' = Alive /\ \A u \in Alive : u \in Sends \ {s}
    BY <1>1, <1>2, AliveIn, Chains DEF Alive
  <2>2. \A f \in Files : UsersOf(f)' = UsersOf(f)
    BY <1>4, <2>1 DEF UsersOf
  <2>. QED BY <1>1, <1>3, <1>4, <1>11, <2>1, <2>2 DEF FilesOK, Sharing
<1>. QED BY <1>7, <1>8, <1>9, <1>10, <1>12, <1>13 DEF ProducerOK

LEMMA RotateLoadStep ==
  ASSUME IInv, RotateLoad
  PROVE  ProducerOK'
<1>0. /\ Types /\ thr \in [Threads -> ThreadRecord] /\ files \in [Files -> FileRecord]
      /\ current \in Files \cup {NoFile}
  BY TypesHold DEF Types, RecordsOK
<1>1. /\ UNCHANGED <<overlap, storage, chain, sent, current, limbo, producer, recv, busy, aside>>
      /\ thr["main"].pc = "rotate" /\ current # NoFile /\ current \in Files
  BY <1>0 DEF RotateLoad, consumerVars, At
<1>2. /\ thr'["main"].pc = "store" /\ thr'["main"].m = thr["main"].m /\ thr'["main"].s = thr["main"].s
      /\ thr'["main"].c = thr["main"].c /\ thr'["main"].used = files[current].used
      /\ thr'["main"].doomed = thr["main"].doomed /\ thr'["main"].due = thr["main"].due
      /\ thr'["other"] = thr["other"] /\ thr["main"].doomed = {} /\ thr["main"].due = {}
  BY <1>0, <1>1 DEF RotateLoad, Threads, ThreadRecord, IInv, ThreadOK
<1>3. /\ \A f \in Files : files'[f].made = files[f].made /\ files'[f].inMap = files[f].inMap
                          /\ files'[f].used = files[f].used
      /\ \A f \in Files \ {current} : files'[f].next = files[f].next
  BY <1>0, <1>1 DEF RotateLoad, FileRecord
<1>4. (\A u \in Sends : SendOK(u)') /\ \A k \in Mems : MemOK(k)'
  BY <1>1, <1>2, SendsKept DEF Threads
<1>5. SharingOK'
  BY <1>1, <1>2 DEF SharingOK, IInv, Sharing, To
<1>6. ASSUME NEW t \in Threads PROVE ThreadOK(t)'
  <2>1. ThreadOK(t)
    BY DEF IInv
  <2>2. CASE t = "main"
    BY <1>2, <2>2 DEF ThreadOK
  <2>3. CASE t = "other"
    BY <1>1, <1>2, <2>1, <2>3 DEF ThreadOK
  <2>. QED BY <2>2, <2>3 DEF Threads
<1>7. CurrentOK /\ FilesOK
  BY DEF IInv
<1>8. CurrentOK'
  BY <1>1, <1>2, <1>3, <1>7 DEF CurrentOK
<1>9. FilesOK'
  <2>1. Alive' = Alive /\ \A f \in Files : UsersOf(f)' = UsersOf(f)
    BY <1>1 DEF Alive, UsersOf
  <2>. QED BY <1>1, <1>2, <1>3, <1>7, <2>1 DEF FilesOK, Sharing
<1>. QED BY <1>4, <1>5, <1>6, <1>8, <1>9 DEF ProducerOK

LEMMA RotateStoreStep ==
  ASSUME IInv, RotateStore
  PROVE  ProducerOK'
<1>. DEFINE s == thr["main"].s
            m == thr["main"].m
<1>0. /\ Types /\ thr \in [Threads -> ThreadRecord] /\ files \in [Files -> FileRecord]
      /\ current \in Files \cup {NoFile} /\ chain \in [Mems -> Seq(Sends)]
      /\ recv \in [Sends -> Receipts]
  BY TypesHold DEF Types, RecordsOK
<1>1. /\ UNCHANGED <<overlap, storage, sent, limbo, producer, busy, aside>>
      /\ thr["main"].pc = "store" /\ current # NoFile /\ current \in Files
      /\ current' = IF files[current].next < FileSize THEN current ELSE NoFile
  BY <1>0 DEF RotateStore, At
<1>2. /\ m \in Mems /\ storage[m] = "live" /\ s \in Sends /\ recv[s] = "none"
      /\ sent[s].mem = m /\ sent[s].counter = 1
  BY <1>1 DEF IInv, SharingOK, Sharing
<1>3. /\ thr'["main"].pc = "idle" /\ thr'["main"].doomed = {} /\ thr'["main"].due = {}
      /\ thr'["other"] = thr["other"] /\ thr["main"].doomed = {}
  BY <1>0, <1>1 DEF RotateStore, Threads, IInv, ThreadOK, Idle
<1>4. /\ recv'[s] = "sent" /\ \A u \in Sends \ {s} : recv'[u] = recv[u]
      /\ \A k \in Mems \ {m} : chain'[k] = chain[k]
      /\ chain'[m] = Append(chain[m], s)
  BY <1>0, <1>2 DEF RotateStore
<1>5. /\ Len(chain[m]) \in Nat /\ DOMAIN chain[m] = 1 .. Len(chain[m])
      /\ DOMAIN chain'[m] = 1 .. Len(chain[m]) + 1 /\ chain'[m][Len(chain[m]) + 1] = s
      /\ \A i \in DOMAIN chain[m] : i \in DOMAIN chain'[m] /\ chain'[m][i] = chain[m][i]
      /\ \A i \in DOMAIN chain'[m] : i \in DOMAIN chain[m] \/ i = Len(chain[m]) + 1
  <2>1. chain[m] \in Seq(Sends)
    BY <1>0, <1>2
  <2>2. /\ DOMAIN Append(chain[m], s) = 1 .. Len(chain[m]) + 1 /\ Len(chain[m]) \in Nat
        /\ DOMAIN chain[m] = 1 .. Len(chain[m]) /\ Append(chain[m], s)[Len(chain[m]) + 1] = s
        /\ \A i \in 1 .. Len(chain[m]) : Append(chain[m], s)[i] = chain[m][i]
    BY <1>2, <2>1, Appended
  <2>. QED BY <1>4, <2>2
<1>6. s \notin limbo /\ ~Doomed(s) /\ \A u \in Sends : Doomed(u)' = Doomed(u)
  BY <1>2, <1>3, Waiting DEF Doomed, Threads
<1>7. \A k \in Mems : \A i \in DOMAIN chain[k] : chain[k][i] \in Sends \ {s}
  BY <1>2, Chains
<1>8. \A i \in DOMAIN chain[m] : Len(chain[m]) + 1 # i
  BY <1>5
<1>9. /\ \A i \in DOMAIN chain[m] : sent[chain[m][i]].mem = m /\ recv[chain[m][i]] # "none"
      /\ \A i, j \in DOMAIN chain[m] : chain[m][i] = chain[m][j] => i = j
  BY <1>2, Chains
<1>. HIDE DEF s, m
<1>10. ASSUME NEW u \in Sends PROVE SendOK(u)'
  <2>1. SendOK(u) /\ (sent[u].mem # NoSend => sent[u].mem \in Mems)
    BY <1>0, Fields DEF IInv
  <2>2. CASE u = s
    <3>1. Len(chain[m]) + 1 \in DOMAIN chain'[m]
      BY <1>5
    <3>2. sent[s].mem # NoSend /\ s \notin busy
      BY <1>0, <1>2, Fields, <2>1, <2>2 DEF SendOK
    <3>3. \E i \in DOMAIN chain'[m] : chain'[m][i] = s
      BY <1>5, <3>1
    <3>4. u \notin limbo' /\ ~Doomed(u)'
      BY <1>1, <1>6, <2>2
    <3>5. ~(u \in thr'["main"].doomed /\ u \in thr'["other"].doomed)
      BY <1>3
    <3>6. recv'[s] # "none"
      BY <1>0, <1>1, <1>2, <1>4 DEF Types
    <3>. QED BY <1>1, <1>2, <2>2, <3>2, <3>3, <3>4, <3>5, <3>6 DEF SendOK, Borrowed
  <2>3. CASE u # s
    <3>1. recv'[u] = recv[u]
      BY <1>4, <2>3
    <3>2. Borrowed(u) => \E i \in DOMAIN chain'[sent[u].mem] : chain'[sent[u].mem][i] = u
      <4>1. SUFFICES ASSUME Borrowed(u)
                     PROVE  \E i \in DOMAIN chain'[sent[u].mem] : chain'[sent[u].mem][i] = u
        OBVIOUS
      <4>2. sent[u].mem \in Mems
        BY <2>1, <4>1 DEF SendOK, Borrowed
      <4>3. PICK i \in DOMAIN chain[sent[u].mem] : chain[sent[u].mem][i] = u
        BY <2>1, <4>1 DEF SendOK
      <4>. QED BY <1>4, <1>5, <4>2, <4>3
    <3>3. u \in limbo \/ Doomed(u) => sent[u].mem \in Mems \ {m}
      BY <1>2, Waiting
    <3>. QED BY <1>1, <1>3, <1>4, <1>6, <2>1, <3>1, <3>2, <3>3 DEF SendOK, Borrowed
  <2>. QED BY <2>2, <2>3
<1>11. ASSUME NEW k \in Mems PROVE MemOK(k)'
  <2>1. MemOK(k)
    BY DEF IInv
  <2>2. CASE k = m
    <3>1. ASSUME NEW i \in DOMAIN chain'[m]
          PROVE  /\ sent[chain'[m][i]].mem = m /\ recv'[chain'[m][i]] # "none"
                 /\ \A j \in DOMAIN chain'[m] : chain'[m][i] = chain'[m][j] => i = j
      BY <1>2, <1>4, <1>5, <1>7, <1>9
    <3>. QED BY <1>1, <1>2, <2>2, <3>1 DEF MemOK
  <2>3. CASE k # m
    <3>1. chain'[k] = chain[k] /\ (chain[k] # <<>> => Last(chain[k]) \in Sends)
      BY <1>4, <2>3, Chains
    <3>. QED BY <1>1, <1>4, <1>6, <1>7, <2>1, <3>1 DEF MemOK
  <2>. QED BY <2>2, <2>3
<1>12. SharingOK'
  BY <1>3 DEF SharingOK, Sharing
<1>13. ASSUME NEW t \in Threads PROVE ThreadOK(t)'
  <2>1. ThreadOK(t) /\ thr[t].due \subseteq Mems
    BY <1>0, Fields DEF IInv
  <2>2. CASE t = "main"
    BY <1>3, <2>2 DEF ThreadOK
  <2>3. CASE t = "other"
    <3>1. \A k \in thr[t].due : k \in Mems \ {m} \/ storage[k] = "freed"
      BY <1>2, <2>1 DEF ThreadOK
    <3>. QED BY <1>1, <1>3, <1>4, <2>1, <2>3, <3>1 DEF ThreadOK
  <2>. QED BY <2>2, <2>3 DEF Threads
<1>14. CurrentOK /\ FilesOK
  BY DEF IInv
<1>15. PICK n \in Incremented(thr["main"].used, files[current].used) :
           /\ files'[current].used = n
           /\ files'[current].inMap = files[current].inMap
           /\ files'[current].made = files[current].made
           /\ files'[current].next = files[current].next
           /\ \A f \in Files \ {current} : files'[f] = files[f]
  BY <1>0, <1>1 DEF RotateStore, FileRecord
<1>16. CurrentOK'
  <2>1. ASSUME NEW f \in Files, ~files'[f].made
        PROVE  ~files'[f].inMap /\ files'[f].used = 0 /\ files'[f].next = 0
    BY <1>1, <1>14, <1>15, <2>1 DEF CurrentOK
  <2>2. current' # NoFile => files'[current'].made /\ files'[current'].next < FileSize
    BY <1>1, <1>14, <1>15 DEF CurrentOK
  <2>. QED BY <2>1, <2>2 DEF CurrentOK
<1>17. FilesOK'
  <2>1. SUFFICES ASSUME ~overlap PROVE FilesOK'
    BY <1>1 DEF FilesOK
  <2>2. /\ sent[s].file = current /\ thr["main"].used = files[current].used
        /\ files[current].inMap /\ producer # "crashed"
        /\ \A u \in Alive : sent[u].file \in Files /\ files[sent[u].file].inMap
        /\ \A f \in Files : files[f].inMap => files[f].used = Cardinality(UsersOf(f))
    BY <1>1, <1>14, <2>1 DEF FilesOK, s
  <2>3. n = files[current].used + 1
    BY <1>15, <2>2 DEF Incremented
  <2>4. Alive' = Alive \cup {s} /\ s \notin Alive
    <3>1. \A u \in Sends : u \in Alive <=> \E k \in Mems : \E i \in DOMAIN chain[k] : chain[k][i] = u
      BY DEF Alive, Range
    <3>2. \A u \in Sends : u \in Alive' <=> \E k \in Mems : \E i \in DOMAIN chain'[k] : chain'[k][i] = u
      BY DEF Alive, Range
    <3>3. s \in Alive' /\ s \notin Alive
      <4>1. Len(chain[m]) + 1 \in DOMAIN chain'[m]
        BY <1>5
      <4>. QED BY <1>2, <1>5, <1>7, <3>1, <3>2, <4>1
    <3>4. \A u \in Sends \ {s} : u \in Alive' <=> u \in Alive
      <4>. SUFFICES ASSUME NEW u \in Sends \ {s}, NEW k \in Mems
                    PROVE  (\E i \in DOMAIN chain'[k] : chain'[k][i] = u)
                             <=> (\E i \in DOMAIN chain[k] : chain[k][i] = u)
        BY <3>1, <3>2
      <4>. QED BY <1>4, <1>5
    <3>5. Alive \subseteq Sends /\ Alive' \subseteq Sends
      BY DEF Alive
    <3>. QED BY <1>2, <3>3, <3>4, <3>5
  <2>5. \A f \in Files \ {current} : UsersOf(f)' = UsersOf(f)
    BY <1>1, <2>2, <2>4 DEF UsersOf
  <2>6. UsersOf(current) \cup {s} = {u \in Alive' : sent[u].file = current} /\ s \notin UsersOf(current)
    BY <2>2, <2>4 DEF UsersOf
  <2>7. Cardinality(UsersOf(current) \cup {s}) = Cardinality(UsersOf(current)) + 1
    BY <2>6, FiniteUsers, FS_AddElement
  <2>8. ASSUME NEW f \in Files, files'[f].inMap
        PROVE  files'[f].used = Cardinality(UsersOf(f)')
    <3>1. CASE f = current
      <4>1. UsersOf(f)' = UsersOf(current) \cup {s}
        BY <1>1, <2>6, <3>1 DEF UsersOf
      <4>. QED BY <1>1, <1>15, <2>2, <2>3, <2>7, <3>1, <4>1
    <3>2. CASE f # current
      BY <1>15, <2>2, <2>5, <2>8, <3>2
    <3>. QED BY <3>1, <3>2
  <2>9. \A u \in Alive' : sent'[u].file \in Files /\ files'[sent'[u].file].inMap
    BY <1>1, <1>15, <2>2, <2>4
  <2>10. current' # NoFile => files'[current'].inMap
    BY <1>1, <1>15, <2>2
  <2>. QED BY <1>1, <1>3, <2>2, <2>8, <2>9, <2>10 DEF FilesOK, Sharing
<1>. QED BY <1>10, <1>11, <1>12, <1>13, <1>16, <1>17 DEF ProducerOK

\* The counters that a drop or the destructor of sent data reads are mapped.
LEMMA OutermostMapped ==
  ASSUME IInv, ~overlap, NEW m \in Mems, chain[m] # <<>>
  PROVE  Readable(Last(chain[m]))
<1>1. Last(chain[m]) \in Alive
  BY Chains, AliveIn
<1>. QED BY <1>1 DEF IInv, FilesOK, Readable, Mapped

LEMMA CrashExitStep ==
  ASSUME IInv, Crash \/ Exit
  PROVE  ProducerOK'
<1>1. UNCHANGED <<overlap, storage, chain, sent, files, current, limbo, thr, recv, busy, aside>>
  BY DEF Crash, Exit, consumerVars
<1>2. (\A u \in Sends : SendOK(u)') /\ \A k \in Mems : MemOK(k)'
  BY <1>1, SendsKept
<1>3. SharingOK' /\ CurrentOK' /\ \A t \in Threads : ThreadOK(t)'
  BY <1>1 DEF IInv, SharingOK, Sharing, To, CurrentOK, ThreadOK
<1>4. FilesOK'
  <2>1. \A f \in Files : UsersOf(f)' = UsersOf(f)
    BY <1>1 DEF UsersOf, Alive
  <2>2. Alive' = Alive /\ Sharing' = Sharing
    BY <1>1 DEF Alive, Sharing
  <2>3. ~overlap => producer' # "crashed"
    BY OutermostMapped DEF Crash, Exit, IInv, FilesOK, Readable
  <2>. QED BY <1>1, <2>1, <2>2, <2>3 DEF IInv, FilesOK
<1>. QED BY <1>2, <1>3, <1>4 DEF ProducerOK

LEMMA MusaIPCCollectStep ==
  ASSUME IInv, NEW t \in Threads, MusaIPCCollect(t)
  PROVE  ProducerOK'
<1>0. Types /\ thr \in [Threads -> ThreadRecord]
  BY TypesHold DEF Types, RecordsOK
<1>1. /\ UNCHANGED <<overlap, storage, chain, sent, files, current, limbo, producer, recv, busy, aside>>
      /\ thr[t].pc = "idle"
  BY DEF MusaIPCCollect, consumerVars, At
<1>2. /\ thr'[t].pc = "collect" /\ thr'[t].due = Due /\ thr'[t].doomed = thr[t].doomed
      /\ thr[t].doomed = {} /\ \A u \in Threads \ {t} : thr'[u] = thr[u]
  BY <1>0, <1>1 DEF MusaIPCCollect, ThreadRecord, IInv, ThreadOK
<1>3. (\A u \in Sends : SendOK(u)') /\ \A k \in Mems : MemOK(k)'
  BY <1>1, <1>2, SendsKept
<1>4. (thr'["main"] = thr["main"] \/ (thr["main"].pc = "idle" /\ thr'["main"].pc = "collect"))
      /\ (thr'["other"] = thr["other"] \/ thr'["other"].pc = "collect")
      /\ (t = "other" /\ ~overlap => ~Sharing)
  BY <1>1, <1>2 DEF Threads, MusaIPCCollect, At
<1>5. SharingOK' /\ CurrentOK'
  BY <1>1, <1>4 DEF IInv, SharingOK, Sharing, To, CurrentOK
<1>6. ASSUME NEW u \in Threads PROVE ThreadOK(u)'
  <2>1. CASE u = t
    <3>1. \A m \in Due : storage[m] = "dropped" /\ \A i \in DOMAIN chain[m] : sent[chain[m][i]].counter = 0
      BY DEF Due
    <3>. QED BY <1>1, <1>2, <2>1, <3>1 DEF ThreadOK
  <2>2. CASE u # t
    <3>1. ThreadOK(u)
      BY DEF IInv
    <3>. QED BY <1>1, <1>2, <2>2, <3>1 DEF ThreadOK
  <2>. QED BY <2>1, <2>2
<1>7. FilesOK'
  <2>1. Alive' = Alive /\ \A f \in Files : UsersOf(f)' = UsersOf(f)
    BY <1>1 DEF Alive, UsersOf
  <2>2. ~overlap /\ Sharing' => Sharing /\ thr'["main"] = thr["main"] /\ thr'["other"] = thr["other"]
    BY <1>2, <1>4 DEF Sharing, Threads
  <2>. QED BY <1>1, <1>4, <2>1, <2>2 DEF IInv, FilesOK, Sharing
<1>. QED BY <1>3, <1>5, <1>6, <1>7 DEF ProducerOK

LEMMA CollectStep ==
  ASSUME IInv, NEW t \in Threads, Collect(t)
  PROVE  ProducerOK'
<1>0. Types /\ thr \in [Threads -> ThreadRecord] /\ limbo \subseteq Sends
  BY TypesHold DEF Types, RecordsOK
<1>1. /\ UNCHANGED <<overlap, storage, chain, sent, files, current, producer, recv, busy, aside>>
      /\ thr[t].pc = "collect" /\ limbo' = limbo \ Unused
      /\ Unused \subseteq limbo /\ \A s \in limbo : s \in Unused <=> sent[s].counter = 0
  BY DEF Collect, consumerVars, At, Unused
<1>2. /\ thr'[t].pc = "destroy" /\ thr'[t].due = thr[t].due
      /\ thr'[t].doomed = thr[t].doomed \cup Unused
      /\ \A u \in Threads \ {t} : thr'[u] = thr[u]
  BY <1>0 DEF Collect, ThreadRecord
<1>3. \A s \in Sends : Doomed(s)' <=> Doomed(s) \/ s \in Unused
  BY <1>2 DEF Doomed
<1>4. ASSUME NEW s \in Sends PROVE SendOK(s)'
  <2>1. SendOK(s)
    BY DEF IInv
  <2>2. s \in limbo => ~Doomed(s)
    BY <2>1 DEF SendOK
  <2>3. ~(s \in thr'["main"].doomed /\ s \in thr'["other"].doomed)
    <3>1. s \in Unused => s \notin thr["main"].doomed /\ s \notin thr["other"].doomed
      BY <1>1, <2>2 DEF Doomed, Threads
    <3>2. \A u \in Threads : s \in thr'[u].doomed => s \in thr[u].doomed \/ (u = t /\ s \in Unused)
      BY <1>2
    <3>3. ~(s \in thr["main"].doomed /\ s \in thr["other"].doomed)
      BY <2>1 DEF SendOK
    <3>. QED BY <3>1, <3>2, <3>3 DEF Threads
  <2>. QED BY <1>1, <1>3, <2>1, <2>2, <2>3 DEF SendOK, Borrowed
<1>5. ASSUME NEW m \in Mems PROVE MemOK(m)'
  <2>1. MemOK(m) /\ (chain[m] # <<>> => Last(chain[m]) \in Sends)
    BY Chains DEF IInv
  <2>. QED BY <1>1, <1>3, <2>1 DEF MemOK
<1>6. (thr'["main"] = thr["main"] \/ (thr["main"].pc = "collect" /\ thr'["main"].pc = "destroy"))
      /\ (thr'["other"] = thr["other"] \/ thr'["other"].pc = "destroy")
      /\ (t = "other" /\ ~overlap => ~Sharing)
  BY <1>1, <1>2 DEF Threads, Collect, At
<1>7. SharingOK' /\ CurrentOK'
  BY <1>1, <1>6 DEF IInv, SharingOK, Sharing, To, CurrentOK
<1>8. ASSUME NEW u \in Threads PROVE ThreadOK(u)'
  <2>1. ThreadOK(u) /\ thr[u].due \subseteq Mems
    BY <1>0, Fields DEF IInv
  <2>2. \A m \in thr[u].due : storage[m] = "dropped" => Last(chain[m]) \in DOMAIN sent /\ chain[m] # <<>>
    <3>1. \A m \in Mems : storage[m] = "dropped" => chain[m] # <<>>
      BY DEF IInv, MemOK
    <3>. QED BY <1>0, <2>1, <3>1, Chains DEF Types, RecordsOK
  <2>3. CASE u = t
    <3>1. \A m \in thr[t].due : storage[m] # "freed" =>
             storage[m] = "dropped" /\ sent[Last(chain[m])].counter = 0
             /\ \A i \in DOMAIN chain[m] : sent[chain[m][i]].counter = 0
      BY <2>1, <2>2, <2>3, Chains DEF ThreadOK
    <3>2. \A m \in thr[t].due : storage[m] # "freed" => Last(chain[m]) \notin limbo'
      BY <1>1, <3>1
    <3>. QED BY <1>1, <1>2, <2>3, <3>1, <3>2 DEF ThreadOK
  <2>4. CASE u # t
    BY <1>1, <1>2, <2>1, <2>4 DEF ThreadOK
  <2>. QED BY <2>3, <2>4
<1>9. FilesOK'
  <2>1. Alive' = Alive /\ \A f \in Files : UsersOf(f)' = UsersOf(f)
    BY <1>1 DEF Alive, UsersOf
  <2>2. ~overlap /\ Sharing' => Sharing /\ thr'["main"] = thr["main"] /\ thr'["other"] = thr["other"]
    BY <1>2, <1>6 DEF Sharing, Threads
  <2>. QED BY <1>1, <1>6, <2>1, <2>2 DEF IInv, FilesOK, Sharing
<1>. QED BY <1>4, <1>5, <1>7, <1>8, <1>9 DEF ProducerOK

LEMMA ReturnStep ==
  ASSUME IInv, NEW t \in Threads, Return(t)
  PROVE  ProducerOK'
<1>0. Types /\ thr \in [Threads -> ThreadRecord] /\ files \in [Files -> FileRecord]
      /\ current \in Files \cup {NoFile}
  BY TypesHold DEF Types, RecordsOK
<1>1. /\ UNCHANGED <<overlap, storage, chain, sent, limbo, producer, recv, busy, aside>>
      /\ thr[t].pc = "destroy" /\ thr[t].doomed = {} /\ (t = "other" /\ ~overlap => ~Sharing)
  BY DEF Return, consumerVars, At
<1>2. /\ thr'[t].pc = "idle" /\ thr'[t].doomed = {} /\ thr'[t].due = {}
      /\ \A u \in Threads \ {t} : thr'[u] = thr[u]
  BY <1>0 DEF Return, Idle
<1>3. (\A u \in Sends : SendOK(u)') /\ \A k \in Mems : MemOK(k)'
  BY <1>1, <1>2, SendsKept
<1>4. /\ thr'["main"] = thr["main"] \/ (thr["main"].pc = "destroy" /\ thr'["main"].pc = "idle")
      /\ thr'["other"] = thr["other"] \/ thr'["other"].pc = "idle"
  BY <1>1, <1>2 DEF Threads
<1>5. SharingOK'
  BY <1>1, <1>4 DEF IInv, SharingOK, Sharing, To
<1>6. ASSUME NEW u \in Threads PROVE ThreadOK(u)'
  <2>1. ThreadOK(u) /\ thr[u].due \subseteq Mems
    BY <1>0, Fields DEF IInv
  <2>2. CASE u = t
    BY <1>2, <2>2 DEF ThreadOK
  <2>3. CASE u # t
    BY <1>1, <1>2, <2>1, <2>3 DEF ThreadOK
  <2>. QED BY <2>2, <2>3
<1>7. \/ files' = files /\ current' = current
      \/ /\ current \in Files /\ files[current].used = 0 /\ current' = NoFile /\ ~files'[current].inMap
         /\ files'[current].made = files[current].made
         /\ \A f \in Files \ {current} : files'[f] = files[f]
  <2>1. CASE current \in Files /\ files' = [files EXCEPT ![current].inMap = FALSE]
    BY <1>0, <2>1 DEF Return, Clean, FileRecord
  <2>2. CASE files' = files /\ current' = current
    BY <2>2
  <2>. QED BY <1>0, <2>1, <2>2 DEF Return, Clean
<1>8. CurrentOK /\ FilesOK
  BY DEF IInv
<1>9. CurrentOK'
  BY <1>0, <1>4, <1>7, <1>8, Fields DEF CurrentOK
<1>10. FilesOK'
  <2>1. Alive' = Alive /\ \A f \in Files : UsersOf(f)' = UsersOf(f)
    BY <1>1 DEF Alive, UsersOf
  <2>2. ~overlap => ~Sharing /\ ~Sharing'
    BY <1>1, <1>4 DEF Sharing, Threads
  <2>. SUFFICES ASSUME ~overlap PROVE FilesOK'
    BY <1>1 DEF FilesOK
  <2>3. thr'["main"].pc \notin {"counter", "rotate", "store"}
    BY <2>2 DEF Sharing
  <2>4. CASE files' = files /\ current' = current
    BY <1>1, <1>8, <2>1, <2>2, <2>3, <2>4 DEF FilesOK
  <2>5. CASE /\ current \in Files /\ files[current].used = 0 /\ current' = NoFile
             /\ ~files'[current].inMap /\ \A f \in Files \ {current} : files'[f] = files[f]
    <3>1. UsersOf(current) = {}
      <4>1. current # NoFile
        BY <1>0, <2>5, Fields
      <4>2. Cardinality(UsersOf(current)) = 0
        BY <1>8, <2>5, <4>1 DEF FilesOK
      <4>. QED BY <4>2, FiniteUsers
    <3>2. \A s \in Alive : sent[s].file # current
      BY <3>1 DEF UsersOf, Alive
    <3>. QED BY <1>1, <1>8, <2>1, <2>2, <2>3, <2>5, <3>2 DEF FilesOK
  <2>. QED BY <1>7, <2>4, <2>5
<1>. QED BY <1>3, <1>5, <1>6, <1>9, <1>10 DEF ProducerOK

LEMMA DropStep ==
  ASSUME IInv, NEW t \in Threads, NEW m \in Mems, Drop(t, m)
  PROVE  ProducerOK'
<1>. DEFINE x == Last(chain[m])
<1>0. /\ Types /\ thr \in [Threads -> ThreadRecord] /\ limbo \subseteq Sends
      /\ storage \in [Mems -> {"live", "dropped", "freed"}]
  BY TypesHold DEF Types, RecordsOK
<1>1. /\ UNCHANGED <<overlap, chain, sent, files, current, producer, recv, busy, aside>>
      /\ thr[t].pc = "idle" /\ storage[m] = "live" /\ (Sharing => thr["main"].m # m)
      /\ thr[t].doomed = {} /\ thr[t].due = {} /\ (t = "other" /\ ~overlap => ~Sharing)
  BY DEF Drop, consumerVars, At, IInv, ThreadOK
<1>2. /\ \A k \in Mems \ {m} : storage'[k] = storage[k]
      /\ storage'[m] = IF chain[m] = <<>> THEN "freed" ELSE "dropped"
      /\ chain[m] = <<>> => limbo' = limbo /\ thr' = thr
      /\ chain[m] # <<>> /\ sent[x].counter > 0 => limbo' = limbo \cup {x} /\ thr'[t].doomed = {}
      /\ chain[m] # <<>> /\ ~(sent[x].counter > 0) => limbo' = limbo /\ thr'[t].doomed = {x}
      /\ chain[m] # <<>> => thr'[t].pc = "collect" /\ thr'[t].due = {}
      /\ \A u \in Threads \ {t} : thr'[u] = thr[u]
  <2>1. storage' = [storage EXCEPT ![m] = IF chain[m] = <<>> THEN "freed" ELSE "dropped"]
    BY DEF Drop
  <2>2. \/ chain[m] = <<>> /\ limbo' = limbo /\ thr' = thr
        \/ chain[m] # <<>> /\ Delete(t, x, {})
    BY DEF Drop
  <2>3. ASSUME chain[m] # <<>>
        PROVE  /\ thr' = [thr EXCEPT ![t] =
                     [@ EXCEPT !.pc = "collect", !.doomed = IF sent[x].counter > 0 THEN {} ELSE {x}]]
               /\ limbo' = IF sent[x].counter > 0 THEN limbo \cup {x} ELSE limbo
    BY <2>2, <2>3 DEF Delete
  <2>4. ASSUME chain[m] # <<>>
        PROVE  /\ thr'[t].pc = "collect" /\ thr'[t].due = thr[t].due
               /\ thr'[t].doomed = IF sent[x].counter > 0 THEN {} ELSE {x}
               /\ \A u \in Threads \ {t} : thr'[u] = thr[u]
    <3>. HIDE DEF x
    <3>. QED BY <1>0, <2>3, <2>4 DEF ThreadRecord
  <2>. HIDE DEF x
  <2>. QED BY <1>0, <1>1, <2>1, <2>2, <2>3, <2>4
<1>3. chain[m] # <<>> => x \in Sends /\ sent[x].mem = m /\ x \notin limbo /\ ~Doomed(x)
  BY <1>1, Chains, Waiting
<1>4. \A s \in Sends : s \in limbo \/ Doomed(s) => sent[s].mem \in Mems \ {m}
  BY <1>1, Waiting
<1>5. \A s \in Sends : Doomed(s)' <=> \/ Doomed(s)
                                      \/ s = x /\ chain[m] # <<>> /\ ~(sent[x].counter > 0)
  BY <1>1, <1>2 DEF Doomed
<1>6. \A s \in Sends : s \in limbo' <=> \/ s \in limbo
                                        \/ s = x /\ chain[m] # <<>> /\ sent[x].counter > 0
  BY <1>2
<1>7. chain[m] # <<>> => sent[x].counter \in {0, 1}
  BY <1>0, <1>3, Fields
<1>8. ASSUME NEW s \in Sends PROVE SendOK(s)'
  <2>1. SendOK(s)
    BY DEF IInv
  <2>2. CASE s = x /\ chain[m] # <<>>
    <3>1. ~(s \in thr'["main"].doomed /\ s \in thr'["other"].doomed)
      BY <1>2, <1>3, <2>2 DEF Doomed, Threads
    <3>2. Doomed(s)' => s \notin limbo' /\ sent'[s].counter = 0
      BY <1>1, <1>3, <1>5, <1>6, <1>7, <2>2
    <3>3. /\ sent'[s].mem \in Mems /\ storage'[sent'[s].mem] = "dropped"
          /\ chain'[sent'[s].mem] # <<>> /\ s = Last(chain'[sent'[s].mem])
      BY <1>1, <1>2, <1>3, <2>2
    <3>. QED BY <1>1, <2>1, <3>1, <3>2, <3>3 DEF SendOK, Borrowed
  <2>3. CASE ~(s = x /\ chain[m] # <<>>)
    <3>1. (Doomed(s)' <=> Doomed(s)) /\ (s \in limbo' <=> s \in limbo)
      BY <1>5, <1>6, <2>3
    <3>2. \A u \in Threads : s \in thr'[u].doomed => s \in thr[u].doomed
      BY <1>1, <1>2, <2>3
    <3>3. ~(s \in thr'["main"].doomed /\ s \in thr'["other"].doomed)
      BY <2>1, <3>2 DEF SendOK, Threads
    <3>4. s \in limbo \/ Doomed(s) => storage'[sent[s].mem] = storage[sent[s].mem]
      BY <1>2, <1>4
    <3>. QED BY <1>1, <2>1, <3>1, <3>3, <3>4 DEF SendOK, Borrowed
  <2>. QED BY <2>2, <2>3
<1>9. ASSUME NEW k \in Mems PROVE MemOK(k)'
  <2>1. MemOK(k) /\ (chain[k] # <<>> => Last(chain[k]) \in Sends)
    BY Chains DEF IInv
  <2>2. CASE k = m
    <3>1. chain[m] # <<>> => x \in limbo' \/ Doomed(Last(chain[k]))'
      BY <1>1, <1>3, <1>5, <1>6, <2>2
    <3>. QED BY <1>1, <1>2, <2>1, <2>2, <3>1 DEF MemOK
  <2>3. CASE k # m
    <3>1. storage'[k] = storage[k]
      BY <1>2, <2>3
    <3>. QED BY <1>1, <1>5, <1>6, <2>1, <3>1 DEF MemOK
  <2>. QED BY <2>2, <2>3
<1>10. /\ thr'["main"] = thr["main"] \/ (thr["main"].pc = "idle" /\ thr'["main"].pc = "collect")
       /\ thr'["other"] = thr["other"] \/ thr'["other"].pc = "collect"
  BY <1>1, <1>2 DEF Threads
<1>11. SharingOK' /\ CurrentOK'
  BY <1>1, <1>2, <1>10 DEF IInv, SharingOK, Sharing, To, CurrentOK
<1>12. ASSUME NEW u \in Threads PROVE ThreadOK(u)'
  <2>1. ThreadOK(u) /\ thr[u].due \subseteq Mems
    BY <1>0, Fields DEF IInv
  <2>2. CASE u = t /\ chain[m] # <<>>
    BY <1>2, <2>2 DEF ThreadOK
  <2>3. CASE u # t \/ chain[m] = <<>>
    <3>1. thr'[u] = thr[u]
      BY <1>2, <2>3
    <3>2. ASSUME NEW k \in thr[u].due
          PROVE  /\ storage'[k] = storage[k]
                 /\ storage[k] = "dropped" => (Last(chain[k]) \in limbo' => Last(chain[k]) \in limbo)
      <4>1. k \in Mems \ {m}
        BY <1>1, <2>1 DEF ThreadOK
      <4>2. storage[k] = "dropped" /\ chain[m] # <<>> =>
                   Last(chain[k]) \in Sends /\ Last(chain[k]) # x
        BY <1>3, <4>1, Chains DEF IInv, MemOK
      <4>. QED BY <1>2, <1>6, <4>1, <4>2
    <3>. QED BY <1>1, <2>1, <3>1, <3>2 DEF ThreadOK
  <2>. QED BY <2>2, <2>3
<1>13. FilesOK'
  <2>1. Alive' = Alive /\ \A f \in Files : UsersOf(f)' = UsersOf(f)
    BY <1>1 DEF Alive, UsersOf
  <2>2. ~overlap /\ Sharing' => Sharing /\ thr'["main"] = thr["main"] /\ thr'["other"] = thr["other"]
    BY <1>1, <1>2, <1>10 DEF Sharing, Threads
  <2>. QED BY <1>1, <1>10, <2>1, <2>2 DEF IInv, FilesOK, Sharing
<1>. QED BY <1>8, <1>9, <1>11, <1>12, <1>13 DEF ProducerOK

\* The destructor, as a step of thread t that destroys the sent data a around memory m
\* and leaves b, the sent data of an earlier send, if there is any.
Destroyed(t, a, m) ==
  LET b == Last(Front(chain[m]))
      more == Front(chain[m]) # <<>>
  IN /\ UNCHANGED <<overlap, sent, current, producer, recv, busy, aside>>
     /\ thr[t].pc = "destroy" /\ (t = "other" /\ ~overlap => ~Sharing)
     /\ chain' = [chain EXCEPT ![m] = Front(chain[m])]
     /\ \A k \in Mems \ {m} : storage'[k] = storage[k]
     /\ storage'[m] = IF more THEN "dropped" ELSE "freed"
     /\ limbo' = IF more /\ sent[b].counter > 0 THEN limbo \cup {b} ELSE limbo
     /\ thr'[t].doomed = IF more /\ ~(sent[b].counter > 0) THEN (thr[t].doomed \ {a}) \cup {b}
                                                          ELSE thr[t].doomed \ {a}
     /\ thr'[t].due = thr[t].due
     /\ thr'[t].pc = IF more THEN "collect" ELSE "destroy"
     /\ \A u \in Threads \ {t} : thr'[u] = thr[u]

LEMMA DestroyEffect ==
  ASSUME IInv, NEW t \in Threads, NEW s \in Sends, Destroy(t, s)
  PROVE  /\ sent[s].mem \in Mems /\ storage[sent[s].mem] = "dropped" /\ chain[sent[s].mem] # <<>>
         /\ s = Last(chain[sent[s].mem]) /\ s \in thr[t].doomed
         /\ sent[s].counter = 0 /\ s \notin limbo /\ \A u \in Threads \ {t} : s \notin thr[u].doomed
         /\ Destroyed(t, s, sent[s].mem)
<1>. DEFINE m == sent[s].mem
            b == Last(Front(chain[m]))
            rest == thr[t].doomed \ {s}
<1>0. /\ Types /\ thr \in [Threads -> ThreadRecord]
      /\ storage \in [Mems -> {"live", "dropped", "freed"}]
  BY TypesHold DEF Types, RecordsOK
<1>1. /\ UNCHANGED <<overlap, sent, current, producer, recv, busy, aside>>
      /\ thr[t].pc = "destroy" /\ (t = "other" /\ ~overlap => ~Sharing) /\ s \in thr[t].doomed
      /\ chain' = [chain EXCEPT ![m] = Front(chain[m])]
  BY DEF Destroy, consumerVars, At
<1>2. Doomed(s)
  BY <1>1 DEF Doomed
<1>3. SendOK(s)
  BY DEF IInv
<1>4. /\ m \in Mems /\ storage[m] = "dropped" /\ chain[m] # <<>> /\ s = Last(chain[m])
      /\ sent[s].counter = 0 /\ s \notin limbo
  BY <1>2, <1>3 DEF SendOK
<1>5. \A u \in Threads \ {t} : s \notin thr[u].doomed
  BY <1>1, <1>3 DEF SendOK, Threads
<1>6. CASE Front(chain[m]) = <<>>
  <2>1. /\ storage' = [storage EXCEPT ![m] = "freed"] /\ thr' = [thr EXCEPT ![t].doomed = rest]
        /\ limbo' = limbo
    BY <1>6 DEF Destroy
  <2>2. /\ thr'[t].doomed = rest /\ thr'[t].due = thr[t].due /\ thr'[t].pc = thr[t].pc
        /\ \A u \in Threads \ {t} : thr'[u] = thr[u]
    BY <1>0, <2>1 DEF ThreadRecord
  <2>3. storage'[m] = "freed" /\ \A k \in Mems \ {m} : storage'[k] = storage[k]
    BY <1>0, <1>4, <2>1
  <2>. QED BY <1>1, <1>4, <1>5, <1>6, <2>1, <2>2, <2>3 DEF Destroyed
<1>7. CASE Front(chain[m]) # <<>>
  <2>1. storage' = storage /\ Delete(t, b, rest)
    BY <1>7 DEF Destroy
  <2>2. /\ limbo' = IF sent[b].counter > 0 THEN limbo \cup {b} ELSE limbo
        /\ thr' = [thr EXCEPT ![t] =
             [@ EXCEPT !.pc = "collect", !.doomed = IF sent[b].counter > 0 THEN rest ELSE rest \cup {b}]]
    BY <2>1 DEF Delete
  <2>3. /\ thr'[t].doomed = IF sent[b].counter > 0 THEN rest ELSE rest \cup {b}
        /\ thr'[t].due = thr[t].due /\ thr'[t].pc = "collect"
        /\ \A u \in Threads \ {t} : thr'[u] = thr[u]
    <3>. HIDE DEF b, rest
    <3>. QED BY <1>0, <2>2 DEF ThreadRecord
  <2>. QED BY <1>1, <1>4, <1>5, <1>7, <2>1, <2>2, <2>3 DEF Destroyed
<1>. QED BY <1>6, <1>7

LEMMA DestroyStep ==
  ASSUME IInv, NEW t \in Threads, NEW a \in Sends, Destroy(t, a)
  PROVE  ProducerOK'
<1>0. /\ Types /\ limbo \subseteq Sends /\ chain \in [Mems -> Seq(Sends)]
      /\ files \in [Files -> FileRecord]
  BY TypesHold DEF Types, RecordsOK
<1>1. PICK m \in Mems : m = sent[a].mem
  BY DestroyEffect
<1>2. /\ storage[m] = "dropped" /\ chain[m] # <<>> /\ a = Last(chain[m]) /\ a \in thr[t].doomed
      /\ sent[a].counter = 0 /\ a \notin limbo /\ \A u \in Threads \ {t} : a \notin thr[u].doomed
      /\ Destroyed(t, a, m)
  BY <1>1, DestroyEffect
<1>3. PICK b, more : b = Last(Front(chain[m])) /\ more \in BOOLEAN /\ (more <=> Front(chain[m]) # <<>>)
  OBVIOUS
<1>4. /\ UNCHANGED <<overlap, sent, current, producer, recv, busy, aside>>
      /\ thr[t].pc = "destroy" /\ (t = "other" /\ ~overlap => ~Sharing)
      /\ \A k \in Mems \ {m} : chain'[k] = chain[k] /\ storage'[k] = storage[k]
      /\ chain'[m] = Front(chain[m])
      /\ storage'[m] = IF more THEN "dropped" ELSE "freed"
      /\ limbo' = IF more /\ sent[b].counter > 0 THEN limbo \cup {b} ELSE limbo
      /\ thr'[t].doomed = IF more /\ ~(sent[b].counter > 0) THEN (thr[t].doomed \ {a}) \cup {b}
                                                           ELSE thr[t].doomed \ {a}
      /\ thr'[t].due = thr[t].due
      /\ thr'[t].pc = IF more THEN "collect" ELSE "destroy"
      /\ \A u \in Threads \ {t} : thr'[u] = thr[u]
  BY <1>0, <1>2, <1>3 DEF Destroyed
<1>5. /\ Len(chain[m]) \in Nat \ {0} /\ DOMAIN chain[m] = 1 .. Len(chain[m])
      /\ chain[m][Len(chain[m])] = a
      /\ DOMAIN chain'[m] = 1 .. Len(chain[m]) - 1
      /\ \A i \in DOMAIN chain'[m] : chain'[m][i] = chain[m][i]
      /\ more => b = chain[m][Len(chain[m]) - 1] /\ Len(chain[m]) - 1 \in DOMAIN chain'[m]
      /\ more <=> chain'[m] # <<>>
  <2>1. chain[m] \in Seq(Sends)
    BY <1>0
  <2>2. /\ Len(chain[m]) \in Nat \ {0} /\ DOMAIN chain[m] = 1 .. Len(chain[m])
        /\ Last(chain[m]) = chain[m][Len(chain[m])]
        /\ DOMAIN Front(chain[m]) = 1 .. Len(chain[m]) - 1
        /\ \A i \in 1 .. Len(chain[m]) - 1 : Front(chain[m])[i] = chain[m][i]
        /\ Front(chain[m]) # <<>> => Last(Front(chain[m])) = chain[m][Len(chain[m]) - 1] /\ Len(chain[m]) > 1
    BY <1>2, <2>1, FrontLast
  <2>3. Len(chain[m]) > 1 => Len(chain[m]) - 1 \in 1 .. Len(chain[m]) - 1
    BY <2>2
  <2>. QED BY <1>2, <1>3, <1>4, <2>2, <2>3
<1>6. /\ \A i \in DOMAIN chain'[m] : i \in DOMAIN chain[m] /\ i # Len(chain[m])
      /\ \A i \in DOMAIN chain[m] : i \in DOMAIN chain'[m] \/ i = Len(chain[m])
      /\ Len(chain[m]) \in DOMAIN chain[m]
  BY <1>5
<1>7. /\ \A i \in DOMAIN chain[m] :
           /\ chain[m][i] \in Sends /\ sent[chain[m][i]].mem = m /\ recv[chain[m][i]] # "none"
           /\ \A j \in DOMAIN chain[m] : chain[m][i] = chain[m][j] => i = j
      /\ sent[a].mem = m
  BY <1>1, Chains
<1>8. more => /\ b \in Sends /\ b # a /\ sent[b].mem = m /\ sent[b].counter \in {0, 1}
              /\ b = Last(chain'[m])
  <2>1. more => b \in Sends /\ b # a /\ sent[b].mem = m
    BY <1>5, <1>6, <1>7
  <2>. QED BY <1>0, <1>3, <1>4, <2>1, Fields
<1>9. \A u \in Sends : u \in limbo \/ Doomed(u) => sent[u].mem \in Mems /\ (sent[u].mem = m => u = a)
  BY <1>2, Waiting
<1>10. more => b \notin limbo /\ \A u \in Threads : b \notin thr[u].doomed
  BY <1>8, <1>9 DEF Doomed
<1>11. \A u \in Sends : Doomed(u)' <=> \/ Doomed(u) /\ u # a
                                       \/ u = b /\ more /\ ~(sent[b].counter > 0)
  <2>1. ASSUME NEW u \in Sends, Doomed(u)'
        PROVE  (Doomed(u) /\ u # a) \/ (u = b /\ more /\ ~(sent[b].counter > 0))
    <3>1. PICK v \in Threads : u \in thr'[v].doomed
      BY <2>1 DEF Doomed
    <3>2. CASE v = t
      BY <1>4, <3>1, <3>2 DEF Doomed
    <3>3. CASE v # t
      BY <1>2, <1>4, <3>1, <3>3 DEF Doomed
    <3>. QED BY <3>2, <3>3
  <2>2. ASSUME NEW u \in Sends, Doomed(u), u # a PROVE Doomed(u)'
    BY <1>4, <2>2 DEF Doomed
  <2>3. ASSUME NEW u \in Sends, u = b, more, ~(sent[b].counter > 0) PROVE Doomed(u)'
    BY <1>4, <2>3 DEF Doomed
  <2>. QED BY <1>8, <2>1, <2>2, <2>3
<1>12. \A u \in Sends : u \in limbo' <=> u \in limbo \/ (u = b /\ more /\ sent[b].counter > 0)
  BY <1>4
<1>13. ASSUME NEW u \in Sends PROVE SendOK(u)'
  <2>1. SendOK(u) /\ sent[u].mem \in Mems \cup {NoSend}
    BY <1>0, Fields DEF IInv
  <2>2. CASE u = a
    <3>1. ~Borrowed(u)
      BY <1>2, <2>1, <2>2 DEF SendOK
    <3>2. u \notin limbo' /\ ~Doomed(u)'
      BY <1>2, <1>8, <1>11, <1>12, <2>2
    <3>3. \A v \in Threads : u \notin thr'[v].doomed
      BY <3>2 DEF Doomed
    <3>. QED BY <1>4, <2>1, <3>1, <3>2, <3>3 DEF SendOK, Borrowed, Threads
  <2>3. CASE u = b /\ more
    <3>1. Borrowed(u) => \E i \in DOMAIN chain'[sent[u].mem] : chain'[sent[u].mem][i] = u
      BY <1>5, <1>8, <2>3
    <3>2. Doomed(u)' => u \notin limbo' /\ sent'[u].counter = 0
      BY <1>4, <1>8, <1>10, <1>11, <1>12, <2>3 DEF Doomed
    <3>3. /\ sent'[u].mem \in Mems /\ storage'[sent'[u].mem] = "dropped"
          /\ chain'[sent'[u].mem] # <<>> /\ u = Last(chain'[sent'[u].mem])
      BY <1>4, <1>5, <1>8, <2>3
    <3>4. \A v \in Threads : u \in thr'[v].doomed => v = t
      BY <1>4, <1>10, <2>3
    <3>5. ~(u \in thr'["main"].doomed /\ u \in thr'["other"].doomed)
      BY <3>4 DEF Threads
    <3>. QED BY <1>4, <2>1, <3>1, <3>2, <3>3, <3>5 DEF SendOK, Borrowed
  <2>4. CASE u # a /\ ~(u = b /\ more)
    <3>1. (Doomed(u)' <=> Doomed(u)) /\ (u \in limbo' <=> u \in limbo)
      BY <1>11, <1>12, <2>4
    <3>2. \A v \in Threads : u \in thr'[v].doomed => u \in thr[v].doomed
      BY <1>4, <2>4
    <3>3. ~(u \in thr'["main"].doomed /\ u \in thr'["other"].doomed)
      BY <2>1, <3>2 DEF SendOK, Threads
    <3>4. u \in limbo \/ Doomed(u) => sent[u].mem \in Mems \ {m}
      BY <1>9, <2>4
    <3>5. Borrowed(u) => \E i \in DOMAIN chain'[sent[u].mem] : chain'[sent[u].mem][i] = u
      <4>1. SUFFICES ASSUME Borrowed(u)
                     PROVE  \E i \in DOMAIN chain'[sent[u].mem] : chain'[sent[u].mem][i] = u
        OBVIOUS
      <4>2. sent[u].mem \in Mems
        BY <2>1, <4>1 DEF SendOK, Borrowed
      <4>3. PICK i \in DOMAIN chain[sent[u].mem] : chain[sent[u].mem][i] = u
        BY <2>1, <4>1 DEF SendOK
      <4>4. CASE sent[u].mem = m
        BY <1>5, <1>6, <2>4, <4>3, <4>4
      <4>5. CASE sent[u].mem # m
        BY <1>4, <4>2, <4>3, <4>5
      <4>. QED BY <4>4, <4>5
    <3>. QED BY <1>4, <2>1, <3>1, <3>3, <3>4, <3>5 DEF SendOK, Borrowed
  <2>. QED BY <2>2, <2>3, <2>4
<1>14. ASSUME NEW k \in Mems PROVE MemOK(k)'
  <2>1. MemOK(k) /\ (chain[k] # <<>> => Last(chain[k]) \in Sends /\ sent[Last(chain[k])].mem = k)
    BY Chains DEF IInv
  <2>2. CASE k = m
    <3>1. more => Last(chain'[k]) \in limbo' \/ Doomed(Last(chain[k]))'
      BY <1>8, <1>11, <1>12, <2>2
    <3>2. ASSUME NEW i \in DOMAIN chain'[m]
          PROVE  /\ sent[chain'[m][i]].mem = m /\ recv[chain'[m][i]] # "none"
                 /\ \A j \in DOMAIN chain'[m] : chain'[m][i] = chain'[m][j] => i = j
      BY <1>5, <1>6, <1>7
    <3>. QED BY <1>4, <1>5, <2>2, <3>1, <3>2 DEF MemOK
  <2>3. CASE k # m
    <3>1. chain[k] # <<>> => Last(chain[k]) # a
      BY <1>7, <2>1, <2>3
    <3>2. chain'[k] = chain[k] /\ storage'[k] = storage[k]
      BY <1>4, <2>3
    <3>. QED BY <1>4, <1>11, <1>12, <2>1, <3>1, <3>2 DEF MemOK
  <2>. QED BY <2>2, <2>3
<1>15. /\ thr'["main"] = thr["main"] \/ (/\ thr["main"].pc = "destroy"
                                         /\ thr'["main"].pc \in {"collect", "destroy"})
       /\ thr'["other"] = thr["other"] \/ (/\ thr["other"].pc = "destroy"
                                           /\ thr'["other"].pc \in {"collect", "destroy"})
  BY <1>4 DEF Threads
<1>16. SharingOK'
  <2>1. Sharing => thr["main"].m # m /\ thr["main"].m \in Mems
    BY <1>2 DEF IInv, SharingOK
  <2>. QED BY <1>4, <1>15, <2>1 DEF IInv, SharingOK, Sharing, To
<1>17. ASSUME NEW u \in Threads PROVE ThreadOK(u)'
  <2>1. ThreadOK(u) /\ thr[u].due \subseteq Mems /\ thr'[u].due = thr[u].due
    BY <1>0, <1>4, Fields DEF IInv
  <2>2. ASSUME NEW k \in thr[u].due
        PROVE  \/ storage'[k] = "freed"
               \/ /\ storage'[k] = "dropped"
                  /\ \A i \in DOMAIN chain'[k] : sent'[chain'[k][i]].counter = 0
                  /\ thr'[u].pc = "destroy" => Last(chain'[k]) \notin limbo'
    <3>1. \/ storage[k] = "freed"
          \/ /\ storage[k] = "dropped" /\ \A i \in DOMAIN chain[k] : sent[chain[k][i]].counter = 0
             /\ thr[u].pc = "destroy" => Last(chain[k]) \notin limbo
      BY <2>1 DEF ThreadOK
    <3>2. CASE k = m
      <4>1. \A i \in DOMAIN chain'[m] : sent'[chain'[m][i]].counter = 0
        BY <1>2, <1>4, <1>5, <1>6, <3>1, <3>2
      <4>2. more => Last(chain'[m]) \notin limbo'
        <5>1. more => sent[b].counter = 0
          BY <1>4, <1>5, <4>1
        <5>. QED BY <1>8, <1>10, <1>12, <5>1
      <4>. QED BY <1>4, <3>2, <4>1, <4>2
    <3>3. CASE k # m
      <4>1. k \in Mems \ {m} /\ chain'[k] = chain[k] /\ storage'[k] = storage[k]
        BY <1>4, <2>1, <3>3
      <4>2. storage[k] = "dropped" => chain[k] # <<>>
        BY <4>1 DEF IInv, MemOK
      <4>3. storage[k] = "dropped" => Last(chain[k]) \in Sends /\ ~(Last(chain[k]) = b /\ more)
        BY <1>8, <4>1, <4>2, Chains
      <4>4. thr'[u].pc = "destroy" => thr[u].pc = "destroy"
        BY <1>4
      <4>. QED BY <1>4, <1>12, <3>1, <4>1, <4>3, <4>4
    <3>. QED BY <3>2, <3>3
  <2>3. CASE u = t
    BY <1>4, <2>1, <2>2, <2>3 DEF ThreadOK
  <2>4. CASE u # t
    BY <1>4, <2>1, <2>2, <2>4 DEF ThreadOK
  <2>. QED BY <2>3, <2>4
<1>18. CurrentOK /\ FilesOK /\ NoFile \notin Files
  BY <1>0, Fields DEF IInv
<1>19. \/ files' = files /\ ~files[sent[a].file].inMap
       \/ /\ files[sent[a].file].inMap
          /\ files' = [files EXCEPT ![sent[a].file] =
               [@ EXCEPT !.used = files[sent[a].file].used - 1,
                         !.inMap = ~(files[sent[a].file].used = 1 /\ files[sent[a].file].next >= FileSize)]]
  BY DEF Destroy, ReturnRefCounter
<1>20. ASSUME sent[a].file \in Files, files' # files
       PROVE  /\ files[sent[a].file].inMap
              /\ files'[sent[a].file].used = files[sent[a].file].used - 1
              /\ files'[sent[a].file].inMap <=> ~(files[sent[a].file].used = 1 /\ files[sent[a].file].next >= FileSize)
              /\ files'[sent[a].file].made = files[sent[a].file].made
              /\ files'[sent[a].file].next = files[sent[a].file].next
              /\ \A f \in Files \ {sent[a].file} : files'[f] = files[f]
  <2>1. PICK f \in Files : f = sent[a].file
    BY <1>20
  <2>2. PICK i \in BOOLEAN : i <=> ~(files[f].used = 1 /\ files[f].next >= FileSize)
    OBVIOUS
  <2>3. files[f].inMap /\ files' = [files EXCEPT ![f] = [@ EXCEPT !.used = files[f].used - 1, !.inMap = i]]
    BY <1>19, <1>20, <2>1, <2>2
  <2>4. /\ files'[f].used = files[f].used - 1 /\ files'[f].inMap = i
        /\ files'[f].made = files[f].made /\ files'[f].next = files[f].next
        /\ \A g \in Files \ {f} : files'[g] = files[g]
    BY <1>0, <2>3 DEF FileRecord
  <2>. QED BY <2>1, <2>2, <2>3, <2>4
<1>21. sent[a].file \notin Files => files' = files
  BY <1>0, <1>19
<1>22. CurrentOK'
  <2>1. thr'["main"].pc # "store" => thr["main"].pc # "store"
    BY <1>15
  <2>2. \A f \in Files : /\ files'[f].made = files[f].made /\ files'[f].next = files[f].next
                         /\ ~files[f].made => files'[f] = files[f]
    BY <1>18, <1>20, <1>21 DEF CurrentOK
  <2>. QED BY <1>0, <1>4, <1>18, <2>1, <2>2 DEF CurrentOK, Types, RecordsOK
<1>23. FilesOK'
  <2>1. SUFFICES ASSUME ~overlap PROVE FilesOK'
    BY <1>4 DEF FilesOK
  <2>2. ~Sharing /\ ~Sharing'
    BY <1>4, <1>15, <2>1 DEF Sharing, Threads
  <2>3. thr'["main"].pc \notin {"counter", "rotate", "store"} /\ thr["main"].pc # "store"
    BY <2>2 DEF Sharing
  <2>4. /\ producer # "crashed" /\ (current # NoFile => files[current].inMap)
        /\ \A u \in Alive : sent[u].file \in Files /\ files[sent[u].file].inMap
        /\ \A f \in Files : files[f].inMap => files[f].used = Cardinality(UsersOf(f))
    BY <1>18, <2>1 DEF FilesOK
  <2>5. Alive' = Alive \ {a} /\ a \in Alive
    <3>1. \A u \in Sends : u \in Alive <=> \E k \in Mems : \E i \in DOMAIN chain[k] : chain[k][i] = u
      BY DEF Alive, Range
    <3>2. \A u \in Sends : u \in Alive' <=> \E k \in Mems : \E i \in DOMAIN chain'[k] : chain'[k][i] = u
      BY DEF Alive, Range
    <3>3. a \in Alive
      BY <1>5, <1>6, <3>1
    <3>4. a \notin Alive'
      <4>. SUFFICES ASSUME NEW k \in Mems, NEW i \in DOMAIN chain'[k], chain'[k][i] = a PROVE FALSE
        BY <3>2
      <4>1. CASE k = m
        BY <1>5, <1>6, <1>7, <4>1
      <4>2. CASE k # m
        BY <1>4, <1>7, <4>2, Chains
      <4>. QED BY <4>1, <4>2
    <3>5. ASSUME NEW u \in Sends \ {a}, NEW k \in Mems
          PROVE  (\E i \in DOMAIN chain'[k] : chain'[k][i] = u) <=> (\E i \in DOMAIN chain[k] : chain[k][i] = u)
      <4>1. CASE k = m
        BY <1>5, <1>6, <4>1
      <4>2. CASE k # m
        BY <1>4, <4>2
      <4>. QED BY <4>1, <4>2
    <3>6. Alive \subseteq Sends /\ Alive' \subseteq Sends
      BY DEF Alive
    <3>. QED BY <3>1, <3>2, <3>3, <3>4, <3>5, <3>6
  <2>6. PICK f \in Files : f = sent[a].file /\ files[f].inMap /\ files[f].used = Cardinality(UsersOf(f))
    BY <2>4, <2>5
  <2>7. /\ files'[f].used = files[f].used - 1
        /\ files'[f].inMap <=> ~(files[f].used = 1 /\ files[f].next >= FileSize)
        /\ \A g \in Files \ {f} : files'[g] = files[g]
    <3>1. files' # files
      <4>1. PICK i \in BOOLEAN : i <=> ~(files[f].used = 1 /\ files[f].next >= FileSize)
        OBVIOUS
      <4>2. files' = [files EXCEPT ![f] = [@ EXCEPT !.used = files[f].used - 1, !.inMap = i]]
        BY <1>19, <2>6, <4>1
      <4>3. files'[f].used = files[f].used - 1 /\ files[f].used \in Int
        BY <1>0, <4>2, Fields DEF FileRecord
      <4>4. files'[f].used # files[f].used
        BY <4>3
      <4>. QED BY <4>4
    <3>. QED BY <1>20, <2>6, <3>1
  <2>8. a \in UsersOf(f) /\ UsersOf(f) \ {a} = {u \in Alive' : sent[u].file = f}
    BY <2>5, <2>6 DEF UsersOf
  <2>9. Cardinality(UsersOf(f) \ {a}) = Cardinality(UsersOf(f)) - 1 /\ IsFiniteSet(UsersOf(f) \ {a})
    BY <2>8, FiniteUsers, FS_RemoveElement
  <2>10. \A g \in Files : UsersOf(g)' = IF g = f THEN UsersOf(f) \ {a} ELSE UsersOf(g)
    <3>1. UsersOf(f)' = UsersOf(f) \ {a}
      BY <1>4, <2>8 DEF UsersOf
    <3>2. \A g \in Files \ {f} : UsersOf(g)' = UsersOf(g)
      BY <1>4, <2>5, <2>6 DEF UsersOf
    <3>. QED BY <3>1, <3>2
  <2>11. \A g \in Files : files'[g].inMap => files'[g].used = Cardinality(UsersOf(g)')
    BY <2>4, <2>6, <2>7, <2>9, <2>10
  <2>12. \A u \in Alive' : sent[u].file \in Files /\ files'[sent[u].file].inMap
    <3>. SUFFICES ASSUME NEW u \in Alive' PROVE sent[u].file \in Files /\ files'[sent[u].file].inMap
      OBVIOUS
    <3>1. u \in Alive /\ u # a
      BY <2>5
    <3>2. CASE sent[u].file # f
      BY <2>4, <2>7, <3>1, <3>2
    <3>3. CASE sent[u].file = f
      <4>1. u \in UsersOf(f) \ {a}
        BY <2>8, <3>3
      <4>2. Cardinality(UsersOf(f) \ {a}) # 0
        BY <2>9, <4>1, FS_EmptySet
      <4>. QED BY <2>6, <2>7, <2>9, <3>3, <4>2
    <3>. QED BY <3>2, <3>3
  <2>13. current # NoFile => files'[current].inMap
    <3>. SUFFICES ASSUME current # NoFile PROVE files'[current].inMap
      OBVIOUS
    <3>1. current \in Files /\ files[current].inMap /\ files[current].next < FileSize
      BY <1>0, <1>18, <2>3, <2>4 DEF CurrentOK, Types, RecordsOK
    <3>2. ~(files[current].next >= FileSize)
      BY <1>0, <3>1, Fields
    <3>. QED BY <2>7, <3>1, <3>2
  <2>. QED BY <1>4, <2>2, <2>3, <2>4, <2>11, <2>12, <2>13 DEF FilesOK
<1>. QED BY <1>13, <1>14, <1>16, <1>17, <1>22, <1>23 DEF ProducerOK

(***************************************************************************)
(* The inductive invariant.                                                *)
(***************************************************************************)
LEMMA InitInv == Init => IInv
<1>. SUFFICES ASSUME Init PROVE IInv
  OBVIOUS
<1>. USE DEF Init
<1>1. FileSize \in Nat \ {0} /\ NoSend \notin Sends \cup Mems \cup Consumers /\ NoFile \notin Files
  BY TensorSharingConstants
<1>2. /\ \A s \in Sends : /\ sent[s] = [mem |-> NoSend, to |-> NoSend, file |-> NoFile, counter |-> 0]
                          /\ recv[s] = "none"
      /\ \A m \in Mems : chain[m] = <<>> /\ storage[m] = "live"
      /\ \A f \in Files : files[f] = [next |-> 0, used |-> 0, inMap |-> FALSE, made |-> FALSE]
      /\ \A t \in Threads : thr[t] = Idle
      /\ \A c \in Consumers : cache[c] = [entry |-> FALSE, owners |-> 0, open |-> 0]
  OBVIOUS
<1>3. Idle \in ThreadRecord
  BY DEF Idle, ThreadRecord
<1>4. [next |-> 0, used |-> 0, inMap |-> FALSE, made |-> FALSE] \in FileRecord
  BY <1>1 DEF FileRecord
<1>5. [mem |-> NoSend, to |-> NoSend, file |-> NoFile, counter |-> 0] \in SendRecord
  BY DEF SendRecord
<1>6. chain \in [Mems -> Seq(Sends)]
  <2>1. <<>> \in Seq(Sends)
    OBVIOUS
  <2>. QED BY <2>1
<1>7. Types
  <2>1. overlap \in BOOLEAN
    BY TensorSharingConstants
  <2>2. [entry |-> FALSE, owners |-> 0, open |-> 0] \in [entry : BOOLEAN, owners : Nat, open : Nat]
    OBVIOUS
  <2>. QED BY <1>3, <1>4, <1>5, <1>6, <2>1, <2>2 DEF Types, RecordsOK, Receipts
<1>8. ASSUME NEW s \in Sends PROVE SendOK(s) /\ ~(recv[s] # "none")
  BY <1>2 DEF SendOK, Borrowed, Doomed, Idle, Threads
<1>9. ASSUME NEW m \in Mems PROVE MemOK(m)
  <2>1. DOMAIN chain[m] = {}
    BY <1>2
  <2>. QED BY <1>2, <2>1 DEF MemOK
<1>10. SharingOK /\ (\A t \in Threads : ThreadOK(t)) /\ ~Sharing
  BY <1>2 DEF SharingOK, Sharing, ThreadOK, Idle, Threads
<1>11. CurrentOK
  BY <1>2 DEF CurrentOK
<1>12. FilesOK
  <2>1. Alive = {}
    <3>1. \A m \in Mems : Range(chain[m]) = {}
      BY <1>2 DEF Range
    <3>. QED BY <3>1 DEF Alive
  <2>. QED BY <1>2, <1>10, <2>1 DEF FilesOK, Idle, Threads
<1>13. ASSUME NEW c \in Consumers PROVE CacheOK(c)
  <2>1. State(c, "held") = {} /\ State(c, "close") = {} /\ State(c, "expired") = {}
    BY <1>2 DEF State
  <2>2. Cardinality({}) = 0
    BY FS_EmptySet
  <2>3. ~cache[c].entry /\ cache[c].owners = 0 /\ cache[c].open = 0
    BY <1>2
  <2>. QED
    <3>. HIDE DEF Init
    <3>. QED BY <2>1, <2>2, <2>3 DEF CacheOK
<1>. QED BY <1>7, <1>8, <1>9, <1>10, <1>11, <1>12, <1>13, TypesTypeOK DEF IInv, Types

LEMMA StutterStep ==
  ASSUME IInv, UNCHANGED vars
  PROVE  IInv'
<1>0. Types /\ Types'
  <2>1. Types
    BY TypesHold
  <2>. QED BY <2>1 DEF Types, RecordsOK, vars
<1>1. ConsumerFrame
  <2>1. \A s \in Sends : SendOK(s)
    BY DEF IInv
  <2>. QED BY <2>1 DEF ConsumerFrame, producerVars, vars, SendOK, Borrowed
<1>2. ASSUME NEW c \in Consumers PROVE CacheOK(c)'
  <2>1. \A st \in {"held", "close", "expired"} : State(c, st)' = State(c, st)
    BY DEF State, To, vars
  <2>. QED BY <2>1, CacheKept DEF IInv, vars
<1>. QED BY <1>0, <1>1, <1>2, FrameToInv

LEMMA NextInv ==
  ASSUME IInv, [Next]_vars
  PROVE  IInv'
<1>1. CASE ProducerStep
  <2>1. ProducerOK'
    <3>1. ASSUME NEW m \in Mems, NEW s \in Sends, NEW c \in Consumers, Share(m, s, c)
          PROVE  ProducerOK'
      BY <3>1, ShareStep
    <3>2. CASE SetCounter \/ RotateLoad \/ RotateStore
      BY <3>2, SetCounterStep, RotateLoadStep, RotateStoreStep
    <3>3. CASE Crash \/ Exit
      BY <3>3, CrashExitStep
    <3>4. ASSUME NEW t \in Threads, MusaIPCCollect(t) \/ Collect(t) \/ Return(t)
          PROVE  ProducerOK'
      BY <3>4, MusaIPCCollectStep, CollectStep, ReturnStep
    <3>5. ASSUME NEW t \in Threads, NEW s \in Sends, Destroy(t, s)
          PROVE  ProducerOK'
      BY <3>5, DestroyStep
    <3>6. ASSUME NEW t \in Threads, NEW m \in Mems, Drop(t, m)
          PROVE  ProducerOK'
      BY <3>6, DropStep
    <3>. QED BY <1>1, <3>1, <3>2, <3>3, <3>4, <3>5, <3>6 DEF ProducerStep
  <2>. QED BY <1>1, <2>1, ProducerToInv
<1>2. ASSUME NEW s \in Sends,
             \/ ReceiveAgain(s) \/ Receive(s) \/ Launch(s) \/ Complete(s)
             \/ Forget(s) \/ EraseEntry(s) \/ CloseHandle(s) \/ Release(s)
      PROVE  IInv'
  BY <1>2, ConsumerStep
<1>3. ASSUME NEW c \in Consumers, Die(c) PROVE IInv'
  BY <1>3, DieStep
<1>4. CASE UNCHANGED vars
  BY <1>4, StutterStep
<1>. QED BY <1>1, <1>2, <1>3, <1>4 DEF Next, ProducerStep

\* The inductive invariant of TensorSharing.
THEOREM Invariance == Spec => []IInv
<1>1. IInv /\ [Next]_vars => IInv'
  BY NextInv
<1>. QED BY InitInv, <1>1, PTL DEF Spec

\* While the program does not collect during a send, no counter is read from a file that
\* is not mapped any more, and used_slots_ is the number of the counters in use.
THEOREM CountersStayMapped == Spec => []CountersMapped
<1>1. IInv => CountersMapped
  <2>. SUFFICES ASSUME IInv, ~overlap PROVE CountersMapped
    BY DEF CountersMapped
  <2>1. /\ producer # "crashed" /\ \A s \in Alive : files[sent[s].file].inMap
        /\ \A f \in Files : files[f].inMap => files[f].used = Cardinality(UsersOf(f))
    BY DEF IInv, FilesOK
  <2>. QED BY <2>1 DEF CountersMapped, Mapped, UsersOf
<1>. QED BY Invariance, <1>1, PTL

\* Dropped memory has exactly one owner, limbo or one thread.
THEOREM BookkeepingHolds == Spec => []Bookkeeping
<1>1. IInv => Bookkeeping
  <2>. SUFFICES ASSUME IInv PROVE Bookkeeping
    OBVIOUS
  <2>1. ASSUME NEW m \in Mems, storage[m] = "dropped"
        PROVE  \E o \in Keepers : Owners(Last(chain[m])) = {o}
    <3>1. PICK s \in Sends : s = Last(chain[m]) /\ (s \in limbo \/ Doomed(s))
      <4>1. chain[m] # <<>> /\ (Last(chain[m]) \in limbo \/ Doomed(Last(chain[m])))
        BY <2>1 DEF IInv, MemOK
      <4>. QED BY <4>1, Chains
    <3>2. /\ Doomed(s) => s \notin limbo
          /\ ~(s \in thr["main"].doomed /\ s \in thr["other"].doomed)
      BY DEF IInv, SendOK
    <3>3. CASE s \in limbo
      <4>1. Owners(s) = {"limbo"}
        BY <3>2, <3>3 DEF Owners, Keepers, Threads, Doomed
      <4>. QED BY <3>1, <4>1 DEF Keepers
    <3>4. CASE s \notin limbo
      <4>1. PICK t \in Threads : s \in thr[t].doomed
        BY <3>1, <3>4 DEF Doomed
      <4>2. Owners(s) = {t}
        BY <3>2, <3>4, <4>1 DEF Owners, Keepers, Threads
      <4>. QED BY <3>1, <4>2 DEF Keepers
    <3>. QED BY <3>3, <3>4
  <2>. QED BY <2>1 DEF Bookkeeping, OwnedOnce, IInv
<1>. QED BY Invariance, <1>1, PTL

\* What was unused when a collection began has been freed when it returns, unless the
\* other thread is about to.
THEOREM CollectionFrees == Spec => CollectFrees
<1>1. ASSUME IInv, [Next]_vars, NEW t \in Threads, thr[t].pc # "idle", thr'[t].pc = "idle",
             NEW m \in thr[t].due
      PROVE  storage'[m] = "freed" \/ \E u \in Threads \ {t} : thr'[u].pc # "idle"
  <2>0. Types /\ thr \in [Threads -> ThreadRecord] /\ thr[t].due \subseteq Mems
    BY <1>1, TypesHold, Fields DEF Types, RecordsOK
  <2>1. ThreadOK(t)
    BY <1>1 DEF IInv
  <2>2. CASE Return(t)
    <3>1. /\ storage' = storage /\ thr[t].doomed = {} /\ thr[t].pc = "destroy"
          /\ \A u \in Threads \ {t} : thr'[u] = thr[u]
      BY <2>0, <2>2 DEF Return, At
    <3>2. CASE storage[m] = "freed"
      BY <3>1, <3>2
    <3>3. CASE storage[m] # "freed"
      <4>1. storage[m] = "dropped" /\ Last(chain[m]) \notin limbo
        BY <1>1, <2>1, <3>1, <3>3 DEF ThreadOK
      <4>2. Doomed(Last(chain[m]))
        BY <1>1, <2>0, <4>1 DEF IInv, MemOK
      <4>3. PICK u \in Threads : Last(chain[m]) \in thr[u].doomed
        BY <4>2 DEF Doomed
      <4>4. u # t /\ ThreadOK(u)
        BY <1>1, <3>1, <4>3 DEF IInv
      <4>5. thr[u].pc # "idle"
        BY <4>3, <4>4 DEF ThreadOK
      <4>. QED BY <3>1, <4>4, <4>5
    <3>. QED BY <3>2, <3>3
  <2>3. CASE RotateStore
    <3>1. thr[t].pc \in {"collect", "destroy"}
      BY <1>1, <2>0, <2>1, Fields DEF ThreadOK
    <3>2. thr["main"].pc = "store" /\ \A u \in Threads \ {"main"} : thr'[u] = thr[u]
      BY <2>0, <2>3 DEF RotateStore, At, Threads
    <3>. QED BY <1>1, <3>1, <3>2
  <2>4. CASE UNCHANGED thr
    BY <1>1, <2>4
  <2>6. CASE SetCounter \/ RotateLoad \/ (\E k \in Mems, s \in Sends, c \in Consumers : Share(k, s, c))
    <3>1. thr'[t] # thr[t] => t = "main" /\ thr'[t].pc \in {"counter", "rotate", "store"}
      <4>1. ASSUME SetCounter \/ RotateLoad
            PROVE  thr'["main"].pc \in {"counter", "rotate", "store"} /\ thr'["other"] = thr["other"]
        BY <2>0, <4>1 DEF SetCounter, RotateLoad, Threads, ThreadRecord
      <4>2. ASSUME NEW k \in Mems, NEW s \in Sends, NEW c \in Consumers, Share(k, s, c)
            PROVE  thr'["main"].pc \in {"counter", "rotate", "store"} /\ thr'["other"] = thr["other"]
        <5>1. thr' = [thr EXCEPT !["main"] = [@ EXCEPT !.pc = "counter", !.m = k, !.s = s, !.c = c]]
          BY <4>2 DEF Share
        <5>. QED BY <2>0, <5>1 DEF Threads, ThreadRecord
      <4>. QED BY <2>6, <4>1, <4>2 DEF Threads
    <3>. QED BY <1>1, <3>1
  <2>7. ASSUME NEW u \in Threads, u # t, Return(u) PROVE FALSE
    BY <1>1, <2>0, <2>7 DEF Return
  <2>8. ASSUME NEW u \in Threads, MusaIPCCollect(u) \/ Collect(u) PROVE FALSE
    <3>1. thr'[t] # thr[t] => thr'[t].pc \in {"collect", "destroy"}
      BY <2>0, <2>8 DEF MusaIPCCollect, Collect, ThreadRecord
    <3>. QED BY <1>1, <3>1
  <2>9. ASSUME NEW u \in Threads, NEW s, NEW rest, Delete(u, s, rest) PROVE FALSE
    <3>1. thr'[t] # thr[t] => thr'[t].pc = "collect"
      BY <2>0, <2>9 DEF Delete, ThreadRecord
    <3>. QED BY <1>1, <3>1
  <2>10. ASSUME NEW u \in Threads, NEW k \in Mems, Drop(u, k) PROVE FALSE
    BY <1>1, <2>4, <2>9, <2>10 DEF Drop
  <2>11. ASSUME NEW u \in Threads, NEW s \in Sends, Destroy(u, s) PROVE FALSE
    <3>1. CASE Front(chain[sent[s].mem]) = <<>>
      <4>1. thr' = [thr EXCEPT ![u].doomed = thr[u].doomed \ {s}]
        BY <2>11, <3>1 DEF Destroy
      <4>2. thr'[t].pc = thr[t].pc
        BY <2>0, <4>1 DEF ThreadRecord
      <4>. QED BY <1>1, <4>2
    <3>2. CASE Front(chain[sent[s].mem]) # <<>>
      BY <2>9, <2>11, <3>2 DEF Destroy
    <3>. QED BY <3>1, <3>2
  <2>. QED BY <1>1, <2>2, <2>3, <2>4, <2>6, <2>7, <2>8, <2>10, <2>11
       DEF Next, vars, Crash, Exit, ReceiveAgain, Receive, Launch, Complete, Forget, EraseEntry,
           CloseHandle, Release, Die, producerVars
<1>2. IInv /\ [Next]_vars =>
        \A t \in Threads : thr[t].pc # "idle" /\ thr'[t].pc = "idle" =>
          \A m \in thr[t].due :
            \/ storage'[m] = "freed"
            \/ \E u \in Threads \ {t} : thr'[u].pc # "idle"
  BY <1>1
<1>. QED BY Invariance, <1>2, PTL DEF Spec, CollectFrees

(***************************************************************************)
(* The refinement of LeasedMemory.                                         *)
(***************************************************************************)
Live == {m \in Mems : storage[m] = "live"}
Freed == {m \in Mems : storage[m] = "freed"}

Loans == {<<s, sent[s].mem>> : s \in {u \in Sends : Borrowed(u)}}

\* A send is lent exactly while it is borrowed: its kernels are pending only then.
LEMMA LentBorrowed ==
  ASSUME IInv
  PROVE  /\ Lent = Loans
         /\ \A s \in Sends, m \in Mems : <<s, m>> \in Lent <=> Borrowed(s) /\ sent[s].mem = m
<1>1. busy \subseteq Sends
  BY DEF IInv, RecordsOK
<1>2. \A s \in busy : Borrowed(s)
  BY <1>1 DEF IInv, SendOK, Borrowed
<1>3. Lent = Loans
  BY <1>1, <1>2 DEF Lent, Loans, Borrowed
<1>. QED BY <1>3 DEF Loans

\* What is borrowed is in the chain around its memory, and its counter is 1.
LEMMA BorrowedInChain ==
  ASSUME IInv, NEW s \in Sends, Borrowed(s)
  PROVE  /\ sent[s].mem \in Mems /\ sent[s].counter = 1
         /\ \E i \in DOMAIN chain[sent[s].mem] : chain[sent[s].mem][i] = s
<1>1. SendOK(s) /\ sent[s].mem \in Mems \cup {NoSend}
  BY TypesHold, Fields DEF IInv
<1>. QED BY <1>1 DEF SendOK, Borrowed

\* The steps of a consumer end loans, and begin none.
LEMMA ConsumerRefines ==
  ASSUME IInv, IInv', ConsumerFrame
  PROVE  Leases!Next
<1>1. Live' = Live /\ Freed' = Freed
  BY DEF ConsumerFrame, producerVars, Live, Freed
<1>2. Lent = Loans /\ Lent' = Loans'
  <2>1. (IInv => Lent = Loans)'
    BY LentBorrowed, PTL
  <2>. QED BY <2>1, LentBorrowed
<1>3. Lent' \subseteq Lent
  <2>1. \A s \in Sends : Borrowed(s)' => Borrowed(s) /\ sent'[s].mem = sent[s].mem
    BY DEF ConsumerFrame, Borrowed
  <2>. QED BY <1>2, <2>1 DEF Loans
<1>4. PICK ls \in SUBSET Lent : Lent' = Lent \ ls
  <2>1. Lent' = Lent \ (Lent \ Lent')
    BY <1>3
  <2>. QED BY <2>1
<1>5. Leases!End(ls)
  BY <1>1, <1>4 DEF Leases!End, Live, Freed
<1>. QED BY <1>5 DEF Leases!Next

LEMMA ProducerRefines ==
  ASSUME IInv, IInv', ProducerStep
  PROVE  Leases!Next \/ UNCHANGED Leases!vars
<1>0. /\ Types /\ storage \in [Mems -> {"live", "dropped", "freed"}] /\ sent \in [Sends -> SendRecord]
      /\ recv \in [Sends -> Receipts]
  BY TypesHold DEF Types, RecordsOK
<1>1. ASSUME UNCHANGED <<storage, sent, recv, busy, aside>> PROVE UNCHANGED Leases!vars
  BY <1>1 DEF Leases!vars, Lent
<1>2. ASSUME SetCounter PROVE UNCHANGED Leases!vars
  <2>1. PICK s \in Sends : s = thr["main"].s
    BY <1>2 DEF SetCounter, IInv, SharingOK, Sharing, At
  <2>2. recv[s] = "none" /\ s \notin busy
    BY <1>2, <2>1 DEF SetCounter, IInv, SharingOK, Sharing, At, SendOK
  <2>3. UNCHANGED <<storage, recv, busy, aside>> /\ \A u \in Sends \ {s} : sent'[u] = sent[u]
    BY <1>0, <1>2, <2>1 DEF SetCounter, consumerVars
  <2>4. busy \subseteq Sends
    BY DEF IInv, RecordsOK
  <2>5. /\ {<<u, sent[u].mem>> : u \in busy}' = {<<u, sent[u].mem>> : u \in busy}
        /\ {<<u, sent[u].mem>> : u \in
              {v \in Sends : recv[v] \in {"sent", "held", "expired", "close", "sync"}}}' =
           {<<u, sent[u].mem>> : u \in
              {v \in Sends : recv[v] \in {"sent", "held", "expired", "close", "sync"}}}
    BY <2>2, <2>3, <2>4
  <2>6. Lent' = Lent
    BY <2>5 DEF Lent
  <2>. QED BY <2>3, <2>6 DEF Leases!vars
<1>3. ASSUME RotateStore PROVE Leases!Next
  <2>1. PICK m \in Mems, s \in Sends : m = thr["main"].m /\ s = thr["main"].s
    BY <1>3 DEF RotateStore, IInv, SharingOK, Sharing, At
  <2>2. storage[m] = "live" /\ sent[s].mem = m
    BY <1>3, <2>1 DEF RotateStore, IInv, SharingOK, Sharing, At
  <2>3. UNCHANGED <<storage, sent>> /\ recv' = [recv EXCEPT ![s] = "sent"]
    BY <1>3, <2>1 DEF RotateStore
  <2>4. \A u \in Sends : Borrowed(u)' <=> Borrowed(u) \/ u = s
    BY <1>0, <2>3 DEF Borrowed
  <2>5. Lent' = Lent \cup {<<s, m>>}
    <3>1. (IInv => Lent = Loans)'
      BY LentBorrowed, PTL
    <3>2. Lent' = {<<u, sent[u].mem>> : u \in {v \in Sends : Borrowed(v) \/ v = s}}
      BY <2>3, <2>4, <3>1 DEF Loans
    <3>3. Lent = {<<u, sent[u].mem>> : u \in {v \in Sends : Borrowed(v)}}
      BY LentBorrowed DEF Loans
    <3>. QED BY <2>2, <3>2, <3>3
  <2>6. Leases!Lend(m, s)
    BY <2>2, <2>3, <2>5 DEF Leases!Lend
  <2>. QED BY <2>6 DEF Leases!Next
<1>4. ASSUME NEW t \in Threads, NEW m \in Mems, Drop(t, m) PROVE Leases!Next
  <2>1. UNCHANGED <<sent, recv, busy, aside>> /\ storage[m] = "live"
    BY <1>4 DEF Drop, consumerVars
  <2>2. Lent' = Lent
    BY <2>1 DEF Lent
  <2>3. CASE chain[m] = <<>>
    <3>1. storage' = [storage EXCEPT ![m] = "freed"]
      BY <1>4, <2>3 DEF Drop
    <3>2. Live' = Live \ {m} /\ Freed' = Freed \cup {m} /\ m \in Live
      BY <1>0, <2>1, <3>1 DEF Live, Freed
    <3>3. \A s \in Sends : <<s, m>> \notin Lent
      BY <2>3, LentBorrowed, BorrowedInChain
    <3>4. Leases!LetGoUnlent(m)
      BY <2>2, <3>2, <3>3 DEF Leases!LetGoUnlent, Live, Freed
    <3>. QED BY <3>4 DEF Leases!Next
  <2>4. CASE chain[m] # <<>>
    <3>1. storage' = [storage EXCEPT ![m] = "dropped"]
      BY <1>4, <2>4 DEF Drop
    <3>2. Live' = Live \ {m} /\ Freed' = Freed /\ m \in Live
      BY <1>0, <2>1, <3>1 DEF Live, Freed
    <3>3. Leases!LetGo(m)
      BY <2>2, <3>2 DEF Leases!LetGo, Live, Freed
    <3>. QED BY <3>3 DEF Leases!Next
  <2>. QED BY <2>3, <2>4
<1>5. ASSUME NEW t \in Threads, NEW a \in Sends, Destroy(t, a)
      PROVE  Leases!Next \/ UNCHANGED Leases!vars
  <2>1. UNCHANGED <<sent, recv, busy, aside>>
    BY <1>5 DEF Destroy, consumerVars
  <2>2. Lent' = Lent
    BY <2>1 DEF Lent
  <2>3. PICK m \in Mems : /\ m = sent[a].mem /\ storage[m] = "dropped" /\ chain[m] # <<>>
                          /\ a = Last(chain[m]) /\ sent[a].counter = 0
    BY <1>5, DestroyEffect
  <2>4. CASE Front(chain[m]) = <<>>
    <3>1. storage' = [storage EXCEPT ![m] = "freed"]
      BY <1>5, <2>3, <2>4 DEF Destroy
    <3>2. Live' = Live /\ Freed' = Freed \cup {m} /\ m \notin Live
      BY <1>0, <2>3, <3>1 DEF Live, Freed
    <3>3. ASSUME NEW s \in Sends, <<s, m>> \in Lent PROVE FALSE
      <4>1. Borrowed(s) /\ sent[s].mem = m
        BY <3>3, LentBorrowed
      <4>2. PICK i \in DOMAIN chain[m] : chain[m][i] = s
        BY <4>1, BorrowedInChain
      <4>3. chain[m] \in Seq(Sends) /\ DOMAIN chain[m] = 1 .. Len(chain[m]) /\ Last(chain[m]) = chain[m][Len(chain[m])]
        BY <2>3, Chains
      <4>4. Len(chain[m]) = 1
        BY <2>3, <2>4, <4>3, FrontLast
      <4>5. s = a
        <5>1. i \in 1 .. 1
          BY <4>2, <4>3, <4>4
        <5>2. i = 1
          BY <5>1
        <5>. QED BY <2>3, <4>2, <4>3, <4>4, <5>2
      <4>. QED BY <2>3, <4>1, <4>5, BorrowedInChain
    <3>4. Leases!Reclaim(m)
      BY <2>2, <3>2, <3>3 DEF Leases!Reclaim, Live, Freed
    <3>. QED BY <3>4 DEF Leases!Next
  <2>5. CASE Front(chain[m]) # <<>>
    <3>1. storage' = storage
      BY <1>5, <2>3, <2>5 DEF Destroy
    <3>. QED BY <1>1, <2>1, <3>1
  <2>. QED BY <2>4, <2>5
<1>. QED BY <1>1, <1>2, <1>3, <1>4, <1>5
     DEF ProducerStep, Share, RotateLoad, Crash, Exit, MusaIPCCollect, Collect, Return, consumerVars

\* Reference counters, files, chains and limbo implement LeasedMemory: memory is freed
\* only when the producer has dropped it, every consumer has given it up, and the kernels
\* on the stream that its deleter synchronized have completed.
THEOREM Refinement == Spec => Implements
<1>1. Init => Leases!Init
  BY DEF Init, Leases!Init, Lent
<1>2. ASSUME IInv, [Next]_vars PROVE Leases!Next \/ UNCHANGED Leases!vars
  <2>1. IInv'
    BY <1>2, NextInv
  <2>2. CASE ProducerStep
    BY <1>2, <2>1, <2>2, ProducerRefines
  <2>3. ASSUME NEW s \in Sends,
               \/ ReceiveAgain(s) \/ Receive(s) \/ Launch(s) \/ Complete(s)
               \/ Forget(s) \/ EraseEntry(s) \/ CloseHandle(s) \/ Release(s)
        PROVE  Leases!Next
    BY <1>2, <2>1, <2>3, ConsumerStep, ConsumerRefines
  <2>4. ASSUME NEW c \in Consumers, Die(c) PROVE Leases!Next
    BY <1>2, <2>1, <2>4, DieStep, ConsumerRefines
  <2>5. CASE UNCHANGED vars
    BY <2>5 DEF vars, Leases!vars, Lent
  <2>. QED BY <1>2, <2>2, <2>3, <2>4, <2>5 DEF Next, ProducerStep
<1>3. IInv /\ [Next]_vars => [Leases!Next]_(Leases!vars)
  BY <1>2
<1>. QED BY Invariance, <1>1, <1>3, PTL DEF Spec, Implements, Leases!Spec

=============================================================================
