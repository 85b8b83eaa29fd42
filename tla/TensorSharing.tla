---------------------------- MODULE TensorSharing ----------------------------
(***************************************************************************)
(* Tensors shared between processes: a producer sends storages to          *)
(* consumers, which map the memory through an IPC handle.  Each send has a *)
(* reference counter in a file of shared memory, set to 1 by the producer  *)
(* and decremented by the consumer; sent data that the producer drops too  *)
(* early waits in limbo.                                                   *)
(*                                                                         *)
(* Sending a storage again wraps its data pointer once more: chain[m] are  *)
(* the sent data around the memory m, the outermost last.  All memory is   *)
(* in one segment, so it has one IPC handle.  Two threads of the producer  *)
(* drop storages and collect; "main" also sends.  The order in which a     *)
(* thread destroys what it has collected is left open.                     *)
(*                                                                         *)
(* A consumer launches kernels on several streams.  The deleter of the     *)
(* storage synchronizes one, which is current in the thread that runs it;  *)
(* recordStream skips memory of another process.  busy are the sends with  *)
(* kernels on that stream, aside those with kernels on others.             *)
(***************************************************************************)
EXTENDS Integers, FiniteSets, SequencesExt

CONSTANTS
  Mems,       \* the storages of the producer
  Sends,      \* the MusaIPCSentData it makes
  Consumers,  \* the processes it sends to
  Files,      \* the files of reference counters
  FileSize,   \* MUSA_IPC_REF_COUNTER_FILE_SIZE
  NoSend, NoFile,
  Overlaps,   \* may the other thread run while main is in _share_musa_?
  MaxKernels  \* bound: pending kernels, in programs whose threads overlap and in others

ASSUME TensorSharingConstants ==
  /\ NoSend \notin Sends \cup Mems \cup Consumers /\ NoFile \notin Files
  /\ IsFiniteSet(Sends) /\ FileSize \in Nat \ {0}
  /\ Overlaps \subseteq BOOLEAN /\ MaxKernels \in [BOOLEAN -> Nat]

Threads == {"main", "other"}

VARIABLES
  overlap,   \* whether the threads of this program overlap
  storage,   \* "live" while the producer holds it, "dropped", "freed"
  chain,     \* the sent data around each memory
  sent,      \* of each send: memory, file, counter
  files,     \* ref_counters_files_: next_offset_, used_slots_, is it in the map
  current,   \* next_available_ref_counters_file_
  limbo,     \* MusaIPCSentDataLimbo_
  thr,       \* the threads of the producer; doomed is what a thread will destroy
  producer,  \* "running", "exited", "crashed"
  recv,      \* what became of each send in its consumer
  busy,      \* the sends with a kernel pending on the stream of their deleter
  aside,     \* the sends with a kernel pending on another stream
  cache,     \* ipcMemHandle_to_devptr of each consumer: is there an entry, the
             \* owners of its pointer, how often the handle is open
  dead       \* the consumers that have died

vars == <<overlap, storage, chain, sent, files, current, limbo, thr, producer,
          recv, busy, aside, cache, dead>>
producerVars == <<overlap, storage, chain, files, current, limbo, thr, producer>>
consumerVars == <<recv, busy, aside, cache, dead>>

Idle == [pc |-> "idle", doomed |-> {}, collect |-> FALSE, due |-> {},
         s |-> NoSend, m |-> NoSend, c |-> NoSend, used |-> 0]

Init ==
  /\ overlap \in Overlaps
  /\ storage = [m \in Mems |-> "live"]
  /\ chain = [m \in Mems |-> <<>>]
  /\ sent = [s \in Sends |-> [mem |-> NoSend, to |-> NoSend, file |-> NoFile, counter |-> 0]]
  /\ files = [f \in Files |-> [next |-> 0, used |-> 0, inMap |-> FALSE, made |-> FALSE]]
  /\ current = NoFile
  /\ limbo = {}
  /\ thr = [t \in Threads |-> Idle]
  /\ producer = "running"
  /\ recv = [s \in Sends |-> "none"]
  /\ busy = {} /\ aside = {}
  /\ cache = [c \in Consumers |-> [entry |-> FALSE, owners |-> 0, open |-> 0]]
  /\ dead = {}

\* The shared memory of a file: the map or next_available_ref_counters_file_
\* holds it.
Mapped(f) == files[f].inMap \/ current = f
Readable(s) == Mapped(sent[s].file)

----------------------------------------------------------------------------
(* The producer: _share_musa_ *)

Sharing == thr["main"].pc \in {"counter", "rotate", "store"}

At(t, pc) ==
  /\ producer = "running" /\ thr[t].pc = pc
  /\ t = "other" /\ ~overlap => ~Sharing
\* GetNewRefCountedSentData, with ref_counters_mutex_: a file is made if there is
\* none with a free slot.
Share(m, s, c) ==
  /\ At("main", "idle") /\ (overlap \/ thr["other"].pc = "idle")
  /\ storage[m] = "live" /\ sent[s].mem = NoSend /\ c \notin dead
  /\ \/ current # NoFile /\ UNCHANGED <<files, current>>
     \/ \E f \in Files :
          /\ current = NoFile /\ ~files[f].made
          /\ files' = [files EXCEPT ![f] = [@ EXCEPT !.inMap = TRUE, !.made = TRUE]]
          /\ current' = f
  /\ thr' = [thr EXCEPT !["main"] = [@ EXCEPT !.pc = "counter", !.m = m, !.s = s, !.c = c]]
  /\ UNCHANGED <<overlap, storage, chain, sent, limbo, producer, consumerVars>>

\* Without the mutex: set_counter(1), and the sent data with the file, its slot
\* and the pointer to the counter.  Its constructor synchronizes the stream.
SetCounter ==
  /\ At("main", "counter") /\ current # NoFile
  /\ sent' = [sent EXCEPT ![thr["main"].s] =
       [mem |-> thr["main"].m, to |-> thr["main"].c, file |-> current, counter |-> 1]]
  /\ thr' = [thr EXCEPT !["main"].pc = "rotate"]
  /\ UNCHANGED <<overlap, storage, chain, files, current, limbo, producer, consumerVars>>

\* rotate_offset loads used_slots_ ...
RotateLoad ==
  /\ At("main", "rotate") /\ current # NoFile
  /\ files' = [files EXCEPT ![current].next = @ + 1]
  /\ thr' = [thr EXCEPT !["main"] = [@ EXCEPT !.pc = "store", !.used = files[current].used]]
  /\ UNCHANGED <<overlap, storage, chain, sent, current, limbo, producer, consumerVars>>

\* The values of used_slots_ after the increment: when the other thread has
\* returned a slot in the meantime, either update may be lost.
Incremented(loaded, now) == IF now = loaded THEN {loaded + 1} ELSE {loaded + 1, now, now + 1}

\* ... and stores it.  A full file is no longer the next available one.  Then the
\* storage gets the new data pointer, and the message is sent.
RotateStore ==
  /\ At("main", "store") /\ current # NoFile
  /\ \E n \in Incremented(thr["main"].used, files[current].used) :
       files' = [files EXCEPT ![current].used = n]
  /\ current' = IF files[current].next < FileSize THEN current ELSE NoFile
  /\ chain' = [chain EXCEPT ![thr["main"].m] = Append(@, thr["main"].s)]
  /\ recv' = [recv EXCEPT ![thr["main"].s] = "sent"]
  /\ thr' = [thr EXCEPT !["main"] = Idle]
  /\ UNCHANGED <<overlap, storage, sent, limbo, producer, busy, aside, cache, dead>>

----------------------------------------------------------------------------
(* The producer: dropping and collecting *)

\* MusaIPCSentDataDelete: sent data in use by its consumer goes to limbo, other
\* sent data is destroyed after the collection.  The counter is in the file.
Delete(t, s, rest) ==
  /\ limbo' = IF sent[s].counter > 0 THEN limbo \union {s} ELSE limbo
  /\ thr' = [thr EXCEPT ![t] =
       [@ EXCEPT !.pc = "collect",
                 !.doomed = IF sent[s].counter > 0 THEN rest ELSE rest \union {s}]]

\* The last reference to a storage goes.
Drop(t, m) ==
  /\ At(t, "idle") /\ storage[m] = "live" /\ (Sharing => thr["main"].m # m)
  /\ IF chain[m] = <<>>
       THEN storage' = [storage EXCEPT ![m] = "freed"] /\ UNCHANGED <<limbo, thr>>
       ELSE /\ Readable(Last(chain[m]))
            /\ storage' = [storage EXCEPT ![m] = "dropped"]
            /\ Delete(t, Last(chain[m]), {})
  /\ UNCHANGED <<overlap, chain, sent, files, current, producer, consumerVars>>

\* The memory that a collection which begins now will free.
Due == {m \in Mems : storage[m] = "dropped" /\ \A i \in DOMAIN chain[m] : sent[chain[m][i]].counter = 0}

\* MusaIPCCollect, of the program or as FreeMemoryCallback of the allocator.
MusaIPCCollect(t) ==
  /\ At(t, "idle")
  /\ thr' = [thr EXCEPT ![t] = [@ EXCEPT !.pc = "collect", !.collect = TRUE, !.due = Due]]
  /\ UNCHANGED <<overlap, storage, chain, sent, files, current, limbo, producer, consumerVars>>

\* The sent data in limbo that its consumer does not use any more.
Unused == {s \in limbo : sent[s].counter = 0}

\* A variant for mutation: the blocks to be freed stay in limbo.
Collect_Kept(t) ==
  /\ At(t, "collect")
  /\ \A s \in limbo : Readable(s)
  /\ thr' = [thr EXCEPT ![t] = [@ EXCEPT !.pc = "destroy", !.doomed = thr[t].doomed \union Unused]]
  /\ UNCHANGED <<overlap, storage, chain, sent, files, current, limbo, producer, consumerVars>>

\* A variant for mutation: the search ends at a block that is still in use.
Collect_Some(t) ==
  /\ At(t, "collect")
  /\ \A s \in limbo : Readable(s)
  /\ \E found \in SUBSET Unused :
       /\ limbo = Unused => found = Unused
       /\ limbo' = limbo \ found
       /\ thr' = [thr EXCEPT ![t] = [@ EXCEPT !.pc = "destroy", !.doomed = thr[t].doomed \union found]]
  /\ UNCHANGED <<overlap, storage, chain, sent, files, current, producer, consumerVars>>

\* MusaIPCSentDataLimbo::collect, with limbo_mutex_.
Collect(t) ==
  /\ At(t, "collect")
  /\ \A s \in limbo : Readable(s)
  /\ limbo' = limbo \ Unused
  /\ thr' = [thr EXCEPT ![t] = [@ EXCEPT !.pc = "destroy", !.doomed = thr[t].doomed \union Unused]]
  /\ UNCHANGED <<overlap, storage, chain, sent, files, current, producer, consumerVars>>

\* ReturnRefCounter, with ref_counters_mutex_: a full file that is not used any
\* more goes.
ReturnRefCounter(f) ==
  IF files[f].inMap
    THEN files' = [files EXCEPT ![f] =
           [@ EXCEPT !.used = files[f].used - 1,
                     !.inMap = ~(files[f].used = 1 /\ files[f].next >= FileSize)]]
    ELSE UNCHANGED files

\* The destructor of sent data gives back its slot, then what it was wrapped
\* around: sent data of an earlier send, or the memory itself.
Destroy(t, s) ==
  LET m == sent[s].mem
      inner == Front(chain[m])
      rest == thr[t].doomed \ {s}
  IN /\ At(t, "destroy") /\ s \in thr[t].doomed
     /\ ReturnRefCounter(sent[s].file)
     /\ chain' = [chain EXCEPT ![m] = inner]
     /\ IF inner = <<>>
          THEN /\ storage' = [storage EXCEPT ![m] = "freed"]
               /\ thr' = [thr EXCEPT ![t].doomed = rest]
               /\ UNCHANGED limbo
          ELSE /\ Readable(Last(inner))
               /\ Delete(t, Last(inner), rest)
               /\ UNCHANGED storage
     /\ UNCHANGED <<overlap, sent, current, producer, consumerVars>>

\* A variant for mutation: the file goes although its counters are in use.
Clean_InUse ==
  IF limbo = {} /\ current # NoFile
    THEN /\ files' = [files EXCEPT ![current].inMap = FALSE]
         /\ current' = NoFile
    ELSE UNCHANGED <<files, current>>

\* safe_clean_current_file, after MusaIPCCollect has found limbo empty.
Clean ==
  IF limbo = {} /\ current # NoFile /\ files[current].used = 0
    THEN /\ files' = [files EXCEPT ![current].inMap = FALSE]
         /\ current' = NoFile
    ELSE UNCHANGED <<files, current>>

Return(t) ==
  /\ At(t, "destroy") /\ thr[t].doomed = {}
  /\ IF thr[t].collect THEN Clean ELSE UNCHANGED <<files, current>>
  /\ thr' = [thr EXCEPT ![t] = Idle]
  /\ UNCHANGED <<overlap, storage, chain, sent, limbo, producer, consumerVars>>

\* The null next_available_ref_counters_file_ is used, or a counter in a file
\* that is not mapped any more is read.
Crash ==
  /\ producer = "running"
  /\ \/ Sharing /\ current = NoFile
     \/ \E m \in Mems : storage[m] # "freed" /\ chain[m] # <<>> /\ ~Readable(Last(chain[m]))
  /\ producer' = "crashed"
  /\ UNCHANGED <<overlap, storage, chain, sent, files, current, limbo, thr, consumerVars>>

\* The producer ends: its files of counters are gone.
Exit ==
  /\ \A t \in Threads : At(t, "idle")
  /\ producer' = "exited"
  /\ UNCHANGED <<overlap, storage, chain, sent, files, current, limbo, thr, consumerVars>>

----------------------------------------------------------------------------
(* The consumers *)

To(s) == sent[s].to
Held(c) == {s \in Sends : recv[s] = "held" /\ To(s) = c}

\* "*(...) -= 1" on the counter; when the file cannot be opened the exception is
\* swallowed.
Decrement(s) ==
  /\ sent' = IF producer = "running" /\ Mapped(sent[s].file)
             THEN [sent EXCEPT ![s].counter = @ - 1] ELSE sent
  /\ recv' = [recv EXCEPT ![s] = "done"]

\* A message for a storage the consumer has: _release_ipc_counter_musa.
ReceiveAgain(s) ==
  /\ recv[s] = "sent" /\ To(s) \notin dead /\ \E h \in Held(To(s)) : sent[h].mem = sent[s].mem
  /\ Decrement(s)
  /\ UNCHANGED <<producerVars, busy, aside, cache, dead>>

\* _new_shared_musa, getIpcDevPtr with IpcMutex: the cached pointer is shared, or
\* the handle opened.  The assertion on the weak pointer fails when its last owner
\* has gone, but has not erased the entry yet: the message is lost.
Receive(s) ==
  /\ recv[s] = "sent" /\ To(s) \notin dead /\ \A h \in Held(To(s)) : sent[h].mem # sent[s].mem
  /\ IF cache[To(s)].entry /\ cache[To(s)].owners = 0
       THEN recv' = [recv EXCEPT ![s] = "asserted"] /\ UNCHANGED cache
       ELSE /\ recv' = [recv EXCEPT ![s] = "held"]
            /\ cache' = [cache EXCEPT ![To(s)] =
                 [entry |-> TRUE, owners |-> @.owners + 1,
                  open |-> IF @.entry THEN @.open ELSE @.open + 1]]
  /\ UNCHANGED <<producerVars, sent, busy, aside, dead>>

\* The consumer uses the memory, on the stream of its deleter or on another.
Launch(s) ==
  /\ recv[s] = "held" /\ Cardinality(busy) + Cardinality(aside) < MaxKernels[overlap]
  /\ \/ s \notin busy /\ busy' = busy \union {s} /\ UNCHANGED aside
     \/ s \notin aside /\ aside' = aside \union {s} /\ UNCHANGED busy
  /\ UNCHANGED <<producerVars, sent, recv, cache, dead>>

Complete(s) ==
  /\ \/ s \in busy /\ busy' = busy \ {s} /\ UNCHANGED aside
     \/ s \in aside /\ aside' = aside \ {s} /\ UNCHANGED busy
  /\ UNCHANGED <<producerVars, sent, recv, cache, dead>>

\* The deleter of the storage: the pointer loses an owner ...
Forget(s) ==
  /\ recv[s] = "held"
  /\ cache' = [cache EXCEPT ![To(s)].owners = @ - 1]
  /\ recv' = [recv EXCEPT ![s] = IF cache[To(s)].owners = 1 THEN "expired" ELSE "sync"]
  /\ UNCHANGED <<producerVars, sent, busy, aside, dead>>

\* ... and the last owner erases the entry with IpcMutex, and closes the handle
\* without it ...
EraseEntry(s) ==
  /\ recv[s] = "expired"
  /\ cache' = [cache EXCEPT ![To(s)].entry = FALSE]
  /\ recv' = [recv EXCEPT ![s] = "close"]
  /\ UNCHANGED <<producerVars, sent, busy, aside, dead>>

CloseHandle(s) ==
  /\ recv[s] = "close"
  /\ cache' = [cache EXCEPT ![To(s)].open = @ - 1]
  /\ recv' = [recv EXCEPT ![s] = "sync"]
  /\ UNCHANGED <<producerVars, sent, busy, aside, dead>>

\* A variant for mutation: the stream is not synchronized.
Release_NoSync(s) ==
  /\ recv[s] = "sync"
  /\ Decrement(s)
  /\ UNCHANGED <<producerVars, busy, aside, cache, dead>>

\* ... and the counter is decremented after one stream is synchronized; kernels on
\* other streams may still run.
Release(s) ==
  /\ recv[s] = "sync" /\ s \notin busy
  /\ Decrement(s)
  /\ UNCHANGED <<producerVars, busy, aside, cache, dead>>

\* A consumer dies: it decrements nothing any more.
Die(c) ==
  /\ c \notin dead
  /\ dead' = dead \union {c}
  /\ recv' = [s \in Sends |-> IF recv[s] \notin {"none", "done"} /\ To(s) = c THEN "lost" ELSE recv[s]]
  /\ busy' = {s \in busy : To(s) # c} /\ aside' = {s \in aside : To(s) # c}
  /\ cache' = [cache EXCEPT ![c] = [entry |-> FALSE, owners |-> 0, open |-> 0]]
  /\ UNCHANGED <<producerVars, sent>>

----------------------------------------------------------------------------
Next ==
  \/ \E m \in Mems, s \in Sends, c \in Consumers : Share(m, s, c)
  \/ SetCounter \/ RotateLoad \/ RotateStore \/ Crash \/ Exit
  \/ \E t \in Threads : \/ MusaIPCCollect(t) \/ Collect(t) \/ Return(t)
                        \/ \E s \in Sends : Destroy(t, s)
                        \/ \E m \in Mems : Drop(t, m)
  \/ \E s \in Sends : \/ ReceiveAgain(s) \/ Receive(s) \/ Launch(s) \/ Complete(s)
                      \/ Forget(s) \/ EraseEntry(s) \/ CloseHandle(s) \/ Release(s)
  \/ \E c \in Consumers : Die(c)

Spec == Init /\ [][Next]_vars

----------------------------------------------------------------------------
(* Properties *)

\* Types.  When the threads overlap, updates of used_slots_ may be lost, and it may
\* fall below 0 (it wraps around: only 0 is told from other values).
TypeOK ==
  /\ storage \in [Mems -> {"live", "dropped", "freed"}]
  /\ \A m \in Mems : chain[m] \in Seq(Sends)
  /\ \A s \in Sends : sent[s].counter \in 0 .. 1
  /\ \A f \in Files : files[f].next \in 0 .. FileSize /\ files[f].used \in Int
  /\ limbo \subseteq Sends /\ \A t \in Threads : thr[t].doomed \subseteq Sends
  /\ recv \in [Sends -> {"none", "sent", "held", "asserted", "expired", "close", "sync", "done", "lost"}]
  /\ \A c \in Consumers : cache[c].owners \in Nat /\ cache[c].open \in Nat

\* A send is a loan from the moment the message exists until the consumer has
\* given up the storage, and its kernels on the stream of the deleter have completed.
\* Kernels on other streams are not part of it: the deleter does not wait for them.
Lent ==
  {<<s, sent[s].mem>> : s \in {u \in Sends : recv[u] \in {"sent", "held", "expired", "close", "sync"}}}
  \union {<<s, sent[s].mem>> : s \in busy}

\* Counters, files and limbo implement the promise of LeasedMemory: the memory of
\* a storage is freed only when the producer has dropped it and every loan of it has
\* ended.
Leases == INSTANCE LeasedMemory WITH
  Loans <- Sends, lent <- Lent,
  owned <- {m \in Mems : storage[m] = "live"},
  reclaimed <- {m \in Mems : storage[m] = "freed"}

Implements == Leases!Spec

\* The counters "guarantee tensors won't be accidentally freed by one process while
\* they are still being used in another": no kernel of a consumer is pending on
\* memory that the producer has freed.  It is why recordStream skips such memory.
NotFreedWhileUsed == \A s \in busy \union aside : storage[sent[s].mem] # "freed"

\* The sent data that has not been destroyed.
Alive == {s \in Sends : \E m \in Mems : s \in Range(chain[m])}

\* While main sends without the other thread running, the counter of sent data is
\* never read from an unmapped file, and used_slots_ is the number of its users.
CountersMapped ==
  ~overlap =>
    /\ producer # "crashed"
    /\ \A s \in Alive : Mapped(sent[s].file)
    /\ \A f \in Files : files[f].inMap /\ ~Sharing =>
         files[f].used = Cardinality({s \in Alive : sent[s].file = f})

\* Those who will destroy sent data: limbo, and the threads.
Keepers == Threads \union {"limbo"}
Owners(s) == {o \in Keepers : s \in IF o = "limbo" THEN limbo ELSE thr[o].doomed}

\* Dropped memory that is not freed has exactly one owner, limbo or a thread that
\* destroys it: nothing is freed twice, and nothing is forgotten.
OwnedOnce ==
  producer = "running" =>
    \A m \in Mems : storage[m] = "dropped" => \E o \in Keepers : Owners(Last(chain[m])) = {o}

\* When MusaIPCCollect returns, the memory whose counters were all zero when it was
\* called has been freed, unless the other thread is about to.
CollectFrees ==
  [][\A t \in Threads : thr[t].pc # "idle" /\ thr'[t].pc = "idle" =>
       \A m \in thr[t].due :
         \/ storage'[m] = "freed"
         \/ \E u \in Threads \ {t} : thr'[u].pc # "idle"]_vars

\* The queues of the producer are consistent: limbo and the doomed of the threads
\* hold sent data only, and dropped memory once.
Bookkeeping == TypeOK /\ OwnedOnce

(***************************************************************************)
(* The inductive invariant behind the safety properties.                   *)
(***************************************************************************)
SendRecord ==
  [mem : Mems \union {NoSend}, to : Consumers \union {NoSend}, file : Files \union {NoFile},
   counter : 0 .. 1]
FileRecord == [next : 0 .. FileSize, used : Int, inMap : BOOLEAN, made : BOOLEAN]
ThreadRecord ==
  [pc : {"idle", "counter", "rotate", "store", "collect", "destroy"}, doomed : SUBSET Sends,
   collect : BOOLEAN, due : SUBSET Mems, s : Sends \union {NoSend}, m : Mems \union {NoSend},
   c : Consumers \union {NoSend}, used : Int]

\* The types TypeOK leaves out.
RecordsOK ==
  /\ overlap \in BOOLEAN /\ producer \in {"running", "exited", "crashed"}
  /\ chain \in [Mems -> Seq(Sends)] /\ sent \in [Sends -> SendRecord]
  /\ files \in [Files -> FileRecord] /\ current \in Files \union {NoFile}
  /\ thr \in [Threads -> ThreadRecord]
  /\ busy \subseteq Sends /\ aside \subseteq Sends /\ dead \subseteq Consumers
  /\ cache \in [Consumers -> [entry : BOOLEAN, owners : Nat, open : Nat]]

\* The message exists, or the consumer has the storage.
Borrowed(s) == recv[s] \in {"sent", "held", "expired", "close", "sync"}
Doomed(s) == \E t \in Threads : s \in thr[t].doomed

\* The counter of borrowed sent data is 1, and it has not been destroyed; what limbo
\* or a thread destroys next is the outermost sent data around dropped memory.
SendOK(s) ==
  /\ sent[s].mem = NoSend => recv[s] = "none"
  /\ Borrowed(s) => sent[s].counter = 1 /\ \E i \in DOMAIN chain[sent[s].mem] :
                                              chain[sent[s].mem][i] = s
  /\ s \in busy => recv[s] \in {"held", "expired", "close", "sync"}
  /\ s \in aside => recv[s] # "none"
  /\ s \in limbo \/ Doomed(s) => /\ sent[s].mem \in Mems /\ storage[sent[s].mem] = "dropped"
                                 /\ chain[sent[s].mem] # <<>> /\ s = Last(chain[sent[s].mem])
  /\ Doomed(s) => s \notin limbo /\ sent[s].counter = 0
  /\ ~(s \in thr["main"].doomed /\ s \in thr["other"].doomed)

\* The chain around memory consists of different sent data for it.
MemOK(m) ==
  /\ \A i \in DOMAIN chain[m] : /\ sent[chain[m][i]].mem = m /\ recv[chain[m][i]] # "none"
                                /\ \A j \in DOMAIN chain[m] : chain[m][i] = chain[m][j] => i = j
  /\ storage[m] = "freed" => chain[m] = <<>>
  /\ storage[m] = "dropped" =>
       chain[m] # <<>> /\ (Last(chain[m]) \in limbo \/ Doomed(Last(chain[m])))

\* What main sends is live, and is not sent data yet.
SharingOK ==
  Sharing =>
    /\ thr["main"].m \in Mems /\ storage[thr["main"].m] = "live" /\ thr["main"].c \in Consumers
    /\ thr["main"].s \in Sends /\ recv[thr["main"].s] = "none"
    /\ IF thr["main"].pc = "counter" THEN sent[thr["main"].s].mem = NoSend
       ELSE /\ sent[thr["main"].s].mem = thr["main"].m /\ To(thr["main"].s) = thr["main"].c
            /\ sent[thr["main"].s].counter = 1

\* A thread that collects has something to destroy; what was unused when it began has
\* been freed, or is not in limbo any more once it has searched it.
ThreadOK(t) ==
  /\ t = "other" => thr[t].pc \notin {"counter", "rotate", "store"}
  /\ thr[t].pc \notin {"collect", "destroy"} => thr[t].doomed = {} /\ thr[t].due = {}
  /\ \A m \in thr[t].due :
       \/ storage[m] = "freed"
       \/ /\ storage[m] = "dropped" /\ \A i \in DOMAIN chain[m] : sent[chain[m][i]].counter = 0
          /\ thr[t].pc = "destroy" => Last(chain[m]) \notin limbo

\* The sent data whose counter is in file f.
UsersOf(f) == {s \in Alive : sent[s].file = f}

\* next_available_ref_counters_file_ has a free slot, and new files are empty.
CurrentOK ==
  /\ current # NoFile =>
       files[current].made /\ (thr["main"].pc # "store" => files[current].next < FileSize)
  /\ \A f \in Files : ~files[f].made => ~files[f].inMap /\ files[f].used = 0 /\ files[f].next = 0

\* Without overlapping threads the file main works with stays, and used_slots_ is exact.
FilesOK ==
  ~overlap =>
    /\ producer # "crashed"
    /\ Sharing => current # NoFile /\ thr["other"].pc = "idle"
    /\ thr["main"].pc \in {"rotate", "store"} => sent[thr["main"].s].file = current
    /\ thr["main"].pc = "store" => thr["main"].used = files[current].used
    /\ current # NoFile => files[current].inMap
    /\ \A s \in Alive : sent[s].file \in Files /\ files[sent[s].file].inMap
    /\ \A f \in Files : files[f].inMap => files[f].used = Cardinality(UsersOf(f))

\* The cached pointer of a consumer, and how often its handle is open.
State(c, st) == {s \in Sends : recv[s] = st /\ To(s) = c}
CacheOK(c) ==
  /\ cache[c].owners = Cardinality(State(c, "held"))
  /\ cache[c].open = Cardinality(State(c, "close")) + IF cache[c].entry THEN 1 ELSE 0
  /\ cache[c].owners > 0 => cache[c].entry
  /\ \A s, u \in State(c, "expired") : s = u
  /\ State(c, "expired") # {} => cache[c].entry /\ cache[c].owners = 0

IInv ==
  /\ TypeOK /\ RecordsOK
  /\ \A s \in Sends : SendOK(s) /\ (recv[s] # "none" => To(s) \in Consumers)
  /\ \A m \in Mems : MemOK(m)
  /\ SharingOK /\ \A t \in Threads : ThreadOK(t)
  /\ CurrentOK /\ FilesOK
  /\ \A c \in Consumers : CacheOK(c)
=============================================================================
