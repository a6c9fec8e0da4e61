----------------------------- MODULE GovernedStore -----------------------------
(***************************************************************************)
(* One Heartwood store file and the processes that share it: the write,    *)
(* per-file purge, hard erasure, key re-wrap and recall paths of           *)
(* Heartwood (client.py), KeyStore (erasure.py), Store (store.py) and      *)
(* SqliteVecIndex (index.py).                                              *)
(*                                                                         *)
(* Every SQLite transaction is one action.  What a process holds between   *)
(* two transactions of the same call is its job, and other processes run   *)
(* in between.  Within a process calls are sequential, as the recall       *)
(* service's lock and the one-connection-per-client rule make them.        *)
(*                                                                         *)
(* Content is abstracted to its taint: the set of subjects whose data the  *)
(* text holds, which is the subjects the memory names and the taint of the *)
(* parents it was derived from.  A data-encryption key is the process that *)
(* generated it.  One tenant; policy, ranking, review state and receipts   *)
(* are not part of this module.                                            *)
(***************************************************************************)
EXTENDS Naturals, FiniteSets

CONSTANTS
    Procs,        \* client processes sharing the store file
    VecCapable,   \* the processes in which sqlite-vec can be loaded
    VecProcs,     \* the processes opened with index="sqlite-vec"
    Subjects,     \* erasure subjects
    Mems,         \* memory ids
    Ops,          \* which optional operations a run includes
    MaxParents,   \* bound on derived_from
    MaxEdges,     \* add_provenance_edge is called while there are fewer edges
    NoRow,        \* memory id without a row
    NoKey,        \* subject without a key row
    Shredded      \* subject whose key row is an erasure tombstone

Row == [subject : Subjects, names : SUBSET Subjects, dek : Procs,
        taint : SUBSET Subjects, indexed : BOOLEAN]

ASSUME StoreAssumptions ==
    /\ VecProcs \subseteq VecCapable
    /\ VecCapable \subseteq Procs
    /\ NoRow \notin Row
    /\ NoKey \notin Procs
    /\ Shredded \notin Procs
    /\ NoKey # Shredded
    /\ MaxParents \in Nat
    /\ MaxEdges \in Nat
    /\ Ops \subseteq {"forget", "purge", "link", "rewrap", "recall", "crash"}

VARIABLES
    (* the store file *)
    memories,   \* memories table
    edges,      \* prov_edges table: <<child, parent>>
    lineage,    \* deletion_lineage table: <<memory, subject>>
    keys,       \* keys table: no row, tombstone, or the stored DEK
    vectors,    \* heartwood_vec table: taint of the embedded text, {} if none
    vecTable,   \* whether heartwood_vec exists in the file
    audit,      \* the mutations audit_log records
    (* the processes *)
    text,       \* each process's plaintext cache, as taint; {} if not cached
    job,        \* what each process holds between two transactions
    (* history *)
    erased,     \* subjects whose hard-erasure purge has committed
    severed,    \* ids whose row the edges no longer tie to all it was derived from
    filePurged, \* ids whose row a per-file purge deleted
    again       \* ids that a caller chose for a row after another row had them

fileVars == <<memories, edges, lineage, keys, vectors, vecTable, audit>>
history  == <<erased, severed, filePurged, again>>
vars     == <<fileVars, text, job, history>>

Taint == SUBSET Subjects
KeyState == Procs \cup {NoKey, Shredded}

(***************************************************************************)
(* Jobs.  "at" names the next transaction of the call in progress.         *)
(***************************************************************************)
Draft == [mem : Mems, subject : Subjects, names : SUBSET Subjects,
          derived : SUBSET Mems, live : SUBSET Mems, taint : Taint]

RestJob    == [at : {"idle", "down"}]
KeyJob     == [at : {"key", "create"}, draft : Draft]
InsertJob  == [at : {"insert"}, draft : Draft, dek : Procs]
IndexJob   == [at : {"index"}, mem : Mems, taint : Taint]
ForgetJob  == [at : {"shred", "erase", "evict"}, subject : Subjects, ids : SUBSET Mems]
RecordJob  == [at : {"recordForget"}, subject : Subjects]
PurgeJob   == [at : {"unindex", "recordPurge"}, mem : Mems]
RewrapJob  == [at : {"rewrap"}, held : SUBSET (Subjects \X Procs)]
DecryptJob == [at : {"decrypt"}, snap : [Mems -> Row \cup {NoRow}], todo : SUBSET Mems,
               texts : [Mems -> Taint]]
ServeJob   == [at : {"serve"}, texts : [Mems -> Taint], results : [Mems -> Taint]]

Job == RestJob \cup KeyJob \cup InsertJob \cup IndexJob \cup ForgetJob \cup RecordJob
       \cup PurgeJob \cup RewrapJob \cup DecryptJob \cup ServeJob

Idle == [at |-> "idle"]
Down == [at |-> "down"]

TypeOK ==
    /\ memories \in [Mems -> Row \cup {NoRow}]
    /\ edges \subseteq Mems \X Mems
    /\ lineage \subseteq Mems \X Subjects
    /\ keys \in [Subjects -> KeyState]
    /\ vectors \in [Mems -> Taint]
    /\ vecTable \in BOOLEAN
    /\ audit \subseteq ({"remember", "purge"} \X Mems) \cup ({"forget"} \X Subjects)
    /\ text \in [Procs -> [Mems -> Taint]]
    /\ job \in [Procs -> Job]
    /\ erased \subseteq Subjects
    /\ severed \subseteq Mems
    /\ filePurged \subseteq Mems
    /\ again \subseteq Mems

Init ==
    /\ memories = [m \in Mems |-> NoRow]
    /\ edges = {}
    /\ lineage = {}
    /\ keys = [s \in Subjects |-> NoKey]
    /\ vectors = [m \in Mems |-> {}]
    /\ vecTable = FALSE
    /\ audit = {}
    /\ text = [p \in Procs |-> [m \in Mems |-> {}]]
    /\ job = [p \in Procs |-> Idle]
    /\ erased = {}
    /\ severed = {}
    /\ filePurged = {}
    /\ again = {}

(***************************************************************************)
(* Selectors over the store file.                                          *)
(***************************************************************************)
Stored(m) == memories[m] # NoRow

\* Rows whose primary or secondary subject is s, and rows its lineage names.
Selected(s) ==
    {m \in Mems : Stored(m) /\ s \in memories[m].names}
    \cup {m \in Mems : <<m, s>> \in lineage}

\* The seed and everything transitively derived from it: the smallest set
\* that holds the seed and is closed under child edges.
Reach(seed) ==
    {m \in Mems : \A T \in SUBSET Mems :
        (seed \subseteq T /\ \A e \in edges : e[2] \in T => e[1] \in T) => m \in T}

EdgesAvoiding(gone) == {e \in edges : e[1] \notin gone /\ e[2] \notin gone}
LineageAvoiding(gone) == {l \in lineage : l[1] \notin gone}

(***************************************************************************)
(* remember(): read the parents, get or create the subject's key, insert   *)
(* in one transaction, then cache and index.                               *)
(***************************************************************************)
RememberStart(p) ==
    /\ job[p] = Idle
    /\ \E m \in Mems, s \in Subjects, aliases \in SUBSET Subjects, derived \in SUBSET Mems :
        /\ <<"remember", m>> \notin audit    \* ids are fresh
        /\ m \notin derived
        /\ Cardinality(derived) <= MaxParents
        /\ LET live  == {d \in derived : Stored(d)}
               names == {s} \cup aliases
           IN  job' = [job EXCEPT ![p] =
                        [at |-> "key",
                         draft |-> [mem |-> m, subject |-> s, names |-> names,
                                    derived |-> derived, live |-> live,
                                    taint |-> names \cup
                                        UNION {memories[d].taint : d \in live}]]]
    /\ UNCHANGED <<fileVars, text, history>>

\* KeyStore.get_or_create, its read: an erased subject is refused here.
KeyRead(p) ==
    /\ job[p].at = "key"
    /\ LET d == job[p].draft
           k == keys[d.subject]
       IN  job' = [job EXCEPT ![p] =
                    IF k = Shredded THEN Idle
                    ELSE IF k = NoKey THEN [at |-> "create", draft |-> d]
                    ELSE [at |-> "insert", draft |-> d, dek |-> k]]
    /\ UNCHANGED <<fileVars, text, history>>

\* Mutants: an upsert, so that the last writer wins; an insert that never happens.
StoredKeyLast(s, p) == IF keys[s] = Shredded THEN Shredded ELSE p
StoredKeyNone(s, p) == keys[s]

\* Store.create_key: whichever key row exists first wins.
StoredKey(s, p) == IF keys[s] = NoKey THEN p ELSE keys[s]

KeyCreate(p) ==
    /\ job[p].at = "create"
    /\ LET d == job[p].draft
           k == StoredKey(d.subject, p)
       IN  /\ keys' = [keys EXCEPT ![d.subject] = k]
           /\ job' = [job EXCEPT ![p] =
                        IF k = Shredded THEN Idle
                        ELSE [at |-> "insert", draft |-> d, dek |-> k]]
    /\ UNCHANGED <<memories, edges, lineage, vectors, vecTable, audit, text, history>>

\* Mutants: no check for erased subjects; no check for vanished parents.
InsertErasedAllowed(d) == ~Stored(d.mem) /\ \A parent \in d.live : Stored(parent)
InsertOrphanAllowed(d) == ~Stored(d.mem) /\ \A s \in d.names : keys[s] # Shredded

\* What Store.insert_memory_superseding checks under the write lock.
InsertAllowed(d) ==
    /\ \A s \in d.names : keys[s] # Shredded
    /\ \A parent \in d.live : Stored(parent)
    /\ ~Stored(d.mem)

\* A parent's id is there, but another row has it by now: not all that the draft
\* took over is in its names and in the parents that its edges will name.
ParentReplaced(d) ==
    /\ \A parent \in d.live : Stored(parent)
    /\ ~(d.taint \subseteq d.names \cup UNION {memories[parent].taint : parent \in d.live})

Insert(p) ==
    /\ job[p].at = "insert"
    /\ InsertAllowed(job[p].draft)
    /\ LET d == job[p].draft
       IN  \E indexed \in BOOLEAN :
            /\ memories' = [memories EXCEPT ![d.mem] =
                    [subject |-> d.subject, names |-> d.names, dek |-> job[p].dek,
                     taint |-> d.taint, indexed |-> indexed]]
            /\ edges' = edges \cup {<<d.mem, parent>> : parent \in d.derived}
            /\ lineage' = lineage \cup {<<d.mem, d.subject>>}
            /\ audit' = audit \cup {<<"remember", d.mem>>}
            /\ severed' = IF ParentReplaced(d) \/ \E parent \in d.live : parent \in severed
                          THEN severed \cup {d.mem} ELSE severed \ {d.mem}
            /\ filePurged' = filePurged \ {d.mem}
            /\ again' = IF <<"remember", d.mem>> \in audit THEN again \cup {d.mem} ELSE again
            /\ job' = [job EXCEPT ![p] =
                        IF indexed THEN [at |-> "index", mem |-> d.mem, taint |-> d.taint]
                        ELSE Idle]
    /\ UNCHANGED <<keys, vectors, vecTable, text, erased>>

\* The transaction rolls back: erased subject, vanished parent, or id in use.
InsertRefused(p) ==
    /\ job[p].at = "insert"
    /\ ~InsertAllowed(job[p].draft)
    /\ job' = [job EXCEPT ![p] = Idle]
    /\ UNCHANGED <<fileVars, text, history>>

\* Mutant: a plain insert, whether or not the row is still there.
VectorAlways(m, taint) == taint

\* SqliteVecIndex.add_if_stored: the row's vector is replaced, or only deleted
\* when the row has gone meanwhile.
VectorIfStored(m, taint) == IF Stored(m) THEN taint ELSE {}

\* The caches are filled unconditionally, the shared vector as above.
IndexAdd(p) ==
    /\ job[p].at = "index"
    /\ LET m == job[p].mem
       IN  /\ text' = [text EXCEPT ![p][m] = job[p].taint]
           /\ IF p \in VecProcs
              THEN /\ vectors' = [vectors EXCEPT ![m] =
                                    VectorIfStored(m, job[p].taint)]
                   /\ vecTable' = TRUE
              ELSE UNCHANGED <<vectors, vecTable>>
    /\ job' = [job EXCEPT ![p] = Idle]
    /\ UNCHANGED <<memories, edges, lineage, keys, audit, history>>

(***************************************************************************)
(* forget(mode="hard"): select, shred, purge in one transaction, evict     *)
(* local copies, append the audit row.                                     *)
(***************************************************************************)
\* A process without sqlite-vec refuses while the file holds vectors.
ForgetStart(p) ==
    /\ "forget" \in Ops
    /\ job[p] = Idle
    /\ vecTable => p \in VecCapable
    /\ \E s \in Subjects :
        job' = [job EXCEPT ![p] = [at |-> "shred", subject |-> s, ids |-> Selected(s)]]
    /\ UNCHANGED <<fileVars, text, history>>

Shred(p) ==
    /\ job[p].at = "shred"
    /\ keys' = [keys EXCEPT ![job[p].subject] = Shredded]
    /\ job' = [job EXCEPT ![p].at = "erase"]
    /\ UNCHANGED <<memories, edges, lineage, vectors, vecTable, audit, text, history>>

\* Mutants: no second selection after the shred; no cascade.
PurgeSetFirst(p) == Reach(job[p].ids)
PurgeSetSelected(p) == job[p].ids \cup Selected(job[p].subject)

\* The ids the purge transaction deletes.
PurgeSet(p) == Reach(job[p].ids \cup Selected(job[p].subject))

\* _delete_vectors raises when the vector table appeared after the check.
VectorsDeletable(p) == PurgeSet(p) = {} \/ ~vecTable \/ p \in VecCapable

PurgeSubject(p) ==
    /\ job[p].at = "erase"
    /\ VectorsDeletable(p)
    /\ LET s    == job[p].subject
           gone == PurgeSet(p)
       IN  /\ memories' = [m \in Mems |-> IF m \in gone THEN NoRow ELSE memories[m]]
           /\ vectors' = [m \in Mems |-> IF m \in gone THEN {} ELSE vectors[m]]
           /\ edges' = EdgesAvoiding(gone)
           /\ lineage' = {l \in LineageAvoiding(gone) : l[2] # s}
           /\ erased' = erased \cup {s}
           /\ job' = [job EXCEPT ![p] = [at |-> "evict", subject |-> s, ids |-> gone]]
    /\ UNCHANGED <<keys, vecTable, audit, text, severed, filePurged, again>>

\* The purge rolls back and forget raises: the tombstone stays, so do the rows.
PurgeStranded(p) ==
    /\ job[p].at = "erase"
    /\ ~VectorsDeletable(p)
    /\ job' = [job EXCEPT ![p] = Idle]
    /\ UNCHANGED <<fileVars, text, history>>

\* Pops the local caches and removes the ids from this process's index.
Evict(p) ==
    /\ job[p].at = "evict"
    /\ LET gone == job[p].ids
       IN  /\ text' = [text EXCEPT ![p] =
                        [m \in Mems |-> IF m \in gone THEN {} ELSE text[p][m]]]
           /\ vectors' = IF p \in VecProcs
                         THEN [m \in Mems |-> IF m \in gone THEN {} ELSE vectors[m]]
                         ELSE vectors
    /\ job' = [job EXCEPT ![p] = [at |-> "recordForget", subject |-> job[p].subject]]
    /\ UNCHANGED <<memories, edges, lineage, keys, vecTable, audit, history>>

RecordForget(p) ==
    /\ job[p].at = "recordForget"
    /\ audit' = audit \cup {<<"forget", job[p].subject>>}
    /\ job' = [job EXCEPT ![p] = Idle]
    /\ UNCHANGED <<memories, edges, lineage, keys, vectors, vecTable, text, history>>

(***************************************************************************)
(* purge(mem_id): per-file delete, in three transactions.  The subject key *)
(* stays.                                                                  *)
(***************************************************************************)
PurgeRow(p) ==
    /\ "purge" \in Ops
    /\ job[p] = Idle
    /\ \E m \in Mems :
        /\ text' = [text EXCEPT ![p][m] = {}]
        /\ memories' = [memories EXCEPT ![m] = NoRow]
        /\ edges' = EdgesAvoiding({m})
        /\ lineage' = LineageAvoiding({m})
        /\ severed' = severed \cup (Reach({m}) \ {m})
        /\ filePurged' = IF Stored(m) THEN filePurged \cup {m} ELSE filePurged
        /\ job' = [job EXCEPT ![p] = [at |-> "unindex", mem |-> m]]
    /\ UNCHANGED <<keys, vectors, vecTable, audit, erased, again>>

Unindex(p) ==
    /\ job[p].at = "unindex"
    /\ vectors' = IF p \in VecProcs THEN [vectors EXCEPT ![job[p].mem] = {}] ELSE vectors
    /\ job' = [job EXCEPT ![p].at = "recordPurge"]
    /\ UNCHANGED <<memories, edges, lineage, keys, vecTable, audit, text, history>>

RecordPurge(p) ==
    /\ job[p].at = "recordPurge"
    /\ audit' = audit \cup {<<"purge", job[p].mem>>}
    /\ job' = [job EXCEPT ![p] = Idle]
    /\ UNCHANGED <<memories, edges, lineage, keys, vectors, vecTable, text, history>>

\* add_provenance_edge(): neither end need exist, and cycles are possible.
AddEdge(p) ==
    /\ "link" \in Ops
    /\ job[p] = Idle
    /\ Cardinality(edges) < MaxEdges
    /\ \E child, parent \in Mems : edges' = edges \cup {<<child, parent>>}
    /\ UNCHANGED <<memories, lineage, keys, vectors, vecTable, audit, text, job, history>>

(***************************************************************************)
(* rewrap_tenant_keys(): list every key, then put each back re-wrapped.    *)
(***************************************************************************)
RewrapList(p) ==
    /\ "rewrap" \in Ops
    /\ job[p] = Idle
    /\ job' = [job EXCEPT ![p] =
                [at |-> "rewrap", held |-> {<<s, keys[s]>> : s \in {u \in Subjects : keys[u] \in Procs}}]]
    /\ UNCHANGED <<fileVars, text, history>>

\* Mutant: an upsert that reactivates a tombstone.
PutKeyAlways(s, dek) == [keys EXCEPT ![s] = dek]

\* Store.put_key: the upsert skips a tombstone.
PutKey(s, dek) == [keys EXCEPT ![s] = IF @ = Shredded THEN Shredded ELSE dek]

RewrapPut(p) ==
    /\ job[p].at = "rewrap"
    /\ \E e \in job[p].held :
        /\ keys' = PutKey(e[1], e[2])
        /\ job' = [job EXCEPT ![p].held = @ \ {e}]
    /\ UNCHANGED <<memories, edges, lineage, vectors, vecTable, audit, text, history>>

RewrapDone(p) ==
    /\ job[p].at = "rewrap"
    /\ job[p].held = {}
    /\ job' = [job EXCEPT ![p] = Idle]
    /\ UNCHANGED <<fileVars, text, history>>

(***************************************************************************)
(* recall(): snapshot the metadata, obtain each text from the plaintext    *)
(* cache or by decryption, then re-read the row before serving it.         *)
(***************************************************************************)
RecallStart(p) ==
    /\ "recall" \in Ops
    /\ job[p] = Idle
    /\ job' = [job EXCEPT ![p] =
                [at |-> "decrypt", snap |-> memories,
                 todo |-> {m \in Mems : Stored(m) /\ memories[m].indexed},
                 texts |-> [m \in Mems |-> {}]]]
    /\ UNCHANGED <<fileVars, text, history>>

\* _text_pair_for_meta: the cache first, else key and ciphertext as they are now.
Decrypted(p, m) ==
    LET snap == job[p].snap[m]
    IN  IF text[p][m] # {} THEN text[p][m]
        ELSE IF /\ Stored(m)
                /\ keys[snap.subject] \in Procs
                /\ memories[m].subject = snap.subject
                /\ memories[m].dek = keys[snap.subject]
             THEN memories[m].taint
             ELSE {}

RecallDecrypt(p) ==
    /\ job[p].at = "decrypt"
    /\ \E m \in job[p].todo :
        /\ text' = [text EXCEPT ![p][m] = Decrypted(p, m)]
        /\ job' = [job EXCEPT ![p].todo = @ \ {m}, ![p].texts[m] = Decrypted(p, m)]
    /\ UNCHANGED <<fileVars, history>>

\* Mutant: the text is served although its row has gone.
ServedAnyway(p, m) == job[p].texts[m]

\* A result whose row has vanished by now is dropped (recall-vanished-root).
Served(p, m) == IF Stored(m) THEN job[p].texts[m] ELSE {}

\* Every text is at hand: rank, then release row by row.
RecallRank(p) ==
    /\ job[p].at = "decrypt"
    /\ job[p].todo = {}
    /\ job' = [job EXCEPT ![p] = [at |-> "serve", texts |-> job[p].texts,
                                  results |-> [m \in Mems |-> {}]]]
    /\ UNCHANGED <<fileVars, text, history>>

RecallServe(p) ==
    /\ job[p].at = "serve"
    /\ \E m \in Mems :
        /\ job[p].texts[m] # {}
        /\ job' = [job EXCEPT ![p].texts[m] = {}, ![p].results[m] = Served(p, m)]
    /\ UNCHANGED <<fileVars, text, history>>

RecallReturn(p) ==
    /\ job[p].at = "serve"
    /\ \A m \in Mems : job[p].texts[m] = {}
    /\ job' = [job EXCEPT ![p] = Idle]
    /\ UNCHANGED <<fileVars, text, history>>

(***************************************************************************)
(* A process dies between two transactions and is opened again later.      *)
(* Opening with sqlite-vec drops orphan vectors and re-adds the live rows. *)
(***************************************************************************)
Crash(p) ==
    /\ "crash" \in Ops
    /\ job[p] # Down
    /\ job' = [job EXCEPT ![p] = Down]
    /\ text' = [text EXCEPT ![p] = [m \in Mems |-> {}]]
    /\ UNCHANGED <<fileVars, history>>

Open(p) ==
    /\ job[p] = Down
    /\ job' = [job EXCEPT ![p] = Idle]
    /\ IF p \in VecProcs
       THEN /\ vectors' = [m \in Mems |->
                    IF ~Stored(m) THEN {}
                    ELSE IF memories[m].indexed THEN memories[m].taint ELSE vectors[m]]
            /\ vecTable' = (vecTable \/ \E m \in Mems : Stored(m) /\ memories[m].indexed)
       ELSE UNCHANGED <<vectors, vecTable>>
    /\ UNCHANGED <<memories, edges, lineage, keys, audit, text, history>>

Remember(p) == RememberStart(p) \/ KeyRead(p) \/ KeyCreate(p)
               \/ Insert(p) \/ InsertRefused(p) \/ IndexAdd(p)
Forget(p) == ForgetStart(p) \/ Shred(p) \/ PurgeSubject(p) \/ PurgeStranded(p)
             \/ Evict(p) \/ RecordForget(p)
Purge(p) == PurgeRow(p) \/ Unindex(p) \/ RecordPurge(p)
Rewrap(p) == RewrapList(p) \/ RewrapPut(p) \/ RewrapDone(p)
Recall(p) == RecallStart(p) \/ RecallDecrypt(p) \/ RecallRank(p)
             \/ RecallServe(p) \/ RecallReturn(p)

Next == \E p \in Procs :
            \/ Remember(p) \/ Forget(p) \/ Purge(p) \/ Rewrap(p) \/ Recall(p)
            \/ AddEdge(p) \/ Crash(p) \/ Open(p)

Spec == Init /\ [][Next]_vars

--------------------------------------------------------------------------------
(***************************************************************************)
(* Properties.                                                             *)
(***************************************************************************)

\* Once a hard erasure has purged a subject, no row names it, as primary
\* subject or as alias, however late a write that began before it commits
\* (erasure-final-for-writes and erasure-purge-after-shred in client.py).
ErasedSubjectsGone ==
    \A s \in erased, m \in Mems : Stored(m) => s \notin memories[m].names

\* Nor does any row derived, at whatever depth, from the subject's data, as long
\* as no row between it and the source was purged by itself (purge() deletes that
\* row's edges, and Store.descendants follows edges), or replaced under its id
\* while a row derived from it was being written (_refuse_missing_parents asks
\* only whether the ids are there).
DerivedDataGone ==
    \A s \in erased, m \in Mems :
        Stored(m) /\ s \in memories[m].taint => m \in severed

\* A stored row is encrypted under the key its subject's key row holds, or
\* that key is a tombstone: two first writers and a re-wrap never strand a row.
RowsDecryptable ==
    \A m \in Mems : Stored(m) => keys[memories[m].subject] \in {memories[m].dek, Shredded}

\* Only a per-file purge can leave a vector in the file without its row: a
\* hard erasure, a late index write and a re-opened index never do.
VectorsFollowRows ==
    \A m \in Mems : vectors[m] # {} => Stored(m) \/ m \in filePurged

\* A recall under way when an erasure's purge commits releases nothing more
\* that holds the erased subject's data, though it has the text in hand and
\* other processes still cache it.  A row that has the id of an erased one is
\* served with what a process cached of that (_text_pair_for_meta).
NoErasedRecall ==
    [][\A p \in Procs : job[p].at = "serve" /\ job'[p].at = "serve" =>
        \A m \in Mems : job'[p].results[m] # job[p].results[m] =>
            job'[p].results[m] \cap erased = {} \/ m \in severed \cup again]_vars

\* A tombstone is never reactivated (erasure-tombstone-final in store.py),
\* neither by a first write that lost the race nor by a re-wrap in progress.
TombstoneFinal ==
    [][\A s \in Subjects : keys[s] = Shredded => keys'[s] = Shredded]_vars

\* The store implements the erasure promise of module Erasure: per named
\* subject, and per subject whose data a row holds that is not severed.
HeldNames == [m \in Mems |-> IF Stored(m) THEN memories[m].names ELSE {}]
HeldTaint == [m \in Mems |-> IF Stored(m) /\ m \notin severed THEN memories[m].taint ELSE {}]

ByName  == INSTANCE Erasure WITH held <- HeldNames, done <- erased
ByTaint == INSTANCE Erasure WITH held <- HeldTaint, done <- erased

\* Every step is an abstract write, removal or erasure of named subjects.
ErasesByName == ByName!Spec

\* Every step is an abstract write, removal or erasure of subjects' data.
ErasesByTaint == ByTaint!Spec

================================================================================
