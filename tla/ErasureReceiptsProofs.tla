------------------------- MODULE ErasureReceiptsProofs -------------------------
(***************************************************************************)
(* Proofs about ErasureReceipts: an erasure receipt keeps passing its      *)
(* check, for any processes, subjects, memories and imports.               *)
(***************************************************************************)
EXTENDS ErasureReceipts, GovernedStoreProofs

(***************************************************************************)
(* What is inductive.  A purged id is safe from a new row only because it  *)
(* was written before, so that a row that takes it again is known to; and  *)
(* that takes edges, lineage, drafts, imports and erasures under way to    *)
(* name no child id that was never written.                                *)
(***************************************************************************)
\* The ids that have been written.
Remembered == {m \in Mems : <<"remember", m>> \in audit}

\* Nothing is left of the ids an erasure deleted but what ReceiptStands allows for.
Cleared(gone) ==
    /\ gone \subseteq Remembered
    /\ \A m \in gone : Stored(m) => m \in again
    /\ \A l \in lineage : l[1] \in gone => l[1] \in again
    /\ \A e \in edges : e[1] \in gone \/ e[2] \in gone
                        => e \in strays \/ e[1] \in again \/ e[2] \in again

LinksRemembered ==
    /\ \A l \in lineage : l[1] \in Remembered
    /\ \A e \in edges : e[1] \in Remembered
    /\ importing # NoImport => /\ importing.index \subseteq Remembered
                               /\ importing.links \subseteq Known(importing.index)

ErasedUnlinked == \A l \in lineage : l[2] \notin erased

JobKept(p) ==
    /\ job[p].at \in {"key", "create", "insert"} => job[p].draft.subject \in job[p].draft.names
    /\ job[p].at \in {"shred", "erase"} => job[p].ids \subseteq Remembered
    /\ job[p].at \in {"evict", "recordForget"} => job[p].subject \in erased

StoreInv == ErasureInv /\ RowsRemembered /\ LinksRemembered /\ ErasedUnlinked

ReceiptInv ==
    /\ StoreInv
    /\ \A p \in Procs : JobKept(p)
    /\ purgedIds = [p \in Procs |-> purgedIds[p]]
    /\ \A p \in Procs : Cleared(purgedIds[p])
    /\ \A r \in receipts : r.subject \in erased /\ Cleared(r.purged)

(***************************************************************************)
(* What a step may add.                                                    *)
(***************************************************************************)
\* What an id may come to have: a row, lineage or child edge only if it was new, or is
\* known to be used again; a parent edge only as a stray or while it has a row.
Grows ==
    /\ audit \subseteq audit' /\ again \subseteq again' /\ strays \subseteq strays'
    /\ erased \subseteq erased'
    /\ \A m \in Mems : Stored(m)' => Stored(m) \/ (m \in Remembered => m \in again')
    /\ \A l \in lineage' : l \in lineage \/ (l[1] \in Remembered => l[1] \in again')
    /\ \A e \in edges' : \/ e \in edges \/ e \in strays'
                         \/ /\ Stored(e[1]) \/ (e[1] \in Remembered => e[1] \in again')
                            /\ Stored(e[2])

\* What was cleared stays so.
LEMMA ClearedStays ==
    ASSUME Grows, NEW gone, Cleared(gone)
    PROVE  Cleared(gone)'
<1> USE DEF Grows, Cleared
<1>1. Remembered \subseteq Remembered'
  BY DEF Remembered
<1>2. gone \subseteq Mems
  BY DEF Remembered
<1>3. ASSUME NEW m \in gone, Stored(m)' PROVE m \in again'
  BY <1>2, <1>3
<1>4. ASSUME NEW l \in lineage', l[1] \in gone PROVE l[1] \in again'
  BY <1>4
<1>5. ASSUME NEW e \in edges', e[1] \in gone \/ e[2] \in gone
      PROVE  e \in strays' \/ e[1] \in again' \/ e[2] \in again'
  BY <1>5
<1> QED
  BY <1>1, <1>3, <1>4, <1>5

\* The steps that leave the rows and their links, or only take some away.
Leaves(p) ==
    /\ \A m \in Mems : memories'[m] \in {memories[m], NoRow}
    /\ edges' \subseteq edges /\ lineage' \subseteq lineage /\ audit \subseteq audit'
    /\ UNCHANGED <<again, erased>>
    /\ \A q \in Procs : q # p => job'[q] = job[q]

LEMMA OthersLeave ==
    ASSUME TypeOK, NEW p \in Procs, OtherStep(p) \/ CrashUnsigned(p) \/ RecordForgetReceipt(p)
    PROVE  Leaves(p)
<1> USE DEF Leaves
<1>1. CASE PurgeRow(p)
  <2>1. PICK x \in Mems : memories' = [memories EXCEPT ![x] = NoRow]
    BY <1>1 DEF PurgeRow
  <2>2. \A m \in Mems : memories'[m] \in {memories[m], NoRow}
    BY <2>1 DEF TypeOK
  <2> QED
    BY <2>2, <1>1 DEF PurgeRow, EdgesAvoiding, LineageAvoiding, TypeOK
<1>2. CASE RememberStart(p) \/ KeyRead(p) \/ InsertRefused(p) \/ ForgetStart(p)
  BY <1>2 DEF RememberStart, KeyRead, InsertRefused, ForgetStart, fileVars, history, TypeOK
<1>3. CASE KeyCreate(p) \/ IndexAdd(p) \/ Shred(p) \/ Evict(p)
  BY <1>3 DEF KeyCreate, IndexAdd, Shred, Evict, history, TypeOK
<1>4. CASE RecordForget(p) \/ RecordPurge(p) \/ Unindex(p)
  BY <1>4 DEF RecordForget, RecordPurge, Unindex, history, TypeOK
<1>5. CASE Crash(p) \/ Open(p)
  BY <1>5 DEF Crash, Open, fileVars, history, TypeOK
<1> QED
  BY <1>1, <1>2, <1>3, <1>4, <1>5
     DEF OtherStep, CrashUnsigned, RecordForgetReceipt, Purge

\* A step of a process is one of the store.
LEMMA StoreSteps ==
    ASSUME NEW p \in Procs,
           \/ PurgeSubjectKept(p) \/ RecordForgetReceipt(p) \/ InsertEdges(p)
           \/ OtherStep(p) \/ CrashUnsigned(p)
    PROVE  Next
BY DEF PurgeSubjectKept, RecordForgetReceipt, InsertEdges, OtherStep, CrashUnsigned, Next,
       Remember, Forget

\* An insert writes a row, lineage and edges for one id.
LEMMA InsertLinks ==
    ASSUME TypeOK, NEW p \in Procs, InsertEdges(p), NEW d, d = job[p].draft
    PROVE  /\ d.mem \in Mems /\ d.subject \in Subjects /\ d.derived \subseteq Mems
           /\ \A m \in Mems : m # d.mem => memories'[m] = memories[m]
           /\ edges' = edges \cup {<<d.mem, parent>> : parent \in d.derived}
           /\ lineage' = lineage \cup {<<d.mem, d.subject>>}
           /\ strays' = strays \cup {<<d.mem, parent>> : parent \in d.derived \ d.live}
           /\ InsertAllowed(d)
           /\ job'[p].at \in {"index", "idle"}
           /\ \A q \in Procs : q # p => job'[q] = job[q]
           /\ UNCHANGED <<erased, purgedIds, receipts, importing>>
           /\ d.mem \in Remembered'
           /\ d.mem \in Remembered => d.mem \in again'
           /\ audit \subseteq audit' /\ again \subseteq again'
<1>1. job[p] \in InsertJob /\ Insert(p)
  BY JobKinds DEF InsertEdges, Insert, TypeOK
<1>2. d.mem \in Mems /\ d.subject \in Subjects /\ d.derived \subseteq Mems
  BY <1>1 DEF InsertJob, Draft
<1>3. /\ \A m \in Mems : m # d.mem => memories'[m] = memories[m]
      /\ audit' = audit \cup {<<"remember", d.mem>>}
      /\ again' = IF <<"remember", d.mem>> \in audit THEN again \cup {d.mem} ELSE again
  BY <1>1, InsertWrites
<1>4. job'[p].at \in {"index", "idle"} /\ \A q \in Procs : q # p => job'[q] = job[q]
  BY <1>1 DEF Insert, Idle, TypeOK
<1>5. /\ edges' = edges \cup {<<d.mem, parent>> : parent \in d.derived}
      /\ lineage' = lineage \cup {<<d.mem, d.subject>>}
      /\ InsertAllowed(d) /\ erased' = erased
  BY <1>1 DEF Insert
<1>6. /\ strays' = strays \cup {<<d.mem, parent>> : parent \in d.derived \ d.live}
      /\ UNCHANGED <<purgedIds, receipts, importing>>
  BY DEF InsertEdges
<1> QED
  BY <1>2, <1>3, <1>4, <1>5, <1>6 DEF Remembered

\* An import adds edges of which each end has a row, or is a stray.
LEMMA ImportGrows ==
    ASSUME StoreInv, ImportCommit
    PROVE  /\ Grows /\ LinksRemembered' /\ edges' \subseteq Mems \X Mems
           /\ UNCHANGED <<memories, lineage, audit, again, erased, job, purgedIds, receipts>>
<1>1. /\ importing # NoImport /\ importing' = NoImport
      /\ edges' = edges \cup importing.links
      /\ strays' = strays \cup {e \in importing.links :
                        \/ e[1] \in {m \in importing.index : ~Stored(m)}
                        \/ e[2] \in {m \in importing.index : ~Stored(m)}}
      /\ UNCHANGED <<memories, lineage, audit, again, erased, job, purgedIds, receipts>>
  BY DEF ImportCommit, history
<1>2. importing.index \subseteq Remembered /\ importing.links \subseteq Known(importing.index)
  BY <1>1 DEF StoreInv, LinksRemembered
<1>3. /\ importing.links \subseteq importing.index \X importing.index
      /\ importing.index \subseteq Mems
  BY <1>2 DEF Known, Remembered
<1>4. \A e \in importing.links : e \in strays' \/ (Stored(e[1]) /\ Stored(e[2]))
  BY <1>1, <1>3
<1>5. Grows
  BY <1>1, <1>4 DEF Grows, Stored
<1>6. Remembered' = Remembered
  BY <1>1 DEF Remembered
<1>7. \A e \in edges' : e[1] \in Remembered
  BY <1>1, <1>2, <1>3 DEF StoreInv, LinksRemembered
<1>8. LinksRemembered'
  BY <1>1, <1>6, <1>7 DEF StoreInv, LinksRemembered
<1>9. edges' \subseteq Mems \X Mems
  BY <1>1, <1>3 DEF StoreInv, ErasureInv, TypeOK
<1> QED
  BY <1>1, <1>5, <1>8, <1>9

LEMMA InsertGrows ==
    ASSUME StoreInv, NEW p \in Procs, JobKept(p), InsertEdges(p)
    PROVE  Grows /\ LinksRemembered' /\ ErasedUnlinked'
<1>0. TypeOK /\ LinksRemembered /\ ErasedUnlinked /\ ErasedShredded
  BY DEF StoreInv, ErasureInv
<1>1. PICK d : d = job[p].draft
  OBVIOUS
<1>2. /\ d.mem \in Mems /\ d.subject \in Subjects
      /\ \A m \in Mems : m # d.mem => memories'[m] = memories[m]
      /\ edges' = edges \cup {<<d.mem, parent>> : parent \in d.derived}
      /\ lineage' = lineage \cup {<<d.mem, d.subject>>}
      /\ strays' = strays \cup {<<d.mem, parent>> : parent \in d.derived \ d.live}
      /\ InsertAllowed(d)
      /\ UNCHANGED <<erased, importing>>
      /\ d.mem \in Remembered' /\ (d.mem \in Remembered => d.mem \in again')
      /\ audit \subseteq audit' /\ again \subseteq again'
  BY <1>0, <1>1, InsertLinks
<1>3. Remembered \subseteq Remembered'
  BY <1>2 DEF Remembered
<1>4. \A e \in edges' : \/ e \in edges \/ e \in strays'
                       \/ /\ Stored(e[1]) \/ (e[1] \in Remembered => e[1] \in again')
                          /\ Stored(e[2])
  <2> SUFFICES ASSUME NEW parent \in d.derived, parent \in d.live
               PROVE  Stored(parent)
    BY <1>2
  <2> QED
    BY <1>2 DEF InsertAllowed
<1>5. \A m \in Mems : Stored(m)' => Stored(m) \/ (m \in Remembered => m \in again')
  BY <1>2 DEF Stored
<1>6. Grows
  BY <1>2, <1>4, <1>5 DEF Grows
<1>7. LinksRemembered'
  BY <1>0, <1>2, <1>3 DEF LinksRemembered
<1>8. d.subject \notin erased
  <2>1. d.subject \in d.names
    BY <1>1 DEF JobKept, InsertEdges, Insert
  <2> QED
    BY <1>0, <1>2, <2>1 DEF InsertAllowed, ErasedShredded
<1>9. ErasedUnlinked'
  BY <1>0, <1>2, <1>8 DEF ErasedUnlinked
<1> QED
  BY <1>6, <1>7, <1>9

\* Erasures reach only ids that were written.
LEMMA ReachRemembered ==
    ASSUME LinksRemembered, NEW seed \in SUBSET Remembered
    PROVE  Reach(seed) \subseteq Remembered
<1>1. Remembered \in SUBSET Mems /\ \A e \in edges : e[1] \in Remembered
  BY DEF Remembered, LinksRemembered
<1> QED
  BY <1>1 DEF Reach

LEMMA SelectedRemembered ==
    ASSUME RowsRemembered, LinksRemembered, NEW s
    PROVE  Selected(s) \subseteq Remembered
BY DEF RowsRemembered, LinksRemembered, Selected, Remembered

LEMMA PurgeClears ==
    ASSUME StoreInv, NEW p \in Procs, JobKept(p), PurgeSubjectKept(p),
           purgedIds = [q \in Procs |-> purgedIds[q]]
    PROVE  /\ Grows /\ LinksRemembered' /\ ErasedUnlinked'
           /\ Cleared(purgedIds[p])'
           /\ job[p].subject \in erased'
<1>0. TypeOK /\ LinksRemembered /\ ErasedUnlinked /\ RowsRemembered
  BY DEF StoreInv, ErasureInv
<1>1. PICK gone, s : gone = PurgeSet(p) /\ s = job[p].subject
  OBVIOUS
<1>2. /\ memories' = [m \in Mems |-> IF m \in gone THEN NoRow ELSE memories[m]]
      /\ edges' = EdgesAvoiding(gone)
      /\ lineage' = {l \in LineageAvoiding(gone) : l[2] # s}
      /\ erased' = erased \cup {s}
      /\ purgedIds' = [purgedIds EXCEPT ![p] = gone]
      /\ UNCHANGED <<audit, again, strays, importing>>
  BY <1>1 DEF PurgeSubjectKept, PurgeSubject
<1>3. gone \subseteq Remembered
  <2>1. job[p].ids \subseteq Remembered
    BY DEF JobKept, PurgeSubjectKept, PurgeSubject
  <2> QED
    BY <1>0, <1>1, <2>1, SelectedRemembered, ReachRemembered DEF PurgeSet
<1>4. edges' \subseteq edges /\ lineage' \subseteq lineage
  BY <1>2 DEF EdgesAvoiding, LineageAvoiding
<1>5. Remembered' = Remembered
  BY <1>2 DEF Remembered
<1>6. Grows
  BY <1>2, <1>4 DEF Grows, Stored
<1>7. LinksRemembered'
  BY <1>0, <1>2, <1>4, <1>5 DEF LinksRemembered
<1>8. ErasedUnlinked'
  BY <1>0, <1>2, <1>4 DEF ErasedUnlinked
<1>9. Cleared(gone)'
  <2>1. gone \subseteq Mems
    BY <1>3 DEF Remembered
  <2>2. \A m \in gone : ~Stored(m)'
    BY <1>2, <2>1 DEF Stored
  <2>3. \A l \in lineage' : l[1] \notin gone
    BY <1>2 DEF LineageAvoiding
  <2>4. \A e \in edges' : e[1] \notin gone /\ e[2] \notin gone
    BY <1>2 DEF EdgesAvoiding
  <2> QED
    BY <1>3, <1>5, <2>2, <2>3, <2>4 DEF Cleared
<1>10. purgedIds'[p] = gone
  BY <1>2
<1> QED
  BY <1>1, <1>2, <1>6, <1>7, <1>8, <1>9, <1>10 DEF Cleared

(***************************************************************************)
(* The steps.                                                              *)
(***************************************************************************)
\* A step that leaves the rows or takes some away keeps the store's part.
LEMMA LeavesKeep ==
    ASSUME StoreInv, NEW p \in Procs, Leaves(p), strays' = strays,
           \/ importing' = importing
           \/ importing' = NoImport
    PROVE  Grows /\ LinksRemembered' /\ ErasedUnlinked'
<1> USE DEF Leaves, StoreInv
<1>1. Grows
  BY DEF Grows, Stored
<1>2. Remembered \subseteq Remembered'
  BY DEF Remembered
<1>3. LinksRemembered'
  BY <1>2 DEF LinksRemembered
<1>4. ErasedUnlinked'
  BY DEF ErasedUnlinked
<1> QED
  BY <1>1, <1>3, <1>4

\* An index that an import has read holds ids with a row.
LEMMA IndexRemembered ==
    ASSUME StoreInv, ImportIndex
    PROVE  Grows /\ LinksRemembered' /\ ErasedUnlinked'
<1>1. PICK links \in SUBSET (Mems \X Mems) :
        importing' = [at |-> "insert", index |-> {m \in Mems : Stored(m)},
                      links |-> links \cap Known({m \in Mems : Stored(m)})]
  BY DEF ImportIndex
<1>2. UNCHANGED <<memories, edges, lineage, audit, again, erased, strays>>
  BY DEF ImportIndex, vars, fileVars, history
<1>3. Remembered' = Remembered /\ {m \in Mems : Stored(m)} \subseteq Remembered
  BY <1>2 DEF Remembered, StoreInv, RowsRemembered
<1>4. importing'.index \subseteq Remembered /\ importing'.links \subseteq Known(importing'.index)
  BY <1>1, <1>3
<1>5. LinksRemembered'
  BY <1>2, <1>3, <1>4 DEF LinksRemembered, StoreInv, Known
<1> QED
  BY <1>2, <1>5 DEF Grows, Stored, StoreInv, ErasedUnlinked

\* A process keeps to what its erasure or its draft is about.
LEMMA JobOfOthers ==
    ASSUME Grows, NEW q \in Procs, JobKept(q), job'[q] = job[q]
    PROVE  JobKept(q)'
<1>1. Remembered \subseteq Remembered'
  BY DEF Grows, Remembered
<1> QED
  BY <1>1 DEF JobKept, Grows

LEMMA JobOfStep ==
    ASSUME StoreInv, NEW p \in Procs, JobKept(p), Grows,
           \/ PurgeSubjectKept(p) \/ RecordForgetReceipt(p) \/ InsertEdges(p)
           \/ OtherStep(p) \/ CrashUnsigned(p)
    PROVE  JobKept(p)'
<1>0. TypeOK /\ LinksRemembered /\ RowsRemembered
  BY DEF StoreInv, ErasureInv
<1>1. Remembered \subseteq Remembered' /\ erased \subseteq erased'
  BY DEF Grows, Remembered
<1> USE DEF JobKept
<1>2. CASE PurgeSubjectKept(p)
  BY <1>0, <1>2 DEF PurgeSubjectKept, PurgeSubject, TypeOK
<1>3. CASE InsertEdges(p)
  <2>1. PICK d : d = job[p].draft
    OBVIOUS
  <2> QED
    BY <1>0, <1>3, <2>1, InsertLinks
<1>4. CASE RememberStart(p)
  BY <1>0, <1>4 DEF RememberStart, TypeOK
<1>5. CASE KeyRead(p) \/ KeyCreate(p)
  BY <1>0, <1>5 DEF KeyRead, KeyCreate, Idle, TypeOK
<1>6. CASE InsertRefused(p) \/ IndexAdd(p) \/ RecordForget(p) \/ RecordPurge(p) \/ Open(p)
           \/ Crash(p)
  BY <1>0, <1>6 DEF InsertRefused, IndexAdd, RecordForget, RecordPurge, Open, Crash, Idle, Down,
                    TypeOK
<1>7. CASE ForgetStart(p)
  <2>1. PICK s \in Subjects :
          job' = [job EXCEPT ![p] = [at |-> "shred", subject |-> s, ids |-> Selected(s)]]
    BY <1>7 DEF ForgetStart
  <2>2. Selected(s) \subseteq Remembered
    BY <1>0, SelectedRemembered
  <2>3. job'[p] = [at |-> "shred", subject |-> s, ids |-> Selected(s)]
    BY <1>0, <2>1 DEF TypeOK
  <2> QED
    BY <1>1, <2>2, <2>3
<1>8. CASE Shred(p)
  <2>1. job[p] \in ForgetJob
    BY <1>0, <1>8, JobKinds DEF Shred, TypeOK
  <2>2. job'[p].at = "erase" /\ job'[p].ids = job[p].ids
    BY <1>0, <1>8, <2>1 DEF Shred, TypeOK, ForgetJob
  <2> QED
    BY <1>1, <1>8, <2>2 DEF Shred
<1>9. CASE Evict(p)
  BY <1>0, <1>1, <1>9 DEF Evict, TypeOK
<1>10. CASE PurgeRow(p)
  BY <1>0, <1>10 DEF PurgeRow, TypeOK
<1>11. CASE Unindex(p)
  <2>1. job[p] \in PurgeJob
    BY <1>0, <1>11, JobKinds DEF Unindex, TypeOK
  <2> QED
    BY <1>0, <1>11, <2>1 DEF Unindex, TypeOK, PurgeJob
<1> QED
  BY <1>2, <1>3, <1>4, <1>5, <1>6, <1>7, <1>8, <1>9, <1>10, <1>11
     DEF OtherStep, CrashUnsigned, RecordForgetReceipt, Purge

\* The erasure invariant is about no edge.
LEMMA ImportKeepsErasure ==
    ASSUME ErasureInv, ImportCommit, edges' \subseteq Mems \X Mems
    PROVE  ErasureInv'
<1>1. UNCHANGED <<memories, lineage, keys, vectors, vecTable, audit, text, job, history>>
  BY DEF ImportCommit
<1>2. TypeOK'
  BY <1>1 DEF ErasureInv, TypeOK, history
<1>3. RowsDecryptable' /\ JobsHoldKeys'
  BY <1>1 DEF ErasureInv, RowsDecryptable, JobsHoldKeys, HoldsKeys, Stored
<1>4. ErasedShredded' /\ ErasedSubjectsGone'
  BY <1>1 DEF ErasureInv, ErasedShredded, ErasedSubjectsGone, Stored, history
<1> QED
  BY <1>2, <1>3, <1>4 DEF ErasureInv

\* What a signed receipt names was purged by the process that signs it.
LEMMA ReceiptsOfStep ==
    ASSUME ReceiptInv, ReceiptNext, NEW r \in receipts', r \notin receipts
    PROVE  r.subject \in erased /\ \E p \in Procs : r.purged = purgedIds[p]
<1>1. PICK p \in Procs : RecordForgetReceipt(p)
  BY DEF ReceiptNext, PurgeSubjectKept, InsertEdges, OtherStep, CrashUnsigned, ImportIndex,
         ImportCommit, ImportFails, receiptVars
<1>2. r = [subject |-> job[p].subject, purged |-> purgedIds[p]]
  BY <1>1 DEF RecordForgetReceipt
<1>3. job[p].subject \in erased
  BY <1>1 DEF RecordForgetReceipt, RecordForget, ReceiptInv, JobKept
<1> QED
  BY <1>2, <1>3

\* ReceiptInv is inductive.
LEMMA ReceiptStep == ReceiptInv /\ [ReceiptNext]_allVars => ReceiptInv'
<1> SUFFICES ASSUME ReceiptInv, [ReceiptNext]_allVars PROVE ReceiptInv'
  OBVIOUS
<1>0. /\ StoreInv /\ TypeOK /\ RowsRemembered
      /\ purgedIds = [q \in Procs |-> purgedIds[q]]
      /\ \A q \in Procs : JobKept(q) /\ Cleared(purgedIds[q])
  BY DEF ReceiptInv, StoreInv, ErasureInv
<1> DEFINE Kept == Grows /\ LinksRemembered' /\ ErasedUnlinked'
<1>1. ASSUME [Next]_vars PROVE ErasureInv' /\ RowsRemembered'
  BY <1>0, <1>1, ErasureStep, RememberedStep DEF StoreInv
<1>2. ASSUME Kept, ErasureInv', RowsRemembered',
             \A q \in Procs : JobKept(q)',
             purgedIds' = [q \in Procs |-> purgedIds'[q]],
             \A q \in Procs : \/ purgedIds'[q] \in {purgedIds[q], {}}
                               \/ Cleared(purgedIds[q])',
             receipts' # receipts => ReceiptNext
      PROVE  ReceiptInv'
  <2>1. StoreInv'
    BY <1>2 DEF StoreInv
  <2>2. ASSUME NEW q \in Procs PROVE Cleared(purgedIds[q])'
    <3>1. PICK gone : gone = purgedIds'[q]
      OBVIOUS
    <3>2. CASE gone \in {purgedIds[q], {}}
      <4>1. Cleared(gone)
        BY <1>0, <3>2 DEF Cleared
      <4>2. Cleared(gone)'
        BY <1>2, <4>1, ClearedStays
      <4> QED
        BY <3>1, <4>2 DEF Cleared
    <3> QED
      BY <1>2, <3>1, <3>2
  <2>3. ASSUME NEW r \in receipts' PROVE r.subject \in erased' /\ Cleared(r.purged)'
    <3>1. r.subject \in erased /\ Cleared(r.purged)
      BY <1>0, <1>2, <2>3, ReceiptsOfStep DEF ReceiptInv
    <3> QED
      BY <1>2, <3>1, ClearedStays DEF Grows
  <2>4. \A r \in receipts' : r.subject \in erased' /\ Cleared(r.purged)'
    BY <2>3
  <2> QED
    BY <1>2, <2>1, <2>2, <2>4 DEF ReceiptInv, Cleared
<1>3. ASSUME NEW p \in Procs,
             \/ PurgeSubjectKept(p) \/ RecordForgetReceipt(p) \/ InsertEdges(p)
             \/ OtherStep(p) \/ CrashUnsigned(p)
      PROVE  ReceiptInv'
  <2>1. ErasureInv' /\ RowsRemembered'
    BY <1>1, <1>3, StoreSteps
  <2>2. Kept
    <3>1. CASE PurgeSubjectKept(p)
      BY <1>0, <3>1, PurgeClears
    <3>2. CASE InsertEdges(p)
      BY <1>0, <3>2, InsertGrows
    <3>3. CASE OtherStep(p) \/ CrashUnsigned(p) \/ RecordForgetReceipt(p)
      <4>1. strays' = strays /\ importing' = importing
        BY <3>3 DEF OtherStep, CrashUnsigned, RecordForgetReceipt, receiptVars
      <4> QED
        BY <1>0, <3>3, <4>1, OthersLeave, LeavesKeep
    <3> QED
      BY <1>3, <3>1, <3>2, <3>3
  <2>3. ASSUME NEW q \in Procs, q # p PROVE job'[q] = job[q]
    <3>1. CASE PurgeSubjectKept(p)
      BY <1>0, <2>3, <3>1 DEF PurgeSubjectKept, PurgeSubject, TypeOK
    <3>2. CASE InsertEdges(p)
      <4>1. PICK d : d = job[p].draft
        OBVIOUS
      <4> QED
        BY <1>0, <2>3, <3>2, <4>1, InsertLinks
    <3> QED
      BY <1>0, <1>3, <2>3, <3>1, <3>2, OthersLeave DEF Leaves
  <2>4. \A q \in Procs : JobKept(q)'
    BY <1>0, <1>3, <2>2, <2>3, JobOfStep, JobOfOthers
  <2>5. /\ purgedIds' = [q \in Procs |-> purgedIds'[q]]
        /\ \A q \in Procs : \/ purgedIds'[q] \in {purgedIds[q], {}}
                             \/ Cleared(purgedIds[q])'
    <3>1. CASE PurgeSubjectKept(p)
      <4>1. Cleared(purgedIds[p])'
        BY <1>0, <3>1, PurgeClears
      <4>2. PICK gone : purgedIds' = [purgedIds EXCEPT ![p] = gone]
        BY <3>1 DEF PurgeSubjectKept
      <4>3. \A q \in Procs : q # p => purgedIds'[q] = purgedIds[q]
        BY <1>0, <4>2
      <4>4. purgedIds' = [q \in Procs |-> purgedIds'[q]]
        BY <1>0, <4>2
      <4> QED
        BY <4>1, <4>3, <4>4
    <3>2. CASE purgedIds' \in {purgedIds, [purgedIds EXCEPT ![p] = {}]}
      BY <1>0, <3>2
    <3> QED
      BY <1>3, <3>1, <3>2
         DEF RecordForgetReceipt, InsertEdges, OtherStep, CrashUnsigned, receiptVars
  <2> QED
    BY <1>2, <1>3, <2>1, <2>2, <2>4, <2>5 DEF ReceiptNext
<1>4. CASE ImportCommit
  <2>1. /\ Grows /\ LinksRemembered' /\ edges' \subseteq Mems \X Mems
        /\ UNCHANGED <<memories, lineage, audit, again, erased, job, purgedIds, receipts>>
    BY <1>0, <1>4, ImportGrows
  <2>2. ErasureInv' /\ RowsRemembered'
    BY <1>0, <1>4, <2>1, ImportKeepsErasure DEF StoreInv, RowsRemembered, Stored
  <2>3. ErasedUnlinked'
    BY <1>0, <2>1 DEF StoreInv, ErasedUnlinked
  <2>4. \A q \in Procs : JobKept(q)'
    BY <1>0, <2>1, JobOfOthers
  <2> QED
    BY <1>0, <1>2, <2>1, <2>2, <2>3, <2>4
<1>5. CASE ImportIndex
  <2>1. Kept /\ UNCHANGED <<vars, purgedIds, receipts>>
    BY <1>0, <1>5, IndexRemembered DEF ImportIndex
  <2>2. ErasureInv' /\ RowsRemembered' /\ UNCHANGED job
    BY <1>1, <2>1 DEF vars
  <2>3. \A q \in Procs : JobKept(q)'
    BY <1>0, <2>1, <2>2, JobOfOthers
  <2> QED
    BY <1>0, <1>2, <2>1, <2>2, <2>3
<1>6. CASE ImportFails \/ UNCHANGED allVars
  <2>1. /\ UNCHANGED <<vars, purgedIds, receipts, strays>>
        /\ importing' = importing \/ importing' = NoImport
    BY <1>6 DEF ImportFails, allVars, receiptVars
  <2>2. ErasureInv' /\ RowsRemembered' /\ UNCHANGED job
    BY <1>1, <2>1 DEF vars
  <2>3. Kept
    BY <1>0, <2>1 DEF vars, fileVars, history, Grows, Stored, StoreInv, LinksRemembered,
                      ErasedUnlinked, Remembered
  <2>4. \A q \in Procs : JobKept(q)'
    BY <1>0, <2>2, <2>3, JobOfOthers
  <2> QED
    BY <1>0, <1>2, <2>1, <2>2, <2>3, <2>4
<1> QED
  BY <1>3, <1>4, <1>5, <1>6 DEF ReceiptNext

LEMMA ReceiptInitial == ReceiptInit => ReceiptInv
<1> SUFFICES ASSUME ReceiptInit PROVE ReceiptInv
  OBVIOUS
<1>1. ErasureInv
  BY ErasureInit DEF ReceiptInit
<1> QED
  BY <1>1 DEF ReceiptInit, Init, ReceiptInv, StoreInv, RowsRemembered, LinksRemembered,
              ErasedUnlinked, JobKept, Cleared, Stored, Idle, NoImport

\* An erasure receipt keeps passing verify_erasure_store but for ids used again and
\* edges drawn past a purge (client.py, receipts.py): for any processes and subjects.
THEOREM ReceiptsStand == ReceiptSpec => []ReceiptStands
<1>1. ReceiptInv => ReceiptStands
  <2> SUFFICES ASSUME ReceiptInv, NEW r \in receipts
               PROVE  /\ KeyTombstone(r) /\ SubjectRows(r) = {} /\ SubjectLineage(r) = {}
                      /\ NamedRows(r) \subseteq again
                      /\ \A l \in NamedLineage(r) : l[1] \in again
                      /\ \A e \in NamedEdges(r) :
                            e \in strays \/ e[1] \in again \/ e[2] \in again
    BY DEF ReceiptStands
  <2>1. r.subject \in erased /\ Cleared(r.purged) /\ ErasureInv /\ ErasedUnlinked
    BY DEF ReceiptInv, StoreInv
  <2>2. KeyTombstone(r) /\ SubjectRows(r) = {} /\ SubjectLineage(r) = {}
    BY <2>1 DEF ErasureInv, ErasedShredded, ErasedSubjectsGone, ErasedUnlinked, KeyTombstone,
                SubjectRows, SubjectLineage
  <2> QED
    BY <2>1, <2>2 DEF Cleared, NamedRows, NamedLineage, NamedEdges
<1> QED
  BY <1>1, ReceiptInitial, ReceiptStep, PTL DEF ReceiptSpec

================================================================================
