-------------------------- MODULE GovernedStoreProofs --------------------------
(***************************************************************************)
(* Machine-checked proofs about GovernedStore.                             *)
(***************************************************************************)
EXTENDS GovernedStore, TLAPS

\* A job is of the kind its next transaction says.
LEMMA JobKinds ==
    ASSUME NEW j \in Job
    PROVE  /\ j.at \in {"key", "create"} => j \in KeyJob
           /\ j.at = "insert" => j \in InsertJob
           /\ j.at = "index" => j \in IndexJob
           /\ j.at \in {"shred", "erase", "evict"} => j \in ForgetJob
           /\ j.at = "recordForget" => j \in RecordJob
           /\ j.at \in {"unindex", "recordPurge"} => j \in PurgeJob
           /\ j.at = "rewrap" => j \in RewrapJob
           /\ j.at = "decrypt" => j \in DecryptJob
           /\ j.at = "serve" => j \in ServeJob
<1> USE DEF Job, RestJob, KeyJob, InsertJob, IndexJob, ForgetJob, RecordJob, PurgeJob,
            RewrapJob, DecryptJob, ServeJob
<1>1. CASE j \in RestJob  BY <1>1
<1>2. CASE j \in KeyJob  BY <1>2
<1>3. CASE j \in InsertJob  BY <1>3
<1>4. CASE j \in IndexJob  BY <1>4
<1>5. CASE j \in ForgetJob  BY <1>5
<1>6. CASE j \in RecordJob  BY <1>6
<1>7. CASE j \in PurgeJob  BY <1>7
<1>8. CASE j \in RewrapJob  BY <1>8
<1>9. CASE j \in DecryptJob  BY <1>9
<1>10. CASE j \in ServeJob  BY <1>10
<1> QED
  BY <1>1, <1>2, <1>3, <1>4, <1>5, <1>6, <1>7, <1>8, <1>9, <1>10

\* Both resting states are jobs, and so is a job of every kind.
LEMMA JobsOfKind ==
    /\ Idle \in Job
    /\ Down \in Job
    /\ KeyJob \subseteq Job /\ InsertJob \subseteq Job /\ IndexJob \subseteq Job
    /\ ForgetJob \subseteq Job /\ RecordJob \subseteq Job /\ PurgeJob \subseteq Job
    /\ RewrapJob \subseteq Job /\ DecryptJob \subseteq Job /\ ServeJob \subseteq Job
<1>1. Idle \in RestJob /\ Down \in RestJob
  BY DEF Idle, Down, RestJob
<1> QED
  BY <1>1 DEF Job

\* The part of the type invariant that is not about jobs.
FileTypeOK ==
    /\ memories \in [Mems -> Row \cup {NoRow}]
    /\ edges \subseteq Mems \X Mems
    /\ lineage \subseteq Mems \X Subjects
    /\ keys \in [Subjects -> KeyState]
    /\ vectors \in [Mems -> Taint]
    /\ vecTable \in BOOLEAN
    /\ audit \subseteq ({"remember", "purge"} \X Mems) \cup ({"forget"} \X Subjects)
    /\ text \in [Procs -> [Mems -> Taint]]
    /\ erased \subseteq Subjects
    /\ severed \subseteq Mems
    /\ filePurged \subseteq Mems
    /\ again \subseteq Mems

\* The two parts make up the type invariant.
LEMMA TypeParts == TypeOK <=> FileTypeOK /\ job \in [Procs -> Job]
BY DEF TypeOK, FileTypeOK

\* The initial state is well typed.
LEMMA TypeInit == Init => TypeOK
<1> SUFFICES ASSUME Init PROVE TypeOK
  OBVIOUS
<1>1. job \in [Procs -> Job]
  BY JobsOfKind DEF Init
<1>2. FileTypeOK
  BY DEF Init, FileTypeOK, KeyState, Taint
<1> QED
  BY <1>1, <1>2, TypeParts

\* Every step keeps the types.
LEMMA TypeStep == TypeOK /\ [Next]_vars => TypeOK'
<1> SUFFICES ASSUME TypeOK, [Next]_vars PROVE TypeOK'
  OBVIOUS
<1>a. FileTypeOK /\ job \in [Procs -> Job]
  BY TypeParts
<1>b. ASSUME FileTypeOK', job' \in [Procs -> Job] PROVE TypeOK'
  BY <1>b DEF TypeOK, FileTypeOK
<1>c. ASSUME UNCHANGED <<fileVars, text, history>> PROVE FileTypeOK'
  BY <1>a, <1>c DEF FileTypeOK, fileVars, history
<1>1. ASSUME NEW p \in Procs, RememberStart(p) PROVE TypeOK'
  <2>1. PICK m \in Mems, s \in Subjects, aliases \in SUBSET Subjects, derived \in SUBSET Mems :
          LET live  == {d \in derived : Stored(d)}
              names == {s} \cup aliases
          IN  job' = [job EXCEPT ![p] =
                       [at |-> "key",
                        draft |-> [mem |-> m, subject |-> s, names |-> names,
                                   derived |-> derived, live |-> live,
                                   taint |-> names \cup
                                       UNION {memories[d].taint : d \in live}]]]
    BY <1>1 DEF RememberStart
  <2> DEFINE live == {d \in derived : Stored(d)}
             taint == {s} \cup aliases \cup UNION {memories[d].taint : d \in live}
             draft == [mem |-> m, subject |-> s, names |-> {s} \cup aliases,
                       derived |-> derived, live |-> live, taint |-> taint]
  <2>2. \A d \in live : memories[d].taint \subseteq Subjects
    BY <1>a DEF FileTypeOK, Stored, Row
  <2>3. taint \in Taint
    BY <2>2 DEF Taint
  <2>4. draft \in Draft
    BY <2>3 DEF Draft
  <2>5. [at |-> "key", draft |-> draft] \in KeyJob
    BY <2>4 DEF KeyJob
  <2>6. job' = [job EXCEPT ![p] = [at |-> "key", draft |-> draft]]
    BY <2>1
  <2>7. job' \in [Procs -> Job]
    BY <2>5, <2>6, <1>a, JobsOfKind
  <2> QED
    BY <2>7, <1>1, <1>b, <1>c DEF RememberStart
<1>2. ASSUME NEW p \in Procs, KeyRead(p) PROVE TypeOK'
  <2>1. job[p] \in KeyJob
    BY <1>2, <1>a, JobKinds DEF KeyRead
  <2> DEFINE d == job[p].draft
  <2>2. d \in Draft /\ keys[d.subject] \in KeyState
    BY <2>1, <1>a DEF KeyJob, Draft, FileTypeOK
  <2>3. [at |-> "create", draft |-> d] \in KeyJob
    BY <2>2 DEF KeyJob
  <2>4. keys[d.subject] \in Procs
          => [at |-> "insert", draft |-> d, dek |-> keys[d.subject]] \in InsertJob
    BY <2>2 DEF InsertJob
  <2>5. job' \in [Procs -> Job]
    BY <2>2, <2>3, <2>4, <1>2, <1>a, JobsOfKind DEF KeyRead, KeyState
  <2> QED
    BY <2>5, <1>2, <1>b, <1>c DEF KeyRead
<1>3. ASSUME NEW p \in Procs, KeyCreate(p) PROVE TypeOK'
  <2>1. job[p] \in KeyJob
    BY <1>3, <1>a, JobKinds DEF KeyCreate
  <2> DEFINE d == job[p].draft
             k == StoredKey(d.subject, p)
  <2>2. d \in Draft /\ d.subject \in Subjects
    BY <2>1 DEF KeyJob, Draft
  <2>3. k \in Procs \cup {Shredded}
    BY <2>2, <1>a DEF StoredKey, FileTypeOK, KeyState
  <2>4. k \in Procs => [at |-> "insert", draft |-> d, dek |-> k] \in InsertJob
    BY <2>2 DEF InsertJob
  <2>5. job' \in [Procs -> Job]
    BY <2>3, <2>4, <1>3, <1>a, JobsOfKind DEF KeyCreate
  <2>6. FileTypeOK'
    BY <2>3, <1>3, <1>a DEF KeyCreate, FileTypeOK, history, KeyState
  <2> QED
    BY <2>5, <2>6, <1>b
<1>4. ASSUME NEW p \in Procs, Insert(p) PROVE TypeOK'
  <2>1. job[p] \in InsertJob
    BY <1>4, <1>a, JobKinds DEF Insert
  <2> DEFINE d == job[p].draft
  <2>2. d \in Draft /\ job[p].dek \in Procs
    BY <2>1 DEF InsertJob
  <2>3. PICK indexed \in BOOLEAN :
          /\ memories' = [memories EXCEPT ![d.mem] =
                  [subject |-> d.subject, names |-> d.names, dek |-> job[p].dek,
                   taint |-> d.taint, indexed |-> indexed]]
          /\ job' = [job EXCEPT ![p] =
                      IF indexed THEN [at |-> "index", mem |-> d.mem, taint |-> d.taint]
                      ELSE Idle]
    BY <1>4 DEF Insert
  <2>4. memories' \in [Mems -> Row \cup {NoRow}]
    BY <2>2, <2>3, <1>a DEF Row, Draft, FileTypeOK, Taint
  <2>5. [at |-> "index", mem |-> d.mem, taint |-> d.taint] \in IndexJob
    BY <2>2 DEF IndexJob, Draft
  <2>6. job' \in [Procs -> Job]
    BY <2>3, <2>5, <1>a, JobsOfKind
  <2>7. /\ edges' = edges \cup {<<d.mem, parent>> : parent \in d.derived}
        /\ lineage' = lineage \cup {<<d.mem, d.subject>>}
        /\ audit' = audit \cup {<<"remember", d.mem>>}
        /\ severed' \subseteq severed \cup {d.mem}
        /\ filePurged' = filePurged \ {d.mem}
        /\ again' \subseteq again \cup {d.mem}
        /\ UNCHANGED <<keys, vectors, vecTable, text, erased>>
    BY <1>4 DEF Insert
  <2>8. d.mem \in Mems /\ d.subject \in Subjects /\ d.derived \subseteq Mems
    BY <2>2 DEF Draft
  <2>9. FileTypeOK'
    BY <2>4, <2>7, <2>8, <1>a DEF FileTypeOK
  <2> QED
    BY <2>6, <2>9, <1>b
<1>5. ASSUME NEW p \in Procs, InsertRefused(p) PROVE TypeOK'
  <2>1. job' \in [Procs -> Job]
    BY <1>5, <1>a, JobsOfKind DEF InsertRefused
  <2> QED
    BY <2>1, <1>5, <1>b, <1>c DEF InsertRefused
<1>6. ASSUME NEW p \in Procs, IndexAdd(p) PROVE TypeOK'
  <2>1. job[p] \in IndexJob
    BY <1>6, <1>a, JobKinds DEF IndexAdd
  <2>2. job[p].mem \in Mems /\ job[p].taint \in Taint
    BY <2>1 DEF IndexJob
  <2>3. job' \in [Procs -> Job]
    BY <1>6, <1>a, JobsOfKind DEF IndexAdd
  <2>4. text' \in [Procs -> [Mems -> Taint]]
    BY <2>2, <1>6, <1>a DEF IndexAdd, FileTypeOK
  <2>5. vectors' \in [Mems -> Taint] /\ vecTable' \in BOOLEAN
    BY <2>2, <1>6, <1>a DEF IndexAdd, VectorIfStored, FileTypeOK, Taint
  <2>6. FileTypeOK'
    BY <2>4, <2>5, <1>6, <1>a DEF IndexAdd, FileTypeOK, history
  <2> QED
    BY <2>3, <2>6, <1>b
<1>7. ASSUME NEW p \in Procs, ForgetStart(p) PROVE TypeOK'
  <2>1. \A s \in Subjects : Selected(s) \subseteq Mems
    BY DEF Selected
  <2>2. \A s \in Subjects : [at |-> "shred", subject |-> s, ids |-> Selected(s)] \in ForgetJob
    BY <2>1 DEF ForgetJob
  <2>3. job' \in [Procs -> Job]
    BY <2>2, <1>7, <1>a, JobsOfKind DEF ForgetStart
  <2> QED
    BY <2>3, <1>7, <1>b, <1>c DEF ForgetStart
<1>8. ASSUME NEW p \in Procs, Shred(p) PROVE TypeOK'
  <2>1. job[p] \in ForgetJob
    BY <1>8, <1>a, JobKinds DEF Shred
  <2>2. [job[p] EXCEPT !.at = "erase"] \in ForgetJob
    BY <2>1 DEF ForgetJob
  <2>3. job' = [job EXCEPT ![p] = [job[p] EXCEPT !.at = "erase"]]
    BY <1>8 DEF Shred
  <2>4. job' \in [Procs -> Job]
    BY <2>2, <2>3, <1>a, JobsOfKind
  <2>5. FileTypeOK'
    BY <1>8, <1>a DEF Shred, FileTypeOK, history, KeyState
  <2> QED
    BY <2>4, <2>5, <1>b
<1>9. ASSUME NEW p \in Procs, PurgeSubject(p) PROVE TypeOK'
  <2>1. job[p] \in ForgetJob
    BY <1>9, <1>a, JobKinds DEF PurgeSubject
  <2>2. job[p].subject \in Subjects
    BY <2>1 DEF ForgetJob
  <2>3. PurgeSet(p) \subseteq Mems
    BY DEF PurgeSet, Reach
  <2>4. [at |-> "evict", subject |-> job[p].subject, ids |-> PurgeSet(p)] \in ForgetJob
    BY <2>2, <2>3 DEF ForgetJob
  <2>5. job' \in [Procs -> Job]
    BY <2>4, <1>9, <1>a, JobsOfKind DEF PurgeSubject
  <2>6. memories' \in [Mems -> Row \cup {NoRow}] /\ vectors' \in [Mems -> Taint]
    BY <1>9, <1>a DEF PurgeSubject, FileTypeOK, Taint
  <2>7. /\ edges' \subseteq edges /\ lineage' \subseteq lineage
        /\ erased' = erased \cup {job[p].subject}
        /\ UNCHANGED <<keys, vecTable, audit, text, severed, filePurged, again>>
    BY <1>9 DEF PurgeSubject, EdgesAvoiding, LineageAvoiding
  <2>8. FileTypeOK'
    BY <2>2, <2>6, <2>7, <1>a DEF FileTypeOK
  <2> QED
    BY <2>5, <2>8, <1>b
<1>10. ASSUME NEW p \in Procs, PurgeStranded(p) PROVE TypeOK'
  <2>1. job' \in [Procs -> Job]
    BY <1>10, <1>a, JobsOfKind DEF PurgeStranded
  <2> QED
    BY <2>1, <1>10, <1>b, <1>c DEF PurgeStranded
<1>11. ASSUME NEW p \in Procs, Evict(p) PROVE TypeOK'
  <2>1. job[p] \in ForgetJob
    BY <1>11, <1>a, JobKinds DEF Evict
  <2>2. [at |-> "recordForget", subject |-> job[p].subject] \in RecordJob
    BY <2>1 DEF ForgetJob, RecordJob
  <2>3. job' \in [Procs -> Job]
    BY <2>2, <1>11, <1>a, JobsOfKind DEF Evict
  <2>4. text' \in [Procs -> [Mems -> Taint]] /\ vectors' \in [Mems -> Taint]
    BY <1>11, <1>a DEF Evict, FileTypeOK, Taint
  <2>5. FileTypeOK'
    BY <2>4, <1>11, <1>a DEF Evict, FileTypeOK, history
  <2> QED
    BY <2>3, <2>5, <1>b
<1>12. ASSUME NEW p \in Procs, RecordForget(p) PROVE TypeOK'
  <2>1. job[p] \in RecordJob
    BY <1>12, <1>a, JobKinds DEF RecordForget
  <2>2. job' \in [Procs -> Job]
    BY <1>12, <1>a, JobsOfKind DEF RecordForget
  <2>3. FileTypeOK'
    BY <2>1, <1>12, <1>a DEF RecordForget, FileTypeOK, history, RecordJob
  <2> QED
    BY <2>2, <2>3, <1>b
<1>13. ASSUME NEW p \in Procs, PurgeRow(p) PROVE TypeOK'
  <2>1. PICK m \in Mems :
          /\ text' = [text EXCEPT ![p][m] = {}]
          /\ memories' = [memories EXCEPT ![m] = NoRow]
          /\ edges' = EdgesAvoiding({m})
          /\ lineage' = LineageAvoiding({m})
          /\ severed' = severed \cup (Reach({m}) \ {m})
          /\ filePurged' = IF Stored(m) THEN filePurged \cup {m} ELSE filePurged
          /\ job' = [job EXCEPT ![p] = [at |-> "unindex", mem |-> m]]
    BY <1>13 DEF PurgeRow
  <2>2. [at |-> "unindex", mem |-> m] \in PurgeJob
    BY DEF PurgeJob
  <2>3. job' \in [Procs -> Job]
    BY <2>1, <2>2, <1>a, JobsOfKind
  <2>4. memories' \in [Mems -> Row \cup {NoRow}] /\ text' \in [Procs -> [Mems -> Taint]]
    BY <2>1, <1>a DEF FileTypeOK, Taint
  <2>5. edges' \subseteq edges /\ lineage' \subseteq lineage /\ severed' \subseteq Mems
    BY <2>1, <1>a DEF FileTypeOK, EdgesAvoiding, LineageAvoiding, Reach
  <2>6. filePurged' \subseteq Mems
    BY <2>1, <1>a DEF FileTypeOK
  <2>7. FileTypeOK'
    BY <2>4, <2>5, <2>6, <1>13, <1>a DEF PurgeRow, FileTypeOK
  <2> QED
    BY <2>3, <2>7, <1>b
<1>14. ASSUME NEW p \in Procs, Unindex(p) PROVE TypeOK'
  <2>1. job[p] \in PurgeJob
    BY <1>14, <1>a, JobKinds DEF Unindex
  <2>2. [job[p] EXCEPT !.at = "recordPurge"] \in PurgeJob
    BY <2>1 DEF PurgeJob
  <2>3. job' = [job EXCEPT ![p] = [job[p] EXCEPT !.at = "recordPurge"]]
    BY <1>14 DEF Unindex
  <2>4. job' \in [Procs -> Job]
    BY <2>2, <2>3, <1>a, JobsOfKind
  <2>5. vectors' \in [Mems -> Taint]
    BY <1>14, <1>a DEF Unindex, FileTypeOK, Taint
  <2>6. FileTypeOK'
    BY <2>5, <1>14, <1>a DEF Unindex, FileTypeOK, history
  <2> QED
    BY <2>4, <2>6, <1>b
<1>15. ASSUME NEW p \in Procs, RecordPurge(p) PROVE TypeOK'
  <2>1. job[p] \in PurgeJob
    BY <1>15, <1>a, JobKinds DEF RecordPurge
  <2>2. job' \in [Procs -> Job]
    BY <1>15, <1>a, JobsOfKind DEF RecordPurge
  <2>3. FileTypeOK'
    BY <2>1, <1>15, <1>a DEF RecordPurge, FileTypeOK, history, PurgeJob
  <2> QED
    BY <2>2, <2>3, <1>b
<1>16. ASSUME NEW p \in Procs, RewrapList(p) PROVE TypeOK'
  <2> DEFINE held == {<<s, keys[s]>> : s \in {u \in Subjects : keys[u] \in Procs}}
  <2>1. [at |-> "rewrap", held |-> held] \in RewrapJob
    BY DEF RewrapJob
  <2>2. job' \in [Procs -> Job]
    BY <2>1, <1>16, <1>a, JobsOfKind DEF RewrapList
  <2> QED
    BY <2>2, <1>16, <1>b, <1>c DEF RewrapList
<1>17. ASSUME NEW p \in Procs, RewrapPut(p) PROVE TypeOK'
  <2>1. job[p] \in RewrapJob
    BY <1>17, <1>a, JobKinds DEF RewrapPut
  <2>2. PICK e \in job[p].held :
          /\ keys' = PutKey(e[1], e[2])
          /\ job' = [job EXCEPT ![p].held = @ \ {e}]
    BY <1>17 DEF RewrapPut
  <2>3. e \in Subjects \X Procs
    BY <2>1 DEF RewrapJob
  <2>4. [job[p] EXCEPT !.held = @ \ {e}] \in RewrapJob
    BY <2>1 DEF RewrapJob
  <2>5. job' = [job EXCEPT ![p] = [job[p] EXCEPT !.held = @ \ {e}]]
    BY <2>2
  <2>6. job' \in [Procs -> Job]
    BY <2>4, <2>5, <1>a, JobsOfKind
  <2>7. keys' \in [Subjects -> KeyState]
    BY <2>2, <2>3, <1>a DEF PutKey, FileTypeOK, KeyState
  <2>8. FileTypeOK'
    BY <2>7, <1>17, <1>a DEF RewrapPut, FileTypeOK, history
  <2> QED
    BY <2>6, <2>8, <1>b
<1>18. ASSUME NEW p \in Procs, RewrapDone(p) PROVE TypeOK'
  <2>1. job' \in [Procs -> Job]
    BY <1>18, <1>a, JobsOfKind DEF RewrapDone
  <2> QED
    BY <2>1, <1>18, <1>b, <1>c DEF RewrapDone
<1>19. ASSUME NEW p \in Procs, RecallStart(p) PROVE TypeOK'
  <2> DEFINE j == [at |-> "decrypt", snap |-> memories,
                   todo |-> {m \in Mems : Stored(m) /\ memories[m].indexed},
                   texts |-> [m \in Mems |-> {}]]
  <2>1. j \in DecryptJob
    BY <1>a DEF DecryptJob, FileTypeOK, Taint
  <2>2. job' \in [Procs -> Job]
    BY <2>1, <1>19, <1>a, JobsOfKind DEF RecallStart
  <2> QED
    BY <2>2, <1>19, <1>b, <1>c DEF RecallStart
<1>20. ASSUME NEW p \in Procs, RecallDecrypt(p) PROVE TypeOK'
  <2>1. job[p] \in DecryptJob
    BY <1>20, <1>a, JobKinds DEF RecallDecrypt
  <2>2. PICK m \in job[p].todo :
          /\ text' = [text EXCEPT ![p][m] = Decrypted(p, m)]
          /\ job' = [job EXCEPT ![p].todo = @ \ {m}, ![p].texts[m] = Decrypted(p, m)]
    BY <1>20 DEF RecallDecrypt
  <2>3. m \in Mems
    BY <2>1 DEF DecryptJob
  <2>4. Decrypted(p, m) \in Taint
    BY <2>3, <1>a DEF Decrypted, FileTypeOK, Stored, Row, Taint
  <2>5. [job[p] EXCEPT !.todo = @ \ {m}, !.texts[m] = Decrypted(p, m)] \in DecryptJob
    BY <2>1, <2>3, <2>4 DEF DecryptJob
  <2>6. job' = [job EXCEPT ![p] =
                  [job[p] EXCEPT !.todo = @ \ {m}, !.texts[m] = Decrypted(p, m)]]
    BY <2>2, <1>a
  <2>7. job' \in [Procs -> Job]
    BY <2>5, <2>6, <1>a, JobsOfKind
  <2>8. text' \in [Procs -> [Mems -> Taint]]
    BY <2>2, <2>3, <2>4, <1>a DEF FileTypeOK
  <2>9. FileTypeOK'
    BY <2>8, <1>20, <1>a DEF RecallDecrypt, FileTypeOK, fileVars, history
  <2> QED
    BY <2>7, <2>9, <1>b
<1>21. ASSUME NEW p \in Procs, RecallServe(p) PROVE TypeOK'
  <2>1. job[p] \in ServeJob
    BY <1>21, <1>a, JobKinds DEF RecallServe
  <2>2. PICK m \in Mems :
          job' = [job EXCEPT ![p].texts[m] = {}, ![p].results[m] = Served(p, m)]
    BY <1>21 DEF RecallServe
  <2>3. {} \in Taint /\ Served(p, m) \in Taint
    BY <2>1 DEF ServeJob, Taint, Served
  <2>4. [job[p] EXCEPT !.texts[m] = {}, !.results[m] = Served(p, m)] \in ServeJob
    BY <2>1, <2>3 DEF ServeJob
  <2>5. job' = [job EXCEPT ![p] =
                  [job[p] EXCEPT !.texts[m] = {}, !.results[m] = Served(p, m)]]
    BY <2>2, <1>a
  <2>6. job' \in [Procs -> Job]
    BY <2>4, <2>5, <1>a, JobsOfKind
  <2> QED
    BY <2>6, <1>21, <1>b, <1>c DEF RecallServe
<1>22. ASSUME NEW p \in Procs, RecallReturn(p) PROVE TypeOK'
  <2>1. job' \in [Procs -> Job]
    BY <1>22, <1>a, JobsOfKind DEF RecallReturn
  <2> QED
    BY <2>1, <1>22, <1>b, <1>c DEF RecallReturn
<1>23. ASSUME NEW p \in Procs, Crash(p) PROVE TypeOK'
  <2>1. job' \in [Procs -> Job]
    BY <1>23, <1>a, JobsOfKind DEF Crash
  <2>2. text' \in [Procs -> [Mems -> Taint]]
    BY <1>23, <1>a DEF Crash, FileTypeOK, Taint
  <2>3. FileTypeOK'
    BY <2>2, <1>23, <1>a DEF Crash, FileTypeOK, fileVars, history
  <2> QED
    BY <2>1, <2>3, <1>b
<1>24. ASSUME NEW p \in Procs, Open(p) PROVE TypeOK'
  <2>1. job' \in [Procs -> Job]
    BY <1>24, <1>a, JobsOfKind DEF Open
  <2>2. \A m \in Mems : Stored(m) => memories[m].taint \in Taint
    BY <1>a DEF FileTypeOK, Stored, Row, Taint
  <2>3. vectors' \in [Mems -> Taint]
    BY <2>2, <1>24, <1>a DEF Open, FileTypeOK, Taint
  <2>4. vecTable' \in BOOLEAN
    BY <1>24, <1>a DEF Open, FileTypeOK
  <2>5. FileTypeOK'
    BY <2>3, <2>4, <1>24, <1>a DEF Open, FileTypeOK, history
  <2> QED
    BY <2>1, <2>5, <1>b
<1>25. ASSUME NEW p \in Procs, AddEdge(p) PROVE TypeOK'
  <2>1. job' \in [Procs -> Job]
    BY <1>25, <1>a DEF AddEdge
  <2>2. FileTypeOK'
    BY <1>25, <1>a DEF AddEdge, FileTypeOK, history
  <2> QED
    BY <2>1, <2>2, <1>b
<1>26. ASSUME NEW p \in Procs, RecallRank(p) PROVE TypeOK'
  <2>1. job[p] \in DecryptJob
    BY <1>26, <1>a, JobKinds DEF RecallRank
  <2>2. [at |-> "serve", texts |-> job[p].texts, results |-> [m \in Mems |-> {}]] \in ServeJob
    BY <2>1 DEF DecryptJob, ServeJob, Taint
  <2>3. job' \in [Procs -> Job]
    BY <2>2, <1>26, <1>a, JobsOfKind DEF RecallRank
  <2> QED
    BY <2>3, <1>26, <1>b, <1>c DEF RecallRank
<1>27. CASE UNCHANGED vars
  BY <1>27, <1>a, <1>b, <1>c DEF vars, fileVars
<1> QED
  BY <1>1, <1>2, <1>3, <1>4, <1>5, <1>6, <1>7, <1>8, <1>9, <1>10, <1>11, <1>12, <1>13,
     <1>14, <1>15, <1>16, <1>17, <1>18, <1>19, <1>20, <1>21, <1>22, <1>23, <1>24, <1>25, <1>26, <1>27
     DEF Next, Remember, Forget, Purge, Rewrap, Recall

\* The type invariant is a theorem of the specification: whatever the number of
\* processes, memories and subjects, each process holds between two transactions
\* what the next one expects, and every table keeps its shape.
THEOREM TypeCorrect == Spec => []TypeOK
<1> QED
  BY TypeInit, TypeStep, PTL DEF Spec

--------------------------------------------------------------------------------
(***************************************************************************)
(* Erasure and keys.  The safety properties are not inductive: a tombstone *)
(* is safe from a re-wrap in progress only because what the re-wrap holds  *)
(* is what the table holds, and an erased subject is safe from a late      *)
(* insert only because its key is a tombstone.                             *)
(***************************************************************************)
\* What a process holds agrees with the key table: a write about to insert holds
\* the DEK of its subject's key row, a re-wrap that of every key it has still to
\* put back, unless the row has become a tombstone since; and a purge about to
\* run finds the tombstone of its subject in place.
HoldsKeys(p) ==
    /\ job[p].at = "insert" => keys[job[p].draft.subject] \in {job[p].dek, Shredded}
    /\ job[p].at = "rewrap" => \A e \in job[p].held : keys[e[1]] \in {e[2], Shredded}
    /\ job[p].at = "erase" => keys[job[p].subject] = Shredded

JobsHoldKeys == \A p \in Procs : HoldsKeys(p)

ErasedShredded == \A s \in erased : keys[s] = Shredded

ErasureInv ==
    /\ TypeOK
    /\ RowsDecryptable
    /\ JobsHoldKeys
    /\ ErasedShredded
    /\ ErasedSubjectsGone

\* A key row changes in two ways only: it is created, or becomes a tombstone.
KeysAge ==
    \A s \in Subjects : \/ keys'[s] = keys[s]
                        \/ keys'[s] = Shredded
                        \/ keys[s] = NoKey /\ keys'[s] \in Procs

\* The steps that touch no key, row or erasure and leave nobody about to.
Quiet(p) ==
    /\ UNCHANGED <<memories, keys, erased>>
    /\ \A q \in Procs : q # p => job'[q] = job[q]
    /\ \/ job' = job
       \/ job'[p].at \notin {"insert", "rewrap", "erase"}

\* The actions that are quiet.
LEMMA QuietSteps ==
    ASSUME TypeOK, NEW p \in Procs,
           \/ RememberStart(p) \/ InsertRefused(p) \/ IndexAdd(p)
           \/ ForgetStart(p) \/ PurgeStranded(p) \/ Evict(p) \/ RecordForget(p)
           \/ Unindex(p) \/ RecordPurge(p) \/ RewrapDone(p)
           \/ Recall(p) \/ AddEdge(p) \/ Crash(p) \/ Open(p)
    PROVE  Quiet(p)
<1> USE DEF TypeOK, Quiet, fileVars, history, Idle, Down
<1>1. CASE RememberStart(p)  BY <1>1 DEF RememberStart
<1>2. CASE InsertRefused(p)  BY <1>2 DEF InsertRefused
<1>3. CASE IndexAdd(p)  BY <1>3 DEF IndexAdd
<1>4. CASE ForgetStart(p)  BY <1>4 DEF ForgetStart
<1>5. CASE PurgeStranded(p)  BY <1>5 DEF PurgeStranded
<1>6. CASE Evict(p)  BY <1>6 DEF Evict
<1>7. CASE RecordForget(p)  BY <1>7 DEF RecordForget
<1>8. CASE Unindex(p)
  <2>1. job[p] \in PurgeJob
    BY <1>8, JobKinds DEF Unindex
  <2> QED
    BY <1>8, <2>1 DEF Unindex, PurgeJob
<1>9. CASE RecordPurge(p)  BY <1>9 DEF RecordPurge
<1>10. CASE RewrapDone(p)  BY <1>10 DEF RewrapDone
<1>11. CASE RecallStart(p)  BY <1>11 DEF RecallStart
<1>12. CASE RecallDecrypt(p)
  <2>1. job[p] \in DecryptJob
    BY <1>12, JobKinds DEF RecallDecrypt
  <2> QED
    BY <1>12, <2>1 DEF RecallDecrypt, DecryptJob
<1>13. CASE RecallServe(p)
  <2>1. job[p] \in ServeJob
    BY <1>13, JobKinds DEF RecallServe
  <2> QED
    BY <1>13, <2>1 DEF RecallServe, ServeJob
<1>14. CASE RecallReturn(p)  BY <1>14 DEF RecallReturn
<1>15. CASE Crash(p)  BY <1>15 DEF Crash
<1>16. CASE Open(p)  BY <1>16 DEF Open
<1>17. CASE AddEdge(p)  BY <1>17 DEF AddEdge
<1>18. CASE RecallRank(p)  BY <1>18 DEF RecallRank
<1> QED
  BY <1>1, <1>2, <1>3, <1>4, <1>5, <1>6, <1>7, <1>8, <1>9, <1>10, <1>11, <1>12, <1>13,
     <1>14, <1>15, <1>16, <1>17, <1>18 DEF Recall

\* The seed of an erasure is part of what it deletes.
LEMMA SeedReached == \A seed \in SUBSET Mems : seed \subseteq Reach(seed)
BY DEF Reach

\* Ageing keys keep every key equality that allows for a tombstone.
LEMMA AgeingKeeps ==
    ASSUME KeysAge, NEW s \in Subjects, NEW dek \in Procs, keys[s] \in {dek, Shredded}
    PROVE  keys'[s] \in {dek, Shredded}
BY StoreAssumptions DEF KeysAge

\* Every step lets the keys only age.
LEMMA KeysAgeStep == ErasureInv /\ [Next]_vars => KeysAge
<1> SUFFICES ASSUME ErasureInv, [Next]_vars PROVE KeysAge
  OBVIOUS
<1>a. TypeOK /\ JobsHoldKeys
  BY DEF ErasureInv
<1>1. ASSUME NEW p \in Procs, KeyCreate(p) PROVE KeysAge
  <2>1. job[p] \in KeyJob
    BY <1>1, <1>a, JobKinds DEF KeyCreate, TypeOK
  <2>2. job[p].draft.subject \in Subjects
    BY <2>1 DEF KeyJob, Draft
  <2> QED
    BY <2>2, <1>1, <1>a DEF KeyCreate, StoredKey, KeysAge, TypeOK
<1>2. ASSUME NEW p \in Procs, Shred(p) PROVE KeysAge
  BY <1>2, <1>a DEF Shred, KeysAge, TypeOK
<1>3. ASSUME NEW p \in Procs, RewrapPut(p) PROVE KeysAge
  <2>1. job[p].at = "rewrap" /\ job[p] \in RewrapJob
    BY <1>3, <1>a, JobKinds DEF RewrapPut, TypeOK
  <2>2. PICK e \in job[p].held : keys' = PutKey(e[1], e[2])
    BY <1>3 DEF RewrapPut
  <2>3. keys[e[1]] \in {e[2], Shredded}
    BY <2>1, <1>a DEF JobsHoldKeys, HoldsKeys
  <2> QED
    BY <2>2, <2>3, <1>a DEF PutKey, KeysAge, TypeOK
<1>4. ASSUME UNCHANGED keys PROVE KeysAge
  BY <1>4 DEF KeysAge
<1>5. ASSUME NEW p \in Procs,
             KeyRead(p) \/ Insert(p) \/ PurgeSubject(p) \/ PurgeRow(p) \/ RewrapList(p)
      PROVE  UNCHANGED keys
  BY <1>5 DEF KeyRead, Insert, PurgeSubject, PurgeRow, RewrapList, fileVars
<1>6. ASSUME NEW p \in Procs, Quiet(p) PROVE UNCHANGED keys
  BY <1>6 DEF Quiet
<1>7. CASE UNCHANGED vars
  BY <1>7, <1>4 DEF vars, fileVars
<1> QED
  BY <1>1, <1>2, <1>3, <1>4, <1>5, <1>6, <1>7, <1>a, QuietSteps
     DEF Next, Remember, Forget, Purge, Rewrap

\* A process whose job a step leaves alone still agrees with the key table.
LEMMA OthersHoldKeys ==
    ASSUME TypeOK, KeysAge, NEW q \in Procs, HoldsKeys(q), job'[q] = job[q]
    PROVE  HoldsKeys(q)'
<1>1. ASSUME job[q].at = "insert"
      PROVE  keys'[job[q].draft.subject] \in {job[q].dek, Shredded}
  <2>1. job[q] \in InsertJob
    BY <1>1, JobKinds DEF TypeOK
  <2>2. job[q].draft.subject \in Subjects /\ job[q].dek \in Procs
    BY <2>1 DEF InsertJob, Draft
  <2> QED
    BY <1>1, <2>2, AgeingKeeps DEF HoldsKeys
<1>2. ASSUME job[q].at = "rewrap", NEW e \in job[q].held
      PROVE  keys'[e[1]] \in {e[2], Shredded}
  <2>1. job[q] \in RewrapJob
    BY <1>2, JobKinds DEF TypeOK
  <2>2. e[1] \in Subjects /\ e[2] \in Procs
    BY <2>1 DEF RewrapJob
  <2> QED
    BY <1>2, <2>2, AgeingKeeps DEF HoldsKeys
<1>3. ASSUME job[q].at = "erase"
      PROVE  keys'[job[q].subject] = Shredded
  <2>1. job[q] \in ForgetJob
    BY <1>3, JobKinds DEF TypeOK
  <2>2. job[q].subject \in Subjects
    BY <2>1 DEF ForgetJob
  <2> QED
    BY <1>3, <2>2, StoreAssumptions DEF HoldsKeys, KeysAge
<1> QED
  BY <1>1, <1>2, <1>3 DEF HoldsKeys

\* A step that inserts no row keeps the stored ones decryptable, and one that
\* erases no further subject keeps the erased ones gone.
LEMMA RowsKept ==
    ASSUME TypeOK, KeysAge, RowsDecryptable,
           \A m \in Mems : memories'[m] = memories[m] \/ memories'[m] = NoRow
    PROVE  /\ RowsDecryptable'
           /\ erased' = erased /\ ErasedSubjectsGone => ErasedSubjectsGone'
<1>1. ASSUME NEW m \in Mems, Stored(m)'
      PROVE  memories'[m] = memories[m] /\ Stored(m)
  BY <1>1 DEF Stored
<1>2. RowsDecryptable'
  <2> SUFFICES ASSUME NEW m \in Mems, Stored(m)'
               PROVE  keys'[memories[m].subject] \in {memories[m].dek, Shredded}
    BY <1>1 DEF RowsDecryptable
  <2>1. memories[m] \in Row
    BY <1>1 DEF TypeOK, Stored
  <2>2. memories[m].subject \in Subjects /\ memories[m].dek \in Procs
    BY <2>1 DEF Row
  <2> QED
    BY <2>2, <1>1, AgeingKeeps DEF RowsDecryptable
<1> QED
  BY <1>1, <1>2 DEF ErasedSubjectsGone

\* Ageing keys keep the tombstones of the erased subjects.
LEMMA TombstonesKept ==
    ASSUME TypeOK, KeysAge, ErasedShredded, erased' = erased
    PROVE  ErasedShredded'
BY StoreAssumptions DEF TypeOK, KeysAge, ErasedShredded

\* The erasure invariant is inductive: every step keeps it.
LEMMA ErasureStep == ErasureInv /\ [Next]_vars => ErasureInv'
<1> SUFFICES ASSUME ErasureInv, [Next]_vars PROVE ErasureInv'
  OBVIOUS
<1>a. TypeOK /\ TypeOK' /\ KeysAge
  BY TypeStep, KeysAgeStep DEF ErasureInv
<1>b. RowsDecryptable /\ JobsHoldKeys /\ ErasedShredded /\ ErasedSubjectsGone
  BY DEF ErasureInv
<1>c. ASSUME NEW p \in Procs, \A q \in Procs : q # p => job'[q] = job[q], HoldsKeys(p)'
      PROVE  JobsHoldKeys'
  BY <1>c, <1>a, <1>b, OthersHoldKeys DEF JobsHoldKeys
\* The steps that store no row and erase no subject.
<1>d. ASSUME JobsHoldKeys', erased' = erased,
             \A m \in Mems : memories'[m] = memories[m] \/ memories'[m] = NoRow
      PROVE  ErasureInv'
  BY <1>d, <1>a, <1>b, RowsKept, TombstonesKept DEF ErasureInv
<1>1. ASSUME NEW p \in Procs, Quiet(p) PROVE ErasureInv'
  <2>1. CASE job' = job
    <3>1. JobsHoldKeys'
      BY <2>1, <1>1, <1>b DEF Quiet, JobsHoldKeys, HoldsKeys
    <3> QED
      BY <3>1, <1>1, <1>d DEF Quiet
  <2>2. CASE job'[p].at \notin {"insert", "rewrap", "erase"}
    <3>1. HoldsKeys(p)'
      BY <2>2 DEF HoldsKeys
    <3> QED
      BY <3>1, <1>1, <1>c, <1>d DEF Quiet
  <2> QED
    BY <2>1, <2>2, <1>1 DEF Quiet
<1>2. ASSUME NEW p \in Procs, KeyRead(p) PROVE ErasureInv'
  <2>1. HoldsKeys(p)'
    BY <1>2, <1>a DEF KeyRead, HoldsKeys, TypeOK, fileVars, Idle
  <2> QED
    BY <2>1, <1>2, <1>a, <1>c, <1>d DEF KeyRead, TypeOK, fileVars, history
<1>3. ASSUME NEW p \in Procs, KeyCreate(p) PROVE ErasureInv'
  <2>1. job[p] \in KeyJob
    BY <1>3, <1>a, JobKinds DEF KeyCreate, TypeOK
  <2>2. job[p].draft.subject \in Subjects
    BY <2>1 DEF KeyJob, Draft
  <2>3. HoldsKeys(p)'
    BY <2>2, <1>3, <1>a DEF KeyCreate, HoldsKeys, TypeOK, Idle
  <2> QED
    BY <2>3, <1>3, <1>a, <1>c, <1>d DEF KeyCreate, TypeOK, history
<1>4. ASSUME NEW p \in Procs, Insert(p) PROVE ErasureInv'
  <2>1. job[p].at = "insert" /\ job[p] \in InsertJob
    BY <1>4, <1>a, JobKinds DEF Insert, TypeOK
  <2> DEFINE d == job[p].draft
  <2>2. d \in Draft /\ job[p].dek \in Procs
    BY <2>1 DEF InsertJob
  <2>3. /\ d.mem \in Mems /\ UNCHANGED <<keys, erased>>
        /\ \A q \in Procs : q # p => job'[q] = job[q]
        /\ job'[p].at \in {"index", "idle"}
        /\ \A m \in Mems : m # d.mem => memories'[m] = memories[m]
        /\ memories'[d.mem].subject = d.subject
        /\ memories'[d.mem].names = d.names
        /\ memories'[d.mem].dek = job[p].dek
    BY <2>2, <1>4, <1>a DEF Insert, Draft, TypeOK, Idle
  <2>4. JobsHoldKeys'
    BY <2>3, <1>c DEF HoldsKeys
  <2>5. RowsDecryptable'
    BY <2>1, <2>3, <1>b DEF RowsDecryptable, Stored, JobsHoldKeys, HoldsKeys
  <2>6. \A s \in d.names : s \notin erased
    BY <1>4, <1>b DEF Insert, InsertAllowed, ErasedShredded
  <2>7. ErasedSubjectsGone'
    BY <2>3, <2>6, <1>b DEF ErasedSubjectsGone, Stored
  <2>8. ErasedShredded'
    BY <2>3, <1>b DEF ErasedShredded
  <2> QED
    BY <2>4, <2>5, <2>7, <2>8, <1>a DEF ErasureInv
<1>5. ASSUME NEW p \in Procs, Shred(p) PROVE ErasureInv'
  <2>1. job[p] \in ForgetJob
    BY <1>5, <1>a, JobKinds DEF Shred, TypeOK
  <2>2. job[p].subject \in Subjects
    BY <2>1 DEF ForgetJob
  <2>3. job' = [job EXCEPT ![p] = [job[p] EXCEPT !.at = "erase"]]
    BY <1>5 DEF Shred
  <2>4. job'[p].at = "erase" /\ job'[p].subject = job[p].subject
    BY <2>1, <2>3, <1>a DEF TypeOK, ForgetJob
  <2>5. HoldsKeys(p)'
    BY <2>2, <2>4, <1>5, <1>a DEF Shred, HoldsKeys, TypeOK
  <2> QED
    BY <2>3, <2>5, <1>5, <1>c, <1>d DEF Shred, history
<1>6. ASSUME NEW p \in Procs, PurgeSubject(p) PROVE ErasureInv'
  <2> DEFINE s == job[p].subject
  <2>1. job[p].at = "erase" /\ job[p] \in ForgetJob
    BY <1>6, <1>a, JobKinds DEF PurgeSubject, TypeOK
  <2>2. s \in Subjects /\ job[p].ids \subseteq Mems
    BY <2>1 DEF ForgetJob
  <2>3. /\ memories' = [m \in Mems |-> IF m \in PurgeSet(p) THEN NoRow ELSE memories[m]]
        /\ erased' = erased \cup {s}
        /\ UNCHANGED keys
        /\ \A q \in Procs : q # p => job'[q] = job[q]
        /\ job'[p].at = "evict"
    BY <1>6, <1>a DEF PurgeSubject, TypeOK
  <2>4. JobsHoldKeys'
    BY <2>3, <1>c DEF HoldsKeys
  <2>5. RowsDecryptable'
    BY <2>3, <1>a, <1>b, RowsKept
  <2>6. Selected(s) \subseteq PurgeSet(p)
    BY <2>2, SeedReached DEF PurgeSet, Selected
  <2>7. ErasedSubjectsGone'
    BY <2>3, <2>6, <1>b DEF ErasedSubjectsGone, Stored, Selected
  <2>8. ErasedShredded'
    BY <2>1, <2>3, <1>b DEF ErasedShredded, JobsHoldKeys, HoldsKeys
  <2> QED
    BY <2>4, <2>5, <2>7, <2>8, <1>a DEF ErasureInv
<1>7. ASSUME NEW p \in Procs, PurgeRow(p) PROVE ErasureInv'
  <2>1. /\ \A m \in Mems : memories'[m] = memories[m] \/ memories'[m] = NoRow
        /\ \A q \in Procs : q # p => job'[q] = job[q]
        /\ job'[p].at = "unindex"
        /\ UNCHANGED erased
    BY <1>7, <1>a DEF PurgeRow, TypeOK
  <2>2. JobsHoldKeys'
    BY <2>1, <1>c DEF HoldsKeys
  <2> QED
    BY <2>1, <2>2, <1>d
<1>8. ASSUME NEW p \in Procs, RewrapList(p) PROVE ErasureInv'
  <2>1. HoldsKeys(p)'
    BY <1>8, <1>a DEF RewrapList, HoldsKeys, TypeOK, fileVars
  <2> QED
    BY <2>1, <1>8, <1>c, <1>d DEF RewrapList, fileVars, history
<1>9. ASSUME NEW p \in Procs, RewrapPut(p) PROVE ErasureInv'
  <2>1. job[p].at = "rewrap" /\ job[p] \in RewrapJob
    BY <1>9, <1>a, JobKinds DEF RewrapPut, TypeOK
  <2>2. PICK e \in job[p].held : job' = [job EXCEPT ![p] = [job[p] EXCEPT !.held = @ \ {e}]]
    BY <1>9 DEF RewrapPut
  <2>3. job'[p].at = "rewrap" /\ job'[p].held \subseteq job[p].held
    BY <2>1, <2>2, <1>a DEF TypeOK, RewrapJob
  <2>4. \A f \in job[p].held : f[1] \in Subjects /\ f[2] \in Procs
    BY <2>1 DEF RewrapJob
  <2>5. \A f \in job[p].held : keys[f[1]] \in {f[2], Shredded}
    BY <2>1, <1>b DEF JobsHoldKeys, HoldsKeys
  <2>6. \A f \in job[p].held : keys'[f[1]] \in {f[2], Shredded}
    BY <2>4, <2>5, <1>a, AgeingKeeps
  <2>7. HoldsKeys(p)'
    BY <2>3, <2>6 DEF HoldsKeys
  <2> QED
    BY <2>2, <2>7, <1>9, <1>c, <1>d DEF RewrapPut, history
<1>10. CASE UNCHANGED vars
  <2>1. JobsHoldKeys'
    BY <1>10, <1>b DEF vars, fileVars, JobsHoldKeys, HoldsKeys
  <2> QED
    BY <2>1, <1>10, <1>d DEF vars, fileVars, history
<1> QED
  BY <1>1, <1>2, <1>3, <1>4, <1>5, <1>6, <1>7, <1>8, <1>9, <1>10, <1>a, QuietSteps
     DEF Next, Remember, Forget, Purge, Rewrap

\* The erasure invariant holds of an empty store.
LEMMA ErasureInit == Init => ErasureInv
<1>1. Init => TypeOK
  BY TypeInit
<1> QED
  BY <1>1 DEF Init, ErasureInv, RowsDecryptable, JobsHoldKeys, HoldsKeys, ErasedShredded,
              ErasedSubjectsGone, Stored, Idle

\* The erasure invariant holds of every reachable state.
LEMMA ErasureInvariant == Spec => []ErasureInv
<1> QED
  BY ErasureInit, ErasureStep, PTL DEF Spec

\* Once a hard erasure has purged a subject, no row names it again, whatever
\* write was in flight: for any number of processes, memories and subjects.
THEOREM ErasureFinalForWrites == Spec => []ErasedSubjectsGone
<1>1. ErasureInv => ErasedSubjectsGone
  BY DEF ErasureInv
<1> QED
  BY <1>1, ErasureInvariant, PTL

\* Every stored row can be decrypted with its subject's key row until that row
\* is shredded, under any race of first writers and re-wraps.
THEOREM RowsStayDecryptable == Spec => []RowsDecryptable
<1>1. ErasureInv => RowsDecryptable
  BY DEF ErasureInv
<1> QED
  BY <1>1, ErasureInvariant, PTL

\* No step whatever turns a tombstone back into a key.
THEOREM TombstonesFinal == Spec => TombstoneFinal
<1>1. ErasureInv /\ [Next]_vars =>
        [\A s \in Subjects : keys[s] = Shredded => keys'[s] = Shredded]_vars
  BY KeysAgeStep, StoreAssumptions DEF KeysAge, ErasureInv, TypeOK
<1> QED
  BY <1>1, ErasureInvariant, PTL DEF Spec, TombstoneFinal

--------------------------------------------------------------------------------
(***************************************************************************)
(* The store implements the abstract erasure of named subjects.            *)
(***************************************************************************)
\* Named subjects are well typed, and a row holds the subjects it names.
LEMMA HeldNamesType ==
    TypeOK => HeldNames \in [Mems -> SUBSET Subjects]
BY DEF TypeOK, HeldNames, Stored, Row

\* Every step of the store is a step of the abstract erasure, or none.
LEMMA RefinementStep ==
    ErasureInv /\ ErasureInv' /\ [Next]_vars => [ByName!Next]_(ByName!evars)
<1> SUFFICES ASSUME ErasureInv, ErasureInv', [Next]_vars
             PROVE  [ByName!Next]_(ByName!evars)
  OBVIOUS
<1>a. TypeOK /\ TypeOK'
  BY DEF ErasureInv
<1>b. ASSUME UNCHANGED <<memories, erased>> PROVE [ByName!Next]_(ByName!evars)
  BY <1>b DEF ByName!evars, HeldNames, Stored
<1>1. ASSUME NEW p \in Procs, Insert(p) PROVE ByName!Next
  <2>1. job[p] \in InsertJob
    BY <1>1, <1>a, JobKinds DEF Insert, TypeOK
  <2> DEFINE d == job[p].draft
  <2>2. d.mem \in Mems /\ d.names \in SUBSET Subjects /\ d.subject \in Subjects
        /\ d.taint \in Taint /\ job[p].dek \in Procs
    BY <2>1 DEF InsertJob, Draft
  <2>3. PICK indexed \in BOOLEAN :
          memories' = [memories EXCEPT ![d.mem] =
                    [subject |-> d.subject, names |-> d.names, dek |-> job[p].dek,
                     taint |-> d.taint, indexed |-> indexed]]
    BY <1>1 DEF Insert
  <2>4. memories'[d.mem] \in Row /\ memories'[d.mem].names = d.names
    BY <2>2, <2>3, <1>a DEF Row, Taint, TypeOK
  <2>5. memories'[d.mem] # NoRow
    BY <2>4, StoreAssumptions
  <2>6. HeldNames' = [HeldNames EXCEPT ![d.mem] = d.names]
    BY <2>2, <2>3, <2>4, <2>5, <1>a DEF HeldNames, Stored, TypeOK
  <2>7. HeldNames[d.mem] = {}
    BY <2>2, <1>1 DEF HeldNames, Insert, InsertAllowed
  <2>8. d.names \cap erased = {}
    BY <1>1 DEF Insert, InsertAllowed, ErasureInv, ErasedShredded
  <2>9. ByName!Write(d.mem, d.names)
    BY <2>6, <2>7, <2>8, <1>1 DEF ByName!Write, Insert
  <2> QED
    BY <2>2, <2>9 DEF ByName!Next
<1>2. ASSUME NEW p \in Procs, PurgeSubject(p) PROVE ByName!Next
  <2> DEFINE s == job[p].subject
  <2>1. job[p] \in ForgetJob
    BY <1>2, <1>a, JobKinds DEF PurgeSubject, TypeOK
  <2>2. s \in Subjects
    BY <2>1 DEF ForgetJob
  <2>3. /\ memories' = [m \in Mems |-> IF m \in PurgeSet(p) THEN NoRow ELSE memories[m]]
        /\ erased' = erased \cup {s}
    BY <1>2 DEF PurgeSubject
  <2>4. HeldNames' \in [Mems -> SUBSET Subjects]
    BY <1>a, <2>3 DEF HeldNames, Stored, TypeOK, Row
  <2>5. \A m \in Mems : HeldNames'[m] \in {HeldNames[m], {}}
    BY <2>3 DEF HeldNames, Stored
  <2>6. \A m \in Mems : s \notin HeldNames'[m]
    BY <2>2, <2>3 DEF ErasureInv, ErasedSubjectsGone, HeldNames
  <2>7. ByName!Erase(s)
    BY <2>3, <2>4, <2>5, <2>6 DEF ByName!Erase
  <2> QED
    BY <2>2, <2>7 DEF ByName!Next
<1>3. ASSUME NEW p \in Procs, PurgeRow(p) PROVE ByName!Next
  <2>1. PICK m \in Mems : memories' = [memories EXCEPT ![m] = NoRow]
    BY <1>3 DEF PurgeRow
  <2>2. HeldNames' = [n \in Mems |-> IF n \in {m} THEN {} ELSE HeldNames[n]]
    BY <2>1, <1>a DEF HeldNames, Stored, TypeOK
  <2>3. ByName!Remove({m})
    BY <2>2, <1>3 DEF ByName!Remove, PurgeRow
  <2> QED
    BY <2>3 DEF ByName!Next
<1>4. ASSUME NEW p \in Procs,
             \/ KeyRead(p) \/ KeyCreate(p) \/ Shred(p) \/ RewrapList(p) \/ RewrapPut(p)
      PROVE  UNCHANGED <<memories, erased>>
  BY <1>4 DEF KeyRead, KeyCreate, Shred, RewrapList, RewrapPut, fileVars, history
<1>5. ASSUME NEW p \in Procs, Quiet(p) PROVE UNCHANGED <<memories, erased>>
  BY <1>5 DEF Quiet
<1>6. CASE UNCHANGED vars
  BY <1>6, <1>b DEF vars, fileVars, history
<1> QED
  BY <1>1, <1>2, <1>3, <1>4, <1>5, <1>6, <1>a, <1>b, QuietSteps
     DEF Next, Remember, Forget, Purge, Rewrap

\* The store, with its keys, tombstones, transactions, races and crashes,
\* implements module Erasure for the subjects rows name.
THEOREM ImplementsErasure == Spec => ErasesByName
<1>1. Init => ByName!Init
  BY DEF Init, ByName!Init, HeldNames, Stored
<1> QED
  BY <1>1, ErasureInvariant, RefinementStep, PTL DEF Spec, ErasesByName, ByName!Spec

--------------------------------------------------------------------------------
(***************************************************************************)
(* Vectors.                                                                *)
(***************************************************************************)
\* No step leaves a vector without a row, except a per-file purge.
LEMMA VectorsStep ==
    TypeOK /\ VectorsFollowRows /\ [Next]_vars => VectorsFollowRows'
<1> SUFFICES ASSUME TypeOK, VectorsFollowRows, [Next]_vars PROVE VectorsFollowRows'
  OBVIOUS
<1>a. ASSUME UNCHANGED <<memories, vectors, filePurged>> PROVE VectorsFollowRows'
  BY <1>a DEF VectorsFollowRows, Stored
\* The steps that only delete vectors.
<1>b. ASSUME UNCHANGED <<memories, filePurged>>,
             \A m \in Mems : vectors'[m] # {} => vectors[m] # {}
      PROVE  VectorsFollowRows'
  BY <1>b DEF VectorsFollowRows, Stored
<1>1. ASSUME NEW p \in Procs, Insert(p) PROVE VectorsFollowRows'
  <2>1. job[p] \in InsertJob
    BY <1>1, JobKinds DEF Insert, TypeOK
  <2> DEFINE d == job[p].draft
  <2>2. d.mem \in Mems
    BY <2>1 DEF InsertJob, Draft
  <2>3. memories'[d.mem] # NoRow
    <3>1. PICK indexed \in BOOLEAN :
            memories' = [memories EXCEPT ![d.mem] =
                    [subject |-> d.subject, names |-> d.names, dek |-> job[p].dek,
                     taint |-> d.taint, indexed |-> indexed]]
      BY <1>1 DEF Insert
    <3>2. memories'[d.mem] \in Row
      BY <3>1, <2>1, <2>2 DEF InsertJob, Draft, Row, Taint, TypeOK
    <3> QED
      BY <3>2, StoreAssumptions
  <2>4. \A m \in Mems : m # d.mem => memories'[m] = memories[m]
    BY <1>1 DEF Insert, TypeOK
  <2> QED
    BY <2>3, <2>4, <1>1 DEF VectorsFollowRows, Stored, Insert
<1>2. ASSUME NEW p \in Procs, IndexAdd(p) PROVE VectorsFollowRows'
  <2>1. job[p] \in IndexJob
    BY <1>2, JobKinds DEF IndexAdd, TypeOK
  <2>2. job[p].mem \in Mems
    BY <2>1 DEF IndexJob
  <2> QED
    BY <2>2, <1>2 DEF IndexAdd, VectorIfStored, VectorsFollowRows, Stored, TypeOK, history
<1>3. ASSUME NEW p \in Procs, PurgeSubject(p) PROVE VectorsFollowRows'
  BY <1>3 DEF PurgeSubject, VectorsFollowRows, Stored
<1>4. ASSUME NEW p \in Procs, PurgeRow(p) PROVE VectorsFollowRows'
  <2>1. PICK m \in Mems :
          /\ memories' = [memories EXCEPT ![m] = NoRow]
          /\ filePurged' = IF Stored(m) THEN filePurged \cup {m} ELSE filePurged
    BY <1>4 DEF PurgeRow
  <2> QED
    BY <2>1, <1>4 DEF PurgeRow, VectorsFollowRows, Stored, TypeOK
<1>5. ASSUME NEW p \in Procs, Evict(p) \/ Unindex(p) PROVE VectorsFollowRows'
  <2>1. UNCHANGED <<memories, filePurged>>
    BY <1>5 DEF Evict, Unindex, history
  <2>2. \A m \in Mems : vectors'[m] # {} => vectors[m] # {}
    BY <1>5 DEF Evict, Unindex, TypeOK
  <2> QED
    BY <2>1, <2>2, <1>b
<1>6. ASSUME NEW p \in Procs, Open(p) PROVE VectorsFollowRows'
  <2>1. UNCHANGED <<memories, filePurged>>
    BY <1>6 DEF Open, history
  <2>2. CASE p \in VecProcs
    BY <2>1, <2>2, <1>6 DEF Open, VectorsFollowRows, Stored
  <2>3. CASE p \notin VecProcs
    BY <2>1, <2>3, <1>6, <1>a DEF Open
  <2> QED
    BY <2>2, <2>3
<1>7. ASSUME NEW p \in Procs,
             \/ RememberStart(p) \/ KeyRead(p) \/ KeyCreate(p) \/ InsertRefused(p)
             \/ ForgetStart(p) \/ Shred(p) \/ PurgeStranded(p) \/ RecordForget(p)
             \/ RecordPurge(p) \/ AddEdge(p) \/ Rewrap(p) \/ Recall(p) \/ Crash(p)
      PROVE  UNCHANGED <<memories, vectors, filePurged>>
  BY <1>7 DEF RememberStart, KeyRead, KeyCreate, InsertRefused, ForgetStart, Shred,
     PurgeStranded, RecordForget, RecordPurge, AddEdge, Rewrap, RewrapList, RewrapPut, RewrapDone,
     Recall, RecallStart, RecallDecrypt, RecallRank, RecallServe,
     RecallReturn, Crash, fileVars, history
<1>8. CASE UNCHANGED vars
  BY <1>8, <1>a DEF vars, fileVars, history
<1> QED
  BY <1>1, <1>2, <1>3, <1>4, <1>5, <1>6, <1>7, <1>8, <1>a DEF Next, Remember, Forget, Purge

\* Outside per-file purges no vector outlives its row, under every race of an
\* index write, an erasure and a crash.
THEOREM NoOrphanVectors == Spec => []VectorsFollowRows
<1>1. Init => VectorsFollowRows
  BY DEF Init, VectorsFollowRows
<1> QED
  BY <1>1, VectorsStep, TypeCorrect, PTL DEF Spec

--------------------------------------------------------------------------------
(***************************************************************************)
(* Derived data: what an erasure reaches along the edges.                  *)
(***************************************************************************)
\* Reach, with the edges as a parameter.
ReachBy(E, seed) ==
    {m \in Mems : \A T \in SUBSET Mems :
        (seed \subseteq T /\ \A e \in E : e[2] \in T => e[1] \in T) => m \in T}

\* More edges and a larger seed reach more.
LEMMA ReachMonotone ==
    ASSUME NEW E, NEW F, NEW A, NEW B, E \subseteq F, A \subseteq B
    PROVE  ReachBy(E, A) \subseteq ReachBy(F, B)
BY DEF ReachBy

\* What is reached is closed under child edges.
LEMMA ReachEdge ==
    ASSUME NEW E, NEW A, NEW e \in E, e[1] \in Mems, e[2] \in ReachBy(E, A)
    PROVE  e[1] \in ReachBy(E, A)
BY DEF ReachBy

\* The edges that are left when rows leave.
EdgesLeft(E, gone) == {e \in E : e[1] \notin gone /\ e[2] \notin gone}

\* Rows that leave cut off only what is derived from them: a row outside a set
\* that holds them and is closed under child edges is reached as before.
LEMMA ReachCut ==
    ASSUME NEW E, NEW A, NEW B, NEW gone, NEW closed \in SUBSET Mems,
           gone \subseteq closed, A \ closed \subseteq B,
           \A e \in E : e[2] \in closed => e[1] \in closed,
           NEW m \in ReachBy(E, A), m \notin closed
    PROVE  m \in ReachBy(EdgesLeft(E, gone), B)
<1> SUFFICES ASSUME NEW T \in SUBSET Mems, B \subseteq T,
                    \A e \in E : e[1] \notin gone /\ e[2] \notin gone
                                   => (e[2] \in T => e[1] \in T)
             PROVE  m \in T
  BY DEF ReachBy, EdgesLeft
<1> DEFINE U == T \cup closed
<1>1. U \in SUBSET Mems /\ A \subseteq U
  OBVIOUS
<1>2. ASSUME NEW e \in E, e[2] \in U PROVE e[1] \in U
  <2>1. CASE e[2] \in closed
    BY <2>1
  <2>2. CASE e[2] \notin closed /\ e[1] \notin closed
    BY <2>2, <1>2
  <2> QED
    BY <2>1, <2>2
<1>3. m \in U
  BY <1>1, <1>2 DEF ReachBy
<1> QED
  BY <1>3

\* The rows an erasure of s starts from, as far as they name s.
Naming(s) == {m \in Mems : Stored(m) /\ s \in memories[m].names}

\* Every subject whose data a row holds is named by a row that the edges lead
\* back to, unless the row is severed.
TaintTraced ==
    \A m \in Mems, s \in Subjects :
        Stored(m) /\ s \in memories[m].taint /\ m \notin severed
            => m \in ReachBy(edges, Naming(s))

\* A draft draws an edge to every parent it read.
DraftLinked(p) ==
    job[p].at \in {"key", "create", "insert"} => job[p].draft.live \subseteq job[p].draft.derived

DraftsLinked == \A p \in Procs : DraftLinked(p)

DerivedInv == ErasureInv /\ DraftsLinked /\ TaintTraced /\ DerivedDataGone

\* Every step keeps the drafts linked: parents are read only when a call starts.
LEMMA DraftsStep == TypeOK /\ DraftsLinked /\ [Next]_vars => DraftsLinked'
<1> SUFFICES ASSUME TypeOK, DraftsLinked, [Next]_vars PROVE DraftsLinked'
  OBVIOUS
<1>a. ASSUME NEW p \in Procs, \A q \in Procs : q # p => job'[q] = job[q], DraftLinked(p)'
      PROVE  DraftsLinked'
  BY <1>a DEF DraftsLinked, DraftLinked
<1>b. ASSUME job' = job PROVE DraftsLinked'
  BY <1>b DEF DraftsLinked, DraftLinked
<1>1. ASSUME NEW p \in Procs, RememberStart(p) PROVE DraftsLinked'
  <2>1. PICK m \in Mems, s \in Subjects, aliases \in SUBSET Subjects, derived \in SUBSET Mems :
          LET live  == {d \in derived : Stored(d)}
              names == {s} \cup aliases
          IN  job' = [job EXCEPT ![p] =
                       [at |-> "key",
                        draft |-> [mem |-> m, subject |-> s, names |-> names,
                                   derived |-> derived, live |-> live,
                                   taint |-> names \cup
                                       UNION {memories[d].taint : d \in live}]]]
    BY <1>1 DEF RememberStart
  <2>2. job'[p].draft.live \subseteq job'[p].draft.derived
    BY <2>1 DEF TypeOK
  <2>3. \A q \in Procs : q # p => job'[q] = job[q]
    BY <2>1 DEF TypeOK
  <2> QED
    BY <2>2, <2>3, <1>a DEF DraftLinked
<1>2. ASSUME NEW p \in Procs, KeyRead(p) PROVE DraftsLinked'
  <2>1. DraftLinked(p)'
    BY <1>2 DEF KeyRead, DraftLinked, DraftsLinked, TypeOK, Idle
  <2> QED
    BY <2>1, <1>2, <1>a DEF KeyRead, TypeOK
<1>3. ASSUME NEW p \in Procs, KeyCreate(p) PROVE DraftsLinked'
  <2>1. DraftLinked(p)'
    BY <1>3 DEF KeyCreate, DraftLinked, DraftsLinked, TypeOK, Idle
  <2> QED
    BY <2>1, <1>3, <1>a DEF KeyCreate, TypeOK
<1>4. ASSUME NEW p \in Procs, \A q \in Procs : q # p => job'[q] = job[q],
             job'[p].at \notin {"key", "create", "insert"}
      PROVE  DraftsLinked'
  BY <1>4, <1>a DEF DraftLinked
<1>5. ASSUME NEW p \in Procs, Insert(p) \/ InsertRefused(p) \/ IndexAdd(p) PROVE DraftsLinked'
  <2>1. CASE Insert(p)
    <3>1. PICK indexed \in BOOLEAN :
            job' = [job EXCEPT ![p] =
                        IF indexed THEN [at |-> "index", mem |-> job[p].draft.mem,
                                         taint |-> job[p].draft.taint]
                        ELSE Idle]
      BY <2>1 DEF Insert
    <3>2. job'[p].at \in {"index", "idle"} /\ \A q \in Procs : q # p => job'[q] = job[q]
      BY <3>1 DEF TypeOK, Idle
    <3> QED
      BY <3>2, <1>4
  <2>2. CASE InsertRefused(p) \/ IndexAdd(p)
    BY <2>2, <1>4 DEF InsertRefused, IndexAdd, Idle, TypeOK
  <2> QED
    BY <2>1, <2>2, <1>5
<1>6. ASSUME NEW p \in Procs, Forget(p) PROVE DraftsLinked'
  <2>1. CASE Shred(p)
    <3>1. job[p] \in ForgetJob
      BY <2>1, JobKinds DEF Shred, TypeOK
    <3> QED
      BY <2>1, <3>1, <1>4 DEF Shred, ForgetJob, TypeOK
  <2>2. CASE ForgetStart(p) \/ PurgeSubject(p) \/ PurgeStranded(p) \/ Evict(p) \/ RecordForget(p)
    BY <2>2, <1>4 DEF ForgetStart, PurgeSubject, PurgeStranded, Evict, RecordForget, Idle, TypeOK
  <2> QED
    BY <2>1, <2>2, <1>6 DEF Forget
<1>7. ASSUME NEW p \in Procs, Purge(p) PROVE DraftsLinked'
  <2>1. CASE Unindex(p)
    <3>1. job[p] \in PurgeJob
      BY <2>1, JobKinds DEF Unindex, TypeOK
    <3> QED
      BY <2>1, <3>1, <1>4 DEF Unindex, PurgeJob, TypeOK
  <2>2. CASE PurgeRow(p)
    <3>1. PICK m \in Mems : job' = [job EXCEPT ![p] = [at |-> "unindex", mem |-> m]]
      BY <2>2 DEF PurgeRow
    <3>2. job'[p].at = "unindex" /\ \A q \in Procs : q # p => job'[q] = job[q]
      BY <3>1 DEF TypeOK
    <3> QED
      BY <3>2, <1>4
  <2>3. CASE RecordPurge(p)
    BY <2>3, <1>4 DEF RecordPurge, Idle, TypeOK
  <2> QED
    BY <2>1, <2>2, <2>3, <1>7 DEF Purge
<1>8. ASSUME NEW p \in Procs, Rewrap(p) PROVE DraftsLinked'
  <2>1. CASE RewrapPut(p)
    <3>1. job[p] \in RewrapJob
      BY <2>1, JobKinds DEF RewrapPut, TypeOK
    <3>2. job'[p].at = "rewrap" /\ \A q \in Procs : q # p => job'[q] = job[q]
      BY <2>1, <3>1 DEF RewrapPut, RewrapJob, TypeOK
    <3> QED
      BY <3>2, <1>4
  <2>2. CASE RewrapList(p) \/ RewrapDone(p)
    BY <2>2, <1>4 DEF RewrapList, RewrapDone, Idle, TypeOK
  <2> QED
    BY <2>1, <2>2, <1>8 DEF Rewrap
<1>9. ASSUME NEW p \in Procs, Recall(p) PROVE DraftsLinked'
  <2>1. CASE RecallDecrypt(p)
    <3>1. job[p] \in DecryptJob
      BY <2>1, JobKinds DEF RecallDecrypt, TypeOK
    <3>2. job'[p].at = "decrypt" /\ \A q \in Procs : q # p => job'[q] = job[q]
      BY <2>1, <3>1 DEF RecallDecrypt, DecryptJob, TypeOK
    <3> QED
      BY <3>2, <1>4
  <2>2. CASE RecallServe(p)
    <3>1. job[p] \in ServeJob
      BY <2>2, JobKinds DEF RecallServe, TypeOK
    <3>2. job'[p].at = "serve" /\ \A q \in Procs : q # p => job'[q] = job[q]
      BY <2>2, <3>1 DEF RecallServe, ServeJob, TypeOK
    <3> QED
      BY <3>2, <1>4
  <2>3. CASE RecallStart(p) \/ RecallRank(p) \/ RecallReturn(p)
    BY <2>3, <1>4 DEF RecallStart, RecallRank, RecallReturn, Idle, TypeOK
  <2> QED
    BY <2>1, <2>2, <2>3, <1>9 DEF Recall
<1>10. ASSUME NEW p \in Procs, Crash(p) \/ Open(p) PROVE DraftsLinked'
  BY <1>10, <1>4 DEF Crash, Open, Idle, Down, TypeOK
<1>11. ASSUME NEW p \in Procs, AddEdge(p) PROVE DraftsLinked'
  BY <1>11, <1>b DEF AddEdge
<1>12. CASE UNCHANGED vars
  BY <1>12, <1>b DEF vars
<1> QED
  BY <1>1, <1>2, <1>3, <1>5, <1>6, <1>7, <1>8, <1>9, <1>10, <1>11, <1>12
     DEF Next, Remember

\* The steps that change no row, edge or erasure.
LEMMA RowsSteady ==
    ASSUME NEW p \in Procs,
           \/ RememberStart(p) \/ KeyRead(p) \/ KeyCreate(p) \/ InsertRefused(p) \/ IndexAdd(p)
           \/ ForgetStart(p) \/ Shred(p) \/ PurgeStranded(p) \/ Evict(p) \/ RecordForget(p)
           \/ Unindex(p) \/ RecordPurge(p) \/ Rewrap(p) \/ Recall(p) \/ Crash(p) \/ Open(p)
    PROVE  UNCHANGED <<memories, edges, severed, erased, again>>
<1>1. CASE \/ RememberStart(p) \/ KeyRead(p) \/ KeyCreate(p) \/ InsertRefused(p) \/ IndexAdd(p)
           \/ ForgetStart(p) \/ Shred(p) \/ PurgeStranded(p) \/ Evict(p) \/ RecordForget(p)
  BY <1>1 DEF RememberStart, KeyRead, KeyCreate, InsertRefused, IndexAdd, ForgetStart, Shred,
              PurgeStranded, Evict, RecordForget, fileVars, history
<1>2. CASE Unindex(p) \/ RecordPurge(p) \/ Crash(p) \/ Open(p)
  BY <1>2 DEF Unindex, RecordPurge, Crash, Open, fileVars, history
<1>3. CASE Rewrap(p)
  BY <1>3 DEF Rewrap, RewrapList, RewrapPut, RewrapDone, fileVars, history
<1>4. CASE Recall(p)
  BY <1>4 DEF Recall, RecallStart, RecallDecrypt, RecallRank, RecallServe, RecallReturn,
              fileVars, history
<1> QED
  BY <1>1, <1>2, <1>3, <1>4

\* Every step keeps the derived-data invariant.
LEMMA DerivedStep == DerivedInv /\ [Next]_vars => DerivedInv'
<1> SUFFICES ASSUME DerivedInv, [Next]_vars PROVE DerivedInv'
  OBVIOUS
<1>a. /\ TypeOK /\ ErasureInv /\ DraftsLinked /\ TaintTraced /\ DerivedDataGone
      /\ ErasureInv' /\ DraftsLinked'
  BY ErasureStep, DraftsStep DEF DerivedInv, ErasureInv
<1>b. \A e \in edges : e[1] \in Mems /\ e[2] \in Mems
  BY <1>a DEF TypeOK
<1> SUFFICES TaintTraced' /\ DerivedDataGone'
  BY <1>a DEF DerivedInv
<1>1. ASSUME UNCHANGED <<memories, edges, severed, erased>>
      PROVE  TaintTraced' /\ DerivedDataGone'
  BY <1>1, <1>a DEF TaintTraced, DerivedDataGone, Naming, Stored
<1>2. ASSUME NEW p \in Procs, Insert(p) PROVE TaintTraced' /\ DerivedDataGone'
  <2>1. job[p] \in InsertJob
    BY <1>2, <1>a, JobKinds DEF Insert, TypeOK
  <2> PICK d : d = job[p].draft
    OBVIOUS
  <2>2. /\ d.mem \in Mems /\ d.names \subseteq Subjects /\ d.taint \subseteq Subjects
        /\ d.live \subseteq Mems /\ d.live \subseteq d.derived
    BY <2>1, <1>2, <1>a DEF InsertJob, Draft, Taint, Insert, DraftsLinked, DraftLinked
  <2>3. /\ ~Stored(d.mem)
        /\ \A s \in d.names : keys[s] # Shredded
        /\ \A parent \in d.live : Stored(parent)
    BY <1>2 DEF Insert, InsertAllowed
  <2>4. /\ edges' = edges \cup {<<d.mem, parent>> : parent \in d.derived}
        /\ severed' = IF ParentReplaced(d) \/ \E parent \in d.live : parent \in severed
                      THEN severed \cup {d.mem} ELSE severed \ {d.mem}
        /\ erased' = erased
    BY <1>2 DEF Insert
  <2>5. PICK indexed \in BOOLEAN :
          memories' = [memories EXCEPT ![d.mem] =
                    [subject |-> d.subject, names |-> d.names, dek |-> job[p].dek,
                     taint |-> d.taint, indexed |-> indexed]]
    BY <1>2 DEF Insert
  <2>6. /\ memories'[d.mem].names = d.names /\ memories'[d.mem].taint = d.taint
        /\ \A m \in Mems : m # d.mem => memories'[m] = memories[m]
    BY <2>2, <2>5, <1>a DEF TypeOK
  <2>7. Stored(d.mem)'
    <3>1. memories'[d.mem] \in Row
      BY <2>1, <2>2, <2>5, <1>a DEF Row, TypeOK, InsertJob, Draft, Taint
    <3> QED
      BY <3>1, StoreAssumptions DEF Stored
  <2>8. \A s : Naming(s) \subseteq Naming(s)'
    BY <2>3, <2>6 DEF Naming, Stored
  <2>9. \A s : ReachBy(edges, Naming(s)) \subseteq ReachBy(edges, Naming(s))'
    <3> SUFFICES ASSUME NEW s PROVE ReachBy(edges, Naming(s)) \subseteq ReachBy(edges', Naming(s)')
      BY DEF ReachBy
    <3> QED
      BY <2>4, <2>8, ReachMonotone
\* What a new row holds beyond its names, a stored parent that is not severed holds.
  <2>10. ASSUME d.mem \notin severed', NEW s \in d.taint, s \notin d.names
         PROVE  \E parent \in d.live : /\ Stored(parent) /\ s \in memories[parent].taint
                                       /\ parent \notin severed
    <3>1. ~ParentReplaced(d) /\ \A parent \in d.live : parent \notin severed
      BY <2>10, <2>4
    <3>2. d.taint \subseteq d.names \cup UNION {memories[parent].taint : parent \in d.live}
      BY <3>1, <2>3 DEF ParentReplaced
    <3> QED
      BY <3>1, <3>2, <2>3, <2>10
  <2>11. TaintTraced'
    <3> SUFFICES ASSUME NEW m \in Mems, NEW s \in Subjects,
                        Stored(m)', s \in memories'[m].taint, m \notin severed'
                 PROVE  m \in ReachBy(edges, Naming(s))'
      BY DEF TaintTraced
    <3>1. CASE m # d.mem
      <4>1. Stored(m) /\ s \in memories[m].taint /\ m \notin severed
        BY <3>1, <2>4, <2>6 DEF Stored
      <4> QED
        BY <4>1, <2>9, <1>a DEF TaintTraced
    <3>2. CASE m = d.mem /\ s \in d.names
      <4>1. m \in Naming(s)'
        BY <3>2, <2>6, <2>7 DEF Naming
      <4> QED
        BY <4>1 DEF ReachBy
    <3>3. CASE m = d.mem /\ s \notin d.names
      <4>1. PICK parent \in d.live : /\ Stored(parent) /\ s \in memories[parent].taint
                                     /\ parent \notin severed
        BY <3>3, <2>6, <2>10
      <4>2. parent \in ReachBy(edges, Naming(s))'
        BY <4>1, <2>2, <2>9, <1>a DEF TaintTraced
      <4>3. <<m, parent>> \in edges'
        BY <3>3, <2>2, <2>4
      <4>4. m \in ReachBy(edges', Naming(s)')
        <5> DEFINE e == <<m, parent>>
        <5>1. e \in edges' /\ e[1] = m /\ e[2] = parent
          BY <4>3
        <5>2. parent \in ReachBy(edges', Naming(s)')
          BY <4>2 DEF ReachBy
        <5> QED
          BY <5>1, <5>2, ReachEdge
      <4> QED
        BY <4>4 DEF ReachBy
    <3> QED
      BY <3>1, <3>2, <3>3
  <2>12. DerivedDataGone'
    <3> SUFFICES ASSUME NEW s \in erased, NEW m \in Mems,
                        Stored(m)', s \in memories'[m].taint, m \notin severed'
                 PROVE  FALSE
      BY <2>4 DEF DerivedDataGone
    <3>1. CASE m # d.mem
      <4>1. Stored(m) /\ s \in memories[m].taint /\ m \notin severed
        BY <3>1, <2>4, <2>6 DEF Stored
      <4> QED
        BY <4>1, <1>a DEF DerivedDataGone
    <3>2. CASE m = d.mem /\ s \in d.names
      BY <3>2, <2>3, <1>a DEF ErasureInv, ErasedShredded
    <3>3. CASE m = d.mem /\ s \notin d.names
      BY <3>3, <2>2, <2>6, <2>10, <1>a DEF DerivedDataGone
    <3> QED
      BY <3>1, <3>2, <3>3
  <2> QED
    BY <2>11, <2>12
\* Rows leave, and with them their edges; cut holds them and what was derived from
\* them, and a row in it that stays is severed.
<1>3. ASSUME NEW gone \in SUBSET Mems, NEW cut \in SUBSET Mems, gone \subseteq cut,
             \A e \in edges : e[2] \in cut => e[1] \in cut,
             memories' = [m \in Mems |-> IF m \in gone THEN NoRow ELSE memories[m]],
             edges' = EdgesAvoiding(gone),
             severed \subseteq severed', cut \ gone \subseteq severed'
      PROVE  TaintTraced'
  <2> SUFFICES ASSUME NEW m \in Mems, NEW s \in Subjects,
                      Stored(m)', s \in memories'[m].taint, m \notin severed'
               PROVE  m \in ReachBy(edges, Naming(s))'
    BY DEF TaintTraced
  <2>1. m \notin gone /\ m \notin cut
    BY <1>3 DEF Stored
  <2>2. Stored(m) /\ s \in memories[m].taint /\ m \notin severed
    BY <1>3, <2>1 DEF Stored
  <2>3. m \in ReachBy(edges, Naming(s))
    BY <2>2, <1>a DEF TaintTraced
  <2>4. Naming(s) \ cut \subseteq Naming(s)'
    BY <1>3 DEF Naming, Stored
  <2>5. edges' = EdgesLeft(edges, gone)
    BY <1>3 DEF EdgesAvoiding, EdgesLeft
  <2> PICK seed, left, E : seed = Naming(s) /\ left = Naming(s)' /\ E = edges
    OBVIOUS
  <2>6. m \in ReachBy(EdgesLeft(E, gone), left)
    <3>1. \A e \in E : e[2] \in cut => e[1] \in cut
      BY <1>3
    <3>2. m \in ReachBy(E, seed) /\ seed \ cut \subseteq left
      BY <2>3, <2>4
    <3> HIDE DEF ReachBy
    <3> QED
      BY <3>1, <3>2, <2>1, <1>3, ReachCut
  <2> QED
    BY <2>5, <2>6 DEF ReachBy
\* No row that stays takes over anything, and nothing else is erased.
<1>4. ASSUME \A m \in Mems : memories'[m] = memories[m] \/ memories'[m] = NoRow,
             severed \subseteq severed', erased' = erased
      PROVE  DerivedDataGone'
  BY <1>4, <1>a DEF DerivedDataGone, Stored
<1>5. \A seed \in SUBSET Mems : /\ Reach(seed) \subseteq Mems /\ seed \subseteq Reach(seed)
                                /\ \A e \in edges : e[2] \in Reach(seed) => e[1] \in Reach(seed)
  BY <1>b DEF Reach
<1>6. ASSUME NEW p \in Procs, PurgeSubject(p) PROVE TaintTraced' /\ DerivedDataGone'
  <2>1. job[p] \in ForgetJob
    BY <1>6, <1>a, JobKinds DEF PurgeSubject, TypeOK
  <2> PICK s0, gone : s0 = job[p].subject /\ gone = PurgeSet(p)
    OBVIOUS
  <2>2. s0 \in Subjects /\ job[p].ids \subseteq Mems
    BY <2>1 DEF ForgetJob
  <2>3. /\ memories' = [m \in Mems |-> IF m \in gone THEN NoRow ELSE memories[m]]
        /\ edges' = EdgesAvoiding(gone)
        /\ erased' = erased \cup {s0} /\ severed' = severed
    BY <1>6 DEF PurgeSubject
  <2> DEFINE seed == job[p].ids \cup Selected(s0)
  <2>4. seed \in SUBSET Mems /\ Naming(s0) \subseteq seed
    BY <2>2 DEF Selected, Naming
  <2>5. gone = Reach(seed)
    BY DEF PurgeSet
  <2>6. gone \subseteq Mems /\ seed \subseteq gone /\ \A e \in edges : e[2] \in gone => e[1] \in gone
    BY <2>4, <2>5, <1>5
  <2>7. TaintTraced'
    BY <2>3, <2>6, <1>3
  <2>8. DerivedDataGone'
    <3> SUFFICES ASSUME NEW s \in erased \cup {s0}, NEW m \in Mems,
                        Stored(m)', s \in memories'[m].taint, m \notin severed'
                 PROVE  FALSE
      BY <2>3 DEF DerivedDataGone
    <3>1. m \notin gone /\ Stored(m) /\ s \in memories[m].taint /\ m \notin severed
      BY <2>3 DEF Stored
    <3>2. CASE s \in erased
      BY <3>1, <3>2, <1>a DEF DerivedDataGone
    <3>3. CASE s = s0
      <4>1. m \in ReachBy(edges, Naming(s0))
        BY <3>1, <3>3, <2>2, <1>a DEF TaintTraced
      <4>2. m \in Reach(seed)
        BY <4>1, <2>4 DEF Reach, ReachBy
      <4> QED
        BY <4>2, <3>1, <2>5
    <3> QED
      BY <3>2, <3>3
  <2> QED
    BY <2>7, <2>8
<1>7. ASSUME NEW p \in Procs, PurgeRow(p) PROVE TaintTraced' /\ DerivedDataGone'
  <2>1. PICK x \in Mems :
          /\ memories' = [memories EXCEPT ![x] = NoRow]
          /\ edges' = EdgesAvoiding({x})
          /\ severed' = severed \cup (Reach({x}) \ {x})
    BY <1>7 DEF PurgeRow
  <2>2. memories' = [m \in Mems |-> IF m \in {x} THEN NoRow ELSE memories[m]]
    BY <2>1, <1>a DEF TypeOK
  <2> PICK cut : cut = Reach({x})
    OBVIOUS
  <2>3. /\ cut \in SUBSET Mems /\ {x} \subseteq cut
        /\ \A e \in edges : e[2] \in cut => e[1] \in cut
        /\ severed \subseteq severed' /\ cut \ {x} \subseteq severed'
    BY <2>1, <1>5
  <2>4. TaintTraced'
    BY <2>1, <2>2, <2>3, <1>3
  <2>5. DerivedDataGone'
    BY <2>2, <2>3, <1>4, <1>7 DEF PurgeRow
  <2> QED
    BY <2>4, <2>5
<1>8. ASSUME NEW p \in Procs, AddEdge(p) PROVE TaintTraced' /\ DerivedDataGone'
  <2>1. UNCHANGED <<memories, severed, erased>> /\ edges \subseteq edges'
    BY <1>8 DEF AddEdge, history
  <2>2. \A s : ReachBy(edges, Naming(s)) \subseteq ReachBy(edges, Naming(s))'
    <3> SUFFICES ASSUME NEW s PROVE ReachBy(edges, Naming(s)) \subseteq ReachBy(edges', Naming(s)')
      BY DEF ReachBy
    <3>1. Naming(s)' = Naming(s)
      BY <2>1 DEF Naming, Stored
    <3> QED
      BY <2>1, <3>1, ReachMonotone
  <2> QED
    BY <2>1, <2>2, <1>a DEF TaintTraced, DerivedDataGone, Stored
<1>9. CASE UNCHANGED vars
  BY <1>9, <1>1 DEF vars, fileVars, history
<1> QED
  BY <1>1, <1>2, <1>6, <1>7, <1>8, <1>9, RowsSteady DEF Next, Remember, Forget, Purge

\* The derived-data invariant holds of every reachable state.
LEMMA DerivedInvariant == Spec => []DerivedInv
<1>1. Init => DerivedInv
  BY ErasureInit DEF Init, DerivedInv, DraftsLinked, DraftLinked, TaintTraced, DerivedDataGone,
                     Stored, Idle
<1> QED
  BY <1>1, DerivedStep, PTL DEF Spec

\* A hard erasure reaches everything derived from the subject's data, at whatever
\* depth, over chains, joins and cycles, and no write that was under way brings any
\* of it back: except for rows cut off from their source, as DerivedDataGone says.
THEOREM DerivedErased == Spec => []DerivedDataGone
<1>1. DerivedInv => DerivedDataGone
  BY DEF DerivedInv
<1> QED
  BY <1>1, DerivedInvariant, PTL

\* Every step of the store is a step of the abstract erasure of held data, or none.
LEMMA TaintRefinementStep ==
    DerivedInv /\ DerivedInv' /\ [Next]_vars => [ByTaint!Next]_(ByTaint!evars)
<1> SUFFICES ASSUME DerivedInv, DerivedInv', [Next]_vars
             PROVE  [ByTaint!Next]_(ByTaint!evars)
  OBVIOUS
<1>a. TypeOK /\ TypeOK' /\ DerivedDataGone'
  BY DEF DerivedInv, ErasureInv
<1>b. ASSUME UNCHANGED <<memories, severed, erased>> PROVE [ByTaint!Next]_(ByTaint!evars)
  BY <1>b DEF ByTaint!evars, HeldTaint, Stored
<1>1. ASSUME NEW p \in Procs, Insert(p) PROVE ByTaint!Next
  <2>1. job[p] \in InsertJob
    BY <1>1, <1>a, JobKinds DEF Insert, TypeOK
  <2> PICK d : d = job[p].draft
    OBVIOUS
  <2>2. d.mem \in Mems /\ d.taint \in SUBSET Subjects
    BY <2>1 DEF InsertJob, Draft, Taint
  <2>3. PICK indexed \in BOOLEAN :
          memories' = [memories EXCEPT ![d.mem] =
                    [subject |-> d.subject, names |-> d.names, dek |-> job[p].dek,
                     taint |-> d.taint, indexed |-> indexed]]
    BY <1>1 DEF Insert
  <2>4. memories'[d.mem] \in Row /\ memories'[d.mem].taint = d.taint
    BY <2>1, <2>2, <2>3, <1>a DEF Row, InsertJob, Draft, Taint, TypeOK
  <2>5. memories'[d.mem] # NoRow /\ \A m \in Mems : m # d.mem => memories'[m] = memories[m]
    BY <2>3, <2>4, <1>a, StoreAssumptions DEF TypeOK
  <2>6. \A m \in Mems : m # d.mem => (m \in severed' <=> m \in severed)
    BY <1>1 DEF Insert
  <2> PICK T : T = IF d.mem \in severed' THEN {} ELSE d.taint
    OBVIOUS
  <2>7. HeldTaint' = [HeldTaint EXCEPT ![d.mem] = T]
    <3> PICK new, old : new = HeldTaint' /\ old = HeldTaint
      OBVIOUS
    <3>1. /\ new = [m \in Mems |-> IF memories'[m] # NoRow /\ m \notin severed'
                                   THEN memories'[m].taint ELSE {}]
          /\ old = [m \in Mems |-> IF memories[m] # NoRow /\ m \notin severed
                                   THEN memories[m].taint ELSE {}]
      BY DEF HeldTaint, Stored
    <3>2. \A m \in Mems : new[m] = IF m = d.mem THEN T ELSE old[m]
      BY <3>1, <2>4, <2>5, <2>6
    <3>3. new = [old EXCEPT ![d.mem] = T]
      BY <3>1, <3>2, <2>2
    <3> QED
      BY <3>3
  <2>8. HeldTaint[d.mem] = {}
    BY <2>2, <1>1 DEF HeldTaint, Insert, InsertAllowed
  <2>9. T \cap erased = {}
    BY <2>2, <2>4, <2>5, <1>1, <1>a DEF DerivedDataGone, Stored, Insert
  <2>10. ByTaint!Write(d.mem, T)
    BY <2>7, <2>8, <2>9, <1>1 DEF ByTaint!Write, Insert
  <2> QED
    BY <2>2, <2>10 DEF ByTaint!Next
<1>2. ASSUME NEW p \in Procs, PurgeSubject(p) PROVE ByTaint!Next
  <2> DEFINE s == job[p].subject
  <2>1. job[p] \in ForgetJob
    BY <1>2, <1>a, JobKinds DEF PurgeSubject, TypeOK
  <2>2. s \in Subjects
    BY <2>1 DEF ForgetJob
  <2>3. /\ memories' = [m \in Mems |-> IF m \in PurgeSet(p) THEN NoRow ELSE memories[m]]
        /\ erased' = erased \cup {s} /\ severed' = severed
    BY <1>2 DEF PurgeSubject
  <2>4. HeldTaint' \in [Mems -> SUBSET Subjects]
    BY <1>a DEF HeldTaint, Stored, TypeOK, Row, Taint
  <2>5. \A m \in Mems : HeldTaint'[m] \in {HeldTaint[m], {}}
    BY <2>3 DEF HeldTaint, Stored
  <2>6. \A m \in Mems : s \notin HeldTaint'[m]
    BY <2>2, <2>3, <1>a DEF DerivedDataGone, HeldTaint
  <2>7. ByTaint!Erase(s)
    BY <2>3, <2>4, <2>5, <2>6 DEF ByTaint!Erase
  <2> QED
    BY <2>2, <2>7 DEF ByTaint!Next
<1>3. ASSUME NEW p \in Procs, PurgeRow(p) PROVE ByTaint!Next
  <2>1. PICK m \in Mems : /\ memories' = [memories EXCEPT ![m] = NoRow]
                          /\ severed' = severed \cup (Reach({m}) \ {m})
    BY <1>3 DEF PurgeRow
  <2> PICK gone : gone = Reach({m}) \cup {m}
    OBVIOUS
  <2>2. gone \in SUBSET Mems
    BY DEF Reach
  <2>3. \A n \in Mems : /\ n \in gone => ~(Stored(n)' /\ n \notin severed')
                        /\ n \notin gone => /\ memories'[n] = memories[n]
                                            /\ n \in severed' <=> n \in severed
    BY <2>1, <1>a DEF Stored, TypeOK
  <2>4. HeldTaint' = [n \in Mems |-> IF n \in gone THEN {} ELSE HeldTaint[n]]
    BY <2>3 DEF HeldTaint, Stored
  <2>5. ByTaint!Remove(gone)
    BY <2>4, <1>3 DEF ByTaint!Remove, PurgeRow
  <2> QED
    BY <2>2, <2>5 DEF ByTaint!Next
<1>4. ASSUME NEW p \in Procs, AddEdge(p) PROVE UNCHANGED <<memories, severed, erased>>
  BY <1>4 DEF AddEdge, history
<1>5. CASE UNCHANGED vars
  BY <1>5, <1>b DEF vars, fileVars, history
<1> QED
  BY <1>1, <1>2, <1>3, <1>4, <1>5, <1>b, RowsSteady DEF Next, Remember, Forget, Purge

\* The store implements module Erasure for the data its rows hold, whoever it is
\* named for, as far as the edges tie a row to what it was derived from.
THEOREM ImplementsErasureOfData == Spec => ErasesByTaint
<1>1. Init => ByTaint!Init
  BY DEF Init, ByTaint!Init, HeldTaint, Stored
<1> QED
  BY <1>1, DerivedInvariant, TaintRefinementStep, PTL DEF Spec, ErasesByTaint, ByTaint!Spec

--------------------------------------------------------------------------------
(***************************************************************************)
(* Recall: texts that processes hold, and the rows they are texts of.      *)
(***************************************************************************)
\* A text held for m, if any, is of a row that was written; and as long as that
\* row is stored and no other row had its id before, the text is the row's.
KnownText(T, m) ==
    T # {} => /\ <<"remember", m>> \in audit
              /\ Stored(m) /\ m \notin again => T \subseteq memories[m].taint

\* The texts a process has cached, and those its call has in hand.
TextsKnown(p) ==
    /\ \A m \in Mems : KnownText(text[p][m], m)
    /\ job[p].at = "index" => KnownText(job[p].taint, job[p].mem)
    /\ job[p].at \in {"decrypt", "serve"} => \A m \in Mems : KnownText(job[p].texts[m], m)

\* A stored row was written.
RowsRemembered == \A m \in Mems : Stored(m) => <<"remember", m>> \in audit

TextsInv == TypeOK /\ RowsRemembered /\ \A p \in Procs : TextsKnown(p)

\* The audit log only grows, and no step but an insert writes a row.
LEMMA RowsLeave ==
    ASSUME TypeOK, [Next]_vars
    PROVE  /\ audit \subseteq audit'
           /\ (\A p \in Procs : ~Insert(p)) =>
                again' = again /\ \A m \in Mems : memories'[m] \in {memories[m], NoRow}
<1> DEFINE Leave == again' = again /\ \A m \in Mems : memories'[m] \in {memories[m], NoRow}
<1>1. ASSUME NEW p \in Procs, Insert(p) PROVE audit \subseteq audit'
  BY <1>1 DEF Insert
<1>2. ASSUME NEW p \in Procs, PurgeSubject(p) PROVE Leave /\ audit \subseteq audit'
  BY <1>2 DEF PurgeSubject
<1>3. ASSUME NEW p \in Procs, PurgeRow(p) PROVE Leave /\ audit \subseteq audit'
  <2>1. PICK x \in Mems : memories' = [memories EXCEPT ![x] = NoRow]
    BY <1>3 DEF PurgeRow
  <2>2. \A m \in Mems : memories'[m] \in {memories[m], NoRow}
    BY <2>1 DEF TypeOK
  <2> QED
    BY <2>2, <1>3 DEF PurgeRow
<1>4. ASSUME NEW p \in Procs,
             \/ RememberStart(p) \/ KeyRead(p) \/ KeyCreate(p) \/ InsertRefused(p) \/ IndexAdd(p)
             \/ ForgetStart(p) \/ Shred(p) \/ PurgeStranded(p) \/ Evict(p) \/ RecordForget(p)
             \/ Unindex(p) \/ RecordPurge(p) \/ Rewrap(p) \/ Recall(p) \/ Crash(p) \/ Open(p)
      PROVE  Leave /\ audit \subseteq audit'
  <2>1. Leave
    BY <1>4, RowsSteady
  <2>2. CASE RecordForget(p) \/ RecordPurge(p)
    BY <2>1, <2>2 DEF RecordForget, RecordPurge
  <2>3. CASE \/ RememberStart(p) \/ KeyRead(p) \/ KeyCreate(p) \/ InsertRefused(p)
             \/ IndexAdd(p) \/ ForgetStart(p) \/ Shred(p) \/ PurgeStranded(p) \/ Evict(p)
             \/ Unindex(p) \/ Crash(p) \/ Open(p)
    BY <2>1, <2>3 DEF RememberStart, KeyRead, KeyCreate, InsertRefused, IndexAdd, ForgetStart,
                Shred, PurgeStranded, Evict, Unindex, Crash, Open, fileVars
  <2>4. CASE Rewrap(p) \/ Recall(p)
    BY <2>1, <2>4 DEF Rewrap, RewrapList, RewrapPut, RewrapDone, Recall, RecallStart,
                RecallDecrypt, RecallRank, RecallServe, RecallReturn, fileVars
  <2> QED
    BY <2>2, <2>3, <2>4, <1>4
<1>5. ASSUME NEW p \in Procs, AddEdge(p) PROVE Leave /\ audit \subseteq audit'
  BY <1>5 DEF AddEdge, history
<1>6. CASE UNCHANGED vars
  BY <1>6 DEF vars, fileVars, history
<1> QED
  BY <1>1, <1>2, <1>3, <1>4, <1>5, <1>6 DEF Next, Remember, Forget, Purge

\* What an insert writes of its draft.
LEMMA InsertWrites ==
    ASSUME TypeOK, NEW p \in Procs, Insert(p), NEW d, d = job[p].draft
    PROVE  /\ d.mem \in Mems /\ memories'[d.mem].taint = d.taint
           /\ \A m \in Mems : m # d.mem => memories'[m] = memories[m]
           /\ audit' = audit \cup {<<"remember", d.mem>>}
           /\ again' = IF <<"remember", d.mem>> \in audit THEN again \cup {d.mem} ELSE again
<1>1. job[p] \in InsertJob
  BY JobKinds DEF Insert, TypeOK
<1>2. d.mem \in Mems
  BY <1>1 DEF InsertJob, Draft
<1>3. PICK indexed \in BOOLEAN :
        memories' = [memories EXCEPT ![d.mem] =
                    [subject |-> d.subject, names |-> d.names, dek |-> job[p].dek,
                     taint |-> d.taint, indexed |-> indexed]]
  BY DEF Insert
<1>4. /\ memories'[d.mem].taint = d.taint
      /\ \A m \in Mems : m # d.mem => memories'[m] = memories[m]
  BY <1>2, <1>3 DEF TypeOK
<1> QED
  BY <1>2, <1>4 DEF Insert

\* A step leaves known what was known.
LEMMA KnownStays ==
    ASSUME TypeOK, [Next]_vars, NEW m \in Mems, NEW T, KnownText(T, m)
    PROVE  KnownText(T, m)'
<1>1. ASSUME NEW p \in Procs, Insert(p) PROVE KnownText(T, m)'
  <2> PICK d : d = job[p].draft
    OBVIOUS
  <2> QED
    BY <1>1, InsertWrites DEF KnownText, Stored
<1>2. CASE \A p \in Procs : ~Insert(p)
  BY <1>2, RowsLeave DEF KnownText, Stored
<1> QED
  BY <1>1, <1>2

\* Every stored row stays one that was written.
LEMMA RememberedStep ==
    ASSUME TypeOK, RowsRemembered, [Next]_vars
    PROVE  RowsRemembered'
<1>1. ASSUME NEW p \in Procs, Insert(p) PROVE RowsRemembered'
  <2> PICK d : d = job[p].draft
    OBVIOUS
  <2> QED
    BY <1>1, InsertWrites DEF RowsRemembered, Stored
<1>2. CASE \A p \in Procs : ~Insert(p)
  BY <1>2, RowsLeave DEF RowsRemembered, Stored
<1> QED
  BY <1>1, <1>2

\* Every step leaves processes only texts they may hold.
LEMMA TextsStep == TextsInv /\ [Next]_vars => TextsInv'
<1> SUFFICES ASSUME TextsInv, [Next]_vars PROVE TextsInv'
  OBVIOUS
<1>a. /\ TypeOK /\ TypeOK' /\ RowsRemembered /\ RowsRemembered'
      /\ \A q \in Procs : TextsKnown(q)
  BY TypeStep, RememberedStep DEF TextsInv
<1>k. ASSUME NEW m \in Mems, NEW T, KnownText(T, m) PROVE KnownText(T, m)'
  BY <1>k, <1>a, KnownStays
<1>b. ASSUME NEW q \in Procs, text'[q] = text[q], job'[q] = job[q] PROVE TextsKnown(q)'
  <2> PICK t, j : t = text[q] /\ j = job[q]
    OBVIOUS
  <2>1. /\ \A m \in Mems : KnownText(t[m], m)
        /\ j.at = "index" => KnownText(j.taint, j.mem)
        /\ j.at \in {"decrypt", "serve"} => \A m \in Mems : KnownText(j.texts[m], m)
    BY <1>a DEF TextsKnown
  <2>2. j.at = "index" => j.mem \in Mems
    BY <1>a, JobKinds DEF TypeOK, IndexJob
  <2>3. /\ \A m \in Mems : KnownText(t[m], m)'
        /\ j.at = "index" => KnownText(j.taint, j.mem)'
        /\ j.at \in {"decrypt", "serve"} => \A m \in Mems : KnownText(j.texts[m], m)'
    BY <2>1, <2>2, <1>k
  <2>4. text'[q] = t /\ job'[q] = j
    BY <1>b
  <2> QED
    BY <2>3, <2>4 DEF TextsKnown, KnownText
\* The process that takes the step, if it ends up with none but texts it had.
<1>c. ASSUME NEW p \in Procs, \A m \in Mems : text'[p][m] \in {text[p][m], {}},
             job'[p].at \notin {"index", "decrypt", "serve"}
      PROVE  TextsKnown(p)'
  <2> PICK t : t = text[p]
    OBVIOUS
  <2>1. \A m \in Mems : KnownText(t[m], m)'
    BY <1>a, <1>k DEF TextsKnown
  <2>2. \A m \in Mems : KnownText(text[p][m], m)'
    BY <2>1, <1>c DEF KnownText
  <2> QED
    BY <2>2, <1>c DEF TextsKnown, KnownText
<1>d. ASSUME NEW p \in Procs, TextsKnown(p)',
             \A q \in Procs : q # p => text'[q] = text[q] /\ job'[q] = job[q]
      PROVE  TextsInv'
  BY <1>a, <1>b, <1>d DEF TextsInv
<1>1. ASSUME NEW p \in Procs, Insert(p) PROVE TextsInv'
  <2>1. job[p] \in InsertJob
    BY <1>1, <1>a, JobKinds DEF Insert, TypeOK
  <2> PICK d : d = job[p].draft
    OBVIOUS
  <2>2. d.mem \in Mems
    BY <2>1 DEF InsertJob, Draft
  <2>3. PICK indexed \in BOOLEAN :
          /\ memories' = [memories EXCEPT ![d.mem] =
                    [subject |-> d.subject, names |-> d.names, dek |-> job[p].dek,
                     taint |-> d.taint, indexed |-> indexed]]
          /\ job' = [job EXCEPT ![p] =
                        IF indexed THEN [at |-> "index", mem |-> d.mem, taint |-> d.taint]
                        ELSE Idle]
    BY <1>1 DEF Insert
  <2>4. text' = text /\ audit' = audit \cup {<<"remember", d.mem>>}
    BY <1>1 DEF Insert
  <2>5. memories'[d.mem].taint = d.taint
    BY <2>2, <2>3, <1>a DEF TypeOK
  <2>6. KnownText(d.taint, d.mem)'
    BY <2>4, <2>5 DEF KnownText
  <2>7. \A q \in Procs : q # p => text'[q] = text[q] /\ job'[q] = job[q]
    BY <2>3, <2>4, <1>a DEF TypeOK
  <2>8. CASE indexed
    <3>1. job'[p] = [at |-> "index", mem |-> d.mem, taint |-> d.taint]
      BY <2>3, <2>8, <1>a DEF TypeOK
    <3> PICK t : t = text[p]
      OBVIOUS
    <3>2. \A m \in Mems : KnownText(t[m], m)'
      BY <1>a, <1>k DEF TextsKnown
    <3>3. TextsKnown(p)'
      BY <3>1, <3>2, <2>4, <2>6 DEF TextsKnown, KnownText
    <3> QED
      BY <3>3, <2>7, <1>d
  <2>9. CASE ~indexed
    <3>1. job'[p].at = "idle"
      BY <2>3, <2>9, <1>a DEF TypeOK, Idle
    <3> QED
      BY <3>1, <2>4, <2>7, <1>c, <1>d
  <2> QED
    BY <2>8, <2>9
<1>2. ASSUME NEW p \in Procs, IndexAdd(p) PROVE TextsInv'
  <2>1. job[p] \in IndexJob /\ job[p].at = "index"
    BY <1>2, <1>a, JobKinds DEF IndexAdd, TypeOK
  <2> PICK m, T, t : m = job[p].mem /\ T = job[p].taint /\ t = text[p]
    OBVIOUS
  <2>2. m \in Mems
    BY <2>1 DEF IndexJob
  <2>3. /\ text' = [text EXCEPT ![p] = [t EXCEPT ![m] = T]]
        /\ job' = [job EXCEPT ![p] = Idle]
    BY <1>2 DEF IndexAdd
  <2>4. KnownText(T, m)' /\ \A n \in Mems : KnownText(t[n], n)'
    BY <2>1, <2>2, <1>a, <1>k DEF TextsKnown
  <2>5. \A n \in Mems : text'[p][n] = IF n = m THEN T ELSE t[n]
    BY <2>2, <2>3, <1>a DEF TypeOK
  <2>6. job'[p].at = "idle"
    BY <2>3, <1>a DEF TypeOK, Idle
  <2>7. TextsKnown(p)'
    BY <2>4, <2>5, <2>6 DEF TextsKnown, KnownText
  <2> QED
    BY <2>3, <2>7, <1>a, <1>d DEF TypeOK
<1>3. ASSUME NEW p \in Procs, RecallStart(p) PROVE TextsInv'
  <2>1. text' = text /\ \A q \in Procs : q # p => job'[q] = job[q]
    BY <1>3, <1>a DEF RecallStart, TypeOK
  <2>2. job'[p].at = "decrypt" /\ \A m \in Mems : job'[p].texts[m] = {}
    BY <1>3, <1>a DEF RecallStart, TypeOK
  <2> PICK t : t = text[p]
    OBVIOUS
  <2>3. \A m \in Mems : KnownText(t[m], m)'
    BY <1>a, <1>k DEF TextsKnown
  <2>4. TextsKnown(p)'
    BY <2>1, <2>2, <2>3 DEF TextsKnown, KnownText
  <2> QED
    BY <2>1, <2>4, <1>d
<1>4. ASSUME NEW p \in Procs, RecallDecrypt(p) PROVE TextsInv'
  <2>1. job[p] \in DecryptJob /\ job[p].at = "decrypt"
    BY <1>4, <1>a, JobKinds DEF RecallDecrypt, TypeOK
  <2>2. PICK m \in job[p].todo :
          /\ text' = [text EXCEPT ![p][m] = Decrypted(p, m)]
          /\ job' = [job EXCEPT ![p].todo = @ \ {m}, ![p].texts[m] = Decrypted(p, m)]
    BY <1>4 DEF RecallDecrypt
  <2> PICK T, t, ts : T = Decrypted(p, m) /\ t = text[p] /\ ts = job[p].texts
    OBVIOUS
  <2>3. m \in Mems
    BY <2>1 DEF DecryptJob
  <2>4. KnownText(T, m)
    <3>1. CASE text[p][m] # {}
      BY <3>1, <2>3, <1>a DEF Decrypted, TextsKnown
    <3>2. CASE text[p][m] = {} /\ T # {}
      <4>1. Stored(m) /\ T = memories[m].taint
        BY <3>2 DEF Decrypted
      <4> QED
        BY <4>1, <2>3, <1>a DEF KnownText, TextsInv, RowsRemembered
    <3>3. CASE T = {}
      BY <3>3 DEF KnownText
    <3> QED
      BY <3>1, <3>2, <3>3
  <2>5. /\ KnownText(T, m)' /\ \A n \in Mems : KnownText(t[n], n)' /\ KnownText(ts[n], n)'
    BY <2>1, <2>3, <2>4, <1>a, <1>k DEF TextsKnown
  <2>6. \A n \in Mems : text'[p][n] = IF n = m THEN T ELSE t[n]
    BY <2>2, <2>3, <1>a DEF TypeOK
  <2>7. job'[p].at = "decrypt" /\ \A n \in Mems : job'[p].texts[n] = IF n = m THEN T ELSE ts[n]
    <3>1. job'[p] = [job[p] EXCEPT !.todo = @ \ {m}, !.texts = [ts EXCEPT ![m] = T]]
      BY <2>2, <1>a DEF TypeOK
    <3>2. job'[p].at = "decrypt" /\ job'[p].texts = [ts EXCEPT ![m] = T]
      BY <3>1, <2>1 DEF DecryptJob
    <3> QED
      BY <3>2, <2>1, <2>3 DEF DecryptJob
  <2>8. TextsKnown(p)'
    BY <2>5, <2>6, <2>7 DEF TextsKnown, KnownText
  <2>9. \A q \in Procs : q # p => text'[q] = text[q] /\ job'[q] = job[q]
    BY <2>2, <1>a DEF TypeOK
  <2> QED
    BY <2>8, <2>9, <1>d
<1>5. ASSUME NEW p \in Procs, RecallRank(p) \/ RecallServe(p) PROVE TextsInv'
  <2> PICK t, ts : t = text[p] /\ ts = job[p].texts
    OBVIOUS
  <2>1. \A n \in Mems : KnownText(t[n], n)' /\ KnownText(ts[n], n)'
    BY <1>5, <1>a, <1>k DEF TextsKnown, RecallRank, RecallServe
  <2>2. /\ job'[p].at = "serve" /\ \A n \in Mems : job'[p].texts[n] \in {ts[n], {}}
        /\ text' = text /\ \A q \in Procs : q # p => job'[q] = job[q]
    <3>1. CASE RecallRank(p)
      BY <3>1, <1>a DEF RecallRank, TypeOK
    <3>2. CASE RecallServe(p)
      <4>1. job[p] \in ServeJob /\ job[p].at = "serve"
        BY <3>2, <1>a, JobKinds DEF RecallServe, TypeOK
      <4>2. PICK m \in Mems :
              job' = [job EXCEPT ![p].texts[m] = {}, ![p].results[m] = Served(p, m)]
        BY <3>2 DEF RecallServe
      <4>3. job'[p] = [job[p] EXCEPT !.texts = [ts EXCEPT ![m] = {}],
                                     !.results = [@ EXCEPT ![m] = Served(p, m)]]
        BY <4>2, <1>a DEF TypeOK
      <4>4. job'[p].at = "serve" /\ job'[p].texts = [ts EXCEPT ![m] = {}]
        BY <4>1, <4>3 DEF ServeJob
      <4>5. \A q \in Procs : q # p => job'[q] = job[q]
        BY <4>2, <1>a DEF TypeOK
      <4> QED
        BY <4>1, <4>4, <4>5, <3>2 DEF RecallServe, ServeJob
    <3> QED
      BY <3>1, <3>2, <1>5
  <2>3. TextsKnown(p)'
    BY <2>1, <2>2 DEF TextsKnown, KnownText
  <2> QED
    BY <2>2, <2>3, <1>d
\* The steps that leave a process with none but texts it had, and no text in hand.
<1>6. ASSUME NEW p \in Procs,
             /\ \A m \in Mems : text'[p][m] \in {text[p][m], {}}
             /\ job'[p].at \notin {"index", "decrypt", "serve"}
             /\ \A q \in Procs : q # p => text'[q] = text[q] /\ job'[q] = job[q]
      PROVE  TextsInv'
  BY <1>6, <1>c, <1>d
<1>7. ASSUME NEW p \in Procs,
             RememberStart(p) \/ KeyRead(p) \/ KeyCreate(p) \/ InsertRefused(p)
      PROVE  TextsInv'
  <2>1. text' = text
    BY <1>7 DEF RememberStart, KeyRead, KeyCreate, InsertRefused
  <2>2. /\ job'[p].at \in {"key", "create", "insert", "idle"}
        /\ \A q \in Procs : q # p => job'[q] = job[q]
    <3>1. CASE RememberStart(p)  BY <3>1, <1>a DEF RememberStart, TypeOK
    <3>2. CASE KeyRead(p)  BY <3>2, <1>a DEF KeyRead, TypeOK, Idle
    <3>3. CASE KeyCreate(p)  BY <3>3, <1>a DEF KeyCreate, TypeOK, Idle
    <3>4. CASE InsertRefused(p)  BY <3>4, <1>a DEF InsertRefused, TypeOK, Idle
    <3> QED
      BY <3>1, <3>2, <3>3, <3>4, <1>7
  <2> QED
    BY <2>1, <2>2, <1>6
<1>8. ASSUME NEW p \in Procs, Forget(p) PROVE TextsInv'
  <2>1. CASE Shred(p)
    <3>1. job[p] \in ForgetJob
      BY <2>1, <1>a, JobKinds DEF Shred, TypeOK
    <3>2. job'[p].at = "erase" /\ \A q \in Procs : q # p => job'[q] = job[q]
      BY <2>1, <3>1, <1>a DEF Shred, ForgetJob, TypeOK
    <3> QED
      BY <3>2, <2>1, <1>6 DEF Shred
  <2>2. CASE Evict(p)
    BY <2>2, <1>a, <1>6 DEF Evict, TypeOK
  <2>3. CASE ForgetStart(p) \/ PurgeSubject(p) \/ PurgeStranded(p) \/ RecordForget(p)
    <3>1. text' = text
      BY <2>3 DEF ForgetStart, PurgeSubject, PurgeStranded, RecordForget
    <3>2. job'[p].at \in {"shred", "evict", "idle"} /\ \A q \in Procs : q # p => job'[q] = job[q]
      BY <2>3, <1>a DEF ForgetStart, PurgeSubject, PurgeStranded, RecordForget, TypeOK, Idle
    <3> QED
      BY <3>1, <3>2, <1>6
  <2> QED
    BY <2>1, <2>2, <2>3, <1>8 DEF Forget
<1>9. ASSUME NEW p \in Procs, Purge(p) PROVE TextsInv'
  <2>1. CASE Unindex(p)
    <3>1. job[p] \in PurgeJob
      BY <2>1, <1>a, JobKinds DEF Unindex, TypeOK
    <3>2. job'[p].at = "recordPurge" /\ \A q \in Procs : q # p => job'[q] = job[q]
      BY <2>1, <3>1, <1>a DEF Unindex, PurgeJob, TypeOK
    <3> QED
      BY <3>2, <2>1, <1>6 DEF Unindex
  <2>2. CASE PurgeRow(p)
    <3>1. PICK m \in Mems : /\ text' = [text EXCEPT ![p][m] = {}]
                            /\ job' = [job EXCEPT ![p] = [at |-> "unindex", mem |-> m]]
      BY <2>2 DEF PurgeRow
    <3>2. /\ job'[p].at = "unindex"
          /\ \A q \in Procs : q # p => text'[q] = text[q] /\ job'[q] = job[q]
          /\ \A n \in Mems : text'[p][n] \in {text[p][n], {}}
      BY <3>1, <1>a DEF TypeOK
    <3> QED
      BY <3>2, <1>6
  <2>3. CASE RecordPurge(p)
    BY <2>3, <1>a, <1>6 DEF RecordPurge, TypeOK, Idle
  <2> QED
    BY <2>1, <2>2, <2>3, <1>9 DEF Purge
<1>10. ASSUME NEW p \in Procs, Rewrap(p) PROVE TextsInv'
  <2>1. CASE RewrapPut(p)
    <3>1. job[p] \in RewrapJob
      BY <2>1, <1>a, JobKinds DEF RewrapPut, TypeOK
    <3>2. PICK e \in job[p].held : job' = [job EXCEPT ![p] = [job[p] EXCEPT !.held = @ \ {e}]]
      BY <2>1 DEF RewrapPut
    <3>3. job'[p].at = "rewrap" /\ \A q \in Procs : q # p => job'[q] = job[q]
      BY <2>1, <3>1, <3>2, <1>a DEF RewrapPut, RewrapJob, TypeOK
    <3> QED
      BY <3>3, <2>1, <1>6 DEF RewrapPut
  <2>2. CASE RewrapList(p) \/ RewrapDone(p)
    BY <2>2, <1>a, <1>6 DEF RewrapList, RewrapDone, Idle, TypeOK
  <2> QED
    BY <2>1, <2>2, <1>10 DEF Rewrap
<1>11. ASSUME NEW p \in Procs, RecallReturn(p) \/ Crash(p) \/ Open(p) PROVE TextsInv'
  BY <1>11, <1>a, <1>6 DEF RecallReturn, Crash, Open, Idle, Down, TypeOK
<1>12. ASSUME job' = job, text' = text PROVE TextsInv'
  BY <1>12, <1>a, <1>b DEF TextsInv
<1>13. ASSUME NEW p \in Procs, AddEdge(p) PROVE TextsInv'
  BY <1>13, <1>12 DEF AddEdge
<1>14. CASE UNCHANGED vars
  BY <1>14, <1>12 DEF vars
<1> QED
  BY <1>1, <1>2, <1>3, <1>4, <1>5, <1>7, <1>8, <1>9, <1>10, <1>11, <1>13, <1>14
     DEF Next, Remember, Recall

\* What processes hold are texts they may hold, in every reachable state.
LEMMA TextsInvariant == Spec => []TextsInv
<1>1. Init => TextsInv
  BY TypeInit DEF Init, TextsInv, RowsRemembered, TextsKnown, KnownText, Stored, Idle
<1> QED
  BY <1>1, TextsStep, PTL DEF Spec

\* The results of a recall under way change only as it releases a row.
LEMMA ReleaseStep ==
    ASSUME TypeOK, [Next]_vars, NEW p \in Procs, job[p].at = "serve", job'[p].at = "serve",
           job'[p].results # job[p].results
    PROVE  RecallServe(p) /\ erased' = erased
<1>1. ASSUME NEW q \in Procs, RecallServe(q) PROVE RecallServe(p) /\ erased' = erased
  <2>1. q = p
    BY <1>1 DEF RecallServe, TypeOK
  <2> QED
    BY <2>1, <1>1 DEF RecallServe, history
\* The steps of others leave a job alone, and its own steps start elsewhere or end it.
<1>2. ASSUME NEW q \in Procs,
             \/ RememberStart(q) \/ KeyRead(q) \/ KeyCreate(q) \/ InsertRefused(q) \/ IndexAdd(q)
      PROVE  FALSE
  <2>1. CASE RememberStart(q)  BY <2>1 DEF RememberStart, TypeOK, Idle
  <2>2. CASE KeyRead(q)  BY <2>2 DEF KeyRead, TypeOK
  <2>3. CASE KeyCreate(q)  BY <2>3 DEF KeyCreate, TypeOK
  <2>4. CASE InsertRefused(q)  BY <2>4 DEF InsertRefused, TypeOK
  <2>5. CASE IndexAdd(q)  BY <2>5 DEF IndexAdd, TypeOK
  <2> QED
    BY <2>1, <2>2, <2>3, <2>4, <2>5, <1>2
<1>3. ASSUME NEW q \in Procs, Insert(q) PROVE FALSE
  <2>1. PICK indexed \in BOOLEAN :
          job' = [job EXCEPT ![q] =
                    IF indexed THEN [at |-> "index", mem |-> job[q].draft.mem,
                                     taint |-> job[q].draft.taint]
                    ELSE Idle]
    BY <1>3 DEF Insert
  <2>2. job[q].at = "insert"
    BY <1>3 DEF Insert
  <2> QED
    BY <2>1, <2>2 DEF TypeOK
<1>4. ASSUME NEW q \in Procs, Forget(q) PROVE FALSE
  BY <1>4 DEF Forget, ForgetStart, Shred, PurgeSubject, PurgeStranded, Evict, RecordForget,
              TypeOK, Idle
<1>5. ASSUME NEW q \in Procs, Purge(q) PROVE FALSE
  <2>1. CASE PurgeRow(q)
    <3>1. PICK m \in Mems : job' = [job EXCEPT ![q] = [at |-> "unindex", mem |-> m]]
      BY <2>1 DEF PurgeRow
    <3>2. job[q] = Idle
      BY <2>1 DEF PurgeRow
    <3> QED
      BY <3>1, <3>2 DEF TypeOK, Idle
  <2>2. CASE Unindex(q) \/ RecordPurge(q)
    BY <2>2 DEF Unindex, RecordPurge, TypeOK
  <2> QED
    BY <2>1, <2>2, <1>5 DEF Purge
<1>6. ASSUME NEW q \in Procs, Rewrap(q) PROVE FALSE
  BY <1>6 DEF Rewrap, RewrapList, RewrapPut, RewrapDone, TypeOK, Idle
<1>7. ASSUME NEW q \in Procs,
             RecallStart(q) \/ RecallDecrypt(q) \/ RecallRank(q) \/ RecallReturn(q)
      PROVE  FALSE
  <2>1. CASE RecallStart(q)  BY <2>1 DEF RecallStart, TypeOK, Idle
  <2>2. CASE RecallDecrypt(q)
    <3>1. PICK m : job' = [job EXCEPT ![q].todo = @ \ {m}, ![q].texts[m] = Decrypted(q, m)]
      BY <2>2 DEF RecallDecrypt
    <3>2. job[q].at = "decrypt"
      BY <2>2 DEF RecallDecrypt
    <3> QED
      BY <3>1, <3>2 DEF TypeOK
  <2>3. CASE RecallRank(q)  BY <2>3 DEF RecallRank, TypeOK
  <2>4. CASE RecallReturn(q)  BY <2>4 DEF RecallReturn, TypeOK, Idle
  <2> QED
    BY <2>1, <2>2, <2>3, <2>4, <1>7
<1>8. ASSUME NEW q \in Procs, AddEdge(q) \/ Crash(q) \/ Open(q) PROVE FALSE
  BY <1>8 DEF AddEdge, Crash, Open, TypeOK, Idle, Down
<1>9. CASE UNCHANGED vars
  BY <1>9 DEF vars
<1> QED
  BY <1>1, <1>2, <1>3, <1>4, <1>5, <1>6, <1>7, <1>8, <1>9 DEF Next, Remember, Recall

\* A recall under way when an erasure commits releases nothing more of the subject's:
\* with any number of processes, each with its own cache and its own recall.
THEOREM NoErasedReleased == Spec => NoErasedRecall
<1> DEFINE Release ==
        \A p \in Procs : job[p].at = "serve" /\ job'[p].at = "serve" =>
            \A m \in Mems : job'[p].results[m] # job[p].results[m] =>
                job'[p].results[m] \cap erased = {} \/ m \in severed \cup again
<1>1. TextsInv /\ DerivedInv /\ [Next]_vars => [Release]_vars
  <2> SUFFICES ASSUME TextsInv, DerivedInv, [Next]_vars PROVE Release
    OBVIOUS
  <2>a. TypeOK /\ DerivedDataGone /\ \A q \in Procs : TextsKnown(q)
    BY DEF TextsInv, DerivedInv
  <2> SUFFICES ASSUME NEW p \in Procs, job[p].at = "serve", job'[p].at = "serve",
                      NEW m \in Mems, job'[p].results[m] # job[p].results[m]
               PROVE  job'[p].results[m] \cap erased = {} \/ m \in severed \cup again
    OBVIOUS
  <2>1. RecallServe(p)
    <3>1. job'[p].results # job[p].results
      OBVIOUS
    <3> QED
      BY <3>1, <2>a, ReleaseStep
  <2>2. job[p] \in ServeJob
    BY <2>a, JobKinds DEF TypeOK
  <2>3. PICK n \in Mems :
          job' = [job EXCEPT ![p].texts[n] = {}, ![p].results[n] = Served(p, n)]
    BY <2>1 DEF RecallServe
  <2>4. job'[p].results = [job[p].results EXCEPT ![n] = Served(p, n)]
    BY <2>2, <2>3, <2>a DEF ServeJob, TypeOK
  <2>5. n = m /\ job'[p].results[m] = Served(p, m)
    BY <2>2, <2>4 DEF ServeJob
  <2>6. KnownText(job[p].texts[m], m)
    BY <2>a DEF TextsKnown
  <2>7. CASE Stored(m) /\ m \notin again
    <3>1. Served(p, m) \subseteq memories[m].taint
      BY <2>6, <2>7 DEF KnownText, Served
    <3> QED
      BY <3>1, <2>5, <2>7, <2>a DEF DerivedDataGone
  <2>8. CASE ~Stored(m)
    BY <2>5, <2>8 DEF Served
  <2> QED
    BY <2>7, <2>8
<1> QED
  BY <1>1, TextsInvariant, DerivedInvariant, PTL DEF Spec, NoErasedRecall
================================================================================
