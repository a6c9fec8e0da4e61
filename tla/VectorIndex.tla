------------------------------ MODULE VectorIndex ------------------------------
(***************************************************************************)
(* The vector indexes of processes that share a store (index.py): numpy    *)
(* keeps its vectors in the process, sqlite-vec in the table heartwood_vec *)
(* of the file.  An id may be purged and written again: versions tell what *)
(* was written apart.  A search is asked for as many hits as there are     *)
(* rows; hard erasure is GovernedStore's.                                  *)
(***************************************************************************)
EXTENDS Naturals, FiniteSets

CONSTANTS
    Procs,      \* processes
    Mems,       \* memory ids
    MaxVersions \* bound on rows written

VARIABLES
    vecProcs, \* the processes that open the store with index="sqlite-vec"
    rows,     \* each id's version (0: no row) and whether it is indexed
    table,    \* heartwood_vec: the version of each id's vector, 0 if none
    version,  \* the last version written
    vecs,     \* NumpyVectorIndex._v of each process
    dim,      \* SqliteVecIndex._dim is set
    job,      \* what each process is doing
    known,    \* rows still stored a process wrote, or read when it opened
    overtaken \* versions written while another process was busy with the id

fileVars == <<rows, table, version>>
vars == <<vecProcs, fileVars, vecs, dim, job, known, overtaken>>

Absent == [version |-> 0, indexed |-> FALSE]
Closed == [at |-> "closed"]
Idle   == [at |-> "idle"]

Stored(m) == rows[m].version # 0
StoredRows == {<<m, rows[m].version>> : m \in Mems}
IndexedRows == {m \in Mems : rows[m].indexed}

TypeOK ==
    /\ vecProcs \subseteq Procs
    /\ rows \in [Mems -> [version : 0..MaxVersions, indexed : BOOLEAN]]
    /\ table \in [Mems -> 0..MaxVersions] /\ version \in 0..MaxVersions
    /\ vecs \in [Procs -> [Mems -> 0..MaxVersions]] /\ dim \in [Procs -> BOOLEAN]
    /\ \A p \in Procs : job[p].at \in {"closed", "select", "rebuild", "idle", "add", "remove"}
    /\ known \in [Procs -> SUBSET (Mems \X (1..MaxVersions))]
    /\ overtaken \subseteq 1..MaxVersions

Init ==
    /\ vecProcs \in SUBSET Procs
    /\ rows = [m \in Mems |-> Absent] /\ table = [m \in Mems |-> 0] /\ version = 0
    /\ vecs = [p \in Procs |-> [m \in Mems |-> 0]] /\ dim = [p \in Procs |-> FALSE]
    /\ job = [p \in Procs |-> Closed]
    /\ known = [p \in Procs |-> {}] /\ overtaken = {}

\* What a search by p finds of m for a caller who may see m.
SearchNumpy(p, m) == vecs[p][m]
SearchVec(p, m) == IF dim[p] THEN table[m] ELSE 0
Found(p, m) == IF p \in vecProcs THEN SearchVec(p, m) ELSE SearchNumpy(p, m)

\* p goes on with next.  An open SELECT of another process does not see what it
\* has committed, and that process may no longer write while it reads.
Commit(p, next) ==
    job' = [q \in Procs |-> IF q = p THEN next
                            ELSE IF job[q].at = "rebuild" THEN [job[q] EXCEPT !.stale = TRUE]
                            ELSE job[q]]

(***************************************************************************)
(* Opening: index.rebuild.                                                 *)
(***************************************************************************)
OpenNumpy(p) ==
    /\ job[p] = Closed /\ p \notin vecProcs
    /\ vecs' = [vecs EXCEPT ![p] = [m \in Mems |-> IF rows[m].indexed THEN rows[m].version ELSE 0]]
    /\ known' = [known EXCEPT ![p] = {<<m, rows[m].version>> : m \in IndexedRows}]
    /\ job' = [job EXCEPT ![p] = Idle]
    /\ UNCHANGED <<fileVars, dim, overtaken>>

\* Mutant of DropOrphans: the table is emptied, to be filled again.
DropAll(p) ==
    /\ job[p] = Closed /\ p \in vecProcs
    /\ table' = [m \in Mems |-> 0]
    /\ Commit(p, [at |-> "select"])
    /\ UNCHANGED <<rows, version, vecs, dim, known, overtaken>>

\* drop_orphan_vectors, in a transaction of its own.
DropOrphans(p) ==
    /\ job[p] = Closed /\ p \in vecProcs
    /\ table' = [m \in Mems |-> IF Stored(m) THEN table[m] ELSE 0]
    /\ IF table' # table THEN Commit(p, [at |-> "select"])
                         ELSE job' = [job EXCEPT ![p] = [at |-> "select"]]
    /\ UNCHANGED <<rows, version, vecs, dim, known, overtaken>>

\* all_embeddings begins to be read.
Select(p) ==
    /\ job[p].at = "select"
    /\ LET found == {<<m, rows[m].version>> : m \in IndexedRows}
       IN /\ known' = [known EXCEPT ![p] = found]
          /\ job' = [job EXCEPT ![p] = IF found = {} THEN Idle
                                       ELSE [at |-> "rebuild", todo |-> found, stale |-> FALSE]]
    /\ UNCHANGED <<fileVars, vecs, dim, overtaken>>

\* add_if_stored: the old vector goes, the new one is stored only with a row.
Put(m, v) == table' = [table EXCEPT ![m] = IF Stored(m) THEN v ELSE 0]

\* The row read last is written when the SELECT has ended.
Readd(p) ==
    /\ job[p].at = "rebuild"
    /\ \E e \in job[p].todo :
        LET left == job[p].todo \ {e}
        IN /\ left # {} => ~job[p].stale
           /\ Put(e[1], e[2])
           /\ Commit(p, IF left = {} THEN Idle ELSE [job[p] EXCEPT !.todo = left])
    /\ dim' = [dim EXCEPT ![p] = TRUE]
    /\ UNCHANGED <<rows, version, vecs, known, overtaken>>

Close(p) ==
    /\ job' = [job EXCEPT ![p] = Closed]
    /\ vecs' = [vecs EXCEPT ![p] = [m \in Mems |-> 0]]
    /\ dim' = [dim EXCEPT ![p] = FALSE]
    /\ known' = [known EXCEPT ![p] = {}]
    /\ UNCHANGED <<fileVars, overtaken>>

\* "database is locked": the constructor raises, what was re-added stays.
OpenFails(p) ==
    /\ job[p].at = "rebuild" /\ job[p].stale /\ Cardinality(job[p].todo) > 1
    /\ Close(p)

Crash(p) == job[p].at # "closed" /\ Close(p)

(***************************************************************************)
(* remember, purge and set_indexed.                                        *)
(***************************************************************************)
\* Another process is in the middle of a write, purge or opening that holds m.
Busy(p, m) ==
    \E q \in Procs \ {p} :
        \/ job[q].at \in {"add", "remove"} /\ job[q].mem = m
        \/ job[q].at = "rebuild" /\ \E e \in job[q].todo : e[1] = m

Remember(p) ==
    /\ job[p] = Idle /\ version < MaxVersions
    /\ \E m \in Mems, indexed \in BOOLEAN :
        /\ ~Stored(m)
        /\ rows' = [rows EXCEPT ![m] = [version |-> version + 1, indexed |-> indexed]]
        /\ Commit(p, IF indexed THEN [at |-> "add", mem |-> m, version |-> version + 1] ELSE Idle)
        /\ overtaken' = IF Busy(p, m) THEN overtaken \cup {version + 1} ELSE overtaken
    /\ version' = version + 1
    /\ UNCHANGED <<table, vecs, dim, known>>

\* index.add_if_stored, after the row's transaction.
AddVector(p) ==
    /\ job[p].at = "add"
    /\ IF p \in vecProcs
       THEN /\ Put(job[p].mem, job[p].version) /\ dim' = [dim EXCEPT ![p] = TRUE]
            /\ Commit(p, Idle) /\ UNCHANGED vecs
       ELSE /\ vecs' = [vecs EXCEPT ![p][job[p].mem] = job[p].version]
            /\ job' = [job EXCEPT ![p] = Idle] /\ UNCHANGED <<table, dim>>
    /\ known' = [known EXCEPT ![p] = @ \cup ({<<job[p].mem, job[p].version>>} \cap StoredRows)]
    /\ UNCHANGED <<rows, version, overtaken>>

\* purge: the row, if there is one, and then its vector.
PurgeRow(p) ==
    /\ job[p] = Idle
    /\ \E m \in Mems :
        /\ rows' = [rows EXCEPT ![m] = Absent]
        /\ Commit(p, [at |-> "remove", mem |-> m])
        /\ known' = [q \in Procs |-> known[q] \ {<<m, rows[m].version>>}]
        /\ overtaken' = overtaken \ {rows[m].version}
    /\ UNCHANGED <<table, version, vecs, dim>>

\* index.remove.
RemoveVector(p) ==
    /\ job[p].at = "remove"
    /\ IF p \in vecProcs
       THEN table' = [table EXCEPT ![job[p].mem] = 0] /\ UNCHANGED vecs
       ELSE vecs' = [vecs EXCEPT ![p][job[p].mem] = 0] /\ UNCHANGED table
    /\ Commit(p, Idle)
    /\ UNCHANGED <<rows, version, dim, known, overtaken>>

SetIndexed(p) ==
    /\ job[p] = Idle
    /\ \E m \in Mems, indexed \in BOOLEAN :
        /\ Stored(m)
        /\ rows' = [rows EXCEPT ![m].indexed = indexed]
        /\ Commit(p, Idle)
    /\ UNCHANGED <<table, version, vecs, dim, known, overtaken>>

Next ==
    /\ UNCHANGED vecProcs
    /\ \E p \in Procs :
        \/ OpenNumpy(p) \/ DropOrphans(p) \/ Select(p) \/ Readd(p) \/ OpenFails(p) \/ Crash(p)
        \/ Remember(p) \/ AddVector(p) \/ PurgeRow(p) \/ RemoveVector(p) \/ SetIndexed(p)

Spec == Init /\ [][Next]_vars

(***************************************************************************)
(* Properties.                                                             *)
(***************************************************************************)
Ready(p) == job[p].at \in {"idle", "add", "remove"}

\* A process finds, by its vector, every row it has finished writing and every row
\* that was indexed when it opened the store, for as long as the row stays indexed,
\* whatever others open, purge and write and whoever dies; only a row written over an
\* id that another process was adding, removing or re-adding just then may be missed.
KnownRowsFound ==
    \A p \in Procs : \A e \in known[p] :
        Ready(p) /\ rows[e[1]] = [version |-> e[2], indexed |-> TRUE] /\ e[2] \notin overtaken
            => Found(p, e[1]) = e[2]
================================================================================
