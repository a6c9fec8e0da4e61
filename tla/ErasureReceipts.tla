---------------------------- MODULE ErasureReceipts ----------------------------
(***************************************************************************)
(* The receipts forget() issues (client.py), their check against a store   *)
(* file (receipts.py, verify_erasure_store), and the importer that adds    *)
(* provenance edges to the same file (importers/edges.py), over the store  *)
(* of GovernedStore.                                                       *)
(*                                                                         *)
(* A link of an import is a pair of ends.  How a wikilink or a proposal's  *)
(* line comes to name a memory is abstracted to the choice of a set of     *)
(* pairs; a target that several memories answer to, or none, is no pair.   *)
(* Recalls and key rotation change nothing a receipt names and are left    *)
(* out, as are erasures that sqlite-vec's absence makes fail: they issue   *)
(* no receipt.                                                             *)
(***************************************************************************)
EXTENDS GovernedStore

CONSTANTS
    MaxImports,   \* bound on the imports of edges
    MaxLinks      \* bound on the links of one import

VARIABLES
    purgedIds,  \* what each process's last purge deleted
    receipts,   \* signed erasure receipts
    importing,  \* the import under way: links to insert, once its index is read
    imports,    \* imports so far
    (* history *)
    strays      \* edges to a parent remember() did not find, and imported edges of
                \* which an end was purged after the import had read its index

receiptVars == <<purgedIds, receipts, importing, imports, strays>>
allVars == <<vars, receiptVars>>

NoImport == [at |-> "none"]

ReceiptInit ==
    /\ Init
    /\ purgedIds = [p \in Procs |-> {}]
    /\ receipts = {}
    /\ importing = NoImport
    /\ imports = 0
    /\ strays = {}

(***************************************************************************)
(* The store's own steps.  forget() keeps what purge_subject returned for  *)
(* the receipt, whose signing may fail.                                    *)
(***************************************************************************)
PurgeSubjectKept(p) ==
    /\ PurgeSubject(p)
    /\ purgedIds' = [purgedIds EXCEPT ![p] = PurgeSet(p)]
    /\ UNCHANGED <<receipts, importing, imports, strays>>

RecordForgetReceipt(p) ==
    /\ RecordForget(p)
    /\ receipts' \in {receipts,
                      receipts \cup {[subject |-> job[p].subject, purged |-> purgedIds[p]]}}
    /\ purgedIds' = [purgedIds EXCEPT ![p] = {}]
    /\ UNCHANGED <<importing, imports, strays>>

\* remember() draws an edge to each parent it is given, found or not.
InsertEdges(p) ==
    /\ Insert(p)
    /\ LET d == job[p].draft
       IN strays' = strays \cup {<<d.mem, parent>> : parent \in d.derived \ d.live}
    /\ UNCHANGED <<purgedIds, receipts, importing, imports>>

OtherStep(p) ==
    /\ \/ RememberStart(p) \/ KeyRead(p) \/ KeyCreate(p) \/ InsertRefused(p) \/ IndexAdd(p)
       \/ ForgetStart(p) \/ Shred(p) \/ Evict(p)
       \/ Purge(p)
    /\ UNCHANGED receiptVars

CrashUnsigned(p) ==
    /\ Crash(p) \/ Open(p)
    /\ purgedIds' = [purgedIds EXCEPT ![p] = {}]
    /\ UNCHANGED <<receipts, importing, imports, strays>>

(***************************************************************************)
(* import_edges: the index is read, then every edge is inserted and        *)
(* committed in one transaction.                                           *)
(***************************************************************************)

\* Mutant of Known: a proposal's ends are not looked up.
KnownAny(index) == Mems \X Mems

\* A proposal's ends are in the index; a wikilink's are found in it.
Known(index) == index \X index

\* _memory_index, and the links of the sources resolved against it.
ImportIndex ==
    /\ importing = NoImport
    /\ imports < MaxImports
    /\ \E links \in SUBSET (Mems \X Mems) :
        /\ Cardinality(links) \in 1..MaxLinks
        /\ LET index == {m \in Mems : Stored(m)}
           IN importing' = [at |-> "insert", index |-> index, links |-> links \cap Known(index)]
    /\ imports' = imports + 1
    /\ UNCHANGED <<vars, purgedIds, receipts, strays>>

\* The first insert takes the write lock that the commit gives up.
ImportCommit ==
    /\ importing # NoImport
    /\ edges' = edges \cup importing.links
    /\ LET gone == {m \in importing.index : ~Stored(m)}
       IN strays' = strays \cup {e \in importing.links : e[1] \in gone \/ e[2] \in gone}
    /\ importing' = NoImport
    /\ UNCHANGED <<memories, lineage, keys, vectors, vecTable, audit, text, job, history,
                   purgedIds, receipts, imports>>

\* An error raised with stop_on_error, or the importer's death: nothing is kept.
ImportFails ==
    /\ importing # NoImport
    /\ importing' = NoImport
    /\ UNCHANGED <<vars, purgedIds, receipts, imports, strays>>

ReceiptNext ==
    \/ \E p \in Procs : PurgeSubjectKept(p) \/ RecordForgetReceipt(p) \/ InsertEdges(p)
                        \/ OtherStep(p) \/ CrashUnsigned(p)
    \/ ImportIndex \/ ImportCommit \/ ImportFails

ReceiptSpec == ReceiptInit /\ [][ReceiptNext]_allVars

(***************************************************************************)
(* verify_erasure_store, check by check.                                   *)
(***************************************************************************)
KeyTombstone(r) == keys[r.subject] = Shredded
NamedRows(r) == {m \in r.purged : Stored(m)}
NamedEdges(r) == {e \in edges : e[1] \in r.purged \/ e[2] \in r.purged}
SubjectRows(r) == {m \in Mems : Stored(m) /\ r.subject \in memories[m].names}
SubjectLineage(r) == {l \in lineage : l[2] = r.subject}
NamedLineage(r) == {l \in lineage : l[1] \in r.purged}

Passes(r) ==
    /\ KeyTombstone(r) /\ NamedRows(r) = {} /\ NamedEdges(r) = {}
    /\ SubjectRows(r) = {} /\ SubjectLineage(r) = {} /\ NamedLineage(r) = {}

--------------------------------------------------------------------------------
(***************************************************************************)
(* Properties.                                                             *)
(***************************************************************************)

\* An erasure receipt passes verify_erasure_store whenever it is checked, whatever
\* writers, purges, crashes and imports race the erasure and follow it, except that
\* a caller gave a purged id to a new row, or that an import resolved an edge before
\* the purge, or remember() drew one to an id it did not find.  No row, key or
\* lineage of the subject ever makes it fail.
ReceiptStands ==
    \A r \in receipts : Passes(r) \/
        /\ KeyTombstone(r) /\ SubjectRows(r) = {} /\ SubjectLineage(r) = {}
        /\ NamedRows(r) \subseteq again
        /\ \A l \in NamedLineage(r) : l[1] \in again
        /\ \A e \in NamedEdges(r) : e \in strays \/ e[1] \in again \/ e[2] \in again
================================================================================
