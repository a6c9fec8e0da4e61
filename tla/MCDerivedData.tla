----------------------------- MODULE MCDerivedData -----------------------------
(***************************************************************************)
(* What is derived from stored rows, as one state machine for TLC: a       *)
(* behaviour is one of PolicyInheritance, of GovernedStore with one        *)
(* process, per-file purges and edges added later, or of VectorIndex with  *)
(* any of its processes using sqlite-vec, while the others rest in one of  *)
(* their initial states.  G is GovernedStore, taken with its theorems,     *)
(* which DerivedDataProofs cites.                                          *)
(***************************************************************************)
EXTENDS PolicyInheritance, TLC

CONSTANTS
    Procs, Subjects, NoKey, Shredded, MaxEdges,    \* GovernedStore
    Openers, Indexable, MaxVersions                \* VectorIndex

VARIABLES
    part,
    memories, edges, lineage, keys, vectors, vecTable, audit, text, job,
    erased, severed, filePurged, again,
    vecProcs, indexRows, table, version, vecs, dim, doing, known, overtaken

store == <<memories, edges, lineage, keys, vectors, vecTable, audit, text, job,
           erased, severed, filePurged, again>>
indexes == <<vecProcs, indexRows, table, version, vecs, dim, doing, known, overtaken>>

G == INSTANCE GovernedStoreProofs WITH
    VecCapable <- {}, VecProcs <- {}, Ops <- {"forget", "purge", "link"}, MaxParents <- 1
V == INSTANCE VectorIndex WITH
    Procs <- Openers, Mems <- Indexable, rows <- indexRows, job <- doing

ASSUME StoreConstants ==
    /\ NoRow \notin G!Row
    /\ {NoKey, Shredded} \cap Procs = {} /\ NoKey # Shredded
    /\ MaxEdges \in Nat

UnionInit ==
    /\ part \in {"policy", "store", "indexes"}
    /\ Init /\ G!Init /\ V!Init
    /\ part # "indexes" => vecProcs = {}

UnionNext ==
    \/ part = "policy" /\ Next /\ UNCHANGED <<part, store, indexes>>
    \/ part = "store" /\ G!Next /\ UNCHANGED <<part, vars, indexes>>
    \/ part = "indexes" /\ V!Next /\ UNCHANGED <<part, vars, store>>

UnionSpec == UnionInit /\ [][UnionNext]_<<part, vars, store, indexes>>

Symmetry == Permutations(Mems) \cup Permutations(Subjects)

\* Nothing derived from an erased subject's data is left: see GovernedStore.
DerivedDataGone == G!DerivedDataGone

\* A process finds by their vectors the rows it knows: see VectorIndex.
KnownRowsFound == V!KnownRowsFound
================================================================================
