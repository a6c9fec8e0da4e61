---------------------------- MODULE MCServingState ----------------------------
(***************************************************************************)
(* What a recall rests on, as one state machine for TLC: a behaviour is    *)
(* one of ReviewLifecycle, with no approver and the verbs that retire      *)
(* several rows at once, or of GovernedStore with the caches of processes  *)
(* that recall, while the other rests in one of its initial states.  S is  *)
(* GovernedStore, taken with its theorems, which ReviewLifecycleProofs     *)
(* cites.                                                                  *)
(***************************************************************************)
EXTENDS ReviewLifecycle, TLC

CONSTANTS Servers, VecServers, Recallable, Subjects, NoRow, NoKey, Shredded  \* GovernedStore

VARIABLES
    part,
    memories, edges, lineage, keys, vectors, vecTable, changes, text, job,
    erased, severed, filePurged, again

store == <<memories, edges, lineage, keys, vectors, vecTable, changes, text, job,
           erased, severed, filePurged, again>>

S == INSTANCE GovernedStoreProofs WITH
    Procs <- Servers, VecCapable <- VecServers, VecProcs <- VecServers, Mems <- Recallable,
    Ops <- {"forget", "recall", "crash"}, MaxParents <- 1, MaxEdges <- 0, audit <- changes

ASSUME ServingConstants ==
    /\ VecServers \subseteq Servers
    /\ NoRow \notin S!Row
    /\ {NoKey, Shredded} \cap Servers = {} /\ NoKey # Shredded

UnionInit == part \in {"review", "store"} /\ Init /\ S!Init

UnionNext ==
    \/ part = "review" /\ Next /\ UNCHANGED <<part, store>>
    \/ part = "store" /\ S!Next /\ UNCHANGED <<part, vars>>

UnionSpec == UnionInit /\ [][UnionNext]_<<part, vars, store>>

Symmetry == Permutations(Procs) \cup Permutations(Mems)

\* Only a per-file purge leaves a vector without its row: see GovernedStore.
VectorsFollowRows == S!VectorsFollowRows

\* No recall releases what a finished erasure has erased: see GovernedStore.
NoErasedRecall == S!NoErasedRecall
================================================================================
