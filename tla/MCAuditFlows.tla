------------------------------ MODULE MCAuditFlows ------------------------------
(***************************************************************************)
(* The audit log and what is built on it, as one state machine for TLC: a  *)
(* behaviour is one of AuditChain, Continuity, StrictCutover, Anchors with *)
(* rollbacks of the database and the sink, or ErasureReceipts (with two    *)
(* clients that write and erase, or with one that also purges files and    *)
(* crashes), while the others rest in one of their initial states.         *)
(* Anchors and ErasureReceipts come with their theorems, which             *)
(* AuditFlowsProofs cites.                                                 *)
(***************************************************************************)
EXTENDS StrictCutover, TLC

CONSTANTS
    MaxRows, MaxChainEdits,                       \* AuditChain
    Issuers, Names, MaxRoutes, MaxReceipts,       \* Continuity
    Procs, Digests, EveryN, NoRecord,                \* Anchors
    Clients, Subjects, Mems, NoRow, NoKey, Shredded  \* ErasureReceipts

VARIABLES
    part,
    chain, written, sink, head, anchoring, finalizing, receipts, exporting, bundle,
    checkpoint, chainEdits,
    contracts, minted, aliases, entries, issuing,
    anchored, recorded, failed, store, job, timer, backoff, aged, backup, acked, loss,
    memories, edges, lineage, keys, vectors, vecTable, auditLog, cached, call,
    erased, severed, filePurged, purgedIds, erasureReceipts, importing, imports, strays, again

audit == <<chain, written, sink, head, anchoring, finalizing, receipts, exporting, bundle,
           checkpoint, chainEdits>>
continuity == <<contracts, minted, aliases, entries, issuing>>
rollback == <<anchored, recorded, failed, store, job, timer, backoff, aged, backup, acked, loss>>
erasure == <<memories, edges, lineage, keys, vectors, vecTable, auditLog, cached, call,
             erased, severed, filePurged, purgedIds, erasureReceipts, importing, imports,
             strays, again>>

A == INSTANCE AuditChain WITH log <- chain, edits <- chainEdits, MaxEdits <- MaxChainEdits
C == INSTANCE Continuity WITH log <- entries, MaxLog <- MaxReceipts
R == INSTANCE AnchorsProofs WITH chain <- anchored, sink <- store, Background <- FALSE,
         Events <- {"anchor", "pin", "outage", "crash", "restore", "cut"}

\* Two clients that write and erase while edges are imported.
E == INSTANCE ErasureReceiptsProofs WITH
    Procs <- Clients, VecCapable <- {}, VecProcs <- {}, Ops <- {"forget"},
    MaxParents <- 1, MaxEdges <- 0, MaxImports <- 1, MaxLinks <- 1,
    audit <- auditLog, text <- cached, job <- call, receipts <- erasureReceipts

\* One client, which also purges files and crashes, while edges are imported.
P == INSTANCE ErasureReceiptsProofs WITH
    Procs <- Servers, VecCapable <- {}, VecProcs <- {}, Ops <- {"forget", "purge", "crash"},
    MaxParents <- 1, MaxEdges <- 0, MaxImports <- 1, MaxLinks <- 1,
    audit <- auditLog, text <- cached, job <- call, receipts <- erasureReceipts

ASSUME AnchorConstants == EveryN \in Nat \ {0} /\ MaxRows \in Nat

ASSUME ReceiptConstants ==
    /\ NoRow \notin E!Row \cup P!Row
    /\ {NoKey, Shredded} \cap (Clients \cup Servers) = {} /\ NoKey # Shredded

UnionInit ==
    /\ part \in {"audit", "continuity", "strict", "rollback", "erasure", "purge"}
    /\ IF part = "purge" THEN P!ReceiptInit ELSE E!ReceiptInit
    /\ A!Init /\ C!Init /\ Init /\ R!Init
    /\ part # "strict" =>
         /\ registry = {}
         /\ LET one == CHOOSE i \in Ids : TRUE
                text == CHOOSE t \in Texts : TRUE
            IN rows = [i \in {one} |->
                         [text |-> text, hash |-> text, alg |-> "ed25519", of |-> text]]

UnionNext ==
    \/ part = "audit" /\ A!Next /\ UNCHANGED <<part, continuity, vars, rollback, erasure>>
    \/ part = "continuity" /\ C!Next /\ UNCHANGED <<part, audit, vars, rollback, erasure>>
    \/ part = "strict" /\ Next /\ UNCHANGED <<part, audit, continuity, rollback, erasure>>
    \/ part = "rollback" /\ R!Next /\ UNCHANGED <<part, audit, continuity, vars, erasure>>
    \/ part = "erasure" /\ E!ReceiptNext /\ UNCHANGED <<part, audit, continuity, vars, rollback>>
    \/ part = "purge" /\ P!ReceiptNext /\ UNCHANGED <<part, audit, continuity, vars, rollback>>

UnionSpec == UnionInit /\ [][UnionNext]_<<part, audit, continuity, vars, rollback, erasure>>

\* A bundle that passes binds the receipts its checkpoint covers: see AuditChain.
ReceiptsBound == A!ReceiptsBound

\* Only a raced genesis receipt fails verification: see Continuity.
OnlyRacedFail == C!OnlyRacedFail

\* No ok receipt after a rollback of what was acknowledged: see Anchors.
OkMeansIntact == R!OkMeansIntact

\* An erasure receipt keeps passing its store check: see ErasureReceipts.
ReceiptStands == E!ReceiptStands
================================================================================
