------------------------------- MODULE AuditChain -------------------------------
(***************************************************************************)
(* The audit log of audit.py and store.py, the receipts bound to its rows  *)
(* (receipts.py, client.py) and the bundles exported from it, which are    *)
(* verified offline against an anchor the auditor has pinned               *)
(* (audit_bundle.py).  The log and the sink may be edited or cut by hand.  *)
(* A row's hash is the sequence of bodies it closes.                       *)
(***************************************************************************)
EXTENDS Naturals, Sequences, FiniteSets

CONSTANTS
    MaxRows,   \* bound on the rows ever written
    MaxEdits   \* bound on edits by hand

VARIABLES
    log,        \* audit_log: seq to row
    written,    \* rows ever written; also the body of the last one
    sink,       \* anchor records: seq and row hash
    head,       \* anchor_sink_head: the record it names, or none
    anchoring,  \* a record appended whose head is not recorded yet
    finalizing, \* a bound row whose receipt is not signed yet
    receipts,   \* receipts issued
    exporting,  \* the sink's records as the export has read them
    bundle,     \* the bundle file
    checkpoint, \* the latest anchor the auditor has pinned
    edits       \* edits so far

vars == <<log, written, sink, head, anchoring, finalizing, receipts, exporting,
          bundle, checkpoint, edits>>

None == [none |-> TRUE]
HashOf(prev, body) == Append(prev, body)

TypeOK ==
    /\ DOMAIN log \subseteq 1..MaxRows
    /\ \A n \in DOMAIN log : log[n].body \in 0..MaxRows
    /\ written \in 0..MaxRows
    /\ edits \in 0..MaxEdits

Init ==
    /\ log = <<>> /\ written = 0 /\ sink = <<>> /\ head = None
    /\ anchoring = None /\ finalizing = None /\ receipts = {}
    /\ exporting = <<>> /\ bundle = None /\ checkpoint = None /\ edits = 0

HeadSeq(rows) == IF DOMAIN rows = {} THEN 0
                 ELSE CHOOSE n \in DOMAIN rows : \A k \in DOMAIN rows : k <= n
HeadHash(rows) == IF HeadSeq(rows) = 0 THEN <<>> ELSE rows[HeadSeq(rows)].hash
With(f, x, v) == [y \in DOMAIN f \cup {x} |-> IF y = x THEN v ELSE f[y]]
Before(rows, n) == [k \in {j \in DOMAIN rows : j < n} |-> rows[k]]

(***************************************************************************)
(* Writing.  BEGIN IMMEDIATE: the tail is read and extended in one step.   *)
(* seq is AUTOINCREMENT: the seq of a row that was cut is not used again.  *)
(***************************************************************************)
NextSeq == written + 1
NewRow == [body |-> NextSeq, prev |-> HeadHash(log),
           hash |-> HashOf(HeadHash(log), NextSeq)]

\* append_audit_atomic, append_audit_in_transaction.
AppendRow ==
    /\ written < MaxRows
    /\ written' = written + 1
    /\ log' = With(log, NextSeq, NewRow)
    /\ UNCHANGED <<sink, head, anchoring, finalizing, receipts, exporting, bundle, checkpoint, edits>>

\* append_audit_bound_atomic: the body commits to a receipt that names the seq.
AppendBound ==
    /\ finalizing = None
    /\ written < MaxRows
    /\ written' = written + 1
    /\ log' = With(log, NextSeq, NewRow)
    /\ finalizing' = [seq |-> NextSeq, body |-> NextSeq, hash |-> NewRow.hash]
    /\ UNCHANGED <<sink, head, anchoring, receipts, exporting, bundle, checkpoint, edits>>

\* finalize_receipt signs it, or fails, or the process dies: no receipt.
Finalize ==
    /\ finalizing # None
    /\ receipts' \in {receipts, receipts \cup {finalizing}}
    /\ finalizing' = None
    /\ UNCHANGED <<log, written, sink, head, anchoring, exporting, bundle, checkpoint, edits>>

\* AnchorWriter: a record of the head is appended, then named in the database.
Anchor ==
    /\ anchoring = None
    /\ HeadSeq(log) > 0
    /\ sink # <<>> => sink[Len(sink)].seq < HeadSeq(log)
    /\ sink' = Append(sink, [seq |-> HeadSeq(log), hash |-> HeadHash(log)])
    /\ anchoring' = sink'[Len(sink')]
    /\ UNCHANGED <<log, written, head, finalizing, receipts, exporting, bundle, checkpoint, edits>>

RecordHead ==
    /\ anchoring # None
    /\ head' = anchoring
    /\ anchoring' = None
    /\ UNCHANGED <<log, written, sink, finalizing, receipts, exporting, bundle, checkpoint, edits>>

\* The auditor is told the latest anchor's id.
Checkpoint ==
    /\ sink # <<>>
    /\ checkpoint' = sink[Len(sink)]
    /\ UNCHANGED <<log, written, sink, head, anchoring, finalizing, receipts, exporting, bundle, edits>>

(***************************************************************************)
(* Verification.                                                           *)
(***************************************************************************)

\* AuditLog.verify_chain: each row names the hash of the row before it, whatever
\* their seqs, and its own hash closes its body.
ChainOk(rows) ==
    \A n \in DOMAIN rows :
        /\ rows[n].prev = HeadHash(Before(rows, n))
        /\ rows[n].hash = HashOf(rows[n].prev, rows[n].body)

\* _validate_manifest_range.
Contiguous(rows) == DOMAIN rows = 1..HeadSeq(rows)

\* Mutant of AnchorsMatch: only that the anchored rows are there.
AnchorsMatchSeq(rows, records) == \A i \in DOMAIN records : records[i].seq \in DOMAIN rows

AnchorsMatch(rows, records) ==
    \A i \in DOMAIN records :
        records[i].seq \in DOMAIN rows /\ rows[records[i].seq].hash = records[i].hash

\* verify_chain_against_anchors, of rows that end with the latest anchor.
Closed(rows, records, recorded) ==
    /\ ChainOk(rows)
    /\ records # <<>>
    /\ \A i \in 2..Len(records) : records[i - 1].seq < records[i].seq
    /\ recorded = records[Len(records)]
    /\ AnchorsMatch(rows, records)
    /\ HeadSeq(rows) = records[Len(records)].seq

\* Mutant of Passes: without an expected latest anchor.
PassesUnpinned(b) == Contiguous(b.rows) /\ Closed(b.rows, b.records, b.head)

\* verify_audit_bundle with trusted roots and the pinned checkpoint.
Passes(b) ==
    /\ Contiguous(b.rows)
    /\ Closed(b.rows, b.records, b.head)
    /\ checkpoint # None
    /\ b.records[Len(b.records)] = checkpoint

\* _audit_binding: the row at the receipt's seq has its hash and commits to it.
BoundIn(r, b) ==
    r.seq \in DOMAIN b.rows /\ b.rows[r.seq].hash = r.hash /\ b.rows[r.seq].body = r.body

(***************************************************************************)
(* Export: the sink is read first, then a snapshot of the database.        *)
(***************************************************************************)
ExportRead ==
    /\ exporting = <<>> /\ sink # <<>>
    /\ exporting' = sink
    /\ UNCHANGED <<log, written, sink, head, anchoring, finalizing, receipts, bundle, checkpoint, edits>>

\* The snapshot is cut at the latest anchor read; the file is replaced whole,
\* or not at all if what was read is not closed.
Export ==
    /\ exporting # <<>>
    /\ LET last == exporting[Len(exporting)].seq
           rows == [n \in {k \in DOMAIN log : k <= last} |-> log[n]]
       IN bundle' = IF Closed(rows, exporting, head)
                    THEN [rows |-> rows, records |-> exporting, head |-> head]
                    ELSE bundle
    /\ exporting' = <<>>
    /\ UNCHANGED <<log, written, sink, head, anchoring, finalizing, receipts, checkpoint, edits>>

(***************************************************************************)
(* Edits by hand: of the database, with hashes made good from there on or  *)
(* not, of the sink, and of the bundle file.                               *)
(***************************************************************************)
Edit ==
    /\ edits < MaxEdits
    /\ edits' = edits + 1
    /\ UNCHANGED <<written, anchoring, finalizing, receipts, exporting, checkpoint>>

Changed(rows, n) == [rows EXCEPT ![n].body = 0]
\* Row n's body is changed, and its own hash is made good.
Rehashed(rows, n) == [rows EXCEPT ![n].body = 0, ![n].hash = HashOf(rows[n].prev, 0)]
\* Every hash from row n on is made good.
Without(hash, n) == [i \in DOMAIN hash |-> IF hash[i] = n THEN 0 ELSE hash[i]]
Rewritten(rows, n) ==
    [k \in DOMAIN rows |-> IF k < n THEN rows[k]
       ELSE [body |-> IF k = n THEN 0 ELSE rows[k].body,
             prev |-> Without(rows[k].prev, n),
             hash |-> Without(rows[k].hash, n)]]
Cut(rows, n) == [k \in DOMAIN rows \ {n} |-> rows[k]]

EditLog ==
    /\ Edit
    /\ \E n \in DOMAIN log : log' \in {Changed(log, n), Rehashed(log, n), Rewritten(log, n), Cut(log, n)}
    /\ UNCHANGED <<sink, head, bundle>>

\* The sink loses its last record, and the database may be made to agree.
CutSink ==
    /\ Edit /\ Len(sink) > 1
    /\ sink' = SubSeq(sink, 1, Len(sink) - 1)
    /\ head' \in {head, sink'[Len(sink')]}
    /\ UNCHANGED <<log, bundle>>

EditBundle ==
    /\ Edit /\ bundle # None
    /\ \E n \in DOMAIN bundle.rows :
         bundle' \in {[bundle EXCEPT !.rows = Rewritten(bundle.rows, n)],
                     [bundle EXCEPT !.rows = Rehashed(bundle.rows, n)]}
    /\ UNCHANGED <<log, sink, head>>

Next ==
    \/ AppendRow \/ AppendBound \/ Finalize \/ Anchor \/ RecordHead \/ Checkpoint
    \/ ExportRead \/ Export \/ EditLog \/ CutSink \/ EditBundle

Spec == Init /\ [][Next]_vars

(***************************************************************************)
(* Properties.                                                             *)
(***************************************************************************)
\* The checkpoint covers a receipt if it closes over the receipt's row.
Covered(r) ==
    /\ checkpoint # None /\ r.seq <= checkpoint.seq
    /\ SubSeq(checkpoint.hash, 1, r.seq) = r.hash

\* A bundle that passes with the auditor's checkpoint binds every receipt the
\* checkpoint covers: no edit of the log, the sink or the bundle, no crash of an
\* anchor and no anchor between the two reads of an export takes one away.
ReceiptsBound ==
    bundle # None /\ Passes(bundle) => \A r \in receipts : Covered(r) => BoundIn(r, bundle)
================================================================================
