----------------------------- MODULE StrictCutover -----------------------------
(***************************************************************************)
(* Strict signature mode and its cutover (strict.py): preflight scans the  *)
(* store, the operator approves the report, seal writes a manifest of the  *)
(* rows no key can verify any more, activate turns it on, and recall in    *)
(* strict mode serves a row that does not verify only if the manifest      *)
(* exempts it.  A digest is the value it is the digest of.                 *)
(***************************************************************************)
EXTENDS Naturals, Sequences, FiniteSets

CONSTANTS
    Ids,       \* memory ids, not reused
    Texts,     \* signed payloads: content, source, author, epistemic
    Manifests, \* manifest ids
    Servers,   \* processes in strict mode with the manifest exemption
    MaxLog,    \* bound on the audit log
    MaxEdits   \* bound on edits made to the database or the file by hand

VARIABLES
    rows,      \* memories: id to row, for the ids stored
    registry,  \* algorithms registered for the author
    log,       \* audit_log
    unlogged,  \* purges whose audit row is not appended yet
    approved,  \* the report whose digest the operator approved, if any
    sealing,   \* the manifest a seal call has committed and not finished with
    file,      \* the manifest file: what it says and what was signed, or none
    pins,      \* manifest_digest by manifest_id, in the anchor sink
    resolver,  \* what each server has loaded
    served,    \* history: rows the last recall served without verifying them
    agreed,    \* history: by manifest, the candidates and ids of its report
    edits      \* edits by hand so far

vars == <<rows, registry, log, unlogged, approved, sealing, file, pins, resolver,
          served, agreed, edits>>

None == [none |-> TRUE]
Algorithms == {"ed25519", "hmac-sha256"}
\* A signature: its algorithm and what it signs.
Row == [text : Texts, hash : Texts, alg : Algorithms, of : Texts]

TypeOK ==
    /\ DOMAIN rows \subseteq Ids /\ \A i \in DOMAIN rows : rows[i] \in Row
    /\ registry \subseteq Algorithms
    /\ Len(log) <= MaxLog
    /\ DOMAIN pins \subseteq Manifests
    /\ DOMAIN resolver = Servers
    /\ served \subseteq [id : Ids, row : Row]

Without(f, S) == [x \in DOMAIN f \ S |-> f[x]]
With(f, x, v) == [y \in DOMAIN f \cup {x} |-> IF y = x THEN v ELSE f[y]]
Entry(what, about, bound) == [what |-> what, about |-> about, bound |-> bound]
Append1(what, about, bound) ==
    /\ Len(log) < MaxLog
    /\ log' = Append(log, Entry(what, about, bound))

\* A store with rows of the years before signing keys were registered.
Init ==
    /\ \E alg \in Algorithms, i \in Ids, t \in Texts :
         rows = [j \in {i} |-> [text |-> t, hash |-> t, alg |-> alg, of |-> t]]
    /\ registry \in {{}, {"hmac-sha256"}}
    /\ \A i \in DOMAIN rows : rows[i].alg = "ed25519" => registry = {}
    /\ log = <<>> /\ unlogged = {} /\ edits = 0
    /\ approved = None /\ sealing = None /\ file = None
    /\ pins = <<>> /\ agreed = <<>>
    /\ resolver = [p \in Servers |-> None]
    /\ served = {}

(***************************************************************************)
(* The rest of the store.                                                  *)
(***************************************************************************)
\* remember, with the audit row in its transaction.  A principal registered
\* for one algorithm cannot sign with the other.
Remember ==
    \E i \in Ids \ DOMAIN rows, t \in Texts :
        /\ "hmac-sha256" \notin registry
        /\ registry' = {"ed25519"}
        /\ rows' = With(rows, i, [text |-> t, hash |-> t, alg |-> "ed25519", of |-> t])
        /\ Append1("write", i, None)
        /\ UNCHANGED <<unlogged, approved, sealing, file, pins, resolver, served, agreed, edits>>

\* purge deletes the row; its audit row is another transaction.
Purge ==
    \E i \in DOMAIN rows :
        /\ rows' = Without(rows, {i})
        /\ unlogged' = unlogged \cup {i}
        /\ UNCHANGED <<registry, log, approved, sealing, file, pins, resolver, served, agreed, edits>>

LogPurge ==
    \E i \in unlogged :
        /\ unlogged' = unlogged \ {i}
        /\ Append1("purge", i, None)
        /\ UNCHANGED <<rows, registry, approved, sealing, file, pins, resolver, served, agreed, edits>>

\* A row is edited in the database: its text, text and hash, or its signature.
EditRow ==
    /\ edits < MaxEdits /\ edits' = edits + 1
    /\ \E i \in DOMAIN rows, t \in Texts, field \in {{"text"}, {"text", "hash"}, {"of"}} :
         rows' = [rows EXCEPT ![i] = [f \in DOMAIN @ |-> IF f \in field THEN t ELSE @[f]]]
    /\ UNCHANGED <<registry, log, unlogged, approved, sealing, file, pins, resolver, served, agreed>>

(***************************************************************************)
(* Preflight.                                                              *)
(***************************************************************************)
\* _classify_row, for rows that decrypt.
Bucket(r) ==
    CASE r.text # r.hash -> "content_hash_mismatch"
      [] r.text = r.hash /\ r.alg = "hmac-sha256" ->
            IF registry = {"ed25519"} THEN "algorithm_downgrade" ELSE "unverifiable_hmac"
      [] r.text = r.hash /\ r.alg = "ed25519" ->
            IF "ed25519" \notin registry THEN "unverifiable_missing_key"
            ELSE IF r.of = r.text THEN "valid_ed25519" ELSE "bad_signature"

CandidateBuckets == {"unverifiable_hmac", "unverifiable_missing_key"}
FailureBuckets == {"algorithm_downgrade", "bad_signature", "content_hash_mismatch"}

\* An exempt entry binds the payload and the exact signature string.
Bound(i, r) == [id |-> i, text |-> r.text, alg |-> r.alg, of |-> r.of]

\* _scan_current.  The anchor's status is part of the digest too; its changes
\* only make seal refuse.
Report ==
    [head       |-> Len(log),
     count      |-> Cardinality(DOMAIN rows),
     buckets    |-> [i \in DOMAIN rows |-> Bucket(rows[i])],
     candidates |-> {Bound(i, rows[i]) : i \in {j \in DOMAIN rows : Bucket(rows[j]) \in CandidateBuckets}}]

Preflight ==
    /\ approved' = Report
    /\ UNCHANGED <<rows, registry, log, unlogged, sealing, file, pins, resolver, served, agreed, edits>>

(***************************************************************************)
(* Seal: one transaction, then the file, then the pin.                     *)
(***************************************************************************)

ReportStands == approved = Report

Seal ==
    \E m \in Manifests \ DOMAIN agreed :
        LET body == [id |-> m, head |-> Len(log), count |-> Report.count,
                     exempt |-> Report.candidates]
        IN /\ approved # None /\ sealing = None /\ file = None
           /\ ReportStands
           /\ \A i \in DOMAIN rows : Report.buckets[i] \notin FailureBuckets
           /\ Append1("sealed", m, body)
           /\ sealing' = [body |-> body, at |-> "publish"]
           /\ agreed' = With(agreed, m, [exempt |-> approved.candidates,
                                         ids |-> DOMAIN approved.buckets])
           /\ UNCHANGED <<rows, registry, unlogged, approved, file, pins, resolver, served, edits>>

\* One seal runs at a time here, so that no file is there yet; the link would fail.
Publish ==
    /\ sealing # None /\ sealing.at = "publish" /\ file = None
    /\ file' = [body |-> sealing.body, signed |-> sealing.body]
    /\ sealing' = [sealing EXCEPT !.at = "pin"]
    /\ UNCHANGED <<rows, registry, log, unlogged, approved, pins, resolver, served, agreed, edits>>

\* pin_manifest; without a sink, the operator's configured digest.
Pin ==
    /\ sealing # None /\ sealing.at = "pin"
    /\ pins' = With(pins, sealing.body.id, sealing.body)
    /\ sealing' = None
    /\ UNCHANGED <<rows, registry, log, unlogged, approved, file, resolver, served, agreed, edits>>

SealDies ==
    /\ sealing # None
    /\ sealing' = None
    /\ UNCHANGED <<rows, registry, log, unlogged, approved, file, pins, resolver, served, agreed, edits>>

\* The operator moves the file away, to seal once more.
RemoveFile ==
    /\ file # None /\ sealing = None
    /\ file' = None
    /\ UNCHANGED <<rows, registry, log, unlogged, approved, sealing, pins, resolver, served, agreed, edits>>

\* The file is edited, signature and all: it now exempts a row as it stands.
EditFile ==
    /\ file # None
    /\ edits < MaxEdits /\ edits' = edits + 1
    /\ \E i \in DOMAIN rows, resigned \in BOOLEAN :
         LET body == [file.body EXCEPT !.exempt = @ \cup {Bound(i, rows[i])}]
         IN file' = [body |-> body, signed |-> IF resigned THEN body ELSE file.signed]
    /\ UNCHANGED <<rows, registry, log, unlogged, approved, sealing, pins, resolver, served, agreed>>

(***************************************************************************)
(* Activation.                                                             *)
(***************************************************************************)
\* The file is what the pin says, and its signature verifies.
Trusted(f) == f.body.id \in DOMAIN pins /\ pins[f.body.id] = f.body /\ f.body = f.signed

Transitions(what, m) == {n \in DOMAIN log : log[n].what = what /\ log[n].about = m}

\* _validate_manifest_seal: one seal row, right after the report's head, that
\* binds the manifest; at most one activation, right after the seal.
SealedBy(f) ==
    LET at == f.body.head + 1
    IN /\ Transitions("sealed", f.body.id) = {at}
       /\ log[at].bound = f.body
       /\ \/ Transitions("activated", f.body.id) = {}
          \/ /\ Transitions("activated", f.body.id) = {at + 1}
             /\ log[at + 1].bound = f.body

\* Mutant of Unchanged: without the head.
UnchangedCount(f) == Cardinality(DOMAIN rows) = f.body.count

Unchanged(f) == Len(log) = f.body.head + 1 /\ Cardinality(DOMAIN rows) = f.body.count

Activate ==
    /\ file # None
    /\ Trusted(file) /\ SealedBy(file)
    /\ Transitions("activated", file.body.id) = {}
    /\ Unchanged(file)
    /\ Append1("activated", file.body.id, file.body)
    /\ UNCHANGED <<rows, registry, unlogged, approved, sealing, file, pins, resolver, served, agreed, edits>>

(***************************************************************************)
(* Strict recall.                                                          *)
(***************************************************************************)
\* StrictCutoverResolver._reload.
Loadable ==
    /\ file # None
    /\ Trusted(file) /\ SealedBy(file)
    /\ Transitions("activated", file.body.id) # {}

\* A strict server starts only if the manifest loads.
Start(p) ==
    /\ resolver[p] = None
    /\ Loadable
    /\ resolver' = [resolver EXCEPT ![p] = file]
    /\ UNCHANGED <<rows, registry, log, unlogged, approved, sealing, file, pins, served, agreed, edits>>

Stop(p) ==
    /\ resolver[p] # None
    /\ resolver' = [resolver EXCEPT ![p] = None]
    /\ UNCHANGED <<rows, registry, log, unlogged, approved, sealing, file, pins, served, agreed, edits>>

\* verify_meta, in a process that has no HMAC key.
Verifies(r) == r.text = r.hash /\ r.alg = "ed25519" /\ "ed25519" \in registry /\ r.of = r.text

\* Mutant of Match: the signature string is not compared.
MatchText(f, i) == \E e \in f.body.exempt : e.id = i /\ e.text = rows[i].text

Match(f, i) == Bound(i, rows[i]) \in f.body.exempt

\* A file that changed is loaded again; if it cannot be, the recall fails.
\* Otherwise rows that neither verify nor match are left out, or, in ENFORCE,
\* fail the recall.
Recall(p) ==
    /\ resolver[p] # None
    /\ file = resolver[p] \/ Loadable
    /\ resolver' = [resolver EXCEPT ![p] = file]
    /\ \E found \in SUBSET DOMAIN rows :
         served' = {[id |-> i, row |-> rows[i]] :
                        i \in {j \in found : ~Verifies(rows[j]) /\ Match(file, j)}}
    /\ UNCHANGED <<rows, registry, log, unlogged, approved, sealing, file, pins, agreed, edits>>

Next ==
    \/ Remember \/ Purge \/ LogPurge \/ EditRow
    \/ Preflight \/ Seal \/ Publish \/ Pin \/ SealDies \/ RemoveFile \/ EditFile
    \/ Activate
    \/ \E p \in Servers : Start(p) \/ Stop(p) \/ Recall(p)

Spec == Init /\ [][Next]_vars

(***************************************************************************)
(* Properties.                                                             *)
(***************************************************************************)
\* A row served without a valid signature is, in payload and signature, one
\* that the operator saw as a candidate in a report sealed and activated since:
\* no edit of a row or of the file, and no crash of the seal, gets another in.
ExemptAsApproved ==
    \A s \in served : \E m \in DOMAIN agreed :
        /\ Bound(s.id, s.row) \in agreed[m].exempt
        /\ Transitions("activated", m) # {}

\* What is activated is the store the operator approved: rows written or purged
\* since, even by a purge that has not reached its audit row, stop it.
ActivatedAsReported ==
    [][\A m \in DOMAIN agreed :
         Transitions("activated", m)' # Transitions("activated", m)
         => DOMAIN rows = agreed[m].ids]_vars
================================================================================
