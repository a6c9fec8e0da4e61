---------------------------- MODULE ReviewLifecycle ----------------------------
(***************************************************************************)
(* Approval, review and retirement of stored memories: approve,            *)
(* transition_review, supersede, remember(supersedes=...), expire,         *)
(* set_indexed, update_substrate_metadata and purge of Heartwood           *)
(* (client.py), the rules of review.py and the compare-and-swap updates of *)
(* Store (store.py).                                                       *)
(*                                                                         *)
(* A verb reads the row and checks it, then commits one transaction; most  *)
(* append their audit row in a further transaction.  Other processes run,  *)
(* and the process may die, in between.  A row's content never changes and *)
(* no write begins with an id that was used, so the content hash of the    *)
(* compare-and-swaps is left out; erasure and keys are GovernedStore's.    *)
(***************************************************************************)
EXTENDS FiniteSets

CONSTANTS
    Procs,      \* client processes
    Mems,       \* memory ids
    Principals, \* who calls
    Approvers,  \* principals with the approver role
    Reviewers,  \* principals with the reviewer role
    Trusted,    \* callers that pass no principal to supersede and remember
    Verbs,      \* the verbs a run includes
    Free,       \* id not written yet
    Purged,     \* id whose row was purged
    NoMem       \* no replacement is written

\* "none" is the review state NULL of a plain write.
ReviewStates == {"none", "proposed", "accepted", "rejected", "disputed", "superseded"}
TruthStates  == {"observed", "inferred", "human_approved"}
Windows      == {"open", "closed"}    \* valid_until unset, valid_until passed

Rec == [review : ReviewStates, owner : Principals, approved : BOOLEAN,
        truth : TruthStates, until : Windows, indexed : BOOLEAN]

ASSUME ReviewAssumptions ==
    /\ Approvers \subseteq Principals
    /\ Reviewers \subseteq Principals
    /\ Trusted \subseteq Principals
    /\ NoMem \notin Mems
    /\ Free \notin Rec /\ Purged \notin Rec /\ Free # Purged
    /\ Verbs \subseteq {"approve", "transition", "supersede", "replace", "expire",
                        "index", "metadata", "purge", "crash"}

VARIABLES
    rows,      \* memories table
    audit,     \* <<verb, id>> of the audit rows
    call,      \* what each process's verb holds between two transactions
    replaced   \* history: the rows each memory replaced, while they keep their ids

vars == <<rows, audit, call, replaced>>

Idle == [at |-> "idle"]

TypeOK ==
    /\ rows \in [Mems -> Rec \cup {Free, Purged}]
    /\ audit \subseteq (Verbs \cup {"remember"}) \X Mems
    /\ \A p \in Procs :
        \/ call[p] = Idle
        \/ call[p].at = "record" /\ call[p].mem \in Mems /\ call[p].verb \in Verbs
        \/ /\ call[p].at = "commit"
           /\ call[p].verb \in Verbs
           /\ call[p].by \in Principals
           /\ DOMAIN call[p].snap \subseteq Mems
           /\ call[p].new \in Mems \cup {NoMem}
    /\ replaced \in [Mems -> SUBSET Mems]

Init ==
    /\ rows = [m \in Mems |-> Free]
    /\ audit = {}
    /\ call = [p \in Procs |-> Idle]
    /\ replaced = [m \in Mems |-> {}]

Stored(m) == rows[m] \notin {Free, Purged}

(***************************************************************************)
(* Rules.                                                                  *)
(***************************************************************************)
\* LEGAL_TRANSITIONS of review.py.
LegalFrom(review) ==
    CASE review = "proposed" -> {"accepted", "rejected", "disputed", "superseded"}
      [] review = "accepted" -> {"superseded", "disputed"}
      [] review = "rejected" -> {"disputed"}
      [] review = "disputed" -> {"accepted", "rejected", "superseded"}
      [] OTHER -> {}

\* validate_supersede: a plain write may be superseded too.
Supersedable(review) == review = "none" \/ "superseded" \in LegalFrom(review)

\* The review states approve() refuses.
NotApprovable == {"proposed", "rejected", "disputed", "superseded"}

\* _authorize_retirement, for a record the principal can read.
MayRetire(by, rec) ==
    \/ by \in Trusted
    \/ IF rec.approved \/ rec.truth = "human_approved"
       THEN by \in Approvers
       ELSE by = rec.owner \/ by \in Reviewers \cup Approvers

(***************************************************************************)
(* The three parts of a verb: read and check, commit, record.              *)
(***************************************************************************)
\* snap holds, per target, the columns the commit will compare.
Begin(p, verb, by, snap, new, to) ==
    /\ verb \in Verbs
    /\ call[p] = Idle
    /\ call' = [call EXCEPT ![p] = [at |-> "commit", verb |-> verb, by |-> by, snap |-> snap,
                                    new |-> new, to |-> to]]
    /\ UNCHANGED <<rows, audit, replaced>>

Committing(p, verb) == call[p].at = "commit" /\ call[p].verb = verb

\* A single-row update and, still to come, its audit row.
Update(p, m, rec) ==
    /\ rows' = [rows EXCEPT ![m] = rec]
    /\ call' = [call EXCEPT ![p] = [at |-> "record", verb |-> call[p].verb, mem |-> m]]
    /\ UNCHANGED <<audit, replaced>>

\* The compare-and-swap matched no row: the verb raises.
Refuse(p) ==
    /\ call' = [call EXCEPT ![p] = Idle]
    /\ UNCHANGED <<rows, audit, replaced>>

\* Mutant: the audit row is not appended.
RecordLost(p) ==
    /\ call[p].at = "record"
    /\ call' = [call EXCEPT ![p] = Idle]
    /\ UNCHANGED <<rows, audit, replaced>>

Record(p) ==
    /\ call[p].at = "record"
    /\ audit' = audit \cup {<<call[p].verb, call[p].mem>>}
    /\ call' = [call EXCEPT ![p] = Idle]
    /\ UNCHANGED <<rows, replaced>>

\* A plain remember(): row and audit row in one transaction.
Remember(p) ==
    /\ call[p] = Idle
    /\ \E m \in Mems, by \in Principals, review \in {"none", "proposed"} :
        /\ rows[m] = Free
        /\ rows' = [rows EXCEPT ![m] =
                [review |-> review, owner |-> by, approved |-> FALSE, truth |-> "observed",
                 until |-> "open", indexed |-> TRUE]]
        /\ audit' = audit \cup {<<"remember", m>>}
    /\ UNCHANGED <<call, replaced>>

(***************************************************************************)
(* approve(): the update is by id alone.                                   *)
(***************************************************************************)
ApproveStart(p) ==
    \E m \in Mems, by \in Approvers :
        /\ Stored(m)
        /\ rows[m].review \notin NotApprovable
        /\ Begin(p, "approve", by, [t \in {m} |-> {}], NoMem, "approved")

Approved(rec, by) ==
    [rec EXCEPT !.approved = TRUE, !.owner = by, !.truth = "human_approved"]

ApproveCommit(p) ==
    /\ Committing(p, "approve")
    /\ \E m \in DOMAIN call[p].snap :
        Update(p, m, IF Stored(m) THEN Approved(rows[m], call[p].by) ELSE rows[m])

(***************************************************************************)
(* transition_review(), expire(), set_indexed(): compare-and-swap on the   *)
(* one column that changes.                                                *)
(***************************************************************************)
TransitionStart(p) ==
    \E m \in Mems, by \in Reviewers \cup Approvers :
        /\ Stored(m)
        /\ \E to \in LegalFrom(rows[m].review) : 
            Begin(p, "transition", by, [t \in {m} |-> rows[m].review], NoMem, to)

ReviewIs(m, snap) == Stored(m) /\ rows[m].review = snap

TransitionCommit(p) ==
    /\ Committing(p, "transition")
    /\ \E m \in DOMAIN call[p].snap :
        IF ReviewIs(m, call[p].snap[m])
        THEN Update(p, m, [rows[m] EXCEPT !.review = call[p].to])
        ELSE Refuse(p)

ExpireStart(p) ==
    \E m \in Mems, by \in Principals, to \in Windows :
        Stored(m) /\ Begin(p, "expire", by, [t \in {m} |-> rows[m].until], NoMem, to)

ExpireCommit(p) ==
    /\ Committing(p, "expire")
    /\ \E m \in DOMAIN call[p].snap :
        IF Stored(m) /\ rows[m].until = call[p].snap[m]
        THEN Update(p, m, [rows[m] EXCEPT !.until = call[p].to])
        ELSE Refuse(p)

IndexStart(p) ==
    \E m \in Mems, by \in Principals, to \in BOOLEAN :
        Stored(m) /\ Begin(p, "index", by, [t \in {m} |-> rows[m].indexed], NoMem, to)

IndexCommit(p) ==
    /\ Committing(p, "index")
    /\ \E m \in DOMAIN call[p].snap :
        IF Stored(m) /\ rows[m].indexed = call[p].snap[m]
        THEN Update(p, m, [rows[m] EXCEPT !.indexed = call[p].to])
        ELSE Refuse(p)

\* purge() deletes by id alone, then appends its audit row.
PurgeRow(p) ==
    /\ "purge" \in Verbs
    /\ call[p] = Idle
    /\ \E m \in Mems :
        /\ Stored(m)
        /\ rows' = [rows EXCEPT ![m] = Purged]
        /\ call' = [call EXCEPT ![p] = [at |-> "record", verb |-> "purge", mem |-> m]]
    /\ UNCHANGED <<audit, replaced>>

(***************************************************************************)
(* update_substrate_metadata(): compare-and-swap and audit row in one      *)
(* transaction; human approval is out of its reach in either direction.    *)
(***************************************************************************)
MetadataStart(p) ==
    \E m \in Mems, by \in Principals, until \in Windows, truth \in TruthStates :
        /\ Stored(m)
        /\ (truth = "human_approved") <=> (rows[m].truth = "human_approved")
        /\ Begin(p, "metadata", by,
                 [t \in {m} |-> [until |-> rows[m].until, truth |-> rows[m].truth]],
                 NoMem, [until |-> until, truth |-> truth])

\* Mutant: the truth status is not compared.
MetadataIsWindow(m, snap) == Stored(m) /\ rows[m].until = snap.until

MetadataIs(m, snap) ==
    Stored(m) /\ rows[m].until = snap.until /\ rows[m].truth = snap.truth

MetadataCommit(p) ==
    /\ Committing(p, "metadata")
    /\ \E m \in DOMAIN call[p].snap :
        IF MetadataIs(m, call[p].snap[m])
        THEN /\ rows' = [rows EXCEPT ![m].until = call[p].to.until,
                                     ![m].truth = call[p].to.truth]
             /\ audit' = audit \cup {<<"metadata", m>>}
             /\ call' = [call EXCEPT ![p] = Idle]
             /\ UNCHANGED replaced
        ELSE Refuse(p)

(***************************************************************************)
(* supersede() and remember(supersedes=...): several rows, the replacement *)
(* and the audit rows in one transaction, if every row still matches.      *)
(***************************************************************************)
Retiring(p, verb, new) ==
    \E targets \in SUBSET Mems \ {{}}, by \in Principals :
        /\ new \notin targets
        /\ \A t \in targets : /\ Stored(t)
                              /\ MayRetire(by, rows[t])
                              /\ Supersedable(rows[t].review)
        /\ Begin(p, verb, by,
                 [t \in targets |-> [review |-> rows[t].review, owner |-> rows[t].owner,
                                     approved |-> rows[t].approved]],
                 new, "superseded")

SupersedeStart(p) == Retiring(p, "supersede", NoMem)
ReplaceStart(p)   == \E new \in Mems : rows[new] = Free /\ Retiring(p, "replace", new)

\* Mutants: the author and epistemic class, or the review state, not compared.
MatchesReview(t, snap) == Stored(t) /\ rows[t].review = snap.review
MatchesAuthor(t, snap) ==
    Stored(t) /\ rows[t].approved = snap.approved /\ rows[t].owner = snap.owner

\* The WHERE clause of Store._supersede_rows.
Matches(t, snap) ==
    /\ Stored(t)
    /\ rows[t].review = snap.review
    /\ rows[t].approved = snap.approved
    /\ rows[t].owner = snap.owner

\* Mutant: a row that no longer matches is skipped instead of refusing them all.
SomeMatch(p) == \E t \in DOMAIN call[p].snap : Matches(t, call[p].snap[t])

AllMatch(p) == \A t \in DOMAIN call[p].snap : Matches(t, call[p].snap[t])

\* The row after the transaction's updates.
Retired(p, m) ==
    IF m \in DOMAIN call[p].snap /\ Matches(m, call[p].snap[m])
    THEN [rows[m] EXCEPT !.review = "superseded"]
    ELSE rows[m]

SupersedeCommit(p) ==
    /\ Committing(p, "supersede")
    /\ IF AllMatch(p)
       THEN /\ rows' = [m \in Mems |-> Retired(p, m)]
            /\ audit' = audit \cup ({"supersede"} \X DOMAIN call[p].snap)
            /\ call' = [call EXCEPT ![p] = Idle]
            /\ UNCHANGED replaced
       ELSE Refuse(p)

\* The insert fails, and with it everything, when the id was taken meanwhile.  If
\* it was also purged again, the id now stands for the new memory.
ReplaceCommit(p) ==
    /\ Committing(p, "replace")
    /\ LET new == call[p].new
       IN  IF AllMatch(p) /\ ~Stored(new)
           THEN /\ rows' = [m \in Mems |->
                        IF m = new
                        THEN [review |-> "none", owner |-> call[p].by, approved |-> FALSE,
                              truth |-> "observed", until |-> "open", indexed |-> TRUE]
                        ELSE Retired(p, m)]
                /\ replaced' = [n \in Mems |-> IF n = new THEN DOMAIN call[p].snap
                                               ELSE replaced[n] \ {new}]
                /\ audit' = audit \cup {<<"replace", new>>}
                               \cup ({"replace"} \X DOMAIN call[p].snap)
                /\ call' = [call EXCEPT ![p] = Idle]
           ELSE Refuse(p)

\* The process dies; whatever it had not committed is lost.
Crash(p) ==
    /\ "crash" \in Verbs
    /\ call[p] # Idle
    /\ call' = [call EXCEPT ![p] = Idle]
    /\ UNCHANGED <<rows, audit, replaced>>

Next == \E p \in Procs :
    \/ Remember(p) \/ Record(p) \/ PurgeRow(p) \/ Crash(p)
    \/ ApproveStart(p) \/ ApproveCommit(p)
    \/ TransitionStart(p) \/ TransitionCommit(p)
    \/ ExpireStart(p) \/ ExpireCommit(p)
    \/ IndexStart(p) \/ IndexCommit(p)
    \/ MetadataStart(p) \/ MetadataCommit(p)
    \/ SupersedeStart(p) \/ SupersedeCommit(p)
    \/ ReplaceStart(p) \/ ReplaceCommit(p)

Spec == Init /\ [][Next]_vars

--------------------------------------------------------------------------------
(***************************************************************************)
(* Properties.                                                             *)
(***************************************************************************)
\* Of several writes that replace the same memory at most one succeeds.
OneReplacement ==
    \A n1, n2 \in Mems : n1 # n2 => replaced[n1] \cap replaced[n2] = {}

\* A replacement exists only if every memory it was written to replace is
\* superseded or has been purged since (remember-supersede-atomic).
ReplacementsWhole ==
    \A n \in Mems : \A t \in replaced[n] : Stored(t) => rows[t].review = "superseded"

\* Writes that replace memories are all or nothing, and of those that replace the
\* same memory at most one succeeds.
ReplacementsSound == OneReplacement /\ ReplacementsWhole

\* At the moment supersede() or remember(supersedes=...) retires a row its
\* principal may retire it, even if the row was approved, and so changed its
\* author, after the check (remember-supersede-principal).
RetiresAuthorized ==
    [][\A p \in Procs, t \in Mems :
        /\ call[p].at = "commit" /\ call[p].verb \in {"supersede", "replace"}
        /\ call'[p] # call[p]
        /\ t \in DOMAIN call[p].snap
        /\ rows'[t] # rows[t]
        => MayRetire(call[p].by, rows[t])]_vars

\* Only approve() crosses the human-approved boundary: a metadata update that
\* races an approval neither undoes nor forges it (human-approved-boundary).
TruthFollowsApproval ==
    \A m \in Mems : Stored(m) => (rows[m].truth = "human_approved" <=> rows[m].approved)

\* approve() refuses a rejected, disputed, proposed or superseded record, as
\* docs/api/recall-visibility-and-retirement.md states it of superseded ones.
ApprovesOnlyCurrent ==
    [][\A m \in Mems :
        Stored(m) /\ rows'[m] # Purged /\ ~rows[m].approved /\ rows'[m].approved
        => rows[m].review \notin NotApprovable]_vars

\* Hidden from default recall, or gone.
OutOfRecall(m) ==
    \/ rows[m] = Purged
    \/ /\ Stored(m)
       /\ \/ rows[m].review \in {"rejected", "disputed", "superseded"}
          \/ rows[m].until = "closed"
          \/ ~rows[m].indexed

\* As long as no process dies between a verb's commit and its audit append, a
\* record out of default recall has a retirement's audit row, or its verb is still
\* running (docs/api/recall-visibility-and-retirement.md), however verbs race.
RetirementsAudited ==
    \A m \in Mems : OutOfRecall(m) =>
        \/ \E verb \in Verbs : <<verb, m>> \in audit
        \/ \E p \in Procs : call[p].at = "record" /\ call[p].mem = m

================================================================================
