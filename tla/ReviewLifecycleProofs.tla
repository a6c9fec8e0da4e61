------------------------- MODULE ReviewLifecycleProofs -------------------------
(***************************************************************************)
(* Proofs about ReviewLifecycle: for any processes, memories, principals   *)
(* and verbs, a verb that commits finds what it checked still true.        *)
(***************************************************************************)
EXTENDS MCServingState, TLAPS

\* A call under way is typed, and what it holds was legal when it was read: the move
\* of a transition, a metadata update's truth status, and for a retirement the review
\* state and the caller's right.
CallOK(c) ==
    /\ c.at \in {"idle", "record", "commit"}
    /\ c.at = "record" => c.verb \in Verbs /\ c.mem \in Mems
    /\ c.at = "commit" =>
        /\ c.verb \in Verbs
        /\ c.by \in Principals
        /\ DOMAIN c.snap \subseteq Mems
        /\ c.verb = "transition" => \A m \in DOMAIN c.snap : c.to \in LegalFrom(c.snap[m])
        /\ c.verb = "expire" => c.to \in Windows
        /\ c.verb = "index" => c.to \in BOOLEAN
        /\ c.verb = "metadata" =>
            /\ c.to.until \in Windows /\ c.to.truth \in TruthStates
            /\ \A m \in DOMAIN c.snap :
                (c.to.truth = "human_approved") <=> (c.snap[m].truth = "human_approved")
        /\ c.verb \in {"supersede", "replace"} =>
            \A t \in DOMAIN c.snap :
                /\ Supersedable(c.snap[t].review)
                /\ \/ c.by \in Trusted
                   \/ IF c.snap[t].approved
                      THEN c.by \in Approvers
                      ELSE c.by = c.snap[t].owner \/ c.by \in Reviewers \cup Approvers
        /\ c.verb = "replace" => c.new \in Mems \ DOMAIN c.snap

CallsOK ==
    /\ call = [p \in Procs |-> call[p]]
    /\ \A p \in Procs : CallOK(call[p])

RowsOK == rows \in [Mems -> Rec \cup {Free, Purged}]

\* The inductive invariant of the rows.
RowsInv == RowsOK /\ CallsOK /\ TruthFollowsApproval

\* What Begin stores is a call under way, if what it holds is.
LEMMA BeginKeeps ==
    ASSUME CallsOK, NEW p \in Procs, NEW c, CallOK(c), call' = [call EXCEPT ![p] = c]
    PROVE  CallsOK'
<1>1. call' = [q \in Procs |-> call'[q]]
  BY DEF CallsOK
<1>2. \A q \in Procs : CallOK(call'[q])
  BY DEF CallsOK
<1>3. \A q \in Procs : CallOK(call[q])'
  BY <1>2 DEF CallOK, LegalFrom, Supersedable
<1> QED
  BY <1>1, <1>3 DEF CallsOK

\* A call that ends is well formed.
LEMMA IdleOK == CallOK(Idle)
BY DEF CallOK, Idle

\* What the moves of a review lead to; nothing leaves "superseded".
LEMMA Moves ==
    /\ \A review : LegalFrom(review) \subseteq ReviewStates
    /\ LegalFrom("superseded") = {}
    /\ ~Supersedable("superseded")
<1>1. LegalFrom("superseded") = {}
  BY DEF LegalFrom
<1> QED
  BY <1>1, SMT DEF LegalFrom, ReviewStates, Supersedable

\* A stored row is a record.
LEMMA StoredIsRec == ASSUME RowsOK, NEW m \in Mems, Stored(m) PROVE rows[m] \in Rec
BY DEF RowsOK, Stored

\* Every step keeps the calls legal.
LEMMA CallStep == RowsInv /\ [Next]_vars => CallsOK'
<1> SUFFICES ASSUME RowsInv, [Next]_vars PROVE CallsOK'
  OBVIOUS
<1> USE DEF RowsInv
<1>a. ASSUME NEW p \in Procs, call' = [call EXCEPT ![p] = Idle] PROVE CallsOK'
  BY <1>a, BeginKeeps, IdleOK
<1>b. ASSUME NEW p \in Procs, NEW verb \in Verbs, NEW m \in Mems,
             call' = [call EXCEPT ![p] = [at |-> "record", verb |-> verb, mem |-> m]]
      PROVE  CallsOK'
  <2>1. CallOK([at |-> "record", verb |-> verb, mem |-> m])
    BY DEF CallOK
  <2> QED
    BY <1>b, <2>1, BeginKeeps
<1>c. ASSUME NEW p \in Procs, NEW m \in DOMAIN call[p].snap, NEW rec,
             call[p].at = "commit", Update(p, m, rec)
      PROVE  CallsOK'
  <2>1. call[p].verb \in Verbs /\ m \in Mems
    BY <1>c DEF CallsOK, CallOK
  <2> QED
    BY <1>b, <1>c, <2>1 DEF Update
<1>d. ASSUME UNCHANGED call PROVE CallsOK'
  BY <1>d DEF CallsOK, CallOK, LegalFrom, Supersedable
<1>1. ASSUME NEW p \in Procs, Remember(p) PROVE CallsOK'
  BY <1>1, <1>d DEF Remember
<1>2. ASSUME NEW p \in Procs, Record(p) PROVE CallsOK'
  BY <1>2, <1>a DEF Record
<1>3. ASSUME NEW p \in Procs, PurgeRow(p) PROVE CallsOK'
  BY <1>3, <1>b DEF PurgeRow
<1>4. ASSUME NEW p \in Procs, Crash(p) PROVE CallsOK'
  BY <1>4, <1>a DEF Crash
<1>5. ASSUME NEW p \in Procs, ApproveStart(p) PROVE CallsOK'
  <2>1. PICK m \in Mems, by \in Approvers :
           Begin(p, "approve", by, [t \in {m} |-> {}], NoMem, "approved")
    BY <1>5 DEF ApproveStart
  <2> DEFINE c == [at |-> "commit", verb |-> "approve", by |-> by, snap |-> [t \in {m} |-> {}],
                   new |-> NoMem, to |-> "approved"]
  <2>2. CallOK(c)
    BY <2>1, ReviewAssumptions DEF CallOK, Begin
  <2> QED
    BY <2>1, <2>2, BeginKeeps DEF Begin
<1>6. ASSUME NEW p \in Procs, ApproveCommit(p) PROVE CallsOK'
  BY <1>6, <1>c DEF ApproveCommit, Committing
<1>7. ASSUME NEW p \in Procs, TransitionStart(p) PROVE CallsOK'
  <2>0. PICK m \in Mems, by \in Reviewers \cup Approvers :
           \E to \in LegalFrom(rows[m].review) :
              Begin(p, "transition", by, [t \in {m} |-> rows[m].review], NoMem, to)
    BY <1>7 DEF TransitionStart
  <2>1. PICK to \in LegalFrom(rows[m].review) :
           Begin(p, "transition", by, [t \in {m} |-> rows[m].review], NoMem, to)
    BY <2>0
  <2> DEFINE c == [at |-> "commit", verb |-> "transition", by |-> by,
                   snap |-> [t \in {m} |-> rows[m].review], new |-> NoMem, to |-> to]
  <2>2. CallOK(c)
    BY <2>1, ReviewAssumptions DEF CallOK, Begin
  <2> QED
    BY <2>1, <2>2, BeginKeeps DEF Begin
<1>8. ASSUME NEW p \in Procs, TransitionCommit(p) PROVE CallsOK'
  BY <1>8, <1>a, <1>c DEF TransitionCommit, Committing, Refuse
<1>9. ASSUME NEW p \in Procs, ExpireStart(p) PROVE CallsOK'
  <2>1. PICK m \in Mems, by \in Principals, to \in Windows :
           Begin(p, "expire", by, [t \in {m} |-> rows[m].until], NoMem, to)
    BY <1>9 DEF ExpireStart
  <2> DEFINE c == [at |-> "commit", verb |-> "expire", by |-> by,
                   snap |-> [t \in {m} |-> rows[m].until], new |-> NoMem, to |-> to]
  <2>2. CallOK(c)
    BY <2>1 DEF CallOK, Begin
  <2> QED
    BY <2>1, <2>2, BeginKeeps DEF Begin
<1>10. ASSUME NEW p \in Procs, ExpireCommit(p) PROVE CallsOK'
  BY <1>10, <1>a, <1>c DEF ExpireCommit, Committing, Refuse
<1>11. ASSUME NEW p \in Procs, IndexStart(p) PROVE CallsOK'
  <2>1. PICK m \in Mems, by \in Principals, to \in BOOLEAN :
           Begin(p, "index", by, [t \in {m} |-> rows[m].indexed], NoMem, to)
    BY <1>11 DEF IndexStart
  <2> DEFINE c == [at |-> "commit", verb |-> "index", by |-> by,
                   snap |-> [t \in {m} |-> rows[m].indexed], new |-> NoMem, to |-> to]
  <2>2. CallOK(c)
    BY <2>1 DEF CallOK, Begin
  <2> QED
    BY <2>1, <2>2, BeginKeeps DEF Begin
<1>12. ASSUME NEW p \in Procs, IndexCommit(p) PROVE CallsOK'
  BY <1>12, <1>a, <1>c DEF IndexCommit, Committing, Refuse
<1>13. ASSUME NEW p \in Procs, MetadataStart(p) PROVE CallsOK'
  <2>1. PICK m \in Mems, by \in Principals, until \in Windows, truth \in TruthStates :
           /\ (truth = "human_approved") <=> (rows[m].truth = "human_approved")
           /\ Begin(p, "metadata", by,
                    [t \in {m} |-> [until |-> rows[m].until, truth |-> rows[m].truth]],
                    NoMem, [until |-> until, truth |-> truth])
    BY <1>13 DEF MetadataStart
  <2> DEFINE c == [at |-> "commit", verb |-> "metadata", by |-> by,
                   snap |-> [t \in {m} |-> [until |-> rows[m].until, truth |-> rows[m].truth]],
                   new |-> NoMem, to |-> [until |-> until, truth |-> truth]]
  <2>2. CallOK(c)
    BY <2>1 DEF CallOK, Begin
  <2> QED
    BY <2>1, <2>2, BeginKeeps DEF Begin
<1>14. ASSUME NEW p \in Procs, MetadataCommit(p) PROVE CallsOK'
  BY <1>14, <1>a DEF MetadataCommit, Refuse
<1>15. ASSUME NEW p \in Procs, NEW verb \in {"supersede", "replace"},
              NEW new, verb = "replace" => new \in Mems, Retiring(p, verb, new)
       PROVE  CallsOK'
  <2>1. PICK targets \in SUBSET Mems \ {{}}, by \in Principals :
           /\ new \notin targets
           /\ \A t \in targets : /\ Stored(t)
                                 /\ MayRetire(by, rows[t])
                                 /\ Supersedable(rows[t].review)
           /\ Begin(p, verb, by,
                    [t \in targets |-> [review |-> rows[t].review, owner |-> rows[t].owner,
                                        approved |-> rows[t].approved]],
                    new, "superseded")
    BY <1>15 DEF Retiring
  <2> DEFINE snap == [t \in targets |-> [review |-> rows[t].review, owner |-> rows[t].owner,
                                         approved |-> rows[t].approved]]
             c == [at |-> "commit", verb |-> verb, by |-> by, snap |-> snap, new |-> new,
                   to |-> "superseded"]
  <2>2. ASSUME NEW t \in targets
        PROVE  \/ by \in Trusted
               \/ IF rows[t].approved THEN by \in Approvers
                  ELSE by = rows[t].owner \/ by \in Reviewers \cup Approvers
    BY <2>1 DEF MayRetire, TruthFollowsApproval
  <2>3. \A t \in DOMAIN snap :
           /\ Supersedable(snap[t].review)
           /\ \/ by \in Trusted
              \/ IF snap[t].approved THEN by \in Approvers
                 ELSE by = snap[t].owner \/ by \in Reviewers \cup Approvers
    BY <2>1, <2>2
  <2>4. verb \in Verbs /\ call' = [call EXCEPT ![p] = c]
    BY <2>1 DEF Begin
  <2>5. /\ c.at = "commit" /\ c.verb = verb /\ c.by = by /\ c.snap = snap /\ c.new = new
        /\ DOMAIN c.snap = targets
    OBVIOUS
  <2> HIDE DEF c, snap
  <2>6. CallOK(c)
    BY <2>1, <2>3, <2>4, <2>5, <1>15 DEF CallOK
  <2> QED
    BY <2>4, <2>6, BeginKeeps
<1>16. ASSUME NEW p \in Procs, SupersedeCommit(p) PROVE CallsOK'
  BY <1>16, <1>a DEF SupersedeCommit, Refuse
<1>17. ASSUME NEW p \in Procs, ReplaceCommit(p) PROVE CallsOK'
  BY <1>17, <1>a DEF ReplaceCommit, Refuse
<1>18. CASE UNCHANGED vars
  BY <1>18, <1>d DEF vars
<1> QED
  BY <1>1, <1>2, <1>3, <1>4, <1>5, <1>6, <1>7, <1>8, <1>9, <1>10, <1>11, <1>12, <1>13,
     <1>14, <1>15, <1>16, <1>17, <1>18 DEF Next, SupersedeStart, ReplaceStart

\* The row of a write.
NewRow == [review : {"none", "proposed"}, owner : Principals, approved : {FALSE},
           truth : {"observed"}, until : {"open"}, indexed : {TRUE}]

\* The replacement commits.
Replaces(p) == ReplaceCommit(p) /\ AllMatch(p) /\ ~Stored(call[p].new)

\* What a step may do to one row: nothing, write it, delete it, or change it so that
\* its review moves legally and its truth status follows its approval.  A used id is
\* written only by a replacement that chose it when it was free.
RowMove(m) ==
    \/ rows'[m] = rows[m]
    \/ /\ ~Stored(m) /\ rows'[m] \in NewRow
       /\ rows[m] = Free \/ \E p \in Procs : Replaces(p) /\ m = call[p].new
    \/ Stored(m) /\ rows'[m] = Purged
    \/ /\ Stored(m) /\ rows'[m] \in Rec
       /\ \/ rows'[m].review = rows[m].review
          \/ rows'[m].review \in LegalFrom(rows[m].review)
          \/ Supersedable(rows[m].review) /\ rows'[m].review = "superseded"
       /\ (rows'[m].truth = "human_approved") <=> rows'[m].approved

\* Every step moves every row that way.
LEMMA RowStep ==
    RowsInv /\ [Next]_vars => rows' = [m \in Mems |-> rows'[m]] /\ \A m \in Mems : RowMove(m)
<1> SUFFICES ASSUME RowsInv, [Next]_vars
             PROVE  rows' = [m \in Mems |-> rows'[m]] /\ \A m \in Mems : RowMove(m)
  OBVIOUS
<1> DEFINE Goal == rows' = [m \in Mems |-> rows'[m]] /\ \A m \in Mems : RowMove(m)
<1>a. rows \in [Mems -> Rec \cup {Free, Purged}] /\ \A m \in Mems : Stored(m) => rows[m] \in Rec
  BY DEF RowsInv, RowsOK, Stored
<1>b. ASSUME UNCHANGED rows PROVE Goal
  BY <1>a, <1>b DEF RowMove
<1>c. ASSUME NEW m \in Mems, NEW rec, rows' = [rows EXCEPT ![m] = rec],
             \/ rec = rows[m]
             \/ rows[m] = Free /\ rec \in NewRow
             \/ Stored(m) /\ rec = Purged
             \/ /\ Stored(m) /\ rec \in Rec
                /\ rec.review = rows[m].review \/ rec.review \in LegalFrom(rows[m].review)
                /\ (rec.truth = "human_approved") <=> rec.approved
      PROVE  Goal
  BY <1>a, <1>c DEF RowMove, Stored
<1>d. ASSUME NEW p \in Procs, call[p].at = "commit" PROVE CallOK(call[p]) /\ DOMAIN call[p].snap \subseteq Mems
  BY <1>d DEF RowsInv, CallsOK, CallOK
<1>e. \A m \in Mems : Stored(m) => ((rows[m].truth = "human_approved") <=> rows[m].approved)
  BY DEF RowsInv, TruthFollowsApproval
<1>1. ASSUME NEW p \in Procs, Remember(p) PROVE Goal
  <2>1. PICK m \in Mems, by \in Principals, review \in {"none", "proposed"} :
          /\ rows[m] = Free
          /\ rows' = [rows EXCEPT ![m] =
                [review |-> review, owner |-> by, approved |-> FALSE, truth |-> "observed",
                 until |-> "open", indexed |-> TRUE]]
    BY <1>1 DEF Remember
  <2> QED
    BY <2>1, <1>c DEF NewRow, Stored
<1>2. ASSUME NEW p \in Procs, PurgeRow(p) PROVE Goal
  BY <1>2, <1>c DEF PurgeRow
<1>3. ASSUME NEW p \in Procs, ApproveCommit(p) PROVE Goal
  <2>1. PICK m \in DOMAIN call[p].snap :
          Update(p, m, IF Stored(m) THEN Approved(rows[m], call[p].by) ELSE rows[m])
    BY <1>3 DEF ApproveCommit
  <2>2. m \in Mems /\ call[p].by \in Principals
    BY <1>3, <1>d DEF ApproveCommit, Committing, CallOK
  <2>3. Stored(m) => /\ Approved(rows[m], call[p].by) \in Rec
                     /\ Approved(rows[m], call[p].by).review = rows[m].review
                     /\ Approved(rows[m], call[p].by).approved
                     /\ Approved(rows[m], call[p].by).truth = "human_approved"
    BY <1>a, <2>2 DEF Approved, Rec, TruthStates
  <2> QED
    BY <2>1, <2>2, <2>3, <1>c DEF Update
<1>4. ASSUME NEW p \in Procs, TransitionCommit(p) PROVE Goal
  <2>1. PICK m \in DOMAIN call[p].snap :
          IF ReviewIs(m, call[p].snap[m])
          THEN Update(p, m, [rows[m] EXCEPT !.review = call[p].to])
          ELSE Refuse(p)
    BY <1>4 DEF TransitionCommit
  <2> DEFINE rec == [rows[m] EXCEPT !.review = call[p].to]
  <2>2. m \in Mems /\ call[p].to \in LegalFrom(call[p].snap[m])
    BY <1>4, <1>d DEF TransitionCommit, Committing, CallOK
  <2>3. ASSUME ReviewIs(m, call[p].snap[m])
        PROVE  /\ Stored(m) /\ rec \in Rec /\ rec.review \in LegalFrom(rows[m].review)
               /\ rec.truth = rows[m].truth /\ rec.approved = rows[m].approved
    BY <1>a, <2>2, <2>3, Moves DEF ReviewIs, Rec
  <2> QED
    BY <2>1, <2>2, <2>3, <1>b, <1>c, <1>e DEF Update, Refuse
<1>5. ASSUME NEW p \in Procs, ExpireCommit(p) PROVE Goal
  <2>1. PICK m \in DOMAIN call[p].snap :
          IF Stored(m) /\ rows[m].until = call[p].snap[m]
          THEN Update(p, m, [rows[m] EXCEPT !.until = call[p].to])
          ELSE Refuse(p)
    BY <1>5 DEF ExpireCommit
  <2> DEFINE rec == [rows[m] EXCEPT !.until = call[p].to]
  <2>2. m \in Mems /\ call[p].to \in Windows
    BY <1>5, <1>d DEF ExpireCommit, Committing, CallOK
  <2>3. Stored(m) => /\ rec \in Rec /\ rec.review = rows[m].review
                     /\ rec.truth = rows[m].truth /\ rec.approved = rows[m].approved
    BY <1>a, <2>2 DEF Rec
  <2> QED
    BY <2>1, <2>2, <2>3, <1>b, <1>c, <1>e DEF Update, Refuse
<1>6. ASSUME NEW p \in Procs, IndexCommit(p) PROVE Goal
  <2>1. PICK m \in DOMAIN call[p].snap :
          IF Stored(m) /\ rows[m].indexed = call[p].snap[m]
          THEN Update(p, m, [rows[m] EXCEPT !.indexed = call[p].to])
          ELSE Refuse(p)
    BY <1>6 DEF IndexCommit
  <2> DEFINE rec == [rows[m] EXCEPT !.indexed = call[p].to]
  <2>2. m \in Mems /\ call[p].to \in BOOLEAN
    BY <1>6, <1>d DEF IndexCommit, Committing, CallOK
  <2>3. Stored(m) => /\ rec \in Rec /\ rec.review = rows[m].review
                     /\ rec.truth = rows[m].truth /\ rec.approved = rows[m].approved
    BY <1>a, <2>2 DEF Rec
  <2> QED
    BY <2>1, <2>2, <2>3, <1>b, <1>c, <1>e DEF Update, Refuse
<1>7. ASSUME NEW p \in Procs, MetadataCommit(p) PROVE Goal
  <2>1. PICK m \in DOMAIN call[p].snap :
          IF MetadataIs(m, call[p].snap[m])
          THEN rows' = [rows EXCEPT ![m].until = call[p].to.until, ![m].truth = call[p].to.truth]
          ELSE Refuse(p)
    BY <1>7 DEF MetadataCommit
  <2> DEFINE rec == [rows[m] EXCEPT !.until = call[p].to.until, !.truth = call[p].to.truth]
  <2>2. /\ m \in Mems /\ call[p].to.until \in Windows /\ call[p].to.truth \in TruthStates
        /\ (call[p].to.truth = "human_approved") <=> (call[p].snap[m].truth = "human_approved")
    BY <1>7, <1>d DEF MetadataCommit, Committing, CallOK
  <2>3. ASSUME MetadataIs(m, call[p].snap[m])
        PROVE  /\ Stored(m) /\ rec \in Rec /\ rec.review = rows[m].review
               /\ rec.approved = rows[m].approved
               /\ (rec.truth = "human_approved") <=> (rows[m].truth = "human_approved")
    BY <1>a, <2>2, <2>3 DEF MetadataIs, Rec
  <2>4. ASSUME MetadataIs(m, call[p].snap[m]) PROVE rows' = [rows EXCEPT ![m] = rec]
    BY <1>a, <2>1, <2>2, <2>4
  <2> QED
    BY <2>1, <2>2, <2>3, <2>4, <1>b, <1>c, <1>e DEF Refuse
<1>8. ASSUME NEW p \in Procs, call[p].at = "commit", call[p].verb \in {"supersede", "replace"},
             NEW m \in Mems
      PROVE  \/ Retired(p, m) = rows[m]
             \/ /\ Stored(m) /\ Retired(p, m) \in Rec /\ Supersedable(rows[m].review)
                /\ Retired(p, m).review = "superseded"
                /\ (Retired(p, m).truth = "human_approved") <=> Retired(p, m).approved
  <2>1. \A t \in DOMAIN call[p].snap : Supersedable(call[p].snap[t].review)
    BY <1>8, <1>d DEF CallOK
  <2>2. Stored(m) => /\ [rows[m] EXCEPT !.review = "superseded"] \in Rec
                     /\ [rows[m] EXCEPT !.review = "superseded"].review = "superseded"
                     /\ [rows[m] EXCEPT !.review = "superseded"].truth = rows[m].truth
                     /\ [rows[m] EXCEPT !.review = "superseded"].approved = rows[m].approved
    BY <1>a DEF Rec, ReviewStates
  <2> QED
    BY <2>1, <2>2, <1>e DEF Retired, Matches
<1>9. ASSUME NEW p \in Procs, SupersedeCommit(p) PROVE Goal
  <2>1. CASE AllMatch(p)
    <3>1. rows' = [m \in Mems |-> Retired(p, m)]
      BY <2>1, <1>9 DEF SupersedeCommit
    <3> QED
      BY <3>1, <1>8, <1>9 DEF SupersedeCommit, Committing, RowMove
  <2>2. CASE ~AllMatch(p)
    BY <2>2, <1>9, <1>b DEF SupersedeCommit, Refuse
  <2> QED
    BY <2>1, <2>2
<1>10. ASSUME NEW p \in Procs, ReplaceCommit(p) PROVE Goal
  <2> DEFINE new == call[p].new
             row == [review |-> "none", owner |-> call[p].by, approved |-> FALSE,
                     truth |-> "observed", until |-> "open", indexed |-> TRUE]
  <2>1. CASE AllMatch(p) /\ ~Stored(new)
    <3>1. rows' = [m \in Mems |-> IF m = new THEN row ELSE Retired(p, m)]
      BY <2>1, <1>10 DEF ReplaceCommit
    <3>2. row \in NewRow
      BY <1>10, <1>d DEF ReplaceCommit, Committing, CallOK, NewRow
    <3>3. Replaces(p)
      BY <2>1, <1>10 DEF Replaces
    <3>4. call[p].at = "commit" /\ call[p].verb \in {"supersede", "replace"}
      BY <1>10 DEF ReplaceCommit, Committing
    <3>5. ASSUME NEW m \in Mems PROVE RowMove(m)
      <4>1. CASE m = new
        BY <4>1, <2>1, <3>1, <3>2, <3>3 DEF RowMove
      <4>2. CASE m # new
        BY <4>2, <3>1, <3>4, <1>8 DEF RowMove
      <4> QED
        BY <4>1, <4>2
    <3> QED
      BY <3>1, <3>5
  <2>2. CASE ~(AllMatch(p) /\ ~Stored(new))
    BY <2>2, <1>10, <1>b DEF ReplaceCommit, Refuse
  <2> QED
    BY <2>1, <2>2
<1>11. ASSUME NEW p \in Procs,
              \/ Record(p) \/ Crash(p) \/ ApproveStart(p) \/ TransitionStart(p) \/ ExpireStart(p)
              \/ IndexStart(p) \/ MetadataStart(p) \/ SupersedeStart(p) \/ ReplaceStart(p)
       PROVE  UNCHANGED rows
  BY <1>11 DEF Record, Crash, ApproveStart, TransitionStart, ExpireStart, IndexStart,
               MetadataStart, SupersedeStart, ReplaceStart, Retiring, Begin
<1>12. CASE UNCHANGED vars
  BY <1>12, <1>b DEF vars
<1> QED
  BY <1>b, <1>1, <1>2, <1>3, <1>4, <1>5, <1>6, <1>7, <1>9, <1>10, <1>11, <1>12 DEF Next

\* The initial state.
LEMMA RowsInit == Init => RowsInv
<1> SUFFICES ASSUME Init PROVE RowsInv
  OBVIOUS
<1>1. RowsOK
  BY DEF Init, RowsOK
<1>2. CallsOK
  BY IdleOK DEF Init, CallsOK
<1>3. TruthFollowsApproval
  BY DEF Init, TruthFollowsApproval, Stored
<1> QED
  BY <1>1, <1>2, <1>3 DEF RowsInv

\* A moved row is stored only as a record.
LEMMA MovedIsRec ==
    ASSUME RowsOK, NEW m \in Mems, RowMove(m)
    PROVE  rows'[m] \in Rec \cup {Free, Purged}
<1>1. NewRow \subseteq Rec
  BY DEF NewRow, Rec, ReviewStates, TruthStates, Windows
<1> QED
  BY <1>1 DEF RowMove, RowsOK

LEMMA RowsInvStep == RowsInv /\ [Next]_vars => RowsInv'
<1> SUFFICES ASSUME RowsInv, [Next]_vars PROVE RowsInv'
  OBVIOUS
<1>1. CallsOK'
  BY CallStep
<1>2. rows' = [m \in Mems |-> rows'[m]] /\ \A m \in Mems : RowMove(m)
  BY RowStep
<1>3. RowsOK'
  BY <1>2, MovedIsRec DEF RowsInv, RowsOK
<1>4. ASSUME NEW m \in Mems, Stored(m)'
      PROVE  (rows'[m].truth = "human_approved") <=> rows'[m].approved
  <2>1. CASE rows'[m] = rows[m]
    BY <2>1, <1>4 DEF RowsInv, TruthFollowsApproval, Stored
  <2>2. CASE rows'[m] \in NewRow
    BY <2>2 DEF NewRow
  <2> QED
    BY <2>1, <2>2, <1>2, <1>4 DEF RowMove, Stored
<1>5. TruthFollowsApproval'
  BY <1>4 DEF TruthFollowsApproval
<1> QED
  BY <1>1, <1>3, <1>5 DEF RowsInv

LEMMA RowsInvariant == Spec => []RowsInv
BY RowsInit, RowsInvStep, PTL DEF Spec

\* Only approve() makes a record human-approved, and a metadata update that races it
\* neither undoes nor forges it: whatever verbs run, in any number of processes.
THEOREM ApprovalBoundary == Spec => []TruthFollowsApproval
<1>1. RowsInv => TruthFollowsApproval
  BY DEF RowsInv
<1> QED
  BY <1>1, RowsInvariant, PTL

(***************************************************************************)
(* Replacements.                                                           *)
(***************************************************************************)
ReplacedOK == replaced \in [Mems -> SUBSET Mems]

\* An id that was replaced was written.
ReplacedTaken == \A n \in Mems : \A t \in replaced[n] : rows[t] # Free

\* A replaced row stays superseded: that is what makes the second of two replacements
\* find a row that does not match.
ReplacementsInv == RowsInv /\ ReplacedOK /\ ReplacedTaken /\ ReplacementsSound

LEMMA ReplacementsInit == Init => ReplacementsInv
BY RowsInit DEF Init, ReplacementsInv, ReplacedOK, ReplacedTaken, ReplacementsSound,
                OneReplacement, ReplacementsWhole

\* A row moved by a step other than a replacement, or by one it is not the result of,
\* stays superseded or gone, and written.
LEMMA SupersededStays ==
    ASSUME RowsInv, [Next]_vars, NEW m \in Mems, rows[m] # Free,
           Stored(m) => rows[m].review = "superseded",
           \A p \in Procs : ~(Replaces(p) /\ m = call[p].new)
    PROVE  rows'[m] # Free /\ (Stored(m)' => rows'[m].review = "superseded")
<1>1. RowMove(m)
  BY RowStep
<1>2. rows'[m] # Free
  BY <1>1, ReviewAssumptions DEF RowMove, Stored
<1> QED
  BY <1>1, <1>2, Moves DEF RowMove, Stored

\* Only a replacement that commits changes what was replaced.
LEMMA ReplacedChange ==
    [Next]_vars => UNCHANGED replaced \/ \E p \in Procs : Replaces(p)
BY DEF Next, vars, Replaces, Remember, Record, PurgeRow, Crash, ApproveStart, ApproveCommit,
       TransitionStart, TransitionCommit, ExpireStart, ExpireCommit, IndexStart,
       IndexCommit, MetadataStart, MetadataCommit, SupersedeStart, SupersedeCommit,
       ReplaceStart, ReplaceCommit, Retiring, Begin, Update, Refuse

LEMMA ReplacementsStep == ReplacementsInv /\ [Next]_vars => ReplacementsInv'
<1> SUFFICES ASSUME ReplacementsInv, [Next]_vars PROVE ReplacementsInv'
  OBVIOUS
<1>1. RowsInv'
  BY RowsInvStep DEF ReplacementsInv
<1>2. \A n \in Mems : \A t \in replaced[n] :
        t \in Mems /\ rows[t] # Free /\ (Stored(t) => rows[t].review = "superseded")
  BY DEF ReplacementsInv, ReplacedOK, ReplacedTaken, ReplacementsSound, ReplacementsWhole
<1>3. ASSUME NEW p \in Procs, Replaces(p)
      PROVE  ReplacedOK' /\ ReplacedTaken' /\ OneReplacement' /\ ReplacementsWhole'
  <2> DEFINE new == call[p].new
             gone == DOMAIN call[p].snap
  <2>1. call[p].at = "commit" /\ call[p].verb = "replace"
    BY <1>3 DEF Replaces, ReplaceCommit, Committing
  <2>2. /\ gone \subseteq Mems /\ new \in Mems \ gone
        /\ \A t \in gone : Supersedable(call[p].snap[t].review)
    BY <2>1 DEF ReplacementsInv, RowsInv, CallsOK, CallOK
  <2>3. /\ replaced' = [n \in Mems |-> IF n = new THEN gone ELSE replaced[n] \ {new}]
        /\ \A m \in Mems \ {new} : rows'[m] = Retired(p, m)
    BY <1>3 DEF Replaces, ReplaceCommit
  <2>4. \A t \in gone : Matches(t, call[p].snap[t])
    BY <1>3 DEF Replaces, AllMatch
  <2>5. \A t \in gone : Stored(t) /\ rows[t] \in Rec /\ rows[t].review # "superseded"
    BY <2>2, <2>4, Moves, StoredIsRec DEF Matches, ReplacementsInv, RowsInv
  <2>6. \A t \in gone : rows'[t] \in Rec /\ rows'[t].review = "superseded"
    BY <2>2, <2>3, <2>4, <2>5 DEF Retired, Rec, ReviewStates
  <2>7. \A n \in Mems : \A t \in replaced[n] \ {new} :
          rows'[t] # Free /\ (Stored(t)' => rows'[t].review = "superseded")
    <3>1. ASSUME NEW m \in Mems \ {new}, Stored(m) => rows[m].review = "superseded",
                 rows[m] # Free
          PROVE  rows'[m] # Free /\ (Stored(m)' => rows'[m].review = "superseded")
      <4>1. Retired(p, m) = rows[m]
        BY <3>1, <2>4, <2>5 DEF Retired, Matches
      <4> QED
        BY <4>1, <3>1, <2>3 DEF Stored
    <3> QED
      BY <3>1, <1>2
  <2>8. \A n \in Mems : replaced[n] \cap gone = {}
    BY <1>2, <2>5
  <2>9. ReplacedOK'
    BY <2>2, <2>3 DEF ReplacementsInv, ReplacedOK
  <2>10. ReplacedTaken'
    BY <2>2, <2>3, <2>6, <2>7, ReviewAssumptions DEF ReplacedTaken
  <2>11. OneReplacement'
    BY <2>3, <2>8 DEF OneReplacement, ReplacementsInv, ReplacementsSound
  <2>12. ReplacementsWhole'
    BY <2>2, <2>3, <2>6, <2>7 DEF ReplacementsWhole
  <2> QED
    BY <2>9, <2>10, <2>11, <2>12
<1>4. CASE UNCHANGED replaced /\ \A p \in Procs : ~Replaces(p)
  <2>1. \A n \in Mems : \A t \in replaced[n] :
          rows'[t] # Free /\ (Stored(t)' => rows'[t].review = "superseded")
    BY <1>2, <1>4, SupersededStays DEF ReplacementsInv
  <2> QED
    BY <1>1, <1>4, <2>1 DEF ReplacementsInv, ReplacedOK, ReplacedTaken, ReplacementsSound,
                            OneReplacement, ReplacementsWhole
<1> QED
  BY <1>1, <1>3, <1>4, ReplacedChange DEF ReplacementsInv, ReplacementsSound

\* remember(supersedes=...) is all or nothing, and of several writes that replace the
\* same memory at most one succeeds, however they and every other verb interleave.
THEOREM Replacements == Spec => []ReplacementsSound
<1>1. ReplacementsInv => ReplacementsSound
  BY DEF ReplacementsInv
<1> QED
  BY <1>1, ReplacementsInit, ReplacementsStep, PTL DEF Spec

(***************************************************************************)
(* Who retires a row.                                                      *)
(***************************************************************************)
\* What a step of supersede() or remember(supersedes=...) under way is.
LEMMA RetiringSteps ==
    ASSUME [Next]_vars, call = [q \in Procs |-> call[q]], NEW p \in Procs,
           call[p].at = "commit", call[p].verb \in {"supersede", "replace"},
           call'[p] # call[p]
    PROVE  UNCHANGED rows \/ SupersedeCommit(p) \/ ReplaceCommit(p)
<1>1. call[p] # Idle
  BY DEF Idle
<1>2. PICK q \in Procs :
        \/ Remember(q) \/ Record(q) \/ PurgeRow(q) \/ Crash(q)
        \/ ApproveStart(q) \/ ApproveCommit(q)
        \/ TransitionStart(q) \/ TransitionCommit(q)
        \/ ExpireStart(q) \/ ExpireCommit(q)
        \/ IndexStart(q) \/ IndexCommit(q)
        \/ MetadataStart(q) \/ MetadataCommit(q)
        \/ SupersedeStart(q) \/ SupersedeCommit(q)
        \/ ReplaceStart(q) \/ ReplaceCommit(q)
  BY DEF Next, vars
<1>3. CASE q = p
  BY <1>1, <1>2, <1>3 DEF Remember, Record, PurgeRow, Crash, ApproveStart, ApproveCommit,
         TransitionStart, TransitionCommit, ExpireStart, ExpireCommit, IndexStart,
         IndexCommit, MetadataStart, MetadataCommit, SupersedeStart, ReplaceStart, Retiring,
         Begin, Committing
<1>4. CASE q # p
  <2>1. \A c : call' = [call EXCEPT ![q] = c] => call'[p] = call[p]
    BY <1>4
  <2>2. \A verb, by, snap, new, to : ~Begin(q, verb, by, snap, new, to)
    BY <2>1 DEF Begin
  <2>3. \A m, rec : ~Update(q, m, rec)
    BY <2>1 DEF Update
  <2> QED
    BY <1>2, <2>1, <2>2, <2>3 DEF Remember, Record, PurgeRow, Crash, ApproveStart,
         ApproveCommit, TransitionStart, TransitionCommit, ExpireStart, ExpireCommit,
         IndexStart, IndexCommit, MetadataStart, MetadataCommit, SupersedeStart,
         SupersedeCommit, ReplaceStart, ReplaceCommit, Retiring, Refuse
<1> QED
  BY <1>3, <1>4

LEMMA RetirementAllowed ==
    ASSUME RowsInv, [Next]_vars, NEW p \in Procs, NEW t \in Mems,
           call[p].at = "commit", call[p].verb \in {"supersede", "replace"},
           call'[p] # call[p], t \in DOMAIN call[p].snap, rows'[t] # rows[t]
    PROVE  MayRetire(call[p].by, rows[t])
<1>1. SupersedeCommit(p) \/ ReplaceCommit(p)
  BY RetiringSteps DEF RowsInv, CallsOK
<1>2. AllMatch(p)
  BY <1>1 DEF SupersedeCommit, ReplaceCommit, Refuse
<1>3. Matches(t, call[p].snap[t])
  BY <1>2 DEF AllMatch
<1>4. (rows[t].truth = "human_approved") <=> rows[t].approved
  BY <1>3 DEF RowsInv, TruthFollowsApproval, Matches
<1>5. \/ call[p].by \in Trusted
      \/ IF call[p].snap[t].approved
         THEN call[p].by \in Approvers
         ELSE call[p].by = call[p].snap[t].owner \/ call[p].by \in Reviewers \cup Approvers
  BY DEF RowsInv, CallsOK, CallOK
<1> QED
  BY <1>3, <1>4, <1>5 DEF MayRetire, Matches

\* Whoever retires a row by supersede() or remember(supersedes=...) may retire it at
\* that moment, even if it was approved, and so changed its author, after the check.
THEOREM RetiredByRight == Spec => RetiresAuthorized
<1>1. RowsInv /\ [Next]_vars =>
        [\A p \in Procs, t \in Mems :
            /\ call[p].at = "commit" /\ call[p].verb \in {"supersede", "replace"}
            /\ call'[p] # call[p]
            /\ t \in DOMAIN call[p].snap
            /\ rows'[t] # rows[t]
            => MayRetire(call[p].by, rows[t])]_vars
  BY RetirementAllowed
<1> QED
  BY <1>1, RowsInvariant, PTL DEF Spec, RetiresAuthorized

(***************************************************************************)
(* The audit of retirements.                                               *)
(***************************************************************************)
\* A retirement of the row is recorded, or its verb has still to record it.
Witnessed(m) ==
    \/ \E verb \in Verbs : <<verb, m>> \in audit
    \/ \E p \in Procs : call[p].at = "record" /\ call[p].mem = m

\* The audit log only grows.
LEMMA AuditGrows == [Next]_vars => audit \subseteq audit'
BY DEF Next, vars, Remember, Record, PurgeRow, Crash, ApproveStart, ApproveCommit,
       TransitionStart, TransitionCommit, ExpireStart, ExpireCommit, IndexStart,
       IndexCommit, MetadataStart, MetadataCommit, SupersedeStart, SupersedeCommit,
       ReplaceStart, ReplaceCommit, Retiring, Begin, Update, Refuse

\* A verb that has to record its retirement ends by recording it, unless its process
\* dies.
LEMMA RecordOnlyEnds ==
    ASSUME [Next]_vars, "crash" \notin Verbs, call = [q \in Procs |-> call[q]],
           NEW p \in Procs, call[p].at = "record"
    PROVE  call'[p] = call[p] \/ Record(p)
<1> SUFFICES ASSUME call'[p] # call[p] PROVE Record(p)
  OBVIOUS
<1>1. call[p] # Idle
  BY DEF Idle
<1>2. PICK q \in Procs :
        \/ Remember(q) \/ Record(q) \/ PurgeRow(q) \/ Crash(q)
        \/ ApproveStart(q) \/ ApproveCommit(q)
        \/ TransitionStart(q) \/ TransitionCommit(q)
        \/ ExpireStart(q) \/ ExpireCommit(q)
        \/ IndexStart(q) \/ IndexCommit(q)
        \/ MetadataStart(q) \/ MetadataCommit(q)
        \/ SupersedeStart(q) \/ SupersedeCommit(q)
        \/ ReplaceStart(q) \/ ReplaceCommit(q)
  BY DEF Next, vars
<1>3. CASE q = p
  BY <1>1, <1>2, <1>3 DEF Remember, PurgeRow, Crash, ApproveStart, ApproveCommit,
         TransitionStart, TransitionCommit, ExpireStart, ExpireCommit, IndexStart,
         IndexCommit, MetadataStart, MetadataCommit, SupersedeStart, SupersedeCommit,
         ReplaceStart, ReplaceCommit, Retiring, Begin, Committing
<1>4. CASE q # p
  <2>1. \A c : call' = [call EXCEPT ![q] = c] => call'[p] = call[p]
    BY <1>4
  <2>2. \A verb, by, snap, new, to : ~Begin(q, verb, by, snap, new, to)
    BY <2>1 DEF Begin
  <2>3. \A m, rec : ~Update(q, m, rec)
    BY <2>1 DEF Update
  <2> QED
    BY <1>2, <2>1, <2>2, <2>3 DEF Remember, Record, PurgeRow, Crash, ApproveStart,
         ApproveCommit, TransitionStart, TransitionCommit, ExpireStart, ExpireCommit,
         IndexStart, IndexCommit, MetadataStart, MetadataCommit, SupersedeStart,
         SupersedeCommit, ReplaceStart, ReplaceCommit, Retiring, Refuse
<1> QED
  BY <1>3, <1>4

LEMMA WitnessStays ==
    ASSUME RowsInv, [Next]_vars, "crash" \notin Verbs, NEW m \in Mems, Witnessed(m)
    PROVE  Witnessed(m)'
<1>1. ASSUME NEW verb \in Verbs, <<verb, m>> \in audit PROVE Witnessed(m)'
  BY <1>1, AuditGrows DEF Witnessed
<1>2. ASSUME NEW p \in Procs, call[p].at = "record", call[p].mem = m PROVE Witnessed(m)'
  <2>1. call[p].verb \in Verbs /\ call = [q \in Procs |-> call[q]]
    BY <1>2 DEF RowsInv, CallsOK, CallOK
  <2>2. CASE call'[p] = call[p]
    BY <1>2, <2>2 DEF Witnessed
  <2>3. CASE Record(p)
    BY <1>2, <2>1, <2>3 DEF Witnessed, Record
  <2> QED
    BY <1>2, <2>1, <2>2, <2>3, RecordOnlyEnds
<1> QED
  BY <1>1, <1>2 DEF Witnessed

\* A step that changes a row records it, leaves it to be recorded, or writes it.
LEMMA ChangeWitnessed ==
    ASSUME RowsInv, [Next]_vars, NEW m \in Mems, rows'[m] # rows[m]
    PROVE  Witnessed(m)' \/ rows'[m] \in NewRow
<1> USE DEF RowsInv
<1>a. ASSUME NEW p \in Procs, call[p].at = "commit"
      PROVE  call[p].verb \in Verbs /\ DOMAIN call[p].snap \subseteq Mems
  BY <1>a DEF CallsOK, CallOK
<1>b. ASSUME NEW p \in Procs, NEW verb, NEW t \in Mems, NEW rec,
             rows' = [rows EXCEPT ![t] = rec],
             call' = [call EXCEPT ![p] = [at |-> "record", verb |-> verb, mem |-> t]]
      PROVE  Witnessed(m)'
  BY <1>b DEF CallsOK, RowsOK, Witnessed
<1>c. ASSUME NEW p \in Procs, NEW t \in DOMAIN call[p].snap, NEW rec,
             call[p].at = "commit", Update(p, t, rec)
      PROVE  Witnessed(m)'
  BY <1>a, <1>b, <1>c DEF Update
<1>1. ASSUME NEW p \in Procs, Remember(p) PROVE rows'[m] \in NewRow
  <2>1. PICK t \in Mems, by \in Principals, review \in {"none", "proposed"} :
          rows' = [rows EXCEPT ![t] =
                [review |-> review, owner |-> by, approved |-> FALSE, truth |-> "observed",
                 until |-> "open", indexed |-> TRUE]]
    BY <1>1 DEF Remember
  <2> QED
    BY <2>1 DEF RowsOK, NewRow
<1>2. ASSUME NEW p \in Procs, PurgeRow(p) PROVE Witnessed(m)'
  <2>1. PICK t \in Mems :
          /\ rows' = [rows EXCEPT ![t] = Purged]
          /\ call' = [call EXCEPT ![p] = [at |-> "record", verb |-> "purge", mem |-> t]]
    BY ONLY <1>2 DEF PurgeRow
  <2> HIDE DEF RowsInv
  <2> QED
    BY ONLY <1>b, <2>1
<1>3. ASSUME NEW p \in Procs,
             \/ ApproveCommit(p) \/ TransitionCommit(p) \/ ExpireCommit(p) \/ IndexCommit(p)
      PROVE  Witnessed(m)'
  BY <1>3, <1>c DEF ApproveCommit, TransitionCommit, ExpireCommit, IndexCommit, Committing,
                    Refuse
<1>4. ASSUME NEW p \in Procs, MetadataCommit(p) PROVE Witnessed(m)'
  <2>1. PICK t \in DOMAIN call[p].snap :
          /\ rows' = [rows EXCEPT ![t].until = call[p].to.until, ![t].truth = call[p].to.truth]
          /\ audit' = audit \cup {<<"metadata", t>>}
    BY <1>4 DEF MetadataCommit, Refuse
  <2>2. t \in Mems /\ "metadata" \in Verbs
    BY <1>4, <1>a DEF MetadataCommit, Committing
  <2>3. t = m
    BY <2>1, <2>2 DEF RowsOK
  <2> QED
    BY <2>1, <2>2, <2>3 DEF Witnessed
<1>5. ASSUME NEW p \in Procs, SupersedeCommit(p) PROVE Witnessed(m)'
  <2>1. /\ rows' = [t \in Mems |-> Retired(p, t)]
        /\ audit' = audit \cup ({"supersede"} \X DOMAIN call[p].snap)
    BY <1>5 DEF SupersedeCommit, Refuse
  <2>2. "supersede" \in Verbs /\ m \in DOMAIN call[p].snap
    BY <1>5, <1>a, <2>1 DEF SupersedeCommit, Committing, Retired
  <2> QED
    BY <2>1, <2>2 DEF Witnessed
<1>6. ASSUME NEW p \in Procs, ReplaceCommit(p) PROVE Witnessed(m)'
  <2>1. /\ \A t \in Mems \ {call[p].new} : rows'[t] = Retired(p, t)
        /\ audit' = audit \cup {<<"replace", call[p].new>>}
                         \cup ({"replace"} \X DOMAIN call[p].snap)
    BY <1>6 DEF ReplaceCommit, Refuse
  <2>2. "replace" \in Verbs /\ (m = call[p].new \/ m \in DOMAIN call[p].snap)
    BY <1>6, <1>a, <2>1 DEF ReplaceCommit, Committing, Retired
  <2> QED
    BY <2>1, <2>2 DEF Witnessed
<1> QED
  BY <1>1, <1>2, <1>3, <1>4, <1>5, <1>6
     DEF Next, vars, Record, Crash, ApproveStart, TransitionStart, ExpireStart, IndexStart,
         MetadataStart, SupersedeStart, ReplaceStart, Retiring, Begin

LEMMA AuditedStep ==
    ASSUME "crash" \notin Verbs
    PROVE  RowsInv /\ RetirementsAudited /\ [Next]_vars => RetirementsAudited'
<1> SUFFICES ASSUME RowsInv, RetirementsAudited, [Next]_vars,
                    NEW m \in Mems, OutOfRecall(m)'
             PROVE  Witnessed(m)'
  BY DEF RetirementsAudited, Witnessed
<1>1. CASE rows'[m] = rows[m]
  <2>1. OutOfRecall(m)
    BY <1>1 DEF OutOfRecall, Stored
  <2>2. Witnessed(m)
    BY <2>1 DEF RetirementsAudited, Witnessed
  <2> QED
    BY <2>2, WitnessStays
<1>2. CASE rows'[m] # rows[m]
  <2>1. rows'[m] \notin NewRow
    <3>1. SUFFICES ASSUME rows'[m] \in NewRow PROVE FALSE
      OBVIOUS
    <3>2. rows'[m] \in Rec
      BY <3>1 DEF NewRow, Rec, ReviewStates, TruthStates, Windows
    <3> QED
      BY <3>1, <3>2, ReviewAssumptions DEF OutOfRecall, NewRow
  <2> QED
    BY <1>2, <2>1, ChangeWitnessed
<1> QED
  BY <1>1, <1>2

\* A record out of default recall has a retirement's audit row, or its verb is still
\* running, however verbs race: as long as no process dies between the two.
THEOREM Audited ==
    ASSUME "crash" \notin Verbs
    PROVE  Spec => []RetirementsAudited
<1>1. Init => RetirementsAudited
  BY ReviewAssumptions DEF Init, RetirementsAudited, OutOfRecall, Stored
<1>2. RowsInv /\ RetirementsAudited /\ [Next]_vars => RetirementsAudited'
  BY AuditedStep
<1> QED
  BY <1>1, <1>2, RowsInvariant, PTL DEF Spec

--------------------------------------------------------------------------------
(***************************************************************************)
(* The store's part of the composition.                                    *)
(***************************************************************************)
LEMMA StorePart == UnionSpec => S!Spec
<1>1. UnionInit => S!Init
  BY DEF UnionInit
<1>2. [UnionNext]_<<part, vars, store>> => [S!Next]_S!vars
  BY DEF UnionNext, store, S!vars, S!fileVars, S!history
<1> QED
  BY <1>1, <1>2, PTL DEF UnionSpec, S!Spec

LEMMA StoreConstants == S!StoreAssumptions
BY ServingConstants DEF S!StoreAssumptions

\* Whatever rows are written, indexed, erased and recalled by however many processes,
\* a vector without its row is the work of a per-file purge: of the composition that
\* TLC checks.
THEOREM VectorsFollowRowsHere == UnionSpec => []VectorsFollowRows
<1>1. S!Spec => []S!VectorsFollowRows
  BY StoreConstants, S!NoOrphanVectors
<1> QED
  BY <1>1, StorePart, PTL DEF VectorsFollowRows

\* A recall that decrypted a text before an erasure, or has it cached, releases nothing
\* that the erasure erased: for any number of processes, caches and rows.
THEOREM NoErasedRecallHere == UnionSpec => NoErasedRecall
<1>1. S!Spec => S!NoErasedRecall
  BY StoreConstants, S!NoErasedReleased
<1> QED
  BY <1>1, StorePart DEF NoErasedRecall
================================================================================
