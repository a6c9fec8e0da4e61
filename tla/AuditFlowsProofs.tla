---------------------------- MODULE AuditFlowsProofs ----------------------------
(***************************************************************************)
(* Proofs about the composition MCAuditFlows and its parts.  StrictCutover *)
(* is what it extends: for any rows, manifests and servers, and any edits, *)
(* what strict recall serves unverified was approved, and what is          *)
(* activated is what was approved.  A bundle that passes with the          *)
(* auditor's checkpoint binds the receipts it covers, for logs of any      *)
(* length and any number of edits, by induction along the hash chain.      *)
(* Rotation receipts verify.  What the modules of proofs of Anchors and    *)
(* ErasureReceipts show is carried over.                                   *)
(***************************************************************************)
EXTENDS MCAuditFlows, FiniteSetTheorems, WellFoundedInduction, TLAPS

\* What a manifest says of the store whose report was approved.  Until the log grows past
\* the seal the store holds no other ids; it may hold fewer, when a purge has not reached
\* its audit row.
SealOK(b) ==
    /\ b.id \in DOMAIN agreed
    /\ b.exempt = agreed[b.id].exempt
    /\ IsFiniteSet(agreed[b.id].ids) /\ b.count = Cardinality(agreed[b.id].ids)
    /\ b.head \in Nat /\ b.head < Len(log)
    /\ Len(log) = b.head + 1 => DOMAIN rows \subseteq agreed[b.id].ids

\* What a server has loaded was pinned and has been activated.
LoadedOK(f) ==
    /\ f.body.id \in DOMAIN pins /\ f.body = pins[f.body.id]
    /\ Transitions("activated", f.body.id) # {}

CutoverInv ==
    /\ \E S : log \in Seq(S)
    /\ IsFiniteSet(DOMAIN rows)
    /\ sealing # None => /\ sealing = [body |-> sealing.body, at |-> sealing.at]
                         /\ SealOK(sealing.body) /\ sealing.body.id \notin DOMAIN pins
    /\ \A m \in DOMAIN pins : pins[m].id = m /\ SealOK(pins[m])
    /\ resolver = [p \in Servers |-> resolver[p]]
    /\ \A p \in Servers : resolver[p] # None => LoadedOK(resolver[p])
    /\ ExemptAsApproved

(***************************************************************************)
(* What no step does.                                                      *)
(***************************************************************************)
\* Rows appear only with an audit row, and the log only grows.
LEMMA RowsNeedLog ==
    ASSUME CutoverInv, [Next]_vars
    PROVE  /\ IsFiniteSet(DOMAIN rows)'
           /\ \/ log' = log /\ DOMAIN rows' \subseteq DOMAIN rows
              \/ \E e : log' = Append(log, e)
<1>1. CASE Remember
  <2>1. PICK i, r : rows' = With(rows, i, r)
    BY <1>1 DEF Remember
  <2>2. DOMAIN rows' = DOMAIN rows \cup {i}
    BY <2>1 DEF With
  <2>3. IsFiniteSet(DOMAIN rows \cup {i})
    BY FS_AddElement DEF CutoverInv
  <2>4. \E e : log' = Append(log, e)
    BY <1>1 DEF Remember, Append1
  <2> QED
    BY <2>2, <2>3, <2>4
<1>2. CASE Purge
  <2>1. log' = log /\ DOMAIN rows' \subseteq DOMAIN rows
    BY <1>2 DEF Purge, Without
  <2> QED
    BY <2>1, FS_Subset DEF CutoverInv
<1>3. CASE EditRow
  <2>1. log' = log /\ DOMAIN rows' = DOMAIN rows
    BY <1>3 DEF EditRow
  <2> QED
    BY <2>1 DEF CutoverInv
<1>4. CASE UNCHANGED rows /\ (log' = log \/ \E e : log' = Append(log, e))
  BY <1>4 DEF CutoverInv
<1> QED
  BY <1>1, <1>2, <1>3, <1>4
     DEF Next, vars, LogPurge, Preflight, Seal, Publish, Pin, SealDies, RemoveFile, EditFile,
         Activate, Start, Stop, Recall, Append1

LEMMA TransitionsGrow ==
    ASSUME CutoverInv, [Next]_vars, NEW what, NEW m
    PROVE  Transitions(what, m) \subseteq Transitions(what, m)'
<1>1. CASE log' = log
  BY <1>1 DEF Transitions
<1>2. ASSUME NEW e, log' = Append(log, e)
      PROVE  Transitions(what, m) \subseteq Transitions(what, m)'
  <2>1. PICK S : log \in Seq(S)
    BY DEF CutoverInv
  <2>2. log \in Seq(S \cup {e})
    BY <2>1
  <2>3. \A n \in DOMAIN log : n \in DOMAIN log' /\ log'[n] = log[n]
    BY <1>2, <2>2
  <2> QED
    BY <2>3 DEF Transitions
<1> QED
  BY <1>1, <1>2, RowsNeedLog

\* What was agreed for a manifest, and its pin, are never replaced.
LEMMA AgreedStays ==
    ASSUME CutoverInv, [Next]_vars
    PROVE  /\ \A m \in DOMAIN agreed : m \in DOMAIN agreed' /\ agreed'[m] = agreed[m]
           /\ \A m \in DOMAIN pins : m \in DOMAIN pins' /\ pins'[m] = pins[m]
<1>1. CASE Seal
  BY <1>1 DEF Seal, With
<1>2. CASE Pin
  BY <1>2 DEF Pin, With, CutoverInv
<1>3. CASE UNCHANGED <<agreed, pins>>
  BY <1>3
<1> QED
  BY <1>1, <1>2, <1>3
     DEF Next, vars, Remember, Purge, EditRow, LogPurge, Preflight, Publish, SealDies,
         RemoveFile, EditFile, Activate, Start, Stop, Recall

LEMMA SealStays ==
    ASSUME CutoverInv, [Next]_vars, NEW b, SealOK(b)
    PROVE  SealOK(b)'
<1>1. b.id \in DOMAIN agreed' /\ agreed'[b.id] = agreed[b.id]
  BY AgreedStays DEF SealOK
<1>2. CASE log' = log /\ DOMAIN rows' \subseteq DOMAIN rows
  BY <1>1, <1>2 DEF SealOK
<1>3. ASSUME NEW e, log' = Append(log, e) PROVE SealOK(b)'
  <2>1. PICK S : log \in Seq(S)
    BY DEF CutoverInv
  <2>2. log \in Seq(S \cup {e})
    BY <2>1
  <2>3. Len(log) \in Nat /\ Len(log') = Len(log) + 1
    BY <1>3, <2>2
  <2> QED
    BY <1>1, <2>3 DEF SealOK
<1> QED
  BY <1>2, <1>3, RowsNeedLog

LEMMA LoadedStays ==
    ASSUME CutoverInv, [Next]_vars, NEW f, LoadedOK(f)
    PROVE  LoadedOK(f)'
BY AgreedStays, TransitionsGrow DEF LoadedOK

(***************************************************************************)
(* The steps.                                                              *)
(***************************************************************************)
LEMMA LogStep ==
    CutoverInv /\ [Next]_vars => (\E S : log' \in Seq(S)) /\ IsFiniteSet(DOMAIN rows)'
<1> SUFFICES ASSUME CutoverInv, [Next]_vars
             PROVE  (\E S : log' \in Seq(S)) /\ IsFiniteSet(DOMAIN rows)'
  OBVIOUS
<1>1. PICK S : log \in Seq(S)
  BY DEF CutoverInv
<1>2. ASSUME NEW e, log' = Append(log, e) PROVE \E T : log' \in Seq(T)
  <2>1. log \in Seq(S \cup {e})
    BY <1>1
  <2>2. log' \in Seq(S \cup {e})
    BY <1>2, <2>1
  <2> QED
    BY <2>2
<1> QED
  BY <1>1, <1>2, RowsNeedLog

\* What a seal writes is what was approved.
LEMMA SealedAsApproved ==
    ASSUME CutoverInv, Seal, Next
    PROVE  /\ sealing' = [body |-> sealing'.body, at |-> sealing'.at]
           /\ SealOK(sealing.body)' /\ sealing'.body.id \notin DOMAIN pins
<1>1. PICK m \in Manifests \ DOMAIN agreed :
        /\ ReportStands
        /\ Append1("sealed", m, [id |-> m, head |-> Len(log), count |-> Report.count,
                                 exempt |-> Report.candidates])
        /\ sealing' = [body |-> [id |-> m, head |-> Len(log), count |-> Report.count,
                                 exempt |-> Report.candidates], at |-> "publish"]
        /\ agreed' = With(agreed, m, [exempt |-> approved.candidates,
                                      ids |-> DOMAIN approved.buckets])
        /\ UNCHANGED <<rows, pins>>
  BY DEF Seal
<1>2. PICK b : b = [id |-> m, head |-> Len(log), count |-> Report.count,
                    exempt |-> Report.candidates]
  OBVIOUS
<1>3. /\ sealing' = [body |-> b, at |-> "publish"] /\ b.id = m /\ b.head = Len(log)
      /\ b.count = Cardinality(DOMAIN rows) /\ b.exempt = approved.candidates
  BY <1>1, <1>2 DEF ReportStands, Report
<1>4. DOMAIN approved.buckets = DOMAIN rows
  BY <1>1 DEF ReportStands, Report
<1>5. /\ m \in DOMAIN agreed' /\ agreed'[m].exempt = approved.candidates
      /\ agreed'[m].ids = DOMAIN rows
  BY <1>1, <1>4 DEF With
<1>6. Len(log) \in Nat /\ Len(log') = Len(log) + 1
  <2>1. PICK S, e : log \in Seq(S) /\ log' = Append(log, e)
    BY <1>1 DEF CutoverInv, Append1
  <2>2. log \in Seq(S \cup {e})
    BY <2>1
  <2> QED
    BY <2>1, <2>2
<1>7. rows' = rows /\ IsFiniteSet(DOMAIN rows)
  BY <1>1 DEF CutoverInv
<1>8. SealOK(b)'
  BY <1>3, <1>5, <1>6, <1>7 DEF SealOK
<1>9. m \notin DOMAIN pins
  BY <1>1 DEF CutoverInv, SealOK
<1> QED
  BY <1>3, <1>8, <1>9 DEF SealOK

LEMMA SealingStep ==
    ASSUME CutoverInv, [Next]_vars, sealing' # None
    PROVE  /\ sealing' = [body |-> sealing'.body, at |-> sealing'.at]
           /\ SealOK(sealing.body)' /\ sealing'.body.id \notin DOMAIN pins'
<1>1. CASE Seal
  <2>1. UNCHANGED pins /\ Next
    BY <1>1 DEF Seal, Next
  <2> QED
    BY <1>1, <2>1, SealedAsApproved
<1>2. CASE sealing # None /\ UNCHANGED pins
           /\ (sealing' = sealing \/ sealing' = [sealing EXCEPT !.at = "pin"])
  <2>1. PICK b : b = sealing.body
    OBVIOUS
  <2>2. SealOK(b) /\ b.id \notin DOMAIN pins'
    BY <1>2, <2>1 DEF CutoverInv
  <2>3. sealing' = [body |-> sealing'.body, at |-> sealing'.at] /\ sealing'.body = b
    BY <1>2, <2>1 DEF CutoverInv
  <2>4. SealOK(b)'
    BY <2>2, SealStays
  <2> QED
    BY <2>2, <2>3, <2>4 DEF SealOK
<1>3. CASE Publish
  BY <1>2, <1>3 DEF Publish
<1>4. CASE UNCHANGED <<sealing, pins>>
  BY <1>2, <1>4
<1>5. CASE Pin \/ SealDies
  BY <1>5 DEF Pin, SealDies
<1> QED
  BY <1>1, <1>3, <1>4, <1>5
     DEF Next, vars, Remember, Purge, EditRow, LogPurge, Preflight, RemoveFile, EditFile,
         Activate, Start, Stop, Recall

LEMMA PinsStep ==
    ASSUME CutoverInv, [Next]_vars, NEW m \in DOMAIN pins'
    PROVE  pins'[m].id = m /\ SealOK(pins[m])'
<1>1. PICK b : b = pins'[m]
  OBVIOUS
<1>2. b.id = m /\ SealOK(b)
  <2>1. CASE Pin
    BY <1>1, <2>1 DEF Pin, With, CutoverInv
  <2>2. CASE UNCHANGED pins
    BY <1>1, <2>2 DEF CutoverInv
  <2> QED
    BY <2>1, <2>2
       DEF Next, vars, Remember, Purge, EditRow, LogPurge, Preflight, Seal, Publish, SealDies,
           RemoveFile, EditFile, Activate, Start, Stop, Recall
<1>3. SealOK(b)'
  BY <1>2, SealStays
<1> QED
  BY <1>1, <1>2, <1>3 DEF SealOK

LEMMA LoadableIsOK ==
    ASSUME CutoverInv, Loadable
    PROVE  LoadedOK(file)
BY DEF Loadable, Trusted, LoadedOK

LEMMA ResolverStep ==
    ASSUME CutoverInv, [Next]_vars
    PROVE  /\ resolver' = [p \in Servers |-> resolver'[p]]
           /\ \A p \in Servers : resolver'[p] # None => LoadedOK(resolver[p])'
<1>1. resolver' = [p \in Servers |-> resolver'[p]]
  <2>1. CASE UNCHANGED resolver
    BY <2>1 DEF CutoverInv
  <2>2. CASE \E q \in Servers : \E f : resolver' = [resolver EXCEPT ![q] = f]
    BY <2>2 DEF CutoverInv
  <2> QED
    BY <2>1, <2>2
       DEF Next, vars, Remember, Purge, EditRow, LogPurge, Preflight, Seal, Publish, Pin,
           SealDies, RemoveFile, EditFile, Activate, Start, Stop, Recall
<1>2. ASSUME NEW p \in Servers, resolver'[p] # None PROVE LoadedOK(resolver[p])'
  <2>1. PICK f : f = resolver'[p]
    OBVIOUS
  <2>2. LoadedOK(f)
    <3>1. CASE resolver'[p] = resolver[p]
      BY <1>2, <2>1, <3>1 DEF CutoverInv
    <3>2. ASSUME NEW q \in Servers, Start(q) \/ Stop(q) \/ Recall(q),
                 resolver'[p] # resolver[p]
          PROVE  LoadedOK(f)
      <4>1. q = p
        BY <3>2 DEF Start, Stop, Recall, CutoverInv
      <4>2. Loadable /\ f = file
        BY <1>2, <2>1, <3>2, <4>1 DEF Start, Stop, Recall, CutoverInv
      <4> QED
        BY <4>2, LoadableIsOK
    <3> QED
      BY <3>1, <3>2
         DEF Next, vars, Remember, Purge, EditRow, LogPurge, Preflight, Seal, Publish, Pin,
             SealDies, RemoveFile, EditFile, Activate
  <2>3. LoadedOK(f)'
    BY <2>2, LoadedStays
  <2> QED
    BY <2>1, <2>3 DEF LoadedOK
<1> QED
  BY <1>1, <1>2

LEMMA ServedStep ==
    CutoverInv /\ [Next]_vars => ExemptAsApproved'
<1> SUFFICES ASSUME CutoverInv, [Next]_vars PROVE ExemptAsApproved'
  OBVIOUS
<1>1. CASE UNCHANGED served
  <2> SUFFICES ASSUME NEW s \in served
               PROVE  \E m \in DOMAIN agreed' : /\ Bound(s.id, s.row) \in agreed'[m].exempt
                                                /\ Transitions("activated", m)' # {}
    BY <1>1 DEF ExemptAsApproved, Bound
  <2>1. PICK m \in DOMAIN agreed : /\ Bound(s.id, s.row) \in agreed[m].exempt
                                   /\ Transitions("activated", m) # {}
    BY DEF CutoverInv, ExemptAsApproved
  <2>2. Transitions("activated", m)' # {}
    BY <2>1, TransitionsGrow
  <2> QED
    BY <2>1, <2>2, AgreedStays
<1>2. ASSUME NEW p \in Servers, Recall(p) PROVE ExemptAsApproved'
  <2>1. LoadedOK(file)
    BY <1>2, LoadableIsOK DEF Recall, CutoverInv
  <2>2. PICK m : m = file.body.id
    OBVIOUS
  <2>3. /\ m \in DOMAIN agreed /\ file.body.exempt = agreed[m].exempt
        /\ Transitions("activated", m) # {}
    BY <2>1, <2>2 DEF LoadedOK, CutoverInv, SealOK
  <2>4. UNCHANGED <<agreed, log>>
    BY <1>2 DEF Recall
  <2>5. \A s \in served' : Bound(s.id, s.row) \in file.body.exempt
    BY <1>2 DEF Recall, Match
  <2>6. Transitions("activated", m)' # {}
    BY <2>3, TransitionsGrow
  <2> QED
    BY <2>3, <2>4, <2>5, <2>6 DEF ExemptAsApproved, Bound
<1> QED
  BY <1>1, <1>2
     DEF Next, vars, Remember, Purge, EditRow, LogPurge, Preflight, Seal, Publish, Pin,
         SealDies, RemoveFile, EditFile, Activate, Start, Stop

LEMMA CutoverInit == Init => CutoverInv
<1> SUFFICES ASSUME Init PROVE CutoverInv
  OBVIOUS
<1>1. \E S : log \in Seq(S)
  <2>1. log \in Seq({})
    BY DEF Init
  <2> QED
    BY <2>1
<1>2. IsFiniteSet(DOMAIN rows)
  <2>1. PICK i : DOMAIN rows = {i}
    BY DEF Init
  <2> QED
    BY <2>1, FS_Singleton
<1> QED
  BY <1>1, <1>2 DEF Init, CutoverInv, ExemptAsApproved

LEMMA CutoverStep == CutoverInv /\ [Next]_vars => CutoverInv'
<1> SUFFICES ASSUME CutoverInv, [Next]_vars PROVE CutoverInv'
  OBVIOUS
<1>1. (\A m \in DOMAIN pins : pins[m].id = m /\ SealOK(pins[m]))'
  BY PinsStep
<1>2. (\A p \in Servers : resolver[p] # None => LoadedOK(resolver[p]))'
  BY ResolverStep
<1>3. (sealing # None => /\ sealing = [body |-> sealing.body, at |-> sealing.at]
                         /\ SealOK(sealing.body) /\ sealing.body.id \notin DOMAIN pins)'
  BY SealingStep
<1> QED
  BY <1>1, <1>2, <1>3, LogStep, ResolverStep, ServedStep DEF CutoverInv

\* A row served without a valid signature is, in payload and signature, one the operator saw
\* as a candidate in a report sealed and activated since: no edit of a row or of the file,
\* no stale server and no crash of the seal gets another in.
THEOREM OnlyApprovedExempt == Spec => []ExemptAsApproved
<1>1. CutoverInv => ExemptAsApproved
  BY DEF CutoverInv
<1> QED
  BY CutoverInit, CutoverStep, <1>1, PTL DEF Spec

\* An activation finds the ids the operator approved: a write since the report would have
\* left an audit row, and a purge too many changes the count.
LEMMA ActivationStep ==
    ASSUME CutoverInv, [Next]_vars, NEW m \in DOMAIN agreed,
           Transitions("activated", m)' # Transitions("activated", m)
    PROVE  DOMAIN rows = agreed[m].ids
<1>1. PICK S : log \in Seq(S)
  BY DEF CutoverInv
<1>2. ASSUME NEW what, NEW about, NEW bound, Append1(what, about, bound),
             what # "activated" \/ about # m
      PROVE  FALSE
  <2>1. PICK e : e = Entry(what, about, bound)
    OBVIOUS
  <2>2. log \in Seq(S \cup {e}) /\ log' = Append(log, e)
    BY <1>1, <1>2, <2>1 DEF Append1
  <2>3. /\ DOMAIN log' = DOMAIN log \cup {Len(log) + 1} /\ log'[Len(log) + 1] = e
        /\ \A n \in DOMAIN log : log'[n] = log[n]
    BY <2>2
  <2>4. e.what = what /\ e.about = about
    BY <2>1 DEF Entry
  <2>5. Transitions("activated", m)' = Transitions("activated", m)
    BY <1>2, <2>3, <2>4 DEF Transitions
  <2> QED
    BY <2>5
<1>3. ASSUME UNCHANGED log PROVE FALSE
  BY <1>3 DEF Transitions
<1>4. Activate /\ file.body.id = m
  <2>1. CASE Remember
    BY <1>2, <2>1 DEF Remember
  <2>2. CASE LogPurge
    BY <1>2, <2>2 DEF LogPurge
  <2>3. CASE Seal
    <3>1. PICK x, bound : Append1("sealed", x, bound)
      BY <2>3 DEF Seal
    <3> QED
      BY <1>2, <3>1
  <2>4. CASE Activate
    <3>1. PICK x, bound : x = file.body.id /\ Append1("activated", x, bound)
      BY <2>4 DEF Activate
    <3> QED
      BY <1>2, <2>4, <3>1
  <2> QED
    BY <1>3, <2>1, <2>2, <2>3, <2>4
       DEF Next, vars, Purge, EditRow, Preflight, Publish, Pin, SealDies, RemoveFile, EditFile,
           Start, Stop, Recall
<1>5. SealOK(file.body)
  BY <1>4 DEF Activate, Trusted, CutoverInv
<1>6. /\ DOMAIN rows \subseteq agreed[m].ids
      /\ Cardinality(DOMAIN rows) = Cardinality(agreed[m].ids) /\ IsFiniteSet(agreed[m].ids)
  BY <1>4, <1>5 DEF Activate, Unchanged, SealOK
<1> QED
  BY <1>6, FS_Subset

\* What is activated is the store the operator approved.
THEOREM OnlyApprovedActivated == Spec => ActivatedAsReported
<1>1. CutoverInv /\ [Next]_vars =>
        [\A m \in DOMAIN agreed :
           Transitions("activated", m)' # Transitions("activated", m)
           => DOMAIN rows = agreed[m].ids]_vars
  BY ActivationStep
<1> QED
  BY CutoverInit, CutoverStep, <1>1, PTL DEF Spec, ActivatedAsReported

(***************************************************************************)
(* AuditChain: a bundle that passes with the auditor's checkpoint binds    *)
(* every receipt the checkpoint covers.  First, numbers.                   *)
(***************************************************************************)
LEMMA LeastNumber ==
    ASSUME NEW T, T \subseteq Nat, T # {}
    PROVE  \E x \in T : \A y \in T : x <= y
<1>1. PICK less : less = OpToRel(<, Nat)
  OBVIOUS
<1>2. IsWellFoundedOn(less, Nat)
  BY <1>1, NatLessThanWellFounded
<1>3. PICK x \in T : \A y \in T : ~ (<<y, x>> \in less)
  BY <1>2, WFMin
<1>4. ASSUME NEW y \in T, y < x PROVE FALSE
  <2>1. <<y, x>> \in less
    BY <1>1, <1>4 DEF OpToRel
  <2> QED
    BY <1>3, <2>1
<1> QED
  BY <1>3, <1>4

LEMMA GreatestNumber ==
    ASSUME NEW w \in Nat, NEW T, T \subseteq 1..w, T # {}
    PROVE  \E m \in T : \A k \in T : k <= m
<1>1. PICK D : D = {w - k : k \in T}
  OBVIOUS
<1>2. D \subseteq Nat /\ D # {}
  <2>1. \A k \in T : w - k \in Nat
    OBVIOUS
  <2> QED
    BY <1>1, <2>1
<1>3. PICK d \in D : \A e \in D : d <= e
  BY <1>2, LeastNumber
<1>4. PICK m \in T : d = w - m
  BY <1>1
<1>5. \A k \in T : w - k \in D
  BY <1>1
<1> QED
  BY <1>2, <1>3, <1>4, <1>5

(***************************************************************************)
(* The chain.                                                              *)
(***************************************************************************)
RowType == [body : Nat, prev : Seq(Nat), hash : Seq(Nat)]
RowsOK(kept) == DOMAIN kept \subseteq Nat \ {0} /\ \A n \in DOMAIN kept : kept[n] \in RowType

\* The rows before row n, of rows without gaps, end with row n - 1.
LEMMA HeadBefore ==
    ASSUME NEW kept, NEW h \in Nat, DOMAIN kept = 1..h, NEW n \in 1..h
    PROVE  A!HeadHash(A!Before(kept, n)) = IF n = 1 THEN <<>> ELSE kept[n - 1].hash
<1>1. PICK b : b = A!Before(kept, n)
  OBVIOUS
<1>2. DOMAIN b = {j \in 1..h : j < n} /\ \A j \in DOMAIN b : b[j] = kept[j]
  BY <1>1 DEF A!Before
<1>3. CASE n = 1
  <2>1. DOMAIN b = {}
    BY <1>2, <1>3
  <2> QED
    BY <1>1, <1>3, <2>1 DEF A!HeadHash, A!HeadSeq
<1>4. CASE n # 1
  <2>1. n - 1 \in DOMAIN b /\ \A k \in DOMAIN b : k <= n - 1
    BY <1>2, <1>4
  <2>2. \A x \in DOMAIN b : (\A k \in DOMAIN b : k <= x) => x = n - 1
    BY <1>2, <2>1
  <2>3. (CHOOSE x \in DOMAIN b : \A k \in DOMAIN b : k <= x) = n - 1
    BY <2>1, <2>2
  <2>4. A!HeadSeq(b) = n - 1
    BY <2>1, <2>3 DEF A!HeadSeq
  <2> QED
    BY <1>1, <1>2, <1>4, <2>1, <2>4 DEF A!HeadHash
<1> QED
  BY <1>3, <1>4

\* A whole chain: the hash of row n is a hash of n bodies.
LEMMA HashLength ==
    ASSUME NEW kept, RowsOK(kept), A!ChainOk(kept), NEW h \in Nat, DOMAIN kept = 1..h
    PROVE  \A n \in 1..h : Len(kept[n].hash) = n
<1>1. \A n \in 1..h : /\ kept[n].hash \in Seq(Nat) /\ kept[n].prev \in Seq(Nat)
                      /\ kept[n].body \in Nat
                      /\ kept[n].hash = Append(kept[n].prev, kept[n].body)
  BY DEF RowsOK, RowType, A!ChainOk, A!HashOf
<1>2. \A n \in 1..h : kept[n].prev = IF n = 1 THEN <<>> ELSE kept[n - 1].hash
  BY HeadBefore DEF A!ChainOk
<1>3. PICK T : T = {n \in 1..h : Len(kept[n].hash) # n}
  OBVIOUS
<1>4. CASE T # {}
  <2>1. T \subseteq Nat
    BY <1>3
  <2>2. PICK n \in T : \A k \in T : n <= k
    BY <1>4, <2>1, LeastNumber
  <2>3. n \in 1..h /\ Len(kept[n].hash) = Len(kept[n].prev) + 1
    BY <1>1, <1>3
  <2>4. CASE n = 1
    <3>1. Len(kept[n].prev) = 0
      BY <1>2, <2>3, <2>4
    <3> QED
      BY <1>3, <2>3, <2>4, <3>1
  <2>5. CASE n # 1
    <3>1. n - 1 \in 1..h /\ n - 1 \notin T
      BY <2>1, <2>2, <2>3, <2>5
    <3>2. Len(kept[n - 1].hash) = n - 1
      BY <1>3, <3>1
    <3> QED
      BY <1>2, <1>3, <2>3, <2>5, <3>2
  <2> QED
    BY <2>4, <2>5
<1> QED
  BY <1>3, <1>4

\* And every later hash begins with it.
LEMMA HashPrefix ==
    ASSUME NEW kept, RowsOK(kept), A!ChainOk(kept), NEW h \in Nat, DOMAIN kept = 1..h,
           NEW n \in 1..h
    PROVE  \A m \in n..h : SubSeq(kept[m].hash, 1, n) = kept[n].hash
<1>1. \A m \in 1..h : /\ kept[m].hash \in Seq(Nat) /\ kept[m].prev \in Seq(Nat)
                      /\ kept[m].body \in Nat
                      /\ kept[m].hash = Append(kept[m].prev, kept[m].body)
  BY DEF RowsOK, RowType, A!ChainOk, A!HashOf
<1>2. \A m \in 1..h : kept[m].prev = IF m = 1 THEN <<>> ELSE kept[m - 1].hash
  BY HeadBefore DEF A!ChainOk
<1>3. \A m \in 1..h : Len(kept[m].hash) = m
  BY HashLength
<1>4. PICK T : T = {m \in n..h : SubSeq(kept[m].hash, 1, n) # kept[n].hash}
  OBVIOUS
<1>5. CASE T # {}
  <2>1. T \subseteq Nat
    BY <1>4
  <2>2. PICK m \in T : \A k \in T : m <= k
    BY <1>5, <2>1, LeastNumber
  <2>3. m \in n..h
    BY <1>4
  <2>4. CASE m = n
    <3>1. SubSeq(kept[n].hash, 1, n) = kept[n].hash
      BY <1>1, <1>3
    <3> QED
      BY <1>4, <2>4, <3>1
  <2>5. CASE m # n
    <3>1. m - 1 \in n..h /\ m - 1 \in 1..h /\ m \in 1..h /\ m # 1 /\ m - 1 \notin T
      BY <2>1, <2>2, <2>3, <2>5
    <3>2. SubSeq(kept[m - 1].hash, 1, n) = kept[n].hash
      BY <1>4, <3>1
    <3>3. PICK s \in Seq(Nat), b \in Nat : s = kept[m - 1].hash /\ b = kept[m].body
      BY <1>1, <3>1
    <3>4. kept[m].hash = Append(s, b) /\ Len(s) = m - 1
      BY <1>1, <1>2, <1>3, <3>1, <3>3
    <3>5. SubSeq(Append(s, b), 1, n) = SubSeq(s, 1, n)
      BY <2>3, <3>1, <3>4
    <3> QED
      BY <1>4, <3>2, <3>3, <3>4, <3>5
  <2> QED
    BY <2>4, <2>5
<1> QED
  BY <1>4, <1>5

(***************************************************************************)
(* The bundle.                                                             *)
(***************************************************************************)
RecordType == [seq : Nat \ {0}, hash : Seq(Nat)]

\* A receipt's binding: the row hash it names closes the body that commits to it.
BindingOK(r) ==
    /\ r.seq \in Nat \ {0} /\ r.body \in Nat
    /\ r.hash \in Seq(Nat) /\ r.hash # <<>> /\ r.hash[Len(r.hash)] = r.body

\* Whatever file the auditor is given: if it passes, it binds what the checkpoint covers.
LEMMA PassingBinds ==
    ASSUME NEW b, RowsOK(b.rows), b.records \in Seq(RecordType), checkpoint \in RecordType,
           A!Passes(b), NEW r, BindingOK(r), A!Covered(r)
    PROVE  A!BoundIn(r, b)
<1>1. PICK kept : kept = b.rows
  OBVIOUS
<1>2. PICK h : h = checkpoint.seq
  OBVIOUS
<1>3. /\ RowsOK(kept) /\ A!ChainOk(kept) /\ h \in Nat \ {0} /\ DOMAIN kept = 1..h
      /\ kept[h].hash = checkpoint.hash
  <2>1. PICK last : last = Len(b.records)
    OBVIOUS
  <2>2. last \in DOMAIN b.records /\ b.records[last] = checkpoint
    BY <2>1 DEF A!Passes, A!Closed
  <2>3. A!HeadSeq(kept) = h /\ kept[h].hash = checkpoint.hash
    BY <1>1, <1>2, <2>1, <2>2 DEF A!Passes, A!Closed, A!AnchorsMatch
  <2> QED
    BY <1>1, <1>2, <2>3 DEF A!Passes, A!Closed, A!Contiguous, RecordType
<1>4. r.seq \in 1..h /\ h \in r.seq..h
  BY <1>2, <1>3 DEF A!Covered, BindingOK
<1>5. SubSeq(kept[h].hash, 1, r.seq) = kept[r.seq].hash
  BY <1>3, <1>4, HashPrefix
<1>6. kept[r.seq].hash = r.hash
  BY <1>3, <1>5 DEF A!Covered
<1>7. kept[r.seq].body = r.body
  <2>1. PICK prev \in Seq(Nat), body \in Nat :
          prev = kept[r.seq].prev /\ body = kept[r.seq].body
    BY <1>3, <1>4 DEF RowsOK, RowType
  <2>2. kept[r.seq].hash = Append(prev, body)
    BY <1>3, <1>4, <2>1 DEF A!ChainOk, A!HashOf
  <2>3. Append(prev, body)[Len(Append(prev, body))] = body
    OBVIOUS
  <2> QED
    BY <1>6, <2>1, <2>2, <2>3 DEF BindingOK
<1> QED
  BY <1>1, <1>3, <1>4, <1>6, <1>7 DEF A!BoundIn

(***************************************************************************)
(* The steps keep rows, records and receipts well formed: an edit can put  *)
(* other values there, not values of another kind.                         *)
(***************************************************************************)
ChainInv ==
    /\ written \in Nat
    /\ DOMAIN chain \subseteq 1..written /\ RowsOK(chain)
    /\ sink \in Seq(RecordType) /\ exporting \in Seq(RecordType)
    /\ checkpoint # A!None => checkpoint \in RecordType
    /\ finalizing # A!None => BindingOK(finalizing)
    /\ \A r \in receipts : BindingOK(r)
    /\ bundle # A!None =>
        /\ bundle = [rows |-> bundle.rows, records |-> bundle.records, head |-> bundle.head]
        /\ RowsOK(bundle.rows) /\ bundle.records \in Seq(RecordType)

\* The head of the log is its last row.
LEMMA HeadIsRow ==
    ASSUME ChainInv
    PROVE  /\ A!HeadSeq(chain) \in Nat /\ A!HeadHash(chain) \in Seq(Nat)
           /\ A!HeadSeq(chain) > 0 => A!HeadSeq(chain) \in DOMAIN chain
<1>1. CASE DOMAIN chain = {}
  BY <1>1 DEF A!HeadSeq, A!HeadHash
<1>2. CASE DOMAIN chain # {}
  <2>1. PICK m \in DOMAIN chain : \A k \in DOMAIN chain : k <= m
    BY <1>2, GreatestNumber DEF ChainInv
  <2>2. A!HeadSeq(chain) \in DOMAIN chain
    BY <1>2, <2>1 DEF A!HeadSeq
  <2> QED
    BY <2>2 DEF A!HeadHash, ChainInv, RowsOK, RowType
<1> QED
  BY <1>1, <1>2

\* What an append writes.
LEMMA NewRowOK ==
    ASSUME ChainInv
    PROVE  /\ A!NewRow \in RowType /\ A!NextSeq \in Nat \ {0}
           /\ BindingOK([seq |-> A!NextSeq, body |-> A!NextSeq, hash |-> A!NewRow.hash])
<1>1. PICK prev \in Seq(Nat) : prev = A!HeadHash(chain)
  BY HeadIsRow
<1>2. PICK body \in Nat \ {0} : body = A!NextSeq
  BY DEF ChainInv, A!NextSeq
<1>3. /\ Append(prev, body) \in Seq(Nat) /\ Append(prev, body) # <<>>
      /\ Append(prev, body)[Len(Append(prev, body))] = body
  <2>1. Len(Append(prev, body)) = Len(prev) + 1
    OBVIOUS
  <2> QED
    BY <2>1
<1>4. A!NewRow = [body |-> body, prev |-> prev, hash |-> Append(prev, body)]
  BY <1>1, <1>2 DEF A!NewRow, A!HashOf
<1> QED
  BY <1>2, <1>3, <1>4 DEF RowType, BindingOK

LEMMA WithRow ==
    ASSUME NEW kept, RowsOK(kept), NEW n \in Nat \ {0}, NEW row \in RowType
    PROVE  RowsOK(A!With(kept, n, row)) /\ DOMAIN A!With(kept, n, row) = DOMAIN kept \cup {n}
BY DEF RowsOK, A!With

\* What an edit leaves in the place of rows.
LEMMA EditedOK ==
    ASSUME NEW kept, RowsOK(kept), NEW n \in DOMAIN kept, NEW new,
           new \in {A!Changed(kept, n), A!Rehashed(kept, n), A!Rewritten(kept, n), A!Cut(kept, n)}
    PROVE  RowsOK(new) /\ DOMAIN new \subseteq DOMAIN kept
<1>1. kept[n] \in RowType /\ n \in Nat
  BY DEF RowsOK
<1>2. CASE new = A!Changed(kept, n)
  <2>1. [kept[n] EXCEPT !.body = 0] \in RowType
    BY <1>1 DEF RowType
  <2> QED
    BY <1>2, <2>1 DEF A!Changed, RowsOK
<1>3. CASE new = A!Rehashed(kept, n)
  <2>1. A!HashOf(kept[n].prev, 0) \in Seq(Nat)
    BY <1>1 DEF RowType, A!HashOf
  <2>2. PICK x \in RowType : x = [kept[n] EXCEPT !.body = 0, !.hash = A!HashOf(kept[n].prev, 0)]
    BY <1>1, <2>1 DEF RowType
  <2>3. new = [kept EXCEPT ![n] = x]
    BY <1>3, <2>2 DEF A!Rehashed
  <2> QED
    BY <2>3 DEF RowsOK
<1>4. CASE new = A!Rewritten(kept, n)
  <2>1. \A s \in Seq(Nat) : A!Without(s, n) \in Seq(Nat)
    <3> SUFFICES ASSUME NEW s \in Seq(Nat) PROVE A!Without(s, n) \in Seq(Nat)
      OBVIOUS
    <3>1. DOMAIN s = 1..Len(s) /\ Len(s) \in Nat /\ \A i \in 1..Len(s) : s[i] \in Nat
      OBVIOUS
    <3>2. A!Without(s, n) \in [1..Len(s) -> Nat]
      BY <3>1 DEF A!Without
    <3> QED
      BY <3>1, <3>2
  <2>2. ASSUME NEW k \in DOMAIN kept PROVE new[k] \in RowType
    <3>1. kept[k] \in RowType
      BY DEF RowsOK
    <3>2. PICK x : x = [body |-> IF k = n THEN 0 ELSE kept[k].body,
                        prev |-> A!Without(kept[k].prev, n), hash |-> A!Without(kept[k].hash, n)]
      OBVIOUS
    <3>3. x \in RowType
      BY <2>1, <3>1, <3>2 DEF RowType
    <3>4. new[k] = kept[k] \/ new[k] = x
      BY <1>4, <3>2 DEF A!Rewritten
    <3> QED
      BY <3>1, <3>3, <3>4
  <2>3. DOMAIN new = DOMAIN kept
    BY <1>4 DEF A!Rewritten
  <2> QED
    BY <2>2, <2>3 DEF RowsOK
<1>5. CASE new = A!Cut(kept, n)
  BY <1>5 DEF A!Cut, RowsOK
<1> QED
  BY <1>2, <1>3, <1>4, <1>5

LEMMA ChainInit == A!Init => ChainInv
BY DEF A!Init, ChainInv, RowsOK

LEMMA ChainStep == ChainInv /\ [A!Next]_A!vars => ChainInv'
<1> SUFFICES ASSUME ChainInv, [A!Next]_A!vars PROVE ChainInv'
  OBVIOUS
<1> DEFINE LogInv == /\ written \in Nat /\ DOMAIN chain \subseteq 1..written /\ RowsOK(chain)
           SinkInv == sink \in Seq(RecordType) /\ exporting \in Seq(RecordType)
           CheckInv == checkpoint # A!None => checkpoint \in RecordType
           ReceiptInv == /\ finalizing # A!None => BindingOK(finalizing)
                         /\ \A r \in receipts : BindingOK(r)
           BundleInv == bundle # A!None =>
                          /\ bundle = [rows |-> bundle.rows, records |-> bundle.records,
                                       head |-> bundle.head]
                          /\ RowsOK(bundle.rows) /\ bundle.records \in Seq(RecordType)
<1>a. LogInv /\ SinkInv /\ CheckInv /\ ReceiptInv /\ BundleInv
  BY DEF ChainInv
<1>1. LogInv'
  <2>1. CASE A!AppendRow \/ A!AppendBound
    <3>1. /\ written' = written + 1 /\ A!NextSeq = written + 1
          /\ chain' = A!With(chain, A!NextSeq, A!NewRow)
      BY <2>1 DEF A!AppendRow, A!AppendBound, A!NextSeq
    <3>2. RowsOK(chain') /\ DOMAIN chain' = DOMAIN chain \cup {A!NextSeq}
      BY <1>a, <3>1, WithRow, NewRowOK
    <3> QED
      BY <1>a, <3>1, <3>2 DEF RowsOK
  <2>2. CASE A!EditLog
    <3>1. RowsOK(chain') /\ DOMAIN chain' \subseteq DOMAIN chain /\ UNCHANGED written
      BY <1>a, <2>2, EditedOK DEF A!EditLog, A!Edit
    <3> QED
      BY <1>a, <3>1 DEF RowsOK
  <2>3. CASE UNCHANGED <<written, chain>>
    BY <1>a, <2>3 DEF RowsOK
  <2> QED
    BY <2>1, <2>2, <2>3
       DEF A!Next, A!vars, A!Finalize, A!Anchor, A!RecordHead, A!Checkpoint, A!ExportRead,
           A!Export, A!CutSink, A!EditBundle, A!Edit
<1>2. SinkInv'
  <2>1. CASE A!Anchor
    <3>1. PICK x \in RecordType : x = [seq |-> A!HeadSeq(chain), hash |-> A!HeadHash(chain)]
      BY <2>1, HeadIsRow DEF A!Anchor, RecordType
    <3> QED
      BY <1>a, <2>1, <3>1 DEF A!Anchor
  <2>2. CASE A!CutSink
    <3>1. Len(sink) \in Nat /\ Len(sink) > 1
      BY <1>a, <2>2 DEF A!CutSink
    <3>2. SubSeq(sink, 1, Len(sink) - 1) \in Seq(RecordType)
      BY <1>a, <3>1
    <3> QED
      BY <1>a, <2>2, <3>2 DEF A!CutSink, A!Edit
  <2>3. CASE A!ExportRead \/ A!Export
    <3>1. <<>> \in Seq(RecordType)
      OBVIOUS
    <3>2. UNCHANGED sink /\ exporting' \in {sink, <<>>}
      BY <2>3 DEF A!ExportRead, A!Export
    <3> QED
      BY <1>a, <3>1, <3>2
  <2>4. CASE UNCHANGED <<sink, exporting>>
    BY <1>a, <2>4
  <2> QED
    BY <2>1, <2>2, <2>3, <2>4
       DEF A!Next, A!vars, A!AppendRow, A!AppendBound, A!Finalize, A!RecordHead, A!Checkpoint,
           A!EditLog, A!EditBundle, A!Edit
<1>3. CheckInv'
  <2>1. CASE A!Checkpoint
    <3>1. Len(sink) \in DOMAIN sink
      BY <1>a, <2>1 DEF A!Checkpoint
    <3> QED
      BY <1>a, <2>1, <3>1 DEF A!Checkpoint
  <2>2. CASE UNCHANGED checkpoint
    BY <1>a, <2>2
  <2> QED
    BY <2>1, <2>2
       DEF A!Next, A!vars, A!AppendRow, A!AppendBound, A!Finalize, A!Anchor, A!RecordHead,
           A!ExportRead, A!Export, A!EditLog, A!CutSink, A!EditBundle, A!Edit
<1>4. ReceiptInv'
  <2>1. CASE A!AppendBound
    <3>1. PICK x : x = [seq |-> A!NextSeq, body |-> A!NextSeq, hash |-> A!NewRow.hash]
      OBVIOUS
    <3>2. BindingOK(x)
      BY <3>1, NewRowOK
    <3> QED
      BY <1>a, <2>1, <3>1, <3>2 DEF A!AppendBound
  <2>2. CASE A!Finalize
    BY <1>a, <2>2 DEF A!Finalize
  <2>3. CASE UNCHANGED <<finalizing, receipts>>
    BY <1>a, <2>3
  <2> QED
    BY <2>1, <2>2, <2>3
       DEF A!Next, A!vars, A!AppendRow, A!Anchor, A!RecordHead, A!Checkpoint, A!ExportRead,
           A!Export, A!EditLog, A!CutSink, A!EditBundle, A!Edit
<1>5. BundleInv'
  <2>1. CASE A!Export /\ bundle' # bundle
    <3>1. PICK kept : kept = [n \in {k \in DOMAIN chain : k <= exporting[Len(exporting)].seq}
                                |-> chain[n]]
      OBVIOUS
    <3>2. RowsOK(kept)
      BY <1>a, <3>1 DEF RowsOK
    <3>3. bundle' = [rows |-> kept, records |-> exporting, head |-> head]
      BY <2>1, <3>1 DEF A!Export
    <3> QED
      BY <1>a, <3>2, <3>3
  <2>2. CASE A!EditBundle
    <3>1. PICK n \in DOMAIN bundle.rows :
            bundle' \in {[bundle EXCEPT !.rows = A!Rewritten(bundle.rows, n)],
                         [bundle EXCEPT !.rows = A!Rehashed(bundle.rows, n)]}
      BY <2>2 DEF A!EditBundle
    <3>2. PICK kept : /\ kept \in {A!Rewritten(bundle.rows, n), A!Rehashed(bundle.rows, n)}
                      /\ bundle' = [bundle EXCEPT !.rows = kept]
      BY <3>1
    <3>3. bundle # A!None
      BY <2>2 DEF A!EditBundle
    <3>4. RowsOK(kept)
      BY <1>a, <3>2, <3>3, EditedOK
    <3>5. /\ bundle'.rows = kept /\ bundle'.records = bundle.records
          /\ bundle' = [rows |-> bundle'.rows, records |-> bundle'.records,
                        head |-> bundle'.head]
      BY <1>a, <3>2, <3>3
    <3> QED
      BY <1>a, <3>3, <3>4, <3>5
  <2>3. CASE UNCHANGED bundle
    BY <1>a, <2>3
  <2> QED
    BY <2>1, <2>2, <2>3
       DEF A!Next, A!vars, A!AppendRow, A!AppendBound, A!Finalize, A!Anchor, A!RecordHead,
           A!Checkpoint, A!ExportRead, A!EditLog, A!CutSink, A!Edit
<1> QED
  BY <1>1, <1>2, <1>3, <1>4, <1>5 DEF ChainInv

\* A bundle that passes with the auditor's checkpoint binds every receipt the checkpoint
\* covers, whatever was edited, cut or lost in the log, the sink and the bundle, and
\* wherever an anchor or an export was interrupted.
THEOREM PassingBundlesBind == A!Spec => []A!ReceiptsBound
<1>1. ChainInv => A!ReceiptsBound
  <2> SUFFICES ASSUME ChainInv, bundle # A!None, A!Passes(bundle),
                      NEW r \in receipts, A!Covered(r)
               PROVE  A!BoundIn(r, bundle)
    BY DEF A!ReceiptsBound
  <2>1. /\ RowsOK(bundle.rows) /\ bundle.records \in Seq(RecordType)
        /\ checkpoint \in RecordType /\ BindingOK(r)
    BY DEF ChainInv, A!Passes
  <2> QED
    BY <2>1, PassingBinds
<1> QED
  BY ChainInit, ChainStep, <1>1, PTL DEF A!Spec

(***************************************************************************)
(* Each part of the composition behaves as its module does.                *)
(***************************************************************************)
AllVars == <<part, audit, continuity, vars, rollback, erasure>>

LEMMA ChainPart == UnionSpec => A!Spec
<1>1. UnionInit => A!Init
  BY DEF UnionInit
<1>2. [UnionNext]_AllVars => [A!Next]_A!vars
  BY DEF UnionNext, AllVars, audit, A!vars
<1> QED
  BY <1>1, <1>2, PTL DEF UnionSpec, A!Spec, AllVars

LEMMA ContinuityPart == UnionSpec => C!Spec
<1>1. UnionInit => C!Init
  BY DEF UnionInit
<1>2. [UnionNext]_AllVars => [C!Next]_C!vars
  BY DEF UnionNext, AllVars, continuity, C!vars
<1> QED
  BY <1>1, <1>2, PTL DEF UnionSpec, C!Spec, AllVars

LEMMA CutoverPart == UnionSpec => Spec
<1>1. UnionInit => Init
  BY DEF UnionInit
<1>2. [UnionNext]_AllVars => [Next]_vars
  BY DEF UnionNext, AllVars, vars
<1> QED
  BY <1>1, <1>2, PTL DEF UnionSpec, Spec, AllVars

LEMMA RollbackPart == UnionSpec => R!Spec
<1>1. UnionInit => R!Init
  BY DEF UnionInit
<1>2. [UnionNext]_AllVars => [R!Next]_R!vars
  BY DEF UnionNext, AllVars, rollback, R!vars
<1> QED
  BY <1>1, <1>2, PTL DEF UnionSpec, R!Spec, AllVars

\* The erasure variables rest, or change as one of the two instances has it.
Purging == part = "purge"

LEMMA ErasurePart == UnionSpec => E!ReceiptSpec \/ P!ReceiptSpec
<1>1. UnionInit /\ Purging => P!ReceiptInit
  BY DEF UnionInit, Purging
<1>2. UnionInit /\ ~Purging => E!ReceiptInit
  BY DEF UnionInit, Purging
<1>3. Purging /\ [UnionNext]_AllVars => Purging' /\ [P!ReceiptNext]_P!allVars
  BY DEF UnionNext, Purging, AllVars, erasure,
         P!allVars, P!vars, P!fileVars, P!history, P!receiptVars
<1>4. ~Purging /\ [UnionNext]_AllVars => ~Purging' /\ [E!ReceiptNext]_E!allVars
  BY DEF UnionNext, Purging, AllVars, erasure,
         E!allVars, E!vars, E!fileVars, E!history, E!receiptVars
<1>5. UnionSpec /\ Purging => P!ReceiptSpec
  BY <1>1, <1>3, PTL DEF UnionSpec, P!ReceiptSpec, AllVars
<1>6. UnionSpec /\ ~Purging => E!ReceiptSpec
  BY <1>2, <1>4, PTL DEF UnionSpec, E!ReceiptSpec, AllVars
<1> QED
  BY <1>5, <1>6, PTL

\* A bundle that passes verification with the auditor's checkpoint binds every
\* receipt the checkpoint covers (audit_bundle.py): in the composition TLC checks.
THEOREM BundlesBind == UnionSpec => []ReceiptsBound
BY ChainPart, PassingBundlesBind, PTL DEF ReceiptsBound

\* A row served without a valid signature is one the operator approved, and what is
\* activated is what was approved (strict_cutover.py): in the composition TLC checks.
THEOREM CutoverAsApproved == UnionSpec => []ExemptAsApproved /\ ActivatedAsReported
BY CutoverPart, OnlyApprovedExempt, OnlyApprovedActivated, PTL

\* With one process no receipt is ok once acknowledged rows are gone from the database, or
\* the sink has lost its recorded head (anchors.py): in the composition TLC checks.
THEOREM OkIntact ==
    ASSUME \E p : Procs = {p}
    PROVE  UnionSpec => []OkMeansIntact
<1>1. R!AnchorAssumptions
  BY AnchorConstants DEF R!AnchorAssumptions
<1>2. R!Spec => []R!OkMeansIntact
  BY <1>1, R!OkStaysIntact
<1> QED
  BY <1>2, RollbackPart, PTL DEF OkMeansIntact

\* The constants are those an erasure run needs, in both instances.
LEMMA ErasureConstants == E!StoreAssumptions /\ P!StoreAssumptions
BY ReceiptConstants DEF E!StoreAssumptions, P!StoreAssumptions

\* An erasure receipt keeps passing its store check (client.py, receipts.py): in the
\* composition TLC checks, whichever instance of ErasureReceipts it runs.
THEOREM ErasureReceiptsStand == UnionSpec => []ReceiptStands
<1>1. E!ReceiptSpec => []E!ReceiptStands
  BY ErasureConstants, E!ReceiptsStand
<1>2. P!ReceiptSpec => []P!ReceiptStands
  BY ErasureConstants, P!ReceiptsStand
<1>3. P!ReceiptStands => E!ReceiptStands
  BY DEF P!ReceiptStands, P!Passes, P!KeyTombstone, P!NamedRows, P!NamedEdges,
         P!SubjectRows, P!SubjectLineage, P!NamedLineage, P!Stored,
         E!ReceiptStands, E!Passes, E!KeyTombstone, E!NamedRows, E!NamedEdges,
         E!SubjectRows, E!SubjectLineage, E!NamedLineage, E!Stored
<1> QED
  BY ErasurePart, <1>1, <1>2, <1>3, PTL DEF ReceiptStands

(***************************************************************************)
(* Rotation receipts.                                                      *)
(***************************************************************************)
\* A receipt that is in row "at", or would be: its baseline held when it was checked,
\* which was before the row.  What a genesis receipt found is only about the rows
\* there were then.
Sound(r, at) ==
    /\ r.kind = "receipt" /\ r.prior \in Nat /\ r.checked \in Nat /\ r.checked < at
    /\ IF r.prior = 0
       THEN \A k \in 1..r.checked : ~(C!IsReceipt(k) /\ C!SameLineage(entries[k], r))
       ELSE r.prior <= r.checked /\ C!IsReceipt(r.prior)

ReceiptsInv ==
    /\ \E Rows : entries \in Seq(Rows)
    /\ \A n \in DOMAIN entries : C!IsReceipt(n) => Sound(entries[n], n)
    /\ \A p \in Issuers : issuing[p] # C!Idle => Sound(issuing[p], Len(entries) + 1)

\* Rows never change, and a new one leaves what is sound sound.
LEMMA AppendSteady ==
    ASSUME NEW Rows, entries \in Seq(Rows), NEW e, entries' = Append(entries, e)
    PROVE  /\ entries' \in Seq(Rows \cup {e})
           /\ Len(entries) \in Nat /\ Len(entries') = Len(entries) + 1
           /\ DOMAIN entries = 1..Len(entries) /\ DOMAIN entries' = 1..(Len(entries) + 1)
           /\ entries'[Len(entries) + 1] = e
           /\ \A n \in DOMAIN entries : entries'[n] = entries[n]
<1>1. entries \in Seq(Rows \cup {e}) /\ e \in Rows \cup {e}
  OBVIOUS
<1>2. /\ entries' \in Seq(Rows \cup {e}) /\ Len(entries') = Len(entries) + 1
      /\ Len(entries) \in Nat
      /\ DOMAIN entries = 1..Len(entries) /\ DOMAIN entries' = 1..(Len(entries) + 1)
  BY <1>1
<1>3. entries'[Len(entries) + 1] = e
  BY <1>1
<1>4. \A n \in DOMAIN entries : entries'[n] = entries[n]
  BY <1>1
<1> QED
  BY <1>2, <1>3, <1>4

\* What a receipt found stays so as the log grows.
LEMMA SoundStays ==
    ASSUME NEW r, NEW at \in Nat, Sound(r, at), at <= Len(entries) + 1,
           Len(entries) \in Nat, DOMAIN entries = 1..Len(entries),
           DOMAIN entries' = 1..(Len(entries) + 1),
           \A n \in DOMAIN entries : entries'[n] = entries[n],
           NEW new \in {at, Len(entries) + 1}
    PROVE  Sound(r, new)'
<1>1. \A n \in DOMAIN entries : C!IsReceipt(n)' <=> C!IsReceipt(n)
  BY DEF C!IsReceipt
<1>2. \A k \in 1..r.checked : k \in DOMAIN entries
  BY DEF Sound
<1>3. r.prior = 0 => \A k \in 1..r.checked : ~(C!IsReceipt(k)' /\ C!SameLineage(entries[k], r)')
  BY <1>1, <1>2 DEF Sound, C!SameLineage
<1>4. r.prior # 0 => C!IsReceipt(r.prior)'
  BY <1>1, <1>2 DEF Sound
<1> QED
  BY <1>3, <1>4 DEF Sound

\* A row appended is no receipt, or a receipt that was checked.
LEMMA AppendKeeps ==
    ASSUME ReceiptsInv, NEW e, entries' = Append(entries, e),
           e.kind = "receipt" => Sound(e, Len(entries) + 1),
           \A p \in Issuers : issuing'[p] \in {issuing[p], C!Idle}
    PROVE  ReceiptsInv'
<1>0. PICK Rows : entries \in Seq(Rows)
  BY DEF ReceiptsInv
<1>1. /\ entries' \in Seq(Rows \cup {e})
      /\ Len(entries) \in Nat /\ Len(entries') = Len(entries) + 1
      /\ DOMAIN entries = 1..Len(entries) /\ DOMAIN entries' = 1..(Len(entries) + 1)
      /\ entries'[Len(entries) + 1] = e
      /\ \A n \in DOMAIN entries : entries'[n] = entries[n]
  BY <1>0, AppendSteady
<1>2. \A r : \A at \in Nat : Sound(r, at) /\ at <= Len(entries) + 1
                             => \A new \in {at, Len(entries) + 1} : Sound(r, new)'
  BY <1>1, SoundStays
<1>3. ASSUME NEW n \in DOMAIN entries', C!IsReceipt(n)' PROVE Sound(entries[n], n)'
  <2>1. PICK r : r = entries'[n]
    OBVIOUS
  <2>2. Sound(r, n)'
    <3>1. CASE n = Len(entries) + 1
      <4>1. Sound(r, n)
        BY <1>1, <1>3, <2>1, <3>1 DEF C!IsReceipt
      <4> QED
        BY <1>1, <1>2, <3>1, <4>1
    <3>2. CASE n # Len(entries) + 1
      <4>1. n \in DOMAIN entries /\ C!IsReceipt(n) /\ n \in Nat /\ n <= Len(entries) + 1
        BY <1>1, <1>3, <3>2 DEF C!IsReceipt
      <4>2. Sound(r, n)
        BY <1>1, <2>1, <4>1 DEF ReceiptsInv
      <4> QED
        BY <1>2, <4>1, <4>2
    <3> QED
      BY <3>1, <3>2
  <2> QED
    BY <2>1, <2>2 DEF Sound
<1>4. ASSUME NEW p \in Issuers, issuing'[p] # C!Idle
      PROVE  Sound(issuing[p], Len(entries) + 1)'
  <2>1. PICK r, n : r = issuing[p] /\ n = Len(entries) + 1
    OBVIOUS
  <2>2. r = issuing'[p] /\ Sound(r, n)
    BY <1>4, <2>1 DEF ReceiptsInv
  <2>3. Len(entries') + 1 = n + 1 /\ n \in Nat
    BY <1>1, <2>1
  <2>4. Sound(r, n)'
    BY <1>1, <1>2, <2>1, <2>2
  <2>5. Sound(r, n + 1)'
    BY <2>3, <2>4 DEF Sound
  <2> QED
    BY <2>2, <2>3, <2>5 DEF Sound
<1> QED
  BY <1>1, <1>3, <1>4 DEF ReceiptsInv, C!Idle

\* ReceiptsInv is inductive.
LEMMA ReceiptsStep == ReceiptsInv /\ [C!Next]_C!vars => ReceiptsInv'
<1> SUFFICES ASSUME ReceiptsInv, [C!Next]_C!vars PROVE ReceiptsInv'
  OBVIOUS
<1>0. PICK Rows : entries \in Seq(Rows)
  BY DEF ReceiptsInv
<1>1. DOMAIN entries = 1..Len(entries) /\ Len(entries) \in Nat
  BY <1>0
<1>2. CASE C!EraseContract
  <2>1. entries' = Append(entries, C!Other) /\ issuing' = issuing
    BY <1>2 DEF C!EraseContract
  <2> QED
    BY <2>1, AppendKeeps DEF C!Other
<1>3. ASSUME NEW p \in Issuers, C!StoreContract(p) PROVE ReceiptsInv'
  <2>1. entries' = Append(entries, C!Other) /\ issuing' = issuing
    BY <1>3 DEF C!StoreContract
  <2> QED
    BY <2>1, AppendKeeps DEF C!Other
<1>4. ASSUME NEW p \in Issuers, C!Restart(p) PROVE ReceiptsInv'
  BY <1>4 DEF C!Restart, ReceiptsInv, Sound, C!IsReceipt, C!SameLineage
<1>5. ASSUME NEW p \in Issuers, C!Issue(p) PROVE ReceiptsInv'
  <2>1. PICK e : e = issuing[p]
    OBVIOUS
  <2>2. entries' = Append(entries, e) /\ Sound(e, Len(entries) + 1)
    BY <1>5, <2>1 DEF C!Issue, ReceiptsInv
  <2>3. \A q \in Issuers : issuing'[q] \in {issuing[q], C!Idle}
    BY <1>5 DEF C!Issue, ReceiptsInv
  <2> QED
    BY <2>2, <2>3, AppendKeeps
<1>6. ASSUME NEW p \in Issuers, C!Check(p) PROVE ReceiptsInv'
  <2>1. PICK from \in contracts, to \in contracts, prior \in 0..Len(entries) :
          LET r == [kind |-> "receipt", from |-> from, to |-> to, prior |-> prior,
                    checked |-> Len(entries)]
          IN  C!BaselineValid(r, Len(entries) + 1) /\ issuing' = [issuing EXCEPT ![p] = r]
    BY <1>6 DEF C!Check
  <2> DEFINE r == [kind |-> "receipt", from |-> from, to |-> to, prior |-> prior,
                   checked |-> Len(entries)]
  <2>2. /\ r.kind = "receipt" /\ r.prior = prior /\ r.checked = Len(entries)
        /\ C!BaselineValid(r, Len(entries) + 1)
        /\ issuing' = [issuing EXCEPT ![p] = r]
        /\ entries' = entries
    BY <1>6, <2>1 DEF C!Check
  <2> HIDE DEF r
  <2>3. Sound(r, Len(entries) + 1)
    BY <1>1, <2>2 DEF Sound, C!BaselineValid, C!Earlier, C!Genesis
  <2>4. \A q \in Issuers : issuing'[q] \in {issuing[q], r}
    BY <2>2
  <2>5. \A q \in Issuers : issuing'[q] # C!Idle => Sound(issuing'[q], Len(entries) + 1)
    BY <2>3, <2>4 DEF ReceiptsInv
  <2> QED
    BY <2>2, <2>5 DEF ReceiptsInv, Sound, C!IsReceipt, C!SameLineage
<1>7. CASE UNCHANGED C!vars
  BY <1>7 DEF C!vars, ReceiptsInv, Sound, C!IsReceipt, C!SameLineage
<1> QED
  BY <1>2, <1>3, <1>4, <1>5, <1>6, <1>7 DEF C!Next

\* An issued receipt verifies, unless it claims to be the first of its lineage and
\* another receipt of the lineage came between its check and its row
\* (continuity/service.py): for any issuers, routes and logs.
THEOREM ReceiptsVerify == UnionSpec => []OnlyRacedFail
<1>1. C!Init => ReceiptsInv
  BY DEF C!Init, ReceiptsInv
<1>2. ReceiptsInv => C!OnlyRacedFail
  <2> SUFFICES ASSUME ReceiptsInv, NEW n \in DOMAIN entries, C!IsReceipt(n), ~C!Verifies(n)
               PROVE  /\ entries[n].prior = C!Genesis
                      /\ \E k \in (entries[n].checked + 1)..(n - 1) :
                            C!IsReceipt(k) /\ C!SameLineage(entries[k], entries[n])
    BY DEF C!OnlyRacedFail
  <2>1. n \in Nat /\ Sound(entries[n], n)
    BY DEF ReceiptsInv
  <2>2. entries[n].prior = 0
    BY <2>1 DEF Sound, C!Verifies, C!BaselineValid, C!Genesis
  <2>3. PICK k \in 1..(n - 1) : C!IsReceipt(k) /\ C!SameLineage(entries[k], entries[n])
    BY <2>2 DEF C!Verifies, C!BaselineValid, C!Earlier, C!Genesis
  <2>4. k \notin 1..entries[n].checked
    BY <2>1, <2>2, <2>3 DEF Sound
  <2>5. k \in (entries[n].checked + 1)..(n - 1)
    BY <2>1, <2>4 DEF Sound
  <2> QED
    BY <2>2, <2>3, <2>5 DEF C!Genesis
<1> QED
  BY <1>1, <1>2, ReceiptsStep, ContinuityPart, PTL DEF C!Spec, OnlyRacedFail
================================================================================
