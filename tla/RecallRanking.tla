----------------------------- MODULE RecallRanking -----------------------------
(***************************************************************************)
(* How recall() orders the candidates a principal may see: the order of    *)
(* the reranker, of which copies of one file in two memory roots collapse  *)
(* to one (retrieval.py, fuse_rerank), and in typed mode the order of the  *)
(* score weighed by truth status and confidence (typed_ranking.py), cut to *)
(* k results (client.py).                                                  *)
(*                                                                         *)
(* There are no more candidates than topc, so all of them are reranked.    *)
(* Weights are in hundredths; kinds, entities, spans and ages are the same *)
(* for all candidates and change no order.                                 *)
(***************************************************************************)
EXTENDS Integers, Sequences, FiniteSets, SequencesExt, FiniteSetsExt

CONSTANTS
    NumCandidates,  \* ids are 1..NumCandidates, in the order of their names
    Logits,         \* scores of the reranker
    Truths,         \* truth statuses that occur
    Confidences,    \* confidences that occur, in hundredths
    MaxK            \* bound on k

Ids == 1..NumCandidates

\* _mirror_family: a memory of a file in one of the mirrored roots, or of none.
Roots == {"none", "memory", "team-memory"}

Candidate == [base : Logits, root : Roots, truth : Truths, confidence : Confidences]

VARIABLES
    candidates, typed, k,   \* the call
    done, results           \* whether it has returned, and what

vars == <<candidates, typed, k, done, results>>

Init ==
    /\ candidates \in [Ids -> Candidate]
    /\ typed \in BOOLEAN
    /\ k \in 1..MaxK
    /\ done = FALSE
    /\ results = <<>>

(***************************************************************************)
(* typed_adjusted_score.                                                   *)
(***************************************************************************)

\* Mutant of Normalized: the reranker's score as it is.
NormalizedNot(base) == base

\* The logistic function: positive, and increasing with the score.
Normalized(base) == CASE base < 0 -> 27 [] base = 0 -> 50 [] OTHER -> 73

\* TRUTH_WEIGHTS.
TruthWeight(truth) ==
    CASE truth \in {"source_observed", "human_approved"} -> 100
      [] truth = "generated_supported" -> 92
      [] truth = "inferred" -> 52
      [] truth = "generated_needs_review" -> 40

\* float(confidence or 1.0): a confidence of zero counts as certainty.
Confidence(c) == IF c.confidence = 0 THEN 100 ELSE c.confidence

TypedScore(i) ==
    Normalized(candidates[i].base) * TruthWeight(candidates[i].truth) * Confidence(candidates[i])

(***************************************************************************)
(* fuse_rerank.                                                            *)
(***************************************************************************)
InFamily(i) == candidates[i].root # "none"
Rank(i) == CASE candidates[i].root = "memory" -> 0
             [] candidates[i].root = "team-memory" -> 1
             [] OTHER -> 2

\* With a mirrored file among the candidates ties go by root, then by name;
\* without one np.argsort leaves them in any order.
Precedes(i, j) ==
    LET a == candidates[i].base
        b == candidates[j].base
    IN \/ a > b
       \/ a = b /\ Rank(i) < Rank(j)
       \/ a = b /\ Rank(i) = Rank(j) /\ i < j

Orders ==
    IF \E i \in Ids : InFamily(i)
    THEN {SetToSortSeq(Ids, Precedes)}
    ELSE {o \in SetToSeqs(Ids) : \A m, n \in Ids :
            m < n => candidates[o[m]].base >= candidates[o[n]].base}

\* Mutant of Collapsed: a copy is dropped only right behind the one kept.
CollapsedNext(order) ==
    LET Kept(n) == n = 1 \/ ~InFamily(order[n]) \/ ~InFamily(order[n - 1])
    IN [n \in 1..Len(SelectSeq([m \in DOMAIN order |-> m], Kept)) |->
           order[SelectSeq([m \in DOMAIN order |-> m], Kept)[n]]]

\* Of the mirrored file's copies only the first is kept.
Collapsed(order) ==
    LET Kept(i) == ~InFamily(i) \/ \A m, n \in DOMAIN order :
                      order[n] = i /\ m < n => ~InFamily(order[m])
    IN SelectSeq(order, Kept)

Cut(order) == SubSeq(order, 1, Min({k, Len(order)}))

\* recall(), in typed mode: sorted by (-score, id) after collapsing, then cut.
TypedOrder(order) ==
    SetToSortSeq(ToSet(order), LAMBDA i, j :
        TypedScore(i) > TypedScore(j) \/ (TypedScore(i) = TypedScore(j) /\ i < j))

Recall ==
    /\ ~done /\ done' = TRUE
    /\ \E order \in Orders :
         results' = Cut(IF typed THEN TypedOrder(Collapsed(order)) ELSE Collapsed(order))
    /\ UNCHANGED <<candidates, typed, k>>

Next == Recall

Spec == Init /\ [][Next]_vars

--------------------------------------------------------------------------------
(***************************************************************************)
(* Properties.                                                             *)
(***************************************************************************)

\* i is at least as relevant, trusted and certain as j, and more in one of them.
Better(i, j) ==
    LET a == candidates[i]
        b == candidates[j]
        Truth(c) == TruthWeight(c.truth)
    IN /\ a.base >= b.base /\ Truth(a) >= Truth(b) /\ Confidence(a) >= Confidence(b)
       /\ a.base > b.base \/ Truth(a) > Truth(b) \/ Confidence(a) > Confidence(b)

Position(i) == CHOOSE n \in DOMAIN results : results[n] = i

\* In typed mode a downweight for truth status or confidence never raises a
\* candidate, relevant or not (CHANGELOG.md, typed-ranking-negative-base): a better
\* candidate is ahead of a worse one or is a copy of a mirrored file whose other
\* copy stands for it.  And of a mirrored file's copies one at most is shown, which
\* costs no slot: with k results missing, every file that was found is shown.
RankedByTrust ==
    done =>
        /\ \A i, j \in Ids : typed /\ Better(i, j) /\ ~InFamily(i) /\ j \in ToSet(results) =>
             i \in ToSet(results) /\ Position(i) < Position(j)
        /\ Cardinality({i \in ToSet(results) : InFamily(i)}) <= 1
        /\ Len(results) < k =>
             /\ \A i \in Ids : ~InFamily(i) => i \in ToSet(results)
             /\ (\E i \in Ids : InFamily(i)) => \E i \in ToSet(results) : InFamily(i)
================================================================================
