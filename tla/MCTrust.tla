-------------------------------- MODULE MCTrust --------------------------------
(***************************************************************************)
(* What the trust of a recalled memory rests on, as one state machine for  *)
(* TLC: a behaviour is one of ReviewLifecycle, with approvers and the      *)
(* verbs about one row but transition_review, or one call of               *)
(* RecallRanking, which weighs what is approved, while the other rests in  *)
(* one of its initial states.                                              *)
(***************************************************************************)
EXTENDS ReviewLifecycle, Integers, Sequences, TLC

CONSTANTS NumCandidates, Truths, Confidences, MaxK    \* RecallRanking

Logits == {-1, 1}

VARIABLES
    part,
    candidates, typed, limit, returned, results

ranking == <<candidates, typed, limit, returned, results>>

K == INSTANCE RecallRanking WITH k <- limit, done <- returned

UnionInit ==
    /\ part \in {"review", "ranking"}
    /\ Init
    /\ IF part = "ranking" THEN K!Init
       ELSE /\ candidates = <<>> /\ typed = FALSE /\ limit = 1
            /\ returned = FALSE /\ results = <<>>

UnionNext ==
    \/ part = "review" /\ Next /\ UNCHANGED <<part, ranking>>
    \/ part = "ranking" /\ K!Next /\ UNCHANGED <<part, vars>>

UnionSpec == UnionInit /\ [][UnionNext]_<<part, vars, ranking>>

Symmetry == Permutations(Procs)

\* Typed recall ranks by relevance, trust and certainty: see RecallRanking.
RankedByTrust == K!RankedByTrust
================================================================================
