--------------------------------- MODULE Canary ---------------------------------
(***************************************************************************)
(* RecallEngine.verify_roundtrip of recall_service.py: write a canary      *)
(* memory under a subject of its own, wait until recall finds it, erase    *)
(* it, and cache the verdict.  Each server process holds its engine's lock *)
(* all the while; several processes may serve the same store.              *)
(***************************************************************************)
EXTENDS Naturals, FiniteSets

CONSTANTS
    Servers,  \* server processes
    Markers,  \* canary markers, never used twice
    TTL,      \* _roundtrip_cache_seconds
    MaxAge    \* bound on ages, above TTL

VARIABLES
    rows,     \* markers whose canary is stored in the canary tenant
    used,     \* markers handed out
    job,      \* the lifecycle each server runs
    cache,    \* _verify_roundtrip_cache and its age
    proven,   \* history: age of the server's last complete proof, or MaxAge
    excused,  \* history: markers whose erasure failed or was cut off by a crash
    answer    \* the last answer: "none", "ok", "bad" or "error"

vars == <<rows, used, job, cache, proven, excused, answer>>

Idle == [at |-> "idle"]
Empty == [at |-> "empty"]
Job == {Idle} \cup [at : {"write", "recall"}, marker : Markers]
       \cup [at : {"cleanup"}, marker : Markers, found : BOOLEAN, raising : BOOLEAN]

TypeOK ==
    /\ rows \subseteq used /\ used \subseteq Markers /\ excused \subseteq used
    /\ job \in [Servers -> Job]
    /\ cache \in [Servers -> {Empty} \cup [at : {"set"}, ok : BOOLEAN, age : 0..MaxAge]]
    /\ proven \in [Servers -> 0..MaxAge]
    /\ answer \in [Servers -> {"none", "ok", "bad", "error"}]

Init ==
    /\ rows = {} /\ used = {} /\ excused = {}
    /\ job = [s \in Servers |-> Idle]
    /\ cache = [s \in Servers |-> Empty]
    /\ proven = [s \in Servers |-> MaxAge]
    /\ answer = [s \in Servers |-> "none"]

Verdict(ok) == IF ok THEN "ok" ELSE "bad"

\* Mutant of Fresh: a verdict never gets old.
FreshForever(s) == cache[s].at = "set" /\ TTL > 0

Fresh(s) == cache[s].at = "set" /\ TTL > 0 /\ cache[s].age < TTL

Cached(s) ==
    /\ job[s] = Idle
    /\ Fresh(s)
    /\ answer' = [answer EXCEPT ![s] = Verdict(cache[s].ok)]
    /\ UNCHANGED <<rows, used, job, cache, proven, excused>>

Begin(s) ==
    /\ job[s] = Idle
    /\ ~Fresh(s)
    /\ \E m \in Markers \ used :
         /\ used' = used \cup {m}
         /\ job' = [job EXCEPT ![s] = [at |-> "write", marker |-> m]]
    /\ answer' = [answer EXCEPT ![s] = "none"]
    /\ UNCHANGED <<rows, cache, proven, excused>>

ToCleanup(s, found, raising) ==
    job' = [job EXCEPT ![s] =
        [at |-> "cleanup", marker |-> job[s].marker, found |-> found, raising |-> raising]]

\* remember: it may raise before or after the row is stored.
Write(s) ==
    /\ job[s].at = "write"
    /\ \/ /\ rows' = rows \cup {job[s].marker}
          /\ job' = [job EXCEPT ![s].at = "recall"]
       \/ /\ rows' \in {rows, rows \cup {job[s].marker}}
          /\ ToCleanup(s, FALSE, TRUE)
    /\ UNCHANGED <<used, cache, proven, excused, answer>>

\* The loop ends when the canary is found, at the deadline, or on an error.
Recall(s) ==
    /\ job[s].at = "recall"
    /\ \E found \in BOOLEAN :
         /\ found => job[s].marker \in rows
         /\ ToCleanup(s, found, FALSE)
    /\ UNCHANGED <<rows, used, cache, proven, excused, answer>>

\* Mutant of Erased: the finally clause does not run when remember raised.
ErasedUnlessRaising(s, done) ==
    IF done /\ ~job[s].raising THEN rows \ {job[s].marker} ELSE rows

Erased(s, done) == IF done THEN rows \ {job[s].marker} ELSE rows

\* Mutant of Proof: what recall found decides.
ProofOfRecall(s, done) == job[s].found

Proof(s, done) == job[s].found /\ done

\* forget in the finally clause, done unless it raises; then the cache, unless
\* remember raised.
Cleanup(s) ==
    /\ job[s].at = "cleanup"
    /\ \E done \in BOOLEAN :
         /\ rows' = Erased(s, done)
         /\ excused' = IF done THEN excused ELSE excused \cup {job[s].marker}
         /\ IF job[s].raising
            THEN /\ answer' = [answer EXCEPT ![s] = "error"]
                 /\ UNCHANGED <<cache, proven>>
            ELSE /\ answer' = [answer EXCEPT ![s] = Verdict(Proof(s, done))]
                 /\ cache' = [cache EXCEPT ![s] =
                        [at |-> "set", ok |-> Proof(s, done), age |-> 0]]
                 /\ proven' = [proven EXCEPT ![s] = IF job[s].found /\ done THEN 0 ELSE @]
    /\ job' = [job EXCEPT ![s] = Idle]
    /\ UNCHANGED used

Crash(s) ==
    /\ excused' = IF job[s] = Idle THEN excused ELSE excused \cup {job[s].marker}
    /\ job' = [job EXCEPT ![s] = Idle]
    /\ cache' = [cache EXCEPT ![s] = Empty]
    /\ proven' = [proven EXCEPT ![s] = MaxAge]
    /\ answer' = [answer EXCEPT ![s] = "none"]
    /\ UNCHANGED <<rows, used>>

Older(age) == IF age < MaxAge THEN age + 1 ELSE age

Tick ==
    /\ cache' = [s \in Servers |->
          IF cache[s] = Empty THEN Empty ELSE [cache[s] EXCEPT !.age = Older(@)]]
    /\ proven' = [s \in Servers |-> Older(proven[s])]
    /\ answer' = [s \in Servers |-> "none"]
    /\ UNCHANGED <<rows, used, job, excused>>

Next ==
    \/ \E s \in Servers :
         Cached(s) \/ Begin(s) \/ Write(s) \/ Recall(s) \/ Cleanup(s) \/ Crash(s)
    \/ Tick

Spec == Init /\ [][Next]_vars

(***************************************************************************)
(* Properties.                                                             *)
(***************************************************************************)
\* A canary outlives its lifecycle only if its erasure failed or its process died: no
\* path through the round trip, its errors included, leaves one.  And "ok" is answered
\* only with a proof, write to erasure, that is younger than the TTL.
RoundTripKept ==
    /\ \A m \in rows \ excused : \E s \in Servers : job[s] # Idle /\ job[s].marker = m
    /\ \A s \in Servers : answer[s] = "ok" => proven[s] = 0 \/ proven[s] < TTL
================================================================================
