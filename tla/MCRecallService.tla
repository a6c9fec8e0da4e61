---------------------------- MODULE MCRecallService ----------------------------
(***************************************************************************)
(* The recall service, as one state machine for TLC: a behaviour is one of *)
(* RecallServer, with the fairness of its threads, or of the RateLimiter,  *)
(* MemoryWatchdog or Canary of the service, while the others rest in one   *)
(* of their initial states.                                                *)
(***************************************************************************)
EXTENDS RecallServer, Sequences

CONSTANTS
    Workers, Limit, MaxTime,        \* RateLimiter
    Samples, Windows, Gaps,         \* MemoryWatchdog
    Servers, Markers, TTL, MaxAge   \* Canary

Credentials == {"slow", "fast"}
WindowOf == [c \in Credentials |-> IF c = "fast" THEN 2 ELSE 3]

ASSUME ServiceConstants ==
    /\ IsFiniteSet(Workers) /\ Workers # {} /\ {Limit, MaxTime} \subseteq Nat
    /\ Samples \in Nat \ {0} /\ Windows \subseteq Nat /\ Gaps \subseteq Nat /\ Gaps # {}
    /\ {TTL, MaxAge} \subseteq Nat

VARIABLES
    part,
    now, hits, entering, admitted,
    window, alive, sustained, warned, overs, breach,
    canaries, used, check, cache, proven, excused, answer

limiter == <<now, hits, entering, admitted>>
memory  == <<window, alive, sustained, warned, overs, breach>>
canary  == <<canaries, used, check, cache, proven, excused, answer>>

L == INSTANCE RateLimiter
M == INSTANCE MemoryWatchdog
C == INSTANCE Canary WITH rows <- canaries, job <- check

UnionInit ==
    /\ part \in {"server", "limiter", "memory", "canary"}
    /\ Init /\ L!Init /\ M!Init /\ C!Init
    /\ part # "memory" => window = CHOOSE w \in Windows : TRUE

UnionNext ==
    \/ part = "server" /\ Next /\ UNCHANGED <<part, limiter, memory, canary>>
    \/ part = "limiter" /\ L!Next /\ UNCHANGED <<part, vars, memory, canary>>
    \/ part = "memory" /\ M!Next /\ UNCHANGED <<part, vars, limiter, canary>>
    \/ part = "canary" /\ C!Next /\ UNCHANGED <<part, vars, limiter, memory>>

ServiceVars == <<part, vars, limiter, memory, canary>>

UnionSpec == UnionInit /\ [][UnionNext]_ServiceVars

\* The fairness of RecallServer, in the behaviours that are the server's.
ServerFairness ==
    /\ \A t \in Threads : WF_vars(part = "server" /\ Steps(t))
    /\ WF_vars(part = "server" /\ listener # "down" /\ \E t \in Threads : Lock(t))
    /\ WF_vars(part = "server" /\ Wake)
    /\ WF_vars(part = "server" /\ listener # "down" /\ ProbeTimeout)
    /\ WF_vars(part = "server" /\ ProbeOk)
    /\ WF_vars(part = "server" /\ ProbeFailed)
    /\ WF_vars(part = "server" /\ Restart)

FairUnionSpec == UnionSpec /\ ServerFairness

\* No window of a credential admits more than its limit allows: see RateLimiter.
WindowBounded == L!WindowBounded

\* A sustained breach, and only that, ends the process: see MemoryWatchdog.
RestartsWhenSustained == M!RestartsWhenSustained

\* No canary is left behind, and "ok" rests on a fresh proof: see Canary.
RoundTripKept == C!RoundTripKept
================================================================================
