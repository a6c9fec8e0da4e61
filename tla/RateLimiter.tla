------------------------------- MODULE RateLimiter -------------------------------
(***************************************************************************)
(* RecallRateLimiter of recall_service.py: a deque of admission times per  *)
(* credential, shared by the handler threads.  check() reads the clock     *)
(* before it takes the lock, so that a thread may enter with a time that   *)
(* is older than what the deque already holds.                             *)
(***************************************************************************)
EXTENDS Naturals, Sequences, FiniteSets

CONSTANTS
    Workers,      \* handler threads
    Credentials,  \* token digests
    Limit,        \* rate_limit_requests of every credential
    WindowOf,     \* rate_limit_window_s of each credential
    MaxTime       \* bound on the clock

VARIABLES
    now,        \* time.monotonic()
    hits,       \* the deque of each credential; empty if it has no bucket
    entering,   \* the credential and clock reading each thread holds
    admitted    \* history: the admissions: the clock reading, numbered apart

vars == <<now, hits, entering, admitted>>

Outside == [cred |-> "none", at |-> 0]

TypeOK ==
    /\ now \in 0..MaxTime
    /\ hits \in [Credentials -> Seq(0..MaxTime)]
    /\ \A c \in Credentials : Len(hits[c]) <= Limit
    /\ entering \in [Workers -> [cred : Credentials, at : 0..MaxTime] \cup {Outside}]
    /\ admitted \in [Credentials -> SUBSET ((0..MaxTime) \X Nat)]

Init ==
    /\ now = 0
    /\ hits = [c \in Credentials |-> <<>>]
    /\ entering = [w \in Workers |-> Outside]
    /\ admitted = [c \in Credentials |-> {}]

Expired(t, hit, c) == t >= hit + WindowOf[c]

\* Entries leave from the left up to the first that has not expired.
Trim(q, t, c) ==
    LET gone == {n \in 0..Len(q) : \A i \in 1..n : Expired(t, q[i], c)}
    IN SubSeq(q, (CHOOSE n \in gone : \A k \in gone : k <= n) + 1, Len(q))

\* Mutant of Evicted: the caller's window decides for every bucket.
EvictedByCaller(t, c) == [d \in Credentials |-> Trim(hits[d], t, c)]

\* _evict_expired: each bucket by its own window, then its own loop in check.
Evicted(t, c) == [d \in Credentials |-> Trim(hits[d], t, d)]

Tick ==
    /\ now < MaxTime
    /\ now' = now + 1
    /\ UNCHANGED <<hits, entering, admitted>>

\* authenticate, and the clock.
Enter(w) ==
    /\ entering[w] = Outside
    /\ \E c \in Credentials : entering' = [entering EXCEPT ![w] = [cred |-> c, at |-> now]]
    /\ UNCHANGED <<now, hits, admitted>>

\* Mutant of Full: one too many.
FullLate(q) == Len(q) > Limit

Full(q) == Len(q) >= Limit

\* The next admission with this reading.
Admission(c, t) == <<t, Cardinality({a \in admitted[c] : a[1] = t}) + 1>>

Check(w) ==
    LET c == entering[w].cred
        t == entering[w].at
        kept == Evicted(t, c)
    IN /\ entering[w] # Outside
       /\ entering' = [entering EXCEPT ![w] = Outside]
       /\ IF Full(kept[c])
          THEN /\ hits' = kept
               /\ UNCHANGED admitted
          ELSE /\ hits' = [kept EXCEPT ![c] = Append(@, t)]
               /\ admitted' = [admitted EXCEPT ![c] = @ \cup {Admission(c, t)}]
       /\ UNCHANGED now

Next == Tick \/ \E w \in Workers : Enter(w) \/ Check(w)

Spec == Init /\ [][Next]_vars

(***************************************************************************)
(* Properties.                                                             *)
(***************************************************************************)
\* The admissions with a reading in the window that ends with t.
InWindow(c, t) == {a \in admitted[c] : a[1] <= t /\ ~Expired(t, a[1], c)}

\* No window admits more than the limit, plus one for each other thread that
\* may still hold an older clock reading: a newer check may have trimmed the
\* entries such a reading should have been compared with.
WindowBounded ==
    \A c \in Credentials, t \in 0..MaxTime :
        Cardinality(InWindow(c, t)) <= Limit + Cardinality(Workers) - 1
================================================================================
