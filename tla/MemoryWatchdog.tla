----------------------------- MODULE MemoryWatchdog -----------------------------
(***************************************************************************)
(* The memory watchdog of recall_service.py.  It keeps the times of at     *)
(* most Samples samples over the ceiling, in a row, and ends the process   *)
(* when they are that many and span the window.                         *)
(***************************************************************************)
EXTENDS Naturals, Sequences

CONSTANTS
    Samples,        \* HEARTWOOD_RECALL_RSS_SUSTAIN_SAMPLES, also the deque's maxlen
    Windows,        \* values of HEARTWOOD_RECALL_RSS_SUSTAIN_WINDOW_SEC
    Gaps            \* how long one round of the watchdog may take

VARIABLES
    window,     \* sustain_window_s, read once
    alive,      \* os._exit(75) has not been called
    sustained,  \* ages of the samples in the deque
    warned,     \* a soft warning has been captured
    overs,      \* history: samples over the ceiling in a row
    breach      \* history: how long ago that run began

vars == <<window, alive, sustained, warned, overs, breach>>

\* No sample can be taken, or how it compares with the warning and the ceiling.
Level == {"unavailable", "low", "warn", "over"}

TypeOK ==
    /\ window \in Windows
    /\ alive \in BOOLEAN
    /\ sustained \in Seq(Nat) /\ Len(sustained) <= Samples
    /\ warned \in BOOLEAN
    /\ overs \in 0..(Samples + 1)
    /\ breach \in Nat

Init ==
    /\ window \in Windows
    /\ alive = TRUE
    /\ sustained = <<>>
    /\ warned = FALSE
    /\ overs = 0
    /\ breach = 0

\* Mutant of Kept: no maxlen.
KeptAll(q) == q

\* deque(maxlen=Samples): the oldest leaves.
Kept(q) == IF Len(q) > Samples THEN Tail(q) ELSE q

\* Mutant of Sustained: the number of samples is enough.
SustainedAnyhow(q) == Len(q) >= Samples

Sustained(q) == Len(q) >= Samples /\ (Samples <= 1 \/ q[1] >= window)

Sample ==
    /\ alive
    /\ \E level \in Level, gap \in Gaps :
         LET aged == [i \in DOMAIN sustained |-> sustained[i] + gap]
             kept == Kept(Append(aged, 0))
         IN /\ warned' = (level \in {"warn", "over"})
            /\ sustained' = IF level = "over" THEN kept ELSE <<>>
            /\ overs' = IF level # "over" THEN 0 ELSE IF overs > Samples THEN overs ELSE overs + 1
            /\ breach' = IF level # "over" \/ overs = 0 THEN 0
                         ELSE IF breach > window THEN breach ELSE breach + gap
            /\ alive' = ~(level = "over" /\ Sustained(kept))
            /\ UNCHANGED window

\* The supervisor starts a new process.
Restart ==
    /\ ~alive
    /\ alive' = TRUE
    /\ sustained' = <<>>
    /\ warned' = FALSE
    /\ overs' = 0
    /\ breach' = 0
    /\ UNCHANGED window

Next == Sample \/ Restart
Spec == Init /\ [][Next]_vars

(***************************************************************************)
(* Properties.                                                             *)
(***************************************************************************)
Least(S) == CHOOSE n \in S : \A k \in S : n <= k

\* The process ends on the first sample that completes a sustained breach, and
\* only then: a deque that forgets old samples still spans the window, if the
\* samples it keeps can span it at all.  A single sample is enough if it is all the
\* configuration asks for.
RestartsWhenSustained ==
    /\ ~alive => overs >= Samples /\ (Samples <= 1 \/ breach >= window)
    /\ alive /\ overs >= Samples => (Samples - 1) * Least(Gaps) < window
================================================================================
