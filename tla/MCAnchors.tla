------------------------------- MODULE MCAnchors -------------------------------
(***************************************************************************)
(* Small instances of Anchors for TLC.                                     *)
(***************************************************************************)
EXTENDS Anchors, TLC

\* Next, less what Events leaves out of the run of the cadence: nobody anchors
\* by hand, so the cadence never finds an empty chain; no process dies and no
\* file is lost or restored.
CadenceNext ==
    \/ \E p \in Procs : AppendRow(p) \/ PinStart(p) \/ TimerFires(p) \/ BackoffElapses(p)
    \/ \E w \in Writers :
        \/ CadenceDue(w) \/ CadenceFresh(w) \/ CadenceBackoff(w)
        \/ TakeHead(w) \/ ReadSink(w)
        \/ CheckNew(w) \/ CheckReached(w) \/ CheckRefused(w)
        \/ SinkAppend(w) \/ SinkRefuses(w) \/ RecordHead(w) \/ Look(w)
        \/ DecideOk(w) \/ DecideWriteFailed(w) \/ DecideDegraded(w)
        \/ ClearFailure(w) \/ Finish(w)
    \/ IntervalElapses

CadenceSpec == Init /\ [][CadenceNext]_vars /\ Fairness

Symmetry == Permutations(Procs) \cup Permutations(Digests)
================================================================================
