-------------------------------- MODULE Anchors --------------------------------
(***************************************************************************)
(* Audit anchoring: AnchorWriter and LocalFileAnchorSink of anchors.py and *)
(* the sink head and failure receipt they keep in store_metadata.          *)
(*                                                                         *)
(* Every process runs a foreground writer, called after each audit append, *)
(* and a background one on a timer thread; all of them share one database  *)
(* and one sink file.  Appends and reads of the sink are serialised by the *)
(* file lock; what a writer does between two of them, or between the sink  *)
(* and the database, other writers interleave with.                        *)
(*                                                                         *)
(* A row's hash binds all rows before it, so a row is the prefix of the    *)
(* chain it ends.  Rows appended after a restore of the database differ    *)
(* from the ones they replace.  The clock is reduced to one fact: which    *)
(* anchors are older than the interval.  Signatures are always valid.      *)
(***************************************************************************)
EXTENDS Naturals, Sequences, SequencesExt, FiniteSets

CONSTANTS
    Procs,      \* processes that write audit rows and anchor them
    Background, \* background_time_cadence: a second writer on a timer thread
    Manifests,  \* strict-cutover manifests that may be pinned
    Digests,    \* their digests
    EveryN,     \* row cadence: HEARTWOOD_ANCHOR_EVERY_N_ROWS
    MaxRows,    \* bound on the length of the chain
    Events,     \* what a run includes besides audit appends
    NoRecord    \* no sink head recorded yet

ASSUME AnchorAssumptions ==
    /\ Background \in BOOLEAN
    /\ EveryN \in Nat \ {0}
    /\ MaxRows \in Nat
    /\ Events \subseteq {"anchor", "pin", "outage", "crash", "restore", "cut"}

VARIABLES
    chain,     \* audit_log: per row, whether it follows a restore
    recorded,  \* store_metadata anchor_sink_head
    failed,    \* store_metadata anchor_failure is set
    sink,      \* the records of the sink file
    job,       \* what each writer is doing
    timer,     \* per process: {} or {the anchor whose interval the timer waits out}
    backoff,   \* per process: the retry backoff has not elapsed
    aged,      \* anchors of rows up to this one are older than the interval
    backup,    \* a copy of the database: <<>>, or chain, recorded and failed
    acked,     \* history: rows for which anchor() returned ok
    loss       \* history: what a rollback lost, see Restore and SinkCut

vars == <<chain, recorded, failed, sink, job, timer, backoff, aged, backup, acked, loss>>

\* Timers that wait for no anchor: a retry that is due, and one that becomes due
\* when the backoff of the failed write elapses.
RetryDue   == 0
RetryWaits == MaxRows + 1

Writers == Procs \X {"fg", "bg"}

Anchor(row) == [kind |-> "anchor", row |-> row]
Pin(m, d)   == [kind |-> "pin", manifest |-> m, digest |-> d]

Row    == SeqOf(0..1, MaxRows)
Record == [kind : {"anchor"}, row : Row] \cup [kind : {"pin"}, manifest : Manifests, digest : Digests]

Idle == [at |-> "idle"]

TypeOK ==
    /\ chain \in Row
    /\ recorded \in Record \cup {NoRecord}
    /\ failed \in BOOLEAN
    /\ \A i \in DOMAIN sink : sink[i] \in Record
    /\ \A w \in Writers :
        \/ job[w] = Idle
        \/ job[w].at \in {"cadence", "head"} /\ job[w].cadence \in BOOLEAN
        \/ /\ job[w].at \in {"read", "check", "append", "record", "look", "reread",
                             "decide", "clear", "finish"}
           /\ job[w].goal \in Record
           /\ job[w].wrote \in BOOLEAN
    /\ \A p \in Procs : timer[p] \subseteq 0..RetryWaits /\ Cardinality(timer[p]) <= 1
    /\ backoff \in [Procs -> BOOLEAN]
    /\ aged \in 0..MaxRows
    /\ acked \subseteq Row
    /\ loss \in {"none", "rows", "chain", "tail", "sink"}

Init ==
    /\ chain = <<>>
    /\ recorded = NoRecord
    /\ failed = FALSE
    /\ sink = <<>>
    /\ job = [w \in Writers |-> Idle]
    /\ timer = [p \in Procs |-> {}]
    /\ backoff = [p \in Procs |-> FALSE]
    /\ aged = 0
    /\ backup = <<>>
    /\ acked = {}
    /\ loss = "none"

(***************************************************************************)
(* Records.                                                                *)
(***************************************************************************)
IsAnchor(rec) == rec.kind = "anchor"
AnchorsIn(recs) == {i \in DOMAIN recs : IsAnchor(recs[i])}
HasAnchor(recs) == AnchorsIn(recs) # {}
LatestRow(recs) == recs[Max(AnchorsIn(recs))].row

PinsOf(recs, m) == {i \in DOMAIN recs : recs[i].kind = "pin" /\ recs[i].manifest = m}

\* _validate_sink_records: a manifest is pinned once.
ValidRecords(recs) == \A m \in Manifests : \A i, j \in PinsOf(recs, m) : i = j

Increasing(recs) ==
    \A i, j \in AnchorsIn(recs) : i < j => Len(recs[i].row) < Len(recs[j].row)

\* Mutant: any recorded head will do.
HeadRecordedAny(recs) == recs # <<>> /\ recorded # NoRecord

\* The database records the digest of the last record of the sink.
HeadRecorded(recs) == recs # <<>> /\ recorded = Last(recs)

\* Mutant: an anchor that is young enough will do, however many rows follow it.
StaleByAge(recs, len) == len > Len(LatestRow(recs)) /\ Len(LatestRow(recs)) <= aged

\* Some rows are not anchored, and they are many or the latest anchor is old.
Stale(recs, len) ==
    /\ len > Len(LatestRow(recs))
    /\ len - Len(LatestRow(recs)) >= EveryN \/ Len(LatestRow(recs)) <= aged

\* What verify_chain_against_anchors checks before freshness.
Sound(recs, len) ==
    /\ ValidRecords(recs)
    /\ HasAnchor(recs)
    /\ Increasing(recs)
    /\ HeadRecorded(recs)
    /\ \A i \in DOMAIN recs : IsAnchor(recs[i]) => IsPrefix(recs[i].row, chain)
    /\ len >= Len(LatestRow(recs))

(***************************************************************************)
(* Timers.                                                                 *)
(***************************************************************************)

\* _schedule_timer: a timer that is still waiting is kept.
Scheduled(p, base) ==
    IF Background THEN [timer EXCEPT ![p] = IF @ = {} THEN {base} ELSE @] ELSE timer

\* _write_error persists the failure and starts the writer's backoff; after
\* maybe_anchor a retry is scheduled.  The timer thread's delay is its own; a
\* second failure in the foreground outlasts a retry scheduled before it.
Fail(w) ==
    LET p == w[1]
        retry == IF w[2] = "fg" THEN RetryWaits ELSE RetryDue
    IN  /\ failed' = TRUE
        /\ backoff' = IF w[2] = "fg" THEN [backoff EXCEPT ![p] = TRUE] ELSE backoff
        /\ timer' = IF w[2] = "fg" /\ RetryWaits \in timer[p]
                    THEN [timer EXCEPT ![p] = {RetryDue}]
                    ELSE IF job[w].cadence THEN Scheduled(p, retry) ELSE timer
        /\ job' = [job EXCEPT ![w] = Idle]
        /\ UNCHANGED <<chain, recorded, sink, aged, backup, acked, loss>>

Goto(w, at) ==
    /\ job' = [job EXCEPT ![w].at = at]
    /\ UNCHANGED <<chain, recorded, failed, sink, timer, backoff, aged, backup, acked, loss>>

(***************************************************************************)
(* Where a write starts.                                                   *)
(***************************************************************************)
\* An audit append, whose after_append hook is maybe_anchor().
AppendRow(p) ==
    /\ job[<<p, "fg">>] = Idle
    /\ Len(chain) < MaxRows
    /\ chain' = Append(chain, IF loss \in {"rows", "chain"} THEN 1 ELSE 0)
    /\ job' = [job EXCEPT ![<<p, "fg">>] = [at |-> "cadence", cadence |-> TRUE]]
    /\ UNCHANGED <<recorded, failed, sink, timer, backoff, aged, backup, acked, loss>>

\* _cadence_status, less the rows' hashes: anything but a fresh anchor is due.
Due ==
    ~ /\ ValidRecords(sink)
      /\ HasAnchor(sink)
      /\ Increasing(sink)
      /\ HeadRecorded(sink)
      /\ Len(chain) >= Len(LatestRow(sink))
      /\ ~Stale(sink, Len(chain))

CadenceDue(w) ==
    /\ job[w].at = "cadence"
    /\ Due
    /\ w[2] = "bg" \/ ~backoff[w[1]]
    /\ Goto(w, "head")

\* Not due: the foreground writer waits for the interval, if rows are open.
CadenceFresh(w) ==
    /\ job[w].at = "cadence"
    /\ ~Due
    /\ timer' = IF w[2] = "fg" /\ Len(chain) > Len(LatestRow(sink))
                THEN Scheduled(w[1], Len(LatestRow(sink)))
                ELSE timer
    /\ job' = [job EXCEPT ![w] = Idle]
    /\ UNCHANGED <<chain, recorded, failed, sink, backoff, aged, backup, acked, loss>>

CadenceBackoff(w) ==
    /\ job[w].at = "cadence"
    /\ Due
    /\ w[2] = "fg" /\ backoff[w[1]]
    /\ job' = [job EXCEPT ![w] = Idle]
    /\ UNCHANGED <<chain, recorded, failed, sink, timer, backoff, aged, backup, acked, loss>>

\* The timer thread opens a writer of its own and applies the cadence.
TimerFires(p) ==
    /\ \E base \in timer[p] : base <= aged
    /\ job[<<p, "bg">>] = Idle
    /\ timer' = [timer EXCEPT ![p] = {}]
    /\ job' = [job EXCEPT ![<<p, "bg">>] = [at |-> "cadence", cadence |-> TRUE]]
    /\ UNCHANGED <<chain, recorded, failed, sink, backoff, aged, backup, acked, loss>>

\* An explicit anchor().
AnchorStart(p) ==
    /\ "anchor" \in Events
    /\ job[<<p, "fg">>] = Idle
    /\ job' = [job EXCEPT ![<<p, "fg">>] = [at |-> "head", cadence |-> FALSE]]
    /\ UNCHANGED <<chain, recorded, failed, sink, timer, backoff, aged, backup, acked, loss>>

TakeHead(w) ==
    /\ job[w].at = "head"
    /\ chain # <<>>
    /\ job' = [job EXCEPT ![w] = [at |-> "read", cadence |-> job[w].cadence, wrote |-> FALSE,
                                  goal |-> Anchor(chain), recs |-> <<>>, len |-> 0,
                                  prior |-> FALSE]]
    /\ UNCHANGED <<chain, recorded, failed, sink, timer, backoff, aged, backup, acked, loss>>

TakeHeadEmpty(w) == job[w].at = "head" /\ chain = <<>> /\ Fail(w)

PinStart(p) ==
    /\ "pin" \in Events
    /\ job[<<p, "fg">>] = Idle
    /\ \E m \in Manifests, d \in Digests :
        job' = [job EXCEPT ![<<p, "fg">>] =
                    [at |-> "read", cadence |-> FALSE, wrote |-> FALSE,
                     goal |-> Pin(m, d), recs |-> <<>>, len |-> 0, prior |-> FALSE]]
    /\ UNCHANGED <<chain, recorded, failed, sink, timer, backoff, aged, backup, acked, loss>>

(***************************************************************************)
(* The write: read the sink, compare its head, append, record the head,    *)
(* then verify what can be read back.                                      *)
(***************************************************************************)
ReadSink(w) ==
    /\ job[w].at \in {"read", "reread"}
    /\ job' = [job EXCEPT ![w].recs = sink,
                          ![w].at = IF job[w].at = "read" THEN "check" ELSE "decide"]
    /\ UNCHANGED <<chain, recorded, failed, sink, timer, backoff, aged, backup, acked, loss>>

\* _records_for_write: an empty or missing sink is not compared.
Writable(recs) == (recs = <<>> \/ HeadRecorded(recs)) /\ ValidRecords(recs)

\* The goal is in the sink already: the head is anchored, the manifest pinned.
Reached(w) ==
    IF IsAnchor(job[w].goal)
    THEN HasAnchor(job[w].recs) /\ LatestRow(job[w].recs) = job[w].goal.row
    ELSE job[w].goal \in ToSet(job[w].recs)

\* The manifest is pinned to another digest.
Conflicts(goal, recs) ==
    /\ goal.kind = "pin"
    /\ \E i \in PinsOf(recs, goal.manifest) : recs[i].digest # goal.digest

CheckNew(w) ==
    /\ job[w].at = "check"
    /\ Writable(job[w].recs) /\ ~Reached(w) /\ ~Conflicts(job[w].goal, job[w].recs)
    /\ Goto(w, "append")

CheckReached(w) ==
    /\ job[w].at = "check"
    /\ Writable(job[w].recs) /\ Reached(w)
    /\ Goto(w, IF IsAnchor(job[w].goal) THEN "look" ELSE "finish")

CheckRefused(w) ==
    /\ job[w].at = "check"
    /\ ~Writable(job[w].recs) \/ Conflicts(job[w].goal, job[w].recs)
    /\ Fail(w)

\* What the sink's lock lets through: no older anchor, no other row of the same
\* number, no other digest.
Appendable(goal) ==
    /\ IsAnchor(goal) /\ HasAnchor(sink) =>
            \/ Len(goal.row) > Len(LatestRow(sink))
            \/ goal.row = LatestRow(sink)
    /\ ~Conflicts(goal, sink)

\* Mutant: every record is appended, as one sink line per call.
AppendedAlways(goal) == Append(sink, goal)

\* A record that is there already is returned and not appended again.
Appended(goal) == IF goal \in ToSet(sink) THEN sink ELSE Append(sink, goal)

SinkAppend(w) ==
    /\ job[w].at = "append"
    /\ Appendable(job[w].goal)
    /\ sink' = Appended(job[w].goal)
    /\ job' = [job EXCEPT ![w].at = "record", ![w].wrote = TRUE]
    /\ UNCHANGED <<chain, recorded, failed, timer, backoff, aged, backup, acked, loss>>

SinkRefuses(w) ==
    /\ job[w].at = "append"
    /\ ~Appendable(job[w].goal) \/ "outage" \in Events
    /\ Fail(w)

RecordHead(w) ==
    /\ job[w].at = "record"
    /\ recorded' = job[w].goal
    /\ job' = [job EXCEPT ![w].at = IF IsAnchor(job[w].goal) THEN "look" ELSE "reread"]
    /\ UNCHANGED <<chain, failed, sink, timer, backoff, aged, backup, acked, loss>>

\* verify() takes the head, and after no write the persisted failure, first.
Look(w) ==
    /\ job[w].at = "look"
    /\ job' = [job EXCEPT ![w].at = "reread", ![w].len = Len(chain),
                          ![w].prior = failed /\ ~job[w].wrote]
    /\ UNCHANGED <<chain, recorded, failed, sink, timer, backoff, aged, backup, acked, loss>>

\* The receipt is ok.
Verified(w) ==
    /\ Sound(job[w].recs, job[w].len)
    /\ ~Stale(job[w].recs, job[w].len)
    /\ ~job[w].prior

\* What was written is the newest anchor read back, or the pin resolves.
ReadBack(w) ==
    IF IsAnchor(job[w].goal)
    THEN Verified(w) /\ LatestRow(job[w].recs) = job[w].goal.row
    ELSE HeadRecorded(job[w].recs) /\ ValidRecords(job[w].recs)
         /\ job[w].goal \in ToSet(job[w].recs)

DecideOk(w) ==
    /\ job[w].at = "decide"
    /\ IF job[w].wrote THEN ReadBack(w) ELSE Verified(w)
    /\ Goto(w, IF IsAnchor(job[w].goal) THEN "clear" ELSE "finish")

DecideWriteFailed(w) ==
    /\ job[w].at = "decide"
    /\ job[w].wrote /\ ~ReadBack(w)
    /\ Fail(w)

\* anchor() found the head anchored but the receipt is not ok: it returns that
\* receipt, and the timer thread retries if an anchor is due.
DecideDegraded(w) ==
    /\ job[w].at = "decide"
    /\ ~job[w].wrote /\ ~Verified(w)
    /\ LET due == ~Sound(job[w].recs, job[w].len) \/ Stale(job[w].recs, job[w].len)
       IN  timer' = IF w[2] = "bg" /\ due THEN Scheduled(w[1], RetryDue) ELSE timer
    /\ job' = [job EXCEPT ![w] = Idle]
    /\ UNCHANGED <<chain, recorded, failed, sink, backoff, aged, backup, acked, loss>>

\* _clear_failure, and _cancel_timer if an anchor was written.
ClearFailure(w) ==
    /\ job[w].at = "clear"
    /\ failed' = FALSE
    /\ acked' = acked \cup {job[w].goal.row}
    /\ backoff' = IF w[2] = "fg" THEN [backoff EXCEPT ![w[1]] = FALSE] ELSE backoff
    /\ timer' = IF w[2] = "fg" /\ job[w].wrote THEN [timer EXCEPT ![w[1]] = {}] ELSE timer
    /\ job' = [job EXCEPT ![w] = Idle]
    /\ UNCHANGED <<chain, recorded, sink, aged, backup, loss>>

Finish(w) ==
    /\ job[w].at = "finish"
    /\ job' = [job EXCEPT ![w] = Idle]
    /\ UNCHANGED <<chain, recorded, failed, sink, timer, backoff, aged, backup, acked, loss>>

(***************************************************************************)
(* Time, and what happens to the files.                                    *)
(***************************************************************************)
AtRest == \A w \in Writers : job[w] = Idle

\* The latest anchor, and with it every older one, is now past the interval,
\* which is longer than any write takes.
IntervalElapses ==
    /\ AtRest
    /\ HasAnchor(sink)
    /\ Len(LatestRow(sink)) > aged
    /\ aged' = Len(LatestRow(sink))
    /\ UNCHANGED <<chain, recorded, failed, sink, job, timer, backoff, backup, acked, loss>>

BackoffElapses(p) ==
    /\ backoff[p]
    /\ backoff' = [backoff EXCEPT ![p] = FALSE]
    /\ timer' = IF RetryWaits \in timer[p] THEN [timer EXCEPT ![p] = {RetryDue}] ELSE timer
    /\ UNCHANGED <<chain, recorded, failed, sink, job, aged, backup, acked, loss>>

\* The process dies and is started again: its timer and backoff are gone.
Crash(p) ==
    /\ "crash" \in Events
    /\ \E w \in {p} \X {"fg", "bg"} : job[w] # Idle
    /\ job' = [w \in Writers |-> IF w[1] = p THEN Idle ELSE job[w]]
    /\ timer' = [timer EXCEPT ![p] = {}]
    /\ backoff' = [backoff EXCEPT ![p] = FALSE]
    /\ UNCHANGED <<chain, recorded, failed, sink, aged, backup, acked, loss>>

Backup ==
    /\ "restore" \in Events
    /\ AtRest /\ backup = <<>>
    /\ backup' = <<chain, recorded, failed>>
    /\ UNCHANGED <<chain, recorded, failed, sink, job, timer, backoff, aged, acked, loss>>

\* The database is replaced by the backup while no process runs.
Restore ==
    /\ AtRest /\ backup # <<>> /\ loss = "none"
    /\ chain' = backup[1] /\ recorded' = backup[2] /\ failed' = backup[3]
    /\ loss' = IF \E row \in acked : ~IsPrefix(row, backup[1]) THEN "chain" ELSE "rows"
    /\ timer' = [p \in Procs |-> {}]
    /\ backoff' = [p \in Procs |-> FALSE]
    /\ UNCHANGED <<sink, job, aged, backup, acked>>

\* The sink loses its last records, though not all of them.
SinkCut ==
    /\ "cut" \in Events
    /\ AtRest /\ loss = "none"
    /\ \E n \in 1..(Len(sink) - 1) :
        /\ sink' = SubSeq(sink, 1, n)
        /\ loss' = IF recorded \in ToSet(sink')
                      /\ \A row \in acked : Anchor(row) \in ToSet(sink) => Anchor(row) \in ToSet(sink')
                   THEN "tail" ELSE "sink"
    /\ UNCHANGED <<chain, recorded, failed, job, timer, backoff, aged, backup, acked>>

Step(w) ==
    \/ CadenceDue(w) \/ CadenceFresh(w) \/ CadenceBackoff(w)
    \/ TakeHead(w) \/ TakeHeadEmpty(w) \/ ReadSink(w)
    \/ CheckNew(w) \/ CheckReached(w) \/ CheckRefused(w)
    \/ SinkAppend(w) \/ SinkRefuses(w) \/ RecordHead(w) \/ Look(w)
    \/ DecideOk(w) \/ DecideWriteFailed(w) \/ DecideDegraded(w)
    \/ ClearFailure(w) \/ Finish(w)

Next ==
    \/ \E p \in Procs : AppendRow(p) \/ AnchorStart(p) \/ PinStart(p) \/ TimerFires(p)
                        \/ BackoffElapses(p) \/ Crash(p)
    \/ \E w \in Writers : Step(w)
    \/ IntervalElapses \/ Backup \/ Restore \/ SinkCut

Spec == Init /\ [][Next]_vars

\* Threads run, timers expire and time passes; nobody has to append or anchor.
Fairness ==
    /\ \A w \in Writers : WF_vars(Step(w))
    /\ \A p \in Procs : WF_vars(TimerFires(p)) /\ WF_vars(BackoffElapses(p))
    /\ WF_vars(IntervalElapses)

FairSpec == Spec /\ Fairness

--------------------------------------------------------------------------------
(***************************************************************************)
(* Properties.                                                             *)
(***************************************************************************)
\* However writers race and retry, the sink holds anchors of strictly
\* increasing rows and pins each manifest once (_idempotent_existing_record).
SinkOrdered == Increasing(sink) /\ ValidRecords(sink)

\* anchor() never returns an ok receipt once rows it had acknowledged are gone
\* from the database, or the sink has lost records that were acknowledged or
\* recorded as its head (not counting a sink that lost everything).
OkMeansIntact ==
    \A w \in Writers : job[w].at = "clear" => loss \notin {"chain", "sink"}

\* "anchor sink head is missing or rolled back" is said of a sink that lost
\* records: without a rollback, the head recorded at rest is the sink's last.
HeadMatchesAtRest ==
    AtRest /\ loss = "none" /\ sink # <<>> => recorded = Last(sink)

RowAnchored(n) == HasAnchor(sink) /\ Len(LatestRow(sink)) >= n

\* As long as no anchor write fails, a row that is due by number is eventually
\* anchored, whatever the timer thread does meanwhile (every_n_rows).  Rows that
\* are not due by number have no such promise: one appended while a retry timer
\* is alive starts none (_schedule_timer), and that retry finds nothing due.
CountAnchored ==
    <>failed \/ \A n \in 1..MaxRows : Len(chain) >= n + EveryN - 1 ~> RowAnchored(n)

================================================================================
