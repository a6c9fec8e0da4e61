----------------------------- MODULE AnchorsProofs -----------------------------
(***************************************************************************)
(* Proofs about Anchors.  For any processes, with a timer thread or        *)
(* without one, the sink stays ordered; with one writer no ok receipt      *)
(* covers a loss.                                                          *)
(***************************************************************************)
EXTENDS Anchors, WellFoundedInduction, NaturalsInduction, TLAPS

\* The rows of a chain, and the records of a sink, of any length.
ChainRows == Seq(0..1)
SinkRecords == [kind : {"anchor"}, row : ChainRows]
               \cup [kind : {"pin"}, manifest : Manifests, digest : Digests]

\* What a writer may be doing: nothing, the cadence, or a write.
Deciding(j) == j.at \in {"cadence", "head"} /\ j = [at |-> j.at, cadence |-> j.cadence]
Writing(j) ==
    /\ j.at \notin {"cadence", "head"} /\ j.goal \in SinkRecords
    /\ j = [at |-> j.at, cadence |-> j.cadence, wrote |-> j.wrote, goal |-> j.goal,
            recs |-> j.recs, len |-> j.len, prior |-> j.prior]
JobOK(j) == j = Idle \/ Deciding(j) \/ Writing(j)

\* What writers append comes from the chain or is a pin, so it can be compared with the
\* sink's last anchor.
SinkInv ==
    /\ chain \in ChainRows
    /\ sink \in Seq(SinkRecords)
    /\ backup # <<>> => backup[1] \in ChainRows
    /\ job = [w \in Writers |-> job[w]]
    /\ \A w \in Writers : JobOK(job[w])
    /\ SinkOrdered

\* Every nonempty set of naturals has a least member.
LEMMA Least ==
    ASSUME NEW T, T \subseteq Nat, T # {}
    PROVE  \E x \in T : \A y \in T : x <= y
<1>1. PICK Q : Q = OpToRel(<, Nat)
  OBVIOUS
<1>2. IsWellFoundedOn(Q, Nat)
  BY <1>1, NatLessThanWellFounded
<1>3. PICK x \in T : \A y \in T : ~ (<<y, x>> \in Q)
  BY <1>2, WFMin
<1>4. ASSUME NEW y \in T, y < x PROVE FALSE
  <2>1. <<y, x>> \in Q
    BY <1>1, <1>4 DEF OpToRel
  <2> QED
    BY <2>1, <1>3
<1> QED
  BY <1>3, <1>4

\* The last position of a sequence's anchors is one of them.
LEMMA LastAnchor ==
    ASSUME NEW recs, recs \in Seq(SinkRecords), HasAnchor(recs)
    PROVE  \E m \in AnchorsIn(recs) :
               /\ LatestRow(recs) = recs[m].row
               /\ \A i \in AnchorsIn(recs) : i <= m
<1>0. PICK T : T = AnchorsIn(recs)
  OBVIOUS
<1>1. PICK n : n = Len(recs)
  OBVIOUS
<1>2. n \in Nat /\ T \subseteq 1..n /\ T # {}
  BY <1>0, <1>1 DEF AnchorsIn, HasAnchor
<1>3. PICK above : above = {n - k : k \in T}
  OBVIOUS
<1>4. above \subseteq Nat /\ above # {}
  <2>1. \A k \in T : n - k \in Nat
    BY <1>2
  <2> QED
    BY <1>2, <1>3, <2>1
<1>5. PICK d \in above : \A e \in above : d <= e
  BY <1>4, Least
<1>6. PICK m \in T : d = n - m
  BY <1>3
<1>7. \A k \in T : k <= m
  <2>1. \A k \in T : n - k \in above
    BY <1>3
  <2> QED
    BY <1>2, <1>4, <1>5, <1>6, <2>1
<1>8. \A k \in T : m >= k
  BY <1>2, <1>7
<1>9. Max(T) \in T /\ \A k \in T : Max(T) >= k
  BY <1>8, Zenon DEF Max
<1>10. \A k \in T : k <= Max(T)
  BY <1>2, <1>9
<1>11. LatestRow(recs) = recs[Max(T)].row
  BY <1>0 DEF LatestRow
<1> QED
  BY <1>0, <1>9, <1>10, <1>11

LEMMA AppendKeepsOrder ==
    ASSUME sink \in Seq(SinkRecords), SinkOrdered, NEW g, g \in SinkRecords,
           Appendable(g), sink' = Appended(g)
    PROVE  sink' \in Seq(SinkRecords) /\ SinkOrdered'
<1>1. CASE g \in ToSet(sink)
  <2>1. sink' = sink
    BY <1>1 DEF Appended
  <2> QED
    BY <2>1 DEF SinkOrdered, Increasing, ValidRecords, AnchorsIn, PinsOf, IsAnchor
<1>2. CASE g \notin ToSet(sink)
  <2>1. sink' = Append(sink, g)
    BY <1>2 DEF Appended
  <2>2. PICK n : n = Len(sink)
    OBVIOUS
  <2>3. /\ n \in Nat /\ DOMAIN sink = 1..n /\ DOMAIN sink' = 1..(n + 1)
        /\ \A i \in 1..n : sink'[i] = sink[i] /\ sink[i] \in SinkRecords
        /\ sink'[n + 1] = g
        /\ sink' \in Seq(SinkRecords)
    BY <2>1, <2>2
  <2>4. \A i \in 1..n : sink[i] # g
    BY <1>2, <2>3 DEF ToSet
  <2>5. Increasing(sink)'
    <3>1. SUFFICES ASSUME NEW i \in AnchorsIn(sink'), NEW j \in AnchorsIn(sink'), i < j
                   PROVE  Len(sink'[i].row) < Len(sink'[j].row)
      BY DEF Increasing
    <3>2. i \in 1..n /\ j \in 1..(n + 1) /\ i \in AnchorsIn(sink)
      BY <2>3, <3>1 DEF AnchorsIn
    <3>3. CASE j \in 1..n
      <4>1. j \in AnchorsIn(sink)
        BY <2>3, <3>1, <3>3 DEF AnchorsIn
      <4> QED
        BY <2>3, <3>1, <3>2, <3>3, <4>1 DEF SinkOrdered, Increasing
    <3>4. CASE j = n + 1
      <4>1. IsAnchor(g) /\ HasAnchor(sink)
        BY <2>3, <3>1, <3>2, <3>4 DEF AnchorsIn, HasAnchor
      <4>2. PICK m \in AnchorsIn(sink) :
                /\ LatestRow(sink) = sink[m].row
                /\ \A k \in AnchorsIn(sink) : k <= m
        BY <4>1, LastAnchor
      <4>3. m \in 1..n /\ IsAnchor(sink[m])
        BY <2>3, <4>2 DEF AnchorsIn
      <4>4. g.row # sink[m].row
        <5>1. g = [kind |-> "anchor", row |-> g.row]
          BY <4>1 DEF IsAnchor, SinkRecords
        <5>2. sink[m] = [kind |-> "anchor", row |-> sink[m].row]
          BY <2>3, <4>3 DEF IsAnchor, SinkRecords
        <5> QED
          BY <2>4, <4>3, <5>1, <5>2
      <4>5. Len(g.row) > Len(sink[m].row)
        BY <4>1, <4>2, <4>4 DEF Appendable
      <4>6. i = m \/ Len(sink[i].row) < Len(sink[m].row)
        <5>1. i <= m
          BY <3>2, <4>2
        <5>2. i < m => Len(sink[i].row) < Len(sink[m].row)
          BY <3>2, <4>2 DEF SinkOrdered, Increasing
        <5> QED
          BY <3>2, <4>3, <5>1, <5>2
      <4>7. \A k \in AnchorsIn(sink) : Len(sink[k].row) \in Nat
        BY <2>3 DEF AnchorsIn, IsAnchor, SinkRecords, ChainRows
      <4>8. Len(g.row) \in Nat
        BY <4>1 DEF IsAnchor, SinkRecords, ChainRows
      <4> QED
        BY <2>3, <3>2, <3>4, <4>2, <4>5, <4>6, <4>7, <4>8
    <3> QED
      BY <2>3, <3>2, <3>3, <3>4
  <2>6. ValidRecords(sink)'
    <3>1. SUFFICES ASSUME NEW m \in Manifests,
                          NEW i \in PinsOf(sink', m), NEW j \in PinsOf(sink', m)
                   PROVE  i = j
      BY DEF ValidRecords
    <3>2. \A k \in PinsOf(sink', m) : k \in PinsOf(sink, m) \/ k = n + 1
      BY <2>3 DEF PinsOf
    <3>3. PinsOf(sink, m) # {} => n + 1 \notin PinsOf(sink', m)
      <4>1. SUFFICES ASSUME NEW k \in PinsOf(sink, m), n + 1 \in PinsOf(sink', m)
                     PROVE  FALSE
        OBVIOUS
      <4>2. k \in 1..n /\ sink[k].kind = "pin" /\ sink[k].manifest = m
        BY <2>3, <4>1 DEF PinsOf
      <4>3. g.kind = "pin" /\ g.manifest = m
        BY <2>3, <4>1 DEF PinsOf
      <4>4. sink[k].digest = g.digest
        BY <4>1, <4>3 DEF Appendable, Conflicts
      <4>5. sink[k] = [kind |-> "pin", manifest |-> m, digest |-> sink[k].digest]
        BY <2>3, <4>2 DEF SinkRecords
      <4>6. g = [kind |-> "pin", manifest |-> m, digest |-> g.digest]
        BY <4>3 DEF SinkRecords
      <4> QED
        BY <2>4, <4>2, <4>4, <4>5, <4>6
    <3> QED
      BY <3>1, <3>2, <3>3 DEF SinkOrdered, ValidRecords
  <2> QED
    BY <2>3, <2>5, <2>6 DEF SinkOrdered
<1> QED
  BY <1>1, <1>2

LEMMA CutKeepsOrder ==
    ASSUME sink \in Seq(SinkRecords), SinkOrdered, NEW n \in 1..(Len(sink) - 1),
           sink' = SubSeq(sink, 1, n)
    PROVE  sink' \in Seq(SinkRecords) /\ SinkOrdered'
<1>1. /\ sink' \in Seq(SinkRecords) /\ DOMAIN sink' = 1..n
      /\ \A i \in 1..n : i \in DOMAIN sink /\ sink'[i] = sink[i]
  OBVIOUS
<1>2. AnchorsIn(sink') \subseteq AnchorsIn(sink)
  BY <1>1 DEF AnchorsIn
<1>3. \A m : PinsOf(sink', m) \subseteq PinsOf(sink, m)
  BY <1>1 DEF PinsOf
<1>4. \A i \in AnchorsIn(sink') : sink'[i] = sink[i]
  BY <1>1 DEF AnchorsIn
<1>5. Increasing(sink)'
  BY <1>2, <1>4 DEF SinkOrdered, Increasing
<1>6. ValidRecords(sink)'
  BY <1>3 DEF SinkOrdered, ValidRecords
<1> QED
  BY <1>1, <1>5, <1>6 DEF SinkOrdered

LEMMA OrderKept ==
    ASSUME SinkInv, sink' = sink
    PROVE  sink' \in Seq(SinkRecords) /\ SinkOrdered'
BY DEF SinkInv, SinkOrdered, Increasing, ValidRecords, AnchorsIn, PinsOf, IsAnchor

LEMMA JobSet ==
    ASSUME SinkInv, NEW w \in Writers, NEW x, JobOK(x), job' = [job EXCEPT ![w] = x]
    PROVE  job' = [v \in Writers |-> job'[v]] /\ \A v \in Writers : JobOK(job'[v])
BY DEF SinkInv

LEMMA WritingGoes ==
    ASSUME NEW j, Writing(j), NEW at, at \notin {"cadence", "head"}
    PROVE  Writing([j EXCEPT !.at = at])
BY DEF Writing

LEMMA AtWriting ==
    ASSUME NEW j, JobOK(j), j.at \notin {"idle", "cadence", "head"}
    PROVE  Writing(j)
BY DEF JobOK, Deciding, Idle

LEMMA AtDeciding ==
    ASSUME NEW j, JobOK(j), j.at \in {"cadence", "head"}
    PROVE  Deciding(j)
BY DEF JobOK, Writing, Idle

\* The steps of a write that only move it on.
LEMMA MovesOn ==
    ASSUME SinkInv, NEW w \in Writers, job[w].at \notin {"idle", "cadence", "head"},
           NEW at, at \notin {"cadence", "head"}, Goto(w, at)
    PROVE  SinkInv'
<1>1. Writing(job[w])
  BY AtWriting DEF SinkInv
<1>2. PICK x : x = [job[w] EXCEPT !.at = at]
  OBVIOUS
<1>3. JobOK(x)
  BY <1>1, <1>2, WritingGoes DEF JobOK
<1>4. job' = [job EXCEPT ![w] = x]
  BY <1>2 DEF Goto, SinkInv
<1>5. job' = [v \in Writers |-> job'[v]] /\ \A v \in Writers : JobOK(job'[v])
  BY <1>3, <1>4, JobSet
<1> QED
  BY <1>5, OrderKept DEF Goto, SinkInv

LEMMA FailKeeps ==
    ASSUME SinkInv, NEW w \in Writers, Fail(w)
    PROVE  SinkInv'
<1>1. JobOK(Idle) /\ job' = [job EXCEPT ![w] = Idle]
  BY DEF JobOK, Fail
<1>2. job' = [v \in Writers |-> job'[v]] /\ \A v \in Writers : JobOK(job'[v])
  BY <1>1, JobSet
<1> QED
  BY <1>2, OrderKept DEF Fail, SinkInv

\* The steps that end a write, or start the cadence or an anchor.
LEMMA JobOnly ==
    ASSUME SinkInv, NEW w \in Writers, NEW x, JobOK(x), job' = [job EXCEPT ![w] = x],
           chain' \in ChainRows, UNCHANGED <<sink, backup>>
    PROVE  SinkInv'
<1>1. job' = [v \in Writers |-> job'[v]] /\ \A v \in Writers : JobOK(job'[v])
  BY JobSet
<1> QED
  BY <1>1, OrderKept DEF SinkInv

LEMMA SinkStep ==
    ASSUME SinkInv, NEW w \in Writers, SinkAppend(w)
    PROVE  SinkInv'
<1>1. Writing(job[w])
  BY AtWriting DEF SinkInv, SinkAppend
<1>2. PICK x : x = [job[w] EXCEPT !.at = "record", !.wrote = TRUE]
  OBVIOUS
<1>3. Writing(x)
  BY <1>1, <1>2 DEF Writing
<1>4. job' = [job EXCEPT ![w] = x]
  BY <1>2 DEF SinkAppend, SinkInv
<1>5. job' = [v \in Writers |-> job'[v]] /\ \A v \in Writers : JobOK(job'[v])
  BY <1>3, <1>4, JobSet DEF JobOK
<1>6. PICK g : g = job[w].goal
  OBVIOUS
<1>7. g \in SinkRecords /\ Appendable(g) /\ sink' = Appended(g)
  BY <1>1, <1>6 DEF Writing, SinkAppend
<1>8. sink' \in Seq(SinkRecords) /\ SinkOrdered'
  BY <1>7, AppendKeepsOrder DEF SinkInv
<1> QED
  BY <1>5, <1>8 DEF SinkInv, SinkAppend

LEMMA WriteStep ==
    ASSUME SinkInv, NEW w \in Writers, Step(w)
    PROVE  SinkInv'
<1>0. JobOK(Idle) /\ JobOK(job[w])
  BY DEF SinkInv, JobOK
<1>1. CASE CadenceDue(w)
  <2>1. PICK x : x = [job[w] EXCEPT !.at = "head"]
    OBVIOUS
  <2>2. Deciding(job[w])
    BY <1>0, <1>1, AtDeciding DEF CadenceDue
  <2>3. Deciding(x)
    BY <2>1, <2>2 DEF Deciding
  <2>4. job' = [job EXCEPT ![w] = x] /\ chain' \in ChainRows /\ UNCHANGED <<sink, backup>>
    BY <1>1, <2>1 DEF CadenceDue, Goto, SinkInv
  <2> QED
    BY <2>3, <2>4, JobOnly DEF JobOK
<1>2. CASE CadenceFresh(w) \/ CadenceBackoff(w) \/ DecideDegraded(w)
           \/ ClearFailure(w) \/ Finish(w)
  <2>1. job' = [job EXCEPT ![w] = Idle] /\ UNCHANGED <<sink, backup>>
        /\ chain' \in ChainRows
    BY <1>2 DEF CadenceFresh, CadenceBackoff, DecideDegraded, ClearFailure,
                Finish, SinkInv
  <2> QED
    BY <1>0, <2>1, JobOnly
<1>3. CASE TakeHead(w)
  <2>1. PICK x : x = [at |-> "read", cadence |-> job[w].cadence, wrote |-> FALSE,
                      goal |-> Anchor(chain), recs |-> <<>>, len |-> 0, prior |-> FALSE]
    OBVIOUS
  <2>2. Anchor(chain) \in SinkRecords
    BY DEF SinkInv, SinkRecords, Anchor
  <2>3. Writing(x)
    BY <2>1, <2>2 DEF Writing
  <2>4. job' = [job EXCEPT ![w] = x] /\ chain' \in ChainRows /\ UNCHANGED <<sink, backup>>
    BY <1>3, <2>1 DEF TakeHead, SinkInv
  <2> QED
    BY <2>3, <2>4, JobOnly DEF JobOK
<1>4. CASE TakeHeadEmpty(w) \/ CheckRefused(w) \/ SinkRefuses(w)
           \/ DecideWriteFailed(w)
  BY <1>4, FailKeeps DEF TakeHeadEmpty, CheckRefused, SinkRefuses, DecideWriteFailed
<1>5. CASE ReadSink(w)
  <2>1. PICK a : a = IF job[w].at = "read" THEN "check" ELSE "decide"
    OBVIOUS
  <2>2. PICK x : x = [job[w] EXCEPT !.recs = sink, !.at = a]
    OBVIOUS
  <2>3. Writing(job[w])
    BY <1>0, <1>5, AtWriting DEF ReadSink
  <2>4. Writing(x)
    BY <2>1, <2>2, <2>3 DEF Writing
  <2>5. job' = [job EXCEPT ![w] = x] /\ chain' \in ChainRows /\ UNCHANGED <<sink, backup>>
    BY <1>5, <2>1, <2>2 DEF ReadSink, SinkInv
  <2> QED
    BY <2>4, <2>5, JobOnly DEF JobOK
<1>6. CASE CheckNew(w)
  BY <1>6, MovesOn DEF CheckNew
<1>7. CASE CheckReached(w)
  BY <1>7, MovesOn DEF CheckReached
<1>8. CASE SinkAppend(w)
  BY <1>8, SinkStep
<1>9. CASE RecordHead(w)
  <2>1. PICK a : a = IF IsAnchor(job[w].goal) THEN "look" ELSE "reread"
    OBVIOUS
  <2>2. PICK x : x = [job[w] EXCEPT !.at = a]
    OBVIOUS
  <2>3. Writing(job[w])
    BY <1>0, <1>9, AtWriting DEF RecordHead
  <2>4. Writing(x)
    BY <2>1, <2>2, <2>3 DEF Writing
  <2>5. job' = [job EXCEPT ![w] = x] /\ chain' \in ChainRows /\ UNCHANGED <<sink, backup>>
    BY <1>9, <2>1, <2>2 DEF RecordHead, SinkInv
  <2> QED
    BY <2>4, <2>5, JobOnly DEF JobOK
<1>10. CASE Look(w)
  <2>1. PICK x : x = [job[w] EXCEPT !.at = "reread", !.len = Len(chain),
                                    !.prior = failed /\ ~job[w].wrote]
    OBVIOUS
  <2>2. Writing(job[w])
    BY <1>0, <1>10, AtWriting DEF Look
  <2>3. Writing(x)
    BY <2>1, <2>2 DEF Writing
  <2>4. job' = [job EXCEPT ![w] = x] /\ chain' \in ChainRows /\ UNCHANGED <<sink, backup>>
    BY <1>10, <2>1 DEF Look, SinkInv
  <2> QED
    BY <2>3, <2>4, JobOnly DEF JobOK
<1>11. CASE DecideOk(w)
  BY <1>11, MovesOn DEF DecideOk
<1> QED
  BY <1>1, <1>2, <1>3, <1>4, <1>5, <1>6, <1>7, <1>8, <1>9, <1>10, <1>11 DEF Step

LEMMA StartStep ==
    ASSUME SinkInv, NEW p \in Procs,
           AppendRow(p) \/ AnchorStart(p) \/ PinStart(p) \/ TimerFires(p)
           \/ BackoffElapses(p) \/ Crash(p)
    PROVE  SinkInv'
<1>0. <<p, "fg">> \in Writers /\ <<p, "bg">> \in Writers
  BY DEF Writers
<1>1. CASE AppendRow(p)
  <2>1. PICK x : x = [at |-> "cadence", cadence |-> TRUE]
    OBVIOUS
  <2>2. JobOK(x)
    BY <2>1 DEF JobOK, Deciding
  <2>3. chain' \in ChainRows
    BY <1>1 DEF AppendRow, SinkInv, ChainRows
  <2>4. job' = [job EXCEPT ![<<p, "fg">>] = x] /\ UNCHANGED <<sink, backup>>
    BY <1>1, <2>1 DEF AppendRow
  <2> QED
    BY <1>0, <2>2, <2>3, <2>4, JobOnly
<1>2. CASE AnchorStart(p)
  <2>1. PICK x : x = [at |-> "head", cadence |-> FALSE]
    OBVIOUS
  <2>2. JobOK(x)
    BY <2>1 DEF JobOK, Deciding
  <2>3. job' = [job EXCEPT ![<<p, "fg">>] = x] /\ UNCHANGED <<sink, backup>>
        /\ chain' \in ChainRows
    BY <1>2, <2>1 DEF AnchorStart, SinkInv
  <2> QED
    BY <1>0, <2>2, <2>3, JobOnly
<1>3. CASE PinStart(p)
  <2>1. PICK m \in Manifests, d \in Digests :
            job' = [job EXCEPT ![<<p, "fg">>] =
                       [at |-> "read", cadence |-> FALSE, wrote |-> FALSE,
                        goal |-> Pin(m, d), recs |-> <<>>, len |-> 0, prior |-> FALSE]]
    BY <1>3 DEF PinStart
  <2>2. PICK x : x = [at |-> "read", cadence |-> FALSE, wrote |-> FALSE,
                      goal |-> Pin(m, d), recs |-> <<>>, len |-> 0, prior |-> FALSE]
    OBVIOUS
  <2>3. Pin(m, d) \in SinkRecords
    BY DEF SinkRecords, Pin
  <2>4. Writing(x)
    BY <2>2, <2>3 DEF Writing
  <2>5. job' = [job EXCEPT ![<<p, "fg">>] = x] /\ UNCHANGED <<sink, backup>>
        /\ chain' \in ChainRows
    BY <1>3, <2>1, <2>2 DEF PinStart, SinkInv
  <2> QED
    BY <1>0, <2>4, <2>5, JobOnly DEF JobOK
<1>4. CASE TimerFires(p)
  <2>1. PICK x : x = [at |-> "cadence", cadence |-> TRUE]
    OBVIOUS
  <2>2. JobOK(x)
    BY <2>1 DEF JobOK, Deciding
  <2>3. job' = [job EXCEPT ![<<p, "bg">>] = x] /\ UNCHANGED <<sink, backup>>
        /\ chain' \in ChainRows
    BY <1>4, <2>1 DEF TimerFires, SinkInv
  <2> QED
    BY <1>0, <2>2, <2>3, JobOnly
<1>5. CASE BackoffElapses(p)
  BY <1>5, OrderKept DEF BackoffElapses, SinkInv
<1>6. CASE Crash(p)
  <2>1. job' = [v \in Writers |-> job'[v]] /\ \A v \in Writers : JobOK(job'[v])
    BY <1>6 DEF Crash, SinkInv, JobOK
  <2> QED
    BY <1>6, <2>1, OrderKept DEF Crash, SinkInv
<1> QED
  BY <1>1, <1>2, <1>3, <1>4, <1>5, <1>6

LEMMA SinkInvStep ==
    SinkInv /\ [Next]_vars => SinkInv'
<1> SUFFICES ASSUME SinkInv, [Next]_vars PROVE SinkInv'
  OBVIOUS
<1>1. CASE \E p \in Procs : AppendRow(p) \/ AnchorStart(p) \/ PinStart(p)
                            \/ TimerFires(p) \/ BackoffElapses(p) \/ Crash(p)
  BY <1>1, StartStep
<1>2. CASE \E w \in Writers : Step(w)
  BY <1>2, WriteStep
<1>3. CASE IntervalElapses
  BY <1>3, OrderKept DEF IntervalElapses, SinkInv
<1>4. CASE Backup
  <2>1. backup'[1] = chain
    BY <1>4 DEF Backup
  <2> QED
    BY <1>4, <2>1, OrderKept DEF Backup, SinkInv
<1>5. CASE Restore
  BY <1>5, OrderKept DEF Restore, SinkInv
<1>6. CASE SinkCut
  <2>1. PICK n \in 1..(Len(sink) - 1) : sink' = SubSeq(sink, 1, n)
    BY <1>6 DEF SinkCut
  <2>2. sink' \in Seq(SinkRecords) /\ SinkOrdered'
    BY <2>1, CutKeepsOrder DEF SinkInv
  <2> QED
    BY <1>6, <2>2 DEF SinkCut, SinkInv
<1>7. CASE UNCHANGED vars
  BY <1>7, OrderKept DEF vars, SinkInv
<1> QED
  BY <1>1, <1>2, <1>3, <1>4, <1>5, <1>6, <1>7 DEF Next

LEMMA SinkInvInit == Init => SinkInv
<1> SUFFICES ASSUME Init PROVE SinkInv
  OBVIOUS
<1>1. SinkOrdered
  BY DEF Init, SinkOrdered, Increasing, ValidRecords, AnchorsIn, PinsOf
<1>2. job = [w \in Writers |-> job[w]] /\ \A w \in Writers : JobOK(job[w])
  BY DEF Init, JobOK
<1>3. chain \in ChainRows /\ sink \in Seq(SinkRecords) /\ backup = <<>>
  BY DEF Init, ChainRows
<1> QED
  BY <1>1, <1>2, <1>3 DEF SinkInv

\* However writers, timers, crashes and restores interleave, the sink's anchors are of
\* strictly increasing rows and each manifest is pinned once
\* (LocalFileAnchorSink.append_record).
THEOREM SinkStaysOrdered == Spec => []SinkOrdered
<1>1. SinkInv => SinkOrdered
  BY DEF SinkInv
<1> QED
  BY <1>1, SinkInvInit, SinkInvStep, PTL DEF Spec

(***************************************************************************)
(* One writer.                                                             *)
(***************************************************************************)
Zeros == Seq({0})

\* A record is the head of the sink only with every acknowledged anchor before it.
Behind(rec) ==
    \A k \in DOMAIN sink : sink[k] = rec =>
        \A r \in acked : \E i \in 1..k : sink[i] = Anchor(r)

Fresh(j) ==
    IF IsAnchor(j.goal)
    THEN ~ (HasAnchor(sink) /\ LatestRow(sink) = j.goal.row)
    ELSE j.goal \notin ToSet(sink)

\* What the only writer knows of the sink before anything is lost.
Knows(j) ==
    /\ j.at \in {"check", "append", "decide"} => j.recs = sink
    /\ j.at = "append" => Fresh(j)
    /\ j.at = "record" => Behind(j.goal)
    /\ j.at \in {"record", "look", "reread", "decide", "clear"} => j.goal \in ToSet(sink)
                                                                     \/ ~IsAnchor(j.goal)
    /\ j.at = "clear" => IsAnchor(j.goal) /\ sink # <<>> /\ recorded = Last(sink)
    /\ j.at \notin {"idle", "cadence", "head"} /\ IsAnchor(j.goal) => j.goal.row \in Zeros

NothingLost ==
    /\ chain \in Zeros
    /\ \A r \in acked : r \in Zeros /\ Anchor(r) \in ToSet(sink)
    /\ Behind(recorded)
    /\ \A w \in Writers : Knows(job[w])

\* An acknowledged row is gone from the database, and its anchor is in the sink.
Gone(r) ==
    /\ r \in Zeros /\ Anchor(r) \in ToSet(sink) /\ ~IsPrefix(r, chain)
    /\ \A w \in Writers :
        /\ job[w].at = "decide" => Anchor(r) \in ToSet(job[w].recs)
        /\ job[w].at # "clear"

\* The head the database has recorded is gone from the sink.
HeadLost ==
    /\ sink # <<>> /\ recorded \notin ToSet(sink)
    /\ \A w \in Writers :
        /\ job[w].at \in {"idle", "cadence", "head", "read", "check"}
        /\ job[w].at = "check" => job[w].recs = sink

\* No timer runs, and with one process one writer works.
OneWriter ==
    /\ timer = [p \in Procs |-> {}]
    /\ \A p \in Procs : job[<<p, "bg">>] = Idle

AckInv ==
    /\ SinkInv
    /\ OneWriter
    /\ loss \in {"none", "rows", "chain", "tail", "sink"}
    /\ loss = "none" => NothingLost
    /\ loss = "chain" => \E r \in Zeros : Gone(r)
    /\ loss = "sink" => HeadLost

LEMMA Alone ==
    ASSUME \E p : Procs = {p}, OneWriter, NEW w \in Writers, job[w] # Idle,
           NEW v \in Writers, v # w
    PROVE  job[v] = Idle
BY DEF OneWriter, Writers

LEMMA OneWriterStays ==
    ASSUME Background = FALSE, SinkInv, OneWriter, [Next]_vars
    PROVE  OneWriter'
<1>1. \A p \in Procs : timer[p] = {}
  BY DEF OneWriter
<1>2. ASSUME NEW w \in Writers, Fail(w) PROVE OneWriter'
  <2>1. w[1] \in Procs /\ RetryWaits \notin timer[w[1]]
    BY <1>1 DEF Writers
  <2>2. timer' = timer
    BY <1>2, <2>1 DEF Fail, Scheduled
  <2>3. job' = [job EXCEPT ![w] = Idle]
    BY <1>2 DEF Fail
  <2>4. \A p \in Procs : <<p, "bg">> \in Writers
    BY DEF Writers
  <2> QED
    BY <2>2, <2>3, <2>4 DEF OneWriter, SinkInv
<1>3. ASSUME NEW w \in Writers, Step(w), ~Fail(w) PROVE OneWriter'
  <2>1. job[w].at # "idle"
    BY <1>3 DEF Step, CadenceDue, CadenceFresh, CadenceBackoff, TakeHead,
       TakeHeadEmpty, ReadSink, CheckNew, CheckReached, CheckRefused, SinkAppend,
       SinkRefuses, RecordHead, Look, DecideOk, DecideWriteFailed, DecideDegraded,
       ClearFailure, Finish
  <2>2. \A p \in Procs : w # <<p, "bg">> /\ <<p, "bg">> \in Writers
    <3>1. SUFFICES ASSUME NEW p \in Procs
                   PROVE  w # <<p, "bg">> /\ <<p, "bg">> \in Writers
      OBVIOUS
    <3>2. job[<<p, "bg">>].at = "idle"
      BY DEF OneWriter, Idle
    <3> QED
      BY <2>1, <3>2 DEF Writers
  <2>3. \E x : job' = [job EXCEPT ![w] = x]
    BY <1>3 DEF SinkInv, Step, CadenceDue, CadenceFresh, CadenceBackoff, TakeHead,
       TakeHeadEmpty, ReadSink, CheckNew, CheckReached, CheckRefused, SinkAppend,
       SinkRefuses, RecordHead, Look, DecideOk, DecideWriteFailed, DecideDegraded,
       ClearFailure, Finish, Goto
  <2>4. timer' = timer \/ timer' = [timer EXCEPT ![w[1]] = {}]
    BY <1>3 DEF Step, CadenceDue, CadenceFresh, CadenceBackoff, TakeHead,
       TakeHeadEmpty, ReadSink, CheckNew, CheckReached, CheckRefused, SinkAppend,
       SinkRefuses, RecordHead, Look, DecideOk, DecideWriteFailed, DecideDegraded,
       ClearFailure, Finish, Goto, Scheduled
  <2>5. timer' = [p \in Procs |-> {}]
    BY <2>4 DEF OneWriter
  <2> QED
    BY <2>2, <2>3, <2>5 DEF OneWriter, SinkInv
<1>4. ASSUME NEW p \in Procs,
             AppendRow(p) \/ AnchorStart(p) \/ PinStart(p) \/ TimerFires(p)
             \/ BackoffElapses(p) \/ Crash(p)
      PROVE  OneWriter'
  <2>1. ~TimerFires(p)
    BY <1>1 DEF TimerFires
  <2>2. RetryWaits \notin timer[p]
    BY <1>1
  <2>3. CASE AppendRow(p) \/ AnchorStart(p) \/ PinStart(p)
    <3>1. timer' = timer /\ \E x : job' = [job EXCEPT ![<<p, "fg">>] = x]
      BY <2>3 DEF AppendRow, AnchorStart, PinStart
    <3>2. \A q \in Procs : <<q, "bg">> # <<p, "fg">> /\ <<q, "bg">> \in Writers
      BY DEF Writers
    <3> QED
      BY <3>1, <3>2 DEF OneWriter, SinkInv
  <2>4. CASE BackoffElapses(p)
    BY <2>2, <2>4 DEF BackoffElapses, OneWriter
  <2>5. CASE Crash(p)
    <3>1. timer' = [q \in Procs |-> {}]
      BY <2>5 DEF Crash, OneWriter
    <3>2. \A q \in Procs : <<q, "bg">> \in Writers
      BY DEF Writers
    <3>3. \A q \in Procs : job'[<<q, "bg">>] = Idle
      BY <2>5, <3>2 DEF Crash, OneWriter
    <3> QED
      BY <3>1, <3>3 DEF OneWriter
  <2> QED
    BY <1>4, <2>1, <2>3, <2>4, <2>5
<1>5. CASE IntervalElapses \/ Backup \/ Restore \/ SinkCut \/ UNCHANGED vars
  BY <1>5 DEF IntervalElapses, Backup, Restore, SinkCut, vars, OneWriter
<1> QED
  BY <1>2, <1>3, <1>4, <1>5 DEF Next

(***************************************************************************)
(* Steps of a write: what they change, and what they leave alone.          *)
(***************************************************************************)
LEMMA StepFacts ==
    ASSUME SinkInv, NEW w \in Writers, Step(w)
    PROVE  /\ UNCHANGED <<loss, chain, backup>>
           /\ job[w] # Idle
           /\ job[w].at = "append" \/ sink' = sink
           /\ sink' = sink \/ \E g : sink' = Append(sink, g)
           /\ job[w].at = "record" \/ recorded' = recorded
           /\ job[w].at = "clear" \/ acked' = acked
           /\ \E x :
               /\ job' = [job EXCEPT ![w] = x]
               /\ x.at \in {"check", "decide"} =>
                      x.recs = sink /\ job[w].at \in {"read", "reread"}
               /\ x.at = "clear" => Sound(job[w].recs, job[w].len) /\ job[w].at = "decide"
               /\ job[w].at \in {"cadence", "head"} => x.at \in {"idle", "head", "read"}
               /\ job[w].at = "read" => x.at = "check"
               /\ job[w].at = "check" => x.at = "idle" \/ Writable(job[w].recs)
<1>0. JobOK(job[w]) /\ Idle.at = "idle" /\ job = [v \in Writers |-> job[v]]
  BY DEF SinkInv, Idle
<1>1. CASE CadenceDue(w)
  <2>1. PICK x : x = [job[w] EXCEPT !.at = "head"]
    OBVIOUS
  <2>2. Deciding(job[w])
    BY <1>0, <1>1, AtDeciding DEF CadenceDue
  <2>3. x.at = "head"
    BY <2>1, <2>2 DEF Deciding
  <2>4. job' = [job EXCEPT ![w] = x]
    BY <1>0, <1>1, <2>1 DEF CadenceDue, Goto
  <2> QED
    BY <1>0, <1>1, <2>3, <2>4 DEF CadenceDue, Goto
<1>2. CASE CadenceFresh(w) \/ CadenceBackoff(w)
  BY <1>0, <1>2 DEF CadenceFresh, CadenceBackoff
<1>3. CASE TakeHead(w)
  <2>1. PICK x : x = [at |-> "read", cadence |-> job[w].cadence, wrote |-> FALSE,
                      goal |-> Anchor(chain), recs |-> <<>>, len |-> 0, prior |-> FALSE]
    OBVIOUS
  <2>2. job' = [job EXCEPT ![w] = x] /\ x.at = "read"
    BY <1>3, <2>1 DEF TakeHead
  <2> QED
    BY <1>0, <1>3, <2>2 DEF TakeHead
<1>4. CASE TakeHeadEmpty(w)
  BY <1>0, <1>4 DEF TakeHeadEmpty, Fail
<1>5. CASE CheckRefused(w) \/ SinkRefuses(w) \/ DecideWriteFailed(w)
  BY <1>0, <1>5 DEF CheckRefused, SinkRefuses, DecideWriteFailed, Fail
<1>6. CASE DecideDegraded(w) \/ ClearFailure(w) \/ Finish(w)
  BY <1>0, <1>6 DEF DecideDegraded, ClearFailure, Finish
<1>7. CASE ReadSink(w)
  <2>1. PICK a : a = IF job[w].at = "read" THEN "check" ELSE "decide"
    OBVIOUS
  <2>2. PICK x : x = [job[w] EXCEPT !.recs = sink, !.at = a]
    OBVIOUS
  <2>3. Writing(job[w])
    BY <1>0, <1>7, AtWriting DEF ReadSink
  <2>4. x.at = a /\ x.recs = sink
    BY <2>2, <2>3 DEF Writing
  <2>5. job' = [job EXCEPT ![w] = x]
    BY <1>0, <1>7, <2>1, <2>2 DEF ReadSink
  <2> QED
    BY <1>0, <1>7, <2>1, <2>4, <2>5 DEF ReadSink
<1>8. CASE CheckNew(w) \/ CheckReached(w) \/ DecideOk(w) \/ RecordHead(w)
  <2>1. PICK a : a = CASE CheckNew(w) -> "append"
                       [] job[w].at = "check" /\ ~CheckNew(w) ->
                              IF IsAnchor(job[w].goal) THEN "look" ELSE "finish"
                       [] job[w].at = "decide" ->
                              IF IsAnchor(job[w].goal) THEN "clear" ELSE "finish"
                       [] OTHER -> IF IsAnchor(job[w].goal) THEN "look" ELSE "reread"
    OBVIOUS
  <2>2. PICK x : x = [job[w] EXCEPT !.at = a]
    OBVIOUS
  <2>3. Writing(job[w])
    BY <1>0, <1>8, AtWriting DEF CheckNew, CheckReached, DecideOk, RecordHead
  <2>4. x.at = a
    BY <2>2, <2>3 DEF Writing
  <2>5. job' = [job EXCEPT ![w] = x]
    BY <1>0, <1>8, <2>1, <2>2 DEF CheckNew, CheckReached, DecideOk, RecordHead, Goto
  <2>6. UNCHANGED <<loss, chain, backup, sink, acked>>
    BY <1>8 DEF CheckNew, CheckReached, DecideOk, RecordHead, Goto
  <2>7. a = "clear" => Sound(job[w].recs, job[w].len) /\ job[w].at = "decide"
    BY <1>8, <2>1 DEF CheckNew, CheckReached, DecideOk, RecordHead, ReadBack, Verified
  <2>8. /\ job[w].at \in {"check", "decide", "record"}
        /\ job[w].at = "record" \/ recorded' = recorded
        /\ job[w].at = "check" => Writable(job[w].recs)
    BY <1>8 DEF CheckNew, CheckReached, DecideOk, RecordHead, Goto
  <2>9. a \notin {"check", "decide"}
    BY <2>1
  <2> QED
    BY <1>0, <2>4, <2>5, <2>6, <2>7, <2>8, <2>9
<1>9. CASE SinkAppend(w)
  <2>1. PICK x : x = [job[w] EXCEPT !.at = "record", !.wrote = TRUE]
    OBVIOUS
  <2>2. Writing(job[w])
    BY <1>0, <1>9, AtWriting DEF SinkAppend
  <2>3. x.at = "record"
    BY <2>1, <2>2 DEF Writing
  <2>4. job' = [job EXCEPT ![w] = x]
    BY <1>0, <1>9, <2>1 DEF SinkAppend
  <2> QED
    BY <1>0, <1>9, <2>3, <2>4 DEF SinkAppend, Appended
<1>10. CASE Look(w)
  <2>1. PICK x : x = [job[w] EXCEPT !.at = "reread", !.len = Len(chain),
                                    !.prior = failed /\ ~job[w].wrote]
    OBVIOUS
  <2>2. Writing(job[w])
    BY <1>0, <1>10, AtWriting DEF Look
  <2>3. x.at = "reread"
    BY <2>1, <2>2 DEF Writing
  <2>4. job' = [job EXCEPT ![w] = x]
    BY <1>0, <1>10, <2>1 DEF Look
  <2> QED
    BY <1>0, <1>10, <2>3, <2>4 DEF Look
<1> QED
  BY <1>1, <1>2, <1>3, <1>4, <1>5, <1>6, <1>7, <1>8, <1>9, <1>10 DEF Step

\* Sequences of zeros: none of them gains a prefix from a row that is none.
LEMMA ZerosOnly ==
    ASSUME NEW r \in Zeros, NEW s \in ChainRows, ~IsPrefix(r, s)
    PROVE  ~IsPrefix(r, Append(s, 1))
<1>1. SUFFICES ASSUME IsPrefix(r, Append(s, 1)) PROVE FALSE
  OBVIOUS
<1>2. PICK t : t = Append(s, 1)
  OBVIOUS
<1>3. PICK n : n = Len(r)
  OBVIOUS
<1>4. PICK m : m = Len(s)
  OBVIOUS
<1>5. /\ n \in Nat /\ m \in Nat /\ Len(t) = m + 1 /\ t \in ChainRows
      /\ t[m + 1] = 1 /\ \A i \in 1..m : t[i] = s[i]
  BY <1>2, <1>3, <1>4 DEF Zeros, ChainRows
<1>6. n <= m + 1 /\ SubSeq(r, 1, n) = SubSeq(t, 1, n)
  BY <1>1, <1>2, <1>3, <1>5 DEF IsPrefix
<1>7. \A i \in 1..n : r[i] = t[i] /\ r[i] = 0
  <2>1. \A i \in 1..n : SubSeq(r, 1, n)[i] = r[i] /\ r[i] = 0
    BY <1>3 DEF Zeros
  <2>2. \A i \in 1..n : SubSeq(t, 1, n)[i] = t[i]
    BY <1>5, <1>6 DEF ChainRows
  <2> QED
    BY <1>6, <2>1, <2>2
<1>8. n <= m
  BY <1>5, <1>6, <1>7
<1>9. SubSeq(t, 1, n) = SubSeq(s, 1, n)
  <2>1. s \in Seq(0..1) /\ t \in Seq(0..1)
    BY <1>5 DEF ChainRows
  <2>2. SubSeq(s, 1, n) = [i \in 1..n |-> s[i]]
    BY <1>4, <1>5, <1>8, <2>1
  <2>3. SubSeq(t, 1, n) = [i \in 1..n |-> t[i]]
    BY <1>5, <1>8, <2>1
  <2> QED
    BY <1>5, <1>8, <2>2, <2>3
<1> QED
  BY <1>3, <1>4, <1>6, <1>8, <1>9 DEF IsPrefix

\* What starts a writer, or stops it, touches nothing else but the chain.
LEMMA StartFacts ==
    ASSUME SinkInv, NEW p \in Procs,
           AppendRow(p) \/ AnchorStart(p) \/ PinStart(p) \/ TimerFires(p)
           \/ BackoffElapses(p) \/ Crash(p)
    PROVE  /\ UNCHANGED <<sink, recorded, acked, loss, backup>>
           /\ \/ chain' = chain
              \/ chain' = Append(chain, IF loss \in {"rows", "chain"} THEN 1 ELSE 0)
           /\ \A v \in Writers :
                \/ job'[v] = job[v]
                \/ job'[v].at \in {"idle", "cadence", "head"}
                \/ job'[v].at = "read" /\ ~IsAnchor(job'[v].goal)
<1>0. <<p, "fg">> \in Writers /\ <<p, "bg">> \in Writers /\ Idle.at = "idle"
      /\ job = [v \in Writers |-> job[v]]
  BY DEF Writers, Idle, SinkInv
<1>1. CASE AppendRow(p)
  BY <1>0, <1>1 DEF AppendRow
<1>2. CASE AnchorStart(p)
  BY <1>0, <1>2 DEF AnchorStart
<1>3. CASE PinStart(p)
  <2>1. PICK m \in Manifests, d \in Digests :
            job' = [job EXCEPT ![<<p, "fg">>] =
                       [at |-> "read", cadence |-> FALSE, wrote |-> FALSE,
                        goal |-> Pin(m, d), recs |-> <<>>, len |-> 0, prior |-> FALSE]]
    BY <1>3 DEF PinStart
  <2>2. ~IsAnchor(Pin(m, d))
    BY DEF IsAnchor, Pin
  <2>3. \A v \in Writers : \/ job'[v] = job[v]
                           \/ job'[v].at = "read" /\ job'[v].goal = Pin(m, d)
    BY <1>0, <2>1
  <2> QED
    BY <1>3, <2>2, <2>3 DEF PinStart
<1>4. CASE TimerFires(p)
  BY <1>0, <1>4 DEF TimerFires
<1>5. CASE BackoffElapses(p)
  BY <1>5 DEF BackoffElapses
<1>6. CASE Crash(p)
  BY <1>0, <1>6 DEF Crash
<1> QED
  BY <1>1, <1>2, <1>3, <1>4, <1>5, <1>6

\* What else happens while something is lost.
LEMMA RestFacts ==
    ASSUME loss # "none", IntervalElapses \/ Backup \/ Restore \/ SinkCut
                          \/ UNCHANGED vars
    PROVE  UNCHANGED <<chain, sink, recorded, acked, loss, job>>
BY DEF IntervalElapses, Backup, Restore, SinkCut, vars

\* A lost row stays lost: no receipt is ok while an anchor of it is in the sink.
LEMMA GoneStays ==
    ASSUME SinkInv, loss = "chain", NEW r, Gone(r), [Next]_vars
    PROVE  Gone(r)' /\ loss' = "chain"
<1>0. sink \in Seq(SinkRecords) /\ chain \in ChainRows /\ r \in Zeros
  BY DEF SinkInv, Gone
<1>1. ASSUME NEW w \in Writers, Step(w) PROVE Gone(r)' /\ loss' = "chain"
  <2>1. PICK x :
          /\ job' = [job EXCEPT ![w] = x]
          /\ x.at \in {"check", "decide"} =>
                 x.recs = sink /\ job[w].at \in {"read", "reread"}
          /\ x.at = "clear" => Sound(job[w].recs, job[w].len) /\ job[w].at = "decide"
    BY <1>1, StepFacts
  <2>2. UNCHANGED <<loss, chain>> /\ (sink' = sink \/ \E g : sink' = Append(sink, g))
    BY <1>1, StepFacts
  <2>3. Anchor(r) \in ToSet(sink')
    <3>1. PICK i \in DOMAIN sink : sink[i] = Anchor(r)
      BY DEF Gone, ToSet
    <3>2. i \in DOMAIN sink' /\ sink'[i] = sink[i]
      BY <1>0, <2>2, <3>1
    <3> QED
      BY <3>1, <3>2 DEF ToSet
  <2>4. x.at # "clear"
    <3>1. SUFFICES ASSUME x.at = "clear" PROVE FALSE
      OBVIOUS
    <3>2. PICK i \in DOMAIN job[w].recs : job[w].recs[i] = Anchor(r)
      BY <2>1, <3>1 DEF Gone, ToSet
    <3>3. IsAnchor(job[w].recs[i]) /\ job[w].recs[i].row = r
      BY <3>2 DEF IsAnchor, Anchor
    <3>4. IsPrefix(r, chain)
      BY <2>1, <3>1, <3>3 DEF Sound
    <3> QED
      BY <3>4 DEF Gone
  <2>5. x.at = "decide" => Anchor(r) \in ToSet(x.recs)
    BY <2>1 DEF Gone
  <2>6. \A v \in Writers : /\ job'[v].at = "decide" => Anchor(r) \in ToSet(job'[v].recs)
                           /\ job'[v].at # "clear"
    <3>1. \A v \in Writers : job'[v] = IF v = w THEN x ELSE job[v]
      BY <2>1 DEF SinkInv
    <3> QED
      BY <2>4, <2>5, <3>1 DEF Gone
  <2>7. ~IsPrefix(r, chain')
    BY <2>2 DEF Gone
  <2> QED
    BY <1>0, <2>2, <2>3, <2>6, <2>7 DEF Gone
<1>2. ASSUME NEW p \in Procs,
             AppendRow(p) \/ AnchorStart(p) \/ PinStart(p) \/ TimerFires(p)
             \/ BackoffElapses(p) \/ Crash(p)
      PROVE  Gone(r)' /\ loss' = "chain"
  <2>1. chain' = chain \/ chain' = Append(chain, 1)
    BY <1>2, StartFacts
  <2>2. ~IsPrefix(r, chain')
    BY <1>0, <2>1, ZerosOnly DEF Gone
  <2>3. \A v \in Writers : job'[v] = job[v] \/ job'[v].at \notin {"decide", "clear"}
    BY <1>2, StartFacts
  <2>4. UNCHANGED <<sink, loss>>
    BY <1>2, StartFacts
  <2> QED
    BY <1>0, <2>2, <2>3, <2>4 DEF Gone
<1>3. CASE IntervalElapses \/ Backup \/ Restore \/ SinkCut \/ UNCHANGED vars
  BY <1>3, RestFacts DEF Gone
<1> QED
  BY <1>1, <1>2, <1>3 DEF Next

\* Once the recorded head is gone from the sink, nothing is written any more.
LEMMA HeadStaysLost ==
    ASSUME SinkInv, loss = "sink", HeadLost, [Next]_vars
    PROVE  HeadLost' /\ loss' = "sink"
<1>0. sink \in Seq(SinkRecords)
  BY DEF SinkInv
<1>1. ASSUME NEW w \in Writers, Step(w) PROVE HeadLost' /\ loss' = "sink"
  <2>1. PICK x :
          /\ job' = [job EXCEPT ![w] = x]
          /\ x.at \in {"check", "decide"} =>
                 x.recs = sink /\ job[w].at \in {"read", "reread"}
          /\ job[w].at \in {"cadence", "head"} => x.at \in {"idle", "head", "read"}
          /\ job[w].at = "read" => x.at = "check"
          /\ job[w].at = "check" => x.at = "idle" \/ Writable(job[w].recs)
    BY <1>1, StepFacts
  <2>2. job[w].at \in {"idle", "cadence", "head", "read", "check"}
    BY DEF HeadLost
  <2>3. UNCHANGED <<sink, recorded, loss>>
    BY <1>1, <2>2, StepFacts
  <2>4. ~Writable(sink)
    <3>1. Last(sink) \in ToSet(sink)
      BY <1>0 DEF HeadLost, Last, ToSet
    <3> QED
      BY <3>1 DEF HeadLost, Writable, HeadRecorded
  <2>5. job[w].at # "idle"
    BY <1>1 DEF Step, CadenceDue, CadenceFresh, CadenceBackoff, TakeHead,
       TakeHeadEmpty, ReadSink, CheckNew, CheckReached, CheckRefused, SinkAppend,
       SinkRefuses, RecordHead, Look, DecideOk, DecideWriteFailed, DecideDegraded,
       ClearFailure, Finish
  <2>6. x.at \in {"idle", "head", "read", "check"} /\ (x.at = "check" => x.recs = sink)
    BY <2>1, <2>2, <2>4, <2>5 DEF HeadLost
  <2>7. \A v \in Writers : job'[v] = IF v = w THEN x ELSE job[v]
    BY <2>1 DEF SinkInv
  <2> QED
    BY <2>3, <2>6, <2>7 DEF HeadLost
<1>2. ASSUME NEW p \in Procs,
             AppendRow(p) \/ AnchorStart(p) \/ PinStart(p) \/ TimerFires(p)
             \/ BackoffElapses(p) \/ Crash(p)
      PROVE  HeadLost' /\ loss' = "sink"
  <2>1. \A v \in Writers : job'[v] = job[v] \/ job'[v].at \in {"idle", "cadence", "head", "read"}
    BY <1>2, StartFacts
  <2>2. UNCHANGED <<sink, recorded, loss>>
    BY <1>2, StartFacts
  <2> QED
    BY <2>1, <2>2 DEF HeadLost
<1>3. CASE IntervalElapses \/ Backup \/ Restore \/ SinkCut \/ UNCHANGED vars
  BY <1>3, RestFacts DEF HeadLost
<1> QED
  BY <1>1, <1>2, <1>3 DEF Next

(***************************************************************************)
(* Before anything is lost.                                                *)
(***************************************************************************)
LEMMA Distinct ==
    ASSUME SinkInv, NEW i \in DOMAIN sink, NEW j \in DOMAIN sink, sink[i] = sink[j]
    PROVE  i = j
<1>1. i \in Nat /\ j \in Nat /\ sink[i] \in SinkRecords /\ sink[j] \in SinkRecords
  BY DEF SinkInv
<1>2. CASE IsAnchor(sink[i])
  <2>1. i \in AnchorsIn(sink) /\ j \in AnchorsIn(sink)
    BY <1>2 DEF AnchorsIn
  <2>2. Len(sink[i].row) \in Nat
    BY <1>1, <1>2 DEF IsAnchor, SinkRecords, ChainRows
  <2>3. ~(i < j) /\ ~(j < i)
    BY <2>1, <2>2 DEF SinkInv, SinkOrdered, Increasing
  <2> QED
    BY <1>1, <2>3
<1>3. CASE ~IsAnchor(sink[i])
  <2>1. sink[i].kind = "pin" /\ sink[i].manifest \in Manifests
    BY <1>1, <1>3 DEF IsAnchor, SinkRecords
  <2>2. i \in PinsOf(sink, sink[i].manifest) /\ j \in PinsOf(sink, sink[i].manifest)
    BY <2>1 DEF PinsOf
  <2> QED
    BY <2>1, <2>2 DEF SinkInv, SinkOrdered, ValidRecords
<1> QED
  BY <1>2, <1>3

LEMMA FreshIsNew ==
    ASSUME SinkInv, NEW j, Fresh(j), Appendable(j.goal)
    PROVE  j.goal \notin ToSet(sink)
<1>1. CASE ~IsAnchor(j.goal)
  BY <1>1 DEF Fresh
<1>2. CASE IsAnchor(j.goal)
  <2>1. SUFFICES ASSUME NEW k \in DOMAIN sink, sink[k] = j.goal PROVE FALSE
    BY DEF ToSet
  <2>2. k \in AnchorsIn(sink) /\ HasAnchor(sink)
    BY <1>2, <2>1 DEF AnchorsIn, HasAnchor
  <2>3. PICK m \in AnchorsIn(sink) :
            /\ LatestRow(sink) = sink[m].row
            /\ \A i \in AnchorsIn(sink) : i <= m
    BY <2>2, LastAnchor DEF SinkInv
  <2>4. Len(sink[k].row) > Len(sink[m].row)
    BY <1>2, <2>1, <2>2, <2>3 DEF Fresh, Appendable
  <2>5. /\ k \in Nat /\ m \in Nat /\ k <= m
        /\ Len(sink[k].row) \in Nat /\ Len(sink[m].row) \in Nat
    BY <2>2, <2>3 DEF SinkInv, AnchorsIn, IsAnchor, SinkRecords, ChainRows
  <2>6. k < m => Len(sink[k].row) < Len(sink[m].row)
    BY <2>2, <2>3 DEF SinkInv, SinkOrdered, Increasing
  <2> QED
    BY <2>4, <2>5, <2>6
<1> QED
  BY <1>1, <1>2

LEMMA KnowsStays ==
    ASSUME NEW j, Knows(j), UNCHANGED <<sink, recorded, acked>>
    PROVE  Knows(j)'
BY DEF Knows, Behind, Fresh

LEMMA IdleKnows == Knows(Idle) /\ Knows(Idle)'
BY DEF Knows, Idle

\* A step that changes none of the records.
LEMMA QuietStep ==
    ASSUME SinkInv, NothingLost, UNCHANGED <<sink, recorded, acked>>, chain' \in Zeros,
           \A v \in Writers : job'[v] = job[v] \/ Knows(job'[v])
    PROVE  NothingLost'
<1>1. \A v \in Writers : Knows(job'[v])
  BY DEF NothingLost
<1>2. ASSUME NEW v \in Writers PROVE Knows(job[v])'
  <2>1. PICK j : j = job'[v]
    OBVIOUS
  <2>2. Knows(j)'
    BY <1>1, <2>1, KnowsStays
  <2> QED
    BY <2>1, <2>2 DEF Knows, Behind, Fresh
<1>3. Behind(recorded)'
  BY DEF NothingLost, Behind
<1> QED
  BY <1>2, <1>3 DEF NothingLost

LEMMA QuietWrite ==
    ASSUME SinkInv, NothingLost, NEW w \in Writers, NEW x, Knows(x),
           job' = [job EXCEPT ![w] = x], UNCHANGED <<sink, recorded, acked, chain>>
    PROVE  NothingLost'
<1>1. \A v \in Writers : job'[v] = IF v = w THEN x ELSE job[v]
  BY DEF SinkInv
<1>2. \A v \in Writers : job'[v] = job[v] \/ Knows(job'[v])
  BY <1>1
<1>3. chain' \in Zeros
  BY DEF NothingLost
<1> QED
  BY <1>2, <1>3, QuietStep

\* A step of the only writer that changes records: what it knows afterwards is enough.
LEMMA LoneWrite ==
    ASSUME \E p : Procs = {p}, SinkInv, OneWriter, NEW w \in Writers, job[w] # Idle,
           NEW x, Knows(x)', job' = [job EXCEPT ![w] = x]
    PROVE  (\A v \in Writers : Knows(job[v]))'
<1>1. SUFFICES ASSUME NEW v \in Writers PROVE Knows(job[v])'
  OBVIOUS
<1>2. CASE v = w
  <2>1. job'[v] = x
    BY <1>2 DEF SinkInv
  <2> QED
    BY <2>1 DEF Knows, Behind, Fresh
<1>3. CASE v # w
  <2>1. job'[v] = Idle
    BY <1>3, Alone DEF SinkInv
  <2> QED
    BY <2>1 DEF Knows, Idle
<1> QED
  BY <1>2, <1>3

LEMMA AnchorShape ==
    ASSUME NEW rec \in SinkRecords, IsAnchor(rec)
    PROVE  rec = Anchor(rec.row)
BY DEF SinkRecords, IsAnchor, Anchor

LEMMA AppendKnows ==
    ASSUME \E p : Procs = {p}, SinkInv, OneWriter, NothingLost,
           NEW w \in Writers, SinkAppend(w)
    PROVE  NothingLost'
<1>0. Knows(job[w]) /\ job[w].at = "append"
  BY DEF NothingLost, SinkAppend
<1>1. Writing(job[w])
  BY <1>0, AtWriting DEF SinkInv
<1>2. PICK x : x = [job[w] EXCEPT !.at = "record", !.wrote = TRUE]
  OBVIOUS
<1>3. x.at = "record" /\ x.goal = job[w].goal
  BY <1>1, <1>2 DEF Writing
<1>4. job' = [job EXCEPT ![w] = x]
  BY <1>2 DEF SinkAppend, SinkInv
<1>5. PICK g : g = job[w].goal
  OBVIOUS
<1>6. g \notin ToSet(sink)
  BY <1>0, <1>5, FreshIsNew DEF Knows, SinkAppend
<1>7. sink' = Append(sink, g)
  BY <1>5, <1>6 DEF SinkAppend, Appended
<1>8. PICK n : n = Len(sink)
  OBVIOUS
<1>9. /\ n \in Nat /\ DOMAIN sink = 1..n /\ DOMAIN sink' = 1..(n + 1)
      /\ \A i \in 1..n : sink'[i] = sink[i]
      /\ sink'[n + 1] = g
  BY <1>7, <1>8 DEF SinkInv
<1>10. \A r \in acked : r \in Zeros /\ \E i \in 1..n : sink[i] = Anchor(r)
  BY <1>9 DEF NothingLost, ToSet
<1>11. \A r \in acked : Anchor(r) \in ToSet(sink')
  BY <1>9, <1>10 DEF ToSet
<1>12. UNCHANGED <<acked, recorded, chain>>
  BY DEF SinkAppend
<1>13. \A k \in DOMAIN sink' : k = n + 1 =>
           \A r \in acked' : \E i \in 1..k : sink'[i] = Anchor(r)
  BY <1>9, <1>10, <1>12
<1>14. Behind(recorded)'
  <2>1. SUFFICES ASSUME NEW k \in DOMAIN sink', sink'[k] = recorded', NEW r \in acked'
                 PROVE  \E i \in 1..k : sink'[i] = Anchor(r)
    BY DEF Behind
  <2>2. CASE k \in 1..n
    <3>1. \E i \in 1..k : sink[i] = Anchor(r)
      BY <1>9, <1>12, <2>1, <2>2 DEF NothingLost, Behind
    <3> QED
      BY <1>9, <2>2, <3>1
  <2>3. CASE k = n + 1
    BY <1>13, <2>1, <2>3
  <2> QED
    BY <1>9, <2>1, <2>2, <2>3
<1>15. Behind(g)'
  <2>1. \A k \in DOMAIN sink' : sink'[k] = g => k = n + 1
    <3>1. \A k \in 1..n : sink[k] # g
      BY <1>6, <1>9 DEF ToSet
    <3> QED
      BY <1>9, <3>1
  <2> QED
    BY <1>13, <2>1 DEF Behind
<1>16. g \in ToSet(sink')
  BY <1>9 DEF ToSet
<1>17. Knows(x)'
  <2>1. x.goal = g /\ (IsAnchor(g) => g.row \in Zeros)
    BY <1>0, <1>3, <1>5 DEF Knows
  <2> HIDE <1>2
  <2> QED
    BY <1>3, <1>15, <1>16, <2>1 DEF Knows, Behind
<1>18. job[w] # Idle
  BY <1>0 DEF Idle
<1>19. (\A v \in Writers : Knows(job[v]))'
  BY <1>4, <1>17, <1>18, LoneWrite
<1> QED
  BY <1>10, <1>11, <1>12, <1>14, <1>19 DEF NothingLost

LEMMA RecordKnows ==
    ASSUME \E p : Procs = {p}, SinkInv, OneWriter, NothingLost,
           NEW w \in Writers, RecordHead(w)
    PROVE  NothingLost'
<1>0. Knows(job[w]) /\ job[w].at = "record"
  BY DEF NothingLost, RecordHead
<1>1. Writing(job[w]) /\ job[w] # Idle
  BY <1>0, AtWriting DEF SinkInv, Idle
<1>2. PICK a : a = IF IsAnchor(job[w].goal) THEN "look" ELSE "reread"
  OBVIOUS
<1>3. PICK x : x = [job[w] EXCEPT !.at = a]
  OBVIOUS
<1>4. x.at = a /\ x.goal = job[w].goal
  BY <1>1, <1>3 DEF Writing
<1>5. job' = [job EXCEPT ![w] = x]
  BY <1>2, <1>3 DEF RecordHead, SinkInv
<1>6. recorded' = job[w].goal /\ UNCHANGED <<sink, acked, chain>>
  BY DEF RecordHead
<1>7. Behind(recorded)'
  BY <1>0, <1>6 DEF Knows, Behind
<1>8. a \in {"look", "reread"}
  BY <1>2
<1>9. /\ x.goal \in ToSet(sink) \/ ~IsAnchor(x.goal)
      /\ IsAnchor(x.goal) => x.goal.row \in Zeros
  BY <1>0, <1>4 DEF Knows
<1>10. Knows(x)'
  <2> HIDE <1>3
  <2> QED
    BY <1>4, <1>6, <1>8, <1>9 DEF Knows
<1>11. (\A v \in Writers : Knows(job[v]))'
  BY <1>1, <1>5, <1>10, LoneWrite
<1> QED
  BY <1>6, <1>7, <1>11 DEF NothingLost

LEMMA ClearKnows ==
    ASSUME \E p : Procs = {p}, SinkInv, OneWriter, NothingLost,
           NEW w \in Writers, ClearFailure(w)
    PROVE  NothingLost'
<1>0. Knows(job[w]) /\ job[w].at = "clear"
  BY DEF NothingLost, ClearFailure
<1>1. Writing(job[w]) /\ job[w] # Idle
  BY <1>0, AtWriting DEF SinkInv, Idle
<1>2. PICK g : g = job[w].goal
  OBVIOUS
<1>3. /\ g \in SinkRecords /\ IsAnchor(g) /\ g \in ToSet(sink) /\ g.row \in Zeros
      /\ sink # <<>> /\ recorded = Last(sink)
  BY <1>0, <1>1, <1>2 DEF Knows, Writing
<1>4. g = Anchor(g.row)
  BY <1>3, AnchorShape
<1>5. /\ acked' = acked \cup {g.row} /\ UNCHANGED <<sink, recorded, chain>>
      /\ job' = [job EXCEPT ![w] = Idle]
  BY <1>2 DEF ClearFailure
<1>6. \A r \in acked' : r \in Zeros /\ Anchor(r) \in ToSet(sink)
  BY <1>3, <1>4, <1>5 DEF NothingLost
<1>7. PICK n : n = Len(sink)
  OBVIOUS
<1>8. n \in Nat /\ DOMAIN sink = 1..n /\ n \in DOMAIN sink /\ recorded = sink[n]
  BY <1>3, <1>7 DEF SinkInv, Last
<1>9. \A k \in DOMAIN sink : sink[k] = recorded => k = n
  BY <1>8, Distinct
<1>10. \A r \in acked' : \E i \in 1..n : sink[i] = Anchor(r)
  BY <1>6, <1>8 DEF ToSet
<1>11. Behind(recorded)'
  BY <1>5, <1>9, <1>10 DEF Behind
<1>12. (\A v \in Writers : Knows(job[v]))'
  BY <1>1, <1>5, IdleKnows, LoneWrite
<1> QED
  BY <1>5, <1>6, <1>11, <1>12 DEF NothingLost

LEMMA WriteKnows ==
    ASSUME \E p : Procs = {p}, SinkInv, OneWriter, NothingLost, NEW w \in Writers, Step(w)
    PROVE  NothingLost'
<1>0. JobOK(job[w]) /\ Knows(job[w]) /\ job = [v \in Writers |-> job[v]]
  BY DEF SinkInv, NothingLost
<1>1. CASE CadenceDue(w)
  <2>1. PICK x : x = [job[w] EXCEPT !.at = "head"]
    OBVIOUS
  <2>2. Deciding(job[w])
    BY <1>0, <1>1, AtDeciding DEF CadenceDue
  <2>3. x.at = "head"
    BY <2>1, <2>2 DEF Deciding
  <2>4. Knows(x)
    BY <2>3 DEF Knows
  <2>5. job' = [job EXCEPT ![w] = x] /\ UNCHANGED <<sink, recorded, acked, chain>>
    BY <1>0, <1>1, <2>1 DEF CadenceDue, Goto
  <2> QED
    BY <2>4, <2>5, QuietWrite
<1>2. CASE CadenceFresh(w) \/ CadenceBackoff(w) \/ DecideDegraded(w) \/ Finish(w)
           \/ TakeHeadEmpty(w) \/ CheckRefused(w) \/ SinkRefuses(w)
           \/ DecideWriteFailed(w)
  <2>1. job' = [job EXCEPT ![w] = Idle] /\ UNCHANGED <<sink, recorded, acked, chain>>
    BY <1>2 DEF CadenceFresh, CadenceBackoff, DecideDegraded, Finish, TakeHeadEmpty,
                CheckRefused, SinkRefuses, DecideWriteFailed, Fail
  <2> QED
    BY <2>1, IdleKnows, QuietWrite
<1>3. CASE TakeHead(w)
  <2>1. PICK x : x = [at |-> "read", cadence |-> job[w].cadence, wrote |-> FALSE,
                      goal |-> Anchor(chain), recs |-> <<>>, len |-> 0, prior |-> FALSE]
    OBVIOUS
  <2>2. x.at = "read" /\ x.goal.row \in Zeros
    BY <2>1 DEF NothingLost, Anchor
  <2>3. Knows(x)
    BY <2>2 DEF Knows
  <2>4. job' = [job EXCEPT ![w] = x] /\ UNCHANGED <<sink, recorded, acked, chain>>
    BY <1>3, <2>1 DEF TakeHead
  <2> QED
    BY <2>3, <2>4, QuietWrite
<1>4. CASE ReadSink(w)
  <2>1. PICK a : a = IF job[w].at = "read" THEN "check" ELSE "decide"
    OBVIOUS
  <2>2. PICK x : x = [job[w] EXCEPT !.recs = sink, !.at = a]
    OBVIOUS
  <2>3. Writing(job[w])
    BY <1>0, <1>4, AtWriting DEF ReadSink
  <2>4. x.at = a /\ x.recs = sink /\ x.goal = job[w].goal
    BY <2>2, <2>3 DEF Writing
  <2>5. job' = [job EXCEPT ![w] = x] /\ UNCHANGED <<sink, recorded, acked, chain>>
    BY <1>0, <1>4, <2>1, <2>2 DEF ReadSink
  <2>6. Knows(x)
    <3> HIDE <2>2
    <3> QED
      BY <1>0, <1>4, <2>1, <2>4 DEF Knows, ReadSink
  <2> QED
    BY <2>5, <2>6, QuietWrite
<1>5. CASE CheckNew(w)
  <2>1. PICK x : x = [job[w] EXCEPT !.at = "append"]
    OBVIOUS
  <2>2. Writing(job[w])
    BY <1>0, <1>5, AtWriting DEF CheckNew
  <2>3. x.at = "append" /\ x.recs = job[w].recs /\ x.goal = job[w].goal
    BY <2>1, <2>2 DEF Writing
  <2>4. job' = [job EXCEPT ![w] = x] /\ UNCHANGED <<sink, recorded, acked, chain>>
    BY <1>0, <1>5, <2>1 DEF CheckNew, Goto
  <2>5. job[w].recs = sink /\ ~Reached(w)
    BY <1>0, <1>5 DEF Knows, CheckNew
  <2>6. Fresh(x)
    <3> HIDE <2>1
    <3> QED
      BY <2>3, <2>5 DEF Fresh, Reached
  <2>7. Knows(x)
    <3> HIDE <2>1
    <3> QED
      BY <1>0, <1>5, <2>3, <2>5, <2>6 DEF Knows, CheckNew
  <2> QED
    BY <2>4, <2>7, QuietWrite
<1>6. CASE CheckReached(w)
  <2>1. PICK a : a = IF IsAnchor(job[w].goal) THEN "look" ELSE "finish"
    OBVIOUS
  <2>2. PICK x : x = [job[w] EXCEPT !.at = a]
    OBVIOUS
  <2>3. Writing(job[w])
    BY <1>0, <1>6, AtWriting DEF CheckReached
  <2>4. x.at = a /\ x.goal = job[w].goal
    BY <2>2, <2>3 DEF Writing
  <2>5. job' = [job EXCEPT ![w] = x] /\ UNCHANGED <<sink, recorded, acked, chain>>
    BY <1>0, <1>6, <2>1, <2>2 DEF CheckReached, Goto
  <2>6. job[w].recs = sink /\ Reached(w)
    BY <1>0, <1>6 DEF Knows, CheckReached
  <2>7. IsAnchor(x.goal) => x.goal \in ToSet(sink)
    <3>1. SUFFICES ASSUME IsAnchor(job[w].goal) PROVE job[w].goal \in ToSet(sink)
      BY <2>4
    <3>2. HasAnchor(sink) /\ LatestRow(sink) = job[w].goal.row
      BY <2>6, <3>1 DEF Reached
    <3>3. PICK m \in AnchorsIn(sink) : LatestRow(sink) = sink[m].row
      BY <3>2, LastAnchor DEF SinkInv
    <3>4. m \in DOMAIN sink /\ sink[m] \in SinkRecords /\ IsAnchor(sink[m])
      BY <3>3 DEF AnchorsIn, SinkInv
    <3>5. sink[m] = Anchor(sink[m].row)
      BY <3>4, AnchorShape
    <3>6. job[w].goal = Anchor(job[w].goal.row)
      BY <2>3, <3>1, AnchorShape DEF Writing
    <3> QED
      BY <3>2, <3>3, <3>4, <3>5, <3>6 DEF ToSet
  <2>8. Knows(x)
    <3> HIDE <2>2
    <3> QED
      BY <1>0, <1>6, <2>1, <2>4, <2>7 DEF Knows, CheckReached
  <2> QED
    BY <2>5, <2>8, QuietWrite
<1>7. CASE Look(w)
  <2>1. PICK x : x = [job[w] EXCEPT !.at = "reread", !.len = Len(chain),
                                    !.prior = failed /\ ~job[w].wrote]
    OBVIOUS
  <2>2. Writing(job[w])
    BY <1>0, <1>7, AtWriting DEF Look
  <2>3. x.at = "reread" /\ x.goal = job[w].goal
    BY <2>1, <2>2 DEF Writing
  <2>4. job' = [job EXCEPT ![w] = x] /\ UNCHANGED <<sink, recorded, acked, chain>>
    BY <1>0, <1>7, <2>1 DEF Look
  <2>5. Knows(x)
    <3> HIDE <2>1
    <3> QED
      BY <1>0, <1>7, <2>3 DEF Knows, Look
  <2> QED
    BY <2>4, <2>5, QuietWrite
<1>8. CASE DecideOk(w)
  <2>1. PICK a : a = IF IsAnchor(job[w].goal) THEN "clear" ELSE "finish"
    OBVIOUS
  <2>2. PICK x : x = [job[w] EXCEPT !.at = a]
    OBVIOUS
  <2>3. Writing(job[w])
    BY <1>0, <1>8, AtWriting DEF DecideOk
  <2>4. x.at = a /\ x.goal = job[w].goal
    BY <2>2, <2>3 DEF Writing
  <2>5. job' = [job EXCEPT ![w] = x] /\ UNCHANGED <<sink, recorded, acked, chain>>
    BY <1>0, <1>8, <2>1, <2>2 DEF DecideOk, Goto
  <2>6. IsAnchor(job[w].goal) => sink # <<>> /\ recorded = Last(sink)
    BY <1>0, <1>8 DEF Knows, DecideOk, ReadBack, Verified, Sound, HeadRecorded
  <2>7. Knows(x)
    <3> HIDE <2>2
    <3> QED
      BY <1>0, <1>8, <2>1, <2>4, <2>6 DEF Knows, DecideOk
  <2> QED
    BY <2>5, <2>7, QuietWrite
<1> QED
  BY <1>1, <1>2, <1>3, <1>4, <1>5, <1>6, <1>7, <1>8, AppendKnows, RecordKnows, ClearKnows
     DEF Step

LEMMA StartKnows ==
    ASSUME SinkInv, loss = "none", NothingLost, NEW p \in Procs,
           AppendRow(p) \/ AnchorStart(p) \/ PinStart(p) \/ TimerFires(p)
           \/ BackoffElapses(p) \/ Crash(p)
    PROVE  NothingLost'
<1>1. UNCHANGED <<sink, recorded, acked>>
  BY StartFacts
<1>2. chain' \in Zeros
  <2>1. chain' = chain \/ chain' = Append(chain, 0)
    BY StartFacts
  <2> QED
    BY <2>1 DEF NothingLost, Zeros
<1>3. \A v \in Writers : job'[v] = job[v] \/ Knows(job'[v])
  <2>1. SUFFICES ASSUME NEW v \in Writers, job'[v] # job[v] PROVE Knows(job'[v])
    OBVIOUS
  <2>2. PICK j : j = job'[v]
    OBVIOUS
  <2>3. j.at \in {"idle", "cadence", "head"} \/ (j.at = "read" /\ ~IsAnchor(j.goal))
    BY <2>1, <2>2, StartFacts
  <2>4. Knows(j)
    BY <2>3 DEF Knows
  <2> QED
    BY <2>2, <2>4
<1> QED
  BY <1>1, <1>2, <1>3, QuietStep

(***************************************************************************)
(* The losses.                                                             *)
(***************************************************************************)
LEMMA RestoreLoses ==
    ASSUME SinkInv, NothingLost, Restore
    PROVE  loss' = "rows" \/ (loss' = "chain" /\ (\E r \in Zeros : Gone(r))')
<1>1. CASE \A r \in acked : IsPrefix(r, backup[1])
  BY <1>1 DEF Restore
<1>2. ASSUME NEW r \in acked, ~IsPrefix(r, backup[1])
      PROVE  loss' = "chain" /\ (\E s \in Zeros : Gone(s))'
  <2>1. r \in Zeros /\ Anchor(r) \in ToSet(sink)
    BY DEF NothingLost
  <2>2. \A w \in Writers : job[w] = Idle
    BY DEF Restore, AtRest
  <2>3. UNCHANGED <<sink, job>> /\ chain' = backup[1] /\ loss' = "chain"
    BY <1>2 DEF Restore
  <2>4. ~IsPrefix(r, chain')
    BY <1>2, <2>3
  <2>5. Gone(r)'
    BY <2>1, <2>2, <2>3, <2>4 DEF Gone, Idle
  <2> QED
    BY <2>1, <2>3, <2>5
<1> QED
  BY <1>1, <1>2

LEMMA CutLoses ==
    ASSUME SinkInv, NothingLost, SinkCut
    PROVE  loss' = "tail" \/ (loss' = "sink" /\ HeadLost')
<1>1. PICK n \in 1..(Len(sink) - 1) : sink' = SubSeq(sink, 1, n)
  BY DEF SinkCut
<1>2. /\ sink' # <<>> /\ DOMAIN sink' = 1..n
      /\ \A i \in 1..n : i \in DOMAIN sink /\ sink'[i] = sink[i]
  BY <1>1 DEF SinkInv
<1>3. UNCHANGED <<recorded, job>> /\ \A w \in Writers : job[w] = Idle
  BY DEF SinkCut, AtRest
<1>4. CASE recorded \notin ToSet(sink')
  <2>1. loss' = "sink"
    BY <1>4 DEF SinkCut
  <2>2. HeadLost'
    BY <1>2, <1>3, <1>4 DEF HeadLost, Idle
  <2> QED
    BY <2>1, <2>2
<1>5. CASE recorded \in ToSet(sink')
  <2>1. PICK k \in DOMAIN sink' : sink'[k] = recorded
    BY <1>5 DEF ToSet
  <2>2. k \in DOMAIN sink /\ sink[k] = recorded
    BY <1>2, <2>1
  <2>3. \A r \in acked : Anchor(r) \in ToSet(sink')
    <3>1. SUFFICES ASSUME NEW r \in acked PROVE Anchor(r) \in ToSet(sink')
      OBVIOUS
    <3>2. PICK i \in 1..k : sink[i] = Anchor(r)
      BY <2>2 DEF NothingLost, Behind
    <3>3. i \in 1..n
      BY <1>2, <2>1
    <3> QED
      BY <1>2, <3>2, <3>3 DEF ToSet
  <2> QED
    BY <1>5, <2>3 DEF SinkCut
<1> QED
  BY <1>4, <1>5

LEMMA AckInvStep ==
    ASSUME Background = FALSE, \E p : Procs = {p}, AckInv, [Next]_vars
    PROVE  AckInv'
<1>1. SinkInv' /\ OneWriter'
  BY SinkInvStep, OneWriterStays DEF AckInv
<1>2. CASE loss = "chain"
  <2>1. PICK r \in Zeros : Gone(r)
    BY <1>2 DEF AckInv
  <2>2. Gone(r)' /\ loss' = "chain"
    BY <1>2, <2>1, GoneStays DEF AckInv
  <2> QED
    BY <1>1, <2>2 DEF AckInv
<1>3. CASE loss = "sink"
  BY <1>1, <1>3, HeadStaysLost DEF AckInv
<1>4. CASE loss \in {"rows", "tail"}
  <2>1. loss' = loss
    <3>1. ASSUME NEW w \in Writers, Step(w) PROVE loss' = loss
      BY <3>1, StepFacts DEF AckInv
    <3>2. ASSUME NEW p \in Procs,
                 AppendRow(p) \/ AnchorStart(p) \/ PinStart(p) \/ TimerFires(p)
                 \/ BackoffElapses(p) \/ Crash(p)
          PROVE  loss' = loss
      BY <3>2, StartFacts DEF AckInv
    <3>3. CASE IntervalElapses \/ Backup \/ Restore \/ SinkCut \/ UNCHANGED vars
      BY <1>4, <3>3, RestFacts
    <3> QED
      BY <3>1, <3>2, <3>3 DEF AckInv, Next
  <2> QED
    BY <1>1, <1>4, <2>1 DEF AckInv
<1>5. CASE loss = "none"
  <2>0. NothingLost /\ SinkInv /\ OneWriter
    BY <1>5 DEF AckInv
  <2>1. ASSUME NEW w \in Writers, Step(w) PROVE loss' = "none" /\ NothingLost'
    BY <1>5, <2>0, <2>1, StepFacts, WriteKnows
  <2>2. ASSUME NEW p \in Procs,
               AppendRow(p) \/ AnchorStart(p) \/ PinStart(p) \/ TimerFires(p)
               \/ BackoffElapses(p) \/ Crash(p)
        PROVE  loss' = "none" /\ NothingLost'
    BY <1>5, <2>0, <2>2, StartFacts, StartKnows
  <2>3. CASE IntervalElapses \/ Backup \/ UNCHANGED vars
    <3>1. UNCHANGED <<chain, sink, recorded, acked, loss, job>>
      BY <2>3 DEF IntervalElapses, Backup, vars
    <3>2. NothingLost'
      BY <2>0, <3>1, QuietStep DEF NothingLost
    <3> QED
      BY <1>1, <1>5, <3>1, <3>2 DEF AckInv
  <2>4. CASE Restore
    BY <1>1, <2>0, <2>4, RestoreLoses DEF AckInv
  <2>5. CASE SinkCut
    BY <1>1, <2>0, <2>5, CutLoses DEF AckInv
  <2>6. CASE loss' = "none" /\ NothingLost'
    BY <1>1, <2>6 DEF AckInv
  <2> QED
    BY <2>1, <2>2, <2>3, <2>4, <2>5, <2>6 DEF Next
<1> QED
  BY <1>2, <1>3, <1>4, <1>5 DEF AckInv

\* With one process and no timer thread, anchor() returns no ok receipt once acknowledged
\* rows are gone from the database, or the sink has lost its recorded head.
THEOREM OkStaysIntact ==
    ASSUME Background = FALSE, \E p : Procs = {p}
    PROVE  Spec => []OkMeansIntact
<1>1. ASSUME Init PROVE AckInv
  <2>1. SinkInv
    BY <1>1, SinkInvInit
  <2>2. OneWriter
    <3>1. \A p \in Procs : <<p, "bg">> \in Writers
      BY DEF Writers
    <3> QED
      BY <1>1, <3>1 DEF Init, OneWriter
  <2>3. NothingLost
    <3>1. chain \in Zeros /\ acked = {} /\ sink = <<>> /\ loss = "none"
      BY <1>1 DEF Init, Zeros
    <3>2. \A w \in Writers : Knows(job[w])
      BY <1>1, IdleKnows DEF Init
    <3> QED
      BY <3>1, <3>2 DEF NothingLost, Behind
  <2> QED
    BY <1>1, <2>1, <2>2, <2>3 DEF Init, AckInv
<1>2. AckInv /\ [Next]_vars => AckInv'
  BY AckInvStep
<1>3. ASSUME AckInv PROVE OkMeansIntact
  <2>1. SUFFICES ASSUME NEW w \in Writers, job[w].at = "clear", loss \in {"chain", "sink"}
                 PROVE  FALSE
    BY DEF OkMeansIntact
  <2> QED
    BY <1>3, <2>1 DEF AckInv, Gone, HeadLost
<1> QED
  BY <1>1, <1>2, <1>3, PTL DEF Spec
================================================================================
