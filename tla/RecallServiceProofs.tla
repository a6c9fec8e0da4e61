--------------------------- MODULE RecallServiceProofs ---------------------------
(***************************************************************************)
(* Proofs about the recall service.  For any number of slots and threads   *)
(* and any watchdog settings, no slot is lost or released twice, and the   *)
(* watchdog ends no process whose handlers complete; a canary's round trip *)
(* leaves no row and rests on a fresh proof; a sustained memory breach,    *)
(* and only that, ends the process; and the rate limiter exceeds a limit   *)
(* by no more than the threads that hold an older clock reading.           *)
(***************************************************************************)
EXTENDS MCRecallService, FiniteSetTheorems, SequenceTheorems,
        WellFoundedInduction, TLAPS

(***************************************************************************)
(* Slots.                                                                  *)
(***************************************************************************)
\* The threads that hold a slot of a semaphore, and those the server counts.
Holders(pool) == {t \in Threads : InPool(t, pool)}
Counted == {t \in Threads : InPool(t, "general") /\ At(t) \notin {"started", "closing"}}

HandlerOK == handler \in [Threads -> Busy \cup {None}]

\* SlotsAccounted needs the types of what it counts.
SlotsInv ==
    /\ HandlerOK
    /\ general \in Nat /\ reserve \in Nat /\ lost \in Nat /\ active \in Nat
    /\ SlotsAccounted

LEMMA PoolsFinite ==
    /\ \A pool : IsFiniteSet(Holders(pool)) /\ Cardinality(Holders(pool)) \in Nat
    /\ IsFiniteSet(Counted) /\ Cardinality(Counted) \in Nat
<1>1. \A S \in SUBSET Threads : IsFiniteSet(S) /\ Cardinality(S) \in Nat
  BY FS_Subset, FS_CardinalityType, ServerAssumptions
<1> QED
  BY <1>1 DEF Holders, Counted

\* One element more or less.
LEMMA OneMore ==
    ASSUME NEW S \in SUBSET Threads, NEW t \in Threads \ S
    PROVE  Cardinality(S \cup {t}) = Cardinality(S) + 1
<1>1. IsFiniteSet(S)
  BY FS_Subset, ServerAssumptions
<1> QED
  BY <1>1, FS_AddElement

LEMMA OneLess ==
    ASSUME NEW S \in SUBSET Threads, NEW t \in S
    PROVE  Cardinality(S \ {t}) = Cardinality(S) - 1 /\ Cardinality(S) > 0
<1>1. IsFiniteSet(S) /\ Cardinality(S) \in Nat
  BY FS_Subset, FS_CardinalityType, ServerAssumptions
<1>2. Cardinality(S \ {t}) = Cardinality(S) - 1
  BY <1>1, FS_RemoveElement
<1>3. IsFiniteSet(S \ {t})
  BY <1>1, FS_Subset
<1>4. Cardinality(S \ {t}) \in Nat
  BY <1>3, FS_CardinalityType
<1> QED
  BY <1>1, <1>2, <1>4

\* While a semaphore has a slot left, a thread is free.
LEMMA FreeThread ==
    ASSUME SlotsInv, general > 0 \/ reserve > 0
    PROVE  \E t \in Threads : At(t) = "none"
<1> SUFFICES ASSUME \A t \in Threads : At(t) # "none" PROVE FALSE
  OBVIOUS
<1>1. \A t \in Threads : handler[t] \in Busy
  BY DEF At, SlotsInv, HandlerOK, None
<1>2. Threads = Holders("general") \cup Holders("reserve")
  BY <1>1 DEF Busy, Request, Holders, InPool, Of
<1>3. Holders("general") \cap Holders("reserve") = {}
  BY DEF Holders, InPool
<1>4. Cardinality(Threads) =
        Cardinality(Holders("general")) + Cardinality(Holders("reserve"))
          - Cardinality({})
  BY <1>2, <1>3, PoolsFinite, FS_Union
<1>5. Cardinality({}) = 0
  BY FS_EmptySet
<1>6. /\ general + lost + Cardinality(Holders("general")) = MaxWorkers
      /\ reserve + Cardinality(Holders("reserve")) = Reserved
  BY DEF SlotsInv, SlotsAccounted, Holders
<1>7. MaxWorkers \in Nat /\ Reserved \in Nat
  BY ServerAssumptions
<1>8. Cardinality(Threads) < MaxWorkers + Reserved
  BY <1>4, <1>5, <1>6, <1>7, PoolsFinite DEF SlotsInv
<1>9. Cardinality(Threads) \in Nat
  BY ServerAssumptions, FS_CardinalityType
<1> QED
  BY <1>7, <1>8, <1>9, ServerAssumptions

\* A handler that starts takes the slot that was taken for it.
LEMMA StartTakes ==
    ASSUME SlotsInv, NEW path \in {"health", "engine"},
           NEW client \in {"remote", "loopback", "probe"},
           Slot(client) # "none", TakeSlot(Slot(client)), StartHandler(path, client),
           UNCHANGED <<active, lost>>
    PROVE  SlotsInv'
<1>1. PICK pool \in {"general", "reserve"} :
        /\ pool = Slot(client)
        /\ pool = "general" => general > 0
        /\ pool = "reserve" => reserve > 0
  BY DEF Slot, SlotsInv
<1>2. PICK t \in Threads :
        At(t) = "none" /\ t = CHOOSE u \in Threads : At(u) = "none"
  BY <1>1, FreeThread
<1>4. PICK h \in Busy :
        /\ h.at = "started" /\ h.req.pool = pool
        /\ handler' = [handler EXCEPT ![t] = h]
  <2> DEFINE h == [at |-> "started",
                   req |-> [path |-> path, client |-> Seen(client), pool |-> Slot(client)]]
  <2>1. Seen(client) \in {"remote", "loopback", "probe"}
    BY DEF Seen
  <2>2. h \in Busy /\ h.at = "started" /\ h.req.pool = pool
    BY <1>1, <2>1 DEF Busy, Request
  <2>3. handler' = [handler EXCEPT ![t] = h]
    BY <1>2 DEF StartHandler
  <2> QED
    BY <2>2, <2>3
<1>3. handler' = [handler EXCEPT ![t] = h]
  BY <1>4
<1>5. HandlerOK'
  BY <1>2, <1>3, <1>4 DEF HandlerOK, SlotsInv
<1>6. \A u \in Threads : u # t => handler'[u] = handler[u]
  BY <1>2, <1>3 DEF SlotsInv, HandlerOK
<1>7. handler'[t] = h
  BY <1>2, <1>3 DEF SlotsInv, HandlerOK
<1>8. Holders(pool)' = Holders(pool) \cup {t} /\ t \notin Holders(pool)
  BY <1>2, <1>4, <1>6, <1>7 DEF Holders, InPool, At, Of
<1>9. \A q \in {"general", "reserve"} : q # pool => Holders(q)' = Holders(q)
  BY <1>2, <1>4, <1>6, <1>7 DEF Holders, InPool, At, Of
<1>10. Counted' = Counted
  BY <1>2, <1>4, <1>6, <1>7 DEF Counted, InPool, At, Of
<1>11. Cardinality(Holders(pool)') = Cardinality(Holders(pool)) + 1
  <2>1. Holders(pool) \in SUBSET Threads
    BY DEF Holders
  <2> QED
    BY <1>2, <1>8, <2>1, OneMore
<1>12. TakeSlot(pool)
  BY <1>1
<1>13. MaxWorkers \in Nat /\ Reserved \in Nat
  BY ServerAssumptions
<1>14. /\ general \in Nat /\ reserve \in Nat /\ lost \in Nat /\ active \in Nat
       /\ general + lost + Cardinality(Holders("general")) = MaxWorkers
       /\ reserve + Cardinality(Holders("reserve")) = Reserved
       /\ active = Cardinality(Counted)
  BY DEF SlotsInv, SlotsAccounted, Holders, Counted
<1>15. /\ general' \in Nat /\ reserve' \in Nat /\ lost' \in Nat /\ active' \in Nat
       /\ general' + lost' + Cardinality(Holders("general")') = MaxWorkers
       /\ reserve' + Cardinality(Holders("reserve")') = Reserved
       /\ active' = Cardinality(Counted')
  <2>1. CASE pool = "general"
    BY <2>1, <1>1, <1>9, <1>10, <1>11, <1>12, <1>13, <1>14, PoolsFinite DEF TakeSlot
  <2>2. CASE pool = "reserve"
    BY <2>2, <1>1, <1>9, <1>10, <1>11, <1>12, <1>13, <1>14, PoolsFinite DEF TakeSlot
  <2> QED
    BY <1>1, <2>1, <2>2
<1> QED
  BY <1>5, <1>15 DEF SlotsInv, SlotsAccounted, Holders, Counted

\* A handler that goes on keeps its slot; only two of its steps change the count.
LEMMA GoesKeeps ==
    ASSUME SlotsInv, NEW t \in Threads, At(t) # "none",
           NEW at \in {"reading", "locking", "inEngine", "leaving", "closing"},
           handler' = [handler EXCEPT ![t].at = at],
           UNCHANGED <<general, reserve, lost>>,
           IF At(t) = "started" /\ at # "closing" /\ Of(t).pool = "general"
           THEN active' = active + 1
           ELSE IF At(t) \notin {"started", "closing"} /\ at = "closing" /\ Of(t).pool = "general"
           THEN active' = active - 1
           ELSE active' = active /\ (Of(t).pool = "general" =>
                    (At(t) \in {"started", "closing"} <=> at = "closing"))
    PROVE  SlotsInv'
<1>1. handler[t] \in Busy
  BY DEF SlotsInv, HandlerOK, At, None
<1>2. /\ handler'[t] \in Busy /\ handler'[t].req = handler[t].req /\ handler'[t].at = at
      /\ \A u \in Threads : u # t => handler'[u] = handler[u]
  BY <1>1 DEF SlotsInv, HandlerOK, Busy
<1>3. HandlerOK'
  BY <1>2 DEF SlotsInv, HandlerOK
<1>4. Of(t)' = Of(t) /\ At(t)' = at /\ at # "none"
  BY <1>2 DEF Of, At
<1>5. ASSUME NEW pool PROVE Holders(pool)' = Holders(pool)
  BY <1>2, <1>4 DEF Holders, InPool, At, Of
<1>6. active' \in Nat /\ active' = Cardinality(Counted')
  <2>1. active = Cardinality(Counted) /\ Counted \in SUBSET Threads /\ active \in Nat
    BY DEF SlotsInv, SlotsAccounted, Counted
  <2>2. CASE At(t) = "started" /\ at # "closing" /\ Of(t).pool = "general"
    <3>1. Counted' = Counted \cup {t} /\ t \notin Counted
      BY <2>2, <1>2, <1>4 DEF Counted, InPool, At, Of
    <3> QED
      BY <2>1, <2>2, <3>1, OneMore
  <2>3. CASE At(t) \notin {"started", "closing"} /\ at = "closing" /\ Of(t).pool = "general"
    <3>1. Counted' = Counted \ {t} /\ t \in Counted
      BY <2>3, <1>2, <1>4 DEF Counted, InPool, At, Of
    <3> QED
      BY <2>1, <2>3, <3>1, OneLess
  <2>4. CASE /\ active' = active
             /\ Of(t).pool = "general" => (At(t) \in {"started", "closing"} <=> at = "closing")
    <3>1. Counted' = Counted
      BY <2>4, <1>2, <1>4 DEF Counted, InPool, At, Of
    <3> QED
      BY <2>1, <2>4, <3>1
  <2> QED
    BY <2>2, <2>3, <2>4
<1> QED
  BY <1>3, <1>5, <1>6 DEF SlotsInv, SlotsAccounted, Holders, Counted

\* A handler that ends gives back the slot it holds.
LEMMA ReleaseGives == ASSUME SlotsInv, NEW t \in Threads, Release(t) PROVE SlotsInv'
<1>1. handler[t] \in Busy /\ At(t) = "closing"
  BY DEF SlotsInv, HandlerOK, At, None, Release
<1>2. handler'[t] = None /\ \A u \in Threads : u # t => handler'[u] = handler[u]
  BY DEF SlotsInv, HandlerOK, Release
<1>3. HandlerOK'
  BY <1>2 DEF SlotsInv, HandlerOK, Release
<1>4. PICK pool \in {"general", "reserve"} : pool = Of(t).pool /\ t \in Holders(pool)
  BY <1>1 DEF Busy, Request, Of, Holders, InPool
<1>5. Holders(pool)' = Holders(pool) \ {t}
  <2>1. At(t)' = "none"
    BY <1>2 DEF At, None
  <2> QED
    BY <1>2, <2>1 DEF Holders, InPool, At, Of
<1>6. \A q : q # pool => Holders(q)' = Holders(q)
  BY <1>2, <1>4 DEF Holders, InPool, At, Of, None
<1>7. Counted' = Counted
  BY <1>1, <1>2 DEF Counted, InPool, At, Of, None
<1>8. Cardinality(Holders(pool)') = Cardinality(Holders(pool)) - 1
  <2>1. Holders(pool) \in SUBSET Threads
    BY DEF Holders
  <2> QED
    BY <1>4, <1>5, <2>1, OneLess
<1>9. /\ general' = IF pool = "general" THEN general + 1 ELSE general
      /\ reserve' = IF pool = "reserve" THEN reserve + 1 ELSE reserve
      /\ UNCHANGED <<active, lost>>
  BY <1>4 DEF Release, history
<1>10. MaxWorkers \in Nat /\ Reserved \in Nat
  BY ServerAssumptions
<1>11. /\ general \in Nat /\ reserve \in Nat /\ lost \in Nat /\ active \in Nat
       /\ general + lost + Cardinality(Holders("general")) = MaxWorkers
       /\ reserve + Cardinality(Holders("reserve")) = Reserved
       /\ active = Cardinality(Counted)
  BY DEF SlotsInv, SlotsAccounted, Holders, Counted
<1>12. /\ general' \in Nat /\ reserve' \in Nat /\ lost' \in Nat /\ active' \in Nat
       /\ general' + lost' + Cardinality(Holders("general")') = MaxWorkers
       /\ reserve' + Cardinality(Holders("reserve")') = Reserved
       /\ active' = Cardinality(Counted')
  <2>1. CASE pool = "general"
    <3>1. /\ general' = general + 1 /\ reserve' = reserve /\ lost' = lost /\ active' = active
          /\ Cardinality(Holders("general")') = Cardinality(Holders("general")) - 1
          /\ Holders("reserve")' = Holders("reserve")
      BY <2>1, <1>6, <1>8, <1>9
    <3> QED
      BY <3>1, <1>7, <1>10, <1>11, PoolsFinite
  <2>2. CASE pool = "reserve"
    BY <2>2, <1>6, <1>7, <1>8, <1>9, <1>10, <1>11, PoolsFinite
  <2> QED
    BY <1>4, <2>1, <2>2
<1> QED
  BY <1>3, <1>12 DEF SlotsInv, SlotsAccounted, Holders, Counted

\* A fresh process has all its slots.
FreshPools ==
    /\ handler = [t \in Threads |-> None] /\ general = MaxWorkers /\ reserve = Reserved
    /\ active = 0 /\ lost = 0

LEMMA FreshSlots == FreshPools => SlotsInv
<1> SUFFICES ASSUME FreshPools PROVE SlotsInv
  OBVIOUS
<1> USE DEF FreshPools
<1>1. Holders("general") = {} /\ Holders("reserve") = {} /\ Counted = {}
  BY DEF Holders, Counted, InPool, At, None
<1>2. Cardinality({}) = 0
  BY FS_EmptySet
<1>3. MaxWorkers \in Nat /\ Reserved \in Nat
  BY ServerAssumptions
<1>4. /\ general + lost + Cardinality(Holders("general")) = MaxWorkers
      /\ reserve + Cardinality(Holders("reserve")) = Reserved
      /\ active = Cardinality(Counted)
  BY <1>1, <1>2, <1>3
<1> QED
  BY <1>3, <1>4 DEF SlotsInv, SlotsAccounted, HandlerOK, Holders, Counted

LEMMA SlotsStep == SlotsInv /\ [Next]_vars => SlotsInv'
<1> SUFFICES ASSUME SlotsInv, [Next]_vars PROVE SlotsInv'
  OBVIOUS
<1>a. ASSUME UNCHANGED <<general, reserve, lost, handler, active>> PROVE SlotsInv'
  BY <1>a DEF SlotsInv, SlotsAccounted, HandlerOK, InPool, At, Of
<1>1. CASE Connect
  <2>1. PICK path \in {"health", "engine"},
             client \in IF "loopback" \in Events THEN {"remote", "loopback"} ELSE {"remote"} :
          /\ Slot(client) # "none"
          /\ TakeSlot(Slot(client))
          /\ StartHandler(path, client)
    BY <1>1 DEF Connect
  <2> QED
    BY <1>1, <2>1, StartTakes DEF Connect, history
<1>2. CASE ConnectUnserved
  <2>1. /\ general' = general - 1 /\ general > 0 /\ UNCHANGED <<reserve, handler, active>>
        /\ lost' = lost + 1
    BY <1>2 DEF ConnectUnserved, Slot, TakeSlot, SlotsInv
  <2>2. HandlerOK' /\ Holders("general")' = Holders("general")
        /\ Holders("reserve")' = Holders("reserve") /\ Counted' = Counted
    BY <2>1 DEF SlotsInv, HandlerOK, Holders, Counted, InPool, At, Of
  <2>3. /\ general \in Nat /\ reserve \in Nat /\ lost \in Nat /\ active \in Nat
        /\ general + lost + Cardinality(Holders("general")) = MaxWorkers
        /\ reserve + Cardinality(Holders("reserve")) = Reserved
        /\ active = Cardinality(Counted)
    BY DEF SlotsInv, SlotsAccounted, Holders, Counted
  <2>4. /\ general' \in Nat /\ reserve' \in Nat /\ lost' \in Nat /\ active' \in Nat
        /\ general' + lost' + Cardinality(Holders("general")') = MaxWorkers
        /\ reserve' + Cardinality(Holders("reserve")') = Reserved
        /\ active' = Cardinality(Counted')
    BY <2>1, <2>2, <2>3, PoolsFinite
  <2> QED
    BY <2>2, <2>4 DEF SlotsInv, SlotsAccounted, Holders, Counted
<1>3. ASSUME NEW t \in Threads, Count(t) PROVE SlotsInv'
  BY <1>3, GoesKeeps DEF Count, Goes, history
<1>4. ASSUME NEW t \in Threads, Read(t) PROVE SlotsInv'
  BY <1>4, GoesKeeps DEF Read, Goes, history
<1>5. ASSUME NEW t \in Threads, Health(t) PROVE SlotsInv'
  BY <1>5, GoesKeeps DEF Health, Goes, history
<1>6. ASSUME NEW t \in Threads, ClientLost(t) PROVE SlotsInv'
  BY <1>6, GoesKeeps DEF ClientLost, Goes, history
<1>7. ASSUME NEW t \in Threads, Lock(t) PROVE SlotsInv'
  BY <1>7, GoesKeeps DEF Lock, Goes, history
<1>8. ASSUME NEW t \in Threads, Unlock(t) PROVE SlotsInv'
  BY <1>8, GoesKeeps DEF Unlock, Goes, history
<1>9. ASSUME NEW t \in Threads, Uncount(t) PROVE SlotsInv'
  BY <1>9, GoesKeeps DEF Uncount, Goes
<1>10. ASSUME NEW t \in Threads, Release(t) PROVE SlotsInv'
  BY <1>10, ReleaseGives
<1>11. CASE Wake
  <2>1. CASE Slot("probe") # "none" /\ TakeSlot(Slot("probe")) /\ StartHandler("health", "probe")
    BY <1>11, <2>1, StartTakes DEF Wake, history
  <2>2. CASE UNCHANGED <<general, reserve, handler>>
    BY <1>11, <2>2, <1>a DEF Wake, history
  <2> QED
    BY <1>11, <2>1, <2>2 DEF Wake
<1>12. CASE Restart
  <2>1. FreshPools'
    BY <1>12 DEF Restart, FreshPools
  <2> QED
    BY <2>1, FreshSlots, PTL
<1>13. CASE Stall \/ Hang \/ ProbeTimeout \/ ProbeOk \/ ProbeFailed \/ UNCHANGED vars
  BY <1>13, <1>a DEF Stall, Hang, ProbeTimeout, ProbeOk, ProbeFailed, vars, server, history
<1> QED
  BY <1>1, <1>2, <1>3, <1>4, <1>5, <1>6, <1>7, <1>8, <1>9, <1>10, <1>11, <1>12, <1>13
     DEF Next, Serve, Watchdog

\* Whatever paths requests take, time out or hang on, every slot is free, held by one
\* live handler, or was lost to a thread that did not start, and the count the watchdog
\* reads is that of the running general handlers.
THEOREM SlotsKept == Spec => []SlotsAccounted
<1>1. Init => SlotsInv
  BY FreshSlots DEF Init, Fresh, FreshPools
<1>2. SlotsInv => SlotsAccounted
  BY DEF SlotsInv
<1> QED
  BY <1>1, <1>2, SlotsStep, PTL DEF Spec

(***************************************************************************)
(* The watchdog.                                                           *)
(***************************************************************************)
\* A window holds no more failures than the samples it took them from: failed probes
\* in a row, and, as long as no general handler completes, evaluated probes.
WatchInv ==
    /\ watch \in Watch
    /\ IsFiniteSet(watch.fails) /\ IsFiniteSet(watch.stalls)
    /\ sampled \in 0..Threshold /\ refused \in 0..Threshold
    /\ watch.at = "starting" => watch.stalls = {}
    /\ refused = Threshold \/ Cardinality(watch.fails) <= refused
    /\ watch.completed \/ sampled = Threshold \/ Cardinality(watch.stalls) <= sampled

\* Timestamps that grow older become no more.
LEMMA OlderCount ==
    ASSUME NEW S \in SUBSET Nat, IsFiniteSet(S), NEW d \in Nat
    PROVE  /\ Older(S, d) \in SUBSET Nat /\ IsFiniteSet(Older(S, d))
           /\ Cardinality(Older(S, d)) <= Cardinality(S)
<1> DEFINE f == [a \in S |-> a + d]
<1>1. f \in Surjection(S, Older(S, d))
  BY DEF Surjection, Older
<1>2. IsFiniteSet(Older(S, d)) /\ Cardinality(Older(S, d)) <= Cardinality(S)
  BY <1>1, FS_Surjection
<1> QED
  BY <1>2 DEF Older

\* A wake-up adds at most one.
LEMMA AddedCount ==
    ASSUME NEW S \in SUBSET Nat, IsFiniteSet(S)
    PROVE  /\ Added(S) \in SUBSET Nat /\ IsFiniteSet(Added(S))
           /\ Cardinality(Added(S)) \in Nat /\ Cardinality(S) \in Nat
           /\ Cardinality(Added(S)) <= Cardinality(S) + 1
<1>1. IsFiniteSet(S \cup {0}) /\ Cardinality(S) \in Nat
      /\ Cardinality(S \cup {0}) <= Cardinality(S) + 1
  <2>1. Cardinality(S) \in Nat
    BY FS_CardinalityType
  <2>2. /\ IsFiniteSet(S \cup {0})
        /\ Cardinality(S \cup {0}) = Cardinality(S) \/ Cardinality(S \cup {0}) = Cardinality(S) + 1
    BY FS_AddElement
  <2> QED
    BY <2>1, <2>2
<1>2. Added(S) \subseteq S \cup {0}
  BY DEF Added, InWindow
<1>3. IsFiniteSet(Added(S)) /\ Cardinality(Added(S)) <= Cardinality(S \cup {0})
  BY <1>1, <1>2, FS_Subset
<1>4. Cardinality(Added(S)) \in Nat /\ Cardinality(S \cup {0}) \in Nat
  BY <1>1, <1>3, FS_CardinalityType
<1>5. Cardinality(Added(S)) <= Cardinality(S) + 1
  BY <1>1, <1>3, <1>4
<1>6. Added(S) \in SUBSET Nat
  <2>1. S \cup {0} \subseteq Nat
    OBVIOUS
  <2> QED
    BY <1>2, <2>1
<1> QED
  BY <1>1, <1>3, <1>4, <1>5, <1>6

LEMMA EmptyWindow == IsFiniteSet({}) /\ Cardinality({}) = 0
BY FS_EmptySet

LEMMA WatchInit == Fresh => WatchInv
<1> SUFFICES ASSUME Fresh PROVE WatchInv
  OBVIOUS
<1>1. watch = Started /\ Started \in Watch /\ sampled = 0 /\ refused = 0
  BY DEF Fresh, Started, Watch
<1>2. Threshold \in Nat
  BY ServerAssumptions
<1> QED
  BY <1>1, <1>2, EmptyWindow DEF WatchInv, Started

\* One step of each kind; what the watchdog ends, it ends after Threshold samples.
LEMMA WatchStep ==
    WatchInv /\ [Next]_vars =>
      /\ WatchInv'
      /\ listener # "down" /\ listener' = "down" => sampled' = Threshold \/ refused' = Threshold
<1> DEFINE Spares ==
      listener # "down" /\ listener' = "down" => sampled' = Threshold \/ refused' = Threshold
<1> SUFFICES ASSUME WatchInv, [Next]_vars PROVE WatchInv' /\ Spares
  OBVIOUS
<1>k. /\ Threshold \in Nat /\ Threshold > 0 /\ Interval \in Nat /\ ProbeTime \in Nat
  BY ServerAssumptions DEF ConfigAccepted
<1>w. /\ watch.at \in {"starting", "asleep", "probing", "answered", "failed"}
      /\ watch.completed \in BOOLEAN /\ watch.last \in {"ok", "fail"}
      /\ watch.fails \in SUBSET Nat /\ IsFiniteSet(watch.fails)
      /\ watch.stalls \in SUBSET Nat /\ IsFiniteSet(watch.stalls)
      /\ Cardinality(watch.fails) \in Nat /\ Cardinality(watch.stalls) \in Nat
  BY FS_CardinalityType DEF WatchInv, Watch
<1>c. \A n \in 0..Threshold : Capped(n) \in 0..Threshold /\ (Capped(n) = Threshold \/ Capped(n) = n + 1)
  BY <1>k DEF Capped
<1>1. CASE /\ UNCHANGED <<watch, sampled, refused>>
           /\ listener = "down" \/ listener' # "down"
  BY <1>1 DEF WatchInv
<1>2. ASSUME NEW t \in Threads, Health(t) PROVE WatchInv' /\ Spares
  <2>1. /\ UNCHANGED <<listener, sampled, refused>>
        /\ watch' = watch \/ watch' = [watch EXCEPT !.at = "answered"]
    BY <1>2 DEF Health, history
  <2> QED
    BY <2>1 DEF WatchInv, Watch
<1>3. ASSUME NEW t \in Threads, Uncount(t) PROVE WatchInv' /\ Spares
  <2>1. UNCHANGED <<listener, refused>>
    BY <1>3 DEF Uncount
  <2>2. CASE UNCHANGED <<watch, sampled>>
    BY <2>1, <2>2 DEF WatchInv
  <2>3. CASE watch' = [watch EXCEPT !.completed = TRUE] /\ sampled' = 0
    <3>1. /\ watch' \in Watch /\ watch'.completed /\ watch'.at = watch.at
          /\ watch'.fails = watch.fails /\ watch'.stalls = watch.stalls
      BY <2>3 DEF WatchInv, Watch
    <3>2. sampled' \in 0..Threshold
      BY <2>3, <1>k
    <3> QED
      BY <2>1, <3>1, <3>2 DEF WatchInv
  <2> QED
    BY <1>3, <2>2, <2>3 DEF Uncount
<1>4. CASE Wake
  <2>1. PICK d \in 1..ProbeTime :
          LET aged(l) == Older(l, Interval + d)
              w == [watch EXCEPT !.fails = aged(@), !.stalls = aged(@),
                                 !.completed = @ /\ watch.at # "starting"]
          IN  \E at \in {"probing", "failed"} : watch' = [w EXCEPT !.at = at]
    BY <1>4 DEF Wake
  <2>2. Interval + d \in Nat
    BY <1>k
  <2> DEFINE fails == Older(watch.fails, Interval + d)
             stalls == Older(watch.stalls, Interval + d)
  <2>3. /\ fails \in SUBSET Nat /\ IsFiniteSet(fails)
        /\ Cardinality(fails) <= Cardinality(watch.fails)
        /\ stalls \in SUBSET Nat /\ IsFiniteSet(stalls)
        /\ Cardinality(stalls) <= Cardinality(watch.stalls)
    BY <2>2, <1>w, OlderCount
  <2>4. Cardinality(fails) \in Nat /\ Cardinality(stalls) \in Nat
    BY <2>3, FS_CardinalityType
  <2>5. /\ watch'.at \in {"probing", "failed"} /\ watch'.last = watch.last
        /\ watch'.fails = fails /\ watch'.stalls = stalls
        /\ watch'.completed = (watch.completed /\ watch.at # "starting")
        /\ watch' \in Watch
    BY <2>1, <2>3, <1>w DEF WatchInv, Watch
  <2>6. watch.at = "starting" => stalls = {}
    BY DEF WatchInv, Older
  <2>7. UNCHANGED <<listener, sampled, refused>>
    BY <1>4 DEF Wake, history
  <2> HIDE DEF fails, stalls
  <2>8. watch'.completed \/ sampled = Threshold \/ Cardinality(stalls) <= sampled
    <3>1. CASE watch.at = "starting"
      BY <3>1, <2>6, <1>k, EmptyWindow DEF WatchInv
    <3>2. CASE watch.at # "starting"
      BY <3>2, <2>3, <2>4, <2>5, <1>k, <1>w DEF WatchInv
    <3> QED
      BY <3>1, <3>2
  <2>9. refused = Threshold \/ Cardinality(fails) <= refused
    BY <2>3, <2>4, <1>k, <1>w DEF WatchInv
  <2> QED
    BY <2>3, <2>5, <2>7, <2>8, <2>9 DEF WatchInv
<1>5. CASE ProbeTimeout
  <2>1. watch' = [watch EXCEPT !.at = "failed"] /\ UNCHANGED <<listener, sampled, refused>>
    BY <1>5 DEF ProbeTimeout, history
  <2> QED
    BY <2>1 DEF WatchInv, Watch
<1>6. CASE ProbeOk
  <2> DEFINE stalls == IF NoProgress THEN Added(watch.stalls) ELSE {}
  <2>1. /\ watch' = [at |-> "asleep", completed |-> FALSE, fails |-> {}, stalls |-> stalls,
                     last |-> "ok"]
        /\ listener' = IF Cardinality(stalls) >= Threshold THEN "down" ELSE listener
        /\ sampled' = Capped(sampled) /\ refused' = 0
    BY <1>6 DEF ProbeOk
  <2>2. /\ stalls \in SUBSET Nat /\ IsFiniteSet(stalls) /\ Cardinality(stalls) \in Nat
        /\ \/ ~watch.completed /\ Cardinality(stalls) <= Cardinality(watch.stalls) + 1
           \/ Cardinality(stalls) = 0
    BY <1>w, AddedCount, EmptyWindow DEF NoProgress
  <2> HIDE DEF stalls
  <2>3. sampled' \in 0..Threshold
        /\ (sampled' = Threshold \/ Cardinality(stalls) <= sampled')
    BY <2>1, <2>2, <1>c, <1>k, <1>w DEF WatchInv
  <2>4. watch' \in Watch
    BY <2>1, <2>2 DEF Watch
  <2>5. WatchInv'
    BY <2>1, <2>2, <2>3, <2>4, <1>k, EmptyWindow DEF WatchInv
  <2>6. Spares
    BY <2>1, <2>2, <2>3, <1>k
  <2> QED
    BY <2>5, <2>6
<1>7. CASE ProbeFailed
  <2> DEFINE fails == Added(watch.fails)
  <2>1. /\ watch' = [watch EXCEPT !.at = "asleep", !.fails = fails, !.stalls = {},
                                 !.last = "fail"]
        /\ listener' = IF Cardinality(fails) >= Threshold THEN "down" ELSE listener
        /\ sampled' = Capped(sampled) /\ refused' = Capped(refused)
    BY <1>7 DEF ProbeFailed
  <2>2. /\ fails \in SUBSET Nat /\ IsFiniteSet(fails) /\ Cardinality(fails) \in Nat
        /\ Cardinality(fails) <= Cardinality(watch.fails) + 1
    BY <1>w, AddedCount
  <2> HIDE DEF fails
  <2>3. /\ refused' \in 0..Threshold /\ sampled' \in 0..Threshold
        /\ refused' = Threshold \/ Cardinality(fails) <= refused'
    BY <2>1, <2>2, <1>c, <1>k, <1>w DEF WatchInv
  <2>4. watch' \in Watch /\ watch'.stalls = {} /\ watch'.fails = fails
    BY <2>1, <2>2 DEF WatchInv, Watch
  <2>5. WatchInv'
    BY <2>2, <2>3, <2>4, <1>k, EmptyWindow DEF WatchInv
  <2>6. Spares
    BY <2>1, <2>2, <2>3, <1>k
  <2> QED
    BY <2>5, <2>6
<1>8. CASE Restart
  <2>1. Fresh'
    BY <1>8 DEF Restart, Fresh
  <2>2. WatchInv'
    BY <2>1, WatchInit, PTL
  <2> QED
    BY <2>2, <1>8 DEF Restart
<1> QED
  BY <1>1, <1>2, <1>3, <1>4, <1>5, <1>6, <1>7, <1>8
     DEF Next, Serve, Watchdog, Connect, ConnectUnserved, Stall, Hang, Count, Read,
         ClientLost, Lock, Unlock, Release, vars, server, history

\* The watchdog spares a server that works: it ends the process only after Threshold
\* failed probes in a row, or Threshold probes since a general handler last completed.
THEOREM WorkersSpared == Spec => ProgressSpares
<1>1. Init => WatchInv
  BY WatchInit DEF Init
<1>2. WatchInv /\ [Next]_vars => WatchInv'
  BY WatchStep
<1>3. WatchInv /\ [Next]_vars =>
        [listener # "down" /\ listener' = "down"
           => sampled' = Threshold \/ refused' = Threshold]_vars
  BY WatchStep
<1> QED
  BY <1>1, <1>2, <1>3, PTL DEF Spec, ProgressSpares

(***************************************************************************)
(* The parts of the composition.                                           *)
(***************************************************************************)
\* The service's round trip behaves as Canary does in the behaviours TLC explores...
LEMMA CanaryPart == UnionSpec => C!Spec
<1>1. UnionInit => C!Init
  BY DEF UnionInit
<1>2. [UnionNext]_ServiceVars => [C!Next]_C!vars
  BY DEF UnionNext, ServiceVars, canary, C!vars
<1> QED
  BY <1>1, <1>2, PTL DEF UnionSpec, C!Spec, ServiceVars

\* ... its memory watchdog as MemoryWatchdog...
LEMMA MemoryPart == UnionSpec => M!Spec
<1>1. UnionInit => M!Init
  BY DEF UnionInit
<1>2. [UnionNext]_ServiceVars => [M!Next]_M!vars
  BY DEF UnionNext, ServiceVars, memory, M!vars
<1> QED
  BY <1>1, <1>2, PTL DEF UnionSpec, M!Spec, ServiceVars

\* ... and its rate limiter as RateLimiter.
LEMMA LimiterPart == UnionSpec => L!Spec
<1>1. UnionInit => L!Init
  BY DEF UnionInit
<1>2. [UnionNext]_ServiceVars => [L!Next]_L!vars
  BY DEF UnionNext, ServiceVars, limiter, L!vars
<1> QED
  BY <1>1, <1>2, PTL DEF UnionSpec, L!Spec, ServiceVars

(***************************************************************************)
(* The canary.                                                             *)
(***************************************************************************)
\* A verdict that the cache holds is good only as long as the proof it rests on, for
\* the two grow old together.
CanaryInv ==
    /\ check \in [Servers -> C!Job]
    /\ cache \in [Servers -> {C!Empty} \cup [at : {"set"}, ok : BOOLEAN, age : Nat]]
    /\ proven \in [Servers -> Nat]
    /\ answer = [s \in Servers |-> answer[s]]
    /\ \A s \in Servers : cache[s] # C!Empty /\ cache[s].ok => proven[s] <= cache[s].age
    /\ RoundTripKept

LEMMA CanaryInit == C!Init => CanaryInv
BY ServiceConstants DEF C!Init, CanaryInv, RoundTripKept, C!RoundTripKept, C!Job, C!Idle, C!Empty

\* The marker of a round trip under way stands for a row that it left in the store.
LEMMA CanaryMoves ==
    ASSUME CanaryInv, NEW s \in Servers, NEW c \in C!Job, check' = [check EXCEPT ![s] = c],
           \A m \in (canaries \ excused)' :
               \/ m \in canaries \ excused /\ (check[s] # C!Idle => m # check[s].marker)
               \/ c # C!Idle /\ c.marker = m
    PROVE  /\ check' \in [Servers -> C!Job]
           /\ \A m \in (canaries \ excused)' : \E t \in Servers :
                  check'[t] # C!Idle /\ check'[t].marker = m
<1> USE DEF CanaryInv
<1>1. check' \in [Servers -> C!Job]
  OBVIOUS
<1>2. ASSUME NEW m \in (canaries \ excused)'
      PROVE  \E t \in Servers : check'[t] # C!Idle /\ check'[t].marker = m
  <2>1. CASE c # C!Idle /\ c.marker = m
    BY <2>1
  <2>2. CASE m \in canaries \ excused /\ (check[s] # C!Idle => m # check[s].marker)
    <3>1. PICK t \in Servers : check[t] # C!Idle /\ check[t].marker = m
      BY <2>2 DEF RoundTripKept, C!RoundTripKept
    <3>2. t # s
      BY <2>2, <3>1
    <3> QED
      BY <3>1, <3>2
  <2> QED
    BY <1>2, <2>1, <2>2
<1> QED
  BY <1>1, <1>2

LEMMA CanaryStep == CanaryInv /\ [C!Next]_C!vars => CanaryInv'
<1> SUFFICES ASSUME CanaryInv, [C!Next]_C!vars PROVE CanaryInv'
  OBVIOUS
<1> DEFINE Witnessed == \A m \in (canaries \ excused)' : \E t \in Servers :
                            check'[t] # C!Idle /\ check'[t].marker = m
<1>a. /\ check \in [Servers -> C!Job]
      /\ cache \in [Servers -> {C!Empty} \cup [at : {"set"}, ok : BOOLEAN, age : Nat]]
      /\ proven \in [Servers -> Nat]
      /\ answer = [s \in Servers |-> answer[s]]
      /\ \A s \in Servers : cache[s] # C!Empty /\ cache[s].ok => proven[s] <= cache[s].age
  BY DEF CanaryInv
<1>b. /\ \A m \in canaries \ excused : \E s \in Servers : check[s] # C!Idle /\ check[s].marker = m
      /\ \A s \in Servers : answer[s] = "ok" => proven[s] = 0 \/ proven[s] < TTL
  BY DEF CanaryInv, RoundTripKept, C!RoundTripKept
<1>t. TTL \in Nat /\ MaxAge \in Nat
  BY ServiceConstants
<1>c. ASSUME UNCHANGED <<cache, proven>>, check' \in [Servers -> C!Job], Witnessed,
             answer' = [s \in Servers |-> answer'[s]],
             \A s \in Servers : answer'[s] = "ok" => proven[s] = 0 \/ proven[s] < TTL
      PROVE  CanaryInv'
  BY <1>a, <1>c DEF CanaryInv, RoundTripKept, C!RoundTripKept, C!Empty, C!Idle, C!Job
<1>1. ASSUME NEW s \in Servers, C!Cached(s) PROVE CanaryInv'
  <2>1. cache[s] # C!Empty /\ cache[s].age < TTL
    BY <1>1 DEF C!Cached, C!Fresh, C!Empty
  <2>2. cache[s].ok => proven[s] < TTL
    BY <1>a, <1>t, <2>1
  <2>3. answer' = [answer EXCEPT ![s] = C!Verdict(cache[s].ok)]
        /\ UNCHANGED <<canaries, check, cache, proven, excused>>
    BY <1>1 DEF C!Cached
  <2>4. \A t \in Servers : answer'[t] = "ok" => proven[t] = 0 \/ proven[t] < TTL
    BY <1>a, <1>b, <2>2, <2>3 DEF C!Verdict
  <2>5. answer' = [t \in Servers |-> answer'[t]]
    BY <1>a, <2>3
  <2>6. check' \in [Servers -> C!Job] /\ Witnessed
    BY <1>a, <1>b, <2>3
  <2> QED
    BY <1>c, <2>3, <2>4, <2>5, <2>6
<1>2. ASSUME NEW s \in Servers, C!Begin(s) PROVE CanaryInv'
  <2>1. PICK m \in Markers \ used : check' = [check EXCEPT ![s] = [at |-> "write", marker |-> m]]
    BY <1>2 DEF C!Begin
  <2>2. check[s] = C!Idle /\ answer' = [answer EXCEPT ![s] = "none"]
        /\ UNCHANGED <<canaries, cache, proven, excused>>
    BY <1>2 DEF C!Begin
  <2>3. [at |-> "write", marker |-> m] \in C!Job
    BY DEF C!Job
  <2>4. check' \in [Servers -> C!Job] /\ Witnessed
    BY <2>1, <2>2, <2>3, CanaryMoves
  <2>5. answer' = [t \in Servers |-> answer'[t]]
        /\ \A t \in Servers : answer'[t] = "ok" => proven[t] = 0 \/ proven[t] < TTL
    BY <1>a, <1>b, <2>2
  <2> QED
    BY <1>c, <2>2, <2>4, <2>5
<1>3. ASSUME NEW s \in Servers, C!Write(s) \/ C!Recall(s) PROVE CanaryInv'
  <2>1. UNCHANGED <<cache, proven, excused, answer>>
        /\ canaries' \in {canaries, canaries \cup {check[s].marker}}
    BY <1>3 DEF C!Write, C!Recall
  <2>2. check[s] \in [at : {"write", "recall"}, marker : Markers] /\ check[s] # C!Idle
    <3>1. check[s].at \in {"write", "recall"} /\ check[s] \in C!Job
      BY <1>3, <1>a DEF C!Write, C!Recall
    <3> QED
      BY <3>1 DEF C!Job, C!Idle
  <2>3. \E c \in C!Job \ {C!Idle} : c.marker = check[s].marker /\ check' = [check EXCEPT ![s] = c]
    <3>1. CASE check' = [check EXCEPT ![s].at = "recall"]
      <4>1. [at |-> "recall", marker |-> check[s].marker] \in C!Job \ {C!Idle}
        BY <2>2 DEF C!Job, C!Idle
      <4>2. [check[s] EXCEPT !.at = "recall"] = [at |-> "recall", marker |-> check[s].marker]
        BY <2>2
      <4>3. check' = [check EXCEPT ![s] = [check[s] EXCEPT !.at = "recall"]]
        BY <3>1
      <4> QED
        BY <4>1, <4>2, <4>3
    <3>2. CASE \E found, raising \in BOOLEAN : C!ToCleanup(s, found, raising)
      <4>1. PICK found \in BOOLEAN, raising \in BOOLEAN : C!ToCleanup(s, found, raising)
        BY <3>2
      <4>2. [at |-> "cleanup", marker |-> check[s].marker, found |-> found, raising |-> raising]
               \in C!Job \ {C!Idle}
        BY <2>2 DEF C!Job, C!Idle
      <4> QED
        BY <4>1, <4>2 DEF C!ToCleanup
    <3> QED
      BY <1>3, <3>1, <3>2 DEF C!Write, C!Recall
  <2>4. PICK c \in C!Job \ {C!Idle} : c.marker = check[s].marker /\ check' = [check EXCEPT ![s] = c]
    BY <2>3
  <2>5. check' \in [Servers -> C!Job] /\ Witnessed
    <3>1. \A m \in (canaries \ excused)' :
            \/ m \in canaries \ excused /\ (check[s] # C!Idle => m # check[s].marker)
            \/ c # C!Idle /\ c.marker = m
      BY <2>1, <2>4
    <3> QED
      BY <2>4, <3>1, CanaryMoves
  <2> QED
    BY <1>a, <1>b, <1>c, <2>1, <2>5
<1>4. ASSUME NEW s \in Servers, C!Cleanup(s) PROVE CanaryInv'
  <2>1. PICK gone \in BOOLEAN :
          /\ canaries' = C!Erased(s, gone)
          /\ excused' = IF gone THEN excused ELSE excused \cup {check[s].marker}
          /\ IF check[s].raising
             THEN /\ answer' = [answer EXCEPT ![s] = "error"]
                  /\ UNCHANGED <<cache, proven>>
             ELSE /\ answer' = [answer EXCEPT ![s] = C!Verdict(C!Proof(s, gone))]
                  /\ cache' = [cache EXCEPT ![s] =
                         [at |-> "set", ok |-> C!Proof(s, gone), age |-> 0]]
                  /\ proven' = [proven EXCEPT ![s] =
                                  IF check[s].found /\ gone THEN 0 ELSE proven[s]]
    BY <1>4 DEF C!Cleanup
  <2>2. check[s] # C!Idle /\ check' = [check EXCEPT ![s] = C!Idle] /\ C!Idle \in C!Job
    BY <1>4 DEF C!Cleanup, C!Idle, C!Job
  <2>3. check' \in [Servers -> C!Job] /\ Witnessed
    <3>1. \A m \in (canaries \ excused)' : m \in canaries \ excused /\ m # check[s].marker
      BY <2>1 DEF C!Erased
    <3> QED
      BY <2>2, <3>1, CanaryMoves
  <2>4. CASE check[s].raising
    <3>1. answer' = [answer EXCEPT ![s] = "error"] /\ UNCHANGED <<cache, proven>>
      BY <2>1, <2>4
    <3>2. answer' = [t \in Servers |-> answer'[t]]
          /\ \A t \in Servers : answer'[t] = "ok" => proven[t] = 0 \/ proven[t] < TTL
      BY <1>a, <1>b, <3>1
    <3> QED
      BY <1>c, <2>3, <3>1, <3>2
  <2>5. CASE ~check[s].raising
    <3>1. check[s].found \in BOOLEAN
      BY <1>4, <1>a DEF C!Cleanup, C!Job, C!Idle
    <3>2. PICK proof \in BOOLEAN : proof = C!Proof(s, gone)
      BY <3>1 DEF C!Proof
    <3>3. /\ answer' = [answer EXCEPT ![s] = C!Verdict(proof)]
          /\ cache' = [cache EXCEPT ![s] = [at |-> "set", ok |-> proof, age |-> 0]]
          /\ proven' = [proven EXCEPT ![s] = IF proof THEN 0 ELSE proven[s]]
      BY <2>1, <2>5, <3>2 DEF C!Proof
    <3>4. cache' \in [Servers -> {C!Empty} \cup [at : {"set"}, ok : BOOLEAN, age : Nat]]
          /\ proven' \in [Servers -> Nat] /\ answer' = [t \in Servers |-> answer'[t]]
      BY <1>a, <3>3
    <3>5. ASSUME NEW t \in Servers
          PROVE  /\ cache'[t] # C!Empty /\ cache'[t].ok => proven'[t] <= cache'[t].age
                 /\ answer'[t] = "ok" => proven'[t] = 0 \/ proven'[t] < TTL
      <4>1. CASE t = s
        BY <1>a, <3>3, <4>1 DEF C!Verdict
      <4>2. CASE t # s
        BY <1>a, <1>b, <3>3, <4>2
      <4> QED
        BY <4>1, <4>2
    <3> QED
      BY <2>3, <3>4, <3>5 DEF CanaryInv, RoundTripKept, C!RoundTripKept, C!Empty, C!Idle, C!Job
  <2> QED
    BY <2>4, <2>5
<1>5. ASSUME NEW s \in Servers, C!Crash(s) PROVE CanaryInv'
  <2>1. /\ excused' = IF check[s] = C!Idle THEN excused ELSE excused \cup {check[s].marker}
        /\ check' = [check EXCEPT ![s] = C!Idle]
        /\ cache' = [cache EXCEPT ![s] = C!Empty]
        /\ proven' = [proven EXCEPT ![s] = MaxAge]
        /\ answer' = [answer EXCEPT ![s] = "none"]
        /\ canaries' = canaries
    BY <1>5 DEF C!Crash
  <2>2. check' \in [Servers -> C!Job] /\ Witnessed
    <3>1. \A m \in (canaries \ excused)' :
            m \in canaries \ excused /\ (check[s] # C!Idle => m # check[s].marker)
      BY <2>1
    <3>2. C!Idle \in C!Job
      BY DEF C!Job
    <3> QED
      BY <2>1, <3>1, <3>2, CanaryMoves
  <2>3. cache' \in [Servers -> {C!Empty} \cup [at : {"set"}, ok : BOOLEAN, age : Nat]]
        /\ proven' \in [Servers -> Nat] /\ answer' = [t \in Servers |-> answer'[t]]
    BY <1>a, <1>t, <2>1
  <2>4. ASSUME NEW t \in Servers
        PROVE  /\ cache'[t] # C!Empty /\ cache'[t].ok => proven'[t] <= cache'[t].age
               /\ answer'[t] = "ok" => proven'[t] = 0 \/ proven'[t] < TTL
    BY <1>a, <1>b, <2>1
  <2> QED
    BY <2>2, <2>3, <2>4 DEF CanaryInv, RoundTripKept, C!RoundTripKept, C!Empty, C!Idle, C!Job
<1>6. ASSUME C!Tick PROVE CanaryInv'
  <2>1. /\ cache' = [s \in Servers |-> IF cache[s] = C!Empty THEN C!Empty
                                       ELSE [cache[s] EXCEPT !.age = C!Older(cache[s].age)]]
        /\ proven' = [s \in Servers |-> C!Older(proven[s])]
        /\ answer' = [s \in Servers |-> "none"]
        /\ UNCHANGED <<canaries, check, excused>>
    BY <1>6 DEF C!Tick
  <2>2. ASSUME NEW n \in Nat, NEW k \in Nat, n <= k
        PROVE  C!Older(n) \in Nat /\ C!Older(k) \in Nat /\ C!Older(n) <= C!Older(k)
    BY <1>t, <2>2 DEF C!Older
  <2>3. ASSUME NEW s \in Servers
        PROVE  /\ cache'[s] \in {C!Empty} \cup [at : {"set"}, ok : BOOLEAN, age : Nat]
               /\ proven'[s] \in Nat /\ answer'[s] = "none"
               /\ cache'[s] # C!Empty /\ cache'[s].ok => proven'[s] <= cache'[s].age
    <3>1. CASE cache[s] = C!Empty
      BY <1>a, <2>1, <2>2, <3>1
    <3>2. CASE cache[s] # C!Empty
      <4>1. cache[s] \in [at : {"set"}, ok : BOOLEAN, age : Nat]
        BY <1>a, <3>2
      <4>2. cache'[s] = [cache[s] EXCEPT !.age = C!Older(cache[s].age)]
        BY <2>1, <3>2
      <4>3. C!Older(cache[s].age) \in Nat
        BY <2>2, <4>1
      <4>4. cache'[s] \in [at : {"set"}, ok : BOOLEAN, age : Nat]
            /\ cache'[s].ok = cache[s].ok /\ cache'[s].age = C!Older(cache[s].age)
        BY <4>1, <4>2, <4>3
      <4>5. cache[s].ok => C!Older(proven[s]) <= C!Older(cache[s].age)
        BY <1>a, <2>2, <3>2, <4>1
      <4>6. C!Older(proven[s]) \in Nat /\ proven'[s] = C!Older(proven[s]) /\ answer'[s] = "none"
        BY <1>a, <2>1, <2>2
      <4> QED
        BY <4>4, <4>5, <4>6
    <3> QED
      BY <3>1, <3>2
  <2>4. cache' \in [Servers -> {C!Empty} \cup [at : {"set"}, ok : BOOLEAN, age : Nat]]
        /\ proven' \in [Servers -> Nat] /\ answer' = [s \in Servers |-> answer'[s]]
    BY <2>1, <2>3
  <2>5. check' \in [Servers -> C!Job] /\ Witnessed
    BY <1>a, <1>b, <2>1
  <2> QED
    BY <2>3, <2>4, <2>5 DEF CanaryInv, RoundTripKept, C!RoundTripKept, C!Empty, C!Idle, C!Job
<1>7. CASE UNCHANGED C!vars
  BY <1>7 DEF C!vars, CanaryInv, RoundTripKept, C!RoundTripKept, C!Empty, C!Idle, C!Job
<1> QED
  BY <1>1, <1>2, <1>3, <1>4, <1>5, <1>6, <1>7 DEF C!Next

\* A canary outlives its round trip only if its erasure failed or its server died, and
\* "ok" rests on a complete proof younger than the TTL (RecallEngine.verify_roundtrip):
\* for any servers, markers and TTL.
THEOREM CanaryKept == UnionSpec => []RoundTripKept
<1>1. CanaryInv => RoundTripKept
  BY DEF CanaryInv
<1>2. C!Spec => []CanaryInv
  BY CanaryInit, CanaryStep, PTL DEF C!Spec
<1> QED
  BY <1>1, <1>2, CanaryPart, PTL

(***************************************************************************)
(* The memory watchdog.                                                    *)
(***************************************************************************)
\* The samples of the deque are those of the breach, the latest Samples of them, oldest
\* first, and Least(Gaps) or more apart; the oldest is no older than the breach.
MemoryInv ==
    /\ window \in Windows /\ alive \in BOOLEAN /\ breach \in Nat
    /\ overs \in 0..(Samples + 1)
    /\ sustained \in Seq(Nat)
    /\ Len(sustained) = IF overs <= Samples THEN overs ELSE Samples
    /\ \A i, j \in 1..Len(sustained) : i <= j => sustained[j] <= sustained[i]
    /\ \A i \in 1..Len(sustained) : (Len(sustained) - i) * M!Least(Gaps) <= sustained[i]
    /\ overs > 0 => sustained[1] <= breach \/ breach > window
    /\ RestartsWhenSustained

\* Least(Gaps) is the shortest of the gaps.
LEMMA LeastGap == M!Least(Gaps) \in Gaps /\ \A k \in Gaps : M!Least(Gaps) <= k
<1>1. Gaps \subseteq Nat /\ Gaps # {}
  BY ServiceConstants
<1>2. PICK R : R = OpToRel(<, Nat)
  OBVIOUS
<1>3. IsWellFoundedOn(R, Nat)
  BY <1>2, NatLessThanWellFounded
<1>4. PICK x \in Gaps : \A y \in Gaps : ~ (<<y, x>> \in R)
  BY <1>1, <1>3, WFMin
<1>5. ASSUME NEW y \in Gaps, y < x PROVE FALSE
  <2>1. <<y, x>> \in R
    BY <1>1, <1>2, <1>5 DEF OpToRel
  <2> QED
    BY <2>1, <1>4
<1>6. \A y \in Gaps : x <= y
  BY <1>1, <1>5
<1> QED
  BY <1>6, Zenon DEF M!Least

\* A sample more: the ages grow by the gap, and a full deque forgets its oldest.
LEMMA KeptAges ==
    ASSUME NEW q \in Seq(Nat), NEW gap \in Nat, NEW g \in Nat, g <= gap,
           Samples \in Nat \ {0}, Len(q) <= Samples,
           \A i, j \in 1..Len(q) : i <= j => q[j] <= q[i],
           \A i \in 1..Len(q) : (Len(q) - i) * g <= q[i],
           NEW k, k = M!Kept(Append([i \in DOMAIN q |-> q[i] + gap], 0))
    PROVE  /\ k \in Seq(Nat)
           /\ Len(k) = IF Len(q) < Samples THEN Len(q) + 1 ELSE Samples
           /\ \A i, j \in 1..Len(k) : i <= j => k[j] <= k[i]
           /\ \A i \in 1..Len(k) : (Len(k) - i) * g <= k[i]
           /\ k[1] <= IF Len(q) = 0 THEN 0 ELSE q[1] + gap
<1>1. PICK n \in Nat : n = Len(q)
  OBVIOUS
<1>q. \A i \in 1..n : q[i] \in Nat
  BY <1>1
<1>2. PICK aged : aged = [i \in DOMAIN q |-> q[i] + gap]
  OBVIOUS
<1>3. aged \in Seq(Nat) /\ Len(aged) = n /\ \A i \in 1..n : aged[i] = q[i] + gap
  BY <1>1, <1>2
<1>4. PICK a : a = Append(aged, 0)
  OBVIOUS
<1>5. /\ a \in Seq(Nat) /\ Len(a) = n + 1
      /\ \A i \in 1..n : a[i] = q[i] + gap
      /\ a[n + 1] = 0
      /\ \A i \in 1..(n + 1) : a[i] \in Nat
  BY <1>3, <1>4
<1>6. ASSUME NEW i \in 1..(n + 1), NEW j \in 1..(n + 1), i <= j PROVE a[j] <= a[i]
  <2>1. CASE j = n + 1
    BY <1>5, <2>1
  <2>2. CASE j # n + 1
    <3>1. i \in 1..n /\ j \in 1..n
      BY <1>6, <2>2
    <3>2. q[j] <= q[i] /\ q[j] \in Nat /\ q[i] \in Nat
      BY <1>1, <1>q, <1>6, <3>1
    <3> QED
      BY <1>5, <3>1, <3>2
  <2> QED
    BY <2>1, <2>2
<1>7. \A i \in 1..(n + 1) : ((n + 1) - i) * g <= a[i]
  <2>1. ASSUME NEW i \in 1..n PROVE ((n + 1) - i) * g <= a[i]
    <3>1. PICK d \in Nat : d = n - i
      OBVIOUS
    <3>2. (d + 1) * g = d * g + g /\ d * g \in Nat
      BY <3>1
    <3>3. d * g <= q[i] /\ q[i] \in Nat
      BY <1>1, <1>q, <3>1
    <3>4. (n + 1) - i = d + 1
      BY <3>1
    <3>5. a[i] = q[i] + gap
      BY <1>5
    <3>6. (d + 1) * g <= a[i]
      BY <3>2, <3>3, <3>5
    <3> QED
      BY <3>4, <3>6
  <2>2. ((n + 1) - (n + 1)) * g <= a[n + 1]
    BY <1>5
  <2>3. ASSUME NEW i \in 1..(n + 1) PROVE ((n + 1) - i) * g <= a[i]
    <3>1. i \in 1..n \/ i = n + 1
      OBVIOUS
    <3> QED
      BY <2>1, <2>2, <3>1
  <2> QED
    BY <2>3
<1>8. CASE n < Samples
  <2>1. k = a
    <3>1. k = M!Kept(a) /\ ~ (Len(a) > Samples)
      BY <1>2, <1>4, <1>5, <1>8
    <3> QED
      BY <3>1 DEF M!Kept
  <2>2. k[1] <= IF Len(q) = 0 THEN 0 ELSE q[1] + gap
    BY <1>1, <1>5, <2>1
  <2> QED
    BY <1>1, <1>5, <1>6, <1>7, <1>8, <2>1, <2>2
<1>9. CASE n = Samples
  <2>1. k = Tail(a)
    <3>1. k = M!Kept(a) /\ Len(a) > Samples
      BY <1>2, <1>4, <1>5, <1>9
    <3> QED
      BY <3>1 DEF M!Kept
  <2>2. k \in Seq(Nat) /\ Len(k) = n /\ \A i \in 1..n : k[i] = a[i + 1]
    <3>1. a \in Seq(Nat) /\ a # <<>>
      BY <1>5
    <3>2. /\ Tail(a) \in Seq(Nat)
          /\ Len(Tail(a)) = Len(a) - 1
          /\ \A i \in 1..Len(Tail(a)) : Tail(a)[i] = a[i + 1]
      BY <3>1, HeadTailProperties
    <3>3. Len(a) - 1 = n
      BY <1>5
    <3> QED
      BY <2>1, <3>2, <3>3
  <2>3. \A i, j \in 1..n : i <= j => k[j] <= k[i]
    BY <1>6, <2>2
  <2>4. ASSUME NEW i \in 1..n PROVE (n - i) * g <= k[i]
    <3>1. ((n + 1) - (i + 1)) * g <= a[i + 1]
      BY <1>7
    <3>2. (n + 1) - (i + 1) = n - i
      OBVIOUS
    <3> QED
      BY <2>2, <3>1, <3>2
  <2>5. k[1] <= q[1] + gap
    <3>1. 1 \in 1..n /\ 1 \in 1..(n + 1) /\ 2 \in 1..(n + 1)
      BY <1>9
    <3>2. k[1] = a[2]
      BY <2>2, <3>1
    <3>3. a[2] <= a[1]
      BY <1>6, <3>1
    <3>4. a[1] = q[1] + gap
      BY <1>5, <3>1
    <3> QED
      BY <3>2, <3>3, <3>4
  <2>6. Len(k) = n /\ Len(q) = n /\ ~ (n < Samples) /\ n = Samples /\ n # 0
    BY <1>1, <1>9, <2>2
  <2> QED
    BY <2>2, <2>3, <2>4, <2>5, <2>6
<1>10. n < Samples \/ n = Samples
  BY <1>1
<1> QED
  BY <1>8, <1>9, <1>10

LEMMA MemoryInit == M!Init => MemoryInv
<1> SUFFICES ASSUME M!Init PROVE MemoryInv
  OBVIOUS
<1>1. window \in Windows /\ alive = TRUE /\ sustained = <<>> /\ overs = 0 /\ breach = 0
  BY DEF M!Init
<1>2. Samples \in Nat \ {0}
  BY ServiceConstants
<1>3. RestartsWhenSustained
  BY <1>1, <1>2 DEF RestartsWhenSustained, M!RestartsWhenSustained
<1>4. sustained \in Seq(Nat) /\ Len(sustained) = 0
  BY <1>1
<1> QED
  BY <1>1, <1>2, <1>3, <1>4 DEF MemoryInv

LEMMA MemoryStep == MemoryInv /\ [M!Next]_M!vars => MemoryInv'
<1> SUFFICES ASSUME MemoryInv, [M!Next]_M!vars PROVE MemoryInv'
  OBVIOUS
<1> PICK g : g = M!Least(Gaps)
  OBVIOUS
<1>1. g \in Gaps /\ \A k \in Gaps : g <= k
  BY LeastGap
<1>2. Samples \in Nat \ {0} /\ Windows \subseteq Nat /\ Gaps \subseteq Nat
  BY ServiceConstants
<1>3. /\ window \in Windows /\ window \in Nat /\ breach \in Nat
      /\ overs \in Nat /\ overs \in 0..(Samples + 1)
      /\ sustained \in Seq(Nat)
      /\ Len(sustained) = IF overs <= Samples THEN overs ELSE Samples
      /\ \A i, j \in 1..Len(sustained) : i <= j => sustained[j] <= sustained[i]
      /\ \A i \in 1..Len(sustained) : (Len(sustained) - i) * g <= sustained[i]
      /\ overs > 0 => sustained[1] <= breach \/ breach > window
  BY <1>2 DEF MemoryInv
<1>4. ASSUME M!Sample PROVE MemoryInv'
  <2>1. PICK level \in M!Level, gap \in Gaps : \E k :
          /\ k = M!Kept(Append([i \in DOMAIN sustained |-> sustained[i] + gap], 0))
          /\ sustained' = IF level = "over" THEN k ELSE <<>>
          /\ overs' = IF level # "over" THEN 0 ELSE IF overs > Samples THEN overs ELSE overs + 1
          /\ breach' = IF level # "over" \/ overs = 0 THEN 0
                       ELSE IF breach > window THEN breach ELSE breach + gap
          /\ alive' = ~(level = "over" /\ M!Sustained(k))
          /\ window' = window
    BY <1>4 DEF M!Sample
  <2>k. PICK k :
          /\ k = M!Kept(Append([i \in DOMAIN sustained |-> sustained[i] + gap], 0))
          /\ sustained' = IF level = "over" THEN k ELSE <<>>
          /\ overs' = IF level # "over" THEN 0 ELSE IF overs > Samples THEN overs ELSE overs + 1
          /\ breach' = IF level # "over" \/ overs = 0 THEN 0
                       ELSE IF breach > window THEN breach ELSE breach + gap
          /\ alive' = ~(level = "over" /\ M!Sustained(k))
          /\ window' = window
    BY <2>1
  <2>2. gap \in Nat /\ g \in Nat /\ g <= gap
    BY <1>1, <1>2
  <2>3. /\ k \in Seq(Nat)
        /\ Len(k) = IF Len(sustained) < Samples THEN Len(sustained) + 1 ELSE Samples
        /\ \A i, j \in 1..Len(k) : i <= j => k[j] <= k[i]
        /\ \A i \in 1..Len(k) : (Len(k) - i) * g <= k[i]
        /\ k[1] <= IF Len(sustained) = 0 THEN 0 ELSE sustained[1] + gap
    <3>1. Len(sustained) <= Samples
      BY <1>2, <1>3
    <3> QED
      BY <1>2, <1>3, <2>k, <2>2, <3>1, KeptAges
  <2>4. CASE level # "over"
    <3>1. /\ sustained' = <<>> /\ overs' = 0 /\ breach' = 0 /\ alive' = TRUE /\ window' = window
      BY <2>k, <2>4
    <3>2. RestartsWhenSustained'
      BY <1>2, <3>1 DEF RestartsWhenSustained, M!RestartsWhenSustained
    <3>3. sustained' \in Seq(Nat) /\ Len(sustained') = 0
      BY <3>1
    <3> QED
      BY <1>2, <1>3, <3>1, <3>2, <3>3 DEF MemoryInv
  <2>5. CASE level = "over"
    <3>1. /\ sustained' = k
          /\ overs' = IF overs > Samples THEN overs ELSE overs + 1
          /\ breach' = IF overs = 0 THEN 0 ELSE IF breach > window THEN breach ELSE breach + gap
          /\ alive' = ~M!Sustained(k)
          /\ window' = window
      BY <2>k, <2>5
    <3>2. /\ overs' \in 0..(Samples + 1) /\ overs' > 0 /\ breach' \in Nat
          /\ Len(k) = IF overs' <= Samples THEN overs' ELSE Samples
      BY <1>2, <1>3, <2>2, <2>3, <3>1
    <3>3. 1 \in 1..Len(k) /\ k[1] \in Nat
      BY <1>2, <2>3, <3>2
    <3>4. k[1] <= breach' \/ breach' > window
      <4>1. CASE overs = 0
        BY <1>3, <2>3, <3>1, <4>1, <1>2
      <4>2. CASE overs # 0 /\ breach > window
        BY <3>1, <4>2
      <4>3. CASE overs # 0 /\ ~ (breach > window)
        <5>1. Len(sustained) # 0 /\ sustained[1] <= breach /\ sustained[1] \in Nat
          BY <1>2, <1>3, <4>3
        <5>2. k[1] <= sustained[1] + gap /\ breach' = breach + gap
          BY <2>3, <3>1, <4>3, <5>1
        <5> QED
          BY <1>3, <2>2, <3>3, <5>1, <5>2
      <4> QED
        BY <4>1, <4>2, <4>3
    <3>5. ~alive' => overs' >= Samples /\ (Samples <= 1 \/ breach' >= window)
      <4>1. SUFFICES ASSUME M!Sustained(k)
                     PROVE  overs' >= Samples /\ (Samples <= 1 \/ breach' >= window)
        BY <3>1
      <4>2. Len(k) >= Samples /\ (Samples <= 1 \/ k[1] >= window)
        BY <4>1 DEF M!Sustained
      <4> QED
        BY <1>2, <1>3, <3>2, <3>3, <3>4, <4>2
    <3>6. alive' /\ overs' >= Samples => (Samples - 1) * g < window
      <4>1. SUFFICES ASSUME ~M!Sustained(k), overs' >= Samples
                     PROVE  (Samples - 1) * g < window
        BY <3>1
      <4>2. Len(k) = Samples
        BY <1>2, <3>2, <4>1
      <4>3. k[1] < window
        BY <1>2, <1>3, <3>3, <4>1, <4>2 DEF M!Sustained
      <4>4. (Samples - 1) * g <= k[1] /\ (Samples - 1) * g \in Int
        BY <1>2, <2>2, <2>3, <3>3, <4>2
      <4> QED
        BY <1>3, <3>3, <4>3, <4>4
    <3>7. RestartsWhenSustained'
      BY <3>1, <3>5, <3>6 DEF RestartsWhenSustained, M!RestartsWhenSustained, M!Least
    <3>8. alive' \in BOOLEAN
      BY <3>1 DEF M!Sustained
    <3> QED
      BY <1>3, <2>3, <3>1, <3>2, <3>4, <3>7, <3>8 DEF MemoryInv, M!Least
  <2> QED
    BY <2>4, <2>5
<1>5. ASSUME M!Restart PROVE MemoryInv'
  <2>1. alive' = TRUE /\ sustained' = <<>> /\ overs' = 0 /\ breach' = 0 /\ window' = window
    BY <1>5 DEF M!Restart
  <2>2. RestartsWhenSustained'
    BY <1>2, <2>1 DEF RestartsWhenSustained, M!RestartsWhenSustained
  <2>3. sustained' \in Seq(Nat) /\ Len(sustained') = 0
    BY <2>1
  <2> QED
    BY <1>2, <1>3, <2>1, <2>2, <2>3 DEF MemoryInv
<1>6. CASE UNCHANGED M!vars
  BY <1>6 DEF M!vars, MemoryInv, RestartsWhenSustained, M!RestartsWhenSustained, M!Least
<1> QED
  BY <1>4, <1>5, <1>6 DEF M!Next

\* The memory watchdog ends the process on the first sample that completes a breach
\* sustained over the window, and only then (_start_memory_watchdog): for any number of
\* samples, window and gaps between them.
THEOREM SustainedRestarts == UnionSpec => []RestartsWhenSustained
<1>1. MemoryInv => RestartsWhenSustained
  BY DEF MemoryInv
<1>2. M!Spec => []MemoryInv
  BY MemoryInit, MemoryStep, PTL DEF M!Spec
<1> QED
  BY <1>1, <1>2, MemoryPart, PTL

(***************************************************************************)
(* The rate limiter.                                                       *)
(***************************************************************************)
\* The entries of a deque that fall in the window of credential c that ends with t.
InDeque(q, c, t) == {i \in 1..Len(q) : q[i] <= t /\ ~L!Expired(t, q[i], c)}

\* The instance counts as FiniteSets does.
LEMMA SameCount == \A S : L!Cardinality(S) = Cardinality(S)
BY DEF L!Cardinality, Cardinality

LEMMA WindowsNat == \A c \in Credentials : WindowOf[c] \in Nat
BY DEF Credentials, WindowOf

LEMMA DequeFinite ==
    ASSUME NEW q \in Seq(Nat), NEW c, NEW t
    PROVE  IsFiniteSet(InDeque(q, c, t)) /\ Cardinality(InDeque(q, c, t)) \in Nat
           /\ Cardinality(InDeque(q, c, t)) <= Len(q)
<1>1. PICK n \in Nat : n = Len(q)
  OBVIOUS
<1>2. IsFiniteSet(1..n) /\ Cardinality(1..n) = n
  <2>1. IsFiniteSet(1..n) /\ Cardinality(1..n) = IF 1 > n THEN 0 ELSE n - 1 + 1
    <3>1. 1 \in Int /\ n \in Int
      BY <1>1
    <3> QED
      BY <3>1, FS_Interval, Zenon
  <2> QED
    BY <2>1
<1>3. InDeque(q, c, t) \in SUBSET (1..n)
  BY <1>1 DEF InDeque
<1>4. IsFiniteSet(InDeque(q, c, t)) /\ Cardinality(InDeque(q, c, t)) <= Cardinality(1..n)
  BY <1>2, <1>3, FS_Subset
<1> QED
  BY <1>1, <1>2, <1>4, FS_CardinalityType

\* What Trim removes is a prefix, and it has expired.
Dropped(q, r, c, k) ==
    \E n \in 0..Len(q) :
        /\ \A i \in 1..n : L!Expired(r, q[i], c)
        /\ k \in Seq(Nat) /\ Len(k) = Len(q) - n
        /\ \A i \in 1..Len(k) : k[i] = q[i + n]

LEMMA TrimDrops ==
    ASSUME NEW q \in Seq(Nat), NEW r \in Nat, NEW c
    PROVE  Dropped(q, r, c, L!Trim(q, r, c))
<1>0. PICK k : k = L!Trim(q, r, c)
  OBVIOUS
<1>1. PICK m \in Nat : m = Len(q)
  OBVIOUS
<1>2. PICK gone : gone = {n \in 0..Len(q) : \A i \in 1..n : L!Expired(r, q[i], c)}
  OBVIOUS
<1>3. 0 \in gone /\ gone \subseteq 0..m
  BY <1>1, <1>2
<1>4. \E n \in gone : \A j \in gone : j <= n
  <2>1. PICK R : R = OpToRel(<, Nat)
    OBVIOUS
  <2>2. IsWellFoundedOn(R, Nat)
    BY <2>1, NatLessThanWellFounded
  <2>3. PICK left : left = {m - j : j \in gone}
    OBVIOUS
  <2>4. left \subseteq Nat /\ left # {}
    BY <1>3, <2>3
  <2>5. PICK x \in left : \A y \in left : ~ (<<y, x>> \in R)
    BY <2>2, <2>4, WFMin
  <2>6. PICK n \in gone : x = m - n
    BY <2>3, <2>5
  <2>7. ASSUME NEW j \in gone, ~(j <= n) PROVE FALSE
    <3>1. m - j \in left /\ m - j \in Nat /\ x \in Nat /\ m - j < x
      BY <1>1, <1>3, <2>3, <2>4, <2>5, <2>6, <2>7
    <3>2. <<m - j, x>> \in R
      BY <2>1, <3>1 DEF OpToRel
    <3> QED
      BY <2>5, <3>1, <3>2
  <2> QED
    BY <2>6, <2>7
<1>5. PICK n : n = CHOOSE g \in gone : \A j \in gone : j <= g
  OBVIOUS
<1>6. n \in gone
  BY <1>4, <1>5, Zenon
<1>7. k = SubSeq(q, n + 1, Len(q))
  BY <1>0, <1>2, <1>5 DEF L!Trim
<1>8. n \in 0..m /\ \A i \in 1..n : L!Expired(r, q[i], c)
  BY <1>1, <1>2, <1>6
<1>9. k \in Seq(Nat) /\ Len(k) = m - n /\ \A i \in 1..(m - n) : k[i] = q[n + 1 + i - 1]
  <2>1. n + 1 \in 1..(m + 1) /\ m \in n..m
    BY <1>1, <1>8
  <2>2. k = SubSeq(q, n + 1, m)
    BY <1>1, <1>7
  <2>3. \A i \in (n + 1)..m : q[i] \in Nat
    BY <1>1, <1>8
  <2> QED
    BY <1>1, <1>8, <2>1, <2>2, <2>3, SubSeqProperties
<1>10. \A i \in 1..Len(k) : k[i] = q[i + n]
  BY <1>1, <1>8, <1>9
<1>11. Dropped(q, r, c, k)
  BY <1>1, <1>8, <1>9, <1>10 DEF Dropped
<1> QED
  BY <1>0, <1>11

\* A later window loses nothing to a trim: it counts the same entries.
LEMMA TrimKeeps ==
    ASSUME NEW q \in Seq(Nat), NEW c \in Credentials, NEW r \in Nat, NEW t \in Nat, r <= t,
           NEW k, k = L!Trim(q, r, c)
    PROVE  /\ k \in Seq(Nat) /\ Len(k) <= Len(q)
           /\ Cardinality(InDeque(q, c, t)) <= Cardinality(InDeque(k, c, t))
<1>1. PICK n \in 0..Len(q) :
        /\ \A i \in 1..n : L!Expired(r, q[i], c)
        /\ k \in Seq(Nat) /\ Len(k) = Len(q) - n
        /\ \A i \in 1..Len(k) : k[i] = q[i + n]
  <2>1. Dropped(q, r, c, L!Trim(q, r, c))
    BY TrimDrops
  <2> QED
    BY <2>1 DEF Dropped
<1>2. PICK m \in Nat : m = Len(q)
  OBVIOUS
<1>3. \A i \in 1..m : q[i] \in Nat
  BY <1>2
<1>4. PICK f : f = [i \in InDeque(q, c, t) |-> i - n]
  OBVIOUS
<1>5. ASSUME NEW i \in InDeque(q, c, t)
      PROVE  i \in Nat /\ f[i] = i - n /\ i - n \in InDeque(k, c, t)
  <2>1. i \in 1..m /\ q[i] <= t /\ ~L!Expired(t, q[i], c) /\ q[i] \in Nat /\ WindowOf[c] \in Nat
    BY <1>2, <1>3, <1>5, WindowsNat DEF InDeque
  <2>2. ~L!Expired(r, q[i], c)
    BY <2>1 DEF L!Expired
  <2>3. ~(i \in 1..n)
    BY <1>1, <2>2
  <2>4. i - n \in 1..Len(k) /\ k[i - n] = q[i]
    BY <1>1, <1>2, <2>1, <2>3
  <2> QED
    BY <1>4, <2>1, <2>4 DEF InDeque
<1>6. f \in [InDeque(q, c, t) -> InDeque(k, c, t)]
  BY <1>4, <1>5
<1>7. \A i, j \in InDeque(q, c, t) : f[i] = f[j] => i = j
  BY <1>1, <1>2, <1>5
<1>8. f \in Injection(InDeque(q, c, t), InDeque(k, c, t))
  BY <1>6, <1>7 DEF Injection, IsInjective
<1>9. IsFiniteSet(InDeque(k, c, t))
  BY <1>1, DequeFinite
<1> QED
  BY <1>1, <1>2, <1>8, <1>9, FS_Injection

LEMMA AppendCounts ==
    ASSUME NEW q \in Seq(Nat), NEW c \in Credentials, NEW r \in Nat, NEW t \in Nat
    PROVE  /\ Append(q, r) \in Seq(Nat) /\ Len(Append(q, r)) = Len(q) + 1
           /\ Cardinality(InDeque(q, c, t)) <= Cardinality(InDeque(Append(q, r), c, t))
           /\ r <= t /\ ~L!Expired(t, r, c) =>
                Cardinality(InDeque(Append(q, r), c, t)) = Cardinality(InDeque(q, c, t)) + 1
<1> PICK k : k = Append(q, r)
  OBVIOUS
<1>1. PICK m \in Nat : m = Len(q)
  OBVIOUS
<1>2. k \in Seq(Nat) /\ Len(k) = m + 1 /\ k[m + 1] = r /\ \A i \in 1..m : k[i] = q[i]
  BY <1>1
<1>3. InDeque(q, c, t) \in SUBSET InDeque(k, c, t)
  BY <1>1, <1>2 DEF InDeque
<1>4. IsFiniteSet(InDeque(k, c, t)) /\ IsFiniteSet(InDeque(q, c, t))
  BY <1>2, DequeFinite
<1>5. Cardinality(InDeque(q, c, t)) <= Cardinality(InDeque(k, c, t))
  BY <1>3, <1>4, FS_Subset
<1>6. ASSUME r <= t /\ ~L!Expired(t, r, c)
      PROVE  Cardinality(InDeque(k, c, t)) = Cardinality(InDeque(q, c, t)) + 1
  <2>1. InDeque(k, c, t) = InDeque(q, c, t) \cup {m + 1}
    <3>1. \A i \in 1..(m + 1) : i \in 1..m \/ i = m + 1
      BY <1>1
    <3> QED
      BY <1>1, <1>2, <1>6, <3>1 DEF InDeque
  <2>2. ~(m + 1 \in InDeque(q, c, t))
    BY <1>1 DEF InDeque
  <2> QED
    BY <1>4, <2>1, <2>2, FS_AddElement
<1> QED
  BY <1>1, <1>2, <1>5, <1>6

\* The admissions of A in the window of c that ends with t, and the threads that
\* hold a reading this window or an older one begins before.
Within(A, c, t) == {a \in A : a[1] <= t /\ ~L!Expired(t, a[1], c)}
HeldBy(held, t) == {w \in Workers : held[w] # L!Outside /\ held[w].at <= t}

\* A window is counted by the deque, or a newer check has trimmed it: then every
\* thread that can still add to it holds its reading already.
Fits(A, q, held, n, c, t) ==
    \/ Cardinality(Within(A, c, t)) <= Cardinality(InDeque(q, c, t))
    \/ /\ t < n
       /\ Cardinality(Within(A, c, t)) + Cardinality(HeldBy(held, t))
            <= Limit + Cardinality(Workers) - 1

LimiterInv ==
    /\ now \in 0..MaxTime
    /\ hits \in [Credentials -> Seq(Nat)]
    /\ \A c \in Credentials : Len(hits[c]) <= Limit
    /\ entering \in [Workers -> [cred : Credentials, at : 0..MaxTime] \cup {L!Outside}]
    /\ \A w \in Workers : entering[w] # L!Outside => entering[w].at <= now
    /\ admitted \in [Credentials -> SUBSET (Nat \X Nat)]
    /\ \A c \in Credentials : IsFiniteSet(admitted[c])
    /\ \A c \in Credentials, t \in 0..MaxTime : Fits(admitted[c], hits[c], entering, now, c, t)

LEMMA WorkersFinite ==
    /\ IsFiniteSet(Workers) /\ Cardinality(Workers) \in Nat \ {0}
    /\ \A S \in SUBSET Workers : IsFiniteSet(S) /\ Cardinality(S) \in Nat
                                 /\ Cardinality(S) <= Cardinality(Workers)
<1>1. IsFiniteSet(Workers) /\ Workers # {}
  BY ServiceConstants
<1>2. Cardinality(Workers) \in Nat /\ Cardinality(Workers) # 0
  BY <1>1, FS_CardinalityType, FS_EmptySet
<1>3. ASSUME NEW S \in SUBSET Workers
      PROVE  IsFiniteSet(S) /\ Cardinality(S) \in Nat /\ Cardinality(S) <= Cardinality(Workers)
  BY <1>1, FS_Subset, FS_CardinalityType
<1> QED
  BY <1>1, <1>2, <1>3

LEMMA WithinFinite ==
    ASSUME NEW A, IsFiniteSet(A), NEW c, NEW t
    PROVE  IsFiniteSet(Within(A, c, t)) /\ Cardinality(Within(A, c, t)) \in Nat
<1>1. Within(A, c, t) \in SUBSET A
  BY DEF Within
<1> QED
  BY <1>1, FS_Subset, FS_CardinalityType

\* The thread w that checks lets go of its reading r: one reading less in the
\* windows from r on, all that are left but w's own in those before.
LetGo(before, after, r, t) ==
    /\ before \in Nat /\ after \in Nat
    /\ r <= t => after = before - 1
    /\ ~(r <= t) => after = before /\ after <= Cardinality(Workers) - 1

LEMMA LetsGo ==
    ASSUME NEW held, held \in [Workers -> [cred : Credentials, at : 0..MaxTime] \cup {L!Outside}],
           NEW w \in Workers, held[w] # L!Outside, NEW t \in Nat
    PROVE  LetGo(Cardinality(HeldBy(held, t)),
                 Cardinality(HeldBy([held EXCEPT ![w] = L!Outside], t)), held[w].at, t)
<1> PICK r, left : r = held[w].at /\ left = [held EXCEPT ![w] = L!Outside]
  OBVIOUS
<1>1. HeldBy(left, t) = HeldBy(held, t) \ {w}
  BY DEF HeldBy
<1>2. IsFiniteSet(HeldBy(held, t)) /\ Cardinality(HeldBy(held, t)) \in Nat
      /\ Cardinality(HeldBy(left, t)) \in Nat
  <2>1. HeldBy(held, t) \in SUBSET Workers /\ HeldBy(left, t) \in SUBSET Workers
    BY DEF HeldBy
  <2> QED
    BY <2>1, WorkersFinite
<1>3. r <= t => w \in HeldBy(held, t)
  BY DEF HeldBy
<1>4. ~(r <= t) => ~(w \in HeldBy(held, t))
  BY DEF HeldBy
<1>5. r <= t => Cardinality(HeldBy(left, t)) = Cardinality(HeldBy(held, t)) - 1
  BY <1>1, <1>2, <1>3, FS_RemoveElement
<1>6. ASSUME ~(r <= t)
      PROVE  /\ HeldBy(left, t) = HeldBy(held, t)
             /\ Cardinality(HeldBy(left, t)) <= Cardinality(Workers) - 1
  <2>1. HeldBy(left, t) = HeldBy(held, t)
    BY <1>1, <1>4, <1>6
  <2>2. IsFiniteSet(Workers \ {w}) /\ Cardinality(Workers \ {w}) = Cardinality(Workers) - 1
    BY WorkersFinite, FS_RemoveElement
  <2>3. HeldBy(left, t) \in SUBSET (Workers \ {w})
    BY <1>1 DEF HeldBy
  <2>4. Cardinality(HeldBy(left, t)) <= Cardinality(Workers \ {w})
    BY <2>2, <2>3, FS_Subset
  <2> QED
    BY <2>1, <2>2, <2>4
<1>7. LetGo(Cardinality(HeldBy(held, t)), Cardinality(HeldBy(left, t)), r, t)
  BY <1>2, <1>5, <1>6 DEF LetGo
<1> QED
  BY <1>7

\* A check keeps the count of every window: of the credentials it does not admit, and
\* of the one it admits.
LEMMA CheckFits ==
    ASSUME NEW held, held \in [Workers -> [cred : Credentials, at : 0..MaxTime] \cup {L!Outside}],
           NEW w \in Workers, held[w] # L!Outside, NEW r \in Nat, r = held[w].at,
           NEW n \in Nat, r <= n, NEW t \in Nat, NEW c \in Credentials,
           NEW A, A \subseteq Nat \X Nat, IsFiniteSet(A), NEW a \in Nat \X Nat, a[1] = r,
           NEW q \in Seq(Nat), Len(q) <= Limit, Limit \in Nat, Fits(A, q, held, n, c, t)
    PROVE  /\ Fits(A, L!Trim(q, r, c), [held EXCEPT ![w] = L!Outside], n, c, t)
           /\ Fits(A \cup {a}, Append(L!Trim(q, r, c), r), [held EXCEPT ![w] = L!Outside], n, c, t)
<1> PICK k, left : k = L!Trim(q, r, c) /\ left = [held EXCEPT ![w] = L!Outside]
  OBVIOUS
<1>1. PICK held1, held2 : held1 = Cardinality(HeldBy(held, t)) /\ held2 = Cardinality(HeldBy(left, t))
  OBVIOUS
<1>2. PICK old, new : /\ old = Cardinality(Within(A, c, t))
                      /\ new = Cardinality(Within(A \cup {a}, c, t))
  OBVIOUS
<1>3. PICK d, e, f : /\ d = Cardinality(InDeque(q, c, t))
                     /\ e = Cardinality(InDeque(k, c, t))
                     /\ f = Cardinality(InDeque(Append(k, r), c, t))
  OBVIOUS
<1>4. PICK all : all = Cardinality(Workers)
  OBVIOUS
<1>5. /\ held1 \in Nat /\ held2 \in Nat /\ all \in Nat
      /\ r <= t => held2 = held1 - 1
      /\ ~(r <= t) => held2 = held1 /\ held2 <= all - 1
  <2>1. all \in Nat
    BY <1>4, WorkersFinite
  <2>2. LetGo(held1, held2, r, t)
    BY <1>1, LetsGo
  <2> QED
    BY <1>4, <2>1, <2>2 DEF LetGo
<1>6. /\ old \in Nat /\ new \in Nat /\ old <= new /\ new <= old + 1
      /\ ~(r <= t /\ ~L!Expired(t, r, c)) => new = old
  <2>1. IsFiniteSet(Within(A, c, t)) /\ old \in Nat
    BY <1>2, WithinFinite
  <2>2. CASE r <= t /\ ~L!Expired(t, r, c)
    <3>1. Within(A \cup {a}, c, t) = Within(A, c, t) \cup {a}
      BY <2>2 DEF Within
    <3>2. new = IF a \in Within(A, c, t) THEN old ELSE old + 1
      BY <1>2, <2>1, <3>1, FS_AddElement
    <3> QED
      BY <2>1, <2>2, <3>2
  <2>3. CASE ~(r <= t /\ ~L!Expired(t, r, c))
    <3>1. Within(A \cup {a}, c, t) = Within(A, c, t)
      BY <2>3 DEF Within
    <3> QED
      BY <1>2, <2>1, <2>3, <3>1
  <2> QED
    BY <2>2, <2>3
<1>7. k \in Seq(Nat) /\ r <= t => d <= e
  <2>1. CASE r <= t
    BY <1>3, <2>1, TrimKeeps
  <2> QED
    BY <2>1
<1>8. /\ d \in Nat /\ d <= Limit
  BY <1>3, DequeFinite
<1>9. k \in Seq(Nat)
  <2>1. Dropped(q, r, c, k)
    BY TrimDrops
  <2> QED
    BY <2>1 DEF Dropped
<1>10. /\ e \in Nat /\ f \in Nat /\ e <= f
       /\ r <= t /\ ~L!Expired(t, r, c) => f = e + 1
  <2>1. e \in Nat
    BY <1>3, <1>9, DequeFinite
  <2>2. Append(k, r) \in Seq(Nat)
    BY <1>9
  <2>3. /\ e <= f
        /\ r <= t /\ ~L!Expired(t, r, c) => f = e + 1
    BY <1>3, <1>9, AppendCounts
  <2>4. f \in Nat
    BY <1>3, <2>2, DequeFinite
  <2> QED
    BY <2>1, <2>3, <2>4
<1>11. old <= d \/ (t < n /\ old + held1 <= Limit + all - 1)
  BY <1>1, <1>2, <1>3, <1>4 DEF Fits
<1>12. /\ old <= e \/ (t < n /\ old + held2 <= Limit + all - 1)
       /\ new <= f \/ (t < n /\ new + held2 <= Limit + all - 1)
  <2>1. CASE r <= t
    BY <1>5, <1>6, <1>7, <1>8, <1>9, <1>10, <1>11, <2>1
  <2>2. CASE ~(r <= t)
    BY <1>5, <1>6, <1>8, <1>10, <1>11, <2>2
  <2> QED
    BY <2>1, <2>2
<1> QED
  BY <1>1, <1>2, <1>3, <1>4, <1>12 DEF Fits

LEMMA LimiterInit == L!Init => LimiterInv
<1> SUFFICES ASSUME L!Init PROVE LimiterInv
  OBVIOUS
<1>1. now = 0 /\ MaxTime \in Nat /\ Limit \in Nat
  BY ServiceConstants DEF L!Init
<1>2. \A c \in Credentials : hits[c] = <<>> /\ admitted[c] = {}
  BY DEF L!Init
<1>3. hits \in [Credentials -> Seq(Nat)] /\ \A c \in Credentials : Len(hits[c]) <= Limit
  <2>1. hits = [c \in Credentials |-> <<>>]
    BY DEF L!Init
  <2> QED
    BY <1>1, <1>2, <2>1
<1>4. admitted \in [Credentials -> SUBSET (Nat \X Nat)]
      /\ \A c \in Credentials : IsFiniteSet(admitted[c])
  <2>1. admitted = [c \in Credentials |-> {}]
    BY DEF L!Init
  <2> QED
    BY <1>2, <2>1, FS_EmptySet
<1>5. entering = [w \in Workers |-> L!Outside]
  BY DEF L!Init
<1>6. ASSUME NEW c \in Credentials, NEW t \in 0..MaxTime
      PROVE  Fits(admitted[c], hits[c], entering, now, c, t)
  <2>1. Within(admitted[c], c, t) = {} /\ Cardinality({}) = 0
    BY <1>2, FS_EmptySet DEF Within
  <2>2. Cardinality(InDeque(hits[c], c, t)) \in Nat
    BY <1>3, DequeFinite
  <2> QED
    BY <2>1, <2>2 DEF Fits
<1> QED
  BY <1>1, <1>3, <1>4, <1>5, <1>6 DEF LimiterInv

LEMMA LimiterStep == LimiterInv /\ [L!Next]_L!vars => LimiterInv'
<1> SUFFICES ASSUME LimiterInv, [L!Next]_L!vars PROVE LimiterInv'
  OBVIOUS
<1>1. MaxTime \in Nat /\ Limit \in Nat
  BY ServiceConstants
<1>2. /\ now \in 0..MaxTime /\ now \in Nat
      /\ hits \in [Credentials -> Seq(Nat)]
      /\ \A c \in Credentials : Len(hits[c]) <= Limit
      /\ entering \in [Workers -> [cred : Credentials, at : 0..MaxTime] \cup {L!Outside}]
      /\ \A w \in Workers : entering[w] # L!Outside => entering[w].at <= now
      /\ admitted \in [Credentials -> SUBSET (Nat \X Nat)]
      /\ \A c \in Credentials : IsFiniteSet(admitted[c])
      /\ \A c \in Credentials, t \in 0..MaxTime :
            Fits(admitted[c], hits[c], entering, now, c, t)
  BY <1>1 DEF LimiterInv
<1>3. CASE L!Tick
  <2>1. now' = now + 1 /\ now < MaxTime /\ hits' = hits /\ entering' = entering /\ admitted' = admitted
    BY <1>3 DEF L!Tick
  <2>2. ASSUME NEW c \in Credentials, NEW t \in 0..MaxTime
        PROVE  Fits(admitted[c], hits[c], entering, now + 1, c, t)
    BY <1>2 DEF Fits
  <2>3. \A w \in Workers : entering[w] # L!Outside => entering[w].at <= now + 1
    BY <1>2
  <2> QED
    BY <1>1, <1>2, <2>1, <2>2, <2>3 DEF LimiterInv
<1>4. ASSUME NEW w \in Workers, L!Enter(w) PROVE LimiterInv'
  <2>1. PICK c \in Credentials : entering' = [entering EXCEPT ![w] = [cred |-> c, at |-> now]]
    BY <1>4 DEF L!Enter
  <2>2. entering[w] = L!Outside /\ now' = now /\ hits' = hits /\ admitted' = admitted
    BY <1>4 DEF L!Enter
  <2>3. entering' \in [Workers -> [cred : Credentials, at : 0..MaxTime] \cup {L!Outside}]
    BY <1>2, <2>1
  <2>4. \A v \in Workers : entering'[v] # L!Outside => entering'[v].at <= now
    BY <1>2, <2>1
  <2>5. ASSUME NEW d \in Credentials, NEW t \in 0..MaxTime
        PROVE  Fits(admitted[d], hits[d], entering', now, d, t)
    <3>1. t \in Nat /\ Fits(admitted[d], hits[d], entering, now, d, t)
      BY <1>2
    \* A thread that enters holds the newest reading, which no overtaken window counts.
    <3>2. CASE t < now
      <4>1. entering'[w].at = now /\ \A v \in Workers \ {w} : entering'[v] = entering[v]
        BY <1>2, <2>1
      <4>2. ~(w \in HeldBy(entering, t)) /\ ~(w \in HeldBy(entering', t))
        BY <1>2, <2>2, <3>1, <3>2, <4>1 DEF HeldBy
      <4>3. HeldBy(entering', t) = HeldBy(entering, t)
        BY <4>1, <4>2 DEF HeldBy
      <4> QED
        BY <3>1, <4>3 DEF Fits
    <3>3. CASE ~(t < now)
      BY <3>1, <3>3 DEF Fits
    <3> QED
      BY <3>2, <3>3
  <2> QED
    BY <1>2, <2>2, <2>3, <2>4, <2>5 DEF LimiterInv
<1>5. ASSUME NEW w \in Workers, L!Check(w) PROVE LimiterInv'
  <2>1. PICK c, r, kept : /\ c = entering[w].cred /\ r = entering[w].at
                          /\ kept = L!Evicted(r, c)
    OBVIOUS
  <2>2. /\ entering[w] # L!Outside /\ now' = now
        /\ entering' = [entering EXCEPT ![w] = L!Outside]
        /\ \/ Len(kept[c]) >= Limit /\ hits' = kept /\ admitted' = admitted
           \/ /\ ~(Len(kept[c]) >= Limit)
              /\ hits' = [kept EXCEPT ![c] = Append(@, r)]
              /\ admitted' = [admitted EXCEPT ![c] = @ \cup {L!Admission(c, r)}]
    BY <1>5, <2>1 DEF L!Check, L!Full
  <2>3. c \in Credentials /\ r \in Nat /\ r <= now
    BY <1>1, <1>2, <2>1, <2>2
  <2>4. kept = [d \in Credentials |-> L!Trim(hits[d], r, d)]
    BY <2>1 DEF L!Evicted
  <2>5. ASSUME NEW d \in Credentials
        PROVE  kept[d] = L!Trim(hits[d], r, d) /\ kept[d] \in Seq(Nat) /\ Len(kept[d]) <= Limit
    <3>1. kept[d] = L!Trim(hits[d], r, d)
      BY <2>4
    <3>2. Dropped(hits[d], r, d, kept[d])
      BY <1>2, <2>3, <3>1, TrimDrops
    <3>3. Len(hits[d]) \in Nat /\ Len(hits[d]) <= Limit
      BY <1>2
    <3> QED
      BY <1>1, <3>1, <3>2, <3>3 DEF Dropped
  <2>6. PICK a : a = L!Admission(c, r)
    OBVIOUS
  <2>7. a \in Nat \X Nat /\ a[1] = r
    <3>1. {b \in admitted[c] : b[1] = r} \in SUBSET admitted[c] /\ IsFiniteSet(admitted[c])
      BY <1>2, <2>3
    <3>2. Cardinality({b \in admitted[c] : b[1] = r}) \in Nat
      BY <3>1, FS_Subset, FS_CardinalityType
    <3> QED
      BY <2>3, <2>6, <3>2, SameCount DEF L!Admission
  <2>8. entering' \in [Workers -> [cred : Credentials, at : 0..MaxTime] \cup {L!Outside}]
    BY <1>2, <2>2
  <2>9. \A v \in Workers : entering'[v] # L!Outside => entering'[v].at <= now
    BY <1>2, <2>2
  <2>10. ASSUME NEW d \in Credentials, NEW t \in 0..MaxTime
         PROVE  /\ Fits(admitted[d], kept[d], entering', now, d, t)
                /\ d = c => Fits(admitted[d] \cup {a}, Append(kept[d], r), entering', now, d, t)
    <3>1. /\ t \in Nat /\ Fits(admitted[d], hits[d], entering, now, d, t)
          /\ admitted[d] \subseteq Nat \X Nat /\ IsFiniteSet(admitted[d])
          /\ hits[d] \in Seq(Nat) /\ Len(hits[d]) <= Limit
      BY <1>2
    <3>2. /\ entering \in [Workers -> [cred : Credentials, at : 0..MaxTime] \cup {L!Outside}]
          /\ entering[w] # L!Outside /\ r = entering[w].at /\ now \in Nat
      BY <1>2, <2>1, <2>2
    <3>3. LET e == [entering EXCEPT ![w] = L!Outside]
          IN  /\ Fits(admitted[d], L!Trim(hits[d], r, d), e, now, d, t)
              /\ Fits(admitted[d] \cup {a}, Append(L!Trim(hits[d], r, d), r), e, now, d, t)
      BY <1>1, <2>3, <2>7, <3>1, <3>2, CheckFits
    <3> QED
      BY <2>2, <2>5, <3>3
  <2>11. CASE hits' = kept /\ admitted' = admitted
    <3>1. kept \in [Credentials -> Seq(Nat)]
      BY <2>4, <2>5
    <3> QED
      BY <1>2, <2>2, <2>5, <2>8, <2>9, <2>10, <2>11, <3>1 DEF LimiterInv
  <2>12. CASE /\ ~(Len(kept[c]) >= Limit)
              /\ hits' = [kept EXCEPT ![c] = Append(@, r)]
              /\ admitted' = [admitted EXCEPT ![c] = @ \cup {a}]
    <3>1. /\ hits'[c] = Append(kept[c], r) /\ admitted'[c] = admitted[c] \cup {a}
          /\ \A d \in Credentials \ {c} : hits'[d] = kept[d] /\ admitted'[d] = admitted[d]
      BY <1>2, <2>3, <2>4, <2>12
    <3>2. Append(kept[c], r) \in Seq(Nat) /\ Len(Append(kept[c], r)) = Len(kept[c]) + 1
      BY <2>3, <2>5
    <3>3. /\ hits' \in [Credentials -> Seq(Nat)]
          /\ \A d \in Credentials : Len(hits'[d]) <= Limit
      <4>1. kept \in [Credentials -> Seq(Nat)]
        BY <2>4, <2>5
      <4>2. Len(kept[c]) \in Nat /\ Len(kept[c]) + 1 <= Limit
        BY <1>1, <2>3, <2>5, <2>12
      <4>3. hits' \in [Credentials -> Seq(Nat)]
        BY <2>12, <3>2, <4>1
      <4> QED
        BY <2>5, <3>1, <3>2, <4>2, <4>3
    <3>4. /\ admitted' \in [Credentials -> SUBSET (Nat \X Nat)]
          /\ \A d \in Credentials : IsFiniteSet(admitted'[d])
      <4>1. admitted' \in [Credentials -> SUBSET (Nat \X Nat)]
        BY <1>2, <2>7, <2>12
      <4>2. IsFiniteSet(admitted[c] \cup {a})
        BY <1>2, <2>3, FS_AddElement
      <4> QED
        BY <1>2, <3>1, <4>1, <4>2
    <3>5. ASSUME NEW d \in Credentials, NEW t \in 0..MaxTime
          PROVE  Fits(admitted'[d], hits'[d], entering', now, d, t)
      <4>1. CASE d = c
        BY <2>10, <3>1, <4>1
      <4>2. CASE d # c
        BY <2>10, <3>1, <4>2
      <4> QED
        BY <4>1, <4>2
    <3> QED
      BY <1>2, <2>2, <2>8, <2>9, <3>3, <3>4, <3>5 DEF LimiterInv
  <2> QED
    BY <2>2, <2>6, <2>11, <2>12
<1>6. CASE UNCHANGED L!vars
  BY <1>6 DEF L!vars, LimiterInv
<1> QED
  BY <1>3, <1>4, <1>5, <1>6 DEF L!Next

\* Between the clock reading and the lock a newer check may trim what an older one
\* would have counted (RateLimiter.check): the limit is exceeded, but by no more than
\* the other threads, whatever their number, the limit, the windows and the clock.
THEOREM WindowsBounded == UnionSpec => []WindowBounded
<1>1. LimiterInv => WindowBounded
  <2> SUFFICES ASSUME LimiterInv, NEW c \in Credentials, NEW t \in 0..MaxTime
               PROVE  Cardinality(L!InWindow(c, t)) <= Limit + Cardinality(Workers) - 1
    BY SameCount DEF WindowBounded, L!WindowBounded
  <2>1. /\ Fits(admitted[c], hits[c], entering, now, c, t) /\ IsFiniteSet(admitted[c])
        /\ hits[c] \in Seq(Nat) /\ Len(hits[c]) <= Limit /\ Limit \in Nat
    BY ServiceConstants DEF LimiterInv
  <2>2. Within(admitted[c], c, t) = L!InWindow(c, t)
    BY DEF Within, L!InWindow
  <2>3. PICK all, old, d, held : /\ all = Cardinality(Workers) /\ old = Cardinality(L!InWindow(c, t))
                                 /\ d = Cardinality(InDeque(hits[c], c, t))
                                 /\ held = Cardinality(HeldBy(entering, t))
    OBVIOUS
  <2>4. all \in Nat \ {0} /\ held \in Nat
    <3>1. HeldBy(entering, t) \in SUBSET Workers
      BY DEF HeldBy
    <3> QED
      BY <2>3, <3>1, WorkersFinite
  <2>5. old \in Nat
    BY <2>1, <2>2, <2>3, WithinFinite
  <2>6. d \in Nat /\ d <= Len(hits[c]) /\ Len(hits[c]) \in Nat
    BY <2>1, <2>3, DequeFinite
  <2>7. old <= d \/ old + held <= Limit + all - 1
    BY <2>1, <2>2, <2>3 DEF Fits
  <2>8. old <= Limit + all - 1
    BY <2>1, <2>4, <2>5, <2>6, <2>7
  <2> QED
    BY <2>3, <2>8
<1>2. L!Spec => []LimiterInv
  BY LimiterInit, LimiterStep, PTL DEF L!Spec
<1> QED
  BY <1>1, <1>2, LimiterPart, PTL
================================================================================
