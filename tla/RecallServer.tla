------------------------------ MODULE RecallServer ------------------------------
(***************************************************************************)
(* The recall gateway of recall_service.py: BoundedThreadingHTTPServer,    *)
(* whose accept loop hands each connection to a thread that holds a slot   *)
(* of one of two semaphores; the engine's lock, which every request but    *)
(* /health takes; and the listener watchdog, which probes /health, counts  *)
(* failed probes and probes that found no progress, and ends the process   *)
(* so that a supervisor replaces it.                                       *)
(*                                                                         *)
(* A request is the path it asks for and where it came from; parsing,      *)
(* authentication and the answer's content are left out (RateLimiter has   *)
(* the limiter).  Time passes only between two wake-ups of the watchdog;   *)
(* its timestamps are kept as sets of ages: they are distinct, as it sleeps *)
(* between two of them.                                                    *)
(***************************************************************************)
EXTENDS Naturals, FiniteSets

CONSTANTS
    Threads,     \* handler threads: one for every slot
    MaxWorkers,  \* slots of _worker_sem
    Reserved,    \* slots of _probe_sem
    Interval,    \* the watchdog's sleep
    ProbeTime,   \* the longest time one wake-up of the watchdog takes
    Threshold,   \* failures in the window that end the process
    Window,      \* the window
    Events       \* which failures happen: "hang", "stall", "loopback", "noThread"

\* Startup refuses any other watchdog (_validate_listener_watchdog_config).
ConfigAccepted ==
    /\ Interval > 0 /\ Threshold > 0 /\ Window > 0
    /\ Interval * (Threshold - 1) <= Window

ASSUME ServerAssumptions ==
    /\ {MaxWorkers, Reserved, Interval, ProbeTime, Threshold, Window} \subseteq Nat
    /\ ConfigAccepted
    /\ IsFiniteSet(Threads) /\ Cardinality(Threads) >= MaxWorkers + Reserved

VARIABLES
    listener,   \* the accept loop: "up", "stalled", or "down" with its process
    general,    \* free slots of _worker_sem
    reserve,    \* free slots of _probe_sem
    handler,    \* the request each thread serves
    active,     \* _active_general_handler_count
    engine,     \* holder of RecallEngine._lock: "free", "held" or "hung"
    watch,      \* the watchdog thread
    sampled,    \* history: evaluated probes since a general handler completed
    refused,    \* history: failed probes in a row
    lost        \* history: slots taken for a thread that never started

server  == <<general, reserve, handler, active, engine>>
history == <<sampled, refused, lost>>
vars    == <<listener, server, watch, history>>

\* A thread that serves nothing.
None == [at |-> "none"]
Request == [path : {"health", "engine"}, client : {"remote", "loopback", "probe"},
            pool : {"general", "reserve"}]
\* started: the slot is taken, the count is not; closing: the other way round.
Busy == [at : {"started", "reading", "locking", "inEngine", "leaving", "closing"},
         req : Request]

\* at: what the watchdog does next; completed: whether a general handler has
\* completed since the snapshot it keeps in completed_general_handlers.
Watch == [at : {"starting", "asleep", "probing", "answered", "failed"}, completed : BOOLEAN,
          fails : SUBSET Nat, stalls : SUBSET Nat, last : {"ok", "fail"}]

TypeOK ==
    /\ listener \in {"up", "stalled", "down"}
    /\ general \in 0..MaxWorkers
    /\ reserve \in 0..Reserved
    /\ handler \in [Threads -> Busy \cup {None}]
    /\ active \in 0..MaxWorkers
    /\ engine \in {"free", "held", "hung"}
    /\ watch \in Watch
    /\ sampled \in 0..Threshold
    /\ refused \in 0..Threshold
    /\ lost \in 0..MaxWorkers

Started == [at |-> "starting", completed |-> FALSE, fails |-> {}, stalls |-> {},
           last |-> "ok"]

Fresh ==
    /\ listener = "up"
    /\ general = MaxWorkers
    /\ reserve = Reserved
    /\ handler = [t \in Threads |-> None]
    /\ active = 0
    /\ engine = "free"
    /\ watch = Started
    /\ sampled = 0
    /\ refused = 0
    /\ lost = 0

Init == Fresh

At(t) == handler[t].at
Of(t) == handler[t].req
Goes(t, at) == handler' = [handler EXCEPT ![t].at = at]
InPool(t, pool) == At(t) # "none" /\ Of(t).pool = pool

(***************************************************************************)
(* Accepting connections.                                                  *)
(***************************************************************************)

\* The slot process_request takes without blocking; "none" closes the connection.
Slot(client) ==
    IF general > 0 THEN "general"
    ELSE IF client \in {"loopback", "probe"} /\ reserve > 0 THEN "reserve" ELSE "none"

TakeSlot(pool) ==
    /\ general' = IF pool = "general" THEN general - 1 ELSE general
    /\ reserve' = IF pool = "reserve" THEN reserve - 1 ELSE reserve

\* In a general slot nothing depends on where a client is.
Seen(client) == IF client = "loopback" /\ Slot(client) = "general" THEN "remote" ELSE client

StartHandler(path, client) ==
    handler' = [handler EXCEPT ![CHOOSE t \in Threads : At(t) = "none"] =
        [at |-> "started",
         req |-> [path |-> path, client |-> Seen(client), pool |-> Slot(client)]]]

\* A connection that finds no slot is shut down: nothing changes.
Connect ==
    /\ listener = "up"
    /\ \E path \in {"health", "engine"},
          client \in IF "loopback" \in Events THEN {"remote", "loopback"} ELSE {"remote"} :
           /\ Slot(client) # "none"
           /\ TakeSlot(Slot(client))
           /\ StartHandler(path, client)
    /\ UNCHANGED <<listener, active, engine, watch, history>>

\* Thread.start raises in process_request: the accept loop closes the
\* connection and goes on, and nobody releases the slot.
ConnectUnserved ==
    /\ "noThread" \in Events
    /\ listener = "up"
    /\ Slot("remote") # "none"
    /\ TakeSlot(Slot("remote"))
    /\ lost' = lost + 1
    /\ UNCHANGED <<listener, handler, active, engine, watch, sampled, refused>>

Stall ==
    /\ "stall" \in Events
    /\ listener = "up"
    /\ listener' = "stalled"
    /\ UNCHANGED <<server, watch, history>>

(***************************************************************************)
(* A handler thread.                                                       *)
(***************************************************************************)
Count(t) ==
    /\ At(t) = "started"
    /\ active' = IF Of(t).pool = "general" THEN active + 1 ELSE active
    /\ Goes(t, "reading")
    /\ UNCHANGED <<listener, general, reserve, engine, watch, history>>

\* Handshake, headers and body, each under a deadline.
Read(t) ==
    /\ At(t) = "reading"
    /\ Of(t).path = "engine"
    /\ Goes(t, "locking")
    /\ UNCHANGED <<listener, general, reserve, active, engine, watch, history>>

\* /health answers without the engine's lock.  The watchdog may have given up.
Health(t) ==
    /\ At(t) = "reading"
    /\ Of(t).path = "health"
    /\ Goes(t, "leaving")
    /\ watch' = IF Of(t).client = "probe" /\ watch.at = "probing"
                THEN [watch EXCEPT !.at = "answered"] ELSE watch
    /\ UNCHANGED <<listener, general, reserve, active, engine, history>>

\* A deadline passes or the client goes away: handle_error.
ClientLost(t) ==
    /\ At(t) = "reading"
    /\ Of(t).client # "probe"
    /\ Goes(t, "leaving")
    /\ UNCHANGED <<listener, general, reserve, active, engine, watch, history>>

Lock(t) ==
    /\ At(t) = "locking"
    /\ engine = "free"
    /\ engine' = "held"
    /\ Goes(t, "inEngine")
    /\ UNCHANGED <<listener, general, reserve, active, watch, history>>

\* A recall that never returns keeps the lock.
Hang ==
    /\ "hang" \in Events
    /\ engine = "held"
    /\ engine' = "hung"
    /\ UNCHANGED <<listener, general, reserve, handler, active, watch, history>>

\* Mutant of Unlock: The engine's lock is not released.
UnlockKept(t) ==
    /\ At(t) = "inEngine"
    /\ engine = "held"
    /\ Goes(t, "leaving")
    /\ UNCHANGED <<listener, general, reserve, active, engine, watch, history>>

Unlock(t) ==
    /\ At(t) = "inEngine"
    /\ engine = "held"
    /\ engine' = "free"
    /\ Goes(t, "leaving")
    /\ UNCHANGED <<listener, general, reserve, active, watch, history>>

\* The finally block of _dispatch_request: counts under their lock, then the slot.
Uncount(t) ==
    /\ At(t) = "leaving"
    /\ Goes(t, "closing")
    /\ IF Of(t).pool = "general"
       THEN /\ active' = active - 1
            /\ watch' = [watch EXCEPT !.completed = TRUE]
            /\ sampled' = 0
       ELSE UNCHANGED <<active, watch, sampled>>
    /\ UNCHANGED <<listener, general, reserve, engine, refused, lost>>

\* Mutant of Release: The slot of a request is always released to _worker_sem.
ReleaseGeneral(t) ==
    /\ At(t) = "closing"
    /\ general' = general + 1
    /\ reserve' = reserve
    /\ handler' = [handler EXCEPT ![t] = None]
    /\ UNCHANGED <<listener, active, engine, watch, history>>

Release(t) ==
    /\ At(t) = "closing"
    /\ general' = IF Of(t).pool = "general" THEN general + 1 ELSE general
    /\ reserve' = IF Of(t).pool = "reserve" THEN reserve + 1 ELSE reserve
    /\ handler' = [handler EXCEPT ![t] = None]
    /\ UNCHANGED <<listener, active, engine, watch, history>>

(***************************************************************************)
(* The listener watchdog.                                                  *)
(***************************************************************************)
Older(ages, d) == {a + d : a \in ages}

\* Mutant of InWindow: The window is taken without its end.
InWindowOpen(ages) == {a \in ages : a < Window}

InWindow(ages) == {a \in ages : a <= Window}

\* What a wake-up adds to the timestamps; "now" is the probe's start.
Added(ages) == InWindow(ages \cup {0})

\* sleep(interval_s), then the probe: it is a connection like any other.  The
\* first sleep is a grace period, and the snapshot is taken after it.
Wake ==
    /\ listener # "down"
    /\ watch.at \in {"starting", "asleep"}
    /\ \E d \in 1..ProbeTime :
         LET aged(l) == Older(l, Interval + d)
             w == [watch EXCEPT !.fails = aged(@), !.stalls = aged(@),
                                !.completed = @ /\ watch.at # "starting"]
         IN IF listener = "up" /\ Slot("probe") # "none"
            THEN /\ TakeSlot(Slot("probe"))
                 /\ StartHandler("health", "probe")
                 /\ watch' = [w EXCEPT !.at = "probing"]
            ELSE /\ watch' = [w EXCEPT !.at = IF listener = "up" THEN "failed" ELSE "probing"]
                 /\ UNCHANGED <<general, reserve, handler>>
    /\ UNCHANGED <<listener, active, engine, history>>

ProbeTimeout ==
    /\ watch.at = "probing"
    /\ watch' = [watch EXCEPT !.at = "failed"]
    /\ UNCHANGED <<listener, server, history>>

Capped(n) == IF n < Threshold THEN n + 1 ELSE n

\* Mutant of NoProgress: The watchdog looks at the room only.
NoProgressFull == active = MaxWorkers

\* The snapshot taken after a good probe shows neither progress nor room.
NoProgress == ~watch.completed /\ active = MaxWorkers

ProbeOk ==
    /\ listener # "down"
    /\ watch.at = "answered"
    /\ sampled' = Capped(sampled)
    /\ refused' = 0
    /\ LET stalls == IF NoProgress THEN Added(watch.stalls) ELSE {}
       IN /\ watch' = [at |-> "asleep", completed |-> FALSE, fails |-> {},
                       stalls |-> stalls, last |-> "ok"]
          /\ listener' = IF Cardinality(stalls) >= Threshold THEN "down" ELSE listener
    /\ UNCHANGED <<server, lost>>

ProbeFailed ==
    /\ listener # "down"
    /\ watch.at = "failed"
    /\ sampled' = Capped(sampled)
    /\ refused' = Capped(refused)
    /\ LET fails == Added(watch.fails)
       IN /\ watch' = [watch EXCEPT !.at = "asleep", !.fails = fails, !.stalls = {},
                                    !.last = "fail"]
          /\ listener' = IF Cardinality(fails) >= Threshold THEN "down" ELSE listener
    /\ UNCHANGED <<server, lost>>

\* os._exit(75): the threads are gone; a supervisor starts the process again.
Restart ==
    /\ listener = "down"
    /\ listener' = "up"
    /\ general' = MaxWorkers
    /\ reserve' = Reserved
    /\ handler' = [t \in Threads |-> None]
    /\ active' = 0
    /\ engine' = "free"
    /\ watch' = Started
    /\ sampled' = 0
    /\ refused' = 0
    /\ lost' = 0

Serve(t) ==
    /\ listener # "down"
    /\ Count(t) \/ Read(t) \/ Health(t) \/ ClientLost(t) \/ Lock(t) \/ Unlock(t)
       \/ Uncount(t) \/ Release(t)

Watchdog == Wake \/ (listener # "down" /\ ProbeTimeout) \/ ProbeOk \/ ProbeFailed

Next ==
    \/ Connect \/ ConnectUnserved \/ Stall
    \/ \E t \in Threads : Serve(t)
    \/ listener # "down" /\ Hang
    \/ Watchdog
    \/ Restart

Spec == Init /\ [][Next]_vars

(***************************************************************************)
(* Running threads go on, deadlines pass, a lock that is free is given to  *)
(* some waiting thread, the watchdog wakes, and the supervisor restarts.   *)
(* Nobody has to connect, and no failure has to happen.                    *)
(***************************************************************************)
Steps(t) ==
    listener # "down" /\ (Count(t) \/ Read(t) \/ Health(t) \/ Unlock(t) \/ Uncount(t) \/ Release(t))

FairSpec ==
    /\ Spec
    /\ \A t \in Threads : WF_vars(Steps(t))
    /\ WF_vars(listener # "down" /\ \E t \in Threads : Lock(t))
    /\ WF_vars(Wake)
    /\ WF_vars(listener # "down" /\ ProbeTimeout)
    /\ WF_vars(ProbeOk)
    /\ WF_vars(ProbeFailed)
    /\ WF_vars(Restart)

(***************************************************************************)
(* Properties.                                                             *)
(***************************************************************************)
\* Every slot is free, held by one live thread on whatever path its request
\* takes, or lost to a thread that did not start; the count the watchdog reads
\* is that of the threads between their two counter updates.
SlotsAccounted ==
    /\ general + lost + Cardinality({t \in Threads : InPool(t, "general")}) = MaxWorkers
    /\ reserve + Cardinality({t \in Threads : InPool(t, "reserve")}) = Reserved
    /\ active = Cardinality({t \in Threads :
                   InPool(t, "general") /\ At(t) \notin {"started", "closing"}})

\* The watchdog spares a server that works: it ends the process only after
\* Threshold failed probes in a row, or Threshold evaluated probes since a
\* general handler last completed.
ProgressSpares ==
    [][listener # "down" /\ listener' = "down" => sampled' = Threshold \/ refused' = Threshold]_vars

\* Every general slot is held and no holder can move.
Wedged ==
    /\ listener # "down"
    /\ general = 0
    /\ \A t \in Threads : InPool(t, "general") =>
          At(t) \in {"locking", "inEngine"} /\ engine = "hung"

Flapping == []<>(watch.last = "ok") /\ []<>(watch.last = "fail")

\* A pool wedged by running handlers, or an accept loop that stopped, is
\* replaced, unless probes keep alternating between answered and refused: each
\* outcome clears the count of the other.
StuckOnlyIfFlapping == <>[](Wedged /\ lost = 0) \/ <>[](listener = "stalled") => Flapping

\* With no engine call that hangs, a full pool drains again and again, unless
\* loopback requests in reserved slots keep overtaking it at the engine's lock.
PoolDrains ==
    [](engine # "hung" /\ lost < MaxWorkers) =>
        []<>(general > 0 \/ \E t \in Threads : InPool(t, "reserve") /\ Of(t).path = "engine")

================================================================================
