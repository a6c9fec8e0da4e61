------------------------------ MODULE MemoryFiles ------------------------------
(***************************************************************************)
(* The files agents keep as memories: MemoryToolBackend                    *)
(* (adapters/memory_tool.py) and HeartwoodOpenClawMemoryRuntime            *)
(* (adapters/openclaw.py).  A file is its newest memory, found through an  *)
(* index each backend builds once; several backends share a store.  Every  *)
(* backend is trusted (no principal), and no record is reviewed or erased  *)
(* otherwise.                                                              *)
(***************************************************************************)
EXTENDS Naturals, FiniteSets

CONSTANTS
    Backends,
    Paths,      \* the files of one directory
    MaxVersions \* bound on writes stamped

VARIABLES
    tool,   \* "memory" or "openclaw"; the two never see each other's rows
    rows,   \* created_at -> its path and whether it is superseded
    clock,
    index,  \* each backend's path -> created_at of its current version
    retireOnly, \* each backend's _retire_only
    op      \* each backend's command: see Begin

vars == <<tool, rows, clock, index, retireOnly, op>>

Idle == [pc |-> "idle"]
Down == [pc |-> "down"]
MaxOf(S) == CHOOSE n \in S : \A m \in S : m <= n
With(f, x, v) == [y \in DOMAIN f \cup {x} |-> IF y = x THEN v ELSE f[y]]
Without(f, X) == [y \in DOMAIN f \ X |-> f[y]]

Versions(p) == {v \in DOMAIN rows : rows[v].path = p}
Live(p) == {v \in Versions(p) : ~rows[v].superseded}
AllLive == UNION {Live(p) : p \in Paths}

TypeOK ==
    /\ DOMAIN rows \subseteq 1..clock /\ clock <= MaxVersions
    /\ \A v \in DOMAIN rows : rows[v].path \in Paths /\ rows[v].superseded \in BOOLEAN
    /\ \A b \in Backends :
         /\ DOMAIN index[b] \subseteq Paths /\ retireOnly[b] \subseteq DOMAIN index[b]
         /\ \A p \in DOMAIN index[b] : index[b][p] \in 1..clock
         /\ op[b].pc \in {"idle", "down", "scan", "stamp", "commit", "retire", "purge", "done"}

Init ==
    /\ tool \in {"memory", "openclaw"} /\ rows = [v \in {} |-> 0] /\ clock = 0
    /\ index = [b \in Backends |-> [p \in {} |-> 0]]
    /\ retireOnly = [b \in Backends |-> {}] /\ op = [b \in Backends |-> Idle]

(***************************************************************************)
(* _rebuild_index.                                                         *)
(***************************************************************************)
\* The memory tool: an older version that is live, under a superseded newest one.
Hidden(p) ==
    /\ tool = "memory" /\ Live(p) # {}
    /\ rows[MaxOf(Versions(p))].superseded

Listed == {p \in Paths : Versions(p) # {} /\ (tool = "memory" \/ MaxOf(Versions(p)) \in Live(p))}

Rebuilt ==
    [p \in Listed |-> IF Hidden(p) THEN MaxOf(Live(p)) ELSE MaxOf(Versions(p))]

\* The version a backend that starts now would show; 0: no file.
File(p) == IF p \in Listed /\ Rebuilt[p] \in AllLive THEN Rebuilt[p] ELSE 0

Open(b) ==
    /\ op[b].pc = "down"
    /\ index' = [index EXCEPT ![b] = Rebuilt]
    /\ retireOnly' = [retireOnly EXCEPT ![b] = {p \in Listed : Hidden(p)}]
    /\ op' = [op EXCEPT ![b] = Idle]
    /\ UNCHANGED <<tool, rows, clock>>

Crash(b) ==
    /\ op[b].pc # "down"
    /\ op' = [op EXCEPT ![b] = Down]
    /\ index' = [index EXCEPT ![b] = [p \in {} |-> 0]]
    /\ retireOnly' = [retireOnly EXCEPT ![b] = {}]
    /\ UNCHANGED <<tool, rows, clock>>

(***************************************************************************)
(* Commands.  In op: paths, the files it is about; into, the one of them   *)
(* it writes, if any, as version at; was, alone and fresh, for the         *)
(* properties.                                                             *)
(***************************************************************************)
Superseded(v) == v \in DOMAIN rows /\ rows[v].superseded

\* _current of an indexed path: a row that is gone still counts, and is _taken.
Current(b, p) == p \in DOMAIN index[b] /\ ~Superseded(index[b][p])

Busy(b) == op[b].pc \notin {"idle", "down"}

Begin(b, command) ==
    LET others == {c \in Backends \ {b} : Busy(c)}
        started == [alone |-> others = {},
                    fresh |-> \A p \in command.paths :
                        (IF Current(b, p) THEN index[b][p] ELSE 0) = File(p),
                    was |-> [p \in command.paths |-> File(p)],
                    pc |-> command.pc, kind |-> command.kind, paths |-> command.paths,
                    into |-> command.into, at |-> 0, gone |-> {}, purging |-> {}]
    IN /\ op[b].pc = "idle"
       /\ op' = [c \in Backends |->
                   IF c = b THEN started
                   ELSE IF Busy(c) THEN [op[c] EXCEPT !.alone = FALSE] ELSE op[c]]
       /\ UNCHANGED <<tool, rows, clock, index, retireOnly>>

Create(b, p) ==
    /\ tool = "memory" /\ ~Current(b, p)
    /\ Begin(b, [pc |-> "stamp", kind |-> "create", paths |-> {p}, into |-> {p}])

\* _str_replace and _insert, of a text the command fits; remember_markdown.
Write(b, p) ==
    /\ tool = "openclaw" \/ Current(b, p)
    /\ Begin(b, [pc |-> "scan", kind |-> "edit", paths |-> {p}, into |-> {p}])

Rename(b, old, new) ==
    /\ tool = "memory" /\ old # new /\ Current(b, old) /\ ~Current(b, new)
    /\ Begin(b, [pc |-> "scan", kind |-> "rename", paths |-> {old, new},
                 into |-> {new}])

\* A file or the directory.
Delete(b, covered) ==
    LET targets == {p \in covered : IF tool = "memory" THEN Current(b, p) ELSE p \in DOMAIN index[b]}
    IN /\ targets # {}
       /\ Begin(b, [pc |-> "scan", kind |-> "delete", paths |-> targets,
                    into |-> {}])

\* The paths whose versions a command retires.
Left(b) == IF op[b].kind = "rename" THEN op[b].paths \ op[b].into ELSE op[b].paths

\* Mutant of Earlier: only the versions written before the current one.
EarlierOlder(b, paths) ==
    UNION {{v \in Live(p) : p \in DOMAIN index[b] /\ v < index[b][p]} : p \in paths}

\* _earlier_versions, and _live_versions without the current ones: whatever is live.
Earlier(b, paths) ==
    UNION {{v \in Live(p) : p \notin DOMAIN index[b] \/ v # index[b][p]} : p \in paths}

\* The versions of Left that this backend's index holds.
Held(b) == {index[b][p] : p \in Left(b) \cap DOMAIN index[b]}

\* What the transaction is to retire, read before it.  A write retires the versions it
\* replaces, a delete those it will not purge.
Scan(b) ==
    /\ op[b].pc = "scan"
    /\ LET kept == IF op[b].kind = "delete" THEN {p \in Left(b) : p \in retireOnly[b]} ELSE {}
           current == IF op[b].kind = "delete" THEN {index[b][p] : p \in kept}
                      ELSE IF tool = "memory" THEN Held(b) ELSE Held(b) \cap AllLive
       IN op' = [op EXCEPT ![b].gone = Earlier(b, Left(b)) \cup current,
                           ![b].pc = IF op[b].kind = "delete" THEN "retire" ELSE "stamp"]
    /\ UNCHANGED <<tool, rows, clock, index, retireOnly>>

\* remember takes created_at well before it commits.
Stamp(b) ==
    /\ op[b].pc = "stamp" /\ clock < MaxVersions
    /\ clock' = clock + 1
    /\ op' = [op EXCEPT ![b].pc = "commit", ![b].at = clock + 1]
    /\ UNCHANGED <<tool, rows, index, retireOnly>>

Retired(gone) == [v \in DOMAIN rows |-> IF v \in gone THEN [rows[v] EXCEPT !.superseded = TRUE] ELSE rows[v]]

\* insert_memory_superseding: refused if a version it retires is gone or superseded.
\* A rename then purges the old version, unless it is to be retired only.
Commit(b) ==
    /\ op[b].pc = "commit"
    /\ LET o == op[b]
           new == CHOOSE p \in o.into : TRUE
           moved == o.paths \ o.into
       IN IF ~(o.gone \subseteq AllLive)
          THEN op' = [op EXCEPT ![b] = Idle] /\ UNCHANGED <<rows, index, retireOnly>>
          ELSE /\ rows' = With(Retired(o.gone), o.at, [path |-> new, superseded |-> FALSE])
               /\ index' = [index EXCEPT ![b] = With(Without(@, moved), new, o.at)]
               /\ retireOnly' = [retireOnly EXCEPT ![b] =
                    IF o.kind = "create" THEN @ ELSE @ \ Left(b)]
               /\ op' = [op EXCEPT
                    ![b].purging = {index[b][p] : p \in moved \ retireOnly[b]},
                    ![b].pc = IF moved \subseteq retireOnly[b] THEN "done" ELSE "purge"]
    /\ UNCHANGED <<tool, clock>>

\* A delete that is done forgets its paths.
Popped(b) ==
    /\ index' = [index EXCEPT ![b] = Without(@, op[b].paths)]
    /\ retireOnly' = [retireOnly EXCEPT ![b] = @ \ op[b].paths]

\* Mutant of Retire: the purges come first.
RetireLater(b) ==
    /\ op[b].pc = "retire"
    /\ LET o == op[b]
           now == {index[b][p] : p \in o.paths \ retireOnly[b]}
       IN IF ~(o.gone \subseteq AllLive)
          THEN op' = [op EXCEPT ![b] = Idle] /\ UNCHANGED <<rows, index, retireOnly>>
          ELSE IF now \cap DOMAIN rows # {}
          THEN rows' = Without(rows, now) /\ UNCHANGED <<op, index, retireOnly>>
          ELSE /\ rows' = Retired(o.gone)
               /\ op' = [op EXCEPT ![b].pc = "done"]
               /\ Popped(b)
    /\ UNCHANGED <<tool, clock>>

\* Of a delete: supersede_audited, all or nothing, before anything is purged.
Retire(b) ==
    /\ op[b].pc = "retire"
    /\ LET o == op[b]
           purging == {index[b][p] : p \in o.paths \ retireOnly[b]}
       IN IF ~(o.gone \subseteq AllLive)
          THEN op' = [op EXCEPT ![b] = Idle] /\ UNCHANGED <<rows, index, retireOnly>>
          ELSE /\ rows' = Retired(o.gone)
               /\ op' = [op EXCEPT ![b].pc = IF purging = {} THEN "done" ELSE "purge",
                                   ![b].purging = purging]
               /\ Popped(b)
    /\ UNCHANGED <<tool, clock>>

\* One version at a time.
Purge(b) ==
    /\ op[b].pc = "purge"
    /\ \E v \in op[b].purging :
         /\ rows' = Without(rows, {v})
         /\ op' = [op EXCEPT ![b].purging = @ \ {v},
                             ![b].pc = IF op[b].purging = {v} THEN "done" ELSE @]
    /\ UNCHANGED <<tool, clock, index, retireOnly>>

Return(b) ==
    /\ op[b].pc = "done"
    /\ op' = [op EXCEPT ![b] = Idle]
    /\ UNCHANGED <<tool, rows, clock, index, retireOnly>>

Next ==
    \E b \in Backends :
        \/ Open(b) \/ Crash(b) \/ Scan(b) \/ Stamp(b) \/ Commit(b) \/ Retire(b) \/ Purge(b)
        \/ Return(b)
        \/ \E p \in Paths : Create(b, p) \/ Write(b, p) \/ Delete(b, {p})
        \/ Delete(b, Paths)
        \/ \E p, q \in Paths : Rename(b, p, q)

Spec == Init /\ [][Next]_vars

(***************************************************************************)
(* Properties.                                                             *)
(***************************************************************************)
\* A command that succeeds with no other one under way leaves of its files exactly the
\* version it wrote live and, of a file deleted or moved, none, however stale the
\* backend's index and whatever other backends wrote and crashes left before.
AloneSettles ==
    \A b \in Backends :
        op[b].pc = "done" /\ op[b].alone =>
            \A p \in op[b].paths :
                \/ p \notin op[b].into /\ Live(p) = {}
                \/ /\ p \in op[b].into /\ op[b].at \in Live(p)
                   /\ op[b].kind = "edit" => Live(p) = {op[b].at}

\* At every step of a command that started from an index that was up to date, with no
\* other one under way, a backend that starts then finds each file as it was before
\* the command or as it is to be: a crash never brings an earlier version back.
WholeOrNot ==
    \A b \in Backends :
        Busy(b) /\ op[b].alone /\ op[b].fresh =>
            \A p \in op[b].paths :
                File(p) \in {op[b].was[p], IF p \in op[b].into THEN op[b].at ELSE 0}
================================================================================
