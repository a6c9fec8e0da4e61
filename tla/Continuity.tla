------------------------------- MODULE Continuity -------------------------------
(***************************************************************************)
(* Continuity of continuity/service.py: contracts of model routes, stored  *)
(* as unindexed memories, and rotation receipts, each one row of the audit *)
(* log that names a prior receipt or claims to be the first of its         *)
(* lineage.  The prior baseline is checked before the transaction that     *)
(* appends the receipt, and again, by position, when it is verified.       *)
(***************************************************************************)
EXTENDS Naturals, Sequences, FiniteSets

CONSTANTS
    Issuers,   \* processes
    Names,     \* route ids callers make up
    MaxRoutes, \* bound on minted route ids
    MaxLog     \* bound on the audit log

VARIABLES
    contracts, \* routes with a stored contract
    minted,    \* route ids minted so far
    aliases,   \* _route_aliases of each process
    log,       \* audit rows: a receipt's lineage and prior baseline, or other
    issuing    \* the receipt a process has checked and not appended

vars == <<contracts, minted, aliases, log, issuing>>

Routes == 1..MaxRoutes
Genesis == 0                 \* the marker; a baseline is the seq of its receipt
Idle == [at |-> "idle"]
Other == [kind |-> "other"]
Receipt == [kind : {"receipt"}, from : Routes, to : Routes, prior : 0..MaxLog, checked : 0..MaxLog]

TypeOK ==
    /\ contracts \subseteq 1..minted /\ minted \in 0..MaxRoutes
    /\ \A p \in Issuers : DOMAIN aliases[p] \subseteq Names \cup Routes
    /\ log \in Seq(Receipt \cup {Other}) /\ Len(log) <= MaxLog
    /\ issuing \in [Issuers -> Receipt \cup {Idle}]

Init ==
    /\ contracts = {} /\ minted = 0
    /\ aliases = [p \in Issuers |-> <<>>]
    /\ log = <<>>
    /\ issuing = [p \in Issuers |-> Idle]

(***************************************************************************)
(* Contracts.                                                              *)
(***************************************************************************)
With(f, x, v) == [y \in DOMAIN f \cup {x} |-> IF y = x THEN v ELSE f[y]]

\* _canonical_route_id: the process's alias, a stored route, or a new id.
Canonical(p, id) ==
    IF id \in DOMAIN aliases[p] THEN aliases[p][id]
    ELSE IF id \in contracts THEN id ELSE minted + 1

\* store_capability_contract; the audit row is in remember's transaction.
StoreContract(p) ==
    \E id \in Names \cup contracts :
        LET route == Canonical(p, id)
        IN /\ route <= MaxRoutes /\ Len(log) < MaxLog
           /\ minted' = IF route > minted THEN route ELSE minted
           /\ aliases' = [aliases EXCEPT ![p] = With(@, id, route)]
           /\ contracts' = contracts \cup {route}
           /\ log' = Append(log, Other)
           /\ UNCHANGED issuing

\* forget or purge of a contract's row.
EraseContract ==
    \E route \in contracts :
        /\ Len(log) < MaxLog
        /\ contracts' = contracts \ {route}
        /\ log' = Append(log, Other)
        /\ UNCHANGED <<minted, aliases, issuing>>

Restart(p) ==
    /\ aliases[p] # <<>> \/ issuing[p] # Idle
    /\ aliases' = [aliases EXCEPT ![p] = <<>>]
    /\ issuing' = [issuing EXCEPT ![p] = Idle]
    /\ UNCHANGED <<contracts, minted, log>>

(***************************************************************************)
(* Receipts.                                                               *)
(***************************************************************************)
IsReceipt(n) == n \in DOMAIN log /\ log[n].kind = "receipt"
SameLineage(r, s) == r.from = s.from /\ r.to = s.to

\* Mutant of Earlier: rows after the receipt count as well.
EarlierOrLater(r, before) == \E n \in DOMAIN log : n # before /\ IsReceipt(n) /\ SameLineage(log[n], r)

Earlier(r, before) == \E n \in 1..(before - 1) : IsReceipt(n) /\ SameLineage(log[n], r)

\* _baseline_valid, of a receipt in or before row "before".  The prior receipt
\* may be of another lineage.
BaselineValid(r, before) ==
    IF r.prior = Genesis THEN ~Earlier(r, before)
    ELSE r.prior < before /\ IsReceipt(r.prior)

\* issue_rotation_receipt up to the transaction: both contracts are stored, the
\* routes differ, a fallback is one of the two, the chain and the baseline hold.
Check(p) ==
    \E from, to \in contracts, prior \in 0..Len(log) :
        LET r == [kind |-> "receipt", from |-> from, to |-> to, prior |-> prior,
                  checked |-> Len(log)]
        IN /\ issuing[p] = Idle
           /\ from # to
           /\ BaselineValid(r, Len(log) + 1)
           /\ issuing' = [issuing EXCEPT ![p] = r]
           /\ UNCHANGED <<contracts, minted, aliases, log>>

\* append_bound: the row's detail is made for the seq it gets.
Issue(p) ==
    /\ issuing[p] # Idle
    /\ Len(log) < MaxLog
    /\ issuing[p].prior < Len(log) + 1
    /\ log' = Append(log, issuing[p])
    /\ issuing' = [issuing EXCEPT ![p] = Idle]
    /\ UNCHANGED <<contracts, minted, aliases>>

\* verify_rotation_receipt of the receipt in row n: signature and audit row
\* stand, as rows never change.
Verifies(n) == BaselineValid(log[n], n)

Next ==
    \/ EraseContract
    \/ \E p \in Issuers : StoreContract(p) \/ Restart(p) \/ Check(p) \/ Issue(p)

Spec == Init /\ [][Next]_vars

(***************************************************************************)
(* Properties.                                                             *)
(***************************************************************************)
\* An issued receipt verifies, unless it claims to be the first of its lineage
\* and another receipt of the lineage came between its check and its row.
OnlyRacedFail ==
    \A n \in DOMAIN log :
        IsReceipt(n) /\ ~Verifies(n)
        => /\ log[n].prior = Genesis
           /\ \E k \in (log[n].checked + 1)..(n - 1) :
                IsReceipt(k) /\ SameLineage(log[k], log[n])

================================================================================
