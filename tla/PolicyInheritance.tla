--------------------------- MODULE PolicyInheritance ---------------------------
(***************************************************************************)
(* Policies of derived memories: the high-water mark remember() of         *)
(* Heartwood (client.py) computes from the parents it read, and the rule   *)
(* by which PolicyEnforcer (policy.py) shows a row to a principal.         *)
(*                                                                         *)
(* A writer reads its parents, then inserts in a transaction that refuses  *)
(* if one of them has gone (Store.insert_memory_superseding).  Meanwhile   *)
(* others purge rows and approve them, which changes their owner.  A       *)
(* policy's other fields never change.  One tenant.                        *)
(***************************************************************************)
EXTENDS Naturals, FiniteSets

CONSTANTS
    Writers,      \* calls of remember() in progress
    Mems,         \* memory ids
    Ids,          \* principal ids
    Roles,        \* roles
    Attrs,        \* attribute requirements: key and value
    Visibilities, \* the visibilities writes use: FALSE tenant or shared, TRUE private
    OwnRanks,     \* the classifications writes ask for themselves
    OwnGates,     \* the role gates writes ask for themselves; {} for none
    MaxParents,   \* bound on derived_from
    NoRow         \* memory id without a row

\* CLASSIFICATION_RANK: public, internal, confidential, restricted.
Ranks == 0..3

Policy == [rank : Ranks, groups : SUBSET ((SUBSET Roles) \ {{}}), attrs : SUBSET Attrs,
           private : BOOLEAN, owner : Ids]

\* A caller: id, clearance, roles and attributes.
Principal == [id : Ids, clearance : Ranks, roles : SUBSET Roles, attrs : SUBSET Attrs]

ASSUME PolicyAssumptions ==
    /\ Visibilities \subseteq BOOLEAN
    /\ OwnRanks \subseteq Ranks
    /\ OwnGates \subseteq SUBSET Roles
    /\ MaxParents \in Nat
    /\ NoRow \notin Policy

VARIABLES
    rows,     \* memories table: the policy of each stored memory
    draft,    \* what each writer holds between reading its parents and inserting
    sources   \* history: the policies of everything a memory was derived from

vars == <<rows, draft, sources>>

NoDraft == [mem |-> {}]

Drafts == [mem : {{m} : m \in Mems}, policy : Policy, live : SUBSET Mems,
           sources : SUBSET Policy]

TypeOK ==
    /\ rows \in [Mems -> Policy \cup {NoRow}]
    /\ draft \in [Writers -> Drafts \cup {NoDraft}]
    /\ sources \in [Mems -> SUBSET Policy]

Init ==
    /\ rows = [m \in Mems |-> NoRow]
    /\ draft = [w \in Writers |-> NoDraft]
    /\ sources = [m \in Mems |-> {}]

Stored(m) == rows[m] # NoRow

(***************************************************************************)
(* PolicyEnforcer.visible.                                                 *)
(***************************************************************************)
\* Clearance, and one role of every group.
PassesGates(pr, policy) ==
    /\ policy.rank <= pr.clearance
    /\ \A g \in policy.groups : pr.roles \cap g # {}

Visible(pr, policy) ==
    /\ PassesGates(pr, policy)
    /\ policy.attrs \subseteq pr.attrs
    /\ policy.private => policy.owner = pr.id

(***************************************************************************)
(* remember().                                                             *)
(***************************************************************************)
\* The highest of a set of ranks.
Top(ranks) == IF 3 \in ranks THEN 3 ELSE IF 2 \in ranks THEN 2 ELSE IF 1 \in ranks THEN 1 ELSE 0

\* Mutant: the derived memory keeps the classification it asked for.
HighWaterOwnRank(own, live) ==
    [own EXCEPT !.groups = @ \cup UNION {rows[p].groups : p \in live}]

\* Classification and role groups are inherited; attributes, visibility and
\* owner are the new memory's own.
HighWater(own, live) ==
    [own EXCEPT !.rank = Top({@} \cup {rows[p].rank : p \in live}),
                !.groups = @ \cup UNION {rows[p].groups : p \in live}]

ReadParents(w) ==
    /\ draft[w] = NoDraft
    /\ \E m \in Mems, derived \in SUBSET Mems, rank \in OwnRanks, gate \in OwnGates,
          attrs \in SUBSET Attrs, private \in Visibilities, owner \in Ids :
        /\ m \notin derived
        /\ Cardinality(derived) <= MaxParents
        /\ LET own  == [rank |-> rank, groups |-> {gate} \ {{}}, attrs |-> attrs,
                        private |-> private, owner |-> owner]
               live == {p \in derived : Stored(p)}
           IN  draft' = [draft EXCEPT ![w] =
                    [mem |-> {m}, policy |-> HighWater(own, live), live |-> live,
                     sources |-> {rows[p] : p \in live} \cup UNION {sources[p] : p \in live}]]
    /\ UNCHANGED <<rows, sources>>

Insert(w) ==
    /\ \E m \in draft[w].mem :
        /\ ~Stored(m)
        /\ \A p \in draft[w].live : Stored(p)
        /\ rows' = [rows EXCEPT ![m] = draft[w].policy]
        /\ sources' = [sources EXCEPT ![m] = draft[w].sources]
    /\ draft' = [draft EXCEPT ![w] = NoDraft]

\* The transaction rolls back: id in use, or a parent has vanished.
Refuse(w) ==
    /\ \E m \in draft[w].mem : Stored(m) \/ \E p \in draft[w].live : ~Stored(p)
    /\ draft' = [draft EXCEPT ![w] = NoDraft]
    /\ UNCHANGED <<rows, sources>>

(***************************************************************************)
(* What other callers do meanwhile.                                        *)
(***************************************************************************)
\* purge() and forget() delete rows.
Delete(m) ==
    /\ Stored(m)
    /\ rows' = [rows EXCEPT ![m] = NoRow]
    /\ sources' = [sources EXCEPT ![m] = {}]
    /\ UNCHANGED draft

\* approve() makes the approver the author.
Approve(m) ==
    /\ Stored(m)
    /\ \E id \in Ids : rows' = [rows EXCEPT ![m].owner = id]
    /\ UNCHANGED <<draft, sources>>

Next ==
    \/ \E w \in Writers : ReadParents(w) \/ Insert(w) \/ Refuse(w)
    \/ \E m \in Mems : Delete(m) \/ Approve(m)

Spec == Init /\ [][Next]_vars

--------------------------------------------------------------------------------
(***************************************************************************)
(* Properties.                                                             *)
(***************************************************************************)
\* A principal that clearance or roles keep from a source, at whatever depth and
\* deleted or not, is kept from everything derived from it.
GatesInherited ==
    \A m \in Mems : Stored(m) =>
        \A source \in sources[m], pr \in Principal :
            PassesGates(pr, rows[m]) => PassesGates(pr, source)

\* Whoever is shown a derived memory has the clearance and the roles its sources
\* ask for.  Attributes and private visibility are not inherited, although the
\* comment in remember() says a summary "must not be readable by a principal who
\* could not read the source".
ShownThroughGates ==
    \A m \in Mems : Stored(m) =>
        \A source \in sources[m], pr \in Principal :
            Visible(pr, rows[m]) => PassesGates(pr, source)

================================================================================
