--------------------------- MODULE DerivedDataProofs ---------------------------
(***************************************************************************)
(* Proofs about what a derived memory takes over from its sources.         *)
(* PolicyInheritance: whatever the number of writers, rows, roles and      *)
(* parents, a derived memory is gated at least as tightly as everything it *)
(* was derived from.  GovernedStore, as MCDerivedData instantiates it: a   *)
(* hard erasure reaches it.                                                *)
(***************************************************************************)
EXTENDS MCDerivedData, TLAPS

\* A policy that lets nobody past who is kept out by the gates of another.
Covers(policy, source) ==
    /\ policy \in Policy
    /\ source \in Policy
    /\ source.rank <= policy.rank
    /\ source.groups \subseteq policy.groups

\* A stored policy covers its sources...
RowsCover == \A m \in Mems : Stored(m) => \A s \in sources[m] : Covers(rows[m], s)

\* ...and so does the policy of a row about to be inserted.
DraftsCover == \A w \in Writers : draft[w] # NoDraft =>
                  \A s \in draft[w].sources : Covers(draft[w].policy, s)

GatesInv == TypeOK /\ RowsCover /\ DraftsCover

--------------------------------------------------------------------------------
\* Top returns a rank of the set, or 0, and no rank of the set exceeds it.
LEMMA TopBounds ==
    ASSUME NEW S \in SUBSET Ranks
    PROVE  Top(S) \in Ranks /\ \A r \in S : r <= Top(S)
BY DEF Top, Ranks

\* The high-water mark is a policy that covers the policy asked for and those of
\* every live parent (the loop over derived_from in remember()).
LEMMA HighWaterCovers ==
    ASSUME TypeOK, NEW own \in Policy, NEW live \in SUBSET Mems, \A p \in live : Stored(p)
    PROVE  /\ HighWater(own, live) \in Policy
           /\ \A p \in live : Covers(HighWater(own, live), rows[p])
<1> DEFINE high == HighWater(own, live)
           ranks == {own.rank} \cup {rows[p].rank : p \in live}
           groups == own.groups \cup UNION {rows[p].groups : p \in live}
<1>1. \A p \in live : rows[p] \in Policy
  BY DEF TypeOK, Stored
<1>2. ranks \in SUBSET Ranks
  BY <1>1 DEF Policy
<1>3. groups \in SUBSET ((SUBSET Roles) \ {{}})
  <2>1. own.groups \in SUBSET ((SUBSET Roles) \ {{}})
    BY DEF Policy
  <2>2. \A p \in live : rows[p].groups \in SUBSET ((SUBSET Roles) \ {{}})
    BY <1>1 DEF Policy
  <2>3. ASSUME NEW g \in groups
        PROVE  g \in (SUBSET Roles) \ {{}}
    <3>1. CASE g \in own.groups
      BY <3>1, <2>1
    <3>2. CASE \E p \in live : g \in rows[p].groups
      BY <3>2, <2>2
    <3> QED
      BY <3>1, <3>2
  <2> QED
    BY <2>3, Zenon
<1>4. Top(ranks) \in Ranks /\ \A r \in ranks : r <= Top(ranks)
  <2> HIDE DEF ranks
  <2> QED
    BY <1>2, TopBounds
<1>5. high = [own EXCEPT !.rank = Top(ranks), !.groups = groups]
  BY DEF HighWater
<1>6. high = [rank |-> Top(ranks), groups |-> groups, attrs |-> own.attrs,
              private |-> own.private, owner |-> own.owner]
  <2> HIDE DEF high, ranks, groups
  <2> QED
    BY <1>5 DEF Policy
<1>7. high \in Policy
  <2> HIDE DEF high, ranks, groups
  <2> QED
    BY <1>3, <1>4, <1>6 DEF Policy
<1>8. ASSUME NEW p \in live
      PROVE  Covers(high, rows[p])
  <2>1. rows[p].rank <= Top(ranks)
    BY <1>4
  <2>2. rows[p].groups \subseteq groups
    BY Zenon
  <2> HIDE DEF high, ranks, groups
  <2> QED
    BY <1>1, <1>6, <1>7, <2>1, <2>2 DEF Covers
<1> QED
  BY <1>7, <1>8

\* Covering passes down a chain of derivations.
LEMMA CoversTransitive ==
    ASSUME NEW a, NEW b, NEW c, Covers(a, b), Covers(b, c)
    PROVE  Covers(a, c)
BY DEF Covers, Policy, Ranks

\* Who passes the gates of a covering policy passes those it covers.
LEMMA CoversGates ==
    ASSUME NEW a, NEW b, Covers(a, b), NEW pr \in Principal, PassesGates(pr, a)
    PROVE  PassesGates(pr, b)
BY DEF Covers, PassesGates, Principal, Policy, Ranks

--------------------------------------------------------------------------------
\* What a writer holds after reading its parents is a draft whose policy covers
\* its sources.
LEMMA ReadParentsKeeps ==
    ASSUME GatesInv, NEW w \in Writers, ReadParents(w)
    PROVE  GatesInv'
<1>1. PICK m \in Mems, derived \in SUBSET Mems, rank \in OwnRanks, gate \in OwnGates,
           attrs \in SUBSET Attrs, private \in Visibilities, owner \in Ids :
        draft' = [draft EXCEPT ![w] =
            [mem |-> {m},
             policy |-> HighWater([rank |-> rank, groups |-> {gate} \ {{}}, attrs |-> attrs,
                                   private |-> private, owner |-> owner],
                                  {p \in derived : Stored(p)}),
             live |-> {p \in derived : Stored(p)},
             sources |-> {rows[p] : p \in {p \in derived : Stored(p)}}
                           \cup UNION {sources[p] : p \in {p \in derived : Stored(p)}}]]
  BY DEF ReadParents
<1> DEFINE own == [rank |-> rank, groups |-> {gate} \ {{}}, attrs |-> attrs,
                   private |-> private, owner |-> owner]
           live == {p \in derived : Stored(p)}
           from == {rows[p] : p \in live} \cup UNION {sources[p] : p \in live}
           new == [mem |-> {m}, policy |-> HighWater(own, live), live |-> live,
                   sources |-> from]
<1>2. rows' = rows /\ sources' = sources
  BY DEF ReadParents
<1>3. own \in Policy
  <2>1. gate \in SUBSET Roles
    BY PolicyAssumptions
  <2>2. {gate} \ {{}} \in SUBSET ((SUBSET Roles) \ {{}})
    BY <2>1
  <2>3. rank \in Ranks /\ private \in BOOLEAN
    BY PolicyAssumptions
  <2> DEFINE gates == {gate} \ {{}}
  <2> HIDE DEF gates
  <2> QED
    BY <2>2, <2>3 DEF Policy, gates
<1>4. live \in SUBSET Mems /\ \A p \in live : Stored(p)
  OBVIOUS
<1>5. /\ HighWater(own, live) \in Policy
      /\ \A p \in live : Covers(HighWater(own, live), rows[p])
  <2> HIDE DEF own, live
  <2> QED
    BY <1>3, <1>4, HighWaterCovers DEF GatesInv
<1>6. from \in SUBSET Policy
  <2>1. \A p \in live : rows[p] \in Policy /\ sources[p] \in SUBSET Policy
    BY DEF GatesInv, TypeOK, Stored
  <2> HIDE DEF live
  <2> QED
    BY <2>1, Zenon
<1>7. \A s \in from : Covers(HighWater(own, live), s)
  <2>1. \A p \in live : \A s \in sources[p] : Covers(rows[p], s)
    BY <1>4 DEF GatesInv, RowsCover
  <2>2. \A p \in live : \A s \in sources[p] : Covers(HighWater(own, live), s)
    <3> HIDE DEF own, live
    <3> QED
      BY <1>5, <2>1, CoversTransitive
  <2> HIDE DEF own, live
  <2> QED
    BY <1>5, <2>2, Zenon
<1>8. draft' = [draft EXCEPT ![w] = new]
  BY <1>1
<1>9. new \in Drafts /\ new.sources = from /\ new.policy = HighWater(own, live)
  <2> HIDE DEF own, live, from
  <2> QED
    BY <1>4, <1>5, <1>6 DEF Drafts
<1> HIDE DEF new, from, live, own
<1>10. TypeOK'
  BY <1>2, <1>8, <1>9 DEF GatesInv, TypeOK
<1>11. RowsCover'
  BY <1>2 DEF GatesInv, RowsCover, Stored
<1>12. DraftsCover'
  BY <1>7, <1>8, <1>9 DEF GatesInv, TypeOK, DraftsCover
<1> QED
  BY <1>10, <1>11, <1>12 DEF GatesInv

\* The row inserted has the policy and the sources of its draft.
LEMMA InsertKeeps ==
    ASSUME GatesInv, NEW w \in Writers, Insert(w)
    PROVE  GatesInv'
<1>1. PICK m \in draft[w].mem :
        /\ rows' = [rows EXCEPT ![m] = draft[w].policy]
        /\ sources' = [sources EXCEPT ![m] = draft[w].sources]
  BY DEF Insert
<1>2. draft' = [draft EXCEPT ![w] = NoDraft]
  BY DEF Insert
<1>3. draft[w] # NoDraft
  BY <1>1 DEF NoDraft
<1>4. draft[w] \in Drafts
  BY <1>3 DEF GatesInv, TypeOK
<1>5. /\ m \in Mems
      /\ draft[w].policy \in Policy
      /\ draft[w].sources \in SUBSET Policy
  BY <1>1, <1>4 DEF Drafts
<1>6. TypeOK'
  BY <1>1, <1>2, <1>5 DEF GatesInv, TypeOK
<1>7. RowsCover'
  <2>1. \A s \in draft[w].sources : Covers(draft[w].policy, s)
    BY <1>3 DEF GatesInv, DraftsCover
  <2> QED
    BY <1>1, <1>5, <2>1 DEF GatesInv, TypeOK, RowsCover, Stored
<1>8. DraftsCover'
  BY <1>2 DEF GatesInv, TypeOK, DraftsCover
<1> QED
  BY <1>6, <1>7, <1>8 DEF GatesInv

\* Every other step keeps the gates and the sources of the rows it leaves.
LEMMA StepKeeps ==
    ASSUME GatesInv, [Next]_vars
    PROVE  GatesInv'
<1>1. ASSUME NEW w \in Writers, ReadParents(w)
      PROVE  GatesInv'
  BY <1>1, ReadParentsKeeps
<1>2. ASSUME NEW w \in Writers, Insert(w)
      PROVE  GatesInv'
  BY <1>2, InsertKeeps
<1>3. ASSUME NEW w \in Writers, Refuse(w)
      PROVE  GatesInv'
  BY <1>3 DEF Refuse, GatesInv, TypeOK, RowsCover, DraftsCover, Stored
<1>4. ASSUME NEW m \in Mems, Delete(m)
      PROVE  GatesInv'
  BY <1>4 DEF Delete, GatesInv, TypeOK, RowsCover, DraftsCover, Stored
<1>5. ASSUME NEW m \in Mems, Approve(m)
      PROVE  GatesInv'
  <2>1. PICK id \in Ids : rows' = [rows EXCEPT ![m].owner = id]
    BY <1>5 DEF Approve
  <2>2. draft' = draft /\ sources' = sources /\ Stored(m)
    BY <1>5 DEF Approve
  <2>3. rows[m] \in Policy
    BY <2>2 DEF GatesInv, TypeOK, Stored
  <2> DEFINE new == [rows[m] EXCEPT !.owner = id]
  <2>4. /\ new \in Policy
        /\ new.rank = rows[m].rank
        /\ new.groups = rows[m].groups
    BY <2>3 DEF Policy
  <2>5. rows' = [rows EXCEPT ![m] = new]
    BY <2>1
  <2> HIDE DEF new
  <2>6. TypeOK'
    BY <2>2, <2>4, <2>5 DEF GatesInv, TypeOK
  <2>7. RowsCover'
    BY <2>2, <2>4, <2>5 DEF GatesInv, TypeOK, RowsCover, Covers, Stored
  <2>8. DraftsCover'
    BY <2>2 DEF GatesInv, DraftsCover
  <2> QED
    BY <2>6, <2>7, <2>8 DEF GatesInv
<1>6. CASE UNCHANGED vars
  BY <1>6 DEF vars, GatesInv, TypeOK, RowsCover, DraftsCover, Stored
<1> QED
  BY <1>1, <1>2, <1>3, <1>4, <1>5, <1>6 DEF Next

\* The inductive invariant holds of every behaviour.
LEMMA Gated == Spec => []GatesInv
<1>1. Init => GatesInv
  BY DEF Init, GatesInv, TypeOK, RowsCover, DraftsCover, Stored
<1> QED
  BY <1>1, StepKeeps, PTL DEF Spec

\* Rows, drafts and sources have the types the module gives them.
THEOREM PoliciesTyped == Spec => []TypeOK
<1>1. GatesInv => TypeOK
  BY DEF GatesInv
<1> QED
  BY <1>1, Gated, PTL

\* Classification and role gates reach everything derived from a row through
\* any chain of derivations, whoever deletes or approves rows meanwhile
\* (remember() and PolicyEnforcer.visible).
THEOREM GatesReachDerived == Spec => []GatesInherited
<1>1. GatesInv => GatesInherited
  <2> SUFFICES ASSUME GatesInv, NEW m \in Mems, Stored(m), NEW source \in sources[m],
                      NEW pr \in Principal, PassesGates(pr, rows[m])
               PROVE  PassesGates(pr, source)
    BY DEF GatesInherited
  <2>1. Covers(rows[m], source)
    BY DEF GatesInv, RowsCover
  <2> QED
    BY <2>1, CoversGates
<1> QED
  BY <1>1, Gated, PTL

\* Nobody is shown a derived memory without the clearance and the roles of each
\* of its sources (PolicyEnforcer.visible of what remember() stored).
THEOREM ShownOnlyThroughGates == Spec => []ShownThroughGates
<1>1. GatesInherited => ShownThroughGates
  BY DEF GatesInherited, ShownThroughGates, Visible
<1> QED
  BY <1>1, GatesReachDerived, PTL

--------------------------------------------------------------------------------
\* The store's part of the composition behaves as GovernedStore does.
LEMMA StorePart == UnionSpec => G!Spec
<1>1. UnionInit => G!Init
  BY DEF UnionInit
<1>2. [UnionNext]_<<part, vars, store, indexes>> => [G!Next]_G!vars
  BY DEF UnionNext, store, G!vars, G!fileVars, G!history
<1> QED
  BY <1>1, <1>2, PTL DEF UnionSpec, G!Spec

\* A hard erasure reaches every row derived from the subject's data, along edges of
\* any depth, but for severed rows: of the composition that TLC checks.
THEOREM DerivedErasedHere == UnionSpec => []DerivedDataGone
<1>1. G!StoreAssumptions
  BY StoreConstants DEF G!StoreAssumptions
<1>2. G!Spec => []G!DerivedDataGone
  BY <1>1, G!DerivedErased
<1> QED
  BY <1>2, StorePart, PTL DEF DerivedDataGone

--------------------------------------------------------------------------------
\* Module Erasure by itself, of any store.
VARIABLES held, done

Promise == INSTANCE Erasure

PromiseInv == held \in [Mems -> SUBSET Subjects] /\ Promise!ErasureFinal

\* Whatever is written, removed and erased, in any order, no memory holds data
\* of an erased subject: what ErasesByName and ErasesByTaint give a store.
THEOREM AbstractErasureFinal == Promise!Spec => []Promise!ErasureFinal
<1>1. Promise!Init => PromiseInv
  BY DEF Promise!Init, PromiseInv, Promise!ErasureFinal
<1>2. PromiseInv /\ [Promise!Next]_Promise!evars => PromiseInv'
  <2> SUFFICES ASSUME PromiseInv, [Promise!Next]_Promise!evars PROVE PromiseInv'
    OBVIOUS
  <2> USE DEF PromiseInv, Promise!ErasureFinal
  <2>1. ASSUME NEW gone \in SUBSET Mems, Promise!Remove(gone) PROVE PromiseInv'
    BY <2>1 DEF Promise!Remove
  <2>2. ASSUME NEW m \in Mems, NEW T \in SUBSET Subjects, Promise!Write(m, T)
        PROVE  PromiseInv'
    BY <2>2 DEF Promise!Write
  <2>3. ASSUME NEW s \in Subjects, Promise!Erase(s) PROVE PromiseInv'
    BY <2>3 DEF Promise!Erase
  <2>4. CASE UNCHANGED Promise!evars
    BY <2>4 DEF Promise!evars
  <2> QED
    BY <2>1, <2>2, <2>3, <2>4 DEF Promise!Next
<1>3. PromiseInv => Promise!ErasureFinal
  BY DEF PromiseInv
<1> QED
  BY <1>1, <1>2, <1>3, PTL DEF Promise!Spec

--------------------------------------------------------------------------------
(***************************************************************************)
(* The vector indexes.                                                     *)
(***************************************************************************)
LEMMA IndexPart == UnionSpec => V!Spec
<1>1. UnionInit => V!Init
  BY DEF UnionInit
<1>2. [UnionNext]_<<part, vars, store, indexes>> => [V!Next]_V!vars
  BY DEF UnionNext, indexes, V!vars, V!fileVars
<1> QED
  BY <1>1, <1>2, PTL DEF UnionSpec, V!Spec

Tasks == {V!Closed, V!Idle}
         \cup [at : {"select"}]
         \cup [at : {"rebuild"}, todo : SUBSET (Indexable \X Nat), stale : BOOLEAN]
         \cup [at : {"add"}, mem : Indexable, version : Nat \ {0}]
         \cup [at : {"remove"}, mem : Indexable]

IndexTypes ==
    /\ vecProcs \subseteq Openers
    /\ indexRows \in [Indexable -> [version : Nat, indexed : BOOLEAN]]
    /\ table \in [Indexable -> Nat]
    /\ version \in Nat
    /\ vecs \in [Openers -> [Indexable -> Nat]]
    /\ dim \in [Openers -> BOOLEAN]
    /\ doing \in [Openers -> Tasks]
    /\ known \in [Openers -> SUBSET (Indexable \X Nat)]

\* A version is written once.
RowsNumbered ==
    /\ \A m \in Indexable : /\ indexRows[m].version <= version
                            /\ indexRows[m].indexed => indexRows[m].version # 0
    /\ \A m, n \in Indexable : m # n /\ indexRows[m].version = indexRows[n].version
                                 => indexRows[m].version = 0

\* What process q has still to do with the vector of a row is to write that row's, but
\* for a row that was written while q was at it.
Pending(q) ==
    \A m \in Indexable : V!Stored(m) /\ indexRows[m].version \notin overtaken =>
        /\ doing[q].at = "add" /\ doing[q].mem = m => doing[q].version = indexRows[m].version
        /\ doing[q].at = "remove" => doing[q].mem # m
        /\ doing[q].at = "rebuild" =>
            \A e \in doing[q].todo : e[1] = m => e[2] = indexRows[m].version

\* What process q knows is stored...
Knows(q) == \A e \in known[q] : indexRows[e[1]].version = e[2] /\ e[2] # 0

\* ...and its index has the vector: numpy in the process, sqlite-vec in the table,
\* once the row has been re-added.  q knows nothing before it has read the rows, nor
\* of the id it is writing or purging.
Holds(q) ==
    /\ doing[q].at \in {"closed", "select"} => known[q] = {}
    /\ doing[q].at \in {"select", "rebuild"} => q \in vecProcs
    /\ doing[q].at \in {"add", "remove"} => \A e \in known[q] : e[1] # doing[q].mem
    /\ q \notin vecProcs => \A e \in known[q] : vecs[q][e[1]] = e[2]
    /\ q \in vecProcs /\ V!Ready(q) /\ known[q] # {} => dim[q]
    /\ q \in vecProcs => \A e \in known[q] :
            e[2] \notin overtaken /\ (doing[q].at = "rebuild" => e \notin doing[q].todo)
                => table[e[1]] = e[2]

IndexInv ==
    /\ IndexTypes
    /\ RowsNumbered
    /\ \A q \in Openers : Pending(q) /\ Knows(q) /\ Holds(q)

\* q goes on with what it was doing: at most its SELECT is stale now.
GoesOn(q) ==
    \/ doing'[q] = doing[q]
    \/ doing[q].at = "rebuild" /\ doing'[q] = [doing[q] EXCEPT !.stale = TRUE]

LEMMA GoesOnSame ==
    ASSUME IndexTypes, NEW q \in Openers, GoesOn(q)
    PROVE  /\ doing'[q] \in Tasks
           /\ doing'[q].at = doing[q].at
           /\ doing[q].at = "rebuild" => doing'[q].todo = doing[q].todo
           /\ doing[q].at \in {"add", "remove"} => doing'[q] = doing[q]
<1>1. PICK j : j = doing[q]
  OBVIOUS
<1>2. j \in Tasks
  BY <1>1 DEF IndexTypes
<1>3. CASE doing'[q] = doing[q]
  BY <1>1, <1>2, <1>3
<1>4. CASE j.at = "rebuild" /\ doing'[q] = [j EXCEPT !.stale = TRUE]
  <2>1. j \in [at : {"rebuild"}, todo : SUBSET (Indexable \X Nat), stale : BOOLEAN]
    BY <1>2, <1>4 DEF Tasks, V!Closed, V!Idle
  <2>2. /\ doing'[q] \in [at : {"rebuild"}, todo : SUBSET (Indexable \X Nat), stale : BOOLEAN]
        /\ doing'[q].at = "rebuild" /\ doing'[q].todo = j.todo
    BY <1>4, <2>1
  <2> QED
    BY <1>1, <1>4, <2>2 DEF Tasks
<1> QED
  BY <1>1, <1>3, <1>4 DEF GoesOn

LEMMA CommitGoesOn ==
    ASSUME IndexTypes, NEW p \in Openers, NEW next \in Tasks, V!Commit(p, next)
    PROVE  /\ doing' \in [Openers -> Tasks] /\ doing'[p] = next
           /\ \A q \in Openers \ {p} : GoesOn(q)
<1>1. doing' = [q \in Openers |-> IF q = p THEN next
                                  ELSE IF doing[q].at = "rebuild" THEN [doing[q] EXCEPT !.stale = TRUE]
                                  ELSE doing[q]]
  BY DEF V!Commit
<1>2. doing'[p] = next /\ \A q \in Openers \ {p} : GoesOn(q)
  BY <1>1 DEF GoesOn
<1>3. \A q \in Openers : doing'[q] \in Tasks
  BY <1>2, GoesOnSame
<1> QED
  BY <1>1, <1>2, <1>3

\* p alone goes on, and nobody's SELECT becomes stale.
LEMMA AloneGoesOn ==
    ASSUME IndexTypes, NEW p \in Openers, NEW next \in Tasks, doing' = [doing EXCEPT ![p] = next]
    PROVE  /\ doing' \in [Openers -> Tasks] /\ doing'[p] = next
           /\ \A q \in Openers \ {p} : GoesOn(q)
BY DEF IndexTypes, GoesOn

\* A process that does nothing keeps what it holds, as long as the table does.
Kept(q) ==
    \A e \in known'[q] :
        /\ indexRows'[e[1]].version = indexRows[e[1]].version
        /\ e[2] \notin overtaken' => /\ e[2] \notin overtaken
                                     /\ table'[e[1]] = table[e[1]] \/ table'[e[1]] = e[2]

LEMMA BystanderKeeps ==
    ASSUME IndexInv, NEW q \in Openers, GoesOn(q), vecs'[q] = vecs[q], dim'[q] = dim[q],
           vecProcs' = vecProcs, known'[q] \subseteq known[q], Kept(q)
    PROVE  Knows(q)' /\ Holds(q)'
<1>1. /\ doing'[q].at = doing[q].at
      /\ doing[q].at = "rebuild" => doing'[q].todo = doing[q].todo
      /\ doing[q].at \in {"add", "remove"} => doing'[q] = doing[q]
  BY GoesOnSame DEF IndexInv
<1>2. Knows(q) /\ Holds(q)
  BY DEF IndexInv
<1>3. Knows(q)'
  BY <1>2 DEF Knows, Kept
<1>4. /\ doing'[q].at \in {"closed", "select"} => known'[q] = {}
      /\ doing'[q].at \in {"select", "rebuild"} => q \in vecProcs'
      /\ doing'[q].at \in {"add", "remove"} => \A e \in known'[q] : e[1] # doing'[q].mem
      /\ q \notin vecProcs' => \A e \in known'[q] : vecs'[q][e[1]] = e[2]
  BY <1>1, <1>2 DEF Holds
<1>5. q \in vecProcs' /\ V!Ready(q)' /\ known'[q] # {} => dim'[q]
  BY <1>1, <1>2 DEF Holds, V!Ready
<1>6. ASSUME q \in vecProcs', NEW e \in known'[q], e[2] \notin overtaken',
             doing'[q].at = "rebuild" => e \notin doing'[q].todo
      PROVE  table'[e[1]] = e[2]
  <2>1. table[e[1]] = e[2]
    BY <1>1, <1>2, <1>6 DEF Holds, Kept
  <2> QED
    BY <1>6, <2>1 DEF Kept
<1> QED
  BY <1>3, <1>4, <1>5, <1>6 DEF Holds

\* A step of p that writes no row and purges none: the table may only lose vectors of
\* no row, and gain the vectors of rows.
Quiet ==
    /\ vecProcs' = vecProcs /\ version' = version /\ overtaken' = overtaken
    /\ indexRows' \in [Indexable -> [version : Nat, indexed : BOOLEAN]]
    /\ \A m \in Indexable : indexRows'[m].version = indexRows[m].version
    /\ \A m \in Indexable : indexRows'[m].indexed => indexRows'[m].version # 0
    /\ table' \in [Indexable -> Nat]
    /\ \A m \in Indexable : V!Stored(m) /\ indexRows[m].version \notin overtaken =>
            table'[m] = table[m] \/ table'[m] = indexRows[m].version

Others(p) ==
    \A q \in Openers \ {p} : GoesOn(q) /\ vecs'[q] = vecs[q] /\ dim'[q] = dim[q]
                             /\ known'[q] = known[q]

LEMMA QuietStep ==
    ASSUME IndexInv, NEW p \in Openers, Quiet, Others(p), doing' \in [Openers -> Tasks],
           vecs' \in [Openers -> [Indexable -> Nat]], dim' \in [Openers -> BOOLEAN],
           known' \in [Openers -> SUBSET (Indexable \X Nat)],
           Pending(p)', Knows(p)', Holds(p)'
    PROVE  IndexInv'
<1>1. IndexTypes'
  BY DEF IndexInv, IndexTypes, Quiet
<1>2. RowsNumbered'
  BY DEF IndexInv, RowsNumbered, Quiet
<1>3. ASSUME NEW q \in Openers \ {p} PROVE Knows(q)' /\ Holds(q)'
  <2>1. ASSUME NEW e \in known'[q]
        PROVE  /\ indexRows'[e[1]].version = indexRows[e[1]].version
               /\ e[2] \notin overtaken' => /\ e[2] \notin overtaken
                                            /\ table'[e[1]] = table[e[1]] \/ table'[e[1]] = e[2]
    <3>1. e \in Indexable \X Nat /\ e \in known[q]
      BY <1>3, <2>1 DEF Others
    <3>2. indexRows[e[1]].version = e[2] /\ e[2] # 0 /\ e[1] \in Indexable
      BY <1>3, <3>1 DEF IndexInv, Knows
    <3>3. V!Stored(e[1])
      BY <3>2 DEF V!Stored
    <3> QED
      BY <3>2, <3>3 DEF Quiet
  <2>2. Kept(q)
    BY <2>1 DEF Kept
  <2> QED
    BY <1>3, <2>2, BystanderKeeps DEF Others, Quiet
<1>4. ASSUME NEW q \in Openers \ {p} PROVE Pending(q)'
  <2>1. /\ doing'[q].at = doing[q].at
        /\ doing[q].at = "rebuild" => doing'[q].todo = doing[q].todo
        /\ doing[q].at \in {"add", "remove"} => doing'[q] = doing[q]
    BY <1>4, GoesOnSame DEF IndexInv, Others
  <2>2. Pending(q)
    BY <1>4 DEF IndexInv
  <2> QED
    BY <2>1, <2>2 DEF Pending, Quiet, V!Stored
<1> QED
  BY <1>1, <1>2, <1>3, <1>4 DEF IndexInv

\* A process with nothing to do with a vector has nothing pending.
LEMMA NothingPending ==
    ASSUME NEW q \in Openers, doing'[q].at \notin {"add", "remove", "rebuild"}
    PROVE  Pending(q)'
BY DEF Pending

\* Every row that is indexed, and its version.
LEMMA IndexedStored ==
    ASSUME IndexTypes, RowsNumbered
    PROVE  LET found == {<<m, indexRows[m].version>> : m \in V!IndexedRows}
           IN  /\ found \subseteq Indexable \X Nat
               /\ \A e \in found : /\ e[1] \in Indexable /\ indexRows[e[1]].version = e[2] /\ e[2] # 0
                                   /\ indexRows[e[1]].indexed
BY DEF IndexTypes, RowsNumbered, V!IndexedRows

LEMMA OpenNumpyStep ==
    ASSUME IndexInv, vecProcs' = vecProcs, NEW p \in Openers, V!OpenNumpy(p) PROVE IndexInv'
<1>1. /\ IndexTypes /\ RowsNumbered
  BY DEF IndexInv
<1>2. PICK found : found = {<<m, indexRows[m].version>> : m \in V!IndexedRows}
  OBVIOUS
<1>3. /\ found \subseteq Indexable \X Nat
      /\ \A e \in found : /\ e[1] \in Indexable /\ indexRows[e[1]].version = e[2] /\ e[2] # 0
                          /\ indexRows[e[1]].indexed
  BY <1>1, <1>2, IndexedStored
<1>4. /\ p \notin vecProcs
      /\ vecs' = [vecs EXCEPT ![p] = [m \in Indexable |->
                    IF indexRows[m].indexed THEN indexRows[m].version ELSE 0]]
      /\ known' = [known EXCEPT ![p] = found]
      /\ doing' = [doing EXCEPT ![p] = V!Idle]
      /\ indexRows' = indexRows /\ table' = table /\ version' = version
      /\ dim' = dim /\ overtaken' = overtaken
  BY <1>2 DEF V!OpenNumpy, V!fileVars
<1>5. V!Idle \in Tasks
  BY DEF Tasks
<1>6. /\ doing' \in [Openers -> Tasks] /\ doing'[p] = V!Idle
      /\ \A q \in Openers \ {p} : GoesOn(q)
  BY <1>1, <1>4, <1>5, AloneGoesOn
<1>7. Others(p)
  BY <1>1, <1>4, <1>6 DEF Others, IndexTypes
<1>8. Quiet
  BY <1>1, <1>4 DEF Quiet, IndexTypes, RowsNumbered
<1>9. /\ vecs' \in [Openers -> [Indexable -> Nat]] /\ dim' \in [Openers -> BOOLEAN]
      /\ known' \in [Openers -> SUBSET (Indexable \X Nat)]
  BY <1>1, <1>3, <1>4 DEF IndexTypes
<1>10. Pending(p)'
  BY <1>6, NothingPending DEF V!Idle
<1>11. known'[p] = found /\ \A e \in found : vecs'[p][e[1]] = e[2]
  BY <1>1, <1>3, <1>4 DEF IndexTypes
<1>12. Knows(p)'
  BY <1>3, <1>4, <1>11 DEF Knows
<1>13. Holds(p)'
  BY <1>4, <1>6, <1>11 DEF Holds, V!Idle
<1> QED
  BY <1>6, <1>7, <1>8, <1>9, <1>10, <1>12, <1>13, QuietStep

LEMMA DropOrphansStep ==
    ASSUME IndexInv, vecProcs' = vecProcs, NEW p \in Openers, V!DropOrphans(p) PROVE IndexInv'
<1>1. /\ IndexTypes /\ RowsNumbered /\ Knows(p) /\ Holds(p)
  BY DEF IndexInv
<1>2. PICK next : next = [at |-> "select"]
  OBVIOUS
<1>3. /\ doing[p] = V!Closed /\ p \in vecProcs
      /\ table' = [m \in Indexable |-> IF V!Stored(m) THEN table[m] ELSE 0]
      /\ V!Commit(p, next) \/ doing' = [doing EXCEPT ![p] = next]
      /\ indexRows' = indexRows /\ version' = version /\ vecs' = vecs
      /\ dim' = dim /\ known' = known /\ overtaken' = overtaken
  BY <1>2 DEF V!DropOrphans
<1>4. next \in Tasks
  BY <1>2 DEF Tasks
<1>5. /\ doing' \in [Openers -> Tasks] /\ doing'[p] = next
      /\ \A q \in Openers \ {p} : GoesOn(q)
  BY <1>1, <1>3, <1>4, AloneGoesOn, CommitGoesOn
<1>6. Others(p)
  BY <1>3, <1>5 DEF Others
<1>7. Quiet
  BY <1>1, <1>3 DEF Quiet, IndexTypes, RowsNumbered
<1>8. Pending(p)'
  BY <1>2, <1>5, NothingPending
<1>9. known[p] = {}
  BY <1>1, <1>3 DEF Holds, V!Closed
<1>10. Knows(p)' /\ Holds(p)'
  BY <1>2, <1>3, <1>5, <1>9 DEF Knows, Holds
<1> QED
  BY <1>1, <1>3, <1>5, <1>6, <1>7, <1>8, <1>10, QuietStep DEF IndexTypes

LEMMA SelectStep ==
    ASSUME IndexInv, vecProcs' = vecProcs, NEW p \in Openers, V!Select(p) PROVE IndexInv'
<1>1. /\ IndexTypes /\ RowsNumbered /\ Knows(p) /\ Holds(p)
  BY DEF IndexInv
<1>2. PICK found : found = {<<m, indexRows[m].version>> : m \in V!IndexedRows}
  OBVIOUS
<1>3. /\ found \subseteq Indexable \X Nat
      /\ \A e \in found : /\ e[1] \in Indexable /\ indexRows[e[1]].version = e[2] /\ e[2] # 0
                          /\ indexRows[e[1]].indexed
  BY <1>1, <1>2, IndexedStored
<1>4. PICK next : next = IF found = {} THEN V!Idle
                         ELSE [at |-> "rebuild", todo |-> found, stale |-> FALSE]
  OBVIOUS
<1>5. /\ doing[p].at = "select"
      /\ known' = [known EXCEPT ![p] = found]
      /\ doing' = [doing EXCEPT ![p] = next]
      /\ indexRows' = indexRows /\ table' = table /\ version' = version
      /\ vecs' = vecs /\ dim' = dim /\ overtaken' = overtaken
  BY <1>2, <1>4 DEF V!Select, V!fileVars
<1>6. next \in Tasks
  BY <1>3, <1>4 DEF Tasks
<1>7. /\ doing' \in [Openers -> Tasks] /\ doing'[p] = next
      /\ \A q \in Openers \ {p} : GoesOn(q)
  BY <1>1, <1>5, <1>6, AloneGoesOn
<1>8. known' \in [Openers -> SUBSET (Indexable \X Nat)] /\ known'[p] = found
  BY <1>1, <1>3, <1>5 DEF IndexTypes
<1>9. Others(p)
  BY <1>1, <1>5, <1>7 DEF Others, IndexTypes
<1>10. Quiet
  BY <1>1, <1>5 DEF Quiet, IndexTypes, RowsNumbered
<1>11. Knows(p)'
  BY <1>3, <1>5, <1>8 DEF Knows
<1>12. p \in vecProcs
  BY <1>1, <1>5 DEF Holds
<1>13. CASE found = {}
  <2>1. Pending(p)'
    BY <1>4, <1>7, <1>13, NothingPending DEF V!Idle
  <2>2. Holds(p)'
    BY <1>4, <1>5, <1>7, <1>8, <1>12, <1>13 DEF Holds, V!Idle
  <2> QED
    BY <1>1, <1>5, <1>7, <1>8, <1>9, <1>10, <1>11, <2>1, <2>2, QuietStep DEF IndexTypes
<1>14. CASE found # {}
  <2>1. doing'[p].at = "rebuild" /\ doing'[p].todo = found
    BY <1>4, <1>7, <1>14
  <2>2. Pending(p)'
    BY <1>3, <1>5, <2>1 DEF Pending, V!Stored
  <2>3. Holds(p)'
    BY <1>5, <1>8, <1>12, <2>1 DEF Holds, V!Ready
  <2> QED
    BY <1>1, <1>5, <1>7, <1>8, <1>9, <1>10, <1>11, <2>2, <2>3, QuietStep DEF IndexTypes
<1> QED
  BY <1>13, <1>14

LEMMA ReaddStep ==
    ASSUME IndexInv, vecProcs' = vecProcs, NEW p \in Openers, V!Readd(p) PROVE IndexInv'
<1>1. /\ IndexTypes /\ RowsNumbered /\ Knows(p) /\ Holds(p) /\ Pending(p)
  BY DEF IndexInv
<1>2. PICK j : j = doing[p]
  OBVIOUS
<1>3. /\ j \in [at : {"rebuild"}, todo : SUBSET (Indexable \X Nat), stale : BOOLEAN]
      /\ j.at = "rebuild" /\ j.todo \subseteq Indexable \X Nat
  <2>1. j \in Tasks /\ j.at = "rebuild"
    BY <1>1, <1>2 DEF IndexTypes, V!Readd
  <2>2. j \in [at : {"rebuild"}, todo : SUBSET (Indexable \X Nat), stale : BOOLEAN]
    BY <2>1 DEF Tasks, V!Closed, V!Idle
  <2> QED
    BY <2>1, <2>2
<1>4. PICK e \in j.todo : V!Put(e[1], e[2]) /\
        V!Commit(p, IF j.todo \ {e} = {} THEN V!Idle ELSE [j EXCEPT !.todo = j.todo \ {e}])
  BY <1>2 DEF V!Readd
<1>5. PICK left : left = j.todo \ {e}
  OBVIOUS
<1>6. PICK next : next = IF left = {} THEN V!Idle ELSE [j EXCEPT !.todo = left]
  OBVIOUS
<1>7. /\ table' = [table EXCEPT ![e[1]] = IF V!Stored(e[1]) THEN e[2] ELSE 0]
      /\ V!Commit(p, next) /\ dim' = [dim EXCEPT ![p] = TRUE]
      /\ indexRows' = indexRows /\ version' = version /\ vecs' = vecs
      /\ known' = known /\ overtaken' = overtaken
  BY <1>4, <1>5, <1>6 DEF V!Readd, V!Put
<1>8. e[1] \in Indexable /\ e[2] \in Nat
  BY <1>3, <1>4
<1>9. next \in Tasks /\ (left # {} => next.at = "rebuild" /\ next.todo = left)
  <2>1. left \subseteq Indexable \X Nat
    BY <1>3, <1>5
  <2>2. CASE left = {}
    BY <1>6, <2>2 DEF Tasks
  <2>3. CASE left # {}
    <3>1. next = [j EXCEPT !.todo = left]
      BY <1>6, <2>3
    <3>2. next \in [at : {"rebuild"}, todo : SUBSET (Indexable \X Nat), stale : BOOLEAN]
          /\ next.at = "rebuild" /\ next.todo = left
      BY <1>3, <2>1, <3>1
    <3> QED
      BY <3>2 DEF Tasks
  <2> QED
    BY <2>2, <2>3
<1>10. /\ doing' \in [Openers -> Tasks] /\ doing'[p] = next
       /\ \A q \in Openers \ {p} : GoesOn(q)
  BY <1>1, <1>7, <1>9, CommitGoesOn
<1>11. Others(p)
  BY <1>1, <1>7, <1>10 DEF Others, IndexTypes
<1>12. table' \in [Indexable -> Nat] /\ dim' \in [Openers -> BOOLEAN] /\ dim'[p] = TRUE
  BY <1>1, <1>7, <1>8 DEF IndexTypes
<1>13. \A m \in Indexable \ {e[1]} : table'[m] = table[m]
  BY <1>1, <1>7 DEF IndexTypes
<1>14. V!Stored(e[1]) => table'[e[1]] = e[2]
  BY <1>1, <1>7, <1>8 DEF IndexTypes
<1>15. V!Stored(e[1]) /\ indexRows[e[1]].version \notin overtaken => e[2] = indexRows[e[1]].version
  BY <1>1, <1>2, <1>3, <1>4, <1>8 DEF Pending
<1>16. Quiet
  BY <1>1, <1>7, <1>12, <1>13, <1>14, <1>15 DEF Quiet, IndexTypes, RowsNumbered
<1>17. Pending(p)'
  <2>1. CASE left = {}
    BY <1>6, <1>10, <2>1, NothingPending DEF V!Idle
  <2>2. CASE left # {}
    BY <1>1, <1>2, <1>3, <1>5, <1>7, <1>9, <1>10, <2>2 DEF Pending, V!Stored
  <2> QED
    BY <2>1, <2>2
<1>18. Knows(p)'
  BY <1>1, <1>7 DEF Knows
<1>19. Holds(p)'
  <2>1. p \in vecProcs
    BY <1>1, <1>2, <1>3 DEF Holds
  <2>2. next.at \in {"idle", "rebuild"}
    BY <1>6, <1>9 DEF V!Idle
  <2>3. ASSUME NEW f \in known[p], f[2] \notin overtaken,
               next.at = "rebuild" => f \notin next.todo
        PROVE  table'[f[1]] = f[2]
    <3>1. f \in Indexable \X Nat
      BY <1>1, <2>3 DEF IndexTypes
    <3>2. indexRows[f[1]].version = f[2] /\ f[2] # 0 /\ V!Stored(f[1])
      BY <1>1, <2>3 DEF Knows, V!Stored
    <3>3. f \notin left
      BY <1>6, <1>9, <2>3 DEF V!Idle
    <3>4. CASE f[1] = e[1]
      BY <1>14, <1>15, <2>3, <3>2, <3>4
    <3>5. CASE f[1] # e[1]
      <4>1. f \notin j.todo
        BY <1>5, <3>3, <3>5
      <4>2. table[f[1]] = f[2]
        BY <1>1, <1>2, <2>1, <2>3, <4>1 DEF Holds
      <4> QED
        BY <1>13, <3>1, <3>5, <4>2
    <3> QED
      BY <3>4, <3>5
  <2> QED
    BY <1>7, <1>10, <1>12, <2>1, <2>2, <2>3 DEF Holds, V!Ready
<1> QED
  BY <1>1, <1>7, <1>10, <1>11, <1>12, <1>16, <1>17, <1>18, <1>19, QuietStep DEF IndexTypes

LEMMA CloseStep ==
    ASSUME IndexInv, vecProcs' = vecProcs, NEW p \in Openers, V!Close(p) PROVE IndexInv'
<1>1. /\ IndexTypes /\ RowsNumbered
  BY DEF IndexInv
<1>2. /\ doing' = [doing EXCEPT ![p] = V!Closed]
      /\ vecs' = [vecs EXCEPT ![p] = [m \in Indexable |-> 0]]
      /\ dim' = [dim EXCEPT ![p] = FALSE]
      /\ known' = [known EXCEPT ![p] = {}]
      /\ indexRows' = indexRows /\ table' = table /\ version' = version /\ overtaken' = overtaken
  BY DEF V!Close, V!fileVars
<1>3. V!Closed \in Tasks
  BY DEF Tasks
<1>4. /\ doing' \in [Openers -> Tasks] /\ doing'[p] = V!Closed
      /\ \A q \in Openers \ {p} : GoesOn(q)
  BY <1>1, <1>2, <1>3, AloneGoesOn
<1>5. Others(p)
  BY <1>1, <1>2, <1>4 DEF Others, IndexTypes
<1>6. Quiet
  BY <1>1, <1>2 DEF Quiet, IndexTypes, RowsNumbered
<1>7. Pending(p)'
  BY <1>4, NothingPending DEF V!Closed
<1>8. known'[p] = {}
  BY <1>1, <1>2 DEF IndexTypes
<1>9. Knows(p)' /\ Holds(p)'
  BY <1>4, <1>8 DEF Knows, Holds, V!Closed, V!Ready
<1>10. /\ vecs' \in [Openers -> [Indexable -> Nat]] /\ dim' \in [Openers -> BOOLEAN]
       /\ known' \in [Openers -> SUBSET (Indexable \X Nat)]
  BY <1>1, <1>2 DEF IndexTypes
<1> QED
  BY <1>4, <1>5, <1>6, <1>7, <1>9, <1>10, QuietStep

\* The job of a process that adds or removes a vector.
LEMMA VectorTask ==
    ASSUME IndexTypes, NEW p \in Openers
    PROVE  /\ doing[p].at = "add" => doing[p].mem \in Indexable /\ doing[p].version \in Nat \ {0}
           /\ doing[p].at = "remove" => doing[p].mem \in Indexable
<1>1. doing[p] \in Tasks
  BY DEF IndexTypes
<1> QED
  BY <1>1 DEF Tasks, V!Closed, V!Idle

\* One vector changes, in a process or in the table.
LEMMA OneVector ==
    ASSUME NEW all, all \in [Openers -> [Indexable -> Nat]], NEW p \in Openers, NEW m \in Indexable,
           NEW v \in Nat, NEW next, next = [all EXCEPT ![p][m] = v]
    PROVE  /\ next \in [Openers -> [Indexable -> Nat]] /\ next[p][m] = v
           /\ \A n \in Indexable \ {m} : next[p][n] = all[p][n]
           /\ \A q \in Openers \ {p} : next[q] = all[q]
OBVIOUS

LEMMA OneEntry ==
    ASSUME NEW all, all \in [Indexable -> Nat], NEW m \in Indexable,
           NEW v \in Nat, NEW next, next = [all EXCEPT ![m] = v]
    PROVE  /\ next \in [Indexable -> Nat] /\ next[m] = v
           /\ \A n \in Indexable \ {m} : next[n] = all[n]
OBVIOUS

LEMMA AddVectorStep ==
    ASSUME IndexInv, vecProcs' = vecProcs, NEW p \in Openers, V!AddVector(p) PROVE IndexInv'
<1>1. /\ IndexTypes /\ RowsNumbered /\ Knows(p) /\ Holds(p) /\ Pending(p)
  BY DEF IndexInv
<1>2. PICK m, v : m = doing[p].mem /\ v = doing[p].version
  OBVIOUS
<1>3. doing[p].at = "add" /\ m \in Indexable /\ v \in Nat /\ v # 0
  BY <1>1, <1>2, VectorTask DEF V!AddVector
<1>4. PICK new : new = {<<m, v>>} \cap V!StoredRows
  OBVIOUS
<1>5. /\ known' = [known EXCEPT ![p] = known[p] \cup new]
      /\ indexRows' = indexRows /\ version' = version /\ overtaken' = overtaken
      /\ \/ /\ p \in vecProcs
            /\ table' = [table EXCEPT ![m] = IF V!Stored(m) THEN v ELSE 0]
            /\ dim' = [dim EXCEPT ![p] = TRUE]
            /\ V!Commit(p, V!Idle) /\ vecs' = vecs
         \/ /\ p \notin vecProcs
            /\ vecs' = [vecs EXCEPT ![p][m] = v]
            /\ doing' = [doing EXCEPT ![p] = V!Idle] /\ table' = table /\ dim' = dim
  BY <1>2, <1>4 DEF V!AddVector, V!Put
<1>6. V!Idle \in Tasks
  BY DEF Tasks
<1>7. /\ doing' \in [Openers -> Tasks] /\ doing'[p] = V!Idle
      /\ \A q \in Openers \ {p} : GoesOn(q)
  BY <1>1, <1>5, <1>6, AloneGoesOn, CommitGoesOn
<1>8. /\ known' \in [Openers -> SUBSET (Indexable \X Nat)] /\ known'[p] = known[p] \cup new
      /\ \A q \in Openers \ {p} : known'[q] = known[q]
  BY <1>1, <1>3, <1>4, <1>5 DEF IndexTypes
<1>9. \A e \in new : e = <<m, v>> /\ indexRows[m].version = v
  BY <1>1, <1>4 DEF V!StoredRows, IndexTypes
<1>10. \A e \in known[p] : e \in Indexable \X Nat /\ e[1] # m /\ indexRows[e[1]].version = e[2] /\ e[2] # 0
  BY <1>1, <1>2, <1>3 DEF Holds, Knows, IndexTypes
<1>11. V!Stored(m) /\ indexRows[m].version \notin overtaken => v = indexRows[m].version
  BY <1>1, <1>2, <1>3 DEF Pending
<1>12. Pending(p)'
  BY <1>7, NothingPending DEF V!Idle
<1>13. Knows(p)'
  BY <1>3, <1>5, <1>8, <1>9, <1>10 DEF Knows
<1>14. CASE p \in vecProcs
  <2>1. /\ table' \in [Indexable -> Nat] /\ (V!Stored(m) => table'[m] = v)
        /\ \A n \in Indexable \ {m} : table'[n] = table[n]
        /\ dim' \in [Openers -> BOOLEAN] /\ dim'[p] = TRUE /\ vecs' = vecs
        /\ \A q \in Openers \ {p} : dim'[q] = dim[q]
    <3>1. /\ table' = [table EXCEPT ![m] = IF V!Stored(m) THEN v ELSE 0]
          /\ dim' = [dim EXCEPT ![p] = TRUE] /\ vecs' = vecs
      BY <1>5, <1>14
    <3>2. dim \in [Openers -> BOOLEAN] /\ table \in [Indexable -> Nat]
      BY <1>1 DEF IndexTypes
    <3>3. PICK w \in Nat : w = IF V!Stored(m) THEN v ELSE 0
      BY <1>3
    <3>4. /\ table' \in [Indexable -> Nat] /\ table'[m] = w
          /\ \A n \in Indexable \ {m} : table'[n] = table[n]
      BY <1>3, <3>1, <3>2, <3>3, OneEntry
    <3>5. dim' \in [Openers -> BOOLEAN] /\ dim'[p] = TRUE
          /\ \A q \in Openers \ {p} : dim'[q] = dim[q]
      BY <3>1, <3>2
    <3> QED
      BY <3>1, <3>3, <3>4, <3>5
  <2>2. Quiet
    BY <1>1, <1>5, <1>11, <2>1 DEF Quiet, IndexTypes, RowsNumbered
  <2>3. ASSUME NEW e \in known[p] \cup new, e[2] \notin overtaken PROVE table'[e[1]] = e[2]
    <3>1. CASE e \in new
      BY <1>3, <1>9, <2>1, <3>1 DEF V!Stored
    <3>2. CASE e \in known[p]
      <4>1. table[e[1]] = e[2]
        BY <1>1, <1>3, <1>14, <2>3, <3>2 DEF Holds
      <4> QED
        BY <1>10, <2>1, <3>2, <4>1
    <3> QED
      BY <2>3, <3>1, <3>2
  <2>4. Holds(p)'
    BY <1>5, <1>7, <1>8, <1>14, <2>1, <2>3 DEF Holds, V!Idle
  <2>5. Others(p)
    BY <1>7, <1>8, <2>1 DEF Others
  <2> QED
    BY <1>1, <1>7, <1>8, <1>12, <1>13, <2>1, <2>2, <2>4, <2>5, QuietStep DEF IndexTypes
<1>15. CASE p \notin vecProcs
  <2>1. /\ vecs' \in [Openers -> [Indexable -> Nat]] /\ vecs'[p][m] = v
        /\ \A n \in Indexable \ {m} : vecs'[p][n] = vecs[p][n]
        /\ \A q \in Openers \ {p} : vecs'[q] = vecs[q]
        /\ dim' = dim /\ table' = table
    <3>1. vecs' = [vecs EXCEPT ![p][m] = v] /\ dim' = dim /\ table' = table
      BY <1>5, <1>15
    <3>2. vecs \in [Openers -> [Indexable -> Nat]]
      BY <1>1 DEF IndexTypes
    <3> QED
      BY <1>3, <3>1, <3>2, OneVector
  <2>2. Quiet
    BY <1>1, <1>5, <2>1 DEF Quiet, IndexTypes, RowsNumbered
  <2>3. ASSUME NEW e \in known[p] \cup new PROVE vecs'[p][e[1]] = e[2]
    <3>1. CASE e \in new
      BY <1>9, <2>1, <3>1
    <3>2. CASE e \in known[p]
      <4>1. vecs[p][e[1]] = e[2]
        BY <1>1, <1>15, <3>2 DEF Holds
      <4> QED
        BY <1>10, <2>1, <3>2, <4>1
    <3> QED
      BY <2>3, <3>1, <3>2
  <2>4. Holds(p)'
    BY <1>7, <1>8, <1>15, <2>3 DEF Holds, V!Idle
  <2>5. Others(p)
    BY <1>7, <1>8, <2>1 DEF Others
  <2> QED
    BY <1>1, <1>7, <1>8, <1>12, <1>13, <2>1, <2>2, <2>4, <2>5, QuietStep DEF IndexTypes
<1> QED
  BY <1>14, <1>15

LEMMA RemoveVectorStep ==
    ASSUME IndexInv, vecProcs' = vecProcs, NEW p \in Openers, V!RemoveVector(p) PROVE IndexInv'
<1>1. /\ IndexTypes /\ RowsNumbered /\ Knows(p) /\ Holds(p) /\ Pending(p)
  BY DEF IndexInv
<1>2. PICK m : m = doing[p].mem
  OBVIOUS
<1>3. doing[p].at = "remove" /\ m \in Indexable
  BY <1>1, <1>2, VectorTask DEF V!RemoveVector
<1>4. /\ known' = known /\ dim' = dim
      /\ indexRows' = indexRows /\ version' = version /\ overtaken' = overtaken
      /\ V!Commit(p, V!Idle)
      /\ \/ p \in vecProcs /\ table' = [table EXCEPT ![m] = 0] /\ vecs' = vecs
         \/ p \notin vecProcs /\ vecs' = [vecs EXCEPT ![p][m] = 0] /\ table' = table
  BY <1>2 DEF V!RemoveVector
<1>5. V!Idle \in Tasks
  BY DEF Tasks
<1>6. /\ doing' \in [Openers -> Tasks] /\ doing'[p] = V!Idle
      /\ \A q \in Openers \ {p} : GoesOn(q)
  BY <1>1, <1>4, <1>5, CommitGoesOn
<1>7. /\ vecs' \in [Openers -> [Indexable -> Nat]] /\ table' \in [Indexable -> Nat]
      /\ \A n \in Indexable \ {m} : vecs'[p][n] = vecs[p][n] /\ table'[n] = table[n]
      /\ \A q \in Openers \ {p} : vecs'[q] = vecs[q]
  <2>1. vecs \in [Openers -> [Indexable -> Nat]] /\ table \in [Indexable -> Nat]
    BY <1>1 DEF IndexTypes
  <2>2. CASE vecs' = vecs /\ table' = [table EXCEPT ![m] = 0]
    BY <1>3, <2>1, <2>2, OneEntry
  <2>3. CASE vecs' = [vecs EXCEPT ![p][m] = 0] /\ table' = table
    BY <1>3, <2>1, <2>3, OneVector
  <2> QED
    BY <1>4, <2>2, <2>3
<1>8. \A n \in Indexable : V!Stored(n) /\ indexRows[n].version \notin overtaken => n # m
  BY <1>1, <1>2, <1>3 DEF Pending
<1>9. Quiet
  BY <1>1, <1>4, <1>7, <1>8 DEF Quiet, IndexTypes, RowsNumbered
<1>10. Others(p)
  BY <1>4, <1>6, <1>7 DEF Others
<1>11. Pending(p)'
  BY <1>6, NothingPending DEF V!Idle
<1>12. Knows(p)'
  BY <1>1, <1>4 DEF Knows
<1>13. ASSUME NEW e \in known[p] PROVE e[1] \in Indexable \ {m}
  BY <1>1, <1>2, <1>3 DEF Holds, IndexTypes
<1>14. Holds(p)'
  BY <1>1, <1>3, <1>4, <1>6, <1>7, <1>13 DEF Holds, V!Idle, V!Ready
<1> QED
  BY <1>1, <1>4, <1>6, <1>7, <1>9, <1>10, <1>11, <1>12, <1>14, QuietStep DEF IndexTypes

LEMMA SetIndexedStep ==
    ASSUME IndexInv, vecProcs' = vecProcs, NEW p \in Openers, V!SetIndexed(p) PROVE IndexInv'
<1>1. /\ IndexTypes /\ RowsNumbered /\ Knows(p) /\ Holds(p)
  BY DEF IndexInv
<1>2. PICK m \in Indexable, indexed \in BOOLEAN :
        V!Stored(m) /\ indexRows' = [indexRows EXCEPT ![m].indexed = indexed]
        /\ V!Commit(p, V!Idle)
  BY DEF V!SetIndexed
<1>3. /\ doing[p] = V!Idle /\ table' = table /\ version' = version /\ vecs' = vecs /\ dim' = dim
      /\ known' = known /\ overtaken' = overtaken
  BY DEF V!SetIndexed
<1>4. V!Idle \in Tasks
  BY DEF Tasks
<1>5. /\ doing' \in [Openers -> Tasks] /\ doing'[p] = V!Idle
      /\ \A q \in Openers \ {p} : GoesOn(q)
  BY <1>1, <1>2, <1>4, CommitGoesOn
<1>6. /\ indexRows' \in [Indexable -> [version : Nat, indexed : BOOLEAN]]
      /\ \A n \in Indexable : indexRows'[n].version = indexRows[n].version
      /\ \A n \in Indexable \ {m} : indexRows'[n] = indexRows[n]
  BY <1>1, <1>2 DEF IndexTypes
<1>7. Quiet
  BY <1>1, <1>2, <1>3, <1>6 DEF Quiet, IndexTypes, RowsNumbered, V!Stored
<1>8. Others(p)
  BY <1>3, <1>5 DEF Others
<1>9. Pending(p)'
  BY <1>5, NothingPending DEF V!Idle
<1>10. \A e \in known[p] : e[1] \in Indexable
  BY <1>1 DEF IndexTypes
<1>11. Knows(p)'
  BY <1>1, <1>3, <1>6, <1>10 DEF Knows
<1>12. Holds(p)'
  BY <1>1, <1>3, <1>5 DEF Holds, V!Ready
<1> QED
  BY <1>1, <1>3, <1>5, <1>7, <1>8, <1>9, <1>11, <1>12, QuietStep DEF IndexTypes

LEMMA RememberStep ==
    ASSUME IndexInv, vecProcs' = vecProcs, NEW p \in Openers, V!Remember(p) PROVE IndexInv'
<1>1. /\ IndexTypes /\ RowsNumbered /\ \A q \in Openers : Knows(q) /\ Holds(q) /\ Pending(q)
  BY DEF IndexInv
<1>2. PICK v \in Nat : v = version + 1
  BY <1>1 DEF IndexTypes
<1>3. PICK m \in Indexable, indexed \in BOOLEAN :
        /\ ~V!Stored(m)
        /\ indexRows' = [indexRows EXCEPT ![m] = [version |-> v, indexed |-> indexed]]
        /\ V!Commit(p, IF indexed THEN [at |-> "add", mem |-> m, version |-> v] ELSE V!Idle)
        /\ overtaken' = IF V!Busy(p, m) THEN overtaken \cup {v} ELSE overtaken
  BY <1>2 DEF V!Remember
<1>4. /\ doing[p] = V!Idle /\ version' = v
      /\ table' = table /\ vecs' = vecs /\ dim' = dim /\ known' = known
  BY <1>2 DEF V!Remember
<1>5. PICK next : next = IF indexed THEN [at |-> "add", mem |-> m, version |-> v] ELSE V!Idle
  OBVIOUS
<1>6. v # 0 /\ version < v /\ version \in Nat
  BY <1>1, <1>2 DEF IndexTypes
<1>7. next \in Tasks /\ next.at \in {"idle", "add"} /\ (next.at = "add" => next.mem = m /\ next.version = v)
  BY <1>5, <1>6 DEF Tasks, V!Idle
<1>8. /\ doing' \in [Openers -> Tasks] /\ doing'[p] = next
      /\ \A q \in Openers \ {p} : GoesOn(q)
  BY <1>1, <1>3, <1>5, <1>7, CommitGoesOn
<1>9. /\ indexRows' \in [Indexable -> [version : Nat, indexed : BOOLEAN]]
      /\ indexRows'[m].version = v /\ indexRows[m].version = 0
      /\ \A n \in Indexable \ {m} : indexRows'[n] = indexRows[n]
  BY <1>1, <1>3 DEF IndexTypes, V!Stored
<1>10. \A n \in Indexable : indexRows[n].version \in Nat /\ indexRows[n].version <= version
  BY <1>1 DEF IndexTypes, RowsNumbered
<1>11. RowsNumbered'
  <2>1. \A n \in Indexable : indexRows'[n].version <= v
    BY <1>6, <1>9, <1>10
  <2>2. \A n \in Indexable : indexRows'[n].indexed => indexRows'[n].version # 0
    BY <1>1, <1>6, <1>9 DEF RowsNumbered
  <2>3. \A n \in Indexable \ {m} : indexRows'[n].version # v
    BY <1>6, <1>9, <1>10
  <2>4. ASSUME NEW a \in Indexable, NEW b \in Indexable, a # b,
               indexRows'[a].version = indexRows'[b].version
        PROVE  indexRows'[a].version = 0
    <3>1. a # m /\ b # m
      BY <1>9, <2>3, <2>4
    <3> QED
      BY <1>1, <1>9, <2>4, <3>1 DEF RowsNumbered
  <2> QED
    BY <1>4, <2>1, <2>2, <2>4 DEF RowsNumbered
<1>12. IndexTypes'
  BY <1>1, <1>2, <1>4, <1>8, <1>9 DEF IndexTypes
<1>13. ASSUME NEW q \in Openers, NEW e \in known[q] PROVE e[1] \in Indexable /\ e[1] # m
  <2>1. e \in Indexable \X Nat
    BY <1>1, <1>13 DEF IndexTypes
  <2> QED
    BY <1>1, <1>9, <1>13, <2>1 DEF Knows
<1>14. overtaken \subseteq overtaken'
  BY <1>3
<1>15. ASSUME NEW q \in Openers \ {p} PROVE Knows(q)' /\ Holds(q)' /\ Pending(q)'
  <2>1. Kept(q)
    BY <1>4, <1>9, <1>13, <1>14 DEF Kept
  <2>2. Knows(q)' /\ Holds(q)'
    BY <1>4, <1>8, <2>1, BystanderKeeps
  <2>3. /\ doing'[q].at = doing[q].at
        /\ doing[q].at = "rebuild" => doing'[q].todo = doing[q].todo
        /\ doing[q].at \in {"add", "remove"} => doing'[q] = doing[q]
    BY <1>1, <1>8, GoesOnSame
  <2>4. ASSUME NEW n \in Indexable, V!Stored(n)', indexRows'[n].version \notin overtaken'
        PROVE  /\ doing[q].at = "add" /\ doing[q].mem = n => doing[q].version = indexRows'[n].version
               /\ doing[q].at = "remove" => doing[q].mem # n
               /\ doing[q].at = "rebuild" =>
                    \A e \in doing[q].todo : e[1] = n => e[2] = indexRows'[n].version
    <3>1. CASE n # m
      <4>1. indexRows'[n] = indexRows[n] /\ V!Stored(n) /\ indexRows[n].version \notin overtaken
        BY <1>9, <1>14, <2>4, <3>1 DEF V!Stored
      <4> QED
        BY <1>1, <4>1 DEF Pending
    <3>2. CASE n = m
      <4>1. ~V!Busy(p, m)
        BY <1>3, <1>9, <2>4, <3>2
      <4> QED
        BY <3>2, <4>1 DEF V!Busy
    <3> QED
      BY <3>1, <3>2
  <2>5. Pending(q)'
    BY <2>3, <2>4 DEF Pending
  <2> QED
    BY <2>2, <2>5
<1>16. Knows(p)'
  BY <1>1, <1>4, <1>9, <1>13 DEF Knows
<1>17. Holds(p)'
  <2>1. V!Ready(p) /\ doing[p].at = "idle"
    BY <1>4 DEF V!Ready, V!Idle
  <2>2. /\ p \notin vecProcs => \A e \in known[p] : vecs[p][e[1]] = e[2]
        /\ p \in vecProcs /\ known[p] # {} => dim[p]
        /\ p \in vecProcs => \A e \in known[p] : e[2] \notin overtaken => table[e[1]] = e[2]
    BY <1>1, <2>1 DEF Holds
  <2> QED
    BY <1>4, <1>7, <1>8, <1>13, <1>14, <2>2 DEF Holds
<1>18. Pending(p)'
  BY <1>7, <1>8, <1>9 DEF Pending
<1> QED
  BY <1>11, <1>12, <1>15, <1>16, <1>17, <1>18 DEF IndexInv

LEMMA PurgeRowStep ==
    ASSUME IndexInv, vecProcs' = vecProcs, NEW p \in Openers, V!PurgeRow(p) PROVE IndexInv'
<1>1. /\ IndexTypes /\ RowsNumbered /\ \A q \in Openers : Knows(q) /\ Holds(q) /\ Pending(q)
  BY DEF IndexInv
<1>2. PICK m \in Indexable :
        /\ indexRows' = [indexRows EXCEPT ![m] = V!Absent]
        /\ V!Commit(p, [at |-> "remove", mem |-> m])
        /\ known' = [q \in Openers |-> known[q] \ {<<m, indexRows[m].version>>}]
        /\ overtaken' = overtaken \ {indexRows[m].version}
  BY DEF V!PurgeRow
<1>3. /\ doing[p] = V!Idle /\ version' = version
      /\ table' = table /\ vecs' = vecs /\ dim' = dim
  BY DEF V!PurgeRow
<1>4. PICK next : next = [at |-> "remove", mem |-> m]
  OBVIOUS
<1>5. next \in Tasks /\ next.at = "remove" /\ next.mem = m
  BY <1>4 DEF Tasks
<1>6. /\ doing' \in [Openers -> Tasks] /\ doing'[p] = next
      /\ \A q \in Openers \ {p} : GoesOn(q)
  BY <1>1, <1>2, <1>4, <1>5, CommitGoesOn
<1>7. /\ indexRows' \in [Indexable -> [version : Nat, indexed : BOOLEAN]]
      /\ indexRows'[m] = V!Absent /\ \A n \in Indexable \ {m} : indexRows'[n] = indexRows[n]
  BY <1>1, <1>2 DEF IndexTypes, V!Absent
<1>8. IndexTypes'
  <2>1. known' \in [Openers -> SUBSET (Indexable \X Nat)]
    BY <1>1, <1>2 DEF IndexTypes
  <2> QED
    BY <1>1, <1>3, <1>6, <1>7, <2>1 DEF IndexTypes
<1>9. RowsNumbered'
  <2>1. version \in Nat /\ V!Absent.version = 0 /\ V!Absent.indexed = FALSE
    BY <1>1 DEF IndexTypes, V!Absent
  <2> QED
    BY <1>1, <1>3, <1>7, <2>1 DEF RowsNumbered
<1>10. ASSUME NEW q \in Openers, NEW e \in known'[q]
       PROVE  e \in known[q] /\ e[1] \in Indexable \ {m} /\ (e[2] \notin overtaken' => e[2] \notin overtaken)
  <2>1. e \in known[q] /\ e # <<m, indexRows[m].version>>
    BY <1>2, <1>10
  <2>2. e \in Indexable \X Nat /\ indexRows[e[1]].version = e[2] /\ e[2] # 0
    BY <1>1, <2>1 DEF IndexTypes, Knows
  <2>3. e[1] # m
    BY <2>1, <2>2
  <2>4. e[2] # indexRows[m].version
    BY <1>1, <2>2, <2>3 DEF RowsNumbered
  <2> QED
    BY <1>2, <2>1, <2>2, <2>3, <2>4
<1>11. ASSUME NEW n \in Indexable, V!Stored(n)', indexRows'[n].version \notin overtaken'
       PROVE  n # m /\ indexRows'[n] = indexRows[n] /\ V!Stored(n) /\ indexRows[n].version \notin overtaken
  <2>1. n # m /\ indexRows'[n] = indexRows[n] /\ V!Stored(n)
    BY <1>7, <1>11 DEF V!Stored, V!Absent
  <2>2. indexRows[n].version # indexRows[m].version
    BY <1>1, <2>1 DEF RowsNumbered, V!Stored
  <2> QED
    BY <1>2, <1>11, <2>1, <2>2
<1>12. ASSUME NEW q \in Openers \ {p} PROVE Knows(q)' /\ Holds(q)' /\ Pending(q)'
  <2>1. Kept(q)
    BY <1>3, <1>7, <1>10 DEF Kept
  <2>2. vecs'[q] = vecs[q] /\ dim'[q] = dim[q] /\ known'[q] \subseteq known[q] /\ GoesOn(q)
    BY <1>3, <1>6, <1>10
  <2>3. Knows(q)' /\ Holds(q)'
    BY <2>1, <2>2, BystanderKeeps
  <2>4. /\ doing'[q].at = doing[q].at
        /\ doing[q].at = "rebuild" => doing'[q].todo = doing[q].todo
        /\ doing[q].at \in {"add", "remove"} => doing'[q] = doing[q]
    BY <1>1, <2>2, GoesOnSame
  <2>5. Pending(q)'
    BY <1>1, <1>11, <2>4 DEF Pending
  <2> QED
    BY <2>3, <2>5
<1>13. Knows(p)'
  BY <1>1, <1>7, <1>10 DEF Knows
<1>14. Holds(p)'
  <2>1. V!Ready(p) /\ doing[p].at = "idle"
    BY <1>3 DEF V!Ready, V!Idle
  <2>2. /\ p \notin vecProcs => \A e \in known[p] : vecs[p][e[1]] = e[2]
        /\ p \in vecProcs /\ known[p] # {} => dim[p]
        /\ p \in vecProcs => \A e \in known[p] : e[2] \notin overtaken => table[e[1]] = e[2]
    BY <1>1, <2>1 DEF Holds
  <2>3. known'[p] # {} => known[p] # {}
    BY <1>10
  <2> QED
    BY <1>3, <1>5, <1>6, <1>10, <2>2, <2>3 DEF Holds
<1>15. Pending(p)'
  BY <1>5, <1>6, <1>11 DEF Pending
<1> QED
  BY <1>8, <1>9, <1>12, <1>13, <1>14, <1>15 DEF IndexInv

LEMMA IndexInit == V!Init => IndexInv
<1> SUFFICES ASSUME V!Init PROVE IndexInv
  OBVIOUS
<1> USE DEF V!Init
<1>1. IndexTypes
  BY DEF IndexTypes, Tasks, V!Absent
<1>2. RowsNumbered
  BY DEF RowsNumbered, V!Absent
<1>3. ASSUME NEW q \in Openers PROVE Pending(q) /\ Knows(q) /\ Holds(q)
  BY <1>3 DEF Pending, Knows, Holds, V!Closed, V!Ready
<1> QED
  BY <1>1, <1>2, <1>3 DEF IndexInv

LEMMA IndexStep == IndexInv /\ [V!Next]_V!vars => IndexInv'
<1> SUFFICES ASSUME IndexInv, [V!Next]_V!vars PROVE IndexInv'
  OBVIOUS
<1>1. CASE UNCHANGED V!vars
  BY <1>1 DEF V!vars, V!fileVars, IndexInv, IndexTypes, RowsNumbered, Pending, Knows, Holds,
              V!Stored, V!Ready
<1>2. ASSUME vecProcs' = vecProcs, NEW p \in Openers,
             \/ V!OpenNumpy(p) \/ V!DropOrphans(p) \/ V!Select(p) \/ V!Readd(p)
             \/ V!OpenFails(p) \/ V!Crash(p)
             \/ V!Remember(p) \/ V!AddVector(p) \/ V!PurgeRow(p) \/ V!RemoveVector(p) \/ V!SetIndexed(p)
      PROVE  IndexInv'
  <2>1. CASE V!OpenFails(p) \/ V!Crash(p)
    BY <1>2, <2>1, CloseStep DEF V!OpenFails, V!Crash
  <2>2. CASE V!OpenNumpy(p) \/ V!DropOrphans(p) \/ V!Select(p) \/ V!Readd(p)
    BY <1>2, <2>2, OpenNumpyStep, DropOrphansStep, SelectStep, ReaddStep
  <2>3. CASE V!Remember(p) \/ V!AddVector(p) \/ V!PurgeRow(p) \/ V!RemoveVector(p) \/ V!SetIndexed(p)
    BY <1>2, <2>3, RememberStep, AddVectorStep, PurgeRowStep, RemoveVectorStep, SetIndexedStep
  <2> QED
    BY <1>2, <2>1, <2>2, <2>3
<1> QED
  BY <1>1, <1>2 DEF V!Next

\* A process finds by its vector every row it wrote, or read when it opened (rebuild and
\* add_if_stored in index.py), however many numpy and sqlite-vec processes open, re-add,
\* purge, write and die in between, but for a row written over an id that another was
\* still busy with.
THEOREM KnownFound == UnionSpec => []KnownRowsFound
<1>1. IndexInv => KnownRowsFound
  <2> SUFFICES ASSUME IndexInv, NEW p \in Openers, NEW e \in known[p],
                      V!Ready(p), e[2] \notin overtaken
               PROVE  V!Found(p, e[1]) = e[2]
    BY DEF KnownRowsFound, V!KnownRowsFound
  <2>1. Holds(p) /\ doing[p].at # "rebuild"
    BY DEF IndexInv, V!Ready
  <2> QED
    BY <2>1 DEF Holds, V!Found, V!SearchVec, V!SearchNumpy
<1>2. V!Spec => []IndexInv
  BY IndexInit, IndexStep, PTL DEF V!Spec
<1> QED
  BY <1>1, <1>2, IndexPart, PTL
================================================================================
