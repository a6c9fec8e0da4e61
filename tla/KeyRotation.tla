------------------------------ MODULE KeyRotation ------------------------------
(***************************************************************************)
(* Who wraps the data keys and who signs: KeyStore (erasure.py), the key   *)
(* custodians (key_custody.py), Signer (provenance.py) and the rotation of *)
(* a tenant's root (key_lifecycle.py), while processes opened with         *)
(* different custody read, write and erase.  A process that writes without *)
(* custody signs with a key of its own.  One tenant.                       *)
(***************************************************************************)
EXTENDS Naturals, Sequences, FiniteSets

CONSTANTS
    Procs, Subjects, Principals,
    Roots,    \* custody roots, each with its key id
    Aligned,  \* the roots whose key id makes an envelope whole 8-byte blocks
    Raw,      \* RawKeyCustodian, and the old custodian of a first migration
    None,     \* no row, no key, no claim
    Shredded, \* an erased subject's key row
    MaxOpens, \* bound on processes opened
    MaxRows,  \* bound on rows when a call starts to write another
    MaxJobs   \* bound on rotations and migrations started

Custody == Roots \cup {Raw}
Publics == Roots \cup 1..MaxOpens  \* a root's signing key, or a process's own
Erased  == "erased"

ASSUME RotationAssumptions ==
    /\ MaxOpens \in Nat
    /\ None \notin Publics
    /\ Raw \notin Roots
    /\ Erased \notin Roots \cup {None}
    /\ None \notin Seq(Roots) /\ Shredded \notin Seq(Roots) /\ None # Shredded

VARIABLES
    keys,    \* the keys table: the roots a key is wrapped in, innermost first
    primary, \* principal_keys
    aliases, \* principal_key_aliases: <<principal, public key>>
    rows,    \* memories: subject, author, public key of the signature, key used
    proc,    \* each process: its custody, its own signing keys and its call
    job,     \* a rewrap_tenant_keys or rotate_tenant_root in progress
    claim,   \* a root whose rewrap was reported complete, or Erased once an erase
             \* proof was given, while no other custody has been in use since
    opens, jobs

vars == <<keys, primary, aliases, rows, proc, job, claim, opens, jobs>>

Closed == [pc |-> "closed"]
RestingJob == [pc |-> "none"]

Registered(a) == {x[2] : x \in {y \in aliases : y[1] = a}} \cup ({primary[a]} \ {None})
Active == {s \in Subjects : keys[s] \notin {None, Shredded}}
Opened == {proc[p].custody : p \in {q \in Procs : proc[q].pc # "closed"}}

TypeOK ==
    /\ \A s \in Active : keys[s] \in UNION {[1..n -> Roots] : n \in 0..MaxJobs + 1}
    /\ primary \in [Principals -> Publics \cup {None}]
    /\ aliases \subseteq Principals \X Publics
    /\ rows \subseteq [subject : Subjects, by : Principals, pub : Publics,
                       key : {"dek", "envelope"}]
    /\ claim \in Roots \cup {None, Erased}

Init ==
    /\ keys = [s \in Subjects |-> None] /\ primary = [a \in Principals |-> None]
    /\ aliases = {} /\ rows = {} /\ proc = [p \in Procs |-> Closed] /\ job = RestingJob
    /\ claim = None /\ opens = 0 /\ jobs = 0

Kept(wanted, used) ==
    IF used \subseteq (IF wanted = Erased THEN Roots ELSE {wanted})
    THEN wanted ELSE None
Using(c) == claim' = Kept(claim, {c})

(***************************************************************************)
(* Envelopes: the custodians' wrap and unwrap.                             *)
(***************************************************************************)
Fails == "fails"
Top(e) == IF e = <<>> THEN Raw ELSE e[Len(e)]

\* AES key wrap takes only whole blocks; a DEK is.
Wrap(c, e) ==
    IF c = Raw THEN e
    ELSE IF e # <<>> /\ Top(e) \notin Aligned THEN Fails ELSE Append(e, c)

\* Raw custody hands an envelope back as if it were the key; a root opens its own.
Unwrap(c, e) ==
    IF c = Raw \/ e = <<>> THEN e
    ELSE IF Top(e) # c THEN Fails ELSE SubSeq(e, 1, Len(e) - 1)

\* The cipher takes the first 32 bytes of what it is given: of an envelope, its header.
Used(e) == IF e = <<>> THEN "dek" ELSE "envelope"

(***************************************************************************)
(* A process opens the store and calls remember or a read, one at a time.  *)
(***************************************************************************)
Fresh(p) == [pc |-> "idle", custody |-> proc[p].custody, mine |-> proc[p].mine,
             born |-> proc[p].born]

Open(p, c) ==
    /\ proc[p].pc = "closed" /\ opens < MaxOpens
    /\ opens' = opens + 1
    /\ proc' = [proc EXCEPT ![p] =
         [pc |-> "idle", custody |-> c, born |-> opens + 1,
          mine |-> [a \in Principals |-> None]]]
    /\ Using(c)
    /\ UNCHANGED <<keys, primary, aliases, rows, job, jobs>>

\* Close, or die at any point.
Close(p) ==
    /\ proc[p].pc # "closed"
    /\ proc' = [proc EXCEPT ![p] = Closed]
    /\ UNCHANGED <<keys, primary, aliases, rows, job, claim, opens, jobs>>

\* pub is the key a write signs with, saw the keys its author has, key the one it
\* encrypts with.
Call(p, pc, s, a, writes, pub, saw) ==
    [pc |-> pc, custody |-> proc[p].custody, mine |-> proc[p].mine, born |-> proc[p].born,
     subject |-> s, by |-> a, writes |-> writes, pub |-> pub, saw |-> saw, key |-> None]

\* Signer.register looks first.  Without custody only a principal without a primary
\* key gets one; one whose key this process made signs at once.
Remember(p, s, a) ==
    /\ proc[p].pc = "idle" /\ Cardinality(rows) < MaxRows
    /\ LET custody == proc[p].custody
           mine == proc[p].mine[a]
       IN \/ /\ custody # Raw
             /\ proc' = [proc EXCEPT ![p] = Call(p, "register", s, a,
                            TRUE, custody, Registered(a))]
          \/ /\ custody = Raw /\ mine # None
             /\ proc' = [proc EXCEPT ![p] = Call(p, "key", s, a,
                            TRUE, mine, {})]
          \/ /\ custody = Raw /\ mine = None /\ primary[a] = None
             /\ proc' = [proc EXCEPT ![p] = Call(p, "register", s, a,
                            TRUE, proc[p].born, {})]
    /\ UNCHANGED <<keys, primary, aliases, rows, job, claim, opens, jobs>>

\* Mutant of Enrol: the latest key takes the place of the primary one.
EnrolInPlace(a, pub, saw) ==
    /\ primary' = [primary EXCEPT ![a] = pub]
    /\ UNCHANGED aliases

\* register_principal_key if none was seen, which another's key refuses;
\* register_principal_key_alias if others were.
Enrol(a, pub, saw) ==
    IF saw = {}
    THEN /\ primary[a] \in {None, pub}
         /\ primary' = [primary EXCEPT ![a] = pub]
         /\ UNCHANGED aliases
    ELSE /\ aliases' = IF pub \in saw THEN aliases ELSE aliases \cup {<<a, pub>>}
         /\ UNCHANGED primary

Register(p) ==
    /\ proc[p].pc = "register"
    /\ LET a == proc[p].by
           pub == proc[p].pub
           mine == IF proc[p].custody = Raw THEN [proc[p].mine EXCEPT ![a] = pub]
                   ELSE proc[p].mine
       IN IF proc[p].saw = {} /\ primary[a] \notin {None, pub}
          THEN /\ proc' = [proc EXCEPT ![p] = Fresh(p)]
               /\ UNCHANGED <<primary, aliases>>
          ELSE /\ Enrol(a, pub, proc[p].saw)
               /\ proc' = [proc EXCEPT ![p] = [@ EXCEPT !.pc = "key", !.mine = mine]]
    /\ UNCHANGED <<keys, rows, job, claim, opens, jobs>>

Read(p, s) ==
    /\ proc[p].pc = "idle" /\ \E r \in rows : r.subject = s
    /\ LET a == CHOOSE x \in Principals : TRUE
       IN proc' = [proc EXCEPT ![p] = Call(p, "key", s, a, FALSE, None, {})]
    /\ UNCHANGED <<keys, primary, aliases, rows, job, claim, opens, jobs>>

\* What get_or_create and get do with the key row they were given.
Settled(p, e) ==
    IF e \in {None, Shredded} \/ Unwrap(proc[p].custody, e) = Fails THEN Fresh(p)
    ELSE IF e = <<>> /\ proc[p].custody # Raw THEN [proc[p] EXCEPT !.pc = "migrate"]
    ELSE IF proc[p].writes
         THEN [proc[p] EXCEPT !.pc = "insert", !.key = Used(Unwrap(proc[p].custody, e))]
         ELSE Fresh(p)

ReadKey(p) ==
    /\ proc[p].pc = "key"
    /\ proc' = [proc EXCEPT ![p] =
         IF keys[@.subject] = None /\ @.writes THEN [@ EXCEPT !.pc = "create"]
         ELSE Settled(p, keys[@.subject])]
    /\ UNCHANGED <<keys, primary, aliases, rows, job, claim, opens, jobs>>

\* Mutant of CreateKey: the new key is stored as it is.
CreateKeyRaw(p) ==
    /\ proc[p].pc = "create"
    /\ LET s == proc[p].subject
           stored == IF keys[s] = None THEN <<>> ELSE keys[s]
       IN /\ keys' = [keys EXCEPT ![s] = stored]
          /\ proc' = [proc EXCEPT ![p] = Settled(p, stored)]
    /\ UNCHANGED <<primary, aliases, rows, job, claim, opens, jobs>>

\* create_key: a row that is there wins, whoever wrote it.
CreateKey(p) ==
    /\ proc[p].pc = "create"
    /\ LET s == proc[p].subject
           stored == IF keys[s] = None THEN Wrap(proc[p].custody, <<>>) ELSE keys[s]
       IN /\ keys' = [keys EXCEPT ![s] = stored]
          /\ proc' = [proc EXCEPT ![p] = Settled(p, stored)]
    /\ UNCHANGED <<primary, aliases, rows, job, claim, opens, jobs>>

\* put_key on first access to a raw key: over any row but a tombstone.
Migrate(p) ==
    /\ proc[p].pc = "migrate"
    /\ LET s == proc[p].subject
       IN IF keys[s] = Shredded
          THEN proc' = [proc EXCEPT ![p] = Fresh(p)] /\ UNCHANGED keys
          ELSE /\ keys' = [keys EXCEPT ![s] = <<proc[p].custody>>]
               /\ proc' = [proc EXCEPT ![p] =
                    IF @.writes THEN [@ EXCEPT !.pc = "insert", !.key = "dek"] ELSE Fresh(p)]
    /\ UNCHANGED <<primary, aliases, rows, job, claim, opens, jobs>>

\* The row, signed and encrypted before, unless its subject is erased.
Insert(p) ==
    /\ proc[p].pc = "insert"
    /\ LET c == proc[p]
       IN rows' = IF keys[c.subject] = Shredded THEN rows
                  ELSE rows \cup {[subject |-> c.subject, by |-> c.by, pub |-> c.pub,
                                   key |-> c.key]}
    /\ proc' = [proc EXCEPT ![p] = Fresh(p)]
    /\ UNCHANGED <<keys, primary, aliases, job, claim, opens, jobs>>

Forget(s) ==
    /\ keys[s] # Shredded
    /\ keys' = [keys EXCEPT ![s] = Shredded]
    /\ rows' = {r \in rows : r.subject # s}
    /\ UNCHANGED <<primary, aliases, proc, job, claim, opens, jobs>>

(***************************************************************************)
(* Rotation.                                                               *)
(***************************************************************************)
\* rewrap_tenant_keys; between two roots, rotate_tenant_root.
StartJob(from, to, limit) ==
    /\ job.pc = "none" /\ jobs < MaxJobs /\ from # to
    /\ jobs' = jobs + 1
    /\ job' = [pc |-> IF from = Raw THEN "list" ELSE "alias", from |-> from, to |-> to,
               left |-> limit, authors |-> {a \in Principals : primary[a] # None},
               held |-> <<>>]
    /\ Using(to)
    /\ UNCHANGED <<keys, primary, aliases, rows, proc, opens>>

\* The primary key under the old root's name, then the new root's key; both remain.
RegisterAliases ==
    /\ job.pc = "alias"
    /\ IF job.authors = {} THEN job' = [job EXCEPT !.pc = "list"] /\ UNCHANGED aliases
       ELSE \E a \in job.authors :
              /\ aliases' = aliases \cup {<<a, primary[a]>>, <<a, job.to>>}
              /\ job' = [job EXCEPT !.authors = @ \ {a}]
    /\ UNCHANGED <<keys, primary, rows, proc, claim, opens, jobs>>

\* iter_keys.
ListKeys ==
    /\ job.pc = "list"
    /\ job' = [job EXCEPT !.pc = "rewrap",
              !.held = [s \in {t \in Subjects : keys[t] # None} |-> keys[s]]]
    /\ UNCHANGED <<keys, primary, aliases, rows, proc, claim, opens, jobs>>

\* One listed key; an envelope of another root, or of no whole blocks, ends the job
\* with an error.
Wrapped(e, from, to) ==
    LET dek == Unwrap(from, e) IN IF dek = Fails THEN Fails ELSE Wrap(to, dek)

Rewrap ==
    /\ job.pc = "rewrap" /\ DOMAIN job.held # {}
    /\ IF job.left = 0
       THEN job' = [job EXCEPT !.pc = "count"] /\ UNCHANGED keys
       ELSE \E s \in DOMAIN job.held :
              LET e == job.held[s]
                  rest == [t \in DOMAIN job.held \ {s} |-> job.held[t]]
                  new == Wrapped(e, job.from, job.to)
              IN IF e = Shredded \/ Top(e) = job.to
                 THEN job' = [job EXCEPT !.held = rest] /\ UNCHANGED keys
                 ELSE IF new = Fails
                 THEN job' = RestingJob /\ UNCHANGED keys
                 ELSE IF keys[s] = Shredded
                 THEN job' = [job EXCEPT !.held = rest] /\ UNCHANGED keys
                 ELSE /\ keys' = [keys EXCEPT ![s] = new]
                      /\ job' = [job EXCEPT !.held = rest, !.left = @ - 1]
    /\ UNCHANGED <<primary, aliases, rows, proc, claim, opens, jobs>>

\* Mutant of Remaining: keys that are not wrapped.
RemainingRaw(to) == {s \in Active : keys[s] = <<>>}

\* _remaining_rewrap_count: of the keys as they are now.
Remaining(to) == {s \in Active : Top(keys[s]) # to}

Report ==
    /\ \/ job.pc = "count"
       \/ job.pc = "rewrap" /\ DOMAIN job.held = {}
    /\ claim' = IF Remaining(job.to) = {} /\ job.pc # "count"
                THEN Kept(job.to, Opened) ELSE claim
    /\ job' = RestingJob
    /\ UNCHANGED <<keys, primary, aliases, rows, proc, opens, jobs>>

JobDies ==
    /\ job.pc # "none"
    /\ job' = RestingJob
    /\ UNCHANGED <<keys, primary, aliases, rows, proc, claim, opens, jobs>>

\* prove_crypto_erase_store, told that the root is gone: no raw key is active.
Prove ==
    /\ \A s \in Active : keys[s] # <<>>
    /\ claim' = Kept(Erased, Opened)
    /\ UNCHANGED <<keys, primary, aliases, rows, proc, job, opens, jobs>>

Next ==
    \/ \E p \in Procs :
         \/ \E c \in Custody : Open(p, c)
         \/ \E s \in Subjects : Read(p, s) \/ \E a \in Principals : Remember(p, s, a)
         \/ Close(p) \/ Register(p) \/ ReadKey(p) \/ CreateKey(p) \/ Migrate(p) \/ Insert(p)
    \/ \E s \in Subjects : Forget(s)
    \/ \E from \in Custody, to \in Roots, limit \in 0..Cardinality(Subjects) :
         StartJob(from, to, limit)
    \/ RegisterAliases \/ ListKeys \/ Rewrap \/ Report \/ JobDies \/ Prove

Spec == Init /\ [][Next]_vars

(***************************************************************************)
(* Properties.                                                             *)
(***************************************************************************)
\* Every row's signature verifies: its public key stays among its author's, whatever
\* roots the processes were opened with and whatever rotations ran or died.
SignaturesSurvive == \A r \in rows : r.pub \in Registered(r.by)

\* After a report of a complete rewrap every active key stays wrapped by its root, if
\* only processes under that root have run since the report, those open then included:
\* no lazy migration or creation that was under way slips by.
CompleteMeansRewrapped == claim \in Roots => \A s \in Active : Top(keys[s]) = claim

\* After an erase proof no raw key is active while no process without custody runs.
ProofStands == claim = Erased => \A s \in Active : keys[s] # <<>>

\* Every row is encrypted with the key that every writer of its subject encrypts with.
EncryptedWithKey == \A r \in rows : r.key = "dek"
================================================================================
