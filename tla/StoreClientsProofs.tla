--------------------------- MODULE StoreClientsProofs ---------------------------
(***************************************************************************)
(* Proofs about what writes to a store through the client: KeyRotation,    *)
(* which MCStoreClients extends, then MemoryFiles, GeneratedMemory and     *)
(* MarkdownImport, which it instances.  For any processes, subjects,       *)
(* principals and custody roots, signatures keep verifying and what a      *)
(* rewrap's report and an erase proof claim stays true; for any backends   *)
(* and files, a command alone settles its files; for any workers and       *)
(* records, an erasure reaches what was generated from what it erases; for *)
(* any importers, files, bodies and chunks, no file that was imported is   *)
(* without rows, and what an update import covers is up to date.           *)
(***************************************************************************)
EXTENDS MCStoreClients, TLAPS, WellFoundedInduction

Working == {"register", "key", "create", "migrate", "insert"}

\* A process's signing keys are registered, and so is the one its write signs with from
\* the time it has registered it.
ProcOK(c) ==
    /\ c.pc \in Working \cup {"closed", "idle"}
    /\ c.pc # "closed" =>
        /\ c.custody \in Custody /\ c.born \in 1..MaxOpens
        /\ c.mine \in [Principals -> Publics \cup {None}]
        /\ \A a \in Principals : c.mine[a] # None => c.mine[a] \in Registered(a)
    /\ c.pc \in Working =>
        /\ c = [pc |-> c.pc, custody |-> c.custody, mine |-> c.mine, born |-> c.born,
                subject |-> c.subject, by |-> c.by, writes |-> c.writes, pub |-> c.pub,
                saw |-> c.saw, key |-> c.key]
        /\ c.subject \in Subjects /\ c.by \in Principals /\ c.writes \in BOOLEAN
    /\ c.pc = "register" => c.pub \in Publics /\ c.saw \subseteq Registered(c.by)
    /\ c.pc \in Working \ {"register"} /\ c.writes => c.pub \in Registered(c.by)
    /\ c.pc = "insert" => c.writes
    /\ c.pc = "migrate" => c.custody \in Roots

JobOK ==
    /\ job.pc \in {"none", "alias", "list", "rewrap", "count"}
    /\ job.pc # "none" =>
        /\ job = [pc |-> job.pc, from |-> job.from, to |-> job.to, left |-> job.left,
                  authors |-> job.authors, held |-> job.held]
        /\ job.from \in Custody /\ job.to \in Roots
    /\ job.pc \in {"rewrap", "count"} =>
        /\ DOMAIN job.held \subseteq Subjects
        /\ \A s \in DOMAIN job.held : job.held[s] \in Seq(Roots) \cup {Shredded}

KeysOK ==
    /\ keys \in [Subjects -> Seq(Roots) \cup {None, Shredded}]
    /\ primary = [a \in Principals |-> primary[a]]
    /\ proc = [p \in Procs |-> proc[p]]
    /\ opens \in Nat

\* The inductive invariant of the signing keys.
SignInv ==
    /\ KeysOK /\ JobOK
    /\ \A p \in Procs : ProcOK(proc[p])
    /\ \A r \in rows : r.by \in Principals
    /\ SignaturesSurvive

\* No step takes a key from a principal: what was registered stays registered.
LEMMA RegisteredGrows ==
    ASSUME KeysOK, [Next]_vars, NEW a \in Principals
    PROVE  Registered(a) \subseteq Registered(a)'
<1>1. CASE UNCHANGED <<primary, aliases>>
  BY <1>1 DEF Registered
<1>2. ASSUME NEW p \in Procs, Register(p) PROVE Registered(a) \subseteq Registered(a)'
  <2>1. CASE UNCHANGED <<primary, aliases>>
    BY <1>1, <2>1
  <2>2. CASE Enrol(proc[p].by, proc[p].pub, proc[p].saw)
    <3>1. aliases \subseteq aliases'
      BY <2>2 DEF Enrol
    <3>2. primary'[a] = primary[a] \/ primary[a] = None
      BY <2>2 DEF Enrol, KeysOK
    <3> QED
      BY <3>1, <3>2 DEF Registered
  <2> QED
    BY <1>2, <2>1, <2>2 DEF Register
<1>3. CASE RegisterAliases
  <2>1. aliases \subseteq aliases' /\ UNCHANGED primary
    BY <1>3 DEF RegisterAliases
  <2> QED
    BY <2>1 DEF Registered
<1> QED
  BY <1>1, <1>2, <1>3
     DEF Next, vars, Open, Remember, Read, Close, ReadKey, CreateKey, Migrate, Insert, Forget,
         StartJob, ListKeys, Rewrap, Report, JobDies, Prove

\* So a process that does nothing keeps what it has registered.
LEMMA ProcStays ==
    ASSUME KeysOK, [Next]_vars, NEW c, ProcOK(c)
    PROVE  ProcOK(c)'
BY RegisteredGrows DEF ProcOK, Working

\* The steps of one process.
LEMMA ProcChange ==
    ASSUME SignInv, [Next]_vars, NEW p \in Procs, NEW c, proc' = [proc EXCEPT ![p] = c],
           ProcOK(c)'
    PROVE  \A q \in Procs : ProcOK(proc[q])'
<1> SUFFICES ASSUME NEW q \in Procs PROVE ProcOK(proc[q])'
  OBVIOUS
<1>1. PICK d : d = proc'[q]
  OBVIOUS
<1>2. ProcOK(d)'
  <2>1. CASE q = p
    <3>1. d = c
      BY <1>1, <2>1 DEF SignInv, KeysOK
    <3> QED
      BY <3>1
  <2>2. CASE q # p
    <3>1. d = proc[q]
      BY <1>1, <2>2 DEF SignInv, KeysOK
    <3>2. ProcOK(d)
      BY <3>1 DEF SignInv
    <3> QED
      BY <3>2, ProcStays DEF SignInv
  <2> QED
    BY <2>1, <2>2
<1> QED
  BY <1>1, <1>2 DEF ProcOK

(***************************************************************************)
(* Envelopes.                                                              *)
(***************************************************************************)
\* A root's envelope is opened by that root.
LEMMA WrapByRoot ==
    ASSUME NEW c \in Roots, NEW e \in Seq(Roots), Wrap(c, e) # Fails
    PROVE  Wrap(c, e) \in Seq(Roots) /\ Wrap(c, e) # <<>> /\ Top(Wrap(c, e)) = c
<1>1. Wrap(c, e) = Append(e, c)
  BY RotationAssumptions DEF Wrap
<1>2. Append(e, c) \in Seq(Roots) /\ Len(Append(e, c)) = Len(e) + 1
      /\ Append(e, c)[Len(e) + 1] = c
  OBVIOUS
<1>3. Append(e, c) # <<>>
  BY <1>2
<1> QED
  BY <1>1, <1>2, <1>3 DEF Top

\* What unwrapping gives back is an envelope, or the key itself.
LEMMA UnwrapsToKey ==
    ASSUME NEW c, NEW e \in Seq(Roots), Unwrap(c, e) # Fails
    PROVE  Unwrap(c, e) \in Seq(Roots)
BY DEF Unwrap

\* A key that is created is wrapped by its process's custody.
LEMMA Created ==
    ASSUME NEW c \in Custody
    PROVE  /\ Wrap(c, <<>>) \in Seq(Roots)
           /\ c # Raw => Wrap(c, <<>>) # <<>> /\ Top(Wrap(c, <<>>)) = c
<1>1. <<>> \in Seq(Roots)
  OBVIOUS
<1>2. CASE c = Raw
  BY <1>1, <1>2 DEF Wrap
<1>3. CASE c # Raw
  <2>1. Wrap(c, <<>>) = Append(<<>>, c) /\ c \in Roots
    BY <1>3 DEF Wrap, Custody
  <2>2. Append(<<>>, c) \in Seq(Roots) /\ Len(Append(<<>>, c)) = 1 /\ Append(<<>>, c)[1] = c
    BY <2>1
  <2>3. Append(<<>>, c) # <<>>
    BY <2>2
  <2> QED
    BY <2>1, <2>2, <2>3 DEF Top
<1> QED
  BY <1>2, <1>3

\* What a rotation writes back.
LEMMA Rewrapped ==
    ASSUME JobOK, job.pc = "rewrap", NEW s \in DOMAIN job.held, job.held[s] # Shredded,
           Wrapped(job.held[s], job.from, job.to) # Fails
    PROVE  /\ Wrapped(job.held[s], job.from, job.to) \in Seq(Roots)
           /\ Wrapped(job.held[s], job.from, job.to) # <<>>
           /\ Top(Wrapped(job.held[s], job.from, job.to)) = job.to
<1>1. job.held[s] \in Seq(Roots) /\ job.to \in Roots
  BY DEF JobOK
<1>2. Unwrap(job.from, job.held[s]) # Fails
  BY DEF Wrapped
<1>3. Unwrap(job.from, job.held[s]) \in Seq(Roots)
  BY <1>1, <1>2, UnwrapsToKey
<1>4. Wrapped(job.held[s], job.from, job.to) = Wrap(job.to, Unwrap(job.from, job.held[s]))
  BY <1>2 DEF Wrapped
<1> QED
  BY <1>1, <1>3, <1>4, WrapByRoot

(***************************************************************************)
(* The steps.                                                              *)
(***************************************************************************)
LEMMA KeysStep == SignInv /\ [Next]_vars => KeysOK'
<1> SUFFICES ASSUME SignInv, [Next]_vars PROVE KeysOK'
  OBVIOUS
<1> USE DEF SignInv
<1>a. primary' = [a \in Principals |-> primary'[a]]
  BY DEF KeysOK, Next, vars, Open, Remember, Read, Close, Register, Enrol, ReadKey, CreateKey,
         Migrate, Insert, Forget, StartJob, RegisterAliases, ListKeys, Rewrap, Report, JobDies,
         Prove
<1>b. proc' = [p \in Procs |-> proc'[p]]
  <2>1. \A p, c : proc' = [proc EXCEPT ![p] = c] => proc' = [q \in Procs |-> proc'[q]]
    BY DEF KeysOK
  <2>2. CASE UNCHANGED proc
    BY <2>2 DEF KeysOK
  <2>3. ASSUME NEW p \in Procs,
               \/ \E c \in Custody : Open(p, c)
               \/ Close(p) \/ Register(p) \/ ReadKey(p) \/ CreateKey(p) \/ Migrate(p) \/ Insert(p)
        PROVE  proc' = [q \in Procs |-> proc'[q]]
    BY <2>1, <2>2, <2>3 DEF Open, Close, Register, ReadKey, CreateKey, Migrate, Insert
  <2>4. ASSUME NEW p \in Procs, NEW s \in Subjects,
               Read(p, s) \/ \E a \in Principals : Remember(p, s, a)
        PROVE  proc' = [q \in Procs |-> proc'[q]]
    BY <2>1, <2>2, <2>4 DEF Read, Remember
  <2> QED
    BY <2>2, <2>3, <2>4 DEF Next, vars, Forget, StartJob, RegisterAliases, ListKeys, Rewrap,
       Report, JobDies, Prove
<1>c. opens' \in Nat
  <2>1. opens' = opens \/ opens' = opens + 1
    BY DEF Next, vars, Open, Remember, Read, Close, Register, ReadKey, CreateKey, Migrate,
           Insert, Forget, StartJob, RegisterAliases, ListKeys, Rewrap, Report, JobDies, Prove
  <2> QED
    BY <2>1 DEF KeysOK
<1>0. /\ primary' = [a \in Principals |-> primary'[a]]
      /\ proc' = [p \in Procs |-> proc'[p]] /\ opens' \in Nat
  BY <1>a, <1>b, <1>c
<1>1. ASSUME NEW p \in Procs, CreateKey(p) PROVE KeysOK'
  <2>1. proc[p].subject \in Subjects /\ proc[p].custody \in Custody
    BY <1>1 DEF CreateKey, ProcOK, Working
  <2> QED
    BY <1>0, <1>1, <2>1, Created DEF CreateKey, KeysOK
<1>2. ASSUME NEW p \in Procs, Migrate(p) PROVE KeysOK'
  <2>1. proc[p].subject \in Subjects /\ proc[p].custody \in Roots
    BY <1>2 DEF Migrate, ProcOK, Working
  <2>2. <<proc[p].custody>> \in Seq(Roots)
    BY <2>1
  <2> QED
    BY <1>0, <1>2, <2>1, <2>2 DEF Migrate, KeysOK
<1>3. ASSUME NEW s \in Subjects, Forget(s) PROVE KeysOK'
  BY <1>0, <1>3 DEF Forget, KeysOK
<1>4. CASE Rewrap
  <2>1. CASE UNCHANGED keys
    BY <1>0, <2>1 DEF KeysOK
  <2>2. CASE keys' # keys
    <3>1. PICK s \in DOMAIN job.held :
            /\ job.held[s] # Shredded
            /\ Wrapped(job.held[s], job.from, job.to) # Fails
            /\ keys' = [keys EXCEPT ![s] = Wrapped(job.held[s], job.from, job.to)]
      BY <1>4, <2>2 DEF Rewrap
    <3>2. s \in Subjects /\ job.pc = "rewrap"
      BY <1>4 DEF Rewrap, JobOK
    <3> QED
      BY <1>0, <3>1, <3>2, Rewrapped DEF KeysOK
  <2> QED
    BY <2>1, <2>2
<1>5. CASE UNCHANGED keys
  BY <1>0, <1>5 DEF KeysOK
<1> QED
  BY <1>1, <1>2, <1>3, <1>4, <1>5
     DEF Next, vars, Open, Remember, Read, Close, Register, ReadKey, Insert,
         StartJob, RegisterAliases, ListKeys, Report, JobDies, Prove

\* A rewrap under way keeps its fields, and the envelopes it holds are envelopes.
LEMMA JobStep == SignInv /\ [Next]_vars => JobOK'
<1> SUFFICES ASSUME SignInv, [Next]_vars PROVE JobOK'
  OBVIOUS
<1> USE DEF SignInv
<1>1. ASSUME NEW from \in Custody, NEW to \in Roots, NEW limit, StartJob(from, to, limit)
      PROVE  JobOK'
  BY <1>1 DEF StartJob, JobOK
<1>2. CASE RegisterAliases
  <2>1. /\ job.pc = "alias" /\ job'.pc \in {"alias", "list"}
        /\ job'.from = job.from /\ job'.to = job.to
    BY <1>2 DEF RegisterAliases, JobOK
  <2>2. job' = [pc |-> job'.pc, from |-> job'.from, to |-> job'.to, left |-> job'.left,
                authors |-> job'.authors, held |-> job'.held]
    BY <1>2 DEF RegisterAliases, JobOK
  <2> QED
    BY <2>1, <2>2 DEF JobOK
<1>3. CASE ListKeys
  BY <1>3 DEF ListKeys, JobOK, KeysOK
<1>4. CASE Rewrap
  <2>1. job.pc = "rewrap"
    BY <1>4 DEF Rewrap
  <2>2. CASE job' = RestingJob
    BY <2>2 DEF JobOK, RestingJob
  <2>3. CASE job' = [job EXCEPT !.pc = "count"]
    <3>1. job'.pc = "count" \/ job'.pc = "rewrap"
      BY <2>1, <2>3
    <3>2. job'.from = job.from /\ job'.to = job.to /\ job'.held = job.held
      BY <2>3
    <3>3. job' = [pc |-> job'.pc, from |-> job'.from, to |-> job'.to, left |-> job'.left,
                  authors |-> job'.authors, held |-> job'.held]
      BY <2>1, <2>3 DEF JobOK
    <3> QED
      BY <2>1, <3>1, <3>2, <3>3 DEF JobOK
  <2>4. ASSUME NEW s \in DOMAIN job.held, NEW left,
               \/ job' = [job EXCEPT !.held = [t \in DOMAIN job.held \ {s} |-> job.held[t]]]
               \/ job' = [job EXCEPT !.held = [t \in DOMAIN job.held \ {s} |-> job.held[t]],
                                     !.left = left]
        PROVE  JobOK'
    <3>1. job'.pc = job.pc /\ job'.from = job.from /\ job'.to = job.to
      BY <2>1, <2>4 DEF JobOK
    <3>2. \/ job'.held = [t \in DOMAIN job.held \ {s} |-> job.held[t]]
          \/ job'.held = job.held
      BY <2>1, <2>4 DEF JobOK
    <3>3. job' = [pc |-> job'.pc, from |-> job'.from, to |-> job'.to, left |-> job'.left,
                  authors |-> job'.authors, held |-> job'.held]
      BY <2>1, <2>4 DEF JobOK
    <3> QED
      BY <2>1, <3>1, <3>2, <3>3 DEF JobOK
  <2> QED
    BY <1>4, <2>2, <2>3, <2>4 DEF Rewrap
<1>5. CASE job' = RestingJob
  BY <1>5 DEF JobOK, RestingJob
<1>6. CASE UNCHANGED job
  BY <1>6 DEF JobOK
<1> QED
  BY <1>1, <1>2, <1>3, <1>4, <1>5, <1>6
     DEF Next, vars, Open, Remember, Read, Close, Register, ReadKey, CreateKey, Migrate,
         Insert, Forget, Report, JobDies, Prove

\* A call that ends, and one that has got its key.
LEMMA FreshOK ==
    ASSUME NEW p, ProcOK(proc[p]), proc[p].pc # "closed"
    PROVE  ProcOK(Fresh(p))
BY DEF ProcOK, Fresh, Working

LEMMA SettledOK ==
    ASSUME NEW p, NEW e, ProcOK(proc[p]), proc[p].pc \in {"key", "create"}
    PROVE  ProcOK(Settled(p, e))
<1> DEFINE c == proc[p]
           migrate == [c EXCEPT !.pc = "migrate"]
<1>0. PICK k : k = Used(Unwrap(c.custody, e))
  OBVIOUS
<1> DEFINE insert == [c EXCEPT !.pc = "insert", !.key = k]
<1>1. ProcOK(Fresh(p))
  BY FreshOK
<1>2. ASSUME c.custody # Raw PROVE ProcOK(migrate)
  <2>1. /\ migrate.pc = "migrate" /\ migrate.custody = c.custody /\ migrate.mine = c.mine
        /\ migrate.born = c.born /\ migrate.subject = c.subject /\ migrate.by = c.by
        /\ migrate.writes = c.writes /\ migrate.pub = c.pub
        /\ migrate = [pc |-> migrate.pc, custody |-> migrate.custody, mine |-> migrate.mine,
                born |-> migrate.born, subject |-> migrate.subject, by |-> migrate.by,
                writes |-> migrate.writes, pub |-> migrate.pub, saw |-> migrate.saw,
                key |-> migrate.key]
    BY DEF ProcOK, Working
  <2> HIDE DEF migrate
  <2> QED
    BY <1>2, <2>1 DEF ProcOK, Working, Custody
<1>3. ASSUME c.writes PROVE ProcOK(insert)
  <2>1. c = [pc |-> c.pc, custody |-> c.custody, mine |-> c.mine, born |-> c.born,
             subject |-> c.subject, by |-> c.by, writes |-> c.writes, pub |-> c.pub,
             saw |-> c.saw, key |-> c.key]
    BY DEF ProcOK, Working
  <2>2. PICK d : d = insert
    OBVIOUS
  <2>3. /\ d.pc = "insert" /\ d.custody = c.custody /\ d.mine = c.mine /\ d.born = c.born
        /\ d.subject = c.subject /\ d.by = c.by /\ d.writes = c.writes /\ d.pub = c.pub
    BY <2>1, <2>2
  <2>4. d = [pc |-> d.pc, custody |-> d.custody, mine |-> d.mine, born |-> d.born,
             subject |-> d.subject, by |-> d.by, writes |-> d.writes, pub |-> d.pub,
             saw |-> d.saw, key |-> d.key]
    BY <2>1, <2>2
  <2>5. ProcOK(d)
    BY <1>3, <2>3, <2>4 DEF ProcOK, Working
  <2> QED
    BY <2>2, <2>5
<1> QED
  BY <1>0, <1>1, <1>2, <1>3 DEF Settled

\* A step of a process that leaves the registered keys alone.
LEMMA OwnStep ==
    ASSUME SignInv, [Next]_vars, NEW p \in Procs, NEW c, ProcOK(c),
           proc' = [proc EXCEPT ![p] = c]
    PROVE  \A q \in Procs : ProcOK(proc[q])'
BY ProcStays, ProcChange DEF SignInv

\* Every step leaves every process with registered keys.
LEMMA ProcsStep == SignInv /\ [Next]_vars => \A p \in Procs : ProcOK(proc[p])'
<1> SUFFICES ASSUME SignInv, [Next]_vars PROVE \A p \in Procs : ProcOK(proc[p])'
  OBVIOUS
<1> DEFINE Goal == \A p \in Procs : ProcOK(proc[p])'
<1>a. \A p \in Procs : ProcOK(proc[p])
  BY DEF SignInv
<1>b. ASSUME NEW p \in Procs, NEW c, ProcOK(c), proc' = [proc EXCEPT ![p] = c] PROVE Goal
  BY <1>b, OwnStep
<1>c. ASSUME UNCHANGED proc PROVE Goal
  <2>1. \A q \in Procs : ProcOK(proc[q])'
    <3> SUFFICES ASSUME NEW q \in Procs PROVE ProcOK(proc[q])'
      OBVIOUS
    <3>1. PICK d : d = proc[q]
      OBVIOUS
    <3>2. ProcOK(d)'
      BY <1>a, <3>1, ProcStays DEF SignInv
    <3> QED
      BY <1>c, <3>1, <3>2 DEF ProcOK
  <2> QED
    BY <2>1
<1>d. ASSUME NEW p \in Procs, proc[p].pc # "closed", proc' = [proc EXCEPT ![p] = Fresh(p)]
      PROVE  Goal
  <2>1. PICK c : c = Fresh(p)
    OBVIOUS
  <2> QED
    BY <1>a, <1>b, <1>d, <2>1, FreshOK
<1>1. ASSUME NEW p \in Procs, NEW custody \in Custody, Open(p, custody) PROVE Goal
  <2>1. opens \in Nat /\ opens < MaxOpens /\ opens + 1 \in 1..MaxOpens
    BY <1>1, RotationAssumptions DEF Open, SignInv, KeysOK
  <2>2. PICK c : c = [pc |-> "idle", custody |-> custody, born |-> opens + 1,
                      mine |-> [a \in Principals |-> None]]
    OBVIOUS
  <2>3. ProcOK(c)
    BY <2>1, <2>2 DEF ProcOK, Working
  <2> QED
    BY <1>1, <1>b, <2>2, <2>3 DEF Open
<1>2. ASSUME NEW p \in Procs, Close(p) PROVE Goal
  <2>1. ProcOK(Closed)
    BY DEF ProcOK, Closed, Working
  <2> QED
    BY <1>2, <1>b, <2>1 DEF Close, Closed
<1>3. ASSUME NEW p \in Procs, NEW s \in Subjects, NEW a \in Principals,
             Remember(p, s, a) \/ Read(p, s)
      PROVE  Goal
  <2>1. /\ proc[p].custody \in Custody /\ proc[p].born \in 1..MaxOpens
        /\ proc[p].mine \in [Principals -> Publics \cup {None}]
        /\ \A x \in Principals : proc[p].mine[x] # None => proc[p].mine[x] \in Registered(x)
    BY <1>3, <1>a DEF Remember, Read, ProcOK
  <2>2. ASSUME NEW pc \in {"register", "key"}, NEW b \in Principals,
               NEW writes \in BOOLEAN, NEW pub, NEW saw,
               pc = "register" => pub \in Publics /\ saw \subseteq Registered(b),
               pc = "key" /\ writes => pub \in Registered(b),
               proc' = [proc EXCEPT ![p] = Call(p, pc, s, b, writes, pub, saw)]
        PROVE  Goal
    <3>1. PICK c : c = Call(p, pc, s, b, writes, pub, saw)
      OBVIOUS
    <3>2. ProcOK(c)
      BY <2>1, <2>2, <3>1 DEF ProcOK, Call, Working
    <3> QED
      BY <1>b, <2>2, <3>1, <3>2
  <2>3. CASE Remember(p, s, a)
    <3>1. CASE /\ proc[p].custody # Raw
               /\ proc' = [proc EXCEPT ![p] = Call(p, "register", s, a, TRUE, proc[p].custody,
                                                   Registered(a))]
      <4>1. proc[p].custody \in Publics
        BY <2>1, <3>1 DEF Custody, Publics
      <4> QED
        BY <2>2, <3>1, <4>1
    <3>2. CASE /\ proc[p].mine[a] # None
               /\ proc' = [proc EXCEPT ![p] = Call(p, "key", s, a, TRUE, proc[p].mine[a], {})]
      BY <2>1, <2>2, <3>2
    <3>3. CASE proc' = [proc EXCEPT ![p] = Call(p, "register", s, a, TRUE, proc[p].born, {})]
      <4>1. proc[p].born \in Publics
        BY <2>1 DEF Publics
      <4> QED
        BY <2>2, <3>3, <4>1
    <3> QED
      BY <2>3, <3>1, <3>2, <3>3 DEF Remember
  <2>4. CASE Read(p, s)
    <3>1. PICK x : x = CHOOSE y \in Principals : TRUE
      OBVIOUS
    <3>2. x \in Principals
      BY <3>1
    <3> QED
      BY <2>2, <2>4, <3>1, <3>2 DEF Read
  <2> QED
    BY <1>3, <2>3, <2>4
<1>4. ASSUME NEW p \in Procs, Register(p) PROVE Goal
  <2> DEFINE a == proc[p].by
             pub == proc[p].pub
             keyed == IF proc[p].custody = Raw THEN [proc[p].mine EXCEPT ![a] = pub]
                     ELSE proc[p].mine
  <2>1. /\ ProcOK(proc[p]) /\ proc[p].pc = "register" /\ a \in Principals /\ pub \in Publics
        /\ pub # None
    BY <1>4, <1>a, RotationAssumptions DEF Register, ProcOK, Working
  <2>2. CASE proc' = [proc EXCEPT ![p] = Fresh(p)]
    BY <1>d, <2>1, <2>2
  <2>3. CASE /\ Enrol(a, pub, proc[p].saw)
             /\ ~(proc[p].saw = {} /\ primary[a] \notin {None, pub})
             /\ proc' = [proc EXCEPT ![p] = [@ EXCEPT !.pc = "key", !.mine = keyed]]
    <3>0. PICK old : old = proc[p]
      OBVIOUS
    <3>1. PICK mine : mine = IF old.custody = Raw THEN [old.mine EXCEPT ![old.by] = old.pub]
                             ELSE old.mine
      OBVIOUS
    <3>2. PICK c : c = [proc[p] EXCEPT !.pc = "key", !.mine = keyed]
      OBVIOUS
    <3>3. /\ old = [pc |-> old.pc, custody |-> old.custody, mine |-> old.mine,
                    born |-> old.born, subject |-> old.subject, by |-> old.by,
                    writes |-> old.writes, pub |-> old.pub, saw |-> old.saw, key |-> old.key]
          /\ ProcOK(old) /\ old.by = a /\ old.pub = pub /\ old.pc = "register"
      BY <2>1, <3>0 DEF ProcOK, Working
    <3>4. /\ c.pc = "key" /\ c.custody = old.custody /\ c.mine = mine
          /\ c.born = old.born /\ c.subject = old.subject /\ c.by = old.by
          /\ c.writes = old.writes /\ c.pub = old.pub
      BY <3>0, <3>1, <3>2, <3>3
    <3>5. c = [pc |-> c.pc, custody |-> c.custody, mine |-> c.mine, born |-> c.born,
               subject |-> c.subject, by |-> c.by, writes |-> c.writes, pub |-> c.pub,
               saw |-> c.saw, key |-> c.key]
      BY <3>0, <3>2, <3>3
    <3>6. proc' = [proc EXCEPT ![p] = c]
      BY <2>3, <3>2
    <3>7. \A x \in Principals : Registered(x) \subseteq Registered(x)'
      BY RegisteredGrows DEF SignInv
    <3>8. old.pub \in Registered(old.by)'
      <4>1. CASE proc[p].saw = {}
        <5>1. primary'[a] = pub
          BY <2>1, <2>3, <4>1 DEF Enrol, SignInv, KeysOK
        <5>2. primary'[old.by] = old.pub /\ old.pub # None
          BY <2>1, <3>3, <5>1
        <5> QED
          BY <5>2 DEF Registered
      <4>2. CASE proc[p].saw # {} /\ pub \notin proc[p].saw
        <5>1. <<old.by, old.pub>> \in aliases'
          BY <2>3, <3>3, <4>2 DEF Enrol
        <5> QED
          BY <5>1 DEF Registered
      <4>3. CASE pub \in proc[p].saw
        <5>1. old.pub \in Registered(old.by) /\ old.by \in Principals
          BY <3>0, <3>3, <4>3, <2>1 DEF ProcOK
        <5> QED
          BY <3>7, <5>1
      <4> QED
        BY <4>1, <4>2, <4>3
    <3>9. ProcOK(old)'
      BY <3>3, ProcStays DEF SignInv
    <3>10. mine \in [Principals -> Publics \cup {None}]
      BY <2>1, <3>1, <3>3 DEF ProcOK
    <3>11. (\A x \in Principals : mine[x] # None => mine[x] \in Registered(x))'
      BY <2>1, <3>1, <3>3, <3>8, <3>9 DEF ProcOK
    <3>12. ProcOK(c)'
      BY <2>1, <3>3, <3>4, <3>5, <3>8, <3>9, <3>10, <3>11 DEF ProcOK, Working
    <3> QED
      BY <3>6, <3>12, ProcChange
  <2> QED
    BY <1>4, <2>2, <2>3 DEF Register
<1>5. ASSUME NEW p \in Procs, ReadKey(p) \/ CreateKey(p) PROVE Goal
  <2>1. proc[p].pc \in {"key", "create"} /\ ProcOK(proc[p])
    BY <1>5, <1>a DEF ReadKey, CreateKey
  <2>2. ASSUME NEW e, proc' = [proc EXCEPT ![p] = Settled(p, e)] PROVE Goal
    <3>1. PICK c : c = Settled(p, e)
      OBVIOUS
    <3> QED
      BY <2>1, <2>2, <1>b, <3>1, SettledOK
  <2>3. CASE proc' = [proc EXCEPT ![p] = [@ EXCEPT !.pc = "create"]] /\ proc[p].pc = "key"
    <3>1. PICK c : c = [proc[p] EXCEPT !.pc = "create"]
      OBVIOUS
    <3>2. /\ c.pc = "create" /\ c.custody = proc[p].custody /\ c.mine = proc[p].mine
          /\ c.born = proc[p].born /\ c.subject = proc[p].subject /\ c.by = proc[p].by
          /\ c.writes = proc[p].writes /\ c.pub = proc[p].pub
      BY <2>1, <3>1 DEF ProcOK, Working
    <3>3. c = [pc |-> c.pc, custody |-> c.custody, mine |-> c.mine, born |-> c.born,
               subject |-> c.subject, by |-> c.by, writes |-> c.writes, pub |-> c.pub,
               saw |-> c.saw, key |-> c.key]
      BY <2>1, <3>1 DEF ProcOK, Working
    <3>4. ProcOK(c)
      BY <2>1, <2>3, <3>2, <3>3 DEF ProcOK, Working
    <3> QED
      BY <1>b, <2>3, <3>1, <3>4
  <2> QED
    BY <1>5, <2>2, <2>3 DEF ReadKey, CreateKey
<1>6. ASSUME NEW p \in Procs, Migrate(p) PROVE Goal
  <2>1. proc[p].pc = "migrate" /\ ProcOK(proc[p])
    BY <1>6, <1>a DEF Migrate
  <2>2. CASE proc' = [proc EXCEPT ![p] = Fresh(p)]
    BY <1>d, <2>1, <2>2
  <2>3. CASE /\ proc' = [proc EXCEPT ![p] = [@ EXCEPT !.pc = "insert", !.key = "dek"]]
             /\ proc[p].writes
    <3>1. PICK c : c = [proc[p] EXCEPT !.pc = "insert", !.key = "dek"]
      OBVIOUS
    <3>2. /\ c.pc = "insert" /\ c.custody = proc[p].custody /\ c.mine = proc[p].mine
          /\ c.born = proc[p].born /\ c.subject = proc[p].subject /\ c.by = proc[p].by
          /\ c.writes = proc[p].writes /\ c.pub = proc[p].pub
      BY <2>1, <3>1 DEF ProcOK, Working
    <3>3. c = [pc |-> c.pc, custody |-> c.custody, mine |-> c.mine, born |-> c.born,
               subject |-> c.subject, by |-> c.by, writes |-> c.writes, pub |-> c.pub,
               saw |-> c.saw, key |-> c.key]
      BY <2>1, <3>1 DEF ProcOK, Working
    <3>4. ProcOK(c)
      BY <2>1, <2>3, <3>2, <3>3 DEF ProcOK, Working
    <3> QED
      BY <1>b, <2>3, <3>1, <3>4
  <2> QED
    BY <1>6, <2>2, <2>3 DEF Migrate
<1>7. ASSUME NEW p \in Procs, Insert(p) PROVE Goal
  BY <1>d, <1>7 DEF Insert
<1>8. ASSUME NEW p \in Procs, NEW s \in Subjects, Read(p, s) PROVE Goal
  <2>1. \E a \in Principals : TRUE
    BY <1>8 DEF Read, SignInv
  <2> QED
    BY <1>3, <1>8, <2>1
<1> HIDE DEF Goal
<1>9. Goal
  BY <1>c, <1>1, <1>2, <1>3, <1>4, <1>5, <1>6, <1>7, <1>8
     DEF Next, vars, Forget, StartJob, RegisterAliases, ListKeys, Rewrap, Report, JobDies, Prove
<1> QED
  BY <1>9 DEF Goal

\* A row is written with a registered key, and registered keys stay.
LEMMA RowsStep ==
    SignInv /\ [Next]_vars => (\A r \in rows : r.by \in Principals)' /\ SignaturesSurvive'
<1> SUFFICES ASSUME SignInv, [Next]_vars
             PROVE  (\A r \in rows : r.by \in Principals)' /\ SignaturesSurvive'
  OBVIOUS
<1>1. \A r \in rows : r.by \in Principals /\ r.pub \in Registered(r.by)'
  BY RegisteredGrows DEF SignInv, SignaturesSurvive
<1>2. CASE rows' \subseteq rows
  BY <1>1, <1>2 DEF SignaturesSurvive
<1>3. ASSUME NEW p \in Procs, Insert(p), keys[proc[p].subject] # Shredded
      PROVE  (\A r \in rows : r.by \in Principals)' /\ SignaturesSurvive'
  <2>1. PICK r : r = [subject |-> proc[p].subject, by |-> proc[p].by, pub |-> proc[p].pub,
                      key |-> proc[p].key]
    OBVIOUS
  <2>2. r.by \in Principals /\ r.pub \in Registered(r.by)
    BY <1>3, <2>1 DEF Insert, SignInv, ProcOK, Working
  <2>3. r.pub \in Registered(r.by)'
    BY <2>2, RegisteredGrows DEF SignInv
  <2>4. rows' = rows \cup {r}
    BY <1>3, <2>1 DEF Insert
  <2> QED
    BY <1>1, <2>2, <2>3, <2>4 DEF SignaturesSurvive
<1>4. ASSUME NEW s \in Subjects, Forget(s) PROVE rows' \subseteq rows
  BY <1>4 DEF Forget
<1>5. ASSUME NEW p \in Procs, Insert(p), keys[proc[p].subject] = Shredded
      PROVE  rows' \subseteq rows
  BY <1>5 DEF Insert
<1> QED
  BY <1>2, <1>3, <1>4, <1>5
     DEF Next, vars, Open, Remember, Read, Close, Register, ReadKey, CreateKey, Migrate,
         StartJob, RegisterAliases, ListKeys, Rewrap, Report, JobDies, Prove

\* The invariant of the signing keys holds at first, and every step keeps it.
LEMMA SignInit == Init => SignInv
<1> SUFFICES ASSUME Init PROVE SignInv
  OBVIOUS
<1>1. KeysOK /\ JobOK
  BY DEF Init, KeysOK, JobOK, RestingJob
<1>2. \A p \in Procs : ProcOK(proc[p])
  BY DEF Init, ProcOK, Closed, Working
<1> QED
  BY <1>1, <1>2 DEF SignInv, Init, SignaturesSurvive

\* ... and every step keeps it: the three parts together.
LEMMA SignStep == SignInv /\ [Next]_vars => SignInv'
BY KeysStep, JobStep, ProcsStep, RowsStep DEF SignInv

\* Every row's signature verifies, whatever roots processes were opened with and whatever
\* rotations ran or died: a public key that signed a row is registered before it signs and
\* never leaves its author.
THEOREM SignaturesVerify == Spec => []SignaturesSurvive
<1>1. SignInv => SignaturesSurvive
  BY DEF SignInv
<1> QED
  BY SignInit, SignStep, <1>1, PTL DEF Spec

(***************************************************************************)
(* What the reports claim.                                                 *)
(***************************************************************************)
\* While a claim stands, every custody in use, a rotation's included, is one the claim
\* allows, so that nothing it has under way can undo it.
ClaimInv ==
    /\ claim \in Roots \cup {None, Erased}
    /\ claim \in Roots => Opened \subseteq {claim} /\ (job.pc # "none" => job.to = claim)
    /\ claim = Erased => Opened \subseteq Roots
    /\ CompleteMeansRewrapped /\ ProofStands

\* A process keeps the custody it was opened with.
LEMMA CustodyKept ==
    ASSUME SignInv, [Next]_vars, NEW p \in Procs, proc'[p].pc # "closed"
    PROVE  \/ proc[p].pc # "closed" /\ proc'[p].custody = proc[p].custody
           \/ \E c \in Custody : Open(p, c) /\ proc'[p].custody = c
<1> DEFINE Same == proc[p].pc # "closed" /\ proc'[p].custody = proc[p].custody
<1>a. proc = [q \in Procs |-> proc[q]] /\ ProcOK(proc[p])
  BY DEF SignInv, KeysOK
<1>1. ASSUME NEW q \in Procs, q # p, NEW c, proc' = [proc EXCEPT ![q] = c] PROVE Same
  BY <1>a, <1>1
<1>2. ASSUME NEW c, proc' = [proc EXCEPT ![p] = c], proc[p].pc # "closed",
             c.custody = proc[p].custody
      PROVE  Same
  BY <1>a, <1>2
<1>3. Fresh(p).custody = proc[p].custody
  BY DEF Fresh
<1>4. proc[p].pc \in Working => proc[p] = [pc |-> proc[p].pc, custody |-> proc[p].custody,
           mine |-> proc[p].mine, born |-> proc[p].born, subject |-> proc[p].subject,
           by |-> proc[p].by, writes |-> proc[p].writes, pub |-> proc[p].pub,
           saw |-> proc[p].saw, key |-> proc[p].key]
  BY <1>a DEF ProcOK
<1>5. ASSUME NEW x, NEW y, proc[p].pc \in Working
      PROVE  /\ [proc[p] EXCEPT !.pc = x].custody = proc[p].custody
             /\ [proc[p] EXCEPT !.pc = x, !.key = y].custody = proc[p].custody
             /\ [proc[p] EXCEPT !.pc = x, !.mine = y].custody = proc[p].custody
  BY <1>4, <1>5
<1>6. CASE UNCHANGED proc
  BY <1>6
<1>7. ASSUME NEW q \in Procs, NEW c \in Custody, Open(q, c)
      PROVE  Same \/ (Open(p, c) /\ proc'[p].custody = c)
  <2>1. CASE q = p
    BY <1>7, <1>a, <2>1 DEF Open
  <2>2. \E new : proc' = [proc EXCEPT ![q] = new]
    <3>1. PICK new : new = [pc |-> "idle", custody |-> c, born |-> opens + 1,
                            mine |-> [a \in Principals |-> None]]
      OBVIOUS
    <3> QED
      BY <1>7, <3>1 DEF Open
  <2>3. CASE q # p
    <3>1. PICK new : proc' = [proc EXCEPT ![q] = new]
      BY <2>2
    <3> QED
      BY <1>a, <1>7, <2>3, <3>1
  <2> QED
    BY <2>1, <2>3
<1>8. ASSUME NEW q \in Procs, Close(q) PROVE Same
  <2>1. q # p
    BY <1>8, <1>a DEF Close, Closed
  <2> QED
    BY <1>8, <1>1, <2>1 DEF Close
<1>9. ASSUME NEW q \in Procs, NEW s, NEW a, Remember(q, s, a) PROVE Same
  <2>1. CASE q = p
    BY <1>9, <1>2, <2>1 DEF Remember, Call
  <2> QED
    BY <1>9, <1>1, <2>1 DEF Remember
<1>10. ASSUME NEW q \in Procs, NEW s, Read(q, s) PROVE Same
  <2>1. CASE q = p
    BY <1>10, <1>2, <2>1 DEF Read, Call
  <2> QED
    BY <1>10, <1>1, <2>1 DEF Read
<1>11. ASSUME NEW q \in Procs, Register(q) PROVE Same
  <2>1. CASE q = p
    <3>1. proc[p].pc \in Working /\ proc[p].pc # "closed"
      BY <1>11, <2>1 DEF Register, Working
    <3>2. CASE proc' = [proc EXCEPT ![p] = Fresh(p)]
      BY <1>2, <1>3, <3>1, <3>2
    <3>3. ASSUME NEW mine, proc' = [proc EXCEPT ![p] = [@ EXCEPT !.pc = "key", !.mine = mine]]
          PROVE  Same
      <4>1. PICK c : c = [proc[p] EXCEPT !.pc = "key", !.mine = mine]
        OBVIOUS
      <4> QED
        BY <1>2, <1>5, <3>1, <3>3, <4>1
    <3> QED
      BY <1>11, <2>1, <3>2, <3>3 DEF Register
  <2> QED
    BY <1>11, <1>1, <2>1 DEF Register
<1>12. ASSUME NEW e, proc[p].pc \in Working PROVE Settled(p, e).custody = proc[p].custody
  BY <1>3, <1>5, <1>12 DEF Settled
<1>13. ASSUME NEW q \in Procs, ReadKey(q) \/ CreateKey(q) \/ Migrate(q) \/ Insert(q)
       PROVE  Same
  <2>1. CASE q = p
    <3>1. proc[p].pc \in Working
      BY <1>13, <2>1 DEF ReadKey, CreateKey, Migrate, Insert, Working
    <3>2. CASE ReadKey(p)
      BY <1>2, <1>5, <1>12, <3>1, <3>2 DEF ReadKey
    <3>3. CASE CreateKey(p)
      BY <1>2, <1>12, <3>1, <3>3 DEF CreateKey
    <3>4. CASE Migrate(p)
      <4>1. CASE proc' = [proc EXCEPT ![p] = Fresh(p)]
        BY <1>2, <1>3, <3>4, <4>1 DEF Migrate
      <4>2. CASE proc' = [proc EXCEPT ![p] = [@ EXCEPT !.pc = "insert", !.key = "dek"]]
        <5>1. PICK c : c = [proc[p] EXCEPT !.pc = "insert", !.key = "dek"]
          OBVIOUS
        <5> QED
          BY <1>2, <1>5, <3>1, <3>4, <4>2, <5>1 DEF Migrate
      <4> QED
        BY <3>4, <4>1, <4>2 DEF Migrate
    <3>5. CASE Insert(p)
      BY <1>2, <1>3, <3>5 DEF Insert
    <3> QED
      BY <1>13, <2>1, <3>2, <3>3, <3>4, <3>5
  <2> QED
    BY <1>13, <1>1, <2>1 DEF ReadKey, CreateKey, Migrate, Insert
<1> QED
  BY <1>6, <1>7, <1>8, <1>9, <1>10, <1>11, <1>13
     DEF Next, vars, Forget, StartJob, RegisterAliases, ListKeys, Rewrap, Report, JobDies, Prove

\* Only an open brings a custody into use.
LEMMA OpenedSteps ==
    ASSUME SignInv, [Next]_vars
    PROVE  \/ Opened' \subseteq Opened
           \/ \E p \in Procs, c \in Custody : Open(p, c) /\ Opened' \subseteq Opened \cup {c}
<1>1. CASE \E p \in Procs, c \in Custody : Open(p, c)
  <2>1. PICK p \in Procs, c \in Custody : Open(p, c)
    BY <1>1
  <2>2. proc = [q \in Procs |-> proc[q]] /\ opens \in Nat
    BY DEF SignInv, KeysOK
  <2>3. \E new : proc' = [proc EXCEPT ![p] = new] /\ new.custody = c
    <3>1. PICK new : new = [pc |-> "idle", custody |-> c, born |-> opens + 1,
                            mine |-> [a \in Principals |-> None]]
      OBVIOUS
    <3>2. new.custody = c
      BY <3>1
    <3> QED
      BY <2>1, <3>1, <3>2 DEF Open
  <2>4. \A q \in Procs : q # p => proc'[q] = proc[q]
    BY <2>2, <2>3
  <2>5. proc'[p].custody = c
    BY <2>2, <2>3
  <2>6. Opened' \subseteq Opened \cup {c}
    BY <2>4, <2>5 DEF Opened
  <2> QED
    BY <2>1, <2>6
<1>2. CASE ~\E p \in Procs, c \in Custody : Open(p, c)
  <2>1. \A p \in Procs : proc'[p].pc # "closed" =>
            proc[p].pc # "closed" /\ proc'[p].custody = proc[p].custody
    BY <1>2, CustodyKept
  <2>2. Opened' \subseteq Opened
    BY <2>1 DEF Opened
  <2> QED
    BY <2>2
<1> QED
  BY <1>1, <1>2

\* A claim is kept or dropped.
LEMMA KeptEither == \A wanted, used : Kept(wanted, used) \in {wanted, None}
BY DEF Kept

\* How a step changes the claim, in terms of the custody it brings into use.
LEMMA ClaimSteps ==
    ASSUME SignInv, ClaimInv, [Next]_vars
    PROVE  /\ claim' \in Roots \cup {None, Erased}
           /\ claim' \in Roots => Opened' \subseteq {claim'} /\ (job'.pc # "none" => job'.to = claim')
           /\ claim' = Erased => Opened' \subseteq Roots
<1> DEFINE Goal == /\ claim' \in Roots \cup {None, Erased}
                   /\ claim' \in Roots =>
                        Opened' \subseteq {claim'} /\ (job'.pc # "none" => job'.to = claim')
                   /\ claim' = Erased => Opened' \subseteq Roots
<1>a. Erased \notin Roots /\ None \notin Roots /\ Erased # None
  BY RotationAssumptions DEF Publics
<1>1. ASSUME NEW p \in Procs, NEW c \in Custody, Open(p, c), Opened' \subseteq Opened \cup {c}
      PROVE  Goal
  <2>1. claim' = Kept(claim, {c}) /\ job' = job
    BY <1>1 DEF Open, Using
  <2> QED
    BY <1>1, <1>a, <2>1 DEF ClaimInv, Kept
<1>2. CASE Opened' \subseteq Opened
  <2>1. ASSUME NEW from \in Custody, NEW to \in Roots, NEW limit, StartJob(from, to, limit)
        PROVE  Goal
    <3>1. claim' = Kept(claim, {to}) /\ job'.to = to
      BY <2>1 DEF StartJob, Using
    <3> QED
      BY <1>2, <1>a, <3>1 DEF ClaimInv, Kept
  <2>2. CASE Report
    <3>1. job'.pc = "none"
      BY <2>2 DEF Report, RestingJob
    <3>2. job.to \in Roots
      BY <2>2 DEF Report, SignInv, JobOK
    <3>3. claim' = claim \/ claim' = Kept(job.to, Opened)
      BY <2>2 DEF Report
    <3> QED
      BY <1>2, <1>a, <3>1, <3>2, <3>3 DEF ClaimInv, Kept
  <2>3. CASE Prove
    BY <1>2, <1>a, <2>3 DEF Prove, ClaimInv, Kept
  <2>4. CASE UNCHANGED claim /\ (job'.pc # "none" => job.pc # "none" /\ job'.to = job.to)
    BY <1>2, <2>4 DEF ClaimInv
  <2>5. CASE RegisterAliases \/ ListKeys
    <3>1. job.pc # "none" /\ job'.to = job.to /\ UNCHANGED claim
      BY <2>5 DEF RegisterAliases, ListKeys, SignInv, JobOK
    <3> QED
      BY <2>4, <3>1
  <2>6. CASE Rewrap
    <3>1. job.pc = "rewrap" /\ UNCHANGED claim
      BY <2>6 DEF Rewrap
    <3>2. job'.pc # "none" => job'.to = job.to
      <4>1. job = [pc |-> job.pc, from |-> job.from, to |-> job.to, left |-> job.left,
                   authors |-> job.authors, held |-> job.held]
        BY <3>1 DEF SignInv, JobOK
      <4>2. \A rest, left : [job EXCEPT !.held = rest].to = job.to
                /\ [job EXCEPT !.held = rest, !.left = left].to = job.to
        BY <4>1
      <4>3. CASE job' = RestingJob
        BY <4>3 DEF RestingJob
      <4>4. CASE job' = [job EXCEPT !.pc = "count"]
        BY <4>1, <4>4
      <4> QED
        <5>1. ASSUME NEW rest, job' = [job EXCEPT !.held = rest] PROVE job'.to = job.to
          BY <4>2, <5>1
        <5>2. ASSUME NEW rest, job' = [job EXCEPT !.held = rest, !.left = job.left - 1]
              PROVE  job'.to = job.to
          BY <4>2, <5>2
        <5>3. \/ job' = RestingJob \/ job' = [job EXCEPT !.pc = "count"]
              \/ \E s \in DOMAIN job.held :
                   LET rest == [u \in DOMAIN job.held \ {s} |-> job.held[u]]
                   IN \/ job' = [job EXCEPT !.held = rest]
                      \/ job' = [job EXCEPT !.held = rest, !.left = job.left - 1]
          BY <2>6 DEF Rewrap
        <5> QED
          BY <4>3, <4>4, <5>1, <5>2, <5>3
    <3> QED
      BY <2>4, <3>1, <3>2
  <2>7. CASE JobDies
    BY <2>4, <2>7 DEF JobDies, RestingJob
  <2>8. ASSUME NEW p \in Procs, NEW c \in Custody, Open(p, c) PROVE Goal
    BY <1>1, <1>2, <2>8
  <2> QED
    BY <2>1, <2>2, <2>3, <2>4, <2>5, <2>6, <2>7, <2>8
       DEF Next, vars, Remember, Read, Close, Register, ReadKey, CreateKey, Migrate, Insert,
           Forget
<1> QED
  BY <1>1, <1>2, OpenedSteps

\* The keys a step writes are wrapped as the custody that writes them requires.
LEMMA KeyWrites ==
    ASSUME SignInv, [Next]_vars, NEW s \in Active', keys'[s] # keys[s]
    PROVE  \/ \E c \in Opened : keys'[s] = Wrap(c, <<>>) /\ c \in Custody
           \/ \E c \in Opened : keys'[s] = <<c>> /\ c \in Roots
           \/ job.pc # "none" /\ keys'[s] # <<>> /\ Top(keys'[s]) = job.to
<1>0. /\ s \in Subjects /\ keys'[s] # Shredded /\ keys = [x \in Subjects |-> keys[x]]
  BY DEF Active, SignInv, KeysOK
<1>1. ASSUME NEW p \in Procs, CreateKey(p)
      PROVE  \E c \in Opened : keys'[s] = Wrap(c, <<>>) /\ c \in Custody
  <2>1. proc[p].custody \in Opened /\ proc[p].custody \in Custody
    BY <1>1 DEF CreateKey, Opened, SignInv, ProcOK
  <2>2. keys'[s] = Wrap(proc[p].custody, <<>>)
    BY <1>0, <1>1 DEF CreateKey
  <2> QED
    BY <2>1, <2>2
<1>2. ASSUME NEW p \in Procs, Migrate(p)
      PROVE  \E c \in Opened : keys'[s] = <<c>> /\ c \in Roots
  <2>1. proc[p].custody \in Opened /\ proc[p].custody \in Roots
    BY <1>2 DEF Migrate, Opened, SignInv, ProcOK
  <2>2. keys'[s] = <<proc[p].custody>>
    BY <1>0, <1>2 DEF Migrate
  <2> QED
    BY <2>1, <2>2
<1>3. CASE Rewrap
  <2>1. PICK x \in DOMAIN job.held :
          /\ job.held[x] # Shredded
          /\ Wrapped(job.held[x], job.from, job.to) # Fails
          /\ keys' = [keys EXCEPT ![x] = Wrapped(job.held[x], job.from, job.to)]
    BY <1>3 DEF Rewrap
  <2>2. job.pc = "rewrap" /\ JobOK
    BY <1>3 DEF Rewrap, SignInv
  <2>3. keys'[s] = Wrapped(job.held[x], job.from, job.to)
    BY <1>0, <2>1
  <2> QED
    BY <2>1, <2>2, <2>3, Rewrapped
<1>4. ASSUME NEW x \in Subjects, Forget(x) PROVE FALSE
  BY <1>0, <1>4 DEF Forget
<1> QED
  BY <1>1, <1>2, <1>3, <1>4
     DEF Next, vars, Open, Remember, Read, Close, Register, ReadKey, Insert, StartJob,
         RegisterAliases, ListKeys, Report, JobDies, Prove

\* What a claim says of the keys is kept by every step it outlives.
LEMMA ClaimKept ==
    ASSUME SignInv, ClaimInv, [Next]_vars
    PROVE  CompleteMeansRewrapped' /\ ProofStands'
<1>a. Erased \notin Roots /\ None \notin Roots /\ Erased # None /\ Raw \notin Roots
  BY RotationAssumptions DEF Publics
<1>b. ASSUME NEW s \in Active', keys'[s] = keys[s] PROVE s \in Active
  BY <1>b DEF Active
<1>1. CASE claim' = claim
  <2>1. ASSUME NEW s \in Active', claim \in Roots PROVE Top(keys'[s]) = claim
    <3>1. Opened \subseteq {claim} /\ (job.pc # "none" => job.to = claim)
      BY <2>1 DEF ClaimInv
    <3>2. CASE keys'[s] = keys[s]
      BY <1>b, <2>1, <3>2 DEF ClaimInv, CompleteMeansRewrapped
    <3>3. CASE keys'[s] = Wrap(claim, <<>>)
      BY <1>a, <2>1, <3>3, Created DEF Custody
    <3>4. CASE keys'[s] = <<claim>>
      <4>1. keys'[s] # <<>> /\ Len(keys'[s]) = 1 /\ keys'[s][1] = claim
        BY <3>4
      <4> QED
        BY <4>1 DEF Top
    <3>5. CASE job.pc # "none" /\ Top(keys'[s]) = job.to
      BY <3>1, <3>5
    <3> QED
      BY <3>1, <3>2, <3>3, <3>4, <3>5, KeyWrites
  <2>2. ASSUME NEW s \in Active', claim = Erased PROVE keys'[s] # <<>>
    <3>1. Opened \subseteq Roots
      BY <2>2 DEF ClaimInv
    <3>2. CASE keys'[s] = keys[s]
      BY <1>b, <2>2, <3>2 DEF ClaimInv, ProofStands
    <3>3. ASSUME NEW c \in Roots, keys'[s] = Wrap(c, <<>>) PROVE keys'[s] # <<>>
      BY <1>a, <3>3, Created DEF Custody
    <3>4. ASSUME NEW c \in Roots, keys'[s] = <<c>> PROVE keys'[s] # <<>>
      BY <3>4
    <3> QED
      BY <3>1, <3>2, <3>3, <3>4, KeyWrites
  <2> QED
    BY <1>1, <2>1, <2>2 DEF CompleteMeansRewrapped, ProofStands
<1>2. CASE claim' = None
  BY <1>2, <1>a DEF CompleteMeansRewrapped, ProofStands
<1>3. CASE Report /\ claim' = job.to /\ claim' # claim
  <2>1. UNCHANGED keys /\ Remaining(job.to) = {} /\ job.to \in Roots
    BY <1>3 DEF Report, SignInv, JobOK
  <2> QED
    BY <1>3, <1>a, <2>1 DEF Remaining, CompleteMeansRewrapped, ProofStands, Active
<1>4. CASE Prove /\ claim' = Erased
  BY <1>4, <1>a DEF Prove, CompleteMeansRewrapped, ProofStands, Active
<1>5. CASE Report
  BY <1>1, <1>2, <1>3, <1>5, KeptEither DEF Report
<1>6. CASE Prove
  BY <1>2, <1>4, <1>6, KeptEither DEF Prove
<1>7. ASSUME NEW c, Using(c) PROVE claim' = claim \/ claim' = None
  BY <1>7, KeptEither DEF Using
<1> QED
  BY <1>1, <1>2, <1>5, <1>6, <1>7
     DEF Next, vars, Open, Remember, Read, Close, Register, ReadKey, CreateKey, Migrate,
         Insert, Forget, StartJob, RegisterAliases, ListKeys, Rewrap, JobDies

\* No claim is made at first.
LEMMA ClaimInit == Init => ClaimInv
BY RotationAssumptions
   DEF Init, ClaimInv, Opened, Closed, CompleteMeansRewrapped, ProofStands, Publics

\* Every step keeps what the claim is about and what it says.
LEMMA ClaimStep == SignInv /\ ClaimInv /\ [Next]_vars => ClaimInv'
<1> SUFFICES ASSUME SignInv, ClaimInv, [Next]_vars PROVE ClaimInv'
  OBVIOUS
<1> QED
  BY ClaimSteps, ClaimKept DEF ClaimInv

\* After a rewrap was reported complete every active key stays wrapped by its root, as long
\* as only custody under that root is used: no creation or lazy migration under way then,
\* and no step of a later rotation, undoes it.
THEOREM RewrapStands == Spec => []CompleteMeansRewrapped
<1>1. ClaimInv => CompleteMeansRewrapped
  BY DEF ClaimInv
<1> QED
  BY SignInit, SignStep, ClaimInit, ClaimStep, <1>1, PTL DEF Spec

\* After an erase proof no active key is raw, as long as every process has custody.
THEOREM EraseProofStands == Spec => []ProofStands
<1>1. ClaimInv => ProofStands
  BY DEF ClaimInv
<1> QED
  BY SignInit, SignStep, ClaimInit, ClaimStep, <1>1, PTL DEF Spec

(***************************************************************************)
(* The files of agents (MemoryFiles).  A command that runs alone finds its *)
(* files as it began until it commits, whatever was left there before, and *)
(* as it wrote them from then on; that is the inductive invariant.         *)
(***************************************************************************)
\* A set of numbers has a least member.
LEMMA LeastNumber ==
    ASSUME NEW T, T \subseteq Nat, T # {}
    PROVE  \E x \in T : \A y \in T : x <= y
<1>1. PICK R : R = OpToRel(<, Nat)
  OBVIOUS
<1>2. IsWellFoundedOn(R, Nat)
  BY <1>1, NatLessThanWellFounded
<1>3. PICK x \in T : \A y \in T : ~ (<<y, x>> \in R)
  BY <1>2, WFMin
<1>4. ASSUME NEW y \in T, y < x PROVE FALSE
  <2>1. <<y, x>> \in R
    BY <1>1, <1>4 DEF OpToRel
  <2> QED
    BY <2>1, <1>3
<1> QED
  BY <1>3, <1>4

\* So MaxOf is the greatest member of a set that has a bound: versions, whose stamps the
\* clock bounds.
LEMMA MaxIsMember ==
    ASSUME NEW w \in Nat, NEW T, T \subseteq 1..w, T # {}
    PROVE  F!MaxOf(T) \in T
<1>1. PICK below : below = {w - k : k \in T}
  OBVIOUS
<1>2. below \subseteq Nat /\ below # {}
  <2>1. \A k \in T : w - k \in Nat
    OBVIOUS
  <2> QED
    BY <1>1, <2>1
<1>3. PICK d \in below : \A e \in below : d <= e
  BY <1>2, LeastNumber
<1>4. PICK m \in T : d = w - m
  BY <1>1
<1>5. \A k \in T : w - k \in below
  BY <1>1
<1>6. \A k \in T : k <= m
  BY <1>2, <1>3, <1>4, <1>5
<1> QED
  BY <1>6, Zenon DEF F!MaxOf

Stages == {"scan", "stamp", "commit", "retire", "purge", "done"}

\* The fields of a command, and the files it writes: at most one.
Commanded(o) ==
    /\ o = [alone |-> o.alone, fresh |-> o.fresh, was |-> o.was, pc |-> o.pc, kind |-> o.kind,
            paths |-> o.paths, into |-> o.into, at |-> o.at, gone |-> o.gone,
            purging |-> o.purging]
    /\ o.pc \in Stages
    /\ o.paths \subseteq Paths /\ o.into \subseteq o.paths
    /\ IF o.kind = "delete" THEN o.into = {} ELSE \E p \in o.paths : o.into = {p}
    /\ o.kind \in {"create", "edit"} => o.paths = o.into

\* The fields of a version.
VersionOK(r) == r = [path |-> r.path, superseded |-> r.superseded]

\* Versions are stamped by the clock, and each backend has an index of stamps, and a
\* command of its own.
Shapes ==
    /\ clock \in Nat /\ DOMAIN versions \subseteq 1..clock
    /\ \A v \in DOMAIN versions : VersionOK(versions[v])
    /\ index = [b \in Backends |-> index[b]]
    /\ retireOnly = [b \in Backends |-> retireOnly[b]]
    /\ op = [b \in Backends |-> op[b]]
    /\ \A b \in Backends :
        /\ \A p \in Paths : p \in DOMAIN index[b] => index[b][p] \in 1..clock
        /\ F!Busy(b) => Commanded(op[b])
        /\ op[b].pc = "commit" => op[b].at \in 1..clock

\* Before a command commits: its files are as it found them, and so is its index, if that
\* was up to date; what it has read to be retired is all that is live and not its own to
\* purge; its own version's stamp is the clock, and nothing has it yet.
Prepared(b) ==
    LET o == op[b]
    IN /\ o.was = [p \in o.paths |-> F!File(p)]
       /\ o.fresh => \A p \in o.paths :
                        (IF F!Current(b, p) THEN index[b][p] ELSE 0) = o.was[p]
       /\ o.paths \ o.into \subseteq DOMAIN index[b]
       /\ o.pc = "scan" => o.kind # "create"
       /\ o.pc = "retire" =>
            /\ o.kind = "delete"
            /\ \A p \in o.paths : F!Live(p) \subseteq
                  o.gone \cup IF p \in retireOnly[b] THEN {} ELSE {index[b][p]}
       /\ o.pc \in {"stamp", "commit"} =>
            /\ o.kind # "delete"
            /\ o.kind # "create" => \A p \in F!Left(b) : F!Live(p) \subseteq o.gone
       /\ o.pc = "commit" =>
            /\ o.at = clock /\ clock \notin DOMAIN versions
            /\ \A p \in Paths \cap DOMAIN index[b] : index[b][p] # clock

\* From then on: the version it wrote is the newest and live, alone after an edit; of the
\* other files only versions it is about to purge are live.
Committed(b) ==
    LET o == op[b]
    IN /\ \A p \in o.into :
            /\ o.at \in F!Live(p) /\ o.at \notin o.purging
            /\ \A v \in F!Versions(p) : v <= o.at
            /\ o.kind = "edit" => F!Live(p) = {o.at}
       /\ \A p \in o.paths \ o.into :
            F!Live(p) \subseteq o.purging /\ (o.fresh => F!Live(p) \subseteq {o.was[p]})
       /\ o.pc = "done" => o.purging = {}

\* A command that runs alone has either not committed or committed.
AloneOK(b) ==
    /\ \A c \in Backends \ {b} : ~F!Busy(c)
    /\ op[b].pc \in {"scan", "stamp", "commit", "retire"} => Prepared(b)
    /\ op[b].pc \in {"purge", "done"} => Committed(b)

\* The inductive invariant of the files.
CommandInv ==
    /\ Shapes
    /\ \A b \in Backends : F!Busy(b) /\ op[b].alone => AloneOK(b)

\* What a backend that starts now would show of a file is one of its live versions.
LEMMA FileIsLive ==
    ASSUME Shapes, NEW p \in Paths
    PROVE  F!File(p) = 0 \/ F!File(p) \in F!Live(p)
<1> SUFFICES ASSUME p \in F!Listed, F!Rebuilt[p] \in F!AllLive PROVE F!Rebuilt[p] \in F!Live(p)
  BY DEF F!File
<1>1. F!Versions(p) \subseteq 1..clock /\ F!Versions(p) # {} /\ F!Live(p) \subseteq 1..clock
  BY DEF Shapes, F!Versions, F!Live, F!Listed
<1>2. CASE F!Hidden(p)
  BY <1>1, <1>2, MaxIsMember DEF F!Rebuilt, F!Hidden, Shapes
<1>3. CASE ~F!Hidden(p)
  <2>1. F!Rebuilt[p] = F!MaxOf(F!Versions(p))
    BY <1>3 DEF F!Rebuilt
  <2>2. F!Rebuilt[p] \in F!Versions(p)
    BY <1>1, <2>1, MaxIsMember DEF Shapes
  <2> QED
    BY <2>2 DEF F!AllLive, F!Live, F!Versions
<1> QED
  BY <1>2, <1>3

\* The newest version, when it is live, is what it would show.
LEMMA NewestIsFile ==
    ASSUME Shapes, NEW p \in Paths, NEW at, at \in F!Live(p), \A v \in F!Versions(p) : v <= at
    PROVE  F!File(p) = at
<1>1. F!Versions(p) \subseteq Nat /\ at \in F!Versions(p)
  BY DEF Shapes, F!Versions, F!Live
<1>2. F!MaxOf(F!Versions(p)) = at
  BY <1>1 DEF F!MaxOf
<1>3. ~F!Hidden(p) /\ p \in F!Listed
  BY <1>1, <1>2 DEF F!Hidden, F!Listed, F!Live
<1>4. at \in F!AllLive
  BY DEF F!AllLive
<1> QED
  BY <1>2, <1>3, <1>4 DEF F!File, F!Rebuilt

\* A command that is done has purged what it was to purge, so its files are settled.
LEMMA SettledByInv == CommandInv => F!AloneSettles
BY DEF CommandInv, F!AloneSettles, AloneOK, Committed, F!Busy

\* And each file is as the command found it, or as it wrote it, all along.
LEMMA WholeByInv == CommandInv => F!WholeOrNot
<1> SUFFICES ASSUME CommandInv, NEW b \in Backends, F!Busy(b), op[b].alone, op[b].fresh,
                    NEW p \in op[b].paths
             PROVE  F!File(p) \in {op[b].was[p], IF p \in op[b].into THEN op[b].at ELSE 0}
  BY DEF F!WholeOrNot
<1>1. AloneOK(b) /\ Shapes /\ p \in Paths
  BY DEF CommandInv, Shapes, Commanded
<1>c. op[b].pc \in {"scan", "stamp", "commit", "retire", "purge", "done"}
  BY DEF CommandInv, Shapes, Commanded, Stages
<1>2. CASE op[b].pc \in {"scan", "stamp", "commit", "retire"}
  <2>1. Prepared(b)
    BY <1>1, <1>2 DEF AloneOK
  <2>2. PICK was : was = op[b].was
    OBVIOUS
  <2> QED
    BY <2>1 DEF Prepared
<1>3. CASE op[b].pc \in {"purge", "done"}
  <2>1. Committed(b)
    BY <1>1, <1>3 DEF AloneOK
  <2>2. CASE p \in op[b].into
    BY <1>1, <2>1, <2>2, NewestIsFile DEF Committed
  <2>3. CASE p \notin op[b].into
    BY <1>1, <2>1, <2>3, FileIsLive DEF Committed
  <2> QED
    BY <2>2, <2>3
<1> QED
  BY <1>c, <1>2, <1>3

\* Files change with the versions only.
LEMMA SameFiles ==
    ASSUME UNCHANGED <<tool, versions>>
    PROVE  \A p : F!Live(p)' = F!Live(p) /\ F!Versions(p)' = F!Versions(p) /\ F!File(p)' = F!File(p)
BY DEF F!Live, F!Versions, F!File, F!Listed, F!Rebuilt, F!Hidden, F!AllLive

\* A step that leaves a command and what it is about alone.
LEMMA CommandStays ==
    ASSUME NEW b \in Backends, AloneOK(b), UNCHANGED <<tool, versions, clock>>,
           index'[b] = index[b], retireOnly'[b] = retireOnly[b], op'[b] = op[b],
           \A c \in Backends \ {b} : ~F!Busy(c)'
    PROVE  AloneOK(b)'
<1>1. \A p : F!Live(p)' = F!Live(p) /\ F!Versions(p)' = F!Versions(p) /\ F!File(p)' = F!File(p)
  BY SameFiles
<1>2. F!Left(b)' = F!Left(b) /\ \A p : F!Current(b, p)' = F!Current(b, p)
  BY DEF F!Left, F!Current, F!Superseded
<1>3. Prepared(b) => Prepared(b)'
  BY <1>1, <1>2 DEF Prepared
<1>4. Committed(b) => Committed(b)'
  BY <1>1 DEF Committed
<1> QED
  BY <1>3, <1>4 DEF AloneOK, Commanded

\* At first there is no version and no command.
LEMMA CommandInit == F!Init => CommandInv
BY DEF F!Init, CommandInv, Shapes, F!Busy, F!Idle
\* A step of one backend keeps the shapes if what it leaves has them.
LEMMA ShapesKept ==
    ASSUME Shapes, NEW b \in Backends,
           clock' \in {clock, clock + 1}, DOMAIN versions' \subseteq 1..clock',
           \A v \in DOMAIN versions' : VersionOK(versions'[v]),
           index' = [c \in Backends |-> index'[c]],
           retireOnly' = [c \in Backends |-> retireOnly'[c]],
           op' = [c \in Backends |-> op'[c]],
           \A c \in Backends \ {b} : index'[c] = index[c] /\ op'[c] = op[c],
           \A p \in Paths : p \in DOMAIN index'[b] => index'[b][p] \in 1..clock',
           F!Busy(b)' => Commanded(op'[b]),
           op'[b].pc = "commit" => op'[b].at \in 1..clock'
    PROVE  Shapes'
<1>1. \A n \in 1..clock : n \in 1..clock'
  BY DEF Shapes
<1>2. clock' \in Nat
  BY DEF Shapes
<1>3. ASSUME NEW c \in Backends
      PROVE  /\ \A p \in Paths : p \in DOMAIN index'[c] => index'[c][p] \in 1..clock'
             /\ F!Busy(c)' => Commanded(op'[c])
             /\ op'[c].pc = "commit" => op'[c].at \in 1..clock'
  <2>1. CASE c = b
    BY <2>1
  <2>2. CASE c # b
    <3>1. index'[c] = index[c] /\ op'[c] = op[c] /\ (F!Busy(c)' <=> F!Busy(c))
      BY <2>2 DEF F!Busy
    <3> QED
      BY <1>1, <3>1 DEF Shapes
  <2> QED
    BY <2>1, <2>2
<1> QED
  BY <1>2, <1>3 DEF Shapes

\* A step of backend b that begins no command leaves the others' commands what they are.
LEMMA CommandMoves ==
    ASSUME CommandInv, NEW b \in Backends, Shapes',
           index' = [c \in Backends |-> index'[c]],
           \A c \in Backends \ {b} : index'[c] = index[c] /\ retireOnly'[c] = retireOnly[c]
                                     /\ op'[c] = op[c],
           F!Busy(b)' => F!Busy(b),
           UNCHANGED tool,
           F!Busy(b) \/ UNCHANGED <<versions, clock>>,
           F!Busy(b)' /\ op'[b].alone => AloneOK(b)'
    PROVE  CommandInv'
<1> SUFFICES ASSUME NEW c \in Backends, F!Busy(c)', op'[c].alone, c # b PROVE AloneOK(c)'
  BY DEF CommandInv
<1>1. F!Busy(c) /\ op[c].alone
  BY DEF F!Busy
<1>2. AloneOK(c)
  BY <1>1 DEF CommandInv
<1>3. ~F!Busy(b)
  BY <1>2 DEF AloneOK
<1>4. \A d \in Backends \ {c} : ~F!Busy(d)'
  BY <1>2, <1>3 DEF AloneOK, F!Busy
<1> QED
  BY <1>2, <1>3, <1>4, CommandStays

\* A command begins: what it notes of its files is so, and whoever was at work before is
\* alone no longer.
LEMMA BeginKeeps ==
    ASSUME CommandInv, NEW b \in Backends, NEW command, F!Begin(b, command),
           command.paths \subseteq Paths, command.into \subseteq command.paths,
           IF command.kind = "delete" THEN command.into = {}
           ELSE \E p \in command.paths : command.into = {p},
           command.kind \in {"create", "edit"} => command.paths = command.into,
           command.paths \ command.into \subseteq DOMAIN index[b],
           command.pc = IF command.kind = "create" THEN "stamp" ELSE "scan"
    PROVE  CommandInv'
<1> DEFINE started ==
      [alone |-> {c \in Backends \ {b} : F!Busy(c)} = {},
       fresh |-> \A p \in command.paths :
                        (IF F!Current(b, p) THEN index[b][p] ELSE 0) = F!File(p),
       was |-> [p \in command.paths |-> F!File(p)],
       pc |-> command.pc, kind |-> command.kind, paths |-> command.paths,
       into |-> command.into, at |-> 0, gone |-> {}, purging |-> {}]
<1>1. /\ op' = [c \in Backends |->
                   IF c = b THEN started
                   ELSE IF F!Busy(c) THEN [op[c] EXCEPT !.alone = FALSE] ELSE op[c]]
      /\ UNCHANGED <<tool, versions, clock, index, retireOnly>>
      /\ op[b].pc = "idle"
  BY DEF F!Begin
<1>3. op'[b] = started
  BY <1>1
<1>o. PICK o : o = op'[b]
  OBVIOUS
<1>f. /\ o.alone => {c \in Backends \ {b} : F!Busy(c)} = {}
      /\ o.fresh => \A p \in command.paths :
                        (IF F!Current(b, p) THEN index[b][p] ELSE 0) = F!File(p)
  <2>1. /\ o.alone = ({c \in Backends \ {b} : F!Busy(c)} = {})
        /\ o.fresh = (\A p \in command.paths :
                        (IF F!Current(b, p) THEN index[b][p] ELSE 0) = F!File(p))
    BY <1>3, <1>o
  <2> QED
    BY <2>1
<1>4. /\ o.was = [p \in command.paths |-> F!File(p)]
      /\ o.pc = command.pc /\ o.kind = command.kind /\ o.paths = command.paths
      /\ o.into = command.into /\ o.at = 0 /\ o.gone = {} /\ o.purging = {}
  BY <1>3, <1>o
<1>5. Commanded(o)
  <2>1. o = [alone |-> o.alone, fresh |-> o.fresh, was |-> o.was, pc |-> o.pc, kind |-> o.kind,
            paths |-> o.paths, into |-> o.into, at |-> o.at, gone |-> o.gone,
            purging |-> o.purging]
    BY <1>3, <1>o
  <2> QED
    BY <1>4, <2>1 DEF Commanded, Stages
<1>6. ASSUME o.alone PROVE AloneOK(b)'
  <2>1. \A c \in Backends \ {b} : ~F!Busy(c)'
    <3> TAKE c \in Backends \ {b}
    <3>1. ~F!Busy(c) /\ op'[c] = op[c]
      BY <1>1, <1>f, <1>6
    <3> QED
      BY <3>1 DEF F!Busy
  <2>2. \A p : F!File(p)' = F!File(p)
    BY <1>1, SameFiles
  <2>3. \A p : F!Current(b, p)' = F!Current(b, p)
    BY <1>1 DEF F!Current, F!Superseded
  <2>4. o.was = [p \in o.paths |-> F!File(p)']
    BY <1>4, <2>2
  <2>5. o.fresh => \A p \in o.paths :
                        (IF F!Current(b, p)' THEN index'[b][p] ELSE 0) = o.was[p]
    BY <1>1, <1>f, <1>4, <2>3
  <2>6. Prepared(b)'
    <3>1. /\ o.pc \in {"scan", "stamp"} /\ (o.pc = "scan" <=> o.kind # "create")
          /\ o.paths \ o.into \subseteq DOMAIN index'[b]
      BY <1>1, <1>4
    <3> QED
      BY <2>4, <2>5, <3>1, <1>o DEF Prepared
  <2> QED
    BY <2>1, <2>6, <1>5, <1>4, <1>o DEF AloneOK
<1>s. Shapes'
  <2>1. ASSUME NEW c \in Backends
        PROVE  /\ F!Busy(c)' => Commanded(op'[c])
               /\ op'[c].pc = "commit" => op'[c].at \in 1..clock
    <3>1. CASE c = b
      BY <1>4, <1>5, <1>o, <3>1
    <3>2. CASE c # b /\ F!Busy(c)
      <4>1. PICK r : r = op[c]
        OBVIOUS
      <4>2. Commanded(r) /\ (r.pc = "commit" => r.at \in 1..clock)
        BY <3>2, <4>1 DEF CommandInv, Shapes
      <4>3. PICK n : n = op'[c]
        OBVIOUS
      <4>4. n = [r EXCEPT !.alone = FALSE]
        BY <1>1, <3>2, <4>1, <4>3
      <4>5. n = [alone |-> FALSE, fresh |-> r.fresh, was |-> r.was, pc |-> r.pc,
                 kind |-> r.kind, paths |-> r.paths, into |-> r.into, at |-> r.at,
                 gone |-> r.gone, purging |-> r.purging]
        BY <4>2, <4>4 DEF Commanded
      <4> HIDE <4>4
      <4>6. /\ n.alone = FALSE /\ n.fresh = r.fresh /\ n.was = r.was /\ n.pc = r.pc
            /\ n.kind = r.kind /\ n.paths = r.paths /\ n.into = r.into /\ n.at = r.at
            /\ n.gone = r.gone /\ n.purging = r.purging
        BY <4>5
      <4>7. n = [alone |-> n.alone, fresh |-> n.fresh, was |-> n.was, pc |-> n.pc,
                 kind |-> n.kind, paths |-> n.paths, into |-> n.into, at |-> n.at,
                 gone |-> n.gone, purging |-> n.purging]
        BY <4>5, <4>6
      <4>8. Commanded(n)
        BY <4>2, <4>6, <4>7 DEF Commanded
      <4> QED
        BY <4>2, <4>3, <4>6, <4>8
    <3>3. CASE c # b /\ ~F!Busy(c)
      <4>1. op'[c] = op[c]
        BY <1>1, <3>3
      <4> QED
        BY <4>1, <3>3 DEF F!Busy
    <3> QED
      BY <3>1, <3>2, <3>3
  <2>2. op' = [c \in Backends |-> op'[c]]
    BY <1>1
  <2> QED
    BY <1>1, <2>1, <2>2 DEF CommandInv, Shapes
<1>7. ASSUME NEW c \in Backends, F!Busy(c)', op'[c].alone PROVE AloneOK(c)'
  <2>1. CASE c = b
    BY <2>1, <1>6, <1>7, <1>o
  <2>2. CASE c # b
    <3>1. ~F!Busy(c)
      <4> SUFFICES ASSUME F!Busy(c) PROVE FALSE
        OBVIOUS
      <4>1. op'[c] = [op[c] EXCEPT !.alone = FALSE]
        BY <1>1, <2>2
      <4>2. op'[c].alone = FALSE \/ ~op[c].alone
        BY <4>1
      <4>3. op[c].alone
        BY <4>1, <1>7
      <4>4. Commanded(op[c])
        BY DEF CommandInv, Shapes
      <4> QED
        BY <4>1, <4>4, <1>7 DEF Commanded
    <3>2. op'[c] = op[c]
      BY <1>1, <2>2, <3>1
    <3> QED
      BY <3>1, <3>2, <1>7 DEF F!Busy
  <2> QED
    BY <2>1, <2>2
<1> QED
  BY <1>s, <1>7 DEF CommandInv

\* A command goes on with what it is about unchanged.
Continues(n, o) ==
    /\ n = [alone |-> o.alone, fresh |-> o.fresh, was |-> o.was, pc |-> n.pc, kind |-> o.kind,
            paths |-> o.paths, into |-> o.into, at |-> n.at, gone |-> n.gone,
            purging |-> n.purging]
    /\ n.pc \in Stages

\* So it stays a command on the same files.
LEMMA Continued ==
    ASSUME NEW n, NEW o, Continues(n, o), Commanded(o)
    PROVE  /\ Commanded(n) /\ n.alone = o.alone /\ n.fresh = o.fresh /\ n.was = o.was
           /\ n.kind = o.kind /\ n.paths = o.paths /\ n.into = o.into
<1>1. /\ n.alone = o.alone /\ n.fresh = o.fresh /\ n.was = o.was
      /\ n.kind = o.kind /\ n.paths = o.paths /\ n.into = o.into
  BY DEF Continues
<1>2. n = [alone |-> n.alone, fresh |-> n.fresh, was |-> n.was, pc |-> n.pc, kind |-> n.kind,
           paths |-> n.paths, into |-> n.into, at |-> n.at, gone |-> n.gone,
           purging |-> n.purging]
  BY <1>1 DEF Continues
<1> QED
  BY <1>1, <1>2 DEF Commanded, Continues

\* A step of a backend's command keeps the invariant, if it keeps its part of it.
LEMMA GoesOn ==
    ASSUME CommandInv, NEW b \in Backends, F!Busy(b), UNCHANGED tool,
           clock' \in {clock, clock + 1}, DOMAIN versions' \subseteq 1..clock',
           \A v \in DOMAIN versions' : VersionOK(versions'[v]),
           index' = [c \in Backends |-> index'[c]],
           retireOnly' = [c \in Backends |-> retireOnly'[c]],
           op' = [c \in Backends |-> op'[c]],
           \A c \in Backends \ {b} : index'[c] = index[c] /\ retireOnly'[c] = retireOnly[c]
                                     /\ op'[c] = op[c],
           \A p \in Paths : p \in DOMAIN index'[b] => index'[b][p] \in 1..clock',
           NEW n, n = op'[b], Continues(n, op[b]),
           n.pc = "commit" => n.at \in 1..clock',
           AloneOK(b) =>
              /\ n.pc \in {"scan", "stamp", "commit", "retire"} => Prepared(b)'
              /\ n.pc \in {"purge", "done"} => Committed(b)'
    PROVE  CommandInv'
<1>0. Commanded(op[b]) /\ Shapes
  BY DEF CommandInv, Shapes
<1>1. Commanded(n) /\ n.alone = op[b].alone
  BY <1>0, Continued
<1>2. Shapes'
  BY <1>0, <1>1, ShapesKept
<1>3. ASSUME n.alone PROVE AloneOK(b)'
  <2>1. AloneOK(b)
    BY <1>1, <1>3 DEF CommandInv
  <2>2. \A c \in Backends \ {b} : ~F!Busy(c)'
    BY <2>1 DEF AloneOK, F!Busy
  <2> QED
    BY <2>1, <2>2 DEF AloneOK
<1> QED
  BY <1>2, <1>3, CommandMoves

\* Retiring versions marks them and changes nothing else.
LEMMA RetiredRows ==
    ASSUME Shapes, NEW gone
    PROVE  /\ DOMAIN F!Retired(gone) = DOMAIN versions
           /\ \A v \in DOMAIN versions :
                /\ F!Retired(gone)[v].path = versions[v].path
                /\ F!Retired(gone)[v].superseded <=> (v \in gone \/ versions[v].superseded)
                /\ VersionOK(F!Retired(gone)[v])
<1>1. ASSUME NEW v \in DOMAIN versions, NEW r, r = [versions[v] EXCEPT !.superseded = TRUE]
      PROVE  r.path = versions[v].path /\ r.superseded = TRUE /\ VersionOK(r)
  <2>1. PICK old : old = versions[v]
    OBVIOUS
  <2>2. VersionOK(old) /\ r = [old EXCEPT !.superseded = TRUE]
    BY <1>1, <2>1 DEF Shapes
  <2>3. r = [path |-> old.path, superseded |-> TRUE]
    BY <2>2 DEF VersionOK
  <2> HIDE <1>1
  <2>4. r.path = old.path /\ r.superseded = TRUE
    BY <2>3
  <2> QED
    BY <2>1, <2>3, <2>4 DEF VersionOK
<1>2. ASSUME NEW v \in DOMAIN versions
      PROVE  /\ F!Retired(gone)[v].path = versions[v].path
             /\ F!Retired(gone)[v].superseded <=> (v \in gone \/ versions[v].superseded)
             /\ VersionOK(F!Retired(gone)[v])
  <2>1. CASE v \in gone
    BY <1>1, <2>1 DEF F!Retired
  <2>2. CASE v \notin gone
    BY <2>2 DEF F!Retired, Shapes
  <2> QED
    BY <2>1, <2>2
<1>3. DOMAIN F!Retired(gone) = DOMAIN versions
  BY DEF F!Retired
<1> QED
  BY <1>2, <1>3

\* Every step keeps the invariant: first those that begin a command, then those of one
\* under way.
LEMMA CommandStep == CommandInv /\ [F!Next]_F!vars => CommandInv'
<1> SUFFICES ASSUME CommandInv, [F!Next]_F!vars PROVE CommandInv'
  OBVIOUS
<1>0. Shapes /\ \A b \in Backends : F!Busy(b) /\ op[b].alone => AloneOK(b)
  BY DEF CommandInv
<1>1. ASSUME NEW b \in Backends, F!Open(b) PROVE CommandInv'
  <2>1. Shapes'
    <3>1. \A p \in Paths : p \in DOMAIN F!Rebuilt => F!Rebuilt[p] \in 1..clock
      <4> SUFFICES ASSUME NEW p \in F!Listed PROVE F!Rebuilt[p] \in 1..clock
        BY DEF F!Rebuilt
      <4>1. F!Versions(p) \subseteq 1..clock /\ F!Versions(p) # {} /\ F!Live(p) \subseteq 1..clock
        BY <1>0 DEF Shapes, F!Versions, F!Live, F!Listed
      <4>2. F!Hidden(p) => F!Live(p) # {}
        BY DEF F!Hidden
      <4> QED
        BY <1>0, <4>1, <4>2, MaxIsMember DEF F!Rebuilt, Shapes
    <3> QED
      BY <1>0, <1>1, <3>1, ShapesKept DEF F!Open, Shapes, F!Busy, F!Idle
  <2> QED
    BY <1>0, <1>1, <2>1, CommandMoves DEF F!Open, Shapes, F!Busy, F!Idle
<1>2. ASSUME NEW b \in Backends, F!Crash(b) PROVE CommandInv'
  <2>1. Shapes'
    BY <1>0, <1>2, ShapesKept DEF F!Crash, Shapes, F!Busy, F!Down
  <2> QED
    BY <1>0, <1>2, <2>1, CommandMoves DEF F!Crash, Shapes, F!Busy, F!Down
<1>3. ASSUME NEW b \in Backends, F!Return(b) PROVE CommandInv'
  <2>1. Shapes'
    BY <1>0, <1>3, ShapesKept DEF F!Return, Shapes, F!Busy, F!Idle
  <2> QED
    BY <1>0, <1>3, <2>1, CommandMoves DEF F!Return, Shapes, F!Busy, F!Idle
<1>4. ASSUME NEW b \in Backends, NEW p \in Paths, F!Create(b, p) PROVE CommandInv'
  BY <1>4, BeginKeeps DEF F!Create
<1>5. ASSUME NEW b \in Backends, NEW p \in Paths, F!Write(b, p) PROVE CommandInv'
  BY <1>5, BeginKeeps DEF F!Write
<1>6. ASSUME NEW b \in Backends, NEW p \in Paths, NEW q \in Paths, F!Rename(b, p, q)
      PROVE  CommandInv'
  <2>1. p # q /\ p \in DOMAIN index[b]
    BY <1>6 DEF F!Rename, F!Current
  <2> QED
    BY <1>6, <2>1, BeginKeeps DEF F!Rename
<1>7. ASSUME NEW b \in Backends, NEW covered \in SUBSET Paths, F!Delete(b, covered)
      PROVE  CommandInv'
  <2>1. PICK targets : targets = {p \in covered : IF tool = "memory" THEN F!Current(b, p)
                                                  ELSE p \in DOMAIN index[b]}
    OBVIOUS
  <2>2. targets \subseteq Paths /\ targets \subseteq DOMAIN index[b]
    BY <2>1 DEF F!Current
  <2>3. F!Begin(b, [pc |-> "scan", kind |-> "delete", paths |-> targets, into |-> {}])
    BY <1>7, <2>1 DEF F!Delete
  <2> QED
    BY <2>2, <2>3, BeginKeeps
<1>8. ASSUME NEW b \in Backends, F!Scan(b) PROVE CommandInv'
  <2>1. PICK o : o = op[b]
    OBVIOUS
  <2> DEFINE kept == IF o.kind = "delete" THEN {p \in F!Left(b) : p \in retireOnly[b]} ELSE {}
             current == IF o.kind = "delete" THEN {index[b][p] : p \in kept}
                        ELSE IF tool = "memory" THEN F!Held(b) ELSE F!Held(b) \cap F!AllLive
  <2>g. PICK gone : gone = F!Earlier(b, F!Left(b)) \cup current
    OBVIOUS
  <2>p. PICK pc : pc = IF o.kind = "delete" THEN "retire" ELSE "stamp"
    OBVIOUS
  <2>2. /\ op' = [op EXCEPT ![b].gone = gone, ![b].pc = pc]
        /\ \A p \in F!Left(b) \cap Paths :
              F!Live(p) \subseteq gone \cup
                (IF o.kind # "delete" \/ p \in retireOnly[b] THEN {} ELSE {index[b][p]})
    <3>1. op' = [op EXCEPT ![b].gone = gone, ![b].pc = pc]
      BY <1>8, <2>1, <2>g, <2>p DEF F!Scan
    <3>2. ASSUME NEW p \in F!Left(b) \cap Paths
          PROVE  F!Live(p) \subseteq gone \cup
                  (IF o.kind # "delete" \/ p \in retireOnly[b] THEN {} ELSE {index[b][p]})
      <4> SUFFICES ASSUME NEW v \in F!Live(p), p \in DOMAIN index[b], v = index[b][p],
                          o.kind # "delete" \/ p \in retireOnly[b]
                   PROVE  v \in current
        BY <2>g DEF F!Earlier
      <4>1. CASE o.kind = "delete"
        BY <4>1
      <4>2. CASE o.kind # "delete"
        <5>1. v \in F!Held(b)
          BY DEF F!Held
        <5>2. v \in F!AllLive
          BY DEF F!AllLive
        <5> QED
          BY <4>2, <5>1, <5>2
      <4> QED
        BY <4>1, <4>2
    <3> QED
      BY <3>1, <3>2
  <2> HIDE DEF current
  <2>3. /\ UNCHANGED <<tool, versions, clock, index, retireOnly>> /\ o.pc = "scan"
        /\ F!Busy(b) /\ Commanded(o)
    BY <1>0, <1>8, <2>1 DEF F!Scan, Shapes, F!Busy
  <2>4. PICK n : n = op'[b]
    OBVIOUS
  <2>5. n = [o EXCEPT !.gone = gone, !.pc = pc]
    BY <1>0, <2>1, <2>2, <2>4 DEF Shapes
  <2>6. n = [alone |-> o.alone, fresh |-> o.fresh, was |-> o.was, pc |-> pc,
             kind |-> o.kind, paths |-> o.paths, into |-> o.into, at |-> o.at,
             gone |-> gone, purging |-> o.purging]
    BY <2>3, <2>5 DEF Commanded
  <2> HIDE <2>5
  <2>a. n.pc = pc /\ n.at = o.at /\ n.gone = gone /\ n.purging = o.purging
    BY <2>6
  <2>7. Continues(n, o)
    BY <2>p, <2>6, <2>a DEF Continues, Stages
  <2>8. ASSUME AloneOK(b) PROVE Prepared(b)'
    <3>1. Commanded(o) /\ Prepared(b)
      BY <2>1, <2>3, <2>8 DEF AloneOK
    <3>2. n.pc = pc /\ n.gone = gone /\ n.fresh = o.fresh /\ n.was = o.was
          /\ n.kind = o.kind /\ n.paths = o.paths /\ n.into = o.into
      BY <2>7, <2>a, <3>1, Continued
    <3>3. /\ F!Left(b)' = F!Left(b) /\ F!Left(b) \subseteq Paths
          /\ o.kind = "delete" => F!Left(b) = o.paths
      BY <2>1, <2>4, <3>1, <3>2 DEF F!Left, Commanded
    <3>4. /\ \A p : F!Live(p)' = F!Live(p) /\ F!File(p)' = F!File(p)
          /\ \A p : F!Current(b, p)' = F!Current(b, p)
      BY <2>3, SameFiles DEF F!Current, F!Superseded
    <3>5. /\ n.was = [p \in n.paths |-> F!File(p)']
          /\ n.fresh => \A p \in n.paths :
                (IF F!Current(b, p)' THEN index'[b][p] ELSE 0) = n.was[p]
          /\ n.paths \ n.into \subseteq DOMAIN index'[b]
      BY <2>1, <2>3, <3>1, <3>2, <3>4 DEF Prepared
    <3>6. n.pc \in {"retire", "stamp"} /\ (n.pc = "retire" <=> n.kind = "delete")
      BY <2>p, <3>2
    <3>7. n.pc = "retire" => \A p \in n.paths : F!Live(p)' \subseteq
                  n.gone \cup IF p \in retireOnly'[b] THEN {} ELSE {index'[b][p]}
      BY <2>2, <2>3, <3>2, <3>3, <3>4, <3>6
    <3>8. n.pc = "stamp" => \A p \in F!Left(b)' : F!Live(p)' \subseteq n.gone
      BY <2>2, <3>2, <3>3, <3>4, <3>6
    <3> QED
      BY <2>4, <3>5, <3>6, <3>7, <3>8 DEF Prepared
  <2>9. \A c \in Backends \ {b} : op'[c] = op[c]
    BY <1>0, <2>2 DEF Shapes
  <2>10. op' = [c \in Backends |-> op'[c]]
    BY <1>0, <2>2 DEF Shapes
  <2>11. n.pc \in {"retire", "stamp"}
    BY <2>p, <2>a
  <2> QED
    BY <1>0, <2>1, <2>3, <2>4, <2>7, <2>8, <2>9, <2>10, <2>11, GoesOn DEF Shapes
<1>9. ASSUME NEW b \in Backends, F!Stamp(b) PROVE CommandInv'
  <2>1. PICK o : o = op[b]
    OBVIOUS
  <2>2. PICK n : n = op'[b]
    OBVIOUS
  <2>3. /\ UNCHANGED <<tool, versions, index, retireOnly>> /\ o.pc = "stamp"
        /\ clock' = clock + 1 /\ clock \in Nat
        /\ F!Busy(b) /\ Commanded(o)
        /\ op' = [op EXCEPT ![b].pc = "commit", ![b].at = clock + 1]
    BY <1>0, <1>9, <2>1 DEF F!Stamp, Shapes, F!Busy
  <2>4. /\ n = [o EXCEPT !.pc = "commit", !.at = clock + 1]
        /\ op' = [c \in Backends |-> op'[c]]
        /\ \A c \in Backends \ {b} : op'[c] = op[c]
    BY <1>0, <2>1, <2>2, <2>3 DEF Shapes
  <2>5. n = [alone |-> o.alone, fresh |-> o.fresh, was |-> o.was, pc |-> "commit",
             kind |-> o.kind, paths |-> o.paths, into |-> o.into, at |-> clock + 1,
             gone |-> o.gone, purging |-> o.purging]
    BY <2>3, <2>4 DEF Commanded
  <2>6. n.pc = "commit" /\ n.at = clock + 1 /\ n.gone = o.gone /\ n.purging = o.purging
    BY <2>5
  <2>7. Continues(n, o)
    BY <2>5, <2>6 DEF Continues, Stages
  <2>8. ASSUME AloneOK(b) PROVE Prepared(b)'
    <3>1. Prepared(b)
      BY <2>1, <2>3, <2>8 DEF AloneOK
    <3>2. n.fresh = o.fresh /\ n.was = o.was
          /\ n.kind = o.kind /\ n.paths = o.paths /\ n.into = o.into
      BY <2>3, <2>7, Continued
    <3>3. F!Left(b)' = F!Left(b)
      BY <2>1, <2>2, <3>2 DEF F!Left
    <3>4. /\ \A p : F!Live(p)' = F!Live(p) /\ F!File(p)' = F!File(p)
          /\ \A p : F!Current(b, p)' = F!Current(b, p)
      BY <2>3, SameFiles DEF F!Current, F!Superseded
    <3>5. clock' \notin DOMAIN versions' /\ \A p \in Paths \cap DOMAIN index'[b] : index'[b][p] # clock'
      BY <1>0, <2>3 DEF Shapes
    <3>6. /\ n.was = [p \in n.paths |-> F!File(p)']
          /\ n.fresh => \A p \in n.paths :
                (IF F!Current(b, p)' THEN index'[b][p] ELSE 0) = n.was[p]
          /\ n.paths \ n.into \subseteq DOMAIN index'[b]
      BY <2>1, <2>3, <3>1, <3>2, <3>4 DEF Prepared
    <3>7. n.kind # "delete" /\ (n.kind # "create" => \A p \in F!Left(b)' : F!Live(p)' \subseteq n.gone)
      BY <2>1, <2>3, <2>6, <3>1, <3>2, <3>3, <3>4 DEF Prepared
    <3> QED
      BY <2>2, <2>3, <2>6, <3>5, <3>6, <3>7 DEF Prepared
  <2>9. /\ DOMAIN versions' \subseteq 1..clock'
        /\ \A p \in Paths : p \in DOMAIN index'[b] => index'[b][p] \in 1..clock'
        /\ clock' \in 1..clock'
    BY <1>0, <2>3 DEF Shapes
  <2> QED
    BY <1>0, <2>1, <2>2, <2>3, <2>4, <2>6, <2>7, <2>8, <2>9, GoesOn DEF Shapes
<1>10. ASSUME NEW b \in Backends, F!Purge(b) PROVE CommandInv'
  <2>1. PICK o : o = op[b]
    OBVIOUS
  <2>2. PICK n : n = op'[b]
    OBVIOUS
  <2>v. PICK v \in o.purging :
          /\ versions' = F!Without(versions, {v})
          /\ op' = [op EXCEPT ![b].purging = @ \ {v},
                             ![b].pc = IF op[b].purging = {v} THEN "done" ELSE @]
    BY <1>10, <2>1 DEF F!Purge
  <2>3. /\ UNCHANGED <<tool, clock, index, retireOnly>> /\ o.pc = "purge" /\ clock \in Nat
        /\ F!Busy(b) /\ Commanded(o)
    BY <1>0, <1>10, <2>1 DEF F!Purge, Shapes, F!Busy
  <2>p. PICK pc : pc = IF o.purging = {v} THEN "done" ELSE "purge"
    OBVIOUS
  <2>4. /\ n = [o EXCEPT !.purging = o.purging \ {v}, !.pc = pc]
        /\ op' = [c \in Backends |-> op'[c]]
        /\ \A c \in Backends \ {b} : op'[c] = op[c]
    BY <1>0, <2>1, <2>2, <2>v, <2>3, <2>p DEF Shapes
  <2>5. n = [alone |-> o.alone, fresh |-> o.fresh, was |-> o.was, pc |-> pc,
             kind |-> o.kind, paths |-> o.paths, into |-> o.into, at |-> o.at,
             gone |-> o.gone, purging |-> o.purging \ {v}]
    BY <2>3, <2>4 DEF Commanded
  <2>6. n.pc = pc /\ n.at = o.at /\ n.purging = o.purging \ {v} /\ pc \in {"purge", "done"}
    BY <2>5, <2>p
  <2>7. Continues(n, o)
    BY <2>5, <2>6 DEF Continues, Stages
  <2>r. /\ DOMAIN versions' = DOMAIN versions \ {v}
        /\ \A w \in DOMAIN versions' : versions'[w] = versions[w]
    BY <2>v DEF F!Without
  <2>8. ASSUME AloneOK(b) PROVE Committed(b)'
    <3>1. Committed(b)
      BY <2>1, <2>3, <2>8 DEF AloneOK
    <3>2. n.fresh = o.fresh /\ n.was = o.was
          /\ n.kind = o.kind /\ n.paths = o.paths /\ n.into = o.into
      BY <2>3, <2>7, Continued
    <3>3. \A p : F!Versions(p)' = F!Versions(p) \ {v} /\ F!Live(p)' = F!Live(p) \ {v}
      BY <2>r DEF F!Versions, F!Live
    <3>4. n.pc = "done" => n.purging = {}
      BY <2>p, <2>6
    <3>5. \A p \in n.into :
            /\ n.at \in F!Live(p)' /\ n.at \notin n.purging
            /\ \A w \in F!Versions(p)' : w <= n.at
            /\ n.kind = "edit" => F!Live(p)' = {n.at}
      BY <2>1, <2>6, <3>1, <3>2, <3>3 DEF Committed
    <3>6. \A p \in n.paths \ n.into :
            F!Live(p)' \subseteq n.purging /\ (n.fresh => F!Live(p)' \subseteq {n.was[p]})
      BY <2>1, <2>6, <3>1, <3>2, <3>3 DEF Committed
    <3> QED
      BY <2>2, <3>4, <3>5, <3>6 DEF Committed
  <2> QED
    BY <1>0, <2>1, <2>2, <2>3, <2>4, <2>6, <2>7, <2>8, <2>r, GoesOn DEF Shapes
<1>11. ASSUME NEW b \in Backends, F!Retire(b) PROVE CommandInv'
  <2>1. PICK o : o = op[b]
    OBVIOUS
  <2>2. PICK n : n = op'[b]
    OBVIOUS
  <2>g. PICK purging : purging = {index[b][p] : p \in o.paths \ retireOnly[b]}
    OBVIOUS
  <2>3. /\ UNCHANGED <<tool, clock>> /\ o.pc = "retire" /\ clock \in Nat
        /\ F!Busy(b) /\ Commanded(o)
    BY <1>0, <1>11, <2>1 DEF F!Retire, Shapes, F!Busy
  <2>4. CASE ~(o.gone \subseteq F!AllLive)
    <3>1. op' = [op EXCEPT ![b] = F!Idle] /\ UNCHANGED <<versions, index, retireOnly>>
      BY <1>11, <2>1, <2>4 DEF F!Retire
    <3>2. Shapes'
      BY <1>0, <2>3, <3>1, ShapesKept DEF Shapes, F!Busy, F!Idle
    <3> QED
      BY <1>0, <2>3, <3>1, <3>2, CommandMoves DEF Shapes, F!Busy, F!Idle
  <2>5. CASE o.gone \subseteq F!AllLive
    <3>p. PICK pc : pc = IF purging = {} THEN "done" ELSE "purge"
      OBVIOUS
    <3>1. /\ versions' = F!Retired(o.gone)
          /\ op' = [op EXCEPT ![b].pc = pc, ![b].purging = purging]
          /\ index' = [index EXCEPT ![b] = F!Without(index[b], o.paths)]
          /\ retireOnly' = [retireOnly EXCEPT ![b] = retireOnly[b] \ o.paths]
      BY <1>11, <2>1, <2>5, <2>g, <3>p DEF F!Retire, F!Popped
    <3>2. /\ n = [o EXCEPT !.pc = pc, !.purging = purging]
          /\ op' = [c \in Backends |-> op'[c]]
          /\ index' = [c \in Backends |-> index'[c]]
          /\ retireOnly' = [c \in Backends |-> retireOnly'[c]]
          /\ \A c \in Backends \ {b} : index'[c] = index[c] /\ retireOnly'[c] = retireOnly[c]
                                       /\ op'[c] = op[c]
      BY <1>0, <2>1, <2>2, <3>1 DEF Shapes
    <3>3. n = [alone |-> o.alone, fresh |-> o.fresh, was |-> o.was, pc |-> pc,
               kind |-> o.kind, paths |-> o.paths, into |-> o.into, at |-> o.at,
               gone |-> o.gone, purging |-> purging]
      BY <2>3, <3>2 DEF Commanded
    <3>4. n.pc = pc /\ n.purging = purging /\ pc \in {"purge", "done"}
      BY <3>3, <3>p
    <3>5. Continues(n, o)
      BY <3>3, <3>4 DEF Continues, Stages
    <3>r. /\ DOMAIN versions' = DOMAIN versions /\ \A v \in DOMAIN versions' : VersionOK(versions'[v])
          /\ \A p : F!Live(p)' = F!Live(p) \ o.gone
      <4>1. /\ DOMAIN versions' = DOMAIN versions
            /\ \A v \in DOMAIN versions :
                /\ versions'[v].path = versions[v].path
                /\ versions'[v].superseded <=> (v \in o.gone \/ versions[v].superseded)
                /\ VersionOK(versions'[v])
        BY <1>0, <3>1, RetiredRows
      <4> QED
        BY <4>1 DEF F!Live, F!Versions
    <3>i. \A p \in Paths : p \in DOMAIN index'[b] => index'[b][p] \in 1..clock
      BY <1>0, <3>1 DEF Shapes, F!Without
    <3>6. ASSUME AloneOK(b) PROVE Committed(b)'
      <4>1. Prepared(b)
        BY <2>1, <2>3, <3>6 DEF AloneOK
      <4>2. n.fresh = o.fresh /\ n.was = o.was
            /\ n.kind = o.kind /\ n.paths = o.paths /\ n.into = o.into
        BY <2>3, <3>5, Continued
      <4>3. o.kind = "delete" /\ o.into = {}
        BY <2>1, <2>3, <4>1 DEF Prepared, Commanded
      <4>4. ASSUME NEW p \in o.paths PROVE F!Live(p)' \subseteq purging
        BY <2>1, <2>3, <2>g, <3>r, <4>1 DEF Prepared
      <4>5. ASSUME NEW p \in o.paths, o.fresh PROVE F!Live(p)' \subseteq {o.was[p]}
        <5>1. (IF F!Current(b, p) THEN index[b][p] ELSE 0) = o.was[p]
          BY <2>1, <4>1, <4>5 DEF Prepared
        <5>2. F!Live(p)' \subseteq IF p \in retireOnly[b] THEN {} ELSE {index[b][p]}
          BY <2>1, <2>3, <3>r, <4>1 DEF Prepared
        <5>3. \A v \in F!Live(p) : ~F!Superseded(v)
          BY DEF F!Superseded, F!Live, F!Versions
        <5>4. p \in DOMAIN index[b]
          BY <2>1, <4>1, <4>3 DEF Prepared
        <5> QED
          BY <3>r, <5>1, <5>2, <5>3, <5>4 DEF F!Current
      <4> QED
        BY <2>2, <3>p, <3>4, <4>2, <4>3, <4>4, <4>5 DEF Committed
    <3>7. DOMAIN versions' \subseteq 1..clock' /\ clock' = clock
      BY <1>0, <2>3, <3>r DEF Shapes
    <3> QED
      BY <2>1, <2>2, <2>3, <3>2, <3>4, <3>5, <3>6, <3>7, <3>r, <3>i, GoesOn
  <2> QED
    BY <2>4, <2>5
<1>12. ASSUME NEW b \in Backends, F!Commit(b) PROVE CommandInv'
  <2>1. PICK o : o = op[b]
    OBVIOUS
  <2>2. PICK n : n = op'[b]
    OBVIOUS
  <2>m. PICK moved : moved = o.paths \ o.into
    OBVIOUS
  <2>g. PICK purging : purging = {index[b][p] : p \in moved \ retireOnly[b]}
    OBVIOUS
  <2>3. /\ UNCHANGED <<tool, clock>> /\ o.pc = "commit" /\ clock \in Nat
        /\ F!Busy(b) /\ Commanded(o) /\ o.at \in 1..clock
    BY <1>0, <1>12, <2>1 DEF F!Commit, Shapes, F!Busy
  <2>4. CASE ~(o.gone \subseteq F!AllLive)
    <3>1. op' = [op EXCEPT ![b] = F!Idle] /\ UNCHANGED <<versions, index, retireOnly>>
      BY <1>12, <2>1, <2>4 DEF F!Commit
    <3>2. Shapes'
      BY <1>0, <2>3, <3>1, ShapesKept DEF Shapes, F!Busy, F!Idle
    <3> QED
      BY <1>0, <2>3, <3>1, <3>2, CommandMoves DEF Shapes, F!Busy, F!Idle
  <2>5. CASE o.gone \subseteq F!AllLive
    <3>p. PICK pc : pc = IF moved \subseteq retireOnly[b] THEN "done" ELSE "purge"
      OBVIOUS
    <3>w. PICK new : new = CHOOSE p \in o.into : TRUE
      OBVIOUS
    <3>k. PICK kept : kept = IF o.kind = "create" THEN retireOnly[b] ELSE retireOnly[b] \ F!Left(b)
      OBVIOUS
    <3>1. /\ versions' = F!With(F!Retired(o.gone), o.at, [path |-> new, superseded |-> FALSE])
          /\ op' = [op EXCEPT ![b].purging = purging, ![b].pc = pc]
          /\ index' = [index EXCEPT ![b] = F!With(F!Without(index[b], moved), new, o.at)]
          /\ retireOnly' = [retireOnly EXCEPT ![b] = kept]
      BY <1>12, <2>1, <2>5, <2>m, <2>g, <3>p, <3>w, <3>k DEF F!Commit
    <3>2. /\ n = [o EXCEPT !.purging = purging, !.pc = pc]
          /\ op' = [c \in Backends |-> op'[c]]
          /\ index' = [c \in Backends |-> index'[c]]
          /\ retireOnly' = [c \in Backends |-> retireOnly'[c]]
          /\ \A c \in Backends \ {b} : index'[c] = index[c] /\ retireOnly'[c] = retireOnly[c]
                                       /\ op'[c] = op[c]
      BY <1>0, <2>1, <2>2, <3>1 DEF Shapes
    <3>3. n = [alone |-> o.alone, fresh |-> o.fresh, was |-> o.was, pc |-> pc,
               kind |-> o.kind, paths |-> o.paths, into |-> o.into, at |-> o.at,
               gone |-> o.gone, purging |-> purging]
      BY <2>3, <3>2 DEF Commanded
    <3>4. n.pc = pc /\ n.at = o.at /\ n.purging = purging /\ pc \in {"purge", "done"}
      BY <3>3, <3>p
    <3>5. Continues(n, o)
      BY <3>3, <3>4 DEF Continues, Stages
    <3>r. /\ DOMAIN versions' = DOMAIN versions \cup {o.at} /\ \A v \in DOMAIN versions' : VersionOK(versions'[v])
          /\ versions'[o.at].path = new /\ versions'[o.at].superseded = FALSE
          /\ \A v \in DOMAIN versions \ {o.at} :
                /\ versions'[v].path = versions[v].path
                /\ versions'[v].superseded <=> (v \in o.gone \/ versions[v].superseded)
      <4>1. /\ DOMAIN versions' = DOMAIN versions \cup {o.at}
            /\ \A v \in DOMAIN versions \ {o.at} : versions'[v] = F!Retired(o.gone)[v]
            /\ versions'[o.at] = [path |-> new, superseded |-> FALSE]
        BY <1>0, <3>1, RetiredRows DEF F!With
      <4>2. /\ versions'[o.at].path = new /\ versions'[o.at].superseded = FALSE
            /\ VersionOK(versions'[o.at])
        BY <4>1 DEF VersionOK
      <4>3. \A v \in DOMAIN versions \ {o.at} :
                /\ versions'[v].path = versions[v].path
                /\ versions'[v].superseded <=> (v \in o.gone \/ versions[v].superseded)
                /\ VersionOK(versions'[v])
        BY <1>0, <4>1, RetiredRows
      <4> QED
        BY <4>1, <4>2, <4>3
    <3>i. \A p \in Paths : p \in DOMAIN index'[b] => index'[b][p] \in 1..clock
      BY <1>0, <2>3, <3>1 DEF Shapes, F!With, F!Without
    <3>6. ASSUME AloneOK(b) PROVE Committed(b)'
      <4>1. Prepared(b)
        BY <2>1, <2>3, <3>6 DEF AloneOK
      <4>2. n.fresh = o.fresh /\ n.was = o.was
            /\ n.kind = o.kind /\ n.paths = o.paths /\ n.into = o.into
        BY <2>3, <3>5, Continued
      <4>3. /\ o.kind # "delete" /\ o.into = {new} /\ o.at = clock /\ clock \notin DOMAIN versions
            /\ moved \subseteq DOMAIN index[b] /\ o.paths \subseteq Paths
            /\ \A p \in Paths \cap DOMAIN index[b] : index[b][p] # clock
        BY <2>1, <2>3, <2>m, <3>w, <4>1 DEF Prepared, Commanded
      <4>4. /\ F!Versions(new)' = F!Versions(new) \cup {o.at}
            /\ F!Live(new)' = (F!Live(new) \ o.gone) \cup {o.at}
            /\ \A p : p # new => F!Live(p)' = F!Live(p) \ o.gone
        BY <3>r, <4>3 DEF F!Versions, F!Live
      <4>5. o.at \notin purging
        BY <2>g, <2>m, <4>3
      <4>6. \A v \in F!Versions(new)' : v <= o.at
        BY <1>0, <2>3, <4>3, <4>4 DEF Shapes, F!Versions
      <4>7. o.kind = "edit" => F!Live(new)' = {o.at}
        <5>1. o.kind = "edit" => F!Left(b) = {new}
          BY <2>1, <2>3, <4>3 DEF F!Left, Commanded
        <5> QED
          BY <2>1, <2>3, <4>1, <4>4, <5>1 DEF Prepared
      <4>8. ASSUME NEW p \in moved PROVE F!Live(p)' = {}
        <5>1. o.kind # "create" /\ p \in F!Left(b) /\ p # new
          BY <2>1, <2>3, <2>m, <4>3, <4>8 DEF F!Left, Commanded
        <5> QED
          BY <2>1, <2>3, <4>1, <4>4, <5>1 DEF Prepared
      <4>9. pc = "done" => purging = {}
        BY <2>g, <3>p
      <4> QED
        BY <2>2, <2>m, <3>4, <4>2, <4>3, <4>4, <4>5, <4>6, <4>7, <4>8, <4>9 DEF Committed
    <3>7. DOMAIN versions' \subseteq 1..clock' /\ clock' = clock
      BY <1>0, <2>3, <3>r DEF Shapes
    <3> QED
      BY <2>1, <2>2, <2>3, <3>2, <3>4, <3>5, <3>6, <3>7, <3>r, <3>i, GoesOn
  <2> QED
    BY <2>4, <2>5
<1>13. CASE UNCHANGED F!vars
  <2>1. Shapes'
    BY <1>0, <1>13 DEF Shapes, F!vars, F!Busy
  <2>2. ASSUME NEW b \in Backends, F!Busy(b)', op'[b].alone PROVE AloneOK(b)'
    <3>1. AloneOK(b) /\ \A c \in Backends \ {b} : ~F!Busy(c)'
      BY <1>0, <1>13, <2>2 DEF F!vars, F!Busy, AloneOK
    <3> QED
      BY <1>13, <3>1, CommandStays DEF F!vars
  <2> QED
    BY <2>1, <2>2 DEF CommandInv
<1> QED
  BY <1>1, <1>2, <1>3, <1>4, <1>5, <1>6, <1>7, <1>8, <1>9, <1>10, <1>11, <1>12, <1>13 DEF F!Next

(***************************************************************************)
(* Generated memories (GeneratedMemory).  Unless a writer read a parent    *)
(* before an erasure and wrote after it, every row lies downstream of a row*)
(* for each subject its words are of; that is the inductive invariant.     *)
(***************************************************************************)
\* Cascade, with the edges as a parameter.
ReachBy(E, ids) ==
    {r \in G!Ids : \A S \in SUBSET G!Ids :
        (ids \subseteq S /\ \A e \in E : e[2] \in S => e[1] \in S) => r \in S}

\* The ids that have been given, and the rows that name a subject.
GivenIds == {<<"original", o>> : o \in Originals \cap DOMAIN named}
         \cup {<<"generated", n>> : n \in G!Generated \cap 1..made}
Naming(s) == {r \in DOMAIN records : s \in records[r].subjects}

\* A row: names Primary, nobody erased, its words are of records stored once; unless it
\* was late, whoever such a record named is named by a row the edges lead back to
RecordOK(r) ==
    /\ records[r] = [text |-> records[r].text, subjects |-> records[r].subjects,
                  review |-> records[r].review, generated |-> records[r].generated,
                  late |-> records[r].late]
    /\ records[r].late \in BOOLEAN
    /\ Primary \in records[r].subjects /\ records[r].subjects \cap erased = {}
    /\ records[r].text \subseteq DOMAIN named
    /\ ~records[r].late => \A o \in records[r].text :
         /\ named[o] \cap erased = {}
         /\ \A s \in named[o] : r \in ReachBy(edges, Naming(s))

\* What a worker read of its cluster is what the rows of the cluster say, while all of
\* them are stored: an id is never given twice.
HoldsText(c) ==
    /\ c.cluster \subseteq GivenIds /\ c.text \subseteq DOMAIN named
    /\ c.cluster \subseteq DOMAIN records => c.text \subseteq UNION {records[r].text : r \in c.cluster}

\* What a worker holds at each step of its call.
WorkOK(c) ==
    /\ c.pc \in {"idle", "found", "generate", "parents", "commit", "chunk", "context", "edge"}
    /\ c.pc = "found" => c = [pc |-> "found", cluster |-> c.cluster] /\ c.cluster \subseteq GivenIds
    /\ c.pc \in {"generate", "parents", "commit"} => HoldsText(c)
    /\ c.pc = "commit" =>
         /\ c.late \in BOOLEAN
         /\ ~c.late => c.live = c.cluster /\
                       \A r \in c.cluster \cap DOMAIN records : ~records[r].late
    /\ c.pc \in {"chunk", "context"} =>
         /\ c = [pc |-> c.pc, o |-> c.o, subjects |-> c.subjects, contextual |-> c.contextual]
         /\ c.o \in Originals /\ Primary \in c.subjects
    /\ c.pc = "edge" => c.child \in G!Ids
    /\ c.pc = "context" => c.o \in DOMAIN named /\ named[c.o] = c.subjects

\* The inductive invariant of the rows.
ReachInv ==
    /\ made \in 0..MaxGenerated /\ DOMAIN named \subseteq Originals
    /\ DOMAIN records \subseteq GivenIds /\ \A e \in edges : e[1] \in G!Ids
    /\ work = [w \in Workers |-> work[w]]
    /\ \A r \in DOMAIN records : RecordOK(r)
    /\ \A w \in Workers : WorkOK(work[w])

\* More edges and more rows to start from reach more.
LEMMA ReachMonotone ==
    ASSUME NEW E, NEW More, NEW A, NEW B, E \subseteq More, A \subseteq B
    PROVE  ReachBy(E, A) \subseteq ReachBy(More, B)
BY DEF ReachBy

\* What one starts from is reached.
LEMMA ReachSeed ==
    ASSUME NEW E, NEW A, A \subseteq G!Ids
    PROVE  A \subseteq ReachBy(E, A)
BY DEF ReachBy

\* A child of what is reached is reached.
LEMMA ReachEdge ==
    ASSUME NEW E, NEW A, NEW e \in E, e[1] \in G!Ids, e[2] \in ReachBy(E, A)
    PROVE  e[1] \in ReachBy(E, A)
BY DEF ReachBy

\* Taking out rows with all their children, and the edges that touch them, leaves every
\* other row reached: the way to it does not pass through what was taken out.
LEMMA ReachCut ==
    ASSUME NEW E, NEW A, NEW B, NEW closed \in SUBSET G!Ids, A \ closed \subseteq B,
           \A e \in E : e[2] \in closed => e[1] \in closed,
           NEW r \in ReachBy(E, A), r \notin closed
    PROVE  r \in ReachBy({e \in E : e[1] \notin closed /\ e[2] \notin closed}, B)
<1> SUFFICES ASSUME NEW S \in SUBSET G!Ids, B \subseteq S,
                    \A e \in E : e[1] \notin closed /\ e[2] \notin closed
                                   => (e[2] \in S => e[1] \in S)
             PROVE  r \in S
  BY DEF ReachBy
<1> DEFINE U == S \cup closed
<1>1. U \in SUBSET G!Ids /\ A \subseteq U
  OBVIOUS
<1>2. ASSUME NEW e \in E, e[2] \in U PROVE e[1] \in U
  <2>1. CASE e[2] \in closed
    BY <2>1
  <2>2. CASE e[2] \notin closed /\ e[1] \notin closed
    BY <2>2, <1>2
  <2> QED
    BY <2>1, <2>2
<1>3. r \in U
  BY <1>1, <1>2 DEF ReachBy
<1> QED
  BY <1>3

\* What every step but an erasure keeps: rows and edges are only added.
RowShape(row) ==
    row = [text |-> row.text, subjects |-> row.subjects, review |-> row.review,
           generated |-> row.generated, late |-> row.late]

Grows ==
    /\ erased' = erased /\ edges \subseteq edges'
    /\ GivenIds \subseteq GivenIds'
    /\ DOMAIN named \subseteq DOMAIN named' /\ \A o \in DOMAIN named : named'[o] = named[o]
    /\ DOMAIN records \subseteq DOMAIN records'
    /\ \A r \in DOMAIN records :
         /\ records'[r].text = records[r].text /\ records'[r].subjects = records[r].subjects
         /\ records'[r].late = records[r].late /\ RowShape(records'[r])
    /\ GivenIds \cap DOMAIN records' \subseteq DOMAIN records

\* So what holds of a row goes on holding.
LEMMA RowStays ==
    ASSUME Grows, NEW r \in DOMAIN records, RecordOK(r)
    PROVE  RecordOK(r)'
<1>1. \A s : Naming(s) \subseteq Naming(s)'
  BY DEF Naming, Grows
<1>2. \A s : ReachBy(edges, Naming(s)) \subseteq ReachBy(edges', Naming(s)')
  BY <1>1, ReachMonotone DEF Grows
<1>3. PICK row : row = records'[r]
  OBVIOUS
<1>4. /\ row.text = records[r].text /\ row.subjects = records[r].subjects
      /\ row.late = records[r].late /\ RowShape(row)
  BY <1>3 DEF Grows
<1>5. /\ row.late \in BOOLEAN /\ Primary \in row.subjects /\ row.subjects \cap erased' = {}
      /\ row.text \subseteq DOMAIN named'
  BY <1>4 DEF RecordOK, Grows
<1>6. ~row.late => \A o \in row.text :
         /\ named'[o] \cap erased' = {}
         /\ \A s \in named'[o] : r \in ReachBy(edges', Naming(s)')
  BY <1>2, <1>4 DEF RecordOK, Grows
<1> QED
  BY <1>3, <1>4, <1>5, <1>6 DEF RecordOK, RowShape

\* What every step keeps, an erasure too: rows that are left hold what they held.
Lasts ==
    /\ GivenIds \subseteq GivenIds'
    /\ DOMAIN named \subseteq DOMAIN named' /\ \A o \in DOMAIN named : named'[o] = named[o]
    /\ \A r \in GivenIds \cap DOMAIN records' :
         /\ r \in DOMAIN records /\ records'[r].text = records[r].text
         /\ records'[r].late = records[r].late

\* So what holds of a worker at rest goes on holding.
LEMMA WorkStays ==
    ASSUME Lasts, NEW c, WorkOK(c)
    PROVE  WorkOK(c)'
<1>1. ASSUME HoldsText(c) PROVE HoldsText(c)'
  <2> SUFFICES ASSUME c.cluster \subseteq DOMAIN records' 
               PROVE  c.text \subseteq UNION {records'[r].text : r \in c.cluster}
    BY <1>1 DEF HoldsText, Lasts
  <2>1. \A r \in c.cluster : r \in DOMAIN records /\ records'[r].text = records[r].text
    BY <1>1 DEF HoldsText, Lasts
  <2> QED
    BY <1>1, <2>1 DEF HoldsText
<1>2. c.pc = "commit" => c.cluster \subseteq GivenIds
  BY DEF WorkOK, HoldsText
<1>3. c.pc = "commit" => WorkOK(c)'
  BY <1>1, <1>2 DEF WorkOK, Lasts
<1> QED
  BY <1>1, <1>3 DEF WorkOK, Lasts

\* The same of all workers, when one of them makes a step,
LEMMA WorkersStay ==
    ASSUME ReachInv, Lasts, NEW w \in Workers, NEW c, work' = [work EXCEPT ![w] = c], WorkOK(c)'
    PROVE  work' = [v \in Workers |-> work'[v]] /\ \A v \in Workers : WorkOK(work[v])'
<1> SUFFICES ASSUME NEW v \in Workers PROVE WorkOK(work[v])'
  BY DEF ReachInv
<1>1. PICK d : d = work'[v]
  OBVIOUS
<1>2. WorkOK(d)'
  <2>1. CASE v = w
    <3>1. d = c
      BY <1>1, <2>1 DEF ReachInv
    <3> QED
      BY <3>1
  <2>2. CASE v # w
    <3>1. d = work[v]
      BY <1>1, <2>2 DEF ReachInv
    <3>2. WorkOK(d)
      BY <3>1 DEF ReachInv
    <3> QED
      BY <3>2, WorkStays
  <2> QED
    BY <2>1, <2>2
<1> QED
  BY <1>1, <1>2 DEF WorkOK, HoldsText

\* ... and when none does.
LEMMA WorkersRest ==
    ASSUME ReachInv, Lasts, work' = work
    PROVE  work' = [v \in Workers |-> work'[v]] /\ \A v \in Workers : WorkOK(work[v])'
<1> SUFFICES ASSUME NEW v \in Workers PROVE WorkOK(work[v])'
  BY DEF ReachInv
<1>1. PICK d : d = work'[v]
  OBVIOUS
<1>2. d = work[v]
  BY <1>1
<1>3. WorkOK(d)
  BY <1>2 DEF ReachInv
<1>4. WorkOK(d)'
  BY <1>3, WorkStays
<1> QED
  BY <1>1, <1>4 DEF WorkOK, HoldsText

\* An idle worker holds nothing.
LEMMA IdleOK == WorkOK(G!Idle)
BY DEF WorkOK, G!Idle

\* At first there are no rows.
LEMMA ReachInit == G!Init => ReachInv
BY GeneratedConstants, IdleOK DEF G!Init, ReachInv, GivenIds

\* No row holds words of an erased subject, unless it was written late.
LEMMA ReachesByInv == ReachInv => G!ErasureReaches
BY DEF ReachInv, RecordOK, G!ErasureReaches

\* A row is written under an id that is new.
LEMMA RowAdded ==
    ASSUME ReachInv, NEW id \in GivenIds' \ GivenIds, NEW row, records' = G!With(records, id, row),
           RowShape(row), GivenIds \subseteq GivenIds', edges \subseteq edges', erased' = erased,
           DOMAIN named \subseteq DOMAIN named' /\ \A o \in DOMAIN named : named'[o] = named[o],
           row.late \in BOOLEAN, Primary \in row.subjects, row.subjects \cap erased = {},
           row.text \subseteq DOMAIN named',
           ~row.late => \A o \in row.text :
              /\ named'[o] \cap erased = {}
              /\ \A s \in named'[o] : id \in ReachBy(edges', Naming(s)')
    PROVE  Lasts /\ DOMAIN records' \subseteq GivenIds' /\ \A r \in DOMAIN records' : RecordOK(r)'
<1>1. /\ DOMAIN records' = DOMAIN records \cup {id} /\ records'[id] = row
      /\ \A r \in DOMAIN records : r # id /\ records'[r] = records[r]
  BY DEF G!With, ReachInv
<1>2. \A r \in DOMAIN records : RowShape(records[r]) /\ r \in GivenIds
  BY DEF ReachInv, RecordOK, RowShape
<1>3. Grows /\ Lasts
  BY <1>1, <1>2 DEF Grows, Lasts
<1>4. RecordOK(id)'
  BY <1>1 DEF RecordOK, RowShape
<1>5. ASSUME NEW r \in DOMAIN records PROVE RecordOK(r)'
  BY <1>3, <1>5, RowStays DEF ReachInv
<1> QED
  BY <1>1, <1>2, <1>3, <1>4, <1>5

\* A step that writes no row and no name.
LEMMA RowsRest ==
    ASSUME ReachInv, UNCHANGED <<records, made, named, erased>>, edges \subseteq edges'
    PROVE  /\ Lasts /\ made' \in 0..MaxGenerated /\ DOMAIN named' \subseteq Originals
           /\ DOMAIN records' \subseteq GivenIds' /\ \A r \in DOMAIN records' : RecordOK(r)'
<1>1. GivenIds' = GivenIds
  BY DEF GivenIds
<1>2. \A r \in DOMAIN records : RowShape(records[r])
  BY DEF ReachInv, RecordOK, RowShape
<1>3. Grows /\ Lasts
  BY <1>1, <1>2 DEF Grows, Lasts
<1>4. \A r \in DOMAIN records : RecordOK(r)'
  BY <1>3, RowStays DEF ReachInv
<1> QED
  BY <1>1, <1>3, <1>4 DEF ReachInv

\* The next id is new.
LEMMA NextIdNew ==
    ASSUME ReachInv, made < MaxGenerated, made' = made + 1, named' = named
    PROVE  G!NewId \in GivenIds' \ GivenIds /\ GivenIds \subseteq GivenIds' /\ made' \in 0..MaxGenerated
           /\ G!NewId \in G!Ids
<1>1. made \in Nat /\ made + 1 \in G!Generated
  BY GeneratedConstants DEF ReachInv, G!Generated
<1>2. G!NewId \in GivenIds' /\ G!NewId \in G!Ids
  BY <1>1 DEF GivenIds, G!NewId, G!Ids
<1>3. G!NewId \notin GivenIds
  BY <1>1 DEF GivenIds, G!NewId
<1>4. GivenIds \subseteq GivenIds'
  BY <1>1 DEF GivenIds
<1> QED
  BY <1>1, <1>2, <1>3, <1>4, GeneratedConstants DEF G!Generated, ReachInv

\* A record is stored for the first time.
LEMMA OriginalAdded ==
    ASSUME ReachInv, NEW o \in Originals, o \notin DOMAIN named, NEW subjects,
           Primary \in subjects, G!Writable(subjects),
           named' = G!With(named, o, subjects),
           records' = G!With(records, <<"original", o>>, G!Original(o, subjects)),
           UNCHANGED <<edges, made, erased>>
    PROVE  /\ Lasts /\ made' \in 0..MaxGenerated /\ DOMAIN named' \subseteq Originals
           /\ DOMAIN records' \subseteq GivenIds' /\ \A r \in DOMAIN records' : RecordOK(r)'
<1> DEFINE id == <<"original", o>>
<1>1. PICK row : row = G!Original(o, subjects)
  OBVIOUS
<1>2. /\ RowShape(row) /\ row.late = FALSE /\ row.text = {o} /\ row.subjects = subjects
  BY <1>1 DEF G!Original, RowShape
<1>3. /\ DOMAIN named' = DOMAIN named \cup {o} /\ named'[o] = subjects
      /\ \A x \in DOMAIN named : named'[x] = named[x]
  BY DEF G!With
<1>4. id \in GivenIds' \ GivenIds /\ GivenIds \subseteq GivenIds' /\ id \in G!Ids
  BY <1>3 DEF GivenIds, G!Ids
<1>5. id \in DOMAIN records' /\ records'[id] = row /\ DOMAIN records' \subseteq G!Ids
  <2>1. DOMAIN records \subseteq G!Ids
    BY DEF ReachInv, GivenIds, G!Ids, G!Generated
  <2> QED
    BY <1>1, <1>4, <2>1 DEF G!With
<1>6. \A s \in subjects : id \in ReachBy(edges', Naming(s)')
  <2> TAKE s \in subjects
  <2>1. id \in Naming(s)' /\ Naming(s)' \subseteq G!Ids
    BY <1>2, <1>5 DEF Naming
  <2> QED
    BY <2>1, ReachSeed
<1>7. Lasts /\ DOMAIN records' \subseteq GivenIds' /\ \A r \in DOMAIN records' : RecordOK(r)'
  BY <1>1, <1>2, <1>3, <1>4, <1>6, RowAdded DEF G!Writable
<1> QED
  BY <1>3, <1>7 DEF ReachInv

\* Every step keeps the invariant; an erasure by ReachCut.
LEMMA ReachStep == ReachInv /\ [G!Next]_G!vars => ReachInv'
<1> SUFFICES ASSUME ReachInv, [G!Next]_G!vars PROVE ReachInv'
  OBVIOUS
<1>0. \A w \in Workers : WorkOK(work[w])
  BY DEF ReachInv
<1>1. ASSUME NEW o \in Originals, NEW subjects \in G!ShapedSubjects, G!Remember(o, subjects)
      PROVE  ReachInv'
  <2>1. /\ Lasts /\ made' \in 0..MaxGenerated /\ DOMAIN named' \subseteq Originals
        /\ DOMAIN records' \subseteq GivenIds' /\ \A r \in DOMAIN records' : RecordOK(r)'
    BY <1>1, OriginalAdded DEF G!Remember, G!ShapedSubjects
  <2> QED
    BY <1>1, <2>1, WorkersRest DEF G!Remember, ReachInv
<1>2. ASSUME NEW r \in DOMAIN records, G!Review(r) PROVE ReachInv'
  <2>1. PICK state : records' = [records EXCEPT ![r].review = state]
    BY <1>2 DEF G!Review
  <2>2. GivenIds' = GivenIds
    BY <1>2 DEF G!Review, GivenIds
  <2>3. \A q \in DOMAIN records : RowShape(records[q]) /\ q \in GivenIds
    BY DEF ReachInv, RecordOK, RowShape
  <2>4. ASSUME NEW q \in DOMAIN records
        PROVE  /\ records'[q].text = records[q].text /\ records'[q].subjects = records[q].subjects
               /\ records'[q].late = records[q].late /\ RowShape(records'[q])
    <3>1. PICK old : old = records[q]
      OBVIOUS
    <3>2. PICK new : new = records'[q]
      OBVIOUS
    <3>3. CASE q = r
      <4>1. new = [old EXCEPT !.review = state] /\ RowShape(old)
        BY <2>1, <2>3, <3>1, <3>2, <3>3
      <4>2. new = [text |-> old.text, subjects |-> old.subjects, review |-> state,
                   generated |-> old.generated, late |-> old.late]
        BY <4>1 DEF RowShape
      <4> HIDE <4>1
      <4>3. /\ new.text = old.text /\ new.subjects = old.subjects /\ new.review = state
            /\ new.generated = old.generated /\ new.late = old.late
        BY <4>2
      <4>4. RowShape(new)
        BY <4>2, <4>3 DEF RowShape
      <4> QED
        BY <3>1, <3>2, <4>3, <4>4
    <3>4. CASE q # r
      <4>1. new = old
        BY <2>1, <3>1, <3>2, <3>4
      <4> QED
        BY <2>3, <3>1, <3>2, <4>1
    <3> QED
      BY <3>3, <3>4
  <2>5. Grows /\ Lasts /\ DOMAIN records' = DOMAIN records
    BY <1>2, <2>1, <2>2, <2>4 DEF G!Review, Grows, Lasts
  <2>6. \A q \in DOMAIN records : RecordOK(q)'
    BY <2>5, RowStays DEF ReachInv
  <2> QED
    BY <1>2, <2>2, <2>5, <2>6, WorkersRest DEF G!Review, ReachInv
<1>3. ASSUME NEW s \in G!Persons, G!Forget(s) PROVE ReachInv'
  <2>1. PICK gone : gone = ReachBy(edges, Naming(s))
    OBVIOUS
  <2>2. /\ records' = [r \in DOMAIN records \ gone |-> records[r]]
        /\ edges' = {e \in edges : e[1] \notin gone /\ e[2] \notin gone}
        /\ erased' = erased \cup {s} /\ UNCHANGED <<made, named, work>>
    BY <1>3, <2>1 DEF G!Forget, G!Cascade, Naming, ReachBy
  <2>3. GivenIds' = GivenIds
    BY <2>2 DEF GivenIds
  <2>4. Lasts /\ DOMAIN records' = DOMAIN records \ gone
    BY <2>2, <2>3 DEF Lasts
  <2>5. gone \in SUBSET G!Ids /\ \A e \in edges : e[2] \in gone => e[1] \in gone
    <3>1. gone \in SUBSET G!Ids
      BY <2>1 DEF ReachBy
    <3> QED
      BY <2>1, <3>1, ReachEdge DEF ReachInv
  <2>6. Naming(s) \subseteq gone
    <3>1. Naming(s) \subseteq G!Ids
      BY DEF Naming, ReachInv, GivenIds, G!Ids, G!Generated
    <3> QED
      BY <2>1, <3>1, ReachSeed
  <2>7. ASSUME NEW r \in DOMAIN records' PROVE RecordOK(r)'
    <3>1. r \in DOMAIN records /\ r \notin gone /\ records'[r] = records[r] /\ RecordOK(r)
      BY <2>2 DEF ReachInv
    <3>2. s \notin records[r].subjects
      BY <2>6, <3>1 DEF Naming
    <3>3. ASSUME ~records[r].late, NEW o \in records[r].text
          PROVE  /\ named'[o] \cap erased' = {}
                 /\ \A x \in named'[o] : r \in ReachBy(edges', Naming(x)')
      <4>1. /\ named[o] \cap erased = {}
            /\ \A x \in named[o] : r \in ReachBy(edges, Naming(x))
        BY <3>1, <3>3 DEF RecordOK
      <4>2. s \notin named[o]
        BY <2>1, <3>1, <4>1
      <4>3. ASSUME NEW x \in named[o] PROVE r \in ReachBy(edges', Naming(x)')
        <5>1. Naming(x) \ gone \subseteq Naming(x)'
          BY <2>2, <2>4 DEF Naming
        <5>2. r \in ReachBy({e \in edges : e[1] \notin gone /\ e[2] \notin gone}, Naming(x)')
          BY <2>5, <3>1, <4>1, <5>1, ReachCut
        <5> QED
          BY <2>2, <5>2
      <4> QED
        BY <2>2, <4>1, <4>2, <4>3
    <3> QED
      BY <2>2, <3>1, <3>2, <3>3 DEF RecordOK
  <2>8. made' \in 0..MaxGenerated /\ DOMAIN named' \subseteq Originals
        /\ DOMAIN records' \subseteq GivenIds' /\ \A e \in edges' : e[1] \in G!Ids
    BY <2>2, <2>3, <2>4 DEF ReachInv
  <2> QED
    BY <2>2, <2>4, <2>7, <2>8, WorkersRest DEF ReachInv
<1>4. ASSUME NEW w \in Workers, UNCHANGED <<records, edges, made, named, erased>>,
             NEW c, work' = [work EXCEPT ![w] = c], WorkOK(c)
      PROVE  ReachInv'
  <2>1. /\ Lasts /\ made' \in 0..MaxGenerated /\ DOMAIN named' \subseteq Originals
        /\ DOMAIN records' \subseteq GivenIds' /\ \A r \in DOMAIN records' : RecordOK(r)'
    BY <1>4, RowsRest
  <2>2. WorkOK(c)'
    BY <1>4, <2>1, WorkStays
  <2> QED
    BY <1>4, <2>1, <2>2, WorkersStay DEF ReachInv
<1>5. ASSUME NEW w \in Workers, NEW cluster \in SUBSET DOMAIN records, G!Find(w, cluster)
      PROVE  ReachInv'
  <2>1. PICK c : c = [pc |-> "found", cluster |-> cluster]
    OBVIOUS
  <2>2. WorkOK(c)
    BY <2>1 DEF WorkOK, ReachInv
  <2> QED
    BY <1>4, <1>5, <2>1, <2>2 DEF G!Find
<1>6. ASSUME NEW w \in Workers, G!Read(w) PROVE ReachInv'
  <2>1. PICK cluster : cluster = work[w].cluster
    OBVIOUS
  <2>2. PICK c : c = IF cluster \subseteq DOMAIN records
                     THEN [pc |-> "generate", cluster |-> cluster,
                           text |-> UNION {records[r].text : r \in cluster}]
                     ELSE G!Idle
    OBVIOUS
  <2>3. WorkOK(c)
    <3>1. CASE cluster \subseteq DOMAIN records
      <4>1. c.pc = "generate" /\ c.cluster = cluster
            /\ c.text = UNION {records[r].text : r \in cluster}
        BY <2>2, <3>1
      <4>2. \A r \in cluster : records[r].text \subseteq DOMAIN named /\ r \in GivenIds
        BY <3>1 DEF ReachInv, RecordOK
      <4> QED
        BY <4>1, <4>2 DEF WorkOK, HoldsText
    <3>2. CASE ~(cluster \subseteq DOMAIN records)
      BY <2>2, <3>2, IdleOK
    <3> QED
      BY <3>1, <3>2
  <2> QED
    BY <1>4, <1>6, <2>1, <2>2, <2>3 DEF G!Read
<1>7. ASSUME NEW w \in Workers, G!Gates(w) PROVE ReachInv'
  <2>1. PICK h : h = work[w]
    OBVIOUS
  <2>2. WorkOK(h) /\ h.pc = "generate"
    BY <1>0, <1>7, <2>1 DEF G!Gates
  <2>3. PICK c : c = [pc |-> "parents", cluster |-> h.cluster, text |-> h.text]
    OBVIOUS
  <2>4. WorkOK(c)
    BY <2>2, <2>3 DEF WorkOK, HoldsText
  <2>5. work' = [work EXCEPT ![w] = c] \/ work' = [work EXCEPT ![w] = G!Idle]
    BY <1>7, <2>1, <2>3 DEF G!Gates
  <2> QED
    BY <1>4, <1>7, <2>4, <2>5, IdleOK DEF G!Gates
<1>8. ASSUME NEW w \in Workers, G!Parents(w) PROVE ReachInv'
  <2>1. PICK h : h = work[w]
    OBVIOUS
  <2>2. WorkOK(h) /\ h.pc = "parents"
    BY <1>0, <1>8, <2>1 DEF G!Parents
  <2>l. PICK late \in BOOLEAN : late = (\E r \in h.cluster : r \notin DOMAIN records \/ records[r].late)
    OBVIOUS
  <2>3. PICK c : c = [pc |-> "commit", cluster |-> h.cluster, text |-> h.text,
                      live |-> h.cluster \cap DOMAIN records, late |-> late]
    OBVIOUS
  <2>4. c.pc = "commit" /\ c.cluster = h.cluster /\ c.text = h.text /\ c.late = late
        /\ c.live = h.cluster \cap DOMAIN records
    BY <2>3
  <2>5. WorkOK(c)
    BY <2>2, <2>l, <2>4 DEF WorkOK, HoldsText
  <2>6. work' = [work EXCEPT ![w] = c]
    BY <1>8, <2>1, <2>l, <2>3 DEF G!Parents
  <2> QED
    BY <1>4, <1>8, <2>5, <2>6 DEF G!Parents
<1>9. ASSUME NEW w \in Workers, NEW o \in Originals, NEW subjects \in G!ShapedSubjects,
             G!Prepare(w, o, subjects)
      PROVE  ReachInv'
  <2>1. PICK contextual : work' = [work EXCEPT ![w] =
           [pc |-> "chunk", o |-> o, subjects |-> subjects, contextual |-> contextual]]
    BY <1>9 DEF G!Prepare
  <2>2. PICK c : c = [pc |-> "chunk", o |-> o, subjects |-> subjects, contextual |-> contextual]
    OBVIOUS
  <2>3. WorkOK(c)
    BY <2>2 DEF WorkOK, G!ShapedSubjects
  <2> QED
    BY <1>4, <1>9, <2>1, <2>2, <2>3 DEF G!Prepare
<1>10. ASSUME NEW w \in Workers, G!Crash(w) PROVE ReachInv'
  BY <1>4, <1>10, IdleOK DEF G!Crash
<1>11. ASSUME NEW w \in Workers, G!WriteEdge(w) PROVE ReachInv'
  <2>1. PICK h : h = work[w]
    OBVIOUS
  <2>2. h.child \in G!Ids
    BY <1>0, <1>11, <2>1 DEF G!WriteEdge, WorkOK
  <2>3. edges' = edges \cup {<<h.child, h.parent>>} /\ work' = [work EXCEPT ![w] = G!Idle]
        /\ UNCHANGED <<records, made, named, erased>>
    BY <1>11, <2>1 DEF G!WriteEdge
  <2>4. /\ Lasts /\ made' \in 0..MaxGenerated /\ DOMAIN named' \subseteq Originals
        /\ DOMAIN records' \subseteq GivenIds' /\ \A r \in DOMAIN records' : RecordOK(r)'
    BY <2>3, RowsRest
  <2>5. \A e \in edges' : e[1] \in G!Ids
    BY <2>2, <2>3 DEF ReachInv
  <2>6. WorkOK(G!Idle)'
    BY <2>4, IdleOK, WorkStays
  <2> QED
    BY <2>3, <2>4, <2>5, <2>6, WorkersStay DEF ReachInv
<1>12. ASSUME NEW w \in Workers, G!Commit(w) PROVE ReachInv'
  <2>1. PICK h : h = work[w]
    OBVIOUS
  <2>2. WorkOK(h) /\ h.pc = "commit" /\ work' = [work EXCEPT ![w] = G!Idle]
        /\ UNCHANGED <<named, erased>> /\ made < MaxGenerated
    BY <1>0, <1>12, <2>1 DEF G!Commit
  <2>3. CASE UNCHANGED <<records, edges, made>>
    BY <1>4, <2>2, <2>3, IdleOK
  <2>4. CASE ~UNCHANGED <<records, edges, made>>
    <3>r. PICK row : row = G!Made(h.text, {Primary}, h.late)
      OBVIOUS
    <3>1. /\ G!Writable({Primary}) /\ h.live \subseteq DOMAIN records
          /\ made' = made + 1 /\ records' = G!With(records, G!NewId, row)
          /\ edges' = edges \cup ({G!NewId} \X h.cluster)
      BY <1>12, <2>1, <2>4, <3>r DEF G!Commit
    <3>2. /\ RowShape(row) /\ row.late = h.late /\ row.text = h.text /\ row.subjects = {Primary}
      BY <3>r DEF G!Made, RowShape
    <3>3. /\ G!NewId \in GivenIds' \ GivenIds /\ GivenIds \subseteq GivenIds' /\ made' \in 0..MaxGenerated
          /\ G!NewId \in G!Ids
      BY <2>2, <3>1, NextIdNew
    <3>4. row.late \in BOOLEAN /\ row.text \subseteq DOMAIN named /\ h.cluster \subseteq GivenIds
      BY <2>2, <3>2 DEF WorkOK, HoldsText
    <3>5. ASSUME ~h.late, NEW o \in h.text
          PROVE  /\ named[o] \cap erased = {}
                 /\ \A s \in named[o] : G!NewId \in ReachBy(edges', Naming(s)')
      <4>1. h.cluster \subseteq DOMAIN records
        BY <2>2, <3>1, <3>5 DEF WorkOK
      <4>2. PICK m \in h.cluster : o \in records[m].text
        BY <2>2, <3>5, <4>1 DEF WorkOK, HoldsText
      <4>3. m \in DOMAIN records /\ ~records[m].late /\ RecordOK(m)
        BY <2>2, <3>5, <4>1 DEF WorkOK, ReachInv
      <4>4. /\ named[o] \cap erased = {}
            /\ \A s \in named[o] : m \in ReachBy(edges, Naming(s))
        BY <4>2, <4>3 DEF RecordOK
      <4>5. ASSUME NEW s \in named[o] PROVE G!NewId \in ReachBy(edges', Naming(s)')
        <5>1. \A r \in DOMAIN records : r \in DOMAIN records' /\ records'[r] = records[r]
          BY <3>1, <3>3 DEF G!With, ReachInv
        <5>2. Naming(s) \subseteq Naming(s)'
          BY <5>1 DEF Naming
        <5>3. m \in ReachBy(edges', Naming(s)')
          BY <3>1, <4>4, <5>2, ReachMonotone
        <5>4. PICK e : e = <<G!NewId, m>>
          OBVIOUS
        <5>5. e \in edges' /\ e[1] = G!NewId /\ e[2] = m
          BY <3>1, <5>4
        <5> QED
          BY <3>3, <5>3, <5>5, ReachEdge
      <4> QED
        BY <4>4, <4>5
    <3>6. Lasts /\ DOMAIN records' \subseteq GivenIds' /\ \A r \in DOMAIN records' : RecordOK(r)'
      BY <2>2, <3>1, <3>2, <3>3, <3>4, <3>5, RowAdded DEF G!Writable
    <3>7. \A e \in edges' : e[1] \in G!Ids
      BY <3>1, <3>3 DEF ReachInv
    <3>8. WorkOK(G!Idle)'
      BY <3>6, IdleOK, WorkStays
    <3> QED
      BY <2>2, <3>3, <3>6, <3>7, <3>8, WorkersStay DEF ReachInv
  <2> QED
    BY <2>3, <2>4
<1>13. ASSUME NEW w \in Workers, G!WriteChunk(w) PROVE ReachInv'
  <2>1. PICK h : h = work[w]
    OBVIOUS
  <2>2. WorkOK(h) /\ h.pc = "chunk" /\ UNCHANGED <<edges, made, erased>>
        /\ h = [pc |-> h.pc, o |-> h.o, subjects |-> h.subjects, contextual |-> h.contextual]
        /\ h.o \in Originals /\ Primary \in h.subjects
    BY <1>0, <1>13, <2>1 DEF G!WriteChunk, WorkOK
  <2>3. CASE ~G!Writable(h.subjects) \/ h.o \in DOMAIN named
    BY <1>4, <1>13, <2>1, <2>3, IdleOK DEF G!WriteChunk
  <2>4. CASE G!Writable(h.subjects) /\ h.o \notin DOMAIN named
    <3>1. /\ records' = G!With(records, <<"original", h.o>>, G!Original(h.o, h.subjects))
          /\ named' = G!With(named, h.o, h.subjects)
          /\ work' = [work EXCEPT ![w] = IF @.contextual THEN [@ EXCEPT !.pc = "context"] ELSE G!Idle]
      BY <1>13, <2>1, <2>4 DEF G!WriteChunk
    <3>2. /\ Lasts /\ made' \in 0..MaxGenerated /\ DOMAIN named' \subseteq Originals
          /\ DOMAIN records' \subseteq GivenIds' /\ \A r \in DOMAIN records' : RecordOK(r)'
      BY <2>2, <2>4, <3>1, OriginalAdded
    <3>3. PICK c : c = IF h.contextual THEN [h EXCEPT !.pc = "context"] ELSE G!Idle
      OBVIOUS
    <3>4. work' = [work EXCEPT ![w] = c]
      BY <2>1, <3>1, <3>3
    <3>5. WorkOK(c)'
      <4>1. CASE h.contextual
        <5>1. c = [pc |-> "context", o |-> h.o, subjects |-> h.subjects,
                   contextual |-> h.contextual]
          BY <2>2, <3>3, <4>1
        <5> HIDE <3>3
        <5>2. c.pc = "context" /\ c.o = h.o /\ c.subjects = h.subjects
              /\ c.contextual = h.contextual
          BY <5>1
        <5>3. h.o \in DOMAIN named' /\ named'[h.o] = h.subjects
          BY <3>1 DEF G!With
        <5> QED
          BY <2>2, <5>1, <5>2, <5>3 DEF WorkOK
      <4>2. CASE ~h.contextual
        BY <3>2, <3>3, <4>2, IdleOK, WorkStays
      <4> QED
        BY <4>1, <4>2
    <3> QED
      BY <2>2, <3>2, <3>4, <3>5, WorkersStay DEF ReachInv
  <2> QED
    BY <2>3, <2>4
<1>14. ASSUME NEW w \in Workers, G!WriteContext(w) PROVE ReachInv'
  <2>1. PICK h : h = work[w]
    OBVIOUS
  <2>2. /\ h.pc = "context" /\ UNCHANGED <<edges, named, erased>>
        /\ h.o \in DOMAIN named /\ named[h.o] = h.subjects /\ Primary \in h.subjects
        /\ made < MaxGenerated
    BY <1>0, <1>14, <2>1 DEF G!WriteContext, WorkOK
  <2>3. CASE ~G!Writable(h.subjects)
    BY <1>4, <1>14, <2>1, <2>3, IdleOK DEF G!WriteContext, G!ContextSubjects
  <2>4. CASE G!Writable(h.subjects)
    <3>r. PICK row : row = G!Made({h.o}, h.subjects, FALSE)
      OBVIOUS
    <3>c. PICK c : c = [pc |-> "edge", child |-> G!NewId, parent |-> <<"original", h.o>>]
      OBVIOUS
    <3>1. /\ made' = made + 1 /\ records' = G!With(records, G!NewId, row)
          /\ work' = [work EXCEPT ![w] = c]
      BY <1>14, <2>1, <2>4, <3>r, <3>c DEF G!WriteContext, G!ContextSubjects
    <3>2. /\ RowShape(row) /\ row.late = FALSE /\ row.text = {h.o} /\ row.subjects = h.subjects
      BY <3>r DEF G!Made, RowShape
    <3>3. /\ G!NewId \in GivenIds' \ GivenIds /\ GivenIds \subseteq GivenIds' /\ made' \in 0..MaxGenerated
          /\ G!NewId \in G!Ids
      BY <2>2, <3>1, NextIdNew
    <3>4. G!NewId \in DOMAIN records' /\ records'[G!NewId] = row /\ DOMAIN records' \subseteq G!Ids
      <4>1. DOMAIN records \subseteq G!Ids
        BY DEF ReachInv, GivenIds, G!Ids, G!Generated
      <4> QED
        BY <3>1, <3>3, <4>1 DEF G!With
    <3>5. ASSUME NEW s \in named[h.o] PROVE G!NewId \in ReachBy(edges', Naming(s)')
      <4>1. G!NewId \in Naming(s)' /\ Naming(s)' \subseteq G!Ids
        BY <2>2, <3>2, <3>4 DEF Naming
      <4> QED
        BY <4>1, ReachSeed
    <3>6. Lasts /\ DOMAIN records' \subseteq GivenIds' /\ \A r \in DOMAIN records' : RecordOK(r)'
      BY <2>2, <2>4, <3>1, <3>2, <3>3, <3>5, RowAdded DEF G!Writable
    <3>7. WorkOK(c)
      <4>1. c.pc = "edge" /\ c.child = G!NewId
        BY <3>c
      <4> QED
        BY <3>3, <4>1 DEF WorkOK
    <3>8. WorkOK(c)'
      BY <3>6, <3>7, WorkStays
    <3> QED
      BY <2>2, <3>1, <3>3, <3>6, <3>8, WorkersStay DEF ReachInv
  <2> QED
    BY <2>3, <2>4
<1>15. CASE UNCHANGED G!vars
  <2>1. /\ Lasts /\ made' \in 0..MaxGenerated /\ DOMAIN named' \subseteq Originals
        /\ DOMAIN records' \subseteq GivenIds' /\ \A r \in DOMAIN records' : RecordOK(r)'
    BY <1>15, RowsRest DEF G!vars
  <2> QED
    BY <1>15, <2>1, WorkersRest DEF G!vars, ReachInv
<1> QED
  BY <1>1, <1>2, <1>3, <1>5, <1>6, <1>7, <1>8, <1>9, <1>10, <1>11, <1>12, <1>13, <1>14, <1>15
     DEF G!Next

(***************************************************************************)
(* Imports.  What follows is said of an importer's record r, of the pinned *)
(* files pins and of a set of rows R, so that it can be said of a step's   *)
(* outcome as well.                                                        *)
(***************************************************************************)
ImportPhases == {"idle", "look", "prior", "refresh", "purge", "reread",
                 "remember", "clean", "done"}

NoDocs == [f \in {} |-> 0]

ImportRec ==
    [pc : ImportPhases, update : BOOLEAN, contextual : BOOLEAN,
     docs : [Files -> I!Docs] \cup {NoDocs}, todo : SUBSET Files, found : BOOLEAN,
     purging : SUBSET I!Ids, refresh : SUBSET I!Ids, after : SUBSET I!Ids,
     parts : Seq(I!Parts), covered : SUBSET Files, alone : BOOLEAN]

RowSet == [id : I!Ids, body : Texts, meta : 0..1]

IdsIn(R) == {x.id : x \in R}

BaseOf(pins, f, t) == IF f \in pins THEN 0 ELSE t

\* The document in hand.
HandOf(r) == CHOOSE f \in r.todo : TRUE
DocOf(r) == r.docs[HandOf(r)]
ChunkedOf(r) == r.contextual /\ DocOf(r).text \in Long

IdOf(pins, r, p) ==
    [file |-> HandOf(r), base |-> BaseOf(pins, HandOf(r), DocOf(r).text), part |-> p]

ExistOf(pins, r) == IdOf(pins, r, IF ChunkedOf(r) THEN I!Chunk(1) ELSE I!Whole)

CurrentOf(pins, r, id) ==
    /\ id.base = BaseOf(pins, HandOf(r), DocOf(r).text)
    /\ ChunkedOf(r) = (id.part # I!Whole)

\* Ids are unique, and made of the path and the body, unless they are pinned.
RowsOK(pins, R) ==
    /\ R \subseteq RowSet
    /\ \A x, y \in R : x.id = y.id => x = y
    /\ \A x \in R : x.id.base = BaseOf(pins, x.id.file, x.body)

\* What an importer holds, whatever the others do.
HeldOK(r) ==
    /\ r.pc # "idle" => r.docs \in [Files -> I!Docs]
    /\ r.pc \notin {"idle", "done"} => r.todo # {}
    /\ r.covered \cap r.todo = {}
    /\ r.pc \in {"idle", "look", "prior", "done"} =>
         r.purging = {} /\ r.refresh = {} /\ r.after = {} /\ r.parts = <<>>
    /\ \A id \in r.purging \cup r.after : id.file = HandOf(r)
    /\ r.pc = "remember" =>
         /\ r.parts # <<>>
         /\ \/ r.parts = <<I!Whole>>
            \/ ChunkedOf(r) /\ \A n \in 1..Len(r.parts) : r.parts[n] # I!Whole
    /\ r.pc \in {"purge", "reread"} => r.refresh = {} \/ DocOf(r).meta = 0
    /\ r.pc \in {"refresh", "purge", "reread"} => r.after = {}
    /\ r.pc \in {"reread", "remember", "clean"} => r.purging = {}

HasRow(R, f) == \E x \in R : x.id.file = f

\* ... and what it may count on while no other one is under way.
LoneOK(pins, r, R) ==
    /\ r.pc = "prior" => r.found = (ExistOf(pins, r) \in IdsIn(R))
    /\ r.pc \in {"refresh", "purge"} /\ HandOf(r) \notin pins =>
         ExistOf(pins, r) \in IdsIn(R) \ r.purging
    /\ r.pc \in {"remember", "clean"} => r.after \subseteq IdsIn(R)
    /\ r.pc = "clean" => \E x \in R : x.id.file = HandOf(r) /\ x.id \notin r.after
    /\ \A f \in r.covered : HasRow(R, f)

AloneHere(i) == imp[i].pc # "idle" /\ imp[i].alone

\* The inductive invariant of NeverLost.
KeptInv ==
    /\ file \in [Files -> I!Docs]
    /\ imp \in [Importers -> ImportRec]
    /\ RowsOK(pinned, imported)
    /\ raced \in BOOLEAN
    /\ \A i \in Importers : HeldOK(imp[i])
    /\ \A i, j \in Importers : AloneHere(i) /\ i # j => imp[j].pc = "idle"
    /\ ~raced => \A i \in Importers : imp[i].pc # "idle" => imp[i].alone
    /\ \A i \in Importers : AloneHere(i) => LoneOK(pinned, imp[i], imported)
    /\ ~raced => \A f \in had \ pinned : HasRow(imported, f)

UpTo(doc, x) == x.meta = doc.meta \/ doc.meta = 0

WholeUp(doc, R, f) ==
    \E w \in R : w.id.file = f /\ w.id.part = I!Whole /\ UpTo(doc, w)

\* What UpdateBringsToDate asks of a covered file.
Brought(doc, R, f) ==
    \A x \in R : x.id.file = f =>
        /\ x.body = doc.text
        /\ UpTo(doc, x) \/ (x.id.part # I!Whole /\ WholeUp(doc, R, f))

\* The files of which it asks it.
Exact(pins) == IF faults = 0 /\ ~raced THEN Files ELSE Files \ pins

\* A row that stays is of the body in hand, and to date or about to be.
PriorOK(pins, r, x) ==
    \/ x.id \in r.purging
    \/ /\ CurrentOf(pins, r, x.id) /\ x.body = DocOf(r).text
       /\ x.id \in r.refresh \/ UpTo(DocOf(r), x)

WrittenOK(r, R, x) ==
    \/ x.id \in r.after
    \/ /\ x.body = DocOf(r).text
       /\ \/ UpTo(DocOf(r), x)
          \/ /\ x.id.part # I!Whole
             /\ \/ \E w \in R : /\ w.id.file = HandOf(r) /\ w.id.part = I!Whole
                                /\ UpTo(DocOf(r), w) /\ w.id \notin r.after
                \/ \E n \in 1..Len(r.parts) : r.parts[n] \in {I!Whole, x.id.part}

UpdateOK(pins, E, r, R) ==
    /\ r.pc = "refresh" => \A id \in r.refresh : id.file = HandOf(r)
    /\ r.pc = "clean" => r.parts = <<>>
    /\ \A f \in r.covered \cap E : Brought(r.docs[f], R, f)
    /\ r.pc \in {"refresh", "purge", "reread"} /\ HandOf(r) \in E =>
         \A x \in R : x.id.file = HandOf(r) => PriorOK(pins, r, x)
    /\ r.pc \in {"remember", "clean"} /\ HandOf(r) \in E =>
         \A x \in R : x.id.file = HandOf(r) => WrittenOK(r, R, x)

\* Each chunk row of a pinned file has its first chunk's beside it.
Led(pins, R, gone) ==
    \A x \in R : x.id.file \in pins /\ x.id.part # I!Whole /\ x.id \notin gone =>
        \E w \in R : /\ w.id.file = x.id.file /\ w.id.part = I!Chunk(1) /\ w.id \notin gone

Dropping(r) == r.purging \cup r.after

LedOK(pins, r, R) ==
    /\ r.pc \notin {"purge", "clean"} => Led(pins, R, {})
    /\ Led(pins, R, Dropping(r))
    /\ r.pc = "remember" =>
         \/ Head(r.parts) \in {I!Whole, I!Chunk(1)}
         \/ IdOf(pins, r, I!Chunk(1)) \in IdsIn(R)
    /\ \A id \in r.after : ~CurrentOf(pins, r, id)

PinsLed ==
    /\ (\A i \in Importers : imp[i].pc = "idle") => Led(pinned, imported, {})
    /\ \A i \in Importers : imp[i].pc # "idle" => LedOK(pinned, imp[i], imported)

BroughtInv ==
    /\ KeptInv
    /\ faults \in Nat
    /\ faults = 0 /\ ~raced => PinsLed
    /\ \A i \in Importers : AloneHere(i) /\ imp[i].update =>
         UpdateOK(pinned, Exact(pinned), imp[i], imported)

\* An importer's record after a step.
NextOf(r, fully) ==
    [r EXCEPT !.todo = r.todo \ {HandOf(r)}, !.found = FALSE, !.purging = {}, !.refresh = {},
              !.after = {}, !.parts = <<>>,
              !.covered = r.covered \cup IF fully THEN {HandOf(r)} ELSE {},
              !.pc = IF r.todo = {HandOf(r)} THEN "done" ELSE "look"]

WritingOf(r, later, pieces) ==
    [r EXCEPT !.pc = "remember", !.after = later, !.purging = {}, !.parts = pieces]

ChunkPieces ==
    [n \in 1..(2 * NumChunks) |-> <<(n + 1) \div 2, IF n % 2 = 1 THEN "chunk" ELSE "context">>]

DecidedOf(r, there, later) ==
    IF there THEN {NextOf(r, TRUE)}
    ELSE {WritingOf(r, later, <<I!Whole>>)} \cup
         IF ChunkedOf(r) THEN {WritingOf(r, later, ChunkPieces)} ELSE {}

OnwardOf(r, m) ==
    [r EXCEPT !.pc = IF ~(r.refresh = {} \/ m = 0) THEN "refresh"
                     ELSE IF r.purging # {} THEN "purge" ELSE "reread"]

\* What an importer's step calls on is of its record alone.
LEMMA OfRecord ==
    ASSUME NEW i \in Importers
    PROVE  /\ I!At(i) = HandOf(imp[i]) /\ I!Doc(i) = DocOf(imp[i])
           /\ I!InChunks(i) = ChunkedOf(imp[i])
           /\ I!ExistingId(i) = ExistOf(pinned, imp[i])
           /\ \A id : I!Current(i, id) = CurrentOf(pinned, imp[i], id)
           /\ \A p : I!Id(I!At(i), I!Doc(i).text, p) = IdOf(pinned, imp[i], p)
           /\ \A fully : I!Next1(i, fully) = NextOf(imp[i], fully)
           /\ \A there, later : I!Decided(i, there, later) = DecidedOf(imp[i], there, later)
           /\ \A c : I!Onward(i, c) = OnwardOf(c, DocOf(imp[i]).meta)
<1>1. I!At(i) = HandOf(imp[i])
  BY DEF I!At, HandOf
<1>2. I!Doc(i) = DocOf(imp[i])
  BY <1>1 DEF I!Doc, DocOf
<1>3. I!InChunks(i) = ChunkedOf(imp[i])
  BY <1>2 DEF I!InChunks, ChunkedOf
<1>4. \A p : I!Id(I!At(i), I!Doc(i).text, p) = IdOf(pinned, imp[i], p)
  BY <1>1, <1>2 DEF I!Id, IdOf, BaseOf
<1>5. I!ExistingId(i) = ExistOf(pinned, imp[i])
  BY <1>3, <1>4 DEF I!ExistingId, ExistOf
<1>6. ASSUME NEW id PROVE I!Current(i, id) = CurrentOf(pinned, imp[i], id)
  <2>1. I!Id(I!At(i), I!Doc(i).text, I!Whole).base
          = BaseOf(pinned, HandOf(imp[i]), DocOf(imp[i]).text)
    BY <1>1, <1>2 DEF I!Id, BaseOf
  <2> QED
    BY <1>3, <2>1 DEF I!Current, CurrentOf
<1>7. ASSUME NEW fully PROVE I!Next1(i, fully) = NextOf(imp[i], fully)
  BY <1>1 DEF I!Next1, NextOf
<1>8. ASSUME NEW there, NEW later PROVE I!Decided(i, there, later) = DecidedOf(imp[i], there, later)
  BY <1>3, <1>7 DEF I!Decided, DecidedOf, WritingOf, ChunkPieces
<1>9. ASSUME NEW c PROVE I!Onward(i, c) = OnwardOf(c, DocOf(imp[i]).meta)
  BY <1>2 DEF I!Onward, OnwardOf
<1> QED
  BY <1>1, <1>2, <1>3, <1>4, <1>5, <1>6, <1>7, <1>8, <1>9

LEMMA HandIn == ASSUME NEW r, r.todo # {} PROVE HandOf(r) \in r.todo
  BY DEF HandOf

\* Two records about the same document.
SameDoc(r, c) == c.todo = r.todo /\ c.docs = r.docs /\ c.contextual = r.contextual

LEMMA SameHand ==
    ASSUME NEW r, NEW c, SameDoc(r, c), NEW pins
    PROVE  /\ HandOf(c) = HandOf(r) /\ DocOf(c) = DocOf(r) /\ ChunkedOf(c) = ChunkedOf(r)
           /\ ExistOf(pins, c) = ExistOf(pins, r)
           /\ \A p : IdOf(pins, c, p) = IdOf(pins, r, p)
           /\ \A id : CurrentOf(pins, c, id) = CurrentOf(pins, r, id)
<1>1. HandOf(c) = HandOf(r)
  BY DEF SameDoc, HandOf
<1>2. DocOf(c) = DocOf(r) /\ ChunkedOf(c) = ChunkedOf(r)
  BY <1>1 DEF SameDoc, DocOf, ChunkedOf
<1> QED
  BY <1>1, <1>2 DEF ExistOf, IdOf, CurrentOf

\* The fields of the records above.
LEMMA NextFields ==
    ASSUME NEW r \in ImportRec, NEW fully \in BOOLEAN, r.todo # {}
    PROVE  /\ NextOf(r, fully) \in ImportRec
           /\ NextOf(r, fully).todo = r.todo \ {HandOf(r)}
           /\ NextOf(r, fully).purging = {} /\ NextOf(r, fully).refresh = {}
           /\ NextOf(r, fully).after = {} /\ NextOf(r, fully).parts = <<>>
           /\ NextOf(r, fully).covered = r.covered \cup IF fully THEN {HandOf(r)} ELSE {}
           /\ NextOf(r, fully).pc = IF r.todo = {HandOf(r)} THEN "done" ELSE "look"
           /\ NextOf(r, fully).docs = r.docs /\ NextOf(r, fully).alone = r.alone
           /\ NextOf(r, fully).update = r.update
<1>1. HandOf(r) \in Files
  BY HandIn DEF ImportRec
<1>2. <<>> \in Seq(I!Parts)
  OBVIOUS
<1> QED
  BY <1>1, <1>2 DEF NextOf, ImportRec, ImportPhases

LEMMA WritingFields ==
    ASSUME NEW r \in ImportRec, NEW later, NEW pieces
    PROVE  /\ SameDoc(r, WritingOf(r, later, pieces))
           /\ WritingOf(r, later, pieces).pc = "remember"
           /\ WritingOf(r, later, pieces).purging = {}
           /\ WritingOf(r, later, pieces).after = later
           /\ WritingOf(r, later, pieces).parts = pieces
           /\ WritingOf(r, later, pieces).covered = r.covered
           /\ WritingOf(r, later, pieces).alone = r.alone
           /\ WritingOf(r, later, pieces).update = r.update
           /\ later \subseteq I!Ids /\ pieces \in Seq(I!Parts) =>
                WritingOf(r, later, pieces) \in ImportRec
  BY DEF WritingOf, SameDoc, ImportRec, ImportPhases

LEMMA OnwardFields ==
    ASSUME NEW r \in ImportRec, NEW m
    PROVE  /\ OnwardOf(r, m) \in ImportRec /\ SameDoc(r, OnwardOf(r, m))
           /\ OnwardOf(r, m).purging = r.purging /\ OnwardOf(r, m).refresh = r.refresh
           /\ OnwardOf(r, m).after = r.after /\ OnwardOf(r, m).covered = r.covered
           /\ OnwardOf(r, m).alone = r.alone /\ OnwardOf(r, m).update = r.update
           /\ OnwardOf(r, m).pc \in {"refresh", "purge", "reread"}
           /\ OnwardOf(r, m).pc # "refresh" => r.refresh = {} \/ m = 0
           /\ OnwardOf(r, m).pc = "refresh" => r.refresh # {}
           /\ OnwardOf(r, m).pc = "reread" => r.purging = {}
  BY DEF OnwardOf, SameDoc, ImportRec, ImportPhases

\* The pieces of a long document: its chunks, the first one first, and their contexts.
LEMMA PiecesAre ==
    /\ ChunkPieces \in Seq(I!Parts) /\ Len(ChunkPieces) = 2 * NumChunks
    /\ ChunkPieces # <<>> /\ Head(ChunkPieces) = I!Chunk(1)
    /\ \A n \in 1..Len(ChunkPieces) : ChunkPieces[n] # I!Whole
    /\ \A p \in I!Parts \ {I!Whole} : \E n \in 1..Len(ChunkPieces) : ChunkPieces[n] = p
<1>n. NumChunks \in Nat \ {0}
  BY ImportConstants
<1> DEFINE kind(n) == IF n % 2 = 1 THEN "chunk" ELSE "context"
<1>1. ASSUME NEW n \in 1..(2 * NumChunks)
      PROVE  (n + 1) \div 2 \in 1..NumChunks
  BY <1>n
<1>2. ASSUME NEW n \in 1..(2 * NumChunks)
      PROVE  ChunkPieces[n] = <<(n + 1) \div 2, kind(n)>>
  BY DEF ChunkPieces
<1>3. ASSUME NEW n \in 1..(2 * NumChunks)
      PROVE  ChunkPieces[n] \in I!Parts /\ ChunkPieces[n] # I!Whole
  <2>1. ChunkPieces[n] \in (1..NumChunks) \X {"chunk", "context"}
    <3>1. (n + 1) \div 2 \in 1..NumChunks /\ kind(n) \in {"chunk", "context"}
      BY <1>1
    <3>2. <<(n + 1) \div 2, kind(n)>> \in (1..NumChunks) \X {"chunk", "context"}
      <4>1. PICK a, b : a = (n + 1) \div 2 /\ b = kind(n)
        OBVIOUS
      <4>2. a \in 1..NumChunks /\ b \in {"chunk", "context"}
        BY <3>1, <4>1
      <4>3. <<a, b>> \in (1..NumChunks) \X {"chunk", "context"}
        BY <4>2
      <4> QED
        BY <4>1, <4>3, Zenon
    <3> QED
      BY <1>2, <3>2, Zenon
  <2> QED
    BY <1>1, <1>2, <2>1 DEF I!Parts, I!Whole
<1>4. ChunkPieces \in Seq(I!Parts) /\ Len(ChunkPieces) = 2 * NumChunks
  <2>1. 2 * NumChunks \in Nat
    BY <1>n
  <2>2. ChunkPieces \in [1..(2 * NumChunks) -> I!Parts]
    BY <1>3 DEF ChunkPieces
  <2> QED
    BY <2>1, <2>2
<1>5. ChunkPieces # <<>>
  BY <1>n, <1>4
<1>6. Head(ChunkPieces) = I!Chunk(1)
  <2>1. Head(ChunkPieces) = ChunkPieces[1]
    BY <1>4, <1>5
  <2>2. 1 \in 1..(2 * NumChunks) /\ (1 + 1) \div 2 = 1 /\ kind(1) = "chunk"
    BY <1>n
  <2> QED
    BY <1>2, <2>1, <2>2 DEF I!Chunk
<1>7. ASSUME NEW p \in I!Parts \ {I!Whole}
      PROVE  \E n \in 1..(2 * NumChunks) : ChunkPieces[n] = p
  <2>1. p \in (1..NumChunks) \X {"chunk", "context"}
    BY DEF I!Parts
  <2>2. PICK k \in 1..NumChunks, kd \in {"chunk", "context"} : p = <<k, kd>>
    BY <2>1
  <2>3. CASE kd = "chunk"
    <3>1. 2 * k - 1 \in 1..(2 * NumChunks) /\ ((2 * k - 1) + 1) \div 2 = k /\ (2 * k - 1) % 2 = 1
      BY <1>n
    <3> QED
      BY <1>2, <2>2, <2>3, <3>1
  <2>4. CASE kd = "context"
    <3>1. 2 * k \in 1..(2 * NumChunks) /\ (2 * k + 1) \div 2 = k /\ (2 * k) % 2 = 0
      BY <1>n
    <3> QED
      BY <1>2, <2>2, <2>4, <3>1
  <2> QED
    BY <2>2, <2>3, <2>4
<1> QED
  BY <1>3, <1>4, <1>5, <1>6, <1>7

\* What is still to be written, once the first piece is.
LEMMA TailIs ==
    ASSUME NEW q \in Seq(I!Parts), Len(q) > 1
    PROVE  /\ Tail(q) \in Seq(I!Parts) /\ Tail(q) # <<>>
           /\ \A n \in 1..Len(Tail(q)) : n + 1 \in 1..Len(q) /\ Tail(q)[n] = q[n + 1]
           /\ \A n \in 1..Len(q) : n > 1 => n - 1 \in 1..Len(Tail(q)) /\ Tail(q)[n - 1] = q[n]
<1>1. Len(q) \in Nat /\ q # <<>>
  OBVIOUS
<1>2. Tail(q) \in Seq(I!Parts) /\ Len(Tail(q)) = Len(q) - 1
  BY <1>1
<1>3. ASSUME NEW n \in 1..(Len(q) - 1) PROVE Tail(q)[n] = q[n + 1]
  BY <1>1
<1>4. Tail(q) # <<>>
  <2>1. Len(<<>>) = 0
    OBVIOUS
  <2>2. Len(Tail(q)) # 0
    BY <1>1, <1>2
  <2> QED
    BY <2>1, <2>2
<1>5. ASSUME NEW n \in 1..Len(q), n > 1
      PROVE  n - 1 \in 1..(Len(q) - 1) /\ (n - 1) + 1 = n
  BY <1>1, <1>5
<1>6. ASSUME NEW n \in 1..Len(q), n > 1 PROVE Tail(q)[n - 1] = q[n]
  BY <1>3, <1>5, <1>6
<1>7. ASSUME NEW n \in 1..(Len(q) - 1) PROVE n + 1 \in 1..Len(q)
  BY <1>1
<1> QED
  BY <1>2, <1>3, <1>4, <1>5, <1>6, <1>7

\* Where a record goes when the rows of its document are known.
LEMMA DecidedIs ==
    ASSUME NEW r \in ImportRec, NEW later \in SUBSET I!Ids, NEW there \in BOOLEAN,
           r.todo # {}, NEW c \in DecidedOf(r, there, later)
    PROVE  \/ there /\ c = NextOf(r, TRUE)
           \/ /\ ~there
              /\ \E pieces \in Seq(I!Parts) :
                   /\ c = WritingOf(r, later, pieces) /\ pieces # <<>>
                   /\ \/ pieces = <<I!Whole>>
                      \/ ChunkedOf(r) /\ pieces = ChunkPieces
<1>1. I!Whole \in I!Parts
  BY DEF I!Parts
<1>2. <<I!Whole>> \in Seq(I!Parts) /\ <<I!Whole>> # <<>>
  BY <1>1
<1> QED
  BY <1>2, PiecesAre DEF DecidedOf

(***************************************************************************)
(* Rows after a step.                                                      *)
(***************************************************************************)
Without(R, id) == {x \in R : x.id # id}

Refreshed(R, id, m) == {IF x.id = id THEN [x EXCEPT !.meta = m] ELSE x : x \in R}

LEMMA WithoutRows ==
    ASSUME NEW pins, NEW R, RowsOK(pins, R), NEW id
    PROVE  /\ RowsOK(pins, Without(R, id))
           /\ IdsIn(Without(R, id)) = IdsIn(R) \ {id}
  BY DEF RowsOK, Without, IdsIn

\* y is what becomes of x.
Becomes(x, y, id, m) ==
    /\ y.id = x.id /\ y.body = x.body
    /\ (x.id # id /\ y = x) \/ (x.id = id /\ y.meta = m)

LEMMA RefreshedRow ==
    ASSUME NEW R, R \subseteq RowSet, NEW id, NEW m \in 0..1
    PROVE  /\ \A y \in Refreshed(R, id, m) : y \in RowSet /\ \E x \in R : Becomes(x, y, id, m)
           /\ \A x \in R : \E y \in Refreshed(R, id, m) : Becomes(x, y, id, m)
<1>1. ASSUME NEW x \in R
      PROVE  /\ [x EXCEPT !.meta = m] \in RowSet /\ [x EXCEPT !.meta = m].id = x.id
             /\ [x EXCEPT !.meta = m].body = x.body /\ [x EXCEPT !.meta = m].meta = m
  BY DEF RowSet
<1>2. ASSUME NEW y \in Refreshed(R, id, m)
      PROVE  y \in RowSet /\ \E x \in R : Becomes(x, y, id, m)
  <2>1. PICK x \in R : y = IF x.id = id THEN [x EXCEPT !.meta = m] ELSE x
    BY DEF Refreshed
  <2>2. CASE x.id = id
    BY <1>1, <2>1, <2>2 DEF Becomes
  <2>3. CASE x.id # id
    BY <2>1, <2>3 DEF Becomes
  <2> QED
    BY <2>2, <2>3
<1>3. ASSUME NEW x \in R
      PROVE  \E y \in Refreshed(R, id, m) : Becomes(x, y, id, m)
  <2>1. PICK y : y = IF x.id = id THEN [x EXCEPT !.meta = m] ELSE x
    OBVIOUS
  <2>2. y \in Refreshed(R, id, m)
    BY <2>1 DEF Refreshed
  <2>3. CASE x.id = id
    BY <1>1, <2>1, <2>2, <2>3 DEF Becomes
  <2>4. CASE x.id # id
    BY <2>1, <2>2, <2>4 DEF Becomes
  <2> QED
    BY <2>3, <2>4
<1> QED
  BY <1>2, <1>3

LEMMA RefreshedRows ==
    ASSUME NEW pins, NEW R, RowsOK(pins, R), NEW id, NEW m \in 0..1
    PROVE  /\ RowsOK(pins, Refreshed(R, id, m))
           /\ IdsIn(Refreshed(R, id, m)) = IdsIn(R)
           /\ \A f : HasRow(R, f) => HasRow(Refreshed(R, id, m), f)
<1>s. R \subseteq RowSet
  BY DEF RowsOK
<1>1. ASSUME NEW y \in Refreshed(R, id, m)
      PROVE  y.id \in IdsIn(R) /\ y \in RowSet /\ y.id.base = BaseOf(pins, y.id.file, y.body)
  <2>1. y \in RowSet /\ \E x \in R : Becomes(x, y, id, m)
    BY <1>s, RefreshedRow
  <2> QED
    BY <2>1 DEF RowsOK, IdsIn, Becomes
<1>2. ASSUME NEW y \in Refreshed(R, id, m), NEW z \in Refreshed(R, id, m), y.id = z.id
      PROVE  y = z
  <2>1. PICK x \in R : /\ x.id = y.id /\ y \in RowSet
                       /\ y = IF x.id = id THEN [x EXCEPT !.meta = m] ELSE x
    <3>1. PICK x \in R : y = IF x.id = id THEN [x EXCEPT !.meta = m] ELSE x
      BY DEF Refreshed
    <3> QED
      BY <1>s, <3>1 DEF RowSet
  <2>2. PICK w \in R : w.id = z.id /\ z = IF w.id = id THEN [w EXCEPT !.meta = m] ELSE w
    <3>1. PICK w \in R : z = IF w.id = id THEN [w EXCEPT !.meta = m] ELSE w
      BY DEF Refreshed
    <3> QED
      BY <1>s, <3>1 DEF RowSet
  <2>3. x = w
    BY <1>2, <2>1, <2>2 DEF RowsOK
  <2> QED
    BY <2>1, <2>2, <2>3
<1>3. ASSUME NEW x \in R PROVE \E y \in Refreshed(R, id, m) : y.id = x.id
  <2>1. \E y \in Refreshed(R, id, m) : Becomes(x, y, id, m)
    BY <1>s, RefreshedRow
  <2> QED
    BY <2>1 DEF Becomes
<1>4. IdsIn(Refreshed(R, id, m)) = IdsIn(R)
  <2>1. IdsIn(Refreshed(R, id, m)) \subseteq IdsIn(R)
    BY <1>1 DEF IdsIn
  <2>2. IdsIn(R) \subseteq IdsIn(Refreshed(R, id, m))
    BY <1>3 DEF IdsIn
  <2> QED
    BY <2>1, <2>2
<1>5. \A f : HasRow(R, f) => HasRow(Refreshed(R, id, m), f)
  BY <1>3 DEF HasRow
<1> QED
  BY <1>1, <1>2, <1>4, <1>5 DEF RowsOK

\* A row written of the document in hand.
RowFor(pins, r, p) == [id |-> IdOf(pins, r, p), body |-> DocOf(r).text, meta |-> DocOf(r).meta]

LEMMA DocIs ==
    ASSUME NEW r \in ImportRec, HeldOK(r), r.pc \notin {"idle", "done"}
    PROVE  /\ HandOf(r) \in r.todo /\ HandOf(r) \in Files /\ DocOf(r) \in I!Docs
           /\ DocOf(r).text \in Texts /\ DocOf(r).meta \in 0..1
           /\ HandOf(r) \notin r.covered
<1>1. HandOf(r) \in r.todo /\ r.todo \subseteq Files
  BY HandIn DEF HeldOK, ImportRec
<1>2. DocOf(r) \in I!Docs
  BY <1>1 DEF DocOf, HeldOK
<1> QED
  BY <1>1, <1>2 DEF HeldOK, I!Docs

LEMMA RowForIs ==
    ASSUME NEW r \in ImportRec, HeldOK(r), r.pc \notin {"idle", "done"}, NEW p \in I!Parts, NEW pins
    PROVE  /\ RowFor(pins, r, p) \in RowSet
           /\ RowFor(pins, r, p).id = IdOf(pins, r, p) /\ RowFor(pins, r, p).id.file = HandOf(r)
           /\ RowFor(pins, r, p).id.part = p
           /\ RowFor(pins, r, p).body = DocOf(r).text /\ RowFor(pins, r, p).meta = DocOf(r).meta
           /\ RowFor(pins, r, p).id.base = BaseOf(pins, HandOf(r), DocOf(r).text)
           /\ IdOf(pins, r, p) \in I!Ids
<1>1. /\ HandOf(r) \in Files /\ DocOf(r).text \in Texts /\ DocOf(r).meta \in 0..1
  BY DocIs
<1>2. IdOf(pins, r, p) \in I!Ids
  BY <1>1 DEF IdOf, I!Ids, BaseOf
<1> QED
  BY <1>1, <1>2 DEF RowFor, RowSet, IdOf

LEMMA AddedRows ==
    ASSUME NEW r \in ImportRec, HeldOK(r), r.pc \notin {"idle", "done"}, NEW p \in I!Parts,
           NEW pins, NEW R, RowsOK(pins, R), IdOf(pins, r, p) \notin IdsIn(R)
    PROVE  /\ RowsOK(pins, R \cup {RowFor(pins, r, p)})
           /\ IdsIn(R \cup {RowFor(pins, r, p)}) = IdsIn(R) \cup {IdOf(pins, r, p)}
<1>1. PICK x : x = RowFor(pins, r, p)
  OBVIOUS
<1>2. /\ x \in RowSet /\ x.id = IdOf(pins, r, p) /\ x.id \notin IdsIn(R)
      /\ x.id.base = BaseOf(pins, x.id.file, x.body)
  BY <1>1, RowForIs
<1>3. RowsOK(pins, R \cup {x}) /\ IdsIn(R \cup {x}) = IdsIn(R) \cup {x.id}
  BY <1>2 DEF RowsOK, IdsIn
<1> QED
  BY <1>1, <1>2, <1>3

(***************************************************************************)
(* An importer after a step.                                               *)
(***************************************************************************)
Underway(r) == r \in ImportRec /\ HeldOK(r) /\ r.pc \notin {"idle", "done"}

CoveredKept(r, R) == \A f \in r.covered : HasRow(R, f)

LEMMA NextHeld ==
    ASSUME NEW r, Underway(r), NEW fully \in BOOLEAN
    PROVE  NextOf(r, fully) \in ImportRec /\ HeldOK(NextOf(r, fully))
<1>0. r \in ImportRec /\ HeldOK(r) /\ r.pc \notin {"idle", "done"} /\ r.todo # {}
  BY DEF Underway, HeldOK
<1>1. PICK c : c = NextOf(r, fully)
  OBVIOUS
<1>2. /\ c \in ImportRec
      /\ c.todo = r.todo \ {HandOf(r)} /\ c.docs = r.docs
      /\ c.purging = {} /\ c.refresh = {} /\ c.after = {} /\ c.parts = <<>>
      /\ c.covered = r.covered \cup IF fully THEN {HandOf(r)} ELSE {}
      /\ c.pc = IF r.todo = {HandOf(r)} THEN "done" ELSE "look"
  BY <1>0, <1>1, NextFields
<1>3. r.docs \in [Files -> I!Docs] /\ r.covered \cap r.todo = {} /\ HandOf(r) \in r.todo
  BY <1>0, HandIn DEF HeldOK
<1>4. c.todo # {} \/ c.pc = "done"
  BY <1>2, <1>3
<1>5. c.covered \cap c.todo = {}
  BY <1>2, <1>3
<1> QED
  BY <1>1, <1>2, <1>3, <1>4, <1>5 DEF HeldOK

LEMMA NextAlone ==
    ASSUME NEW r, Underway(r), NEW fully \in BOOLEAN, NEW pins, NEW R, CoveredKept(r, R),
           fully => HasRow(R, HandOf(r))
    PROVE  LoneOK(pins, NextOf(r, fully), R)
<1>0. r \in ImportRec /\ r.todo # {}
  BY DEF Underway, HeldOK
<1>1. PICK c : c = NextOf(r, fully)
  OBVIOUS
<1>2. /\ c.covered = r.covered \cup IF fully THEN {HandOf(r)} ELSE {}
      /\ c.pc = IF r.todo = {HandOf(r)} THEN "done" ELSE "look"
  BY <1>0, <1>1, NextFields
<1> QED
  BY <1>1, <1>2 DEF LoneOK, CoveredKept

\* What an import writes: the whole of a document, or its chunks and their contexts.
Pieces(r, pieces) ==
    /\ pieces \in Seq(I!Parts) /\ pieces # <<>>
    /\ \/ pieces = <<I!Whole>>
       \/ ChunkedOf(r) /\ \A n \in 1..Len(pieces) : pieces[n] # I!Whole

OfHand(r, ids) == ids \in SUBSET I!Ids /\ \A id \in ids : id.file = HandOf(r)

LEMMA WritingHeld ==
    ASSUME NEW r, Underway(r), NEW later, OfHand(r, later), NEW pieces, Pieces(r, pieces)
    PROVE  /\ WritingOf(r, later, pieces) \in ImportRec
           /\ HeldOK(WritingOf(r, later, pieces))
<1>0. r \in ImportRec /\ HeldOK(r) /\ r.pc \notin {"idle", "done"} /\ r.todo # {}
  BY DEF Underway, HeldOK
<1>1. PICK c : c = WritingOf(r, later, pieces)
  OBVIOUS
<1>2. /\ c \in ImportRec /\ SameDoc(r, c) /\ c.pc = "remember" /\ c.purging = {}
      /\ c.after = later /\ c.parts = pieces /\ c.covered = r.covered
  BY <1>0, <1>1, WritingFields DEF OfHand, Pieces
<1>3. HandOf(c) = HandOf(r) /\ ChunkedOf(c) = ChunkedOf(r)
  BY <1>2, SameHand
<1> QED
  BY <1>0, <1>1, <1>2, <1>3 DEF HeldOK, SameDoc, OfHand, Pieces

LEMMA DecidedHeld ==
    ASSUME NEW r, Underway(r), NEW there \in BOOLEAN, NEW later, OfHand(r, later),
           NEW c \in DecidedOf(r, there, later)
    PROVE  c \in ImportRec /\ HeldOK(c) /\ c.alone = r.alone /\ c.update = r.update
<1>0. r \in ImportRec /\ r.todo # {} /\ later \in SUBSET I!Ids
  BY DEF Underway, HeldOK, OfHand
<1>1. CASE there /\ c = NextOf(r, TRUE)
  BY <1>0, <1>1, NextHeld, NextFields
<1>2. ASSUME NEW pieces \in Seq(I!Parts), c = WritingOf(r, later, pieces), pieces # <<>>,
             \/ pieces = <<I!Whole>>
             \/ ChunkedOf(r) /\ pieces = ChunkPieces
      PROVE  c \in ImportRec /\ HeldOK(c) /\ c.alone = r.alone /\ c.update = r.update
  <2>1. Pieces(r, pieces)
    BY <1>2, PiecesAre DEF Pieces
  <2>2. /\ WritingOf(r, later, pieces) \in ImportRec /\ HeldOK(WritingOf(r, later, pieces))
    BY <2>1, WritingHeld
  <2>3. /\ WritingOf(r, later, pieces).alone = r.alone
        /\ WritingOf(r, later, pieces).update = r.update
    BY <1>0, WritingFields
  <2> QED
    BY <1>2, <2>2, <2>3
<1> QED
  BY <1>0, <1>1, <1>2, DecidedIs

LEMMA DecidedAlone ==
    ASSUME NEW r, Underway(r), NEW there \in BOOLEAN, NEW later, OfHand(r, later),
           NEW c \in DecidedOf(r, there, later), NEW pins, NEW R, CoveredKept(r, R),
           there => HasRow(R, HandOf(r)), later \subseteq IdsIn(R)
    PROVE  LoneOK(pins, c, R)
<1>0. r \in ImportRec /\ r.todo # {} /\ later \in SUBSET I!Ids
  BY DEF Underway, HeldOK, OfHand
<1>1. CASE there /\ c = NextOf(r, TRUE)
  BY <1>0, <1>1, NextAlone
<1>2. ASSUME NEW pieces \in Seq(I!Parts), c = WritingOf(r, later, pieces)
      PROVE  LoneOK(pins, c, R)
  <2>1. /\ WritingOf(r, later, pieces).pc = "remember"
        /\ WritingOf(r, later, pieces).after = later
        /\ WritingOf(r, later, pieces).covered = r.covered
    BY <1>0, WritingFields
  <2>2. c.pc = "remember" /\ c.after = later /\ c.covered = r.covered
    BY <1>2, <2>1
  <2> QED
    BY <2>2 DEF LoneOK, CoveredKept
<1> QED
  BY <1>0, <1>1, <1>2, DecidedIs

LEMMA OnwardHeld ==
    ASSUME NEW r, Underway(r), NEW x \in ImportRec, SameDoc(r, x), x.covered = r.covered,
           OfHand(r, x.purging), x.after = {}
    PROVE  /\ OnwardOf(x, DocOf(r).meta) \in ImportRec
           /\ HeldOK(OnwardOf(x, DocOf(r).meta))
           /\ SameDoc(r, OnwardOf(x, DocOf(r).meta))
<1>1. PICK c : c = OnwardOf(x, DocOf(r).meta)
  OBVIOUS
<1>2. /\ c \in ImportRec /\ SameDoc(x, c)
      /\ c.purging = x.purging /\ c.refresh = x.refresh /\ c.after = {} /\ c.covered = r.covered
      /\ c.pc \in {"refresh", "purge", "reread"}
      /\ c.pc # "refresh" => x.refresh = {} \/ DocOf(r).meta = 0
      /\ c.pc = "reread" => x.purging = {}
  BY <1>1, OnwardFields
<1>3. SameDoc(r, c)
  BY <1>2 DEF SameDoc
<1>4. HandOf(c) = HandOf(r) /\ DocOf(c) = DocOf(r)
  BY <1>3, SameHand
<1>5. /\ r.docs \in [Files -> I!Docs] /\ r.todo # {} /\ r.covered \cap r.todo = {}
  BY DEF Underway, HeldOK
<1> QED
  BY <1>1, <1>2, <1>3, <1>4, <1>5 DEF HeldOK, SameDoc, OfHand

LEMMA OnwardAlone ==
    ASSUME NEW r, Underway(r), NEW x \in ImportRec, SameDoc(r, x), x.covered = r.covered,
           NEW pins, NEW R, CoveredKept(r, R),
           HandOf(r) \notin pins => ExistOf(pins, r) \in IdsIn(R) \ x.purging
    PROVE  LoneOK(pins, OnwardOf(x, DocOf(r).meta), R)
<1>1. PICK c : c = OnwardOf(x, DocOf(r).meta)
  OBVIOUS
<1>2. /\ SameDoc(x, c) /\ c.purging = x.purging /\ c.covered = r.covered
      /\ c.pc \in {"refresh", "purge", "reread"}
  BY <1>1, OnwardFields
<1>3. SameDoc(r, c)
  BY <1>2 DEF SameDoc
<1>4. HandOf(c) = HandOf(r) /\ ExistOf(pins, c) = ExistOf(pins, r)
  BY <1>3, SameHand
<1> QED
  BY <1>1, <1>2, <1>4 DEF LoneOK, CoveredKept

(***************************************************************************)
(* No file that a report covered loses its rows.                           *)
(***************************************************************************)
LEMMA IdleHeld ==
    /\ I!Idle \in ImportRec /\ HeldOK(I!Idle) /\ I!Idle.pc = "idle"
    /\ \A pins, R : LoneOK(pins, I!Idle, R)
<1>1. <<>> \in Seq(I!Parts)
  OBVIOUS
<1> QED
  BY <1>1 DEF I!Idle, NoDocs, ImportRec, ImportPhases, HeldOK, LoneOK

LEMMA KeptInit == I!Init => KeptInv
<1> SUFFICES ASSUME I!Init PROVE KeptInv
  OBVIOUS
<1>1. file \in [Files -> I!Docs]
  BY DEF I!Init, I!Docs
<1>2. \A i \in Importers : imp[i] = I!Idle
  BY DEF I!Init
<1>3. imp \in [Importers -> ImportRec]
  BY IdleHeld DEF I!Init
<1>4. RowsOK(pinned, imported)
  BY DEF I!Init, RowsOK
<1> QED
  BY <1>1, <1>2, <1>3, <1>4, IdleHeld DEF KeptInv, AloneHere, I!Init

\* No file but a pinned one loses its rows.
Keeps(pins, R, S2) == \A f : f \notin pins /\ HasRow(R, f) => HasRow(S2, f)

\* One importer takes a step of its import; others see it only if it is not alone.
LEMMA ImporterMoves ==
    ASSUME KeptInv, NEW i \in Importers, imp[i].pc # "idle", NEW c \in ImportRec,
           imp' = [imp EXCEPT ![i] = c], UNCHANGED <<pinned, file, raced, had>>,
           HeldOK(c), RowsOK(pinned, imported'),
           c.pc = "idle" \/ c.alone = imp[i].alone,
           AloneHere(i) => LoneOK(pinned, c, imported') /\ Keeps(pinned, imported, imported')
    PROVE  KeptInv'
<1>1. imp' \in [Importers -> ImportRec] /\ imp'[i] = c /\ \A j \in Importers \ {i} : imp'[j] = imp[j]
  BY DEF KeptInv
<1>2. AloneHere(i)' => AloneHere(i)
  BY <1>1 DEF AloneHere
<1>3. \A j \in Importers : AloneHere(j) /\ j # i => FALSE
  BY DEF KeptInv
<1>4. \A j \in Importers \ {i} : AloneHere(j)' = AloneHere(j)
  BY <1>1 DEF AloneHere
<1>5. \A j \in Importers : HeldOK(imp'[j])
  BY <1>1 DEF KeptInv
<1>6. ASSUME NEW j \in Importers, NEW k \in Importers, AloneHere(j)', j # k
      PROVE  imp'[k].pc = "idle"
  <2>1. j = i
    BY <1>3, <1>4, <1>6
  <2>2. imp[k].pc = "idle"
    BY <1>2, <1>6, <2>1 DEF KeptInv
  <2> QED
    BY <1>1, <1>6, <2>1, <2>2
<1>7. ASSUME ~raced, NEW j \in Importers, imp'[j].pc # "idle" PROVE imp'[j].alone
  <2>1. \A k \in Importers : imp[k].pc # "idle" => imp[k].alone
    BY <1>7 DEF KeptInv
  <2> QED
    BY <1>1, <1>7, <2>1
<1>8. ASSUME NEW j \in Importers, AloneHere(j)' PROVE LoneOK(pinned, imp'[j], imported')
  <2>1. j = i
    BY <1>3, <1>4, <1>8
  <2> QED
    BY <1>1, <1>2, <1>8, <2>1
<1>9. ASSUME ~raced, NEW f \in had \ pinned PROVE HasRow(imported', f)
  <2>1. AloneHere(i)
    BY <1>9 DEF KeptInv, AloneHere
  <2>2. HasRow(imported, f)
    BY <1>9 DEF KeptInv
  <2> QED
    BY <1>9, <2>1, <2>2 DEF Keeps
<1>10. file' \in [Files -> I!Docs] /\ raced' \in BOOLEAN /\ pinned' = pinned /\ raced' = raced /\ had' = had
  BY DEF KeptInv
<1> HIDE DEF KeptInv
<1> QED
  BY <1>1, <1>5, <1>6, <1>7, <1>8, <1>9, <1>10 DEF KeptInv

\* The rows are as they were.
LEMMA ImporterTurns ==
    ASSUME KeptInv, NEW i \in Importers, imp[i].pc # "idle", NEW c \in ImportRec,
           imp' = [imp EXCEPT ![i] = c], UNCHANGED <<pinned, file, imported, raced, had>>,
           HeldOK(c), c.pc = "idle" \/ c.alone = imp[i].alone,
           AloneHere(i) => LoneOK(pinned, c, imported)
    PROVE  KeptInv'
<1>1. RowsOK(pinned, imported') /\ imported' = imported
  BY DEF KeptInv
<1>2. AloneHere(i) => LoneOK(pinned, c, imported') /\ Keeps(pinned, imported, imported')
  BY <1>1 DEF Keeps
<1> QED
  BY <1>1, <1>2, ImporterMoves

\* An importer under way, and what it may count on if it is alone.
LEMMA ImporterIs ==
    ASSUME KeptInv, NEW i \in Importers
    PROVE  /\ imp[i] \in ImportRec /\ HeldOK(imp[i])
           /\ imp[i].pc \notin {"idle", "done"} => Underway(imp[i])
           /\ AloneHere(i) => LoneOK(pinned, imp[i], imported) /\ CoveredKept(imp[i], imported)
  BY DEF KeptInv, Underway, LoneOK, CoveredKept

LEMMA EditKeeps == ASSUME KeptInv, NEW f \in Files, I!Edit(f) PROVE KeptInv'
<1>1. file' \in [Files -> I!Docs]
  BY DEF I!Edit, KeptInv
<1>2. UNCHANGED <<pinned, imported, imp, had, raced>>
  BY DEF I!Edit
<1> QED
  BY <1>1, <1>2 DEF KeptInv, AloneHere

LEMMA StartKeeps == ASSUME KeptInv, NEW i \in Importers, I!Start(i) PROVE KeptInv'
<1>1. PICK update \in BOOLEAN, contextual \in BOOLEAN :
        imp' = [j \in Importers |->
                  IF j = i
                  THEN [I!Idle EXCEPT !.pc = "look", !.update = update, !.docs = file,
                           !.contextual = contextual, !.todo = Files,
                           !.alone = {k \in Importers : imp[k].pc # "idle"} = {}]
                  ELSE [imp[j] EXCEPT !.alone = imp[j].alone /\ imp[j].pc = "idle"]]
  BY DEF I!Start
<1>2. /\ imp[i].pc = "idle" /\ raced' = (raced \/ \E j \in Importers : imp[j].pc # "idle")
      /\ UNCHANGED <<pinned, file, imported, had>>
  BY DEF I!Start
<1>3. PICK c : c = imp'[i]
  OBVIOUS
<1>4. /\ c \in ImportRec /\ c.pc = "look" /\ c.docs = file /\ c.todo = Files /\ c.covered = {}
      /\ c.purging = {} /\ c.refresh = {} /\ c.after = {} /\ c.parts = <<>>
      /\ c.alone = ({k \in Importers : imp[k].pc # "idle"} = {}) /\ c.update = update
  <2>1. <<>> \in Seq(I!Parts)
    OBVIOUS
  <2>2. c = [I!Idle EXCEPT !.pc = "look", !.update = update, !.docs = file,
               !.contextual = contextual, !.todo = Files,
               !.alone = {k \in Importers : imp[k].pc # "idle"} = {}]
    BY <1>1, <1>3
  <2> QED
    BY <2>1, <2>2 DEF I!Idle, ImportRec, ImportPhases, KeptInv
<1>5. HeldOK(c) /\ LoneOK(pinned, c, imported)
  BY <1>4, ImportConstants DEF HeldOK, LoneOK, KeptInv
<1>6. ASSUME NEW j \in Importers, j # i
      PROVE  /\ imp'[j] \in ImportRec /\ imp'[j].pc = imp[j].pc
             /\ imp'[j].alone = (imp[j].alone /\ imp[j].pc = "idle")
             /\ HeldOK(imp'[j])
  <2>1. PICK x : x = imp'[j]
    OBVIOUS
  <2>2. imp[j] \in ImportRec /\ HeldOK(imp[j])
    BY DEF KeptInv
  <2>3. x = [imp[j] EXCEPT !.alone = imp[j].alone /\ imp[j].pc = "idle"]
    BY <1>1, <1>6, <2>1
  <2>4. /\ x \in ImportRec /\ x.pc = imp[j].pc /\ x.alone = (imp[j].alone /\ imp[j].pc = "idle")
        /\ SameDoc(imp[j], x) /\ x.covered = imp[j].covered /\ x.purging = imp[j].purging
        /\ x.refresh = imp[j].refresh /\ x.after = imp[j].after /\ x.parts = imp[j].parts
    BY <2>2, <2>3 DEF ImportRec, SameDoc
  <2>5. HandOf(x) = HandOf(imp[j]) /\ DocOf(x) = DocOf(imp[j]) /\ ChunkedOf(x) = ChunkedOf(imp[j])
    BY <2>4, SameHand
  <2>6. HeldOK(x)
    BY <2>2, <2>4, <2>5 DEF HeldOK, SameDoc
  <2> QED
    BY <2>1, <2>4, <2>6
<1>7. imp' \in [Importers -> ImportRec] /\ \A j \in Importers : HeldOK(imp'[j])
  <2>1. imp' = [j \in Importers |-> imp'[j]]
    BY <1>1
  <2> QED
    BY <1>3, <1>4, <1>5, <1>6, <2>1
<1>8. ASSUME NEW j \in Importers, AloneHere(j)'
      PROVE  j = i /\ \A k \in Importers : imp[k].pc = "idle"
  <2>1. j = i
    BY <1>6, <1>8 DEF AloneHere
  <2> QED
    BY <1>3, <1>4, <1>8, <2>1 DEF AloneHere
<1>9. ASSUME NEW j \in Importers, NEW k \in Importers, AloneHere(j)', j # k
      PROVE  imp'[k].pc = "idle"
  BY <1>6, <1>8, <1>9
<1>10. ASSUME ~raced', NEW j \in Importers, imp'[j].pc # "idle" PROVE imp'[j].alone
  <2>1. \A k \in Importers : imp[k].pc = "idle"
    BY <1>2, <1>10
  <2> QED
    BY <1>3, <1>4, <1>6, <1>10, <2>1
<1>11. ASSUME NEW j \in Importers, AloneHere(j)' PROVE LoneOK(pinned, imp'[j], imported)
  BY <1>3, <1>5, <1>8, <1>11
<1>12. ~raced' => \A f \in had \ pinned : HasRow(imported, f)
  BY <1>2 DEF KeptInv
<1>13. /\ file' \in [Files -> I!Docs] /\ RowsOK(pinned, imported) /\ raced' \in BOOLEAN
  BY <1>2 DEF KeptInv
<1> QED
  BY <1>2, <1>7, <1>9, <1>10, <1>11, <1>12, <1>13 DEF KeptInv

\* Where a document stands when its rows are looked up again.
LEMMA DecidedKeeps ==
    ASSUME KeptInv, NEW i \in Importers, imp[i].pc \notin {"idle", "done"},
           NEW there \in BOOLEAN, NEW later, OfHand(imp[i], later),
           NEW c \in DecidedOf(imp[i], there, later), imp' = [imp EXCEPT ![i] = c],
           UNCHANGED <<pinned, file, imported, raced, had>>,
           AloneHere(i) => /\ there => HasRow(imported, HandOf(imp[i]))
                           /\ later \subseteq IdsIn(imported)
    PROVE  KeptInv'
<1>1. Underway(imp[i]) /\ imp[i].pc # "idle"
  BY ImporterIs
<1>2. c \in ImportRec /\ HeldOK(c) /\ c.alone = imp[i].alone
  BY <1>1, DecidedHeld
<1>3. AloneHere(i) => LoneOK(pinned, c, imported)
  BY <1>1, ImporterIs, DecidedAlone
<1> QED
  BY <1>1, <1>2, <1>3, ImporterTurns

LEMMA StoredIs == I!Stored = IdsIn(imported)
  BY DEF I!Stored, IdsIn

LEMMA ExistHand ==
    ASSUME NEW pins, NEW r, NEW R, ExistOf(pins, r) \in IdsIn(R)
    PROVE  HasRow(R, HandOf(r))
<1>1. ExistOf(pins, r).file = HandOf(r)
  BY DEF ExistOf, IdOf
<1> QED
  BY <1>1 DEF IdsIn, HasRow

LEMMA LookKeeps == ASSUME KeptInv, NEW i \in Importers, I!Look(i) PROVE KeptInv'
<1>1. imp[i].pc = "look" /\ UNCHANGED <<pinned, file, imported, raced, had>>
  BY DEF I!Look
<1>2. Underway(imp[i]) /\ imp[i] \in ImportRec /\ HeldOK(imp[i])
  BY <1>1, ImporterIs
<1>3. PICK there : there = (ExistOf(pinned, imp[i]) \in IdsIn(imported))
  OBVIOUS
<1>b. there \in BOOLEAN
  BY <1>3
<1>4. CASE imp[i].update
  <2>1. PICK c : c = [imp[i] EXCEPT !.found = there, !.pc = "prior"]
    OBVIOUS
  <2>2. imp' = [imp EXCEPT ![i] = c]
    BY <1>3, <1>4, <2>1, OfRecord, StoredIs DEF I!Look
  <2>3. /\ c \in ImportRec /\ c.pc = "prior" /\ c.found = there /\ SameDoc(imp[i], c)
        /\ c.covered = imp[i].covered /\ c.alone = imp[i].alone
        /\ c.purging = imp[i].purging /\ c.refresh = imp[i].refresh /\ c.after = imp[i].after
        /\ c.parts = imp[i].parts
    BY <1>b, <1>2, <2>1 DEF ImportRec, ImportPhases, SameDoc
  <2>4. HeldOK(c)
    BY <1>1, <1>2, <2>3 DEF HeldOK, SameDoc
  <2>5. ExistOf(pinned, c) = ExistOf(pinned, imp[i])
    BY <2>3, SameHand
  <2>6. AloneHere(i) => LoneOK(pinned, c, imported)
    BY <1>3, <2>3, <2>5, ImporterIs DEF LoneOK, CoveredKept
  <2> QED
    BY <1>1, <2>2, <2>3, <2>4, <2>6, ImporterTurns
<1>5. CASE ~imp[i].update
  <2>1. PICK c \in DecidedOf(imp[i], there, {}) : imp' = [imp EXCEPT ![i] = c]
    BY <1>3, <1>5, OfRecord, StoredIs DEF I!Look
  <2>2. OfHand(imp[i], {}) /\ {} \subseteq IdsIn(imported)
    BY DEF OfHand
  <2>3. there => HasRow(imported, HandOf(imp[i]))
    BY <1>3, ExistHand
  <2> QED
    BY <1>b, <1>1, <2>1, <2>2, <2>3, DecidedKeeps
<1> QED
  BY <1>4, <1>5

LEMMA RereadKeeps == ASSUME KeptInv, NEW i \in Importers, I!Reread(i) PROVE KeptInv'
<1>1. imp[i].pc = "reread" /\ UNCHANGED <<pinned, file, imported, raced, had>>
  BY DEF I!Reread
<1>2. PICK there : there = (ExistOf(pinned, imp[i]) \in IdsIn(imported))
  OBVIOUS
<1>b. there \in BOOLEAN
  BY <1>2
<1>3. PICK c \in DecidedOf(imp[i], there, {}) : imp' = [imp EXCEPT ![i] = c]
  <2>1. I!Decided(i, I!ExistingId(i) \in I!Stored, {}) = DecidedOf(imp[i], there, {})
    BY <1>2, OfRecord, StoredIs
  <2> QED
    BY <2>1 DEF I!Reread
<1>4. OfHand(imp[i], {}) /\ {} \subseteq IdsIn(imported)
  BY DEF OfHand
<1>5. there => HasRow(imported, HandOf(imp[i]))
  BY <1>2, ExistHand
<1> QED
  BY <1>b, <1>1, <1>3, <1>4, <1>5, DecidedKeeps

\* The rows of the document in hand, and those of another body or form.
PriorOf(r, R) == {x.id : x \in {y \in R : y.id.file = HandOf(r)}}
StaleOf(pins, r, R) == {id \in PriorOf(r, R) : ~CurrentOf(pins, r, id)}

Unchanged(pins, r, R) ==
    IF ChunkedOf(r) THEN HandOf(r) \notin pins
    ELSE \E x \in R : x.id = ExistOf(pins, r) /\ x.body = DocOf(r).text

\* What Prior makes of a document that is there.
SortedOf(pins, r, R) ==
    IF Unchanged(pins, r, R)
    THEN [r EXCEPT !.refresh = PriorOf(r, R) \ StaleOf(pins, r, R),
                   !.purging = StaleOf(pins, r, R)]
    ELSE [r EXCEPT !.purging = PriorOf(r, R)]

LEMMA PriorIs ==
    ASSUME KeptInv, NEW i \in Importers, I!Prior(i)
    PROVE  /\ imp[i].pc = "prior" /\ UNCHANGED <<pinned, file, imported, had, raced, faults>>
           /\ ~imp[i].found =>
                \E c \in DecidedOf(imp[i], FALSE, StaleOf(pinned, imp[i], imported)) :
                    imp' = [imp EXCEPT ![i] = c]
           /\ imp[i].found =>
                imp' = [imp EXCEPT ![i] = OnwardOf(SortedOf(pinned, imp[i], imported), DocOf(imp[i]).meta)]
<1>1. {x.id : x \in I!RowsOf(I!At(i))} = PriorOf(imp[i], imported)
  BY OfRecord DEF I!RowsOf, PriorOf
<1>2. {id \in PriorOf(imp[i], imported) : ~I!Current(i, id)} = StaleOf(pinned, imp[i], imported)
  BY OfRecord DEF StaleOf
<1>3. (IF I!InChunks(i) THEN I!At(i) \notin pinned
       ELSE \E x \in imported : x.id = I!ExistingId(i) /\ x.body = I!Doc(i).text)
        = Unchanged(pinned, imp[i], imported)
  BY OfRecord DEF Unchanged
<1>4. ~imp[i].found =>
        \E c \in DecidedOf(imp[i], FALSE, StaleOf(pinned, imp[i], imported)) :
            imp' = [imp EXCEPT ![i] = c]
  <2>1. I!Decided(i, FALSE, {id \in {x.id : x \in I!RowsOf(I!At(i))} : ~I!Current(i, id)})
          = DecidedOf(imp[i], FALSE, StaleOf(pinned, imp[i], imported))
    BY <1>1, <1>2, OfRecord
  <2> QED
    BY <2>1 DEF I!Prior
<1>5. imp[i].found =>
        imp' = [imp EXCEPT ![i] = OnwardOf(SortedOf(pinned, imp[i], imported), DocOf(imp[i]).meta)]
  BY <1>1, <1>2, <1>3, OfRecord DEF I!Prior, SortedOf
<1> QED
  BY <1>4, <1>5 DEF I!Prior

LEMMA PriorIds ==
    ASSUME NEW pins, NEW r, NEW R, RowsOK(pins, R)
    PROVE  /\ OfHand(r, PriorOf(r, R)) /\ OfHand(r, StaleOf(pins, r, R))
           /\ PriorOf(r, R) \subseteq IdsIn(R) /\ StaleOf(pins, r, R) \subseteq PriorOf(r, R)
<1>1. \A x \in R : x.id \in I!Ids
  BY DEF RowsOK, RowSet
<1>2. OfHand(r, PriorOf(r, R)) /\ PriorOf(r, R) \subseteq IdsIn(R)
  BY <1>1 DEF OfHand, PriorOf, IdsIn
<1> QED
  BY <1>2 DEF StaleOf, OfHand

LEMMA ExistIs ==
    ASSUME NEW pins, NEW r
    PROVE  /\ ExistOf(pins, r).file = HandOf(r)
           /\ ExistOf(pins, r).base = BaseOf(pins, HandOf(r), DocOf(r).text)
           /\ ExistOf(pins, r).part = IF ChunkedOf(r) THEN I!Chunk(1) ELSE I!Whole
           /\ I!Chunk(1) # I!Whole
           /\ CurrentOf(pins, r, ExistOf(pins, r))
<1>1. I!Chunk(1) # I!Whole
  BY DEF I!Chunk, I!Whole
<1>2. /\ ExistOf(pins, r).file = HandOf(r)
      /\ ExistOf(pins, r).base = BaseOf(pins, HandOf(r), DocOf(r).text)
      /\ ExistOf(pins, r).part = IF ChunkedOf(r) THEN I!Chunk(1) ELSE I!Whole
  BY DEF ExistOf, IdOf
<1>3. ChunkedOf(r) = (ExistOf(pins, r).part # I!Whole)
  <2>1. ChunkedOf(r) \in BOOLEAN
    BY DEF ChunkedOf
  <2> QED
    BY <1>1, <1>2, <2>1
<1> QED
  BY <1>1, <1>2, <1>3 DEF CurrentOf

\* What is sorted out keeps, of a file that is not pinned, the row that was found.
LEMMA SortedIs ==
    ASSUME NEW r, Underway(r), r.pc = "prior", NEW pins, NEW R, RowsOK(pins, R)
    PROVE  /\ SortedOf(pins, r, R) \in ImportRec /\ SameDoc(r, SortedOf(pins, r, R))
           /\ SortedOf(pins, r, R).covered = r.covered /\ SortedOf(pins, r, R).alone = r.alone
           /\ SortedOf(pins, r, R).update = r.update
           /\ OfHand(r, SortedOf(pins, r, R).purging) /\ SortedOf(pins, r, R).after = {}
           /\ IF Unchanged(pins, r, R)
              THEN /\ SortedOf(pins, r, R).purging = StaleOf(pins, r, R)
                   /\ SortedOf(pins, r, R).refresh = PriorOf(r, R) \ StaleOf(pins, r, R)
              ELSE /\ SortedOf(pins, r, R).purging = PriorOf(r, R)
                   /\ SortedOf(pins, r, R).refresh = {}
<1>1. r \in ImportRec /\ r.after = {} /\ r.refresh = {}
  BY DEF Underway, HeldOK
<1>2. PICK prior, stale : prior = PriorOf(r, R) /\ stale = StaleOf(pins, r, R)
  OBVIOUS
<1>3. /\ OfHand(r, prior) /\ OfHand(r, stale)
      /\ prior \subseteq I!Ids /\ stale \subseteq I!Ids
  BY <1>2, PriorIds DEF OfHand
<1>4. PICK x : x = SortedOf(pins, r, R)
  OBVIOUS
<1>5. CASE Unchanged(pins, r, R)
  <2>1. x = [r EXCEPT !.refresh = prior \ stale, !.purging = stale]
    BY <1>2, <1>4, <1>5 DEF SortedOf
  <2>2. /\ x \in ImportRec /\ SameDoc(r, x) /\ x.covered = r.covered /\ x.alone = r.alone
        /\ x.update = r.update /\ x.purging = stale /\ x.refresh = prior \ stale /\ x.after = {}
    BY <1>1, <1>3, <2>1 DEF ImportRec, SameDoc
  <2> QED
    BY <1>2, <1>3, <1>4, <1>5, <2>2
<1>6. CASE ~Unchanged(pins, r, R)
  <2>1. x = [r EXCEPT !.purging = prior]
    BY <1>2, <1>4, <1>6 DEF SortedOf
  <2>2. /\ x \in ImportRec /\ SameDoc(r, x) /\ x.covered = r.covered /\ x.alone = r.alone
        /\ x.update = r.update /\ x.purging = prior /\ x.refresh = {} /\ x.after = {}
    BY <1>1, <1>3, <2>1 DEF ImportRec, SameDoc
  <2> QED
    BY <1>2, <1>3, <1>4, <1>6, <2>2
<1> QED
  BY <1>5, <1>6

LEMMA FoundKept ==
    ASSUME NEW r, Underway(r), r.pc = "prior", NEW pins, NEW R, RowsOK(pins, R),
           ExistOf(pins, r) \in IdsIn(R), HandOf(r) \notin pins
    PROVE  ExistOf(pins, r) \in IdsIn(R) \ SortedOf(pins, r, R).purging
<1>1. PICK x \in R : x.id = ExistOf(pins, r)
  BY DEF IdsIn
<1>2. x.body = DocOf(r).text
  <2>1. x.id.base = x.body /\ x.id.base = DocOf(r).text
    BY <1>1, ExistIs DEF RowsOK, BaseOf
  <2> QED
    BY <2>1
<1>3. Unchanged(pins, r, R)
  BY <1>1, <1>2 DEF Unchanged
<1>4. ExistOf(pins, r) \notin StaleOf(pins, r, R)
  BY ExistIs DEF StaleOf
<1> QED
  BY <1>3, <1>4, SortedIs

LEMMA PriorKeeps == ASSUME KeptInv, NEW i \in Importers, I!Prior(i) PROVE KeptInv'
<1>1. PICK r : r = imp[i]
  OBVIOUS
<1>2. /\ r.pc = "prior" /\ r.pc # "idle" /\ UNCHANGED <<pinned, file, imported, had, raced>>
      /\ r \in ImportRec
  BY <1>1, PriorIs, ImporterIs
<1>3. Underway(r) /\ RowsOK(pinned, imported)
  BY <1>1, <1>2, ImporterIs DEF KeptInv
<1>4. CASE ~r.found
  <2>1. PICK c \in DecidedOf(r, FALSE, StaleOf(pinned, r, imported)) : imp' = [imp EXCEPT ![i] = c]
    BY <1>1, <1>4, PriorIs
  <2>2. /\ OfHand(r, StaleOf(pinned, r, imported))
        /\ StaleOf(pinned, r, imported) \subseteq IdsIn(imported)
    BY <1>3, PriorIds
  <2> QED
    BY <1>1, <1>2, <2>1, <2>2, DecidedKeeps
<1>5. CASE r.found
  <2>x. PICK x : x = SortedOf(pinned, r, imported)
    OBVIOUS
  <2>1. /\ x \in ImportRec /\ SameDoc(r, x) /\ x.covered = r.covered /\ x.alone = r.alone
        /\ OfHand(r, x.purging) /\ x.after = {}
    BY <1>2, <1>3, <2>x, SortedIs
  <2>c. PICK c : c = OnwardOf(x, DocOf(r).meta)
    OBVIOUS
  <2>2. imp' = [imp EXCEPT ![i] = c]
    BY <1>1, <1>5, <2>x, <2>c, PriorIs
  <2>3. c \in ImportRec /\ HeldOK(c)
    BY <1>3, <2>1, <2>c, OnwardHeld
  <2>4. c.alone = r.alone
    BY <2>1, <2>c, OnwardFields
  <2>5. ASSUME AloneHere(i) PROVE LoneOK(pinned, c, imported)
    <3>1. /\ CoveredKept(r, imported) /\ ExistOf(pinned, r) \in IdsIn(imported)
      BY <1>1, <1>2, <1>5, <2>5, ImporterIs DEF LoneOK
    <3>2. HandOf(r) \notin pinned => ExistOf(pinned, r) \in IdsIn(imported) \ x.purging
      BY <1>2, <1>3, <2>x, <3>1, FoundKept
    <3> QED
      BY <1>3, <2>1, <2>c, <3>1, <3>2, OnwardAlone
  <2> QED
    BY <1>1, <1>2, <2>2, <2>3, <2>4, <2>5, ImporterTurns
<1> QED
  BY <1>4, <1>5

LEMMA WithoutHas ==
    ASSUME NEW R, NEW id, NEW x \in R, x.id # id
    PROVE  HasRow(Without(R, id), x.id.file)
  BY DEF HasRow, Without

LEMMA WithoutKeeps ==
    ASSUME NEW R, NEW id, NEW f, HasRow(R, f), f # id.file
    PROVE  HasRow(Without(R, id), f)
<1>1. PICK x \in R : x.id.file = f
  BY DEF HasRow
<1> QED
  BY <1>1, WithoutHas

\* The document in hand is given up: nothing else changes.
LEMMA GiveUpKeeps ==
    ASSUME KeptInv, NEW i \in Importers, imp[i].pc \notin {"idle", "done"},
           imp' = [imp EXCEPT ![i] = NextOf(imp[i], FALSE)],
           UNCHANGED <<pinned, file, imported, raced, had>>
    PROVE  KeptInv'
<1>1. Underway(imp[i]) /\ imp[i] \in ImportRec /\ imp[i].todo # {}
  BY ImporterIs DEF HeldOK
<1>2. PICK c : c = NextOf(imp[i], FALSE)
  OBVIOUS
<1>3. c \in ImportRec /\ HeldOK(c) /\ c.alone = imp[i].alone
  BY <1>1, <1>2, NextHeld, NextFields
<1>4. AloneHere(i) => LoneOK(pinned, c, imported)
  BY <1>1, <1>2, NextAlone, ImporterIs
<1> QED
  BY <1>2, <1>3, <1>4, ImporterTurns

\* What Refresh does to a row that is there.
RefreshingOf(r, id) == [r EXCEPT !.refresh = r.refresh \ {id}]

LEMMA RefreshIs ==
    ASSUME KeptInv, NEW i \in Importers, I!Refresh(i)
    PROVE  /\ imp[i].pc = "refresh" /\ UNCHANGED <<pinned, file, had, raced, faults>>
           /\ \E id \in imp[i].refresh :
                \/ /\ imp' = [imp EXCEPT ![i] = NextOf(imp[i], FALSE)]
                   /\ imported' = imported /\ id \notin IdsIn(imported)
                \/ /\ imported' = Refreshed(imported, id, DocOf(imp[i]).meta)
                   /\ imp' = [imp EXCEPT ![i] =
                        OnwardOf(RefreshingOf(imp[i], id), DocOf(imp[i]).meta)]
<1>1. PICK id \in imp[i].refresh :
        IF id \notin I!Stored
        THEN imp' = [imp EXCEPT ![i] = I!Next1(i, FALSE)] /\ UNCHANGED imported
        ELSE /\ imported' = {IF x.id = id THEN [x EXCEPT !.meta = I!Doc(i).meta] ELSE x
                               : x \in imported}
             /\ imp' = [imp EXCEPT ![i] =
                  I!Onward(i, [imp[i] EXCEPT !.refresh = imp[i].refresh \ {id}])]
  BY DEF I!Refresh
<1>2. CASE id \notin I!Stored
  BY <1>1, <1>2, OfRecord, StoredIs DEF I!Refresh
<1>3. CASE id \in I!Stored
  <2>1. imported' = Refreshed(imported, id, DocOf(imp[i]).meta)
    BY <1>1, <1>3, OfRecord DEF Refreshed
  <2>2. imp' = [imp EXCEPT ![i] = OnwardOf(RefreshingOf(imp[i], id), DocOf(imp[i]).meta)]
    BY <1>1, <1>3, OfRecord DEF RefreshingOf
  <2> QED
    BY <2>1, <2>2 DEF I!Refresh
<1> QED
  BY <1>2, <1>3

LEMMA RefreshingIs ==
    ASSUME NEW r, Underway(r), r.pc = "refresh", NEW id
    PROVE  /\ RefreshingOf(r, id) \in ImportRec /\ SameDoc(r, RefreshingOf(r, id))
           /\ RefreshingOf(r, id).covered = r.covered /\ RefreshingOf(r, id).alone = r.alone
           /\ RefreshingOf(r, id).update = r.update
           /\ RefreshingOf(r, id).refresh = r.refresh \ {id}
           /\ RefreshingOf(r, id).purging = r.purging /\ RefreshingOf(r, id).after = {}
           /\ OfHand(r, r.purging)
<1>1. r \in ImportRec /\ r.after = {} /\ \A x \in r.purging : x.file = HandOf(r)
  BY DEF Underway, HeldOK
<1>2. OfHand(r, r.purging)
  BY <1>1 DEF OfHand, ImportRec
<1> QED
  BY <1>1, <1>2 DEF RefreshingOf, ImportRec, SameDoc

LEMMA RefreshKeeps == ASSUME KeptInv, NEW i \in Importers, I!Refresh(i) PROVE KeptInv'
<1>1. PICK r : r = imp[i]
  OBVIOUS
<1>2. /\ r.pc = "refresh" /\ r.pc \notin {"idle", "done"} /\ UNCHANGED <<pinned, file, had, raced>>
      /\ r \in ImportRec
  BY <1>1, RefreshIs, ImporterIs
<1>3. Underway(r) /\ RowsOK(pinned, imported)
  BY <1>1, <1>2, ImporterIs DEF KeptInv
<1>4. PICK id \in r.refresh :
        \/ /\ imp' = [imp EXCEPT ![i] = NextOf(r, FALSE)] /\ imported' = imported
        \/ /\ imported' = Refreshed(imported, id, DocOf(r).meta)
           /\ imp' = [imp EXCEPT ![i] = OnwardOf(RefreshingOf(r, id), DocOf(r).meta)]
  BY <1>1, RefreshIs
<1>5. CASE imp' = [imp EXCEPT ![i] = NextOf(r, FALSE)] /\ imported' = imported
  BY <1>1, <1>2, <1>5, GiveUpKeeps
<1>6. CASE /\ imported' = Refreshed(imported, id, DocOf(r).meta)
           /\ imp' = [imp EXCEPT ![i] = OnwardOf(RefreshingOf(r, id), DocOf(r).meta)]
  <2>x. PICK x : x = RefreshingOf(r, id)
    OBVIOUS
  <2>c. PICK c : c = OnwardOf(x, DocOf(r).meta)
    OBVIOUS
  <2>1. /\ x \in ImportRec /\ SameDoc(r, x) /\ x.covered = r.covered /\ x.alone = r.alone
        /\ OfHand(r, x.purging) /\ x.after = {} /\ x.purging = r.purging
    BY <1>2, <1>3, <2>x, RefreshingIs
  <2>2. c \in ImportRec /\ HeldOK(c)
    BY <1>3, <2>1, <2>c, OnwardHeld
  <2>3. c.alone = r.alone
    BY <2>1, <2>c, OnwardFields
  <2>4. DocOf(r).meta \in 0..1
    BY <1>2, <1>3, DocIs DEF Underway
  <2>5. /\ RowsOK(pinned, imported') /\ IdsIn(imported') = IdsIn(imported)
        /\ \A f : HasRow(imported, f) => HasRow(imported', f)
    BY <1>3, <1>6, <2>4, RefreshedRows
  <2>6. ASSUME AloneHere(i) PROVE LoneOK(pinned, c, imported')
    <3>1. /\ CoveredKept(r, imported)
          /\ HandOf(r) \notin pinned => ExistOf(pinned, r) \in IdsIn(imported) \ r.purging
      BY <1>1, <1>2, <2>6, ImporterIs DEF LoneOK
    <3>2. /\ CoveredKept(r, imported')
          /\ HandOf(r) \notin pinned => ExistOf(pinned, r) \in IdsIn(imported') \ x.purging
      BY <2>1, <2>5, <3>1 DEF CoveredKept
    <3> QED
      BY <1>3, <2>1, <2>c, <3>2, OnwardAlone
  <2>7. imp' = [imp EXCEPT ![i] = c]
    BY <1>6, <2>x, <2>c
  <2> QED
    BY <1>1, <1>2, <2>2, <2>3, <2>5, <2>6, <2>7, ImporterMoves DEF Keeps
<1> QED
  BY <1>4, <1>5, <1>6

\* What Purge does to an importer.
PurgingOf(r, id) == [r EXCEPT !.refresh = {}, !.purging = r.purging \ {id}]

LEMMA PurgeIs ==
    ASSUME NEW i \in Importers, I!Purge(i)
    PROVE  /\ imp[i].pc = "purge" /\ UNCHANGED <<pinned, file, had, raced, faults>>
           /\ \E id \in imp[i].purging :
                /\ imported' = Without(imported, id)
                /\ imp' = [imp EXCEPT ![i] = OnwardOf(PurgingOf(imp[i], id), DocOf(imp[i]).meta)]
  BY OfRecord DEF I!Purge, Without, PurgingOf

LEMMA PurgingIs ==
    ASSUME NEW r, Underway(r), r.pc = "purge", NEW id
    PROVE  /\ PurgingOf(r, id) \in ImportRec /\ SameDoc(r, PurgingOf(r, id))
           /\ PurgingOf(r, id).covered = r.covered /\ PurgingOf(r, id).alone = r.alone
           /\ PurgingOf(r, id).update = r.update
           /\ PurgingOf(r, id).refresh = {}
           /\ PurgingOf(r, id).purging = r.purging \ {id} /\ PurgingOf(r, id).after = {}
           /\ OfHand(r, r.purging) /\ OfHand(r, PurgingOf(r, id).purging)
<1>1. r \in ImportRec /\ r.after = {} /\ \A x \in r.purging : x.file = HandOf(r)
  BY DEF Underway, HeldOK
<1>2. OfHand(r, r.purging) /\ OfHand(r, r.purging \ {id})
  BY <1>1 DEF OfHand, ImportRec
<1> QED
  BY <1>1, <1>2 DEF PurgingOf, ImportRec, SameDoc

LEMMA PurgeKeeps == ASSUME KeptInv, NEW i \in Importers, I!Purge(i) PROVE KeptInv'
<1>1. PICK r : r = imp[i]
  OBVIOUS
<1>2. /\ r.pc = "purge" /\ r.pc \notin {"idle", "done"} /\ UNCHANGED <<pinned, file, had, raced>>
      /\ r \in ImportRec
  BY <1>1, PurgeIs, ImporterIs
<1>3. Underway(r) /\ RowsOK(pinned, imported)
  BY <1>1, <1>2, ImporterIs DEF KeptInv
<1>4. PICK id \in r.purging :
        /\ imported' = Without(imported, id)
        /\ imp' = [imp EXCEPT ![i] = OnwardOf(PurgingOf(r, id), DocOf(r).meta)]
  BY <1>1, PurgeIs
<1>x. PICK x : x = PurgingOf(r, id)
  OBVIOUS
<1>c. PICK c : c = OnwardOf(x, DocOf(r).meta)
  OBVIOUS
<1>5. /\ x \in ImportRec /\ SameDoc(r, x) /\ x.covered = r.covered /\ x.alone = r.alone
      /\ OfHand(r, x.purging) /\ x.after = {} /\ x.purging = r.purging \ {id}
      /\ OfHand(r, r.purging)
  BY <1>2, <1>3, <1>x, PurgingIs
<1>6. c \in ImportRec /\ HeldOK(c)
  BY <1>3, <1>5, <1>c, OnwardHeld
<1>7. c.alone = r.alone
  BY <1>5, <1>c, OnwardFields
<1>8. RowsOK(pinned, imported') /\ IdsIn(imported') = IdsIn(imported) \ {id}
  BY <1>3, <1>4, WithoutRows
<1>9. id.file = HandOf(r) /\ HandOf(r) \notin r.covered
  BY <1>2, <1>3, <1>5, DocIs DEF OfHand, Underway
<1>10. ASSUME AloneHere(i)
       PROVE  LoneOK(pinned, c, imported') /\ Keeps(pinned, imported, imported')
  <2>1. /\ CoveredKept(r, imported)
        /\ HandOf(r) \notin pinned => ExistOf(pinned, r) \in IdsIn(imported) \ r.purging
    BY <1>1, <1>2, <1>10, ImporterIs DEF LoneOK
  <2>2. CoveredKept(r, imported')
    BY <1>4, <1>9, <2>1, WithoutKeeps DEF CoveredKept
  <2>3. HandOf(r) \notin pinned => ExistOf(pinned, r) \in IdsIn(imported') \ x.purging
    BY <1>5, <1>8, <2>1
  <2>4. LoneOK(pinned, c, imported')
    BY <1>3, <1>5, <1>c, <2>2, <2>3, OnwardAlone
  <2>5. ASSUME NEW f, f \notin pinned, HasRow(imported, f) PROVE HasRow(imported', f)
    <3>1. CASE f = HandOf(r)
      BY <2>3, <2>5, <3>1, ExistHand
    <3>2. CASE f # HandOf(r)
      BY <1>4, <1>9, <2>5, <3>2, WithoutKeeps
    <3> QED
      BY <3>1, <3>2
  <2> QED
    BY <2>4, <2>5 DEF Keeps
<1>11. imp' = [imp EXCEPT ![i] = c]
  BY <1>4, <1>x, <1>c
<1> QED
  BY <1>1, <1>2, <1>6, <1>7, <1>8, <1>10, <1>11, ImporterMoves

\* What Remember makes of an importer whose row is written.
MoreOf(r) == [r EXCEPT !.parts = Tail(r.parts)]
CleaningOf(r) == [r EXCEPT !.pc = "clean", !.parts = <<>>]

RememberedOf(r) ==
    IF Len(r.parts) > 1 THEN MoreOf(r)
    ELSE IF r.after # {} THEN CleaningOf(r)
    ELSE NextOf(r, TRUE)

LEMMA RememberIs ==
    ASSUME NEW i \in Importers, I!Remember(i)
    PROVE  /\ imp[i].pc = "remember" /\ UNCHANGED <<pinned, file, had, raced, faults>>
           /\ \/ /\ IdOf(pinned, imp[i], Head(imp[i].parts)) \in IdsIn(imported)
                 /\ imp' = [imp EXCEPT ![i] = NextOf(imp[i], FALSE)] /\ imported' = imported
              \/ /\ IdOf(pinned, imp[i], Head(imp[i].parts)) \notin IdsIn(imported)
                 /\ imported' = imported \cup {RowFor(pinned, imp[i], Head(imp[i].parts))}
                 /\ imp' = [imp EXCEPT ![i] = RememberedOf(imp[i])]
<1>1. PICK id, row : /\ id = I!Id(I!At(i), I!Doc(i).text, Head(imp[i].parts))
                     /\ row = [id |-> id, body |-> I!Doc(i).text, meta |-> I!Doc(i).meta]
  OBVIOUS
<1>2. /\ id = IdOf(pinned, imp[i], Head(imp[i].parts))
      /\ row = RowFor(pinned, imp[i], Head(imp[i].parts))
  BY <1>1, OfRecord DEF RowFor
<1>3. IF id \in I!Stored
      THEN imp' = [imp EXCEPT ![i] = I!Next1(i, FALSE)] /\ UNCHANGED imported
      ELSE /\ imported' = imported \cup {row}
           /\ imp' = [imp EXCEPT ![i] =
                IF Len(imp[i].parts) > 1 THEN [imp[i] EXCEPT !.parts = Tail(imp[i].parts)]
                ELSE IF imp[i].after # {} THEN [imp[i] EXCEPT !.pc = "clean", !.parts = <<>>]
                ELSE I!Next1(i, TRUE)]
  BY <1>1 DEF I!Remember
<1>4. CASE id \in I!Stored
  BY <1>2, <1>3, <1>4, OfRecord, StoredIs DEF I!Remember
<1>5. CASE id \notin I!Stored
  <2>1. imp' = [imp EXCEPT ![i] = RememberedOf(imp[i])]
    BY <1>3, <1>5, OfRecord DEF RememberedOf, MoreOf, CleaningOf
  <2>2. id \notin IdsIn(imported) /\ imported' = imported \cup {row}
    BY <1>3, <1>5, StoredIs
  <2> QED
    BY <1>2, <2>1, <2>2 DEF I!Remember
<1> QED
  BY <1>4, <1>5

\* What an importer that writes has to write.
LEMMA PartsAre ==
    ASSUME NEW r, Underway(r), r.pc = "remember"
    PROVE  /\ Pieces(r, r.parts) /\ Head(r.parts) \in I!Parts /\ Len(r.parts) \in Nat
           /\ Len(r.parts) > 1 => Pieces(r, Tail(r.parts))
           /\ Len(r.parts) >= 1 /\ Head(r.parts) = r.parts[1]
<1>1. Pieces(r, r.parts) /\ r.parts \in Seq(I!Parts) /\ r.parts # <<>>
  BY DEF Underway, HeldOK, ImportRec, Pieces
<1>2. PICK q \in Seq(I!Parts) : q = r.parts
  BY <1>1
<1>3. Head(q) \in I!Parts /\ Len(q) \in Nat /\ Len(q) >= 1 /\ Head(q) = q[1]
  BY <1>1, <1>2
<1>4. ASSUME Len(q) > 1 PROVE Pieces(r, Tail(q))
  <2>1. q # <<I!Whole>>
    <3>1. Len(<<I!Whole>>) = 1
      OBVIOUS
    <3>2. \A n \in Nat : n > 1 => n # 1
      OBVIOUS
    <3>3. Len(q) # 1
      BY <1>3, <1>4, <3>2, Zenon
    <3> QED
      BY <3>1, <3>3, Zenon
  <2>2. ChunkedOf(r) /\ \A n \in 1..Len(q) : q[n] # I!Whole
    BY <1>1, <1>2, <2>1 DEF Pieces
  <2> QED
    BY <1>4, <2>2, TailIs DEF Pieces
<1> QED
  BY <1>1, <1>2, <1>3, <1>4

LEMMA MoreIs ==
    ASSUME NEW r, Underway(r), r.pc = "remember", Len(r.parts) > 1
    PROVE  /\ MoreOf(r) \in ImportRec /\ HeldOK(MoreOf(r)) /\ SameDoc(r, MoreOf(r))
           /\ MoreOf(r).pc = "remember" /\ MoreOf(r).parts = Tail(r.parts)
           /\ MoreOf(r).after = r.after /\ MoreOf(r).covered = r.covered
           /\ MoreOf(r).purging = {}
           /\ MoreOf(r).alone = r.alone /\ MoreOf(r).update = r.update
<1>0. r \in ImportRec /\ HeldOK(r) /\ r.purging = {}
  BY DEF Underway, HeldOK
<1>1. PICK q : q = Tail(r.parts)
  OBVIOUS
<1>2. Pieces(r, q) /\ q \in Seq(I!Parts)
  BY <1>1, PartsAre DEF Pieces
<1>3. PICK c : c = MoreOf(r)
  OBVIOUS
<1>4. /\ c \in ImportRec /\ SameDoc(r, c) /\ c.pc = "remember" /\ c.parts = q
      /\ c.after = r.after /\ c.covered = r.covered /\ c.purging = {}
      /\ c.alone = r.alone /\ c.update = r.update
  BY <1>0, <1>1, <1>2, <1>3 DEF MoreOf, ImportRec, SameDoc
<1>5. HandOf(c) = HandOf(r) /\ ChunkedOf(c) = ChunkedOf(r)
  BY <1>4, SameHand
<1>6. HeldOK(c)
  BY <1>0, <1>2, <1>4, <1>5 DEF HeldOK, SameDoc, Pieces
<1> QED
  BY <1>1, <1>3, <1>4, <1>6

LEMMA CleaningIs ==
    ASSUME NEW r, Underway(r), r.pc = "remember"
    PROVE  /\ CleaningOf(r) \in ImportRec /\ HeldOK(CleaningOf(r)) /\ SameDoc(r, CleaningOf(r))
           /\ CleaningOf(r).pc = "clean" /\ CleaningOf(r).parts = <<>>
           /\ CleaningOf(r).after = r.after /\ CleaningOf(r).covered = r.covered
           /\ CleaningOf(r).purging = {}
           /\ CleaningOf(r).alone = r.alone /\ CleaningOf(r).update = r.update
<1>0. r \in ImportRec /\ HeldOK(r) /\ r.purging = {}
  BY DEF Underway, HeldOK
<1>1. <<>> \in Seq(I!Parts)
  OBVIOUS
<1>3. PICK c : c = CleaningOf(r)
  OBVIOUS
<1>4. /\ c \in ImportRec /\ SameDoc(r, c) /\ c.pc = "clean" /\ c.parts = <<>>
      /\ c.after = r.after /\ c.covered = r.covered /\ c.purging = {}
      /\ c.alone = r.alone /\ c.update = r.update
  BY <1>0, <1>1, <1>3 DEF CleaningOf, ImportRec, ImportPhases, SameDoc
<1>5. HandOf(c) = HandOf(r) /\ ChunkedOf(c) = ChunkedOf(r)
  BY <1>4, SameHand
<1>6. HeldOK(c)
  BY <1>0, <1>4, <1>5 DEF HeldOK, SameDoc
<1> QED
  BY <1>3, <1>4, <1>6

LEMMA RememberedHeld ==
    ASSUME NEW r, Underway(r), r.pc = "remember"
    PROVE  /\ RememberedOf(r) \in ImportRec /\ HeldOK(RememberedOf(r))
           /\ RememberedOf(r).alone = r.alone /\ RememberedOf(r).update = r.update
<1>1. CASE Len(r.parts) > 1
  BY <1>1, MoreIs DEF RememberedOf
<1>2. CASE ~(Len(r.parts) > 1) /\ r.after # {}
  BY <1>2, CleaningIs DEF RememberedOf
<1>3. CASE ~(Len(r.parts) > 1) /\ r.after = {}
  <2>1. r \in ImportRec /\ r.todo # {}
    BY DEF Underway, HeldOK
  <2> QED
    BY <1>3, <2>1, NextHeld, NextFields DEF RememberedOf
<1> QED
  BY <1>1, <1>2, <1>3

LEMMA RememberedAlone ==
    ASSUME NEW r, Underway(r), r.pc = "remember", NEW pins, NEW R, LoneOK(pins, r, R),
           NEW x, x.id \notin IdsIn(R), x.id.file = HandOf(r)
    PROVE  LoneOK(pins, RememberedOf(r), R \cup {x})
<1>1. PICK S2 : S2 = R \cup {x}
  OBVIOUS
<1>2. /\ IdsIn(S2) = IdsIn(R) \cup {x.id} /\ x \in S2
      /\ \A f : HasRow(R, f) => HasRow(S2, f)
  BY <1>1 DEF IdsIn, HasRow
<1>3. CoveredKept(r, S2) /\ r.after \subseteq IdsIn(R)
  BY <1>2 DEF CoveredKept, LoneOK
<1>4. CASE Len(r.parts) > 1
  <2>1. /\ MoreOf(r).pc = "remember" /\ MoreOf(r).after = r.after
        /\ MoreOf(r).covered = r.covered
    BY <1>4, MoreIs
  <2>2. LoneOK(pins, MoreOf(r), S2)
    BY <1>2, <1>3, <2>1 DEF LoneOK, CoveredKept
  <2> QED
    BY <1>1, <1>4, <2>2 DEF RememberedOf
<1>5. CASE ~(Len(r.parts) > 1) /\ r.after # {}
  <2>1. /\ CleaningOf(r).pc = "clean" /\ CleaningOf(r).after = r.after
        /\ CleaningOf(r).covered = r.covered /\ SameDoc(r, CleaningOf(r))
    BY CleaningIs
  <2>2. HandOf(CleaningOf(r)) = HandOf(r)
    BY <2>1, SameHand
  <2>3. x.id \notin r.after
    BY <1>3
  <2>4. LoneOK(pins, CleaningOf(r), S2)
    BY <1>2, <1>3, <2>1, <2>2, <2>3 DEF LoneOK, CoveredKept
  <2> QED
    BY <1>1, <1>5, <2>4 DEF RememberedOf
<1>6. CASE ~(Len(r.parts) > 1) /\ r.after = {}
  <2>1. HasRow(S2, HandOf(r))
    BY <1>2 DEF HasRow
  <2>2. LoneOK(pins, NextOf(r, TRUE), S2)
    BY <1>3, <2>1, NextAlone
  <2> QED
    BY <1>1, <1>6, <2>2 DEF RememberedOf
<1> QED
  BY <1>4, <1>5, <1>6

LEMMA RememberKeeps == ASSUME KeptInv, NEW i \in Importers, I!Remember(i) PROVE KeptInv'
<1>1. PICK r : r = imp[i]
  OBVIOUS
<1>2. /\ r.pc = "remember" /\ r.pc \notin {"idle", "done"} /\ UNCHANGED <<pinned, file, had, raced>>
      /\ r \in ImportRec
  BY <1>1, RememberIs, ImporterIs
<1>3. Underway(r) /\ RowsOK(pinned, imported) /\ HeldOK(r)
  BY <1>1, <1>2, ImporterIs DEF KeptInv
<1>4. CASE imp' = [imp EXCEPT ![i] = NextOf(r, FALSE)] /\ imported' = imported
  BY <1>1, <1>2, <1>4, GiveUpKeeps
<1>5. CASE /\ IdOf(pinned, r, Head(r.parts)) \notin IdsIn(imported)
           /\ imported' = imported \cup {RowFor(pinned, r, Head(r.parts))}
           /\ imp' = [imp EXCEPT ![i] = RememberedOf(r)]
  <2>1. PICK p, x : p = Head(r.parts) /\ x = RowFor(pinned, r, p)
    OBVIOUS
  <2>2. p \in I!Parts
    BY <1>2, <1>3, <2>1, PartsAre
  <2>3. x.id \notin IdsIn(imported) /\ x.id.file = HandOf(r)
    BY <1>2, <1>3, <1>5, <2>1, <2>2, RowForIs
  <2>4. RowsOK(pinned, imported \cup {x})
    BY <1>2, <1>3, <1>5, <2>1, <2>2, AddedRows
  <2>5. imported' = imported \cup {x}
    BY <1>5, <2>1
  <2>6. PICK c : c = RememberedOf(r)
    OBVIOUS
  <2>7. c \in ImportRec /\ HeldOK(c) /\ c.alone = r.alone
    BY <1>2, <1>3, <2>6, RememberedHeld
  <2>8. AloneHere(i) => LoneOK(pinned, c, imported') /\ Keeps(pinned, imported, imported')
    <3>1. Keeps(pinned, imported, imported')
      BY <2>5 DEF Keeps, HasRow
    <3>2. ASSUME AloneHere(i) PROVE LoneOK(pinned, c, imported \cup {x})
      <4>1. LoneOK(pinned, r, imported)
        BY <1>1, <3>2, ImporterIs
      <4> QED
        BY <1>2, <1>3, <2>3, <2>6, <4>1, RememberedAlone
    <3> QED
      BY <2>5, <3>1, <3>2
  <2>9. imp' = [imp EXCEPT ![i] = c] /\ RowsOK(pinned, imported')
    BY <1>5, <2>4, <2>5, <2>6
  <2> QED
    BY <1>1, <1>2, <2>7, <2>8, <2>9, ImporterMoves
<1> QED
  BY <1>1, <1>4, <1>5, RememberIs

\* What Clean makes of an importer.
DroppedOf(r, id) == [r EXCEPT !.after = r.after \ {id}]
CleanedOf(r, id) == IF r.after = {id} THEN NextOf(r, TRUE) ELSE DroppedOf(r, id)

LEMMA CleanIs ==
    ASSUME NEW i \in Importers, I!Clean(i)
    PROVE  /\ imp[i].pc = "clean" /\ UNCHANGED <<pinned, file, had, raced, faults>>
           /\ \E id \in imp[i].after :
                /\ imported' = Without(imported, id)
                /\ imp' = [imp EXCEPT ![i] = CleanedOf(imp[i], id)]
  BY OfRecord DEF I!Clean, Without, CleanedOf, DroppedOf

LEMMA DroppedIs ==
    ASSUME NEW r, Underway(r), r.pc = "clean", NEW id
    PROVE  /\ DroppedOf(r, id) \in ImportRec /\ HeldOK(DroppedOf(r, id))
           /\ SameDoc(r, DroppedOf(r, id))
           /\ DroppedOf(r, id).pc = "clean" /\ DroppedOf(r, id).parts = r.parts
           /\ DroppedOf(r, id).after = r.after \ {id} /\ DroppedOf(r, id).covered = r.covered
           /\ DroppedOf(r, id).purging = {}
           /\ DroppedOf(r, id).alone = r.alone /\ DroppedOf(r, id).update = r.update
<1>0. r \in ImportRec /\ HeldOK(r) /\ r.purging = {}
  BY DEF Underway, HeldOK
<1>3. PICK c : c = DroppedOf(r, id)
  OBVIOUS
<1>4. /\ c \in ImportRec /\ SameDoc(r, c) /\ c.pc = "clean" /\ c.parts = r.parts
      /\ c.after = r.after \ {id} /\ c.covered = r.covered /\ c.purging = {}
      /\ c.alone = r.alone /\ c.update = r.update
  BY <1>0, <1>3 DEF DroppedOf, ImportRec, SameDoc
<1>5. HandOf(c) = HandOf(r) /\ ChunkedOf(c) = ChunkedOf(r)
  BY <1>4, SameHand
<1>6. HeldOK(c)
  BY <1>0, <1>4, <1>5 DEF HeldOK, SameDoc
<1> QED
  BY <1>3, <1>4, <1>6

LEMMA CleanKeeps == ASSUME KeptInv, NEW i \in Importers, I!Clean(i) PROVE KeptInv'
<1>1. PICK r : r = imp[i]
  OBVIOUS
<1>2. /\ r.pc = "clean" /\ r.pc \notin {"idle", "done"} /\ UNCHANGED <<pinned, file, had, raced>>
      /\ r \in ImportRec
  BY <1>1, CleanIs, ImporterIs
<1>3. Underway(r) /\ RowsOK(pinned, imported) /\ HeldOK(r) /\ r.todo # {}
  BY <1>1, <1>2, ImporterIs DEF KeptInv, HeldOK
<1>4. PICK id \in r.after :
        /\ imported' = Without(imported, id)
        /\ imp' = [imp EXCEPT ![i] = CleanedOf(r, id)]
  BY <1>1, CleanIs
<1>5. PICK c : c = CleanedOf(r, id)
  OBVIOUS
<1>6. c \in ImportRec /\ HeldOK(c) /\ c.alone = r.alone
  <2>1. CASE r.after = {id}
    <3>1. c = NextOf(r, TRUE)
      BY <1>5, <2>1 DEF CleanedOf
    <3> QED
      BY <1>2, <1>3, <3>1, NextHeld, NextFields
  <2>2. CASE r.after # {id}
    <3>1. c = DroppedOf(r, id)
      BY <1>5, <2>2 DEF CleanedOf
    <3> QED
      BY <1>2, <1>3, <3>1, DroppedIs
  <2> QED
    BY <2>1, <2>2
<1>7. RowsOK(pinned, imported') /\ IdsIn(imported') = IdsIn(imported) \ {id}
  BY <1>3, <1>4, WithoutRows
<1>8. id.file = HandOf(r) /\ HandOf(r) \notin r.covered
  BY <1>2, <1>3, DocIs DEF HeldOK
<1>9. ASSUME AloneHere(i)
      PROVE  LoneOK(pinned, c, imported') /\ Keeps(pinned, imported, imported')
  <2>1. /\ CoveredKept(r, imported) /\ r.after \subseteq IdsIn(imported)
        /\ \E x \in imported : x.id.file = HandOf(r) /\ x.id \notin r.after
    BY <1>1, <1>2, <1>9, ImporterIs DEF LoneOK
  <2>2. CoveredKept(r, imported')
    BY <1>4, <1>8, <2>1, WithoutKeeps DEF CoveredKept
  <2>3. PICK x \in imported : x.id.file = HandOf(r) /\ x.id \notin r.after
    BY <2>1
  <2>4. x \in imported' /\ HasRow(imported', HandOf(r))
    BY <1>4, <2>3 DEF Without, HasRow
  <2>5. LoneOK(pinned, c, imported')
    <3>1. CASE r.after = {id}
      BY <1>3, <1>5, <2>2, <2>4, <3>1, NextAlone DEF CleanedOf
    <3>2. CASE r.after # {id}
      <4>1. c = DroppedOf(r, id)
        BY <1>5, <3>2 DEF CleanedOf
      <4>2. /\ c.pc = "clean" /\ c.after = r.after \ {id} /\ c.covered = r.covered
            /\ SameDoc(r, c)
        BY <1>2, <1>3, <4>1, DroppedIs
      <4>3. HandOf(c) = HandOf(r)
        BY <4>2, SameHand
      <4>4. r.after \ {id} \subseteq IdsIn(imported')
        BY <1>7, <2>1
      <4> QED
        BY <2>2, <2>3, <2>4, <4>2, <4>3, <4>4 DEF LoneOK, CoveredKept
    <3> QED
      BY <3>1, <3>2
  <2>6. ASSUME NEW f, f \notin pinned, HasRow(imported, f) PROVE HasRow(imported', f)
    <3>1. CASE f = HandOf(r)
      BY <2>4, <3>1
    <3>2. CASE f # HandOf(r)
      BY <1>4, <1>8, <2>6, <3>2, WithoutKeeps
    <3> QED
      BY <3>1, <3>2
  <2> QED
    BY <2>5, <2>6 DEF Keeps
<1>10. imp' = [imp EXCEPT ![i] = c]
  BY <1>4, <1>5
<1> QED
  BY <1>1, <1>2, <1>6, <1>7, <1>9, <1>10, ImporterMoves

LEMMA ReportKeeps == ASSUME KeptInv, NEW i \in Importers, I!Report(i) PROVE KeptInv'
<1>1. /\ imp[i].pc = "done" /\ had' = had \cup imp[i].covered /\ imp' = [imp EXCEPT ![i] = I!Idle]
      /\ UNCHANGED <<pinned, file, imported, raced>>
  BY DEF I!Report
<1>2. /\ imp' \in [Importers -> ImportRec] /\ imp'[i] = I!Idle
      /\ \A j \in Importers \ {i} : imp'[j] = imp[j]
  BY <1>1, IdleHeld DEF KeptInv
<1>3. \A j \in Importers : AloneHere(j)' => j # i /\ AloneHere(j)
  BY <1>2, IdleHeld DEF AloneHere
<1>4. \A j \in Importers : imp'[j].pc # "idle" => j # i /\ imp[j].pc # "idle"
  BY <1>2, IdleHeld
<1>5. ~raced => \A f \in imp[i].covered : HasRow(imported, f)
  <2>1. ~raced => AloneHere(i)
    BY <1>1 DEF KeptInv, AloneHere
  <2> QED
    BY <2>1, ImporterIs DEF CoveredKept
<1>6. ~raced' => \A f \in had' \ pinned' : HasRow(imported', f)
  BY <1>1, <1>5 DEF KeptInv
<1>7. \A j \in Importers : HeldOK(imp'[j])
  BY <1>2, IdleHeld DEF KeptInv
<1>8. \A j, k \in Importers : AloneHere(j)' /\ j # k => imp'[k].pc = "idle"
  BY <1>2, <1>3, IdleHeld DEF KeptInv
<1>9. ~raced => \A j \in Importers : imp'[j].pc # "idle" => imp'[j].alone
  BY <1>2, <1>4 DEF KeptInv
<1>10. \A j \in Importers : AloneHere(j)' => LoneOK(pinned, imp'[j], imported)
  BY <1>2, <1>3 DEF KeptInv
<1>11. /\ file' \in [Files -> I!Docs] /\ RowsOK(pinned, imported) /\ raced' \in BOOLEAN
  BY <1>1 DEF KeptInv
<1> QED
  BY <1>1, <1>2, <1>6, <1>7, <1>8, <1>9, <1>10, <1>11 DEF KeptInv

LEMMA FaultIs ==
    ASSUME NEW i \in Importers, I!Fault(i)
    PROVE  /\ UNCHANGED <<pinned, file, imported, had, raced>> /\ faults' = faults + 1
           /\ imp[i].pc \notin {"idle", "done"}
           /\ \/ imp' = [imp EXCEPT ![i] = I!Idle]
              \/ imp' = [imp EXCEPT ![i] = NextOf(imp[i], FALSE)]
  BY OfRecord DEF I!Fault

LEMMA FaultKeeps == ASSUME KeptInv, NEW i \in Importers, I!Fault(i) PROVE KeptInv'
<1>1. /\ UNCHANGED <<pinned, file, imported, had, raced>> /\ imp[i].pc \notin {"idle", "done"}
  BY FaultIs
<1>2. CASE imp' = [imp EXCEPT ![i] = I!Idle]
  BY <1>1, <1>2, IdleHeld, ImporterTurns
<1>3. CASE imp' = [imp EXCEPT ![i] = NextOf(imp[i], FALSE)]
  BY <1>1, <1>3, GiveUpKeeps
<1> QED
  BY <1>2, <1>3, FaultIs

LEMMA KeptStep == KeptInv /\ [I!Next]_I!vars => KeptInv'
<1> SUFFICES ASSUME KeptInv, [I!Next]_I!vars PROVE KeptInv'
  OBVIOUS
<1>1. CASE UNCHANGED I!vars
  BY <1>1 DEF I!vars, KeptInv, AloneHere
<1>2. CASE I!Next
  BY <1>2, EditKeeps, StartKeeps, LookKeeps, PriorKeeps, RefreshKeeps, PurgeKeeps, RereadKeeps,
     RememberKeeps, CleanKeeps, ReportKeeps, FaultKeeps DEF I!Next
<1> QED
  BY <1>1, <1>2

(***************************************************************************)
(* While nothing fails and no imports overlap, a chunk of a pinned file    *)
(* has its first chunk beside it.                                          *)
(***************************************************************************)
LEMMA LedDecided ==
    ASSUME NEW r, Underway(r), NEW there \in BOOLEAN, NEW later, OfHand(r, later),
           NEW c \in DecidedOf(r, there, later), NEW pins, NEW R,
           Led(pins, R, {}), Led(pins, R, later), \A id \in later : ~CurrentOf(pins, r, id)
    PROVE  LedOK(pins, c, R)
<1>0. r \in ImportRec /\ r.todo # {}
  BY DEF Underway, HeldOK
<1>1. CASE there /\ c = NextOf(r, TRUE)
  <2>1. c.purging = {} /\ c.after = {} /\ c.pc \in {"look", "done"}
    BY <1>0, <1>1, NextFields
  <2> QED
    BY <2>1 DEF LedOK, Dropping
<1>2. ASSUME NEW pieces \in Seq(I!Parts), c = WritingOf(r, later, pieces), pieces # <<>>,
             \/ pieces = <<I!Whole>>
             \/ ChunkedOf(r) /\ pieces = ChunkPieces
      PROVE  LedOK(pins, c, R)
  <2>1. /\ c.purging = {} /\ c.after = later /\ c.pc = "remember" /\ c.parts = pieces
        /\ SameDoc(r, c)
    BY <1>0, <1>2, WritingFields
  <2>2. Head(<<I!Whole>>) = I!Whole
    OBVIOUS
  <2>3. Head(c.parts) \in {I!Whole, I!Chunk(1)}
    BY <1>2, <2>1, <2>2, PiecesAre
  <2>4. \A id \in c.after : ~CurrentOf(pins, c, id)
    BY <2>1, SameHand
  <2> QED
    BY <2>1, <2>3, <2>4 DEF LedOK, Dropping
<1> QED
  BY <1>0, <1>1, <1>2, DecidedIs DEF OfHand

LEMMA LedNext ==
    ASSUME NEW r, Underway(r), NEW fully \in BOOLEAN, NEW pins, NEW R, Led(pins, R, {})
    PROVE  LedOK(pins, NextOf(r, fully), R)
<1>0. r \in ImportRec /\ r.todo # {}
  BY DEF Underway, HeldOK
<1>1. PICK c : c = NextOf(r, fully)
  OBVIOUS
<1>2. c.purging = {} /\ c.after = {} /\ c.pc \in {"look", "done"}
  BY <1>0, <1>1, NextFields
<1> QED
  BY <1>1, <1>2 DEF LedOK, Dropping

\* Purged are all chunk rows of a file or none of them.
LEMMA LedSorted ==
    ASSUME NEW r, NEW pins, NEW R, RowsOK(pins, R), Led(pins, R, {})
    PROVE  Led(pins, R, PriorOf(r, R)) /\ Led(pins, R, StaleOf(pins, r, R))
<1>1. ASSUME NEW x \in R, x.id.file \in pins, x.id.part # I!Whole
      PROVE  \E w \in R : w.id.file = x.id.file /\ w.id.part = I!Chunk(1)
  BY <1>1 DEF Led
<1>2. \A x \in R : x.id \in PriorOf(r, R) <=> x.id.file = HandOf(r)
  BY DEF PriorOf
<1>3. \A x \in R : x.id \in StaleOf(pins, r, R) <=>
                     x.id.file = HandOf(r) /\ ~CurrentOf(pins, r, x.id)
  BY <1>2 DEF StaleOf
<1>4. ASSUME NEW x \in R, NEW w \in R, x.id.file \in pins, x.id.file = HandOf(r),
             w.id.file = x.id.file, x.id.part # I!Whole, w.id.part # I!Whole,
             CurrentOf(pins, r, x.id)
      PROVE  CurrentOf(pins, r, w.id)
  <2>1. w.id.base = 0 /\ x.id.base = 0
    BY <1>4 DEF RowsOK, BaseOf
  <2> QED
    BY <1>4, <2>1 DEF CurrentOf
<1>5. Led(pins, R, PriorOf(r, R))
  BY <1>1, <1>2 DEF Led
<1>6. Led(pins, R, StaleOf(pins, r, R))
  <2> SUFFICES ASSUME NEW x \in R, x.id.file \in pins, x.id.part # I!Whole,
                      x.id \notin StaleOf(pins, r, R)
               PROVE  \E w \in R : /\ w.id.file = x.id.file /\ w.id.part = I!Chunk(1)
                                   /\ w.id \notin StaleOf(pins, r, R)
    BY DEF Led
  <2>1. PICK w \in R : w.id.file = x.id.file /\ w.id.part = I!Chunk(1)
    BY <1>1
  <2>2. w.id.part # I!Whole
    BY <2>1, ExistIs
  <2> QED
    BY <1>3, <1>4, <2>1, <2>2
<1> QED
  BY <1>5, <1>6

\* What is left to be purged is purged whole.
LEMMA LedOnward ==
    ASSUME NEW r, Underway(r), NEW x \in ImportRec, SameDoc(r, x), x.after = {},
           NEW pins, NEW R, Led(pins, R, {}) \/ x.refresh = {}, Led(pins, R, x.purging)
    PROVE  LedOK(pins, OnwardOf(x, DocOf(r).meta), R)
<1>1. PICK c : c = OnwardOf(x, DocOf(r).meta)
  OBVIOUS
<1>2. /\ c.purging = x.purging /\ c.after = {} /\ c.pc \in {"refresh", "purge", "reread"}
      /\ c.pc = "refresh" => x.refresh # {}
      /\ c.pc = "reread" => x.purging = {}
  BY <1>1, OnwardFields
<1>3. Dropping(c) = x.purging
  BY <1>2 DEF Dropping
<1> QED
  BY <1>1, <1>2, <1>3 DEF LedOK

LEMMA LedWithout ==
    ASSUME NEW pins, NEW R, NEW ids, Led(pins, R, ids), NEW id \in ids
    PROVE  Led(pins, Without(R, id), ids \ {id})
  BY DEF Led, Without

LEMMA LedRefreshed ==
    ASSUME NEW pins, NEW R, R \subseteq RowSet, NEW ids, Led(pins, R, ids), NEW id, NEW m \in 0..1
    PROVE  Led(pins, Refreshed(R, id, m), ids)
<1> SUFFICES ASSUME NEW y \in Refreshed(R, id, m), y.id.file \in pins, y.id.part # I!Whole,
                    y.id \notin ids
             PROVE  \E w \in Refreshed(R, id, m) :
                      w.id.file = y.id.file /\ w.id.part = I!Chunk(1) /\ w.id \notin ids
  BY DEF Led
<1>1. PICK x \in R : x.id = y.id
  <2>1. \E x \in R : Becomes(x, y, id, m)
    BY RefreshedRow
  <2> QED
    BY <2>1 DEF Becomes
<1>2. PICK v \in R : v.id.file = y.id.file /\ v.id.part = I!Chunk(1) /\ v.id \notin ids
  BY <1>1 DEF Led
<1>3. PICK w \in Refreshed(R, id, m) : w.id = v.id
  <2>1. \E w \in Refreshed(R, id, m) : Becomes(v, w, id, m)
    BY RefreshedRow
  <2> QED
    BY <2>1 DEF Becomes
<1> QED
  BY <1>2, <1>3

\* A row is written after its file's first chunk, or it is that, or the whole file.
LEMMA LedAdded ==
    ASSUME NEW r, Underway(r), r.pc = "remember", NEW pins, NEW R, RowsOK(pins, R),
           LedOK(pins, r, R), NEW x, x = RowFor(pins, r, Head(r.parts))
    PROVE  /\ Led(pins, R \cup {x}, {}) /\ Led(pins, R \cup {x}, r.after)
           /\ Len(r.parts) > 1 => IdOf(pins, r, I!Chunk(1)) \in IdsIn(R \cup {x})
<1>1. PICK p : p = Head(r.parts)
  OBVIOUS
<1>2. r \in ImportRec /\ HeldOK(r) /\ r.pc \notin {"idle", "done"} /\ p \in I!Parts
  BY <1>1, PartsAre DEF Underway
<1>3. x.id = IdOf(pins, r, p) /\ x.id.file = HandOf(r) /\ x.id.part = p
  BY <1>1, <1>2, RowForIs
<1>4. p \in {I!Whole, I!Chunk(1)} \/ IdOf(pins, r, I!Chunk(1)) \in IdsIn(R)
  BY <1>1 DEF LedOK
<1>5. ASSUME p # I!Whole
      PROVE  \E w \in R \cup {x} : w.id = IdOf(pins, r, I!Chunk(1))
  BY <1>3, <1>4, <1>5 DEF IdsIn
<1>6. IdOf(pins, r, I!Chunk(1)).file = HandOf(r) /\ IdOf(pins, r, I!Chunk(1)).part = I!Chunk(1)
  BY DEF IdOf
<1>7. ASSUME p # I!Whole PROVE IdOf(pins, r, I!Chunk(1)) \notin r.after
  <2>1. ChunkedOf(r)
    <3>1. Head(<<I!Whole>>) = I!Whole
      OBVIOUS
    <3> QED
      BY <1>1, <1>7, <3>1, PartsAre DEF Pieces
  <2>2. CurrentOf(pins, r, IdOf(pins, r, I!Chunk(1)))
    BY <2>1, ExistIs DEF ExistOf
  <2> QED
    BY <2>2 DEF LedOK
<1>8. Led(pins, R, {}) /\ Led(pins, R, r.after)
  <2>1. Dropping(r) = r.after
    BY <1>2 DEF Dropping, HeldOK
  <2> QED
    BY <2>1 DEF LedOK
<1>9. Led(pins, R \cup {x}, {})
  BY <1>3, <1>5, <1>6, <1>8 DEF Led
<1>10. Led(pins, R \cup {x}, r.after)
  BY <1>3, <1>5, <1>6, <1>7, <1>8 DEF Led
<1>11. ASSUME Len(r.parts) > 1 PROVE IdOf(pins, r, I!Chunk(1)) \in IdsIn(R \cup {x})
  <2>1. p # I!Whole
    <3>1. Len(<<I!Whole>>) = 1 /\ \A n \in Nat : n > 1 => n # 1
      OBVIOUS
    <3>2. r.parts # <<I!Whole>>
      BY <1>11, <3>1, PartsAre, Zenon
    <3>3. 1 \in 1..Len(r.parts) /\ p = r.parts[1]
      BY <1>1, PartsAre
    <3> QED
      BY <3>2, <3>3, PartsAre DEF Pieces
  <2> QED
    BY <1>5, <2>1 DEF IdsIn
<1> QED
  BY <1>9, <1>10, <1>11

\* The importer that moves is the only one under way.
LEMMA LedMoves ==
    ASSUME KeptInv, ~raced, NEW i \in Importers, imp[i].pc # "idle", NEW c,
           imp' = [imp EXCEPT ![i] = c], pinned' = pinned, LedOK(pinned, c, imported'),
           c.pc = "idle" => Led(pinned, imported', {})
    PROVE  PinsLed'
<1>1. AloneHere(i)
  BY DEF KeptInv, AloneHere
<1>2. \A j \in Importers \ {i} : imp[j].pc = "idle"
  BY <1>1 DEF KeptInv
<1>3. imp'[i] = c /\ \A j \in Importers \ {i} : imp'[j].pc = "idle"
  BY <1>2 DEF KeptInv
<1> QED
  BY <1>3 DEF PinsLed

LEMMA PinsInit == I!Init => PinsLed
<1> SUFFICES ASSUME I!Init PROVE PinsLed
  OBVIOUS
<1>1. imported = {} /\ \A i \in Importers : imp[i].pc = "idle"
  BY IdleHeld DEF I!Init
<1> QED
  BY <1>1 DEF PinsLed, Led

LEMMA PinsStart ==
    ASSUME KeptInv, PinsLed, NEW i \in Importers, I!Start(i), ~raced' PROVE PinsLed'
<1>1. imp[i].pc = "idle" /\ (\A j \in Importers : imp[j].pc = "idle")
      /\ UNCHANGED <<pinned, imported>>
  BY DEF I!Start
<1>2. Led(pinned, imported, {})
  BY <1>1 DEF PinsLed
<1>3. PICK update \in BOOLEAN, contextual \in BOOLEAN :
        imp' = [j \in Importers |->
                  IF j = i
                  THEN [I!Idle EXCEPT !.pc = "look", !.update = update, !.docs = file,
                           !.contextual = contextual, !.todo = Files,
                           !.alone = {k \in Importers : imp[k].pc # "idle"} = {}]
                  ELSE [imp[j] EXCEPT !.alone = imp[j].alone /\ imp[j].pc = "idle"]]
  BY DEF I!Start
<1>4. imp'[i].pc = "look" /\ imp'[i].purging = {} /\ imp'[i].after = {}
  BY <1>3 DEF I!Idle
<1>5. ASSUME NEW j \in Importers, j # i PROVE imp'[j].pc = "idle"
  BY <1>1, <1>3, <1>5 DEF KeptInv, ImportRec
<1>6. LedOK(pinned, imp'[i], imported)
  BY <1>2, <1>4 DEF LedOK, Dropping
<1> QED
  BY <1>1, <1>2, <1>5, <1>6 DEF PinsLed

\* One that is not purging sees every file led.
LEMMA LedSeen ==
    ASSUME KeptInv, PinsLed, NEW i \in Importers, imp[i].pc # "idle"
    PROVE  /\ LedOK(pinned, imp[i], imported)
           /\ imp[i].pc \notin {"purge", "clean"} => Led(pinned, imported, {})
  BY DEF PinsLed, LedOK

LEMMA PinsLook ==
    ASSUME KeptInv, PinsLed, ~raced, NEW i \in Importers, I!Look(i) PROVE PinsLed'
<1>1. imp[i].pc = "look" /\ UNCHANGED <<pinned, imported>>
  BY DEF I!Look
<1>2. Underway(imp[i]) /\ imp[i] \in ImportRec /\ HeldOK(imp[i]) /\ Led(pinned, imported, {})
  BY <1>1, ImporterIs, LedSeen
<1>3. CASE imp[i].update
  <2>1. PICK c : c = [imp[i] EXCEPT !.found = (I!ExistingId(i) \in I!Stored), !.pc = "prior"]
    OBVIOUS
  <2>2. imp' = [imp EXCEPT ![i] = c]
    BY <1>3, <2>1 DEF I!Look
  <2>3. c.pc = "prior" /\ c.purging = {} /\ c.after = {}
    BY <1>1, <1>2, <2>1 DEF ImportRec, HeldOK
  <2>4. LedOK(pinned, c, imported')
    BY <1>1, <1>2, <2>3 DEF LedOK, Dropping
  <2> QED
    BY <1>1, <2>2, <2>3, <2>4, LedMoves
<1>4. CASE ~imp[i].update
  <2>1. PICK there : there = (ExistOf(pinned, imp[i]) \in IdsIn(imported))
    OBVIOUS
  <2>2. PICK c \in DecidedOf(imp[i], there, {}) : imp' = [imp EXCEPT ![i] = c]
    BY <1>4, <2>1, OfRecord, StoredIs DEF I!Look
  <2>3. there \in BOOLEAN /\ OfHand(imp[i], {})
    BY <2>1 DEF OfHand
  <2>4. LedOK(pinned, c, imported)
    BY <1>2, <2>2, <2>3, LedDecided
  <2> QED
    BY <1>1, <1>2, <2>2, <2>4, LedMoves
<1> QED
  BY <1>3, <1>4

LEMMA PinsReread ==
    ASSUME KeptInv, PinsLed, ~raced, NEW i \in Importers, I!Reread(i) PROVE PinsLed'
<1>1. imp[i].pc = "reread" /\ UNCHANGED <<pinned, imported>>
  BY DEF I!Reread
<1>2. Underway(imp[i]) /\ Led(pinned, imported, {})
  BY <1>1, ImporterIs, LedSeen
<1>3. PICK there : there = (ExistOf(pinned, imp[i]) \in IdsIn(imported))
  OBVIOUS
<1>4. PICK c \in DecidedOf(imp[i], there, {}) : imp' = [imp EXCEPT ![i] = c]
  <2>1. I!Decided(i, I!ExistingId(i) \in I!Stored, {}) = DecidedOf(imp[i], there, {})
    BY <1>3, OfRecord, StoredIs
  <2> QED
    BY <2>1 DEF I!Reread
<1>5. there \in BOOLEAN /\ OfHand(imp[i], {})
  BY <1>3 DEF OfHand
<1>6. LedOK(pinned, c, imported)
  BY <1>2, <1>4, <1>5, LedDecided
<1> QED
  BY <1>1, <1>2, <1>4, <1>6, LedMoves

LEMMA PinsPrior ==
    ASSUME KeptInv, PinsLed, ~raced, NEW i \in Importers, I!Prior(i) PROVE PinsLed'
<1>1. PICK r : r = imp[i]
  OBVIOUS
<1>2. /\ r.pc = "prior" /\ r.pc # "idle" /\ UNCHANGED <<pinned, imported>>
  BY <1>1, PriorIs
<1>3. Underway(r) /\ RowsOK(pinned, imported) /\ Led(pinned, imported, {})
  BY <1>1, <1>2, ImporterIs, LedSeen DEF KeptInv
<1>4. PICK prior, stale : prior = PriorOf(r, imported) /\ stale = StaleOf(pinned, r, imported)
  OBVIOUS
<1>5. /\ Led(pinned, imported, prior) /\ Led(pinned, imported, stale)
      /\ OfHand(r, stale) /\ \A id \in stale : ~CurrentOf(pinned, r, id)
  BY <1>3, <1>4, LedSorted, PriorIds DEF StaleOf
<1>6. CASE ~r.found
  <2>1. PICK c \in DecidedOf(r, FALSE, stale) : imp' = [imp EXCEPT ![i] = c]
    BY <1>1, <1>4, <1>6, PriorIs
  <2>2. LedOK(pinned, c, imported)
    BY <1>3, <1>5, <2>1, LedDecided
  <2> QED
    BY <1>1, <1>2, <1>3, <2>1, <2>2, LedMoves
<1>7. CASE r.found
  <2>x. PICK x : x = SortedOf(pinned, r, imported)
    OBVIOUS
  <2>1. /\ x \in ImportRec /\ SameDoc(r, x) /\ x.after = {} /\ x.purging \in {prior, stale}
    BY <1>2, <1>3, <1>4, <2>x, SortedIs
  <2>c. PICK c : c = OnwardOf(x, DocOf(r).meta)
    OBVIOUS
  <2>2. imp' = [imp EXCEPT ![i] = c]
    BY <1>1, <1>7, <2>x, <2>c, PriorIs
  <2>3. LedOK(pinned, c, imported)
    BY <1>3, <1>5, <2>1, <2>c, LedOnward
  <2> QED
    BY <1>1, <1>2, <1>3, <2>2, <2>3, LedMoves
<1> QED
  BY <1>6, <1>7

LEMMA PinsRefresh ==
    ASSUME KeptInv, PinsLed, ~raced, NEW i \in Importers, I!Refresh(i) PROVE PinsLed'
<1>1. PICK r : r = imp[i]
  OBVIOUS
<1>2. r.pc = "refresh" /\ r.pc # "idle" /\ pinned' = pinned
  BY <1>1, RefreshIs
<1>3. /\ Underway(r) /\ RowsOK(pinned, imported) /\ LedOK(pinned, r, imported)
      /\ Led(pinned, imported, {}) /\ r.after = {}
  BY <1>1, <1>2, ImporterIs, LedSeen DEF KeptInv, HeldOK
<1>4. PICK id \in r.refresh :
        \/ /\ imp' = [imp EXCEPT ![i] = NextOf(r, FALSE)] /\ imported' = imported
        \/ /\ imported' = Refreshed(imported, id, DocOf(r).meta)
           /\ imp' = [imp EXCEPT ![i] = OnwardOf(RefreshingOf(r, id), DocOf(r).meta)]
  BY <1>1, RefreshIs
<1>5. CASE imp' = [imp EXCEPT ![i] = NextOf(r, FALSE)] /\ imported' = imported
  <2>1. LedOK(pinned, NextOf(r, FALSE), imported')
    BY <1>3, <1>5, LedNext
  <2> QED
    BY <1>1, <1>2, <1>3, <1>5, <2>1, LedMoves
<1>6. CASE /\ imported' = Refreshed(imported, id, DocOf(r).meta)
           /\ imp' = [imp EXCEPT ![i] = OnwardOf(RefreshingOf(r, id), DocOf(r).meta)]
  <2>x. PICK x : x = RefreshingOf(r, id)
    OBVIOUS
  <2>c. PICK c : c = OnwardOf(x, DocOf(r).meta)
    OBVIOUS
  <2>1. x \in ImportRec /\ SameDoc(r, x) /\ x.after = {} /\ x.purging = r.purging
    BY <1>2, <1>3, <2>x, RefreshingIs
  <2>2. DocOf(r).meta \in 0..1
    BY <1>2, <1>3, DocIs DEF Underway
  <2>3. Led(pinned, imported, r.purging)
    <3>1. Dropping(r) = r.purging
      BY <1>3 DEF Dropping
    <3> QED
      BY <1>3, <3>1 DEF LedOK
  <2>4. Led(pinned, imported', {}) /\ Led(pinned, imported', r.purging)
    BY <1>3, <1>6, <2>2, <2>3, LedRefreshed DEF RowsOK
  <2>5. LedOK(pinned, c, imported')
    BY <1>3, <2>1, <2>c, <2>4, LedOnward
  <2>6. imp' = [imp EXCEPT ![i] = c]
    BY <1>6, <2>x, <2>c
  <2> QED
    BY <1>1, <1>2, <2>4, <2>5, <2>6, LedMoves
<1> QED
  BY <1>4, <1>5, <1>6

LEMMA PinsPurge ==
    ASSUME KeptInv, PinsLed, ~raced, NEW i \in Importers, I!Purge(i) PROVE PinsLed'
<1>1. PICK r : r = imp[i]
  OBVIOUS
<1>2. r.pc = "purge" /\ r.pc # "idle" /\ pinned' = pinned
  BY <1>1, PurgeIs
<1>3. Underway(r) /\ LedOK(pinned, r, imported) /\ r.after = {}
  BY <1>1, <1>2, ImporterIs, LedSeen DEF HeldOK
<1>4. PICK id \in r.purging :
        /\ imported' = Without(imported, id)
        /\ imp' = [imp EXCEPT ![i] = OnwardOf(PurgingOf(r, id), DocOf(r).meta)]
  BY <1>1, PurgeIs
<1>x. PICK x : x = PurgingOf(r, id)
  OBVIOUS
<1>c. PICK c : c = OnwardOf(x, DocOf(r).meta)
  OBVIOUS
<1>5. /\ x \in ImportRec /\ SameDoc(r, x) /\ x.after = {} /\ x.refresh = {}
      /\ x.purging = r.purging \ {id}
  BY <1>2, <1>3, <1>x, PurgingIs
<1>6. Led(pinned, imported', x.purging)
  <2>1. Dropping(r) = r.purging
    BY <1>3 DEF Dropping
  <2>2. Led(pinned, imported, r.purging)
    BY <1>3, <2>1 DEF LedOK
  <2> QED
    BY <1>4, <1>5, <2>2, LedWithout
<1>7. LedOK(pinned, c, imported')
  BY <1>3, <1>5, <1>6, <1>c, LedOnward
<1>8. imp' = [imp EXCEPT ![i] = c] /\ c.pc # "idle"
  <2>1. c.pc \in {"refresh", "purge", "reread"}
    BY <1>5, <1>c, OnwardFields
  <2> QED
    BY <1>4, <1>x, <1>c, <2>1
<1> QED
  BY <1>1, <1>2, <1>7, <1>8, LedMoves

LEMMA PinsRemember ==
    ASSUME KeptInv, PinsLed, ~raced, NEW i \in Importers, I!Remember(i) PROVE PinsLed'
<1>1. PICK r : r = imp[i]
  OBVIOUS
<1>2. r.pc = "remember" /\ r.pc # "idle" /\ pinned' = pinned
  BY <1>1, RememberIs
<1>3. /\ Underway(r) /\ RowsOK(pinned, imported) /\ LedOK(pinned, r, imported)
      /\ Led(pinned, imported, {})
  BY <1>1, <1>2, ImporterIs, LedSeen DEF KeptInv
<1>4. CASE imp' = [imp EXCEPT ![i] = NextOf(r, FALSE)] /\ imported' = imported
  <2>1. LedOK(pinned, NextOf(r, FALSE), imported')
    BY <1>3, <1>4, LedNext
  <2> QED
    BY <1>1, <1>2, <1>3, <1>4, <2>1, LedMoves
<1>5. CASE /\ imported' = imported \cup {RowFor(pinned, r, Head(r.parts))}
           /\ imp' = [imp EXCEPT ![i] = RememberedOf(r)]
  <2>1. /\ Led(pinned, imported', {}) /\ Led(pinned, imported', r.after)
        /\ Len(r.parts) > 1 => IdOf(pinned, r, I!Chunk(1)) \in IdsIn(imported')
    BY <1>2, <1>3, <1>5, LedAdded
  <2>2. \A id \in r.after : ~CurrentOf(pinned, r, id)
    BY <1>3 DEF LedOK
  <2>3. LedOK(pinned, RememberedOf(r), imported')
    <3>1. CASE Len(r.parts) > 1
      <4>1. PICK c : c = MoreOf(r)
        OBVIOUS
      <4>2. /\ c.pc = "remember" /\ c.after = r.after /\ c.purging = {} /\ SameDoc(r, c)
        BY <1>2, <1>3, <3>1, <4>1, MoreIs
      <4>3. /\ IdOf(pinned, c, I!Chunk(1)) = IdOf(pinned, r, I!Chunk(1))
            /\ \A id : CurrentOf(pinned, c, id) = CurrentOf(pinned, r, id)
        BY <4>2, SameHand
      <4>4. Dropping(c) = r.after
        BY <4>2 DEF Dropping
      <4>5. LedOK(pinned, c, imported')
        BY <2>1, <2>2, <3>1, <4>2, <4>3, <4>4 DEF LedOK
      <4> QED
        BY <3>1, <4>1, <4>5 DEF RememberedOf
    <3>2. CASE ~(Len(r.parts) > 1) /\ r.after # {}
      <4>1. PICK c : c = CleaningOf(r)
        OBVIOUS
      <4>2. /\ c.pc = "clean" /\ c.after = r.after /\ c.purging = {} /\ SameDoc(r, c)
        BY <1>2, <1>3, <4>1, CleaningIs
      <4>3. \A id : CurrentOf(pinned, c, id) = CurrentOf(pinned, r, id)
        BY <4>2, SameHand
      <4>4. Dropping(c) = r.after
        BY <4>2 DEF Dropping
      <4>5. LedOK(pinned, c, imported')
        BY <2>1, <2>2, <4>2, <4>3, <4>4 DEF LedOK
      <4> QED
        BY <3>2, <4>1, <4>5 DEF RememberedOf
    <3>3. CASE ~(Len(r.parts) > 1) /\ r.after = {}
      <4>1. LedOK(pinned, NextOf(r, TRUE), imported')
        BY <1>3, <2>1, LedNext
      <4> QED
        BY <3>3, <4>1 DEF RememberedOf
    <3> QED
      BY <3>1, <3>2, <3>3
  <2> QED
    BY <1>1, <1>2, <1>5, <2>1, <2>3, LedMoves
<1> QED
  BY <1>1, <1>4, <1>5, RememberIs

LEMMA PinsClean ==
    ASSUME KeptInv, PinsLed, ~raced, NEW i \in Importers, I!Clean(i) PROVE PinsLed'
<1>1. PICK r : r = imp[i]
  OBVIOUS
<1>2. r.pc = "clean" /\ r.pc # "idle" /\ pinned' = pinned
  BY <1>1, CleanIs
<1>3. /\ Underway(r) /\ LedOK(pinned, r, imported) /\ r.purging = {}
      /\ r \in ImportRec /\ r.todo # {}
  BY <1>1, <1>2, ImporterIs, LedSeen DEF HeldOK
<1>4. PICK id \in r.after :
        /\ imported' = Without(imported, id)
        /\ imp' = [imp EXCEPT ![i] = CleanedOf(r, id)]
  BY <1>1, CleanIs
<1>5. Led(pinned, imported', r.after \ {id})
  <2>1. Dropping(r) = r.after
    BY <1>3 DEF Dropping
  <2>2. Led(pinned, imported, r.after)
    BY <1>3, <2>1 DEF LedOK
  <2> QED
    BY <1>4, <2>2, LedWithout
<1>6. CASE r.after = {id}
  <2>1. r.after \ {id} = {}
    BY <1>6
  <2>2. Led(pinned, imported', {})
    BY <1>5, <2>1
  <2>3. LedOK(pinned, NextOf(r, TRUE), imported')
    BY <1>3, <2>2, LedNext
  <2>4. imp' = [imp EXCEPT ![i] = NextOf(r, TRUE)]
    BY <1>4, <1>6 DEF CleanedOf
  <2> QED
    BY <1>1, <1>2, <2>2, <2>3, <2>4, LedMoves
<1>7. CASE r.after # {id}
  <2>1. PICK c : c = DroppedOf(r, id)
    OBVIOUS
  <2>2. /\ c.pc = "clean" /\ c.after = r.after \ {id} /\ c.purging = {} /\ SameDoc(r, c)
    BY <1>2, <1>3, <2>1, DroppedIs
  <2>3. \A x : CurrentOf(pinned, c, x) = CurrentOf(pinned, r, x)
    BY <2>2, SameHand
  <2>4. Dropping(c) = r.after \ {id}
    BY <2>2 DEF Dropping
  <2>5. \A x \in r.after : ~CurrentOf(pinned, r, x)
    BY <1>3 DEF LedOK
  <2>6. LedOK(pinned, c, imported')
    BY <1>5, <2>2, <2>3, <2>4, <2>5 DEF LedOK
  <2>7. imp' = [imp EXCEPT ![i] = c] /\ c.pc # "idle"
    BY <1>4, <1>7, <2>1, <2>2 DEF CleanedOf
  <2> QED
    BY <1>1, <1>2, <2>6, <2>7, LedMoves
<1> QED
  BY <1>6, <1>7

LEMMA PinsReport ==
    ASSUME KeptInv, PinsLed, ~raced, NEW i \in Importers, I!Report(i) PROVE PinsLed'
<1>1. imp[i].pc = "done" /\ imp' = [imp EXCEPT ![i] = I!Idle] /\ UNCHANGED <<pinned, imported>>
  BY DEF I!Report
<1>2. Led(pinned, imported, {})
  BY <1>1, LedSeen
<1>3. I!Idle.purging = {} /\ I!Idle.after = {} /\ I!Idle.pc = "idle"
  BY DEF I!Idle
<1>4. LedOK(pinned, I!Idle, imported)
  BY <1>2, <1>3 DEF LedOK, Dropping
<1> QED
  BY <1>1, <1>2, <1>4, LedMoves

LEMMA StepQuiet ==
    ASSUME NEW i \in Importers,
           \/ I!Look(i) \/ I!Prior(i) \/ I!Refresh(i) \/ I!Purge(i) \/ I!Reread(i)
           \/ I!Remember(i) \/ I!Clean(i) \/ I!Report(i)
    PROVE  UNCHANGED <<pinned, raced, faults>>
<1>1. CASE I!Look(i)
  BY <1>1 DEF I!Look
<1>2. CASE I!Prior(i)
  BY <1>2 DEF I!Prior
<1>3. CASE I!Refresh(i)
  BY <1>3 DEF I!Refresh
<1>4. CASE I!Purge(i)
  BY <1>4 DEF I!Purge
<1>5. CASE I!Reread(i)
  BY <1>5 DEF I!Reread
<1>6. CASE I!Remember(i)
  BY <1>6 DEF I!Remember
<1>7. CASE I!Clean(i)
  BY <1>7 DEF I!Clean
<1>8. CASE I!Report(i)
  BY <1>8 DEF I!Report
<1> QED
  BY <1>1, <1>2, <1>3, <1>4, <1>5, <1>6, <1>7, <1>8

LEMMA PinsStep ==
    ASSUME KeptInv, faults \in Nat, faults = 0 /\ ~raced => PinsLed, [I!Next]_I!vars,
           faults' = 0, ~raced'
    PROVE  PinsLed'
<1>1. CASE UNCHANGED I!vars
  BY <1>1 DEF I!vars, PinsLed
<1>2. ASSUME NEW f \in Files, I!Edit(f) PROVE PinsLed'
  BY <1>2 DEF I!Edit, PinsLed
<1>3. ASSUME NEW i \in Importers, I!Start(i) PROVE PinsLed'
  <2>1. ~raced /\ faults = 0
    BY <1>3 DEF I!Start
  <2> QED
    BY <1>3, <2>1, PinsStart
<1>4. ASSUME NEW i \in Importers, I!Fault(i) PROVE PinsLed'
  <2>1. faults' = faults + 1
    BY <1>4, FaultIs
  <2>2. faults + 1 # 0
    OBVIOUS
  <2> QED
    BY <2>1, <2>2
<1>5. ASSUME NEW i \in Importers,
             \/ I!Look(i) \/ I!Prior(i) \/ I!Refresh(i) \/ I!Purge(i) \/ I!Reread(i)
             \/ I!Remember(i) \/ I!Clean(i) \/ I!Report(i)
      PROVE  PinsLed'
  <2>1. ~raced /\ faults = 0
    <3>1. UNCHANGED <<pinned, raced, faults>>
      BY <1>5, StepQuiet
    <3> QED
      BY <3>1
  <2> QED
    BY <1>5, <2>1, PinsLook, PinsPrior, PinsRefresh, PinsPurge, PinsReread, PinsRemember,
       PinsClean, PinsReport
<1> QED
  BY <1>1, <1>2, <1>3, <1>4, <1>5 DEF I!Next

(***************************************************************************)
(* An update import brings the rows of what it covers to date.             *)
(***************************************************************************)
CoveredBrought(E, r, R) == \A f \in r.covered \cap E : Brought(r.docs[f], R, f)

\* Rows of other files do not matter.
LEMMA BroughtSame ==
    ASSUME NEW doc, NEW R, NEW S2, NEW f, Brought(doc, R, f),
           \A x : x.id.file = f => (x \in R <=> x \in S2)
    PROVE  Brought(doc, S2, f)
  BY DEF Brought, WholeUp

LEMMA CoveredSame ==
    ASSUME NEW r, Underway(r), NEW E, NEW R, NEW S2, CoveredBrought(E, r, R),
           \A x : x.id.file # HandOf(r) => (x \in R <=> x \in S2)
    PROVE  CoveredBrought(E, r, S2)
<1>1. HandOf(r) \notin r.covered
  BY DocIs DEF Underway
<1>2. ASSUME NEW f \in r.covered \cap E PROVE Brought(r.docs[f], S2, f)
  <2>1. Brought(r.docs[f], R, f) /\ f # HandOf(r)
    BY <1>1 DEF CoveredBrought
  <2>2. \A x : x.id.file = f => (x \in R <=> x \in S2)
    BY <2>1
  <2> QED
    BY <2>1, <2>2, BroughtSame
<1> QED
  BY <1>2 DEF CoveredBrought

\* Asked of fewer files.
LEMMA UpdateFewer ==
    ASSUME NEW pins, NEW E, NEW E2, E2 \subseteq E, NEW r, NEW R, UpdateOK(pins, E, r, R)
    PROVE  UpdateOK(pins, E2, r, R)
  BY DEF UpdateOK

LEMMA UpdateNext ==
    ASSUME NEW r, Underway(r), NEW fully \in BOOLEAN, NEW pins, NEW E, NEW R,
           CoveredBrought(E, r, R),
           fully /\ HandOf(r) \in E => Brought(DocOf(r), R, HandOf(r))
    PROVE  UpdateOK(pins, E, NextOf(r, fully), R)
<1>0. r \in ImportRec /\ r.todo # {}
  BY DEF Underway, HeldOK
<1>1. PICK c : c = NextOf(r, fully)
  OBVIOUS
<1>2. /\ c.covered = r.covered \cup IF fully THEN {HandOf(r)} ELSE {}
      /\ c.pc \in {"look", "done"} /\ c.docs = r.docs
  BY <1>0, <1>1, NextFields
<1>3. ASSUME NEW f \in c.covered \cap E PROVE Brought(c.docs[f], R, f)
  <2>1. CASE f \in r.covered
    BY <1>2, <2>1 DEF CoveredBrought
  <2>2. CASE f \notin r.covered
    <3>1. fully /\ f = HandOf(r)
      BY <1>2, <2>2
    <3> QED
      BY <1>2, <3>1 DEF DocOf
  <2> QED
    BY <2>1, <2>2
<1>4. UpdateOK(pins, E, c, R)
  BY <1>2, <1>3 DEF UpdateOK
<1> QED
  BY <1>1, <1>4

\* What is left beside a document that is about to be written.
LEMMA UpdateDecided ==
    ASSUME NEW r, Underway(r), NEW there \in BOOLEAN, NEW later, OfHand(r, later),
           NEW c \in DecidedOf(r, there, later), NEW pins, NEW E, NEW R, R \subseteq RowSet,
           CoveredBrought(E, r, R),
           there /\ HandOf(r) \in E => Brought(DocOf(r), R, HandOf(r)),
           ~there /\ HandOf(r) \in E =>
             \A x \in R : x.id.file = HandOf(r) /\ x.id \notin later =>
               x.body = DocOf(r).text /\ (UpTo(DocOf(r), x) \/ x.id.part # I!Whole)
    PROVE  UpdateOK(pins, E, c, R)
<1>0. r \in ImportRec /\ r.todo # {} /\ later \in SUBSET I!Ids
  BY DEF Underway, HeldOK, OfHand
<1>1. CASE there /\ c = NextOf(r, TRUE)
  BY <1>1, UpdateNext
<1>2. ASSUME ~there, NEW pieces \in Seq(I!Parts), c = WritingOf(r, later, pieces),
             pieces = <<I!Whole>> \/ pieces = ChunkPieces
      PROVE  UpdateOK(pins, E, c, R)
  <2>1. /\ c.purging = {} /\ c.after = later /\ c.pc = "remember" /\ c.parts = pieces
        /\ SameDoc(r, c) /\ c.covered = r.covered
    BY <1>0, <1>2, WritingFields
  <2>2. HandOf(c) = HandOf(r) /\ DocOf(c) = DocOf(r) /\ c.docs = r.docs
    BY <2>1, SameHand DEF SameDoc
  <2>3. ASSUME NEW p \in I!Parts, p # I!Whole
        PROVE  \E n \in 1..Len(pieces) : pieces[n] \in {I!Whole, p}
    <3>1. CASE pieces = <<I!Whole>>
      <4>1. 1 \in 1..Len(pieces) /\ pieces[1] = I!Whole
        BY <3>1
      <4> QED
        BY <4>1
    <3>2. CASE pieces = ChunkPieces
      BY <2>3, <3>2, PiecesAre
    <3> QED
      BY <1>2, <3>1, <3>2
  <2>4. ASSUME NEW x \in R, x.id.file = HandOf(r), HandOf(r) \in E PROVE WrittenOK(c, R, x)
    <3>1. x.id.part \in I!Parts
      BY DEF RowSet, I!Ids
    <3> QED
      BY <1>2, <2>1, <2>2, <2>3, <2>4, <3>1 DEF WrittenOK
  <2> QED
    BY <2>1, <2>2, <2>4 DEF UpdateOK, CoveredBrought
<1> QED
  BY <1>0, <1>1, <1>2, DecidedIs

LEMMA UpdateOnward ==
    ASSUME NEW r, NEW x \in ImportRec, SameDoc(r, x), x.covered = r.covered,
           NEW pins, NEW E, NEW R, CoveredBrought(E, r, R),
           \A id \in x.refresh : id.file = HandOf(r),
           HandOf(r) \in E => \A y \in R : y.id.file = HandOf(r) => PriorOK(pins, x, y)
    PROVE  UpdateOK(pins, E, OnwardOf(x, DocOf(r).meta), R)
<1>1. PICK c : c = OnwardOf(x, DocOf(r).meta)
  OBVIOUS
<1>2. /\ SameDoc(x, c) /\ c.purging = x.purging /\ c.refresh = x.refresh
      /\ c.covered = r.covered /\ c.pc \in {"refresh", "purge", "reread"}
  BY <1>1, OnwardFields
<1>3. HandOf(c) = HandOf(r) /\ c.docs = r.docs /\ DocOf(c) = DocOf(x)
      /\ \A id : CurrentOf(pins, c, id) = CurrentOf(pins, x, id)
  BY <1>2, SameHand DEF SameDoc
<1>4. \A y : PriorOK(pins, x, y) => PriorOK(pins, c, y)
  BY <1>2, <1>3 DEF PriorOK
<1>5. UpdateOK(pins, E, c, R)
  BY <1>2, <1>3, <1>4 DEF UpdateOK, CoveredBrought
<1> QED
  BY <1>1, <1>5

\* What every importer that is alone and updates has to do with E.
AllUpdate(E) ==
    \A j \in Importers : AloneHere(j) /\ imp[j].update => UpdateOK(pinned, E, imp[j], imported)

LEMMA UpdateMoves ==
    ASSUME KeptInv, NEW i \in Importers, imp[i].pc # "idle", NEW c, NEW E,
           imp' = [imp EXCEPT ![i] = c], pinned' = pinned,
           c.pc = "idle" \/ (c.alone = imp[i].alone /\ c.update = imp[i].update),
           AloneHere(i) /\ imp[i].update => UpdateOK(pinned, E, c, imported')
    PROVE  \A j \in Importers :
             AloneHere(j)' /\ imp'[j].update => UpdateOK(pinned', E, imp'[j], imported')
<1>1. imp'[i] = c /\ \A j \in Importers \ {i} : imp'[j] = imp[j]
  BY DEF KeptInv
<1>2. ASSUME NEW j \in Importers, AloneHere(j)' PROVE j = i
  <2>1. j # i => AloneHere(j)
    BY <1>1, <1>2 DEF AloneHere
  <2> QED
    BY <2>1 DEF KeptInv
<1>3. AloneHere(i)' /\ imp'[i].update => UpdateOK(pinned, E, c, imported')
  BY <1>1 DEF AloneHere
<1> QED
  BY <1>1, <1>2, <1>3

\* The rows an update import starts from, of a file it has to bring to date.
LEMMA PriorRows ==
    ASSUME NEW r, Underway(r), NEW pins, NEW R, RowsOK(pins, R), HandOf(r) \in pins => Led(pins, R, {}),
           ExistOf(pins, r) \notin IdsIn(R),
           NEW x \in R, x.id.file = HandOf(r), x.id \notin StaleOf(pins, r, R)
    PROVE  x.body = DocOf(r).text /\ x.id.part # I!Whole
<1>1. CurrentOf(pins, r, x.id)
  BY DEF StaleOf, PriorOf
<1>2. x.id.base = BaseOf(pins, HandOf(r), DocOf(r).text) /\ x.id \in I!Ids
  BY <1>1 DEF CurrentOf, RowsOK, RowSet
<1>3. ASSUME NEW w \in R, w.id.file = HandOf(r), w.id.base = x.id.base,
             w.id.part = IF ChunkedOf(r) THEN I!Chunk(1) ELSE I!Whole
      PROVE  FALSE
  <2>1. w.id \in I!Ids
    BY DEF RowsOK, RowSet
  <2>2. w.id = ExistOf(pins, r)
    BY <1>2, <1>3, <2>1 DEF ExistOf, IdOf, I!Ids
  <2> QED
    BY <2>2 DEF IdsIn
<1>4. ChunkedOf(r)
  <2>1. ASSUME ~ChunkedOf(r) PROVE FALSE
    <3>1. x.id.part = I!Whole
      BY <1>1, <2>1 DEF CurrentOf
    <3> QED
      BY <1>3, <2>1, <3>1
  <2> QED
    BY <2>1
<1>5. x.id.part # I!Whole
  BY <1>1, <1>4 DEF CurrentOf
<1>6. HandOf(r) \notin pins
  <2>1. ASSUME HandOf(r) \in pins PROVE FALSE
    <3>1. PICK w \in R : w.id.file = HandOf(r) /\ w.id.part = I!Chunk(1)
      BY <1>5, <2>1 DEF Led
    <3>2. w.id.base = 0 /\ x.id.base = 0
      BY <2>1, <3>1 DEF RowsOK, BaseOf
    <3> QED
      BY <1>3, <1>4, <3>1, <3>2
  <2> QED
    BY <2>1
<1>7. x.body = DocOf(r).text
  BY <1>2, <1>6 DEF RowsOK, BaseOf
<1> QED
  BY <1>5, <1>7

\* What is sorted out.
LEMMA SortedFresh ==
    ASSUME NEW r, Underway(r), r.pc = "prior", NEW pins, NEW R, RowsOK(pins, R),
           NEW y \in R, y.id.file = HandOf(r)
    PROVE  PriorOK(pins, SortedOf(pins, r, R), y)
<1>1. PICK x : x = SortedOf(pins, r, R)
  OBVIOUS
<1>2. /\ SameDoc(r, x)
      /\ IF Unchanged(pins, r, R)
         THEN x.purging = StaleOf(pins, r, R) /\ x.refresh = PriorOf(r, R) \ StaleOf(pins, r, R)
         ELSE x.purging = PriorOf(r, R) /\ x.refresh = {}
  BY <1>1, SortedIs
<1>3. DocOf(x) = DocOf(r) /\ \A id : CurrentOf(pins, x, id) = CurrentOf(pins, r, id)
  BY <1>2, SameHand
<1>4. y.id \in PriorOf(r, R)
  BY DEF PriorOf
<1>5. ASSUME Unchanged(pins, r, R), CurrentOf(pins, r, y.id) PROVE y.body = DocOf(r).text
  <2>1. CASE HandOf(r) \notin pins
    BY <1>5, <2>1 DEF CurrentOf, RowsOK, BaseOf
  <2>2. CASE HandOf(r) \in pins
    <3>1. ~ChunkedOf(r)
      BY <1>5, <2>2 DEF Unchanged
    <3>2. PICK w \in R : w.id = ExistOf(pins, r) /\ w.body = DocOf(r).text
      BY <1>5, <3>1 DEF Unchanged
    <3>3. y.id.part = I!Whole /\ y.id.base = BaseOf(pins, HandOf(r), DocOf(r).text)
          /\ y.id \in I!Ids
      BY <1>5, <3>1 DEF CurrentOf, RowsOK, RowSet
    <3>4. y.id = w.id
      BY <3>1, <3>2, <3>3 DEF ExistOf, IdOf, I!Ids
    <3> QED
      BY <3>2, <3>4 DEF RowsOK
  <2> QED
    BY <2>1, <2>2
<1>6. PriorOK(pins, x, y)
  <2>1. CASE ~Unchanged(pins, r, R)
    BY <1>2, <1>4, <2>1 DEF PriorOK
  <2>2. CASE Unchanged(pins, r, R) /\ CurrentOf(pins, r, y.id)
    <3>1. y.id \in x.refresh
      BY <1>2, <1>4, <2>2 DEF StaleOf
    <3> QED
      BY <1>3, <1>5, <2>2, <3>1 DEF PriorOK
  <2>3. CASE Unchanged(pins, r, R) /\ ~CurrentOf(pins, r, y.id)
    BY <1>2, <1>4, <2>3 DEF PriorOK, StaleOf
  <2> QED
    BY <2>1, <2>2, <2>3
<1> QED
  BY <1>1, <1>6

LEMMA UpdateLook ==
    ASSUME KeptInv, NEW i \in Importers, I!Look(i), NEW E, AllUpdate(E)
    PROVE  \A j \in Importers :
             AloneHere(j)' /\ imp'[j].update => UpdateOK(pinned', E, imp'[j], imported')
<1>1. imp[i].pc = "look" /\ UNCHANGED <<pinned, imported>>
  BY DEF I!Look
<1>2. Underway(imp[i]) /\ imp[i] \in ImportRec
  BY <1>1, ImporterIs
<1>3. CASE imp[i].update
  <2>1. PICK c : c = [imp[i] EXCEPT !.found = (I!ExistingId(i) \in I!Stored), !.pc = "prior"]
    OBVIOUS
  <2>2. imp' = [imp EXCEPT ![i] = c]
    BY <1>3, <2>1 DEF I!Look
  <2>3. /\ c.pc = "prior" /\ c.covered = imp[i].covered /\ c.docs = imp[i].docs
        /\ c.alone = imp[i].alone /\ c.update = imp[i].update
    BY <1>2, <2>1 DEF ImportRec
  <2>4. AloneHere(i) /\ imp[i].update => UpdateOK(pinned, E, c, imported')
    BY <1>1, <2>3 DEF AllUpdate, UpdateOK
  <2> QED
    BY <1>1, <2>2, <2>3, <2>4, UpdateMoves
<1>4. CASE ~imp[i].update
  <2>1. PICK there : there = (ExistOf(pinned, imp[i]) \in IdsIn(imported))
    OBVIOUS
  <2>2. PICK c \in DecidedOf(imp[i], there, {}) : imp' = [imp EXCEPT ![i] = c]
    BY <1>4, <2>1, OfRecord, StoredIs DEF I!Look
  <2>3. there \in BOOLEAN /\ OfHand(imp[i], {})
    BY <2>1 DEF OfHand
  <2>4. c.alone = imp[i].alone /\ c.update = imp[i].update
    BY <1>2, <2>2, <2>3, DecidedHeld
  <2> QED
    BY <1>1, <1>4, <2>2, <2>4, UpdateMoves
<1> QED
  BY <1>3, <1>4

LEMMA UpdatePrior ==
    ASSUME KeptInv, NEW i \in Importers, I!Prior(i), NEW E, AllUpdate(E), E = Exact(pinned),
           faults = 0 /\ ~raced => PinsLed
    PROVE  \A j \in Importers :
             AloneHere(j)' /\ imp'[j].update => UpdateOK(pinned', E, imp'[j], imported')
<1>1. PICK r : r = imp[i]
  OBVIOUS
<1>2. r.pc = "prior" /\ r.pc # "idle" /\ UNCHANGED <<pinned, imported>>
  BY <1>1, PriorIs
<1>3. /\ Underway(r) /\ RowsOK(pinned, imported) /\ imported \subseteq RowSet /\ r \in ImportRec
  BY <1>1, <1>2, ImporterIs DEF KeptInv, RowsOK
<1>4. ASSUME AloneHere(i), r.update PROVE CoveredBrought(E, r, imported)
  BY <1>1, <1>4 DEF AllUpdate, UpdateOK, CoveredBrought
<1>5. CASE ~r.found
  <2>1. PICK stale : stale = StaleOf(pinned, r, imported)
    OBVIOUS
  <2>2. PICK c \in DecidedOf(r, FALSE, stale) : imp' = [imp EXCEPT ![i] = c]
    BY <1>1, <1>5, <2>1, PriorIs
  <2>3. OfHand(r, stale)
    BY <1>3, <2>1, PriorIds
  <2>4. c.alone = r.alone /\ c.update = r.update
    BY <1>3, <2>2, <2>3, DecidedHeld
  <2>5. ASSUME AloneHere(i), r.update PROVE UpdateOK(pinned, E, c, imported)
    <3>1. ExistOf(pinned, r) \notin IdsIn(imported)
      BY <1>1, <1>2, <1>5, <2>5, ImporterIs DEF LoneOK
    <3>2. HandOf(r) \in E /\ HandOf(r) \in pinned => Led(pinned, imported, {})
      <4>1. HandOf(r) \in E /\ HandOf(r) \in pinned => PinsLed
        BY DEF Exact
      <4> QED
        BY <1>1, <1>2, <4>1, LedSeen
    <3>3. ASSUME HandOf(r) \in E, NEW x \in imported, x.id.file = HandOf(r), x.id \notin stale
          PROVE  x.body = DocOf(r).text /\ x.id.part # I!Whole
      <4>1. HandOf(r) \in pinned => Led(pinned, imported, {})
        BY <3>2, <3>3
      <4>2. x.id \notin StaleOf(pinned, r, imported)
        BY <2>1, <3>3
      <4> QED
        BY <1>3, <3>1, <3>3, <4>1, <4>2, PriorRows
    <3> QED
      BY <1>3, <1>4, <2>2, <2>3, <2>5, <3>3, UpdateDecided
  <2> QED
    BY <1>1, <1>2, <2>2, <2>4, <2>5, UpdateMoves
<1>6. CASE r.found
  <2>x. PICK x : x = SortedOf(pinned, r, imported)
    OBVIOUS
  <2>c. PICK c : c = OnwardOf(x, DocOf(r).meta)
    OBVIOUS
  <2>1. /\ x \in ImportRec /\ SameDoc(r, x) /\ x.covered = r.covered
        /\ x.alone = r.alone /\ x.update = r.update
        /\ x.refresh \subseteq PriorOf(r, imported)
    BY <1>2, <1>3, <2>x, SortedIs
  <2>2. imp' = [imp EXCEPT ![i] = c]
    BY <1>1, <1>6, <2>x, <2>c, PriorIs
  <2>3. c.alone = r.alone /\ c.update = r.update
    BY <2>1, <2>c, OnwardFields
  <2>4. \A id \in x.refresh : id.file = HandOf(r)
    BY <2>1 DEF PriorOf
  <2>5. \A y \in imported : y.id.file = HandOf(r) => PriorOK(pinned, x, y)
    BY <1>2, <1>3, <2>x, SortedFresh
  <2>6. AloneHere(i) /\ r.update => UpdateOK(pinned, E, c, imported)
    BY <1>4, <2>1, <2>c, <2>4, <2>5, UpdateOnward
  <2> QED
    BY <1>1, <1>2, <2>2, <2>3, <2>6, UpdateMoves
<1> QED
  BY <1>5, <1>6

LEMMA UpdateReread ==
    ASSUME KeptInv, NEW i \in Importers, I!Reread(i), NEW E, AllUpdate(E)
    PROVE  \A j \in Importers :
             AloneHere(j)' /\ imp'[j].update => UpdateOK(pinned', E, imp'[j], imported')
<1>1. PICK r : r = imp[i]
  OBVIOUS
<1>2. r.pc = "reread" /\ r.pc # "idle" /\ UNCHANGED <<pinned, imported>>
  BY <1>1 DEF I!Reread
<1>3. /\ Underway(r) /\ imported \subseteq RowSet /\ r \in ImportRec
      /\ r.purging = {} /\ (r.refresh = {} \/ DocOf(r).meta = 0)
  BY <1>1, <1>2, ImporterIs DEF KeptInv, RowsOK, HeldOK
<1>4. PICK there : there = (ExistOf(pinned, r) \in IdsIn(imported))
  OBVIOUS
<1>5. PICK c \in DecidedOf(r, there, {}) : imp' = [imp EXCEPT ![i] = c]
  <2>1. I!Decided(i, I!ExistingId(i) \in I!Stored, {}) = DecidedOf(r, there, {})
    BY <1>1, <1>4, OfRecord, StoredIs
  <2> QED
    BY <2>1 DEF I!Reread
<1>6. there \in BOOLEAN /\ OfHand(r, {})
  BY <1>4 DEF OfHand
<1>7. c.alone = r.alone /\ c.update = r.update
  BY <1>3, <1>5, <1>6, DecidedHeld
<1>8. ASSUME AloneHere(i), r.update PROVE UpdateOK(pinned, E, c, imported)
  <2>1. UpdateOK(pinned, E, r, imported)
    BY <1>1, <1>8 DEF AllUpdate
  <2>2. CoveredBrought(E, r, imported)
    BY <2>1 DEF UpdateOK, CoveredBrought
  <2>3. ASSUME HandOf(r) \in E, NEW x \in imported, x.id.file = HandOf(r)
        PROVE  x.body = DocOf(r).text /\ UpTo(DocOf(r), x)
    <3>1. PriorOK(pinned, r, x)
      BY <1>2, <2>1, <2>3 DEF UpdateOK
    <3> QED
      BY <1>3, <3>1 DEF PriorOK, UpTo
  <2>4. HandOf(r) \in E => Brought(DocOf(r), imported, HandOf(r))
    BY <2>3 DEF Brought
  <2> QED
    BY <1>3, <1>5, <1>6, <2>2, <2>3, <2>4, UpdateDecided
<1> QED
  BY <1>1, <1>2, <1>5, <1>7, <1>8, UpdateMoves

\* A row's metadata, refreshed.
LEMMA RefreshFresh ==
    ASSUME NEW r, Underway(r), r.pc = "refresh", NEW pins, NEW R, R \subseteq RowSet, NEW id,
           \A x \in R : x.id.file = HandOf(r) => PriorOK(pins, r, x),
           NEW y \in Refreshed(R, id, DocOf(r).meta), y.id.file = HandOf(r)
    PROVE  PriorOK(pins, RefreshingOf(r, id), y)
<1>1. PICK c : c = RefreshingOf(r, id)
  OBVIOUS
<1>2. SameDoc(r, c) /\ c.refresh = r.refresh \ {id} /\ c.purging = r.purging
  BY <1>1, RefreshingIs
<1>3. DocOf(c) = DocOf(r) /\ \A k : CurrentOf(pins, c, k) = CurrentOf(pins, r, k)
  BY <1>2, SameHand
<1>4. DocOf(r).meta \in 0..1
  BY DocIs DEF Underway
<1>5. PICK x \in R : Becomes(x, y, id, DocOf(r).meta)
  BY <1>4, RefreshedRow
<1>6. PriorOK(pins, r, x) /\ y.id = x.id /\ y.body = x.body
  BY <1>5 DEF Becomes
<1>7. CASE x.id = id
  <2>1. UpTo(DocOf(r), y)
    BY <1>5, <1>7 DEF Becomes, UpTo
  <2> QED
    BY <1>1, <1>2, <1>3, <1>6, <2>1 DEF PriorOK
<1>8. CASE x.id # id
  <2>1. y = x
    BY <1>5, <1>8 DEF Becomes
  <2> QED
    BY <1>1, <1>2, <1>3, <1>6, <1>8, <2>1 DEF PriorOK
<1> QED
  BY <1>7, <1>8

LEMMA RefreshOthers ==
    ASSUME NEW R, R \subseteq RowSet, NEW id, NEW m \in 0..1, NEW x, x.id.file # id.file
    PROVE  x \in R <=> x \in Refreshed(R, id, m)
<1>1. ASSUME x \in R PROVE x \in Refreshed(R, id, m)
  <2>1. PICK y \in Refreshed(R, id, m) : Becomes(x, y, id, m)
    BY <1>1, RefreshedRow
  <2> QED
    BY <2>1 DEF Becomes
<1>2. ASSUME x \in Refreshed(R, id, m) PROVE x \in R
  <2>1. PICK y \in R : Becomes(y, x, id, m)
    BY <1>2, RefreshedRow
  <2> QED
    BY <2>1 DEF Becomes
<1> QED
  BY <1>1, <1>2

LEMMA UpdateRefresh ==
    ASSUME KeptInv, NEW i \in Importers, I!Refresh(i), NEW E, AllUpdate(E)
    PROVE  \A j \in Importers :
             AloneHere(j)' /\ imp'[j].update => UpdateOK(pinned', E, imp'[j], imported')
<1>1. PICK r : r = imp[i]
  OBVIOUS
<1>2. r.pc = "refresh" /\ r.pc # "idle" /\ pinned' = pinned
  BY <1>1, RefreshIs
<1>3. /\ Underway(r) /\ imported \subseteq RowSet /\ r \in ImportRec /\ r.todo # {}
  BY <1>1, <1>2, ImporterIs DEF KeptInv, RowsOK, HeldOK
<1>4. PICK id \in r.refresh :
        \/ /\ imp' = [imp EXCEPT ![i] = NextOf(r, FALSE)] /\ imported' = imported
        \/ /\ imported' = Refreshed(imported, id, DocOf(r).meta)
           /\ imp' = [imp EXCEPT ![i] = OnwardOf(RefreshingOf(r, id), DocOf(r).meta)]
  BY <1>1, RefreshIs
<1>5. ASSUME AloneHere(i), r.update
      PROVE  UpdateOK(pinned, E, r, imported) /\ CoveredBrought(E, r, imported)
  BY <1>1, <1>5 DEF AllUpdate, UpdateOK, CoveredBrought
<1>6. CASE imp' = [imp EXCEPT ![i] = NextOf(r, FALSE)] /\ imported' = imported
  <2>1. NextOf(r, FALSE).alone = r.alone /\ NextOf(r, FALSE).update = r.update
    BY <1>3, NextFields
  <2>2. AloneHere(i) /\ r.update => UpdateOK(pinned, E, NextOf(r, FALSE), imported')
    BY <1>3, <1>5, <1>6, UpdateNext
  <2> QED
    BY <1>1, <1>2, <1>6, <2>1, <2>2, UpdateMoves
<1>7. CASE /\ imported' = Refreshed(imported, id, DocOf(r).meta)
           /\ imp' = [imp EXCEPT ![i] = OnwardOf(RefreshingOf(r, id), DocOf(r).meta)]
  <2>x. PICK x : x = RefreshingOf(r, id)
    OBVIOUS
  <2>c. PICK c : c = OnwardOf(x, DocOf(r).meta)
    OBVIOUS
  <2>1. /\ x \in ImportRec /\ SameDoc(r, x) /\ x.covered = r.covered
        /\ x.alone = r.alone /\ x.update = r.update /\ x.refresh = r.refresh \ {id}
    BY <1>2, <1>3, <2>x, RefreshingIs
  <2>2. c.alone = r.alone /\ c.update = r.update
    BY <2>1, <2>c, OnwardFields
  <2>3. ASSUME AloneHere(i), r.update PROVE UpdateOK(pinned, E, c, imported')
    <3>1. \A k \in r.refresh : k.file = HandOf(r)
      BY <1>2, <1>5, <2>3 DEF UpdateOK
    <3>2. DocOf(r).meta \in 0..1
      BY <1>3, DocIs DEF Underway
    <3>3. \A y : y.id.file # HandOf(r) => (y \in imported <=> y \in imported')
      BY <1>3, <1>7, <3>1, <3>2, RefreshOthers
    <3>4. CoveredBrought(E, r, imported')
      BY <1>3, <1>5, <2>3, <3>3, CoveredSame
    <3>5. HandOf(r) \in E => \A y \in imported : y.id.file = HandOf(r) => PriorOK(pinned, r, y)
      BY <1>2, <1>5, <2>3 DEF UpdateOK
    <3>6. HandOf(r) \in E => \A y \in imported' : y.id.file = HandOf(r) => PriorOK(pinned, x, y)
      BY <1>2, <1>3, <1>7, <2>x, <3>5, RefreshFresh
    <3> QED
      BY <2>1, <2>c, <3>1, <3>4, <3>6, UpdateOnward
  <2>4. imp' = [imp EXCEPT ![i] = c]
    BY <1>7, <2>x, <2>c
  <2> QED
    BY <1>1, <1>2, <2>2, <2>3, <2>4, UpdateMoves
<1> QED
  BY <1>4, <1>6, <1>7

LEMMA UpdatePurge ==
    ASSUME KeptInv, NEW i \in Importers, I!Purge(i), NEW E, AllUpdate(E)
    PROVE  \A j \in Importers :
             AloneHere(j)' /\ imp'[j].update => UpdateOK(pinned', E, imp'[j], imported')
<1>1. PICK r : r = imp[i]
  OBVIOUS
<1>2. r.pc = "purge" /\ r.pc # "idle" /\ pinned' = pinned
  BY <1>1, PurgeIs
<1>3. /\ Underway(r) /\ r \in ImportRec /\ (r.refresh = {} \/ DocOf(r).meta = 0)
  BY <1>1, <1>2, ImporterIs DEF HeldOK
<1>4. PICK id \in r.purging :
        /\ imported' = Without(imported, id)
        /\ imp' = [imp EXCEPT ![i] = OnwardOf(PurgingOf(r, id), DocOf(r).meta)]
  BY <1>1, PurgeIs
<1>x. PICK x : x = PurgingOf(r, id)
  OBVIOUS
<1>c. PICK c : c = OnwardOf(x, DocOf(r).meta)
  OBVIOUS
<1>5. /\ x \in ImportRec /\ SameDoc(r, x) /\ x.covered = r.covered
      /\ x.alone = r.alone /\ x.update = r.update
      /\ x.refresh = {} /\ x.purging = r.purging \ {id} /\ id.file = HandOf(r)
  BY <1>2, <1>3, <1>4, <1>x, PurgingIs DEF OfHand
<1>6. c.alone = r.alone /\ c.update = r.update
  BY <1>5, <1>c, OnwardFields
<1>7. ASSUME AloneHere(i), r.update PROVE UpdateOK(pinned, E, c, imported')
  <2>1. UpdateOK(pinned, E, r, imported) /\ CoveredBrought(E, r, imported)
    BY <1>1, <1>7 DEF AllUpdate, UpdateOK, CoveredBrought
  <2>2. \A y : y.id.file # HandOf(r) => (y \in imported <=> y \in imported')
    BY <1>4, <1>5 DEF Without
  <2>3. CoveredBrought(E, r, imported')
    BY <1>3, <2>1, <2>2, CoveredSame
  <2>4. DocOf(x) = DocOf(r) /\ \A k : CurrentOf(pinned, x, k) = CurrentOf(pinned, r, k)
    BY <1>5, SameHand
  <2>5. ASSUME HandOf(r) \in E, NEW y \in imported', y.id.file = HandOf(r)
        PROVE  PriorOK(pinned, x, y)
    <3>1. y \in imported /\ y.id # id
      BY <1>4 DEF Without
    <3>2. PriorOK(pinned, r, y)
      BY <1>2, <2>1, <2>5, <3>1 DEF UpdateOK
    <3> QED
      BY <1>3, <1>5, <2>4, <3>1, <3>2 DEF PriorOK, UpTo
  <2> QED
    BY <1>5, <1>c, <2>3, <2>5, UpdateOnward
<1>8. imp' = [imp EXCEPT ![i] = c]
  BY <1>4, <1>x, <1>c
<1> QED
  BY <1>1, <1>2, <1>6, <1>7, <1>8, UpdateMoves

\* A whole row in hand that is to date and stays.
WholeStays(r, R) ==
    \E w \in R : /\ w.id.file = HandOf(r) /\ w.id.part = I!Whole
                 /\ UpTo(DocOf(r), w) /\ w.id \notin r.after

\* A row in hand is purged later, or it is to date, or it waits for a whole row
\* or for a piece after the first.
Waiting(r, R, y) ==
    \/ y.id \in r.after
    \/ /\ y.body = DocOf(r).text
       /\ \/ UpTo(DocOf(r), y)
          \/ /\ y.id.part # I!Whole
             /\ \/ WholeStays(r, R)
                \/ \E n \in 1..Len(r.parts) : n > 1 /\ r.parts[n] \in {I!Whole, y.id.part}

\* Once a row is written, those beside it wait for the pieces after it.
LEMMA WrittenAdded ==
    ASSUME NEW r, Underway(r), r.pc = "remember", NEW pins, NEW R, RowsOK(pins, R),
           r.after \subseteq IdsIn(R), NEW p, p = Head(r.parts), NEW x0, x0 = RowFor(pins, r, p),
           IdOf(pins, r, p) \notin IdsIn(R),
           \A x \in R : x.id.file = HandOf(r) => WrittenOK(r, R, x),
           NEW y \in R \cup {x0}, y.id.file = HandOf(r)
    PROVE  Waiting(r, R \cup {x0}, y)
<1>1. r \in ImportRec /\ HeldOK(r) /\ r.pc \notin {"idle", "done"} /\ p \in I!Parts
  BY PartsAre DEF Underway
<1>2. /\ x0.id = IdOf(pins, r, p) /\ x0.id.file = HandOf(r) /\ x0.id.part = p
      /\ x0.body = DocOf(r).text /\ x0.meta = DocOf(r).meta
  BY <1>1, RowForIs
<1>3. CASE y = x0
  BY <1>2, <1>3 DEF UpTo, Waiting
<1>4. CASE y \in R
  <2>1. WrittenOK(r, R, y)
    BY <1>4
  <2>2. CASE y.id \in r.after \/ (y.body = DocOf(r).text /\ UpTo(DocOf(r), y))
    BY <2>2 DEF Waiting
  <2>3. CASE /\ y.body = DocOf(r).text /\ y.id.part # I!Whole
             /\ \E w \in R : /\ w.id.file = HandOf(r) /\ w.id.part = I!Whole
                             /\ UpTo(DocOf(r), w) /\ w.id \notin r.after
    BY <2>3 DEF WholeStays, Waiting
  <2>4. ASSUME y.body = DocOf(r).text, y.id.part # I!Whole,
               NEW n \in 1..Len(r.parts), r.parts[n] \in {I!Whole, y.id.part}
        PROVE  \/ WholeStays(r, R \cup {x0})
               \/ \E k \in 1..Len(r.parts) : k > 1 /\ r.parts[k] \in {I!Whole, y.id.part}
    <3>1. CASE n > 1
      BY <2>4, <3>1
    <3>2. CASE ~(n > 1)
      <4>1. n = 1
        BY <3>2, PartsAre
      <4>2. p \in {I!Whole, y.id.part}
        BY <2>4, <4>1, PartsAre
      <4>3. p # y.id.part
        <5>1. ASSUME p = y.id.part PROVE FALSE
          <6>1. y.id \in I!Ids /\ y.id.base = BaseOf(pins, HandOf(r), DocOf(r).text)
            BY <1>4, <2>4 DEF RowsOK, RowSet
          <6>2. y.id = IdOf(pins, r, p)
            BY <5>1, <6>1 DEF IdOf, I!Ids
          <6> QED
            BY <1>4, <6>2 DEF IdsIn
        <5> QED
          BY <5>1
      <4>4. x0.id.part = I!Whole /\ UpTo(DocOf(r), x0) /\ x0.id \notin r.after
        BY <1>2, <4>2, <4>3 DEF UpTo
      <4> QED
        BY <1>2, <4>4 DEF WholeStays
    <3> QED
      BY <3>1, <3>2
  <2> QED
    BY <2>1, <2>2, <2>3, <2>4 DEF WrittenOK, Waiting
<1> QED
  BY <1>3, <1>4

LEMMA UpdateRemembered ==
    ASSUME NEW r, Underway(r), r.pc = "remember", NEW pins, NEW R, RowsOK(pins, R),
           r.after \subseteq IdsIn(R), NEW p, p = Head(r.parts), NEW x0, x0 = RowFor(pins, r, p),
           IdOf(pins, r, p) \notin IdsIn(R), NEW E, UpdateOK(pins, E, r, R)
    PROVE  UpdateOK(pins, E, RememberedOf(r), R \cup {x0})
<1>1. PICK S2 : S2 = R \cup {x0}
  OBVIOUS
<1>2. x0.id.file = HandOf(r)
  BY PartsAre, RowForIs DEF Underway
<1>3. CoveredBrought(E, r, S2)
  <2>1. CoveredBrought(E, r, R)
    BY DEF UpdateOK, CoveredBrought
  <2>2. \A x : x.id.file # HandOf(r) => (x \in R <=> x \in S2)
    BY <1>1, <1>2
  <2> QED
    BY <2>1, <2>2, CoveredSame
<1>4. ASSUME HandOf(r) \in E, NEW y \in S2, y.id.file = HandOf(r)
      PROVE  Waiting(r, S2, y)
  <2>1. \A x \in R : x.id.file = HandOf(r) => WrittenOK(r, R, x)
    BY <1>4 DEF UpdateOK
  <2>2. \A x \in R \cup {x0} : x.id.file = HandOf(r) => Waiting(r, R \cup {x0}, x)
    BY <2>1, WrittenAdded
  <2> QED
    BY <1>1, <1>4, <2>2
<1>5. CASE Len(r.parts) > 1
  <2>1. PICK c : c = MoreOf(r)
    OBVIOUS
  <2>2. /\ c.pc = "remember" /\ c.after = r.after /\ c.covered = r.covered /\ SameDoc(r, c)
        /\ c.parts = Tail(r.parts)
    BY <1>5, <2>1, MoreIs
  <2>3. HandOf(c) = HandOf(r) /\ DocOf(c) = DocOf(r) /\ c.docs = r.docs
    BY <2>2, SameHand DEF SameDoc
  <2>4. ASSUME NEW n \in 1..Len(r.parts), n > 1
        PROVE  \E k \in 1..Len(c.parts) : c.parts[k] = r.parts[n]
    <3>1. PICK q \in Seq(I!Parts) : q = r.parts
      BY PartsAre DEF Pieces
    <3>2. n - 1 \in 1..Len(Tail(q)) /\ Tail(q)[n - 1] = q[n]
      BY <1>5, <2>4, <3>1, TailIs
    <3> QED
      BY <2>2, <3>1, <3>2
  <2>5. ASSUME HandOf(r) \in E, NEW y \in S2, y.id.file = HandOf(r) PROVE WrittenOK(c, S2, y)
    <3>1. Waiting(r, S2, y)
      BY <1>4, <2>5
    <3>2. CASE y.id \in r.after \/ (y.body = DocOf(r).text /\ UpTo(DocOf(r), y))
      BY <2>2, <2>3, <3>2 DEF WrittenOK
    <3>3. CASE y.body = DocOf(r).text /\ y.id.part # I!Whole /\ WholeStays(r, S2)
      BY <2>2, <2>3, <3>3 DEF WrittenOK, WholeStays
    <3>4. ASSUME y.body = DocOf(r).text, y.id.part # I!Whole,
                 NEW n \in 1..Len(r.parts), n > 1, r.parts[n] \in {I!Whole, y.id.part}
          PROVE  WrittenOK(c, S2, y)
      <4>1. \E k \in 1..Len(c.parts) : c.parts[k] \in {I!Whole, y.id.part}
        BY <2>4, <3>4
      <4> QED
        BY <2>3, <3>4, <4>1 DEF WrittenOK
    <3> QED
      BY <3>1, <3>2, <3>3, <3>4 DEF Waiting
  <2>6. UpdateOK(pins, E, c, S2)
    BY <1>3, <2>2, <2>3, <2>5 DEF UpdateOK, CoveredBrought
  <2> QED
    BY <1>1, <1>5, <2>1, <2>6 DEF RememberedOf
<1>6. ASSUME ~(Len(r.parts) > 1), HandOf(r) \in E, NEW y \in S2, y.id.file = HandOf(r)
      PROVE  \/ y.id \in r.after
             \/ /\ y.body = DocOf(r).text
                /\ UpTo(DocOf(r), y) \/ (y.id.part # I!Whole /\ WholeStays(r, S2))
  <2>1. \A n \in 1..Len(r.parts) : ~(n > 1)
    BY <1>6, PartsAre
  <2> QED
    BY <1>4, <1>6, <2>1 DEF Waiting
<1>7. CASE ~(Len(r.parts) > 1) /\ r.after # {}
  <2>1. PICK c : c = CleaningOf(r)
    OBVIOUS
  <2>2. /\ c.pc = "clean" /\ c.after = r.after /\ c.covered = r.covered /\ SameDoc(r, c)
        /\ c.parts = <<>>
    BY <2>1, CleaningIs
  <2>3. HandOf(c) = HandOf(r) /\ DocOf(c) = DocOf(r) /\ c.docs = r.docs
    BY <2>2, SameHand DEF SameDoc
  <2>5. ASSUME HandOf(r) \in E, NEW y \in S2, y.id.file = HandOf(r) PROVE WrittenOK(c, S2, y)
    BY <1>6, <1>7, <2>2, <2>3, <2>5 DEF WrittenOK, WholeStays
  <2>6. UpdateOK(pins, E, c, S2)
    BY <1>3, <2>2, <2>3, <2>5 DEF UpdateOK, CoveredBrought
  <2> QED
    BY <1>1, <1>7, <2>1, <2>6 DEF RememberedOf
<1>8. CASE ~(Len(r.parts) > 1) /\ r.after = {}
  <2>1. HandOf(r) \in E => Brought(DocOf(r), S2, HandOf(r))
    BY <1>6, <1>8 DEF Brought, WholeUp, WholeStays
  <2>2. UpdateOK(pins, E, NextOf(r, TRUE), S2)
    BY <1>3, <2>1, UpdateNext
  <2> QED
    BY <1>1, <1>8, <2>2 DEF RememberedOf
<1> QED
  BY <1>5, <1>7, <1>8

LEMMA UpdateRemember ==
    ASSUME KeptInv, NEW i \in Importers, I!Remember(i), NEW E, AllUpdate(E)
    PROVE  \A j \in Importers :
             AloneHere(j)' /\ imp'[j].update => UpdateOK(pinned', E, imp'[j], imported')
<1>1. PICK r : r = imp[i]
  OBVIOUS
<1>2. r.pc = "remember" /\ r.pc # "idle" /\ pinned' = pinned
  BY <1>1, RememberIs
<1>3. Underway(r) /\ RowsOK(pinned, imported) /\ r \in ImportRec /\ r.todo # {}
  BY <1>1, <1>2, ImporterIs DEF KeptInv, HeldOK
<1>4. ASSUME AloneHere(i), r.update
      PROVE  /\ UpdateOK(pinned, E, r, imported) /\ CoveredBrought(E, r, imported)
             /\ r.after \subseteq IdsIn(imported)
  <2>1. r.after \subseteq IdsIn(imported)
    BY <1>1, <1>2, <1>4, ImporterIs DEF LoneOK
  <2> QED
    BY <1>1, <1>4, <2>1 DEF AllUpdate, UpdateOK, CoveredBrought
<1>5. CASE imp' = [imp EXCEPT ![i] = NextOf(r, FALSE)] /\ imported' = imported
  <2>1. NextOf(r, FALSE).alone = r.alone /\ NextOf(r, FALSE).update = r.update
    BY <1>3, NextFields
  <2>2. AloneHere(i) /\ r.update => UpdateOK(pinned, E, NextOf(r, FALSE), imported')
    BY <1>3, <1>4, <1>5, UpdateNext
  <2> QED
    BY <1>1, <1>2, <1>5, <2>1, <2>2, UpdateMoves
<1>6. CASE /\ IdOf(pinned, r, Head(r.parts)) \notin IdsIn(imported)
           /\ imported' = imported \cup {RowFor(pinned, r, Head(r.parts))}
           /\ imp' = [imp EXCEPT ![i] = RememberedOf(r)]
  <2>1. PICK p, x : p = Head(r.parts) /\ x = RowFor(pinned, r, p)
    OBVIOUS
  <2>2. imported' = imported \cup {x} /\ IdOf(pinned, r, p) \notin IdsIn(imported)
    BY <1>6, <2>1
  <2>3. RememberedOf(r).alone = r.alone /\ RememberedOf(r).update = r.update
    BY <1>2, <1>3, RememberedHeld
  <2>4. AloneHere(i) /\ r.update => UpdateOK(pinned, E, RememberedOf(r), imported')
    BY <1>2, <1>3, <1>4, <2>1, <2>2, UpdateRemembered
  <2> QED
    BY <1>1, <1>2, <1>6, <2>3, <2>4, UpdateMoves
<1> QED
  BY <1>1, <1>5, <1>6, RememberIs

LEMMA UpdateClean ==
    ASSUME KeptInv, NEW i \in Importers, I!Clean(i), NEW E, AllUpdate(E)
    PROVE  \A j \in Importers :
             AloneHere(j)' /\ imp'[j].update => UpdateOK(pinned', E, imp'[j], imported')
<1>1. PICK r : r = imp[i]
  OBVIOUS
<1>2. r.pc = "clean" /\ r.pc # "idle" /\ pinned' = pinned
  BY <1>1, CleanIs
<1>3. Underway(r) /\ HeldOK(r) /\ r \in ImportRec /\ r.todo # {}
  BY <1>1, <1>2, ImporterIs DEF HeldOK
<1>4. PICK id \in r.after :
        /\ imported' = Without(imported, id)
        /\ imp' = [imp EXCEPT ![i] = CleanedOf(r, id)]
  BY <1>1, CleanIs
<1>5. id.file = HandOf(r)
  BY <1>3, <1>4 DEF HeldOK
<1>6. ASSUME AloneHere(i), r.update
      PROVE  /\ CoveredBrought(E, r, imported') /\ r.parts = <<>>
             /\ HandOf(r) \in E => \A y \in imported' : y.id.file = HandOf(r) =>
                  \/ y.id \in r.after \ {id}
                  \/ /\ y.body = DocOf(r).text
                     /\ UpTo(DocOf(r), y) \/ (y.id.part # I!Whole /\ WholeStays(r, imported'))
  <2>1. UpdateOK(pinned, E, r, imported) /\ CoveredBrought(E, r, imported) /\ r.parts = <<>>
    BY <1>1, <1>2, <1>6 DEF AllUpdate, UpdateOK, CoveredBrought
  <2>2. \A y : y.id.file # HandOf(r) => (y \in imported <=> y \in imported')
    BY <1>4, <1>5 DEF Without
  <2>3. CoveredBrought(E, r, imported')
    BY <1>3, <2>1, <2>2, CoveredSame
  <2>4. ASSUME HandOf(r) \in E, NEW y \in imported', y.id.file = HandOf(r), y.id \notin r.after
        PROVE  /\ y.body = DocOf(r).text
               /\ UpTo(DocOf(r), y) \/ (y.id.part # I!Whole /\ WholeStays(r, imported'))
    <3>1. y \in imported
      BY <1>4 DEF Without
    <3>2. WrittenOK(r, imported, y)
      BY <1>2, <2>1, <2>4, <3>1 DEF UpdateOK
    <3>3. \A n \in 1..Len(r.parts) : FALSE
      BY <2>1
    <3>4. WholeStays(r, imported) => WholeStays(r, imported')
      BY <1>4 DEF WholeStays, Without
    <3>5. \/ UpTo(DocOf(r), y)
          \/ y.id.part # I!Whole /\ WholeStays(r, imported)
      BY <2>4, <3>2, <3>3 DEF WrittenOK, WholeStays
    <3>6. y.body = DocOf(r).text
      BY <2>4, <3>2 DEF WrittenOK
    <3> QED
      BY <3>4, <3>5, <3>6
  <2>5. \A y \in imported' : y.id # id
    BY <1>4 DEF Without
  <2> QED
    BY <2>1, <2>3, <2>4, <2>5
<1>7. CASE r.after = {id}
  <2>1. NextOf(r, TRUE).alone = r.alone /\ NextOf(r, TRUE).update = r.update
    BY <1>3, NextFields
  <2>2. ASSUME AloneHere(i), r.update PROVE UpdateOK(pinned, E, NextOf(r, TRUE), imported')
    <3>1. HandOf(r) \in E => Brought(DocOf(r), imported', HandOf(r))
      BY <1>6, <1>7, <2>2 DEF Brought, WholeUp, WholeStays
    <3> QED
      BY <1>3, <1>6, <2>2, <3>1, UpdateNext
  <2>3. imp' = [imp EXCEPT ![i] = NextOf(r, TRUE)]
    BY <1>4, <1>7 DEF CleanedOf
  <2> QED
    BY <1>1, <1>2, <2>1, <2>2, <2>3, UpdateMoves
<1>8. CASE r.after # {id}
  <2>1. PICK c : c = DroppedOf(r, id)
    OBVIOUS
  <2>2. /\ c.pc = "clean" /\ c.parts = r.parts /\ c.after = r.after \ {id}
        /\ c.covered = r.covered /\ SameDoc(r, c) /\ c.alone = r.alone /\ c.update = r.update
    BY <1>2, <1>3, <2>1, DroppedIs
  <2>3. HandOf(c) = HandOf(r) /\ DocOf(c) = DocOf(r) /\ c.docs = r.docs
    BY <2>2, SameHand DEF SameDoc
  <2>4. ASSUME AloneHere(i), r.update PROVE UpdateOK(pinned, E, c, imported')
    <3>1. ASSUME HandOf(r) \in E, NEW y \in imported', y.id.file = HandOf(r)
          PROVE  WrittenOK(c, imported', y)
      <4>1. WholeStays(r, imported') =>
              \E w \in imported' : /\ w.id.file = HandOf(c) /\ w.id.part = I!Whole
                                   /\ UpTo(DocOf(c), w) /\ w.id \notin c.after
        BY <2>2, <2>3 DEF WholeStays
      <4>2. \/ y.id \in r.after \ {id}
            \/ /\ y.body = DocOf(r).text
               /\ UpTo(DocOf(r), y) \/ (y.id.part # I!Whole /\ WholeStays(r, imported'))
        BY <1>6, <2>4, <3>1
      <4> QED
        BY <2>2, <2>3, <4>1, <4>2 DEF WrittenOK
    <3> QED
      BY <1>6, <2>2, <2>3, <2>4, <3>1 DEF UpdateOK, CoveredBrought
  <2>5. imp' = [imp EXCEPT ![i] = c]
    BY <1>4, <1>8, <2>1 DEF CleanedOf
  <2> QED
    BY <1>1, <1>2, <2>2, <2>4, <2>5, UpdateMoves
<1> QED
  BY <1>7, <1>8

LEMMA UpdateIdle ==
    ASSUME NEW pins, NEW E, NEW R PROVE UpdateOK(pins, E, I!Idle, R)
  BY DEF UpdateOK, I!Idle

LEMMA UpdateReport ==
    ASSUME KeptInv, NEW i \in Importers, I!Report(i), NEW E, AllUpdate(E)
    PROVE  \A j \in Importers :
             AloneHere(j)' /\ imp'[j].update => UpdateOK(pinned', E, imp'[j], imported')
<1>1. imp[i].pc = "done" /\ imp' = [imp EXCEPT ![i] = I!Idle] /\ UNCHANGED <<pinned, imported>>
  BY DEF I!Report
<1>2. I!Idle.pc = "idle"
  BY IdleHeld
<1> QED
  BY <1>1, <1>2, UpdateIdle, UpdateMoves

LEMMA UpdateFault ==
    ASSUME KeptInv, NEW i \in Importers, I!Fault(i), NEW E, AllUpdate(E)
    PROVE  \A j \in Importers :
             AloneHere(j)' /\ imp'[j].update => UpdateOK(pinned', E, imp'[j], imported')
<1>1. UNCHANGED <<pinned, imported>> /\ imp[i].pc # "idle"
  BY FaultIs
<1>2. CASE imp' = [imp EXCEPT ![i] = I!Idle]
  <2>1. I!Idle.pc = "idle"
    BY IdleHeld
  <2> QED
    BY <1>1, <1>2, <2>1, UpdateIdle, UpdateMoves
<1>3. CASE imp' = [imp EXCEPT ![i] = NextOf(imp[i], FALSE)]
  <2>1. Underway(imp[i]) /\ imp[i] \in ImportRec /\ imp[i].todo # {}
    BY FaultIs, ImporterIs DEF HeldOK
  <2>2. NextOf(imp[i], FALSE).alone = imp[i].alone /\ NextOf(imp[i], FALSE).update = imp[i].update
    BY <2>1, NextFields
  <2>3. ASSUME AloneHere(i), imp[i].update
        PROVE  UpdateOK(pinned, E, NextOf(imp[i], FALSE), imported')
    <3>1. CoveredBrought(E, imp[i], imported')
      BY <1>1, <2>3 DEF AllUpdate, UpdateOK, CoveredBrought
    <3> QED
      BY <2>1, <3>1, UpdateNext
  <2> QED
    BY <1>1, <1>3, <2>2, <2>3, UpdateMoves
<1> QED
  BY <1>2, <1>3, FaultIs

LEMMA UpdateStart ==
    ASSUME KeptInv, NEW i \in Importers, I!Start(i), NEW E
    PROVE  \A j \in Importers :
             AloneHere(j)' /\ imp'[j].update => UpdateOK(pinned', E, imp'[j], imported')
<1>1. PICK update \in BOOLEAN, contextual \in BOOLEAN :
        imp' = [j \in Importers |->
                  IF j = i
                  THEN [I!Idle EXCEPT !.pc = "look", !.update = update, !.docs = file,
                           !.contextual = contextual, !.todo = Files,
                           !.alone = {k \in Importers : imp[k].pc # "idle"} = {}]
                  ELSE [imp[j] EXCEPT !.alone = imp[j].alone /\ imp[j].pc = "idle"]]
  BY DEF I!Start
<1>2. imp'[i].pc = "look" /\ imp'[i].covered = {}
  BY <1>1 DEF I!Idle
<1>3. UpdateOK(pinned', E, imp'[i], imported')
  BY <1>2 DEF UpdateOK
<1>4. ASSUME NEW j \in Importers, j # i PROVE ~AloneHere(j)'
  <2>1. imp'[j].pc = imp[j].pc /\ imp'[j].alone = (imp[j].alone /\ imp[j].pc = "idle")
    BY <1>1, <1>4 DEF KeptInv, ImportRec
  <2> QED
    BY <2>1 DEF AloneHere
<1> QED
  BY <1>3, <1>4

\* Failures and overlaps only grow: what is asked of a file may only be dropped.
LEMMA ExactShrinks ==
    ASSUME faults \in Nat, [I!Next]_I!vars
    PROVE  faults' \in Nat /\ pinned' = pinned /\ Exact(pinned)' \subseteq Exact(pinned)
<1>1. CASE UNCHANGED I!vars
  BY <1>1 DEF I!vars, Exact
<1>2. ASSUME NEW f \in Files, I!Edit(f) PROVE UNCHANGED <<pinned, raced, faults>>
  BY <1>2 DEF I!Edit
<1>3. ASSUME NEW i \in Importers, I!Start(i)
      PROVE  UNCHANGED <<pinned, faults>> /\ (raced => raced')
  BY <1>3 DEF I!Start
<1>4. ASSUME NEW i \in Importers, I!Fault(i)
      PROVE  pinned' = pinned /\ raced' = raced /\ faults' \in Nat /\ faults' # 0
  <2>1. UNCHANGED <<pinned, raced>> /\ faults' = faults + 1
    BY <1>4, FaultIs
  <2>2. faults + 1 \in Nat /\ faults + 1 # 0
    OBVIOUS
  <2> QED
    BY <2>1, <2>2
<1>5. ASSUME I!Next
      PROVE  /\ pinned' = pinned /\ faults' \in Nat
             /\ faults' = 0 /\ ~raced' => faults = 0 /\ ~raced
  BY <1>2, <1>3, <1>4, <1>5, StepQuiet DEF I!Next
<1>6. CASE I!Next
  BY <1>5, <1>6 DEF Exact
<1> QED
  BY <1>1, <1>6

LEMMA BroughtInit == I!Init => BroughtInv
<1> SUFFICES ASSUME I!Init PROVE BroughtInv
  OBVIOUS
<1>1. \A i \in Importers : ~AloneHere(i)
  BY IdleHeld DEF I!Init, AloneHere
<1>2. faults \in Nat
  BY DEF I!Init
<1> QED
  BY <1>1, <1>2, KeptInit, PinsInit DEF BroughtInv

LEMMA BroughtStep == BroughtInv /\ [I!Next]_I!vars => BroughtInv'
<1> SUFFICES ASSUME BroughtInv, [I!Next]_I!vars PROVE BroughtInv'
  OBVIOUS
<1>1. KeptInv /\ faults \in Nat /\ (faults = 0 /\ ~raced => PinsLed)
  BY DEF BroughtInv
<1>2. PICK E : E = Exact(pinned)
  OBVIOUS
<1>3. AllUpdate(E)
  BY <1>2 DEF BroughtInv, AllUpdate
<1>4. \A j \in Importers :
        AloneHere(j)' /\ imp'[j].update => UpdateOK(pinned', E, imp'[j], imported')
  <2>1. CASE UNCHANGED I!vars
    BY <1>3, <2>1 DEF I!vars, AllUpdate, AloneHere
  <2>2. ASSUME NEW f \in Files, I!Edit(f)
        PROVE  UNCHANGED <<pinned, imp, imported>>
    BY <2>2 DEF I!Edit
  <2>3. CASE \E f \in Files : I!Edit(f)
    BY <1>3, <2>2, <2>3 DEF AllUpdate, AloneHere
  <2>4. CASE \E i \in Importers :
               \/ I!Start(i) \/ I!Look(i) \/ I!Prior(i) \/ I!Refresh(i) \/ I!Purge(i)
               \/ I!Reread(i) \/ I!Remember(i) \/ I!Clean(i) \/ I!Report(i) \/ I!Fault(i)
    BY <1>1, <1>2, <1>3, <2>4, UpdateStart, UpdateLook, UpdatePrior, UpdateRefresh, UpdatePurge,
       UpdateReread, UpdateRemember, UpdateClean, UpdateReport, UpdateFault
  <2> QED
    BY <2>1, <2>3, <2>4 DEF I!Next
<1>5. KeptInv'
  BY <1>1, KeptStep
<1>6. faults' \in Nat /\ pinned' = pinned /\ Exact(pinned)' \subseteq E
  BY <1>1, <1>2, ExactShrinks
<1>7. faults' = 0 /\ ~raced' => PinsLed'
  BY <1>1, PinsStep
<1>8. \A j \in Importers :
        AloneHere(j)' /\ imp'[j].update => UpdateOK(pinned', Exact(pinned)', imp'[j], imported')
  BY <1>4, <1>6, UpdateFewer
<1> QED
  BY <1>5, <1>6, <1>7, <1>8 DEF BroughtInv

LEMMA BroughtSays == BroughtInv => I!UpdateBringsToDate
<1> SUFFICES ASSUME BroughtInv, NEW i \in Importers, imp[i].pc = "done", imp[i].alone,
                    imp[i].update, NEW f \in imp[i].covered,
                    (faults = 0 /\ ~raced) \/ f \notin pinned
             PROVE  LET doc == imp[i].docs[f]
                        UpToDate(r) == r.meta = doc.meta \/ doc.meta = 0
                    IN /\ I!RowsOf(f) # {}
                       /\ \A r \in I!RowsOf(f) :
                            /\ r.body = doc.text
                            /\ \/ UpToDate(r)
                               \/ /\ r.id.part # I!Whole
                                  /\ \E w \in I!RowsOf(f) : w.id.part = I!Whole /\ UpToDate(w)
  BY DEF I!UpdateBringsToDate
<1>1. KeptInv /\ AloneHere(i)
  BY DEF BroughtInv, AloneHere
<1>2. imp[i].covered \subseteq Files /\ HasRow(imported, f)
  BY <1>1, ImporterIs DEF ImportRec, CoveredKept
<1>3. f \in Exact(pinned)
  BY <1>2 DEF Exact
<1>4. Brought(imp[i].docs[f], imported, f)
  BY <1>1, <1>3 DEF BroughtInv, UpdateOK
<1> QED
  BY <1>2, <1>4 DEF I!RowsOf, HasRow, Brought, WholeUp, UpTo

(***************************************************************************)
(* The composition: a behaviour of it is one of each part, which may rest. *)
(***************************************************************************)
\* So what is proved of Spec above holds of it.
LEMMA RotationPart == UnionSpec => Spec
<1>1. UnionInit => Init
  BY DEF UnionInit
<1>2. [UnionNext]_ClientVars => [Next]_vars
  BY DEF UnionNext, ClientVars, vars
<1> QED
  BY <1>1, <1>2, PTL DEF UnionSpec, Spec, ClientVars

\* The same of memory files,
LEMMA FilesPart == UnionSpec => F!Spec
<1>1. UnionInit => F!Init
  BY DEF UnionInit
<1>2. [UnionNext]_ClientVars => [F!Next]_F!vars
  BY DEF UnionNext, ClientVars, memfiles, F!vars
<1> QED
  BY <1>1, <1>2, PTL DEF UnionSpec, F!Spec, ClientVars

\* ... and of generated memories.
LEMMA GeneratedPart == UnionSpec => G!Spec
<1>1. UnionInit => G!Init
  BY DEF UnionInit
<1>2. [UnionNext]_ClientVars => [G!Next]_G!vars
  BY DEF UnionNext, ClientVars, generated, G!vars
<1> QED
  BY <1>1, <1>2, PTL DEF UnionSpec, G!Spec, ClientVars

LEMMA ImportPart == UnionSpec => I!Spec
<1>1. UnionInit => I!Init
  BY DEF UnionInit
<1>2. [UnionNext]_ClientVars => [I!Next]_I!vars
  BY DEF UnionNext, ClientVars, import, I!vars
<1> QED
  BY <1>1, <1>2, PTL DEF UnionSpec, I!Spec, ClientVars

\* Whatever stale index a backend has, and whatever other backends wrote and crashes left
\* before, a command of the memory tool or of OpenClaw that succeeds with no other one
\* under way leaves of its files exactly what it wrote live (adapters/memory_tool.py,
\* adapters/openclaw.py): for any backends and files.
THEOREM FilesSettled == UnionSpec => []AloneSettles
<1>1. F!Spec => []F!AloneSettles
  BY CommandInit, CommandStep, SettledByInv, PTL DEF F!Spec
<1> QED
  BY <1>1, FilesPart, PTL DEF AloneSettles

\* A crash in the middle of such a command, begun from an index that was up to date,
\* leaves each of its files as it was or as it is to be, to a backend that starts then.
THEOREM FilesWhole == UnionSpec => []WholeOrNot
<1>1. F!Spec => []F!WholeOrNot
  BY CommandInit, CommandStep, WholeByInv, PTL DEF F!Spec
<1> QED
  BY <1>1, FilesPart, PTL DEF WholeOrNot

\* However consolidations, contextual memories and erasures interleave, no row has the
\* words of a record that named an erased subject, save one written of members that were
\* gone when its parents were read, and never of the subject that all records name
\* (client.py, erasure.py): for any workers, records and subjects.
THEOREM ErasureReachesAll == UnionSpec => []ErasureReaches
<1>1. G!Spec => []G!ErasureReaches
  BY ReachInit, ReachStep, ReachesByInv, PTL DEF G!Spec
<1> QED
  BY <1>1, GeneratedPart, PTL DEF ErasureReaches

\* A file that a report has covered keeps a row, at every step of every later import,
\* whatever edits, crashes and failed writes come between (importers/markdown.py), unless
\* its id is pinned or imports have overlapped: for any importers, files, bodies and chunks.
THEOREM NeverLostByImport == UnionSpec => []NeverLost
<1>1. KeptInv => I!NeverLost
  BY DEF KeptInv, I!NeverLost, I!RowsOf, HasRow
<1>2. I!Spec => []I!NeverLost
  BY KeptInit, KeptStep, <1>1, PTL DEF I!Spec
<1> QED
  BY <1>2, ImportPart, PTL DEF NeverLost

\* What an update import reports that no other one overlaps: of every file covered, the
\* store holds rows of the body that was read, with its explicit metadata, and no others
\* (importers/markdown.py, contextual_ingest.py).  A file with a pinned id is excepted
\* once something failed or imports overlapped.
THEOREM UpdatesBringToDate == UnionSpec => []UpdateBringsToDate
<1>1. I!Spec => []I!UpdateBringsToDate
  BY BroughtInit, BroughtStep, BroughtSays, PTL DEF I!Spec
<1> QED
  BY <1>1, ImportPart, PTL DEF UpdateBringsToDate
================================================================================
