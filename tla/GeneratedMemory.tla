---------------------------- MODULE GeneratedMemory ----------------------------
(***************************************************************************)
(* Memories made from other memories: consolidation summaries              *)
(* (consolidation.py, remember_generated of client.py) and the context     *)
(* records of contextual ingestion (contextual_ingest.py), behind the      *)
(* egress and faithfulness gates, while subjects are erased.  A row's text *)
(* is the set of original records whose words it may repeat.               *)
(***************************************************************************)
EXTENDS Naturals, FiniteSets

CONSTANTS
    Workers,    \* threads that propose or ingest
    Originals,  \* records written by hand and chunks of documents
    Primary,    \* the subject every original names first
    Secondary,  \* the subject some originals also name
    MinCluster, \* MIN_CLUSTER
    MaxGenerated \* bound on generated rows

Persons == {Primary, Secondary}

VARIABLES
    rows,   \* stored rows by id
    edges,  \* prov_edges: child, parent
    made,   \* generated rows ever made
    named,  \* the subjects each original ever stored names
    erased, \* subjects whose key is shredded
    work    \* what each worker holds

vars == <<rows, edges, made, named, erased, work>>

Generated == 1..MaxGenerated
Idle == [pc |-> "idle"]

\* late: written of a member that was gone when its parents were read.
Original(o, subjects) ==
    [text |-> {o}, subjects |-> subjects, review |-> "none", generated |-> FALSE, late |-> FALSE]
Made(text, subjects, late) ==
    [text |-> text, subjects |-> subjects, review |-> "proposed", generated |-> TRUE,
     late |-> late]
With(f, x, v) == [y \in DOMAIN f \cup {x} |-> IF y = x THEN v ELSE f[y]]
Ids == {<<"original", o>> : o \in Originals} \cup {<<"generated", n>> : n \in Generated}

TypeOK ==
    /\ DOMAIN rows \subseteq Ids
    /\ \A r \in DOMAIN rows :
         /\ rows[r].text \subseteq Originals /\ rows[r].subjects \subseteq Persons
         /\ rows[r].review \in {"none", "proposed", "accepted", "locked"}
    /\ edges \subseteq Ids \X Ids
    /\ erased \subseteq Persons

Init ==
    /\ rows = [r \in {} |-> 0] /\ edges = {} /\ made = 0 /\ named = [o \in {} |-> 0]
    /\ erased = {} /\ work = [w \in Workers |-> Idle]

NewId == <<"generated", made + 1>>

\* _refuse_erased_subjects, under the write lock.
Writable(subjects) == subjects \cap erased = {}

Remember(o, subjects) ==
    /\ o \notin DOMAIN named /\ Writable(subjects)
    /\ named' = With(named, o, subjects)
    /\ rows' = With(rows, <<"original", o>>, Original(o, subjects))
    /\ UNCHANGED <<edges, made, erased, work>>

\* A review, once: a generated row is accepted, or a row is pinned, approved or put
\* in a state default recall hides, each of which locks it for consolidation.
Review(r) ==
    /\ rows[r].review \in {"none", "proposed"}
    /\ \E state \in {"locked"} \cup IF rows[r].generated THEN {"accepted"} ELSE {} :
         rows' = [rows EXCEPT ![r].review = state]
    /\ UNCHANGED <<edges, made, named, erased, work>>

\* Mutant of Cascade: the rows derived directly.
CascadeOnce(ids) == ids \cup {e[1] : e \in {x \in edges : x[2] \in ids}}

\* purge_subject: the rows naming the subject and everything derived from them, which
\* is the least set that holds them and is closed under child edges.
Cascade(ids) ==
    {r \in Ids : \A S \in SUBSET Ids :
        (ids \subseteq S /\ \A e \in edges : e[2] \in S => e[1] \in S) => r \in S}

\* forget: the key, then the rows; another connection sees both or waits.
Forget(s) ==
    /\ s \notin erased
    /\ erased' = erased \cup {s}
    /\ LET gone == Cascade({r \in DOMAIN rows : s \in rows[r].subjects})
       IN /\ rows' = [r \in DOMAIN rows \ gone |-> rows[r]]
          /\ edges' = {e \in edges : e[1] \notin gone /\ e[2] \notin gone}
    /\ UNCHANGED <<made, named, work>>

(***************************************************************************)
(* The gates.                                                              *)
(***************************************************************************)
\* egress.evaluate_request, of what the request asks and the policy allows.
Egress(q) ==
    CASE q.local \/ ~q.external -> "local_model_only"
      [] ~q.provider \/ q.class = "denied" \/ q.pii = "denied" -> "denied"
      [] q.class = "review" \/ q.pii = "raw" -> "human_approval_required"
      [] q.pii = "redactable" -> IF q.leaks THEN "denied" ELSE "external_model_allowed_with_redaction"
      [] OTHER -> "external_model_allowed"
Requests == [local : BOOLEAN, external : BOOLEAN, provider : BOOLEAN, leaks : BOOLEAN,
             class : {"ok", "review", "denied"}, pii : {"none", "redactable", "raw", "denied"}]
GenerationAllowed(d) ==
    d \in {"local_model_only", "external_model_allowed", "external_model_allowed_with_redaction"}

\* evaluate_claim and decide, of the labels of the material claims.
Label(c) ==
    CASE ~c.cited -> "not_checkable"
      [] c.contradicted -> "contradicted"
      [] c.missing \/ c.score = "low" -> "unsupported"
      [] c.uncertain \/ c.score = "middle" -> "partially_supported"
      [] OTHER -> "supported"
Decision(labels) ==
    IF labels \cap {"contradicted", "unsupported"} # {} THEN "rejected"
    ELSE IF labels \cap {"partially_supported", "not_checkable"} # {} THEN "needs_human_review"
    ELSE "accepted"
Claims == [cited : BOOLEAN, contradicted : BOOLEAN, missing : BOOLEAN, uncertain : BOOLEAN,
           score : {"low", "middle", "high"}]

Egresses == {Egress(q) : q \in Requests}
Decisions == {Decision({Label(c)}) : c \in Claims}

(***************************************************************************)
(* propose_consolidation.  A cluster is of rows as they were when found;   *)
(* the generator runs between reading the members and writing the summary. *)
(***************************************************************************)
\* is_member_consolidatable and is_safe_consolidation_cluster.
Consolidatable(row) ==
    /\ row.review # "locked"
    /\ row.generated => row.review = "accepted"

Find(w, cluster) ==
    /\ work[w].pc = "idle" /\ Cardinality(cluster) >= MinCluster
    /\ \A r \in cluster : Consolidatable(rows[r])
    /\ work' = [work EXCEPT ![w] = [pc |-> "found", cluster |-> cluster]]
    /\ UNCHANGED <<rows, edges, made, named, erased>>

\* _source_spans: a member that is gone cannot be read, and ends it.
Read(w) ==
    /\ work[w].pc = "found"
    /\ work' = [work EXCEPT ![w] =
         IF work[w].cluster \subseteq DOMAIN rows
         THEN [pc |-> "generate", cluster |-> work[w].cluster,
               text |-> UNION {rows[r].text : r \in work[w].cluster}]
         ELSE Idle]
    /\ UNCHANGED <<rows, edges, made, named, erased>>

\* The generator, then both gates on what it returned; a refusal raises.
Gates(w) ==
    /\ work[w].pc = "generate"
    /\ \E e \in Egresses, d \in Decisions :
         work' = [work EXCEPT ![w] =
           IF GenerationAllowed(e) /\ d = "accepted"
           THEN [pc |-> "parents", cluster |-> work[w].cluster, text |-> work[w].text]
           ELSE Idle]
    /\ UNCHANGED <<rows, edges, made, named, erased>>

\* remember reads the parents: one that is gone is skipped.
Parents(w) ==
    /\ work[w].pc = "parents"
    /\ work' = [work EXCEPT ![w] =
         [pc |-> "commit", cluster |-> work[w].cluster, text |-> work[w].text,
          live |-> work[w].cluster \cap DOMAIN rows,
          late |-> \E r \in work[w].cluster : r \notin DOMAIN rows \/ rows[r].late]]
    /\ UNCHANGED <<rows, edges, made, named, erased>>

\* Mutant of Commit: the parents are not looked up again.
CommitUnchecked(w) ==
    /\ work[w].pc = "commit" /\ made < MaxGenerated
    /\ IF ~Writable({Primary})
       THEN UNCHANGED <<rows, edges, made>>
       ELSE /\ made' = made + 1
            /\ rows' = With(rows, NewId, Made(work[w].text, {Primary}, work[w].late))
            /\ edges' = edges \cup ({NewId} \X work[w].cluster)
    /\ work' = [work EXCEPT ![w] = Idle]
    /\ UNCHANGED <<named, erased>>

\* insert_memory_superseding: refused if the subject is erased or a parent that
\* was read is gone.  The edges name every member, there or not.
Commit(w) ==
    /\ work[w].pc = "commit" /\ made < MaxGenerated
    /\ IF ~Writable({Primary}) \/ ~(work[w].live \subseteq DOMAIN rows)
       THEN UNCHANGED <<rows, edges, made>>
       ELSE /\ made' = made + 1
            /\ rows' = With(rows, NewId, Made(work[w].text, {Primary}, work[w].late))
            /\ edges' = edges \cup ({NewId} \X work[w].cluster)
    /\ work' = [work EXCEPT ![w] = Idle]
    /\ UNCHANGED <<named, erased>>

(***************************************************************************)
(* ingest_contextual, of one chunk: the context is generated and gated,    *)
(* then the chunk, its context record and the edge are written one by one. *)
(***************************************************************************)
Prepare(w, o, subjects) ==
    /\ work[w].pc = "idle" /\ o \notin DOMAIN named
    /\ \E e \in Egresses, d \in Decisions :
         work' = [work EXCEPT ![w] =
           [pc |-> "chunk", o |-> o, subjects |-> subjects,
            contextual |-> GenerationAllowed(e) /\ d = "accepted"]]
    /\ UNCHANGED <<rows, edges, made, named, erased>>

\* The chunk, or the whole document where the context was refused.
WriteChunk(w) ==
    /\ work[w].pc = "chunk"
    /\ LET id == <<"original", work[w].o>>
       IN IF ~Writable(work[w].subjects) \/ work[w].o \in DOMAIN named
          THEN UNCHANGED <<rows, named>> /\ work' = [work EXCEPT ![w] = Idle]
          ELSE /\ rows' = With(rows, id, Original(work[w].o, work[w].subjects))
               /\ named' = With(named, work[w].o, work[w].subjects)
               /\ work' = [work EXCEPT ![w] = IF @.contextual THEN [@ EXCEPT !.pc = "context"] ELSE Idle]
    /\ UNCHANGED <<edges, made, erased>>

\* Mutant of ContextSubjects: the context names the subject alone.
ContextSubjectsOne(subjects) == {Primary}

\* The context names the subjects of its document.
ContextSubjects(subjects) == subjects

WriteContext(w) ==
    /\ work[w].pc = "context" /\ made < MaxGenerated
    /\ IF ~Writable(ContextSubjects(work[w].subjects))
       THEN UNCHANGED <<rows, made>> /\ work' = [work EXCEPT ![w] = Idle]
       ELSE /\ made' = made + 1
            /\ rows' = With(rows, NewId, Made({work[w].o}, ContextSubjects(work[w].subjects), FALSE))
            /\ work' = [work EXCEPT ![w] =
                 [pc |-> "edge", child |-> NewId, parent |-> <<"original", work[w].o>>]]
    /\ UNCHANGED <<edges, named, erased>>

\* add_provenance_edge: whether or not its ends are still there.
WriteEdge(w) ==
    /\ work[w].pc = "edge"
    /\ edges' = edges \cup {<<work[w].child, work[w].parent>>}
    /\ work' = [work EXCEPT ![w] = Idle]
    /\ UNCHANGED <<rows, made, named, erased>>

Crash(w) ==
    /\ work[w].pc # "idle"
    /\ work' = [work EXCEPT ![w] = Idle]
    /\ UNCHANGED <<rows, edges, made, named, erased>>

ShapedSubjects == {{Primary}, {Primary, Secondary}}

Next ==
    \/ \E o \in Originals, subjects \in ShapedSubjects : Remember(o, subjects)
    \/ \E r \in DOMAIN rows : Review(r)
    \/ \E s \in Persons : Forget(s)
    \/ \E w \in Workers :
         \/ \E cluster \in SUBSET DOMAIN rows : Find(w, cluster)
         \/ Read(w) \/ Gates(w) \/ Parents(w) \/ Commit(w)
         \/ \E o \in Originals, subjects \in ShapedSubjects : Prepare(w, o, subjects)
         \/ WriteChunk(w) \/ WriteContext(w) \/ WriteEdge(w) \/ Crash(w)

Spec == Init /\ [][Next]_vars

(***************************************************************************)
(* Properties.                                                             *)
(***************************************************************************)
\* Erasing a subject leaves no row with the words of a record that named it: no
\* summary, no summary of summaries, no context whose edge a crash lost, nothing that
\* was being written.  A subject not every record names reaches a summary in the
\* making only if its member was still there when the summary's parents were read.
ErasureReaches ==
    \A r \in DOMAIN rows : \A o \in rows[r].text :
        /\ Primary \notin erased
        /\ rows[r].late \/ named[o] \cap erased = {}
================================================================================
