----------------------------- MODULE MarkdownImport -----------------------------
(***************************************************************************)
(* import_markdown_corpus (importers/markdown.py, contextual_ingest.py):   *)
(* importers, each with its own connection, bring the rows of a store to   *)
(* the files they have read.  Every purge, refresh and remember is a       *)
(* transaction of its own; a long file is ingested as chunks, each with a  *)
(* context record.  One tenant; files are read in one step.                *)
(***************************************************************************)
EXTENDS Naturals, Sequences, FiniteSets

CONSTANTS
    Importers, \* processes that import
    Files,     \* files with different paths and source URIs
    Texts,     \* bodies, positive numbers
    Long,      \* the bodies over the contextual threshold
    NumChunks, \* chunks of a long body
    MaxEdits,  \* bound on edits of the files
    MaxRuns,   \* bound on imports started
    MaxFaults  \* bound on crashes and failed writes

VARIABLES
    pinned, \* the files whose frontmatter gives a memory_id
    file,   \* each file's body and explicit metadata (0: none)
    rows,   \* stored rows: id, body and metadata
    imp,    \* each importer: see Idle
    had,    \* files a report has covered
    raced,  \* an import has overlapped another
    edits, runs, faults

vars == <<pinned, file, rows, imp, had, raced, edits, runs, faults>>

Docs == [text : Texts, meta : 0..1]
Whole == <<0, "whole">>
Chunk(k) == <<k, "chunk">>
Parts == {Whole} \cup ((1..NumChunks) \X {"chunk", "context"})
\* stable_memory_id hashes the path and the body; a pinned id stays.
Id(f, text, part) == [file |-> f, base |-> IF f \in pinned THEN 0 ELSE text, part |-> part]
Ids == [file : Files, base : {0} \cup Texts, part : Parts]

Stored == {r.id : r \in rows}
RowsOf(f) == {r \in rows : r.id.file = f}

Idle == [pc |-> "idle", update |-> FALSE, contextual |-> FALSE, docs |-> [f \in {} |-> 0],
         todo |-> {}, found |-> FALSE, purging |-> {}, refresh |-> {}, after |-> {},
         parts |-> <<>>, covered |-> {}, alone |-> TRUE]

TypeOK ==
    /\ \A r \in rows : r.id \in Ids /\ r.body \in Texts /\ r.meta \in 0..1
    /\ Cardinality(rows) = Cardinality(Stored)
    /\ \A i \in Importers :
         /\ imp[i].pc \in {"idle", "look", "prior", "refresh", "purge", "reread",
                           "remember", "clean", "done"}
         /\ imp[i].todo \subseteq Files /\ imp[i].covered \subseteq Files

Init ==
    /\ pinned \in SUBSET Files
    /\ file \in [Files -> [text : Texts, meta : {0}]]
    /\ rows = {} /\ imp = [i \in Importers |-> Idle] /\ had = {} /\ raced = FALSE
    /\ edits = 0 /\ runs = 0 /\ faults = 0

Edit(f) ==
    /\ edits < MaxEdits
    /\ edits' = edits + 1
    /\ \E doc \in Docs \ {file[f]} : file' = [file EXCEPT ![f] = doc]
    /\ UNCHANGED <<pinned, rows, imp, had, raced, runs, faults>>

(***************************************************************************)
(* One import.  at(i) is the document in hand.                             *)
(***************************************************************************)
At(i) == CHOOSE f \in imp[i].todo : TRUE
Doc(i) == imp[i].docs[At(i)]
InChunks(i) == imp[i].contextual /\ Doc(i).text \in Long
ExistingId(i) == Id(At(i), Doc(i).text, IF InChunks(i) THEN Chunk(1) ELSE Whole)

\* _is_current_source_row.
Current(i, id) ==
    /\ id.base = Id(At(i), Doc(i).text, Whole).base
    /\ InChunks(i) = (id.part # Whole)

Start(i) ==
    /\ imp[i].pc = "idle" /\ runs < MaxRuns
    /\ runs' = runs + 1
    /\ raced' = (raced \/ \E j \in Importers : imp[j].pc # "idle")
    /\ LET others == {j \in Importers : imp[j].pc # "idle"}
       IN \E update, contextual \in BOOLEAN :
            imp' = [j \in Importers |->
                      IF j = i
                      THEN [Idle EXCEPT !.pc = "look", !.update = update, !.docs = file,
                                        !.contextual = contextual, !.todo = Files,
                                        !.alone = others = {}]
                      ELSE [imp[j] EXCEPT !.alone = imp[j].alone /\ imp[j].pc = "idle"]]
    /\ UNCHANGED <<pinned, file, rows, had, edits, faults>>

\* The document in hand is done with; an exception leaves it uncovered.
Next1(i, covered) ==
    [imp[i] EXCEPT !.todo = imp[i].todo \ {At(i)}, !.found = FALSE, !.purging = {}, !.refresh = {},
                   !.after = {}, !.parts = <<>>,
                   !.covered = imp[i].covered \cup IF covered THEN {At(i)} ELSE {},
                   !.pc = IF imp[i].todo = {At(i)} THEN "done" ELSE "look"]

\* A row that is there is left; else the document is written in pieces if every
\* context is generated and accepted, whole if one is not.
Decided(i, found, after) ==
    IF found THEN {Next1(i, TRUE)}
    ELSE LET writing(parts) == [imp[i] EXCEPT !.pc = "remember", !.after = after,
                                              !.purging = {}, !.parts = parts]
         IN {writing(<<Whole>>)} \cup
            IF InChunks(i)
            THEN {writing([n \in 1..(2 * NumChunks) |->
                     <<(n + 1) \div 2, IF n % 2 = 1 THEN "chunk" ELSE "context">>])}
            ELSE {}

\* existing = get_meta(existing_id).
Look(i) ==
    /\ imp[i].pc = "look"
    /\ LET found == ExistingId(i) \in Stored
       IN IF imp[i].update
          THEN imp' = [imp EXCEPT ![i] = [imp[i] EXCEPT !.found = found, !.pc = "prior"]]
          ELSE \E x \in Decided(i, found, {}) : imp' = [imp EXCEPT ![i] = x]
    /\ UNCHANGED <<pinned, file, rows, had, raced, edits, runs, faults>>

\* Nothing to refresh, nothing to purge: on to the next step.
Onward(i, r) ==
    LET refreshed == r.refresh = {} \/ Doc(i).meta = 0
    IN [r EXCEPT !.pc = IF ~refreshed THEN "refresh"
                        ELSE IF r.purging # {} THEN "purge" ELSE "reread"]

\* memories_by_source_path, and what becomes of the rows found.  A pinned row
\* holds another body if it has changed; a chunk's hash is not its file's.
Prior(i) ==
    /\ imp[i].pc = "prior"
    /\ LET prior == {r.id : r \in RowsOf(At(i))}
           stale == {id \in prior : ~Current(i, id)}
           unchanged ==
             IF InChunks(i) THEN At(i) \notin pinned
             ELSE \E r \in rows : r.id = ExistingId(i) /\ r.body = Doc(i).text
       IN IF ~imp[i].found
          THEN \E x \in Decided(i, FALSE, stale) : imp' = [imp EXCEPT ![i] = x]
          ELSE imp' = [imp EXCEPT ![i] = Onward(i,
                 IF unchanged
                 THEN [imp[i] EXCEPT !.refresh = prior \ stale, !.purging = stale]
                 ELSE [imp[i] EXCEPT !.purging = prior])]
    /\ UNCHANGED <<pinned, file, rows, had, raced, edits, runs, faults>>

\* _refresh_metadata: only explicit metadata; a row that is gone is an error.
Refresh(i) ==
    /\ imp[i].pc = "refresh"
    /\ \E id \in imp[i].refresh :
         IF id \notin Stored
         THEN imp' = [imp EXCEPT ![i] = Next1(i, FALSE)] /\ UNCHANGED rows
         ELSE /\ rows' = {IF r.id = id THEN [r EXCEPT !.meta = Doc(i).meta] ELSE r : r \in rows}
              /\ imp' = [imp EXCEPT ![i] =
                   Onward(i, [imp[i] EXCEPT !.refresh = imp[i].refresh \ {id}])]
    /\ UNCHANGED <<pinned, file, had, raced, edits, runs, faults>>

\* _purge_prior_rows, before the document is written.
Purge(i) ==
    /\ imp[i].pc = "purge"
    /\ \E id \in imp[i].purging :
         /\ rows' = {r \in rows : r.id # id}
         /\ imp' = [imp EXCEPT ![i] =
              Onward(i, [imp[i] EXCEPT !.refresh = {}, !.purging = imp[i].purging \ {id}])]
    /\ UNCHANGED <<pinned, file, had, raced, edits, runs, faults>>

\* Mutant of Reread: what was found at first still stands.
RereadNot(i) ==
    /\ imp[i].pc = "reread"
    /\ \E x \in Decided(i, imp[i].found, {}) : imp' = [imp EXCEPT ![i] = x]
    /\ UNCHANGED <<pinned, file, rows, had, raced, edits, runs, faults>>

\* existing = get_meta(existing_id) again, after the purge.
Reread(i) ==
    /\ imp[i].pc = "reread"
    /\ \E x \in Decided(i, ExistingId(i) \in Stored, {}) : imp' = [imp EXCEPT ![i] = x]
    /\ UNCHANGED <<pinned, file, rows, had, raced, edits, runs, faults>>

\* Mutant of Remember: the prior rows are purged first.
RememberLast(i) ==
    /\ imp[i].pc = "remember"
    /\ LET id == Id(At(i), Doc(i).text, Head(imp[i].parts))
           row == [id |-> id, body |-> Doc(i).text, meta |-> Doc(i).meta]
       IN IF imp[i].after # {}
          THEN /\ rows' = {r \in rows : r.id \notin imp[i].after}
               /\ imp' = [imp EXCEPT ![i].after = {}]
          ELSE IF id \in Stored
               THEN imp' = [imp EXCEPT ![i] = Next1(i, FALSE)] /\ UNCHANGED rows
               ELSE /\ rows' = rows \cup {row}
                    /\ imp' = [imp EXCEPT ![i] =
                         IF Len(imp[i].parts) = 1 THEN Next1(i, TRUE)
                         ELSE [imp[i] EXCEPT !.parts = Tail(imp[i].parts)]]
    /\ UNCHANGED <<pinned, file, had, raced, edits, runs, faults>>

\* remember: an id that is there already is refused.
Remember(i) ==
    /\ imp[i].pc = "remember"
    /\ LET id == Id(At(i), Doc(i).text, Head(imp[i].parts))
           row == [id |-> id, body |-> Doc(i).text, meta |-> Doc(i).meta]
       IN IF id \in Stored
          THEN imp' = [imp EXCEPT ![i] = Next1(i, FALSE)] /\ UNCHANGED rows
          ELSE /\ rows' = rows \cup {row}
               /\ imp' = [imp EXCEPT ![i] =
                    IF Len(imp[i].parts) > 1
                    THEN [imp[i] EXCEPT !.parts = Tail(imp[i].parts)]
                    ELSE IF imp[i].after # {}
                    THEN [imp[i] EXCEPT !.pc = "clean", !.parts = <<>>]
                    ELSE Next1(i, TRUE)]
    /\ UNCHANGED <<pinned, file, had, raced, edits, runs, faults>>

\* Mutant of Clean: nothing is purged.
CleanNot(i) ==
    /\ imp[i].pc = "clean"
    /\ imp' = [imp EXCEPT ![i] = Next1(i, TRUE)]
    /\ UNCHANGED <<pinned, file, rows, had, raced, edits, runs, faults>>

\* The rows another body of this file left are purged once the new one is in.
Clean(i) ==
    /\ imp[i].pc = "clean"
    /\ \E id \in imp[i].after :
         /\ rows' = {r \in rows : r.id # id}
         /\ imp' = [imp EXCEPT ![i] =
              IF imp[i].after = {id} THEN Next1(i, TRUE)
              ELSE [imp[i] EXCEPT !.after = imp[i].after \ {id}]]
    /\ UNCHANGED <<pinned, file, had, raced, edits, runs, faults>>

Report(i) ==
    /\ imp[i].pc = "done"
    /\ had' = had \cup imp[i].covered
    /\ imp' = [imp EXCEPT ![i] = Idle]
    /\ UNCHANGED <<pinned, file, rows, raced, edits, runs, faults>>

\* A write fails, or the process dies.
Fault(i) ==
    /\ faults < MaxFaults
    /\ faults' = faults + 1
    /\ \/ imp[i].pc \notin {"idle", "done"} /\ imp' = [imp EXCEPT ![i] = Idle]
       \/ /\ imp[i].pc \in {"refresh", "purge", "remember", "clean"}
          /\ imp' = [imp EXCEPT ![i] = Next1(i, FALSE)]
    /\ UNCHANGED <<pinned, file, rows, had, raced, edits, runs>>

Next ==
    \/ \E f \in Files : Edit(f)
    \/ \E i \in Importers :
         \/ Start(i) \/ Look(i) \/ Prior(i) \/ Refresh(i) \/ Purge(i) \/ Reread(i)
         \/ Remember(i) \/ Clean(i) \/ Report(i) \/ Fault(i)

Spec == Init /\ [][Next]_vars

(***************************************************************************)
(* Properties.                                                             *)
(***************************************************************************)
\* A file that a report has covered always has a row from then on, at every step
\* of later imports, whatever edits, crashes and failed writes come between, unless
\* its id is pinned (it is purged before it is written) or imports have overlapped.
NeverLost == ~raced => \A f \in had \ pinned : RowsOf(f) # {}

\* An update import that no other one overlaps leaves, of each file its report
\* covers, rows of the body it read and of no other, with its explicit metadata,
\* even after imports that overlapped, crashed or failed.  A file with a pinned id
\* needs that none has, for chunks left under its id look current; and a chunk
\* that a dead import left may keep older metadata beside a document written whole.
UpdateBringsToDate ==
    \A i \in Importers :
        imp[i].pc = "done" /\ imp[i].alone /\ imp[i].update =>
            \A f \in imp[i].covered :
                (faults = 0 /\ ~raced) \/ f \notin pinned =>
                    LET doc == imp[i].docs[f]
                        UpToDate(r) == r.meta = doc.meta \/ doc.meta = 0
                    IN /\ RowsOf(f) # {}
                       /\ \A r \in RowsOf(f) :
                            /\ r.body = doc.text
                            /\ \/ UpToDate(r)
                               \/ /\ r.id.part # Whole
                                  /\ \E w \in RowsOf(f) : w.id.part = Whole /\ UpToDate(w)

\* The report of an import that no other one overlaps covers only files all of
\* whose text is stored.
FreshMeansWhole ==
    \A i \in Importers :
        imp[i].pc = "done" /\ imp[i].alone =>
            \A f \in imp[i].covered :
                \/ \E r \in RowsOf(f) : r.id.part = Whole
                \/ \A k \in 1..NumChunks : \E r \in RowsOf(f) : r.id.part = Chunk(k)
================================================================================
