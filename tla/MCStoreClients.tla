---------------------------- MODULE MCStoreClients ----------------------------
(***************************************************************************)
(* What writes to a store through the client, as one state machine for     *)
(* TLC: a behaviour is one of MarkdownImport, GeneratedMemory, KeyRotation *)
(* or MemoryFiles, or one call of Chunking, while the other four rest in   *)
(* one of their initial states.  KeyRotation is extended, so that its      *)
(* assumption is evaluated here; the others are instances.                 *)
(***************************************************************************)
EXTENDS KeyRotation

CONSTANTS
    Importers, Files, Texts, Long, NumChunks, MaxEdits, MaxRuns, MaxFaults, \* MarkdownImport
    Workers, Originals, Primary, Secondary, MinCluster, MaxGenerated,      \* GeneratedMemory
    Backends, Paths, MaxVersions,                                          \* MemoryFiles
    MaxLength, MaxTarget                                                   \* Chunking

ASSUME GeneratedConstants == MaxGenerated \in Nat

\* An import has files to read, and a long body has a chunk.
ASSUME ImportConstants == Files # {} /\ NumChunks \in Nat \ {0}

VARIABLES
    part,
    pinned, file, imported, imp, had, raced, edits, runs, faults,
    records, edges, made, named, erased, work,
    tool, versions, clock, index, retireOnly, op,
    text, target, overlap, done, chunks

import == <<pinned, file, imported, imp, had, raced, edits, runs, faults>>
generated == <<records, edges, made, named, erased, work>>
memfiles == <<tool, versions, clock, index, retireOnly, op>>
chunking == <<text, target, overlap, done, chunks>>

I == INSTANCE MarkdownImport WITH rows <- imported
G == INSTANCE GeneratedMemory WITH rows <- records
F == INSTANCE MemoryFiles WITH rows <- versions
D == INSTANCE Chunking

UnionInit ==
    /\ part \in {"import", "generated", "rotation", "memfiles", "chunking"}
    /\ I!Init /\ G!Init /\ Init /\ F!Init
    /\ part # "import" =>
         /\ pinned = {}
         /\ file = [f \in Files |-> [text |-> CHOOSE t \in Texts : TRUE, meta |-> 0]]
    /\ part # "memfiles" => tool = "memory"
    /\ IF part = "chunking" THEN D!Init
       ELSE text = <<>> /\ target = 1 /\ overlap = 0 /\ done = FALSE /\ chunks = <<>>

UnionNext ==
    \/ part = "import" /\ I!Next /\ UNCHANGED <<part, generated, vars, memfiles, chunking>>
    \/ part = "generated" /\ G!Next /\ UNCHANGED <<part, import, vars, memfiles, chunking>>
    \/ part = "rotation" /\ Next /\ UNCHANGED <<part, import, generated, memfiles, chunking>>
    \/ part = "memfiles" /\ F!Next /\ UNCHANGED <<part, import, generated, vars, chunking>>
    \/ part = "chunking" /\ D!Next /\ UNCHANGED <<part, import, generated, vars, memfiles>>

ClientVars == <<part, import, generated, vars, memfiles, chunking>>

UnionSpec == UnionInit /\ [][UnionNext]_ClientVars

\* An imported file is never without rows: see MarkdownImport.
NeverLost == I!NeverLost

\* An update import brings a file's rows to date: see MarkdownImport.
UpdateBringsToDate == I!UpdateBringsToDate

\* An erased subject's words are in no row: see GeneratedMemory.
ErasureReaches == G!ErasureReaches

\* A file's versions are settled by a command alone: see MemoryFiles.
AloneSettles == F!AloneSettles

\* A file is as before a command or as after it: see MemoryFiles.
WholeOrNot == F!WholeOrNot

\* No token of a document is lost between its chunks: see Chunking.
ChunksComplete == D!ChunksComplete
================================================================================
