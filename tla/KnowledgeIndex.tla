---------------------------- MODULE KnowledgeIndex ----------------------------
(***************************************************************************)
(* rag/: the restaurant's documents, in a persistent Chroma collection     *)
(* that the processes share (the server's workers, and the ingestion       *)
(* script while it runs) and in the BM25 index each keeps in its memory.   *)
(* A request waits only for the embeddings of what it ingests; from there  *)
(* to the rebuilt index a process does nothing else, but another process,  *)
(* a failing call to Chroma and a crash can come between two of its calls. *)
(***************************************************************************)
EXTENDS Naturals, Sequences

CONSTANTS
    Process,    \* server workers, and the ingestion script
    NoProcess,  \* nobody
    Request,    \* requests that may be under way at a time
    NoRequest,  \* the process is free
    Source,     \* names of documents
    Doc,        \* what a document may hold
    NoDoc,      \* deleted
    Wordless,   \* those with a chunk that has no word in it
    Repeated,   \* those with two chunks of one identifier
    Directory,  \* data/knowledge, in order
    MaxRequests \* bound on the requests

ASSUME KnowledgeAssumption ==
    /\ NoProcess \notin Process
    /\ NoRequest \notin Request
    /\ NoDoc \notin Doc
    /\ Wordless \subseteq Doc
    /\ Repeated \subseteq Doc
    /\ Directory \in Seq(Source)
    /\ MaxRequests \in Nat

VARIABLES
    stored,   \* Chroma: the chunks of a document are there together
    up,       \* processes with a RagService
    lexical,  \* BM25Store.chunks
    busy,     \* the request whose synchronous code a process is in
    task,     \* the requests
    requests, \* requests so far
    authors,  \* history: who deleted a source's chunks last, and who added some since
    reported, \* history: what these then told their clients it holds
    kept,     \* history: sources ingested and neither deleted nor lost to a fault
    behind    \* history: processes whose index has not followed a write

shared  == <<stored, authors, reported, kept>>
vars    == <<shared, up, lexical, busy, task, requests, behind>>
--------------------------------------------------------------------------------
Chunk == Source \X Doc
Task  == [pc: {"idle", "load", "embed", "upsert", "rebuild"}, at: Process \cup {NoProcess},
          rest: Seq(Source),
          doc: Doc \cup {NoDoc}]
Begin(pc, p, files) == [pc |-> pc, at |-> p, rest |-> files, doc |-> NoDoc]
Idle  == Begin("idle", NoProcess, <<>>)
Told  == Process \X (Doc \cup {NoDoc})    \* who told, and which version

TypeOK ==
    /\ stored \subseteq Chunk
    /\ up \subseteq Process
    /\ lexical \in [Process -> SUBSET Chunk]
    /\ busy \in [Process -> Request \cup {NoRequest}]
    /\ task \in [Request -> Task]
    /\ \A r \in Request : task[r].pc # "idle" => task[r].at \in up
    /\ \A r \in Request, p \in Process :
          busy[p] = r <=> task[r].pc \in {"upsert", "rebuild"} /\ task[r].at = p
    /\ requests \in 0..MaxRequests
    /\ authors \in [Source -> SUBSET Process]
    /\ reported \in [Source -> SUBSET Told]
    /\ kept \subseteq Source
    /\ behind \subseteq Process

Init ==
    /\ stored = {}
    /\ up = {}
    /\ lexical = [p \in Process |-> {}]
    /\ busy = [p \in Process |-> NoRequest]
    /\ task = [r \in Request |-> Idle]
    /\ requests = 0
    /\ authors = [s \in Source |-> {}]
    /\ reported = [s \in Source |-> {}]
    /\ kept = {}
    /\ behind = {}

At(r, pc) == task[r].pc = pc
Here(r)   == task[r].at
Name(r)   == Head(task[r].rest)
Of(s)     == {c \in Chunk : c[1] = s}

\* The event loop is at nobody's synchronous code.
\* Seeded defect: the calls to Chroma leave the loop to the other requests.
MutFree(p) == TRUE
Free(p)    == busy[p] = NoRequest

Holding(r) == busy[Here(r)] = r
Leave(r)   == busy' = [busy EXCEPT ![Here(r)] = NoRequest]
End(r)     == task' = [task EXCEPT ![r] = Idle]

\* A process wrote to Chroma: the others' indexes do not follow.
Overtakes(p) == behind' = behind \cup (up \ {p})

\* It deleted the chunks of s, whoever had written them,
Deleted(p, s) ==
    /\ authors' = [authors EXCEPT ![s] = {p}]
    /\ reported' = [reported EXCEPT ![s] = {}]
    /\ Overtakes(p)

\* or added chunks to those that are there.
Added(p, s) ==
    /\ authors' = [authors EXCEPT ![s] = @ \cup {p}]
    /\ UNCHANGED reported
    /\ Overtakes(p)
--------------------------------------------------------------------------------
(* Processes *)

Hydrated(p) == [lexical EXCEPT ![p] = stored]

\* The service is built on the first request, its index from what Chroma holds.
Start(p) ==
    /\ p \notin up
    /\ up' = up \cup {p}
    /\ lexical' = Hydrated(p)
    /\ behind' = behind \ {p}
    /\ UNCHANGED <<shared, busy, task, requests>>

\* A process ends: a crash, a restart, or the script is done.
Crash(p) ==
    /\ p \in up
    /\ up' = up \ {p}
    /\ lexical' = [lexical EXCEPT ![p] = {}]
    /\ busy' = [busy EXCEPT ![p] = NoRequest]
    /\ task' = [r \in Request |-> IF Here(r) = p THEN Idle ELSE task[r]]
    /\ kept' = kept \ {Name(r) : r \in {x \in Request : At(x, "upsert") /\ Here(x) = p}}
    /\ UNCHANGED <<stored, authors, reported, requests, behind>>
--------------------------------------------------------------------------------
(* Ingestion *)

Asked(r, p) ==
    /\ At(r, "idle")
    /\ p \in up
    /\ Free(p)
    /\ requests < MaxRequests
    /\ requests' = requests + 1

\* upload_knowledge, ingest_default and the script: one file, or the directory's.
Ingest(r, p, files) ==
    /\ Asked(r, p)
    /\ task' = [task EXCEPT ![r] = Begin("load", p, files)]
    /\ UNCHANGED <<shared, up, lexical, busy, behind>>

\* load_document and chunk_document, of what the file holds by now.
Load(r, d) ==
    /\ At(r, "load")
    /\ Free(Here(r))
    /\ task' = [task EXCEPT ![r].pc = "embed", ![r].doc = d]
    /\ UNCHANGED <<shared, up, lexical, busy, requests, behind>>

\* No such type, no text, no chunk; or no embedding, or Chroma does not delete.
Rejected(r) ==
    /\ At(r, "load") \/ At(r, "embed")
    /\ Free(Here(r))
    /\ End(r)
    /\ UNCHANGED <<shared, up, lexical, busy, requests, behind>>

\* Chroma without the chunks of s.
Without(s) == stored \ Of(s)

\* What replace_source leaves before it adds.
\* Seeded defect: the new chunks are upserted over the old ones.
MutCleared(s) == stored
Cleared(s)    == Without(s)

\* The embeddings are there: replace_source deletes what there was,
\* Seeded defect: it deleted that before the embeddings were asked for.
MutReplace(r) ==
    /\ At(r, "load") \/ At(r, "embed")
    /\ Free(Here(r))
    /\ IF At(r, "load")
       THEN \E d \in Doc :
                /\ stored' = Cleared(Name(r))
                /\ task' = [task EXCEPT ![r].pc = "embed", ![r].doc = d]
                /\ UNCHANGED busy
       ELSE /\ task' = [task EXCEPT ![r].pc = "upsert"]
            /\ busy' = [busy EXCEPT ![Here(r)] = r]
            /\ UNCHANGED stored
    /\ Deleted(Here(r), Name(r))
    /\ UNCHANGED <<up, lexical, kept, requests>>
Replace(r) ==
    /\ At(r, "embed")
    /\ Free(Here(r))
    /\ stored' = Cleared(Name(r))
    /\ busy' = [busy EXCEPT ![Here(r)] = r]
    /\ task' = [task EXCEPT ![r].pc = "upsert"]
    /\ Deleted(Here(r), Name(r))
    /\ UNCHANGED <<up, lexical, kept, requests>>

\* A chunk is identified by its source, its section, its place in the section and
\* its text: two sections of one heading may have the same chunk.
Distinct(d) == d \notin Repeated

\* and upserts the new chunks,
Upsert(r) ==
    /\ At(r, "upsert")
    /\ Distinct(task[r].doc)
    /\ stored' = stored \cup {<<Name(r), task[r].doc>>}
    /\ kept' = kept \cup {Name(r)}
    /\ task' = [task EXCEPT ![r].pc = "rebuild"]
    /\ Added(Here(r), Name(r))
    /\ UNCHANGED <<up, lexical, busy, requests>>

\* or Chroma does not take them: it failed, or they are not distinct.
Lose(r) ==
    /\ At(r, "upsert")
    /\ kept' = kept \ {Name(r)}
    /\ behind' = behind \cup {Here(r)}
    /\ Leave(r)
    /\ End(r)
    /\ UNCHANGED <<stored, authors, reported, up, lexical, requests>>

\* all_chunks, as far as the index is built from them.
\* Seeded defect: the index is rebuilt from the source just written.
MutAllChunks(s) == stored \cap Of(s)
AllChunks(s)    == stored

\* The index is rebuilt; the next file is loaded, or the client is answered.
Rebuild(r) ==
    LET more == Len(task[r].rest) > 1 IN
    /\ At(r, "rebuild")
    /\ lexical' = [lexical EXCEPT ![Here(r)] = AllChunks(Name(r))]
    /\ behind' = behind \ {Here(r)}
    /\ reported' = [reported EXCEPT ![Name(r)] =
                       IF Here(r) \in authors[Name(r)] THEN @ \cup {<<Here(r), task[r].doc>>}
                                                      ELSE @]
    /\ Leave(r)
    /\ IF more
       THEN task' = [task EXCEPT ![r] = Begin("load", @.at, Tail(@.rest))]
       ELSE End(r)
    /\ UNCHANGED <<stored, authors, kept, up, requests>>

\* Chroma could not be read: the index stays what it was.
Stale(r) ==
    /\ At(r, "rebuild")
    /\ behind' = behind \cup {Here(r)}
    /\ Leave(r)
    /\ End(r)
    /\ UNCHANGED <<shared, up, lexical, requests>>
--------------------------------------------------------------------------------
(* Deletion *)

\* delete_source of a source that has chunks; of another it finds none, and
\* changes nothing.
Drop(r, p, s) ==
    /\ Asked(r, p)
    /\ stored \cap Of(s) # {}
    /\ stored' = Without(s)
    /\ kept' = kept \ {s}
    /\ busy' = [busy EXCEPT ![p] = r]
    /\ task' = [task EXCEPT ![r] = Begin("rebuild", p, <<s>>)]
    /\ Deleted(p, s)
    /\ UNCHANGED <<up, lexical>>
--------------------------------------------------------------------------------
Step(r) == \/ \E d \in Doc : Load(r, d)
           \/ Rejected(r) \/ Replace(r) \/ Upsert(r) \/ Lose(r) \/ Rebuild(r) \/ Stale(r)

Next ==
    \/ \E p \in Process : Start(p) \/ Crash(p)
    \/ \E r \in Request, p \in Process :
          \/ \E files \in {<<s>> : s \in Source} \cup ({Directory} \ {<<>>}) : Ingest(r, p, files)
          \/ \E s \in Source : Drop(r, p, s)
    \/ \E r \in Request : Step(r)

Spec == Init /\ [][Next]_vars
--------------------------------------------------------------------------------
(* What a search may cite: scores, thresholds and top K leave some of it out. *)

\* BM25 is ready when it has chunks and each of them has a word.
Ready(p) == lexical[p] # {} /\ \A c \in lexical[p] : c[2] \notin Wordless

Semantic   == stored
Lexical(p) == IF Ready(p) THEN lexical[p] ELSE {}

Retrieve(p)        == Semantic \cup Lexical(p)
RetrieveLexical(p) == Lexical(p)

\* The embedding of the query is there, or its provider fails.
Search(p) == Retrieve(p) \cup RetrieveLexical(p)
--------------------------------------------------------------------------------
(* Properties *)

\* What a process told its client about a source stays true until some process deletes the
\* source's chunks again: the version is in the collection, the process cites of the source
\* what the collection holds and nothing older, with or without embeddings, and if no other
\* process wrote the source since its last deletion there is no other version, whatever
\* fails with other sources and whatever restarts. The versions of two processes that
\* replaced it at once may both stay: OneVersion.
ReportIsKept ==
    \A s \in Source, p \in Process, d \in Doc \cup {NoDoc} : <<p, d>> \in reported[s] =>
        LET version == IF d = NoDoc THEN {} ELSE {<<s, d>>}
            held    == stored \cap Of(s)
        IN  /\ version \subseteq held
            /\ p \in up => Search(p) \cap Of(s) = held
            /\ authors[s] = {p} => held = version

\* A source is stored in one version. rag-design.md:25: "Source replacement deletes that
\* source's existing chunks and upserts the new stable IDs. This makes repeated ingestion
\* deterministic and prevents duplicate chunks." That is so where one process writes, as
\* KnowledgeIndexProofs shows, and not where two do: both may delete before either adds.
OneVersion == \A c, d \in stored : c[1] = d[1] => c = d

\* A source that is being ingested again is searched in its old version while
\* the embeddings of the new one are awaited: it is missing only between two
\* calls of a process that replaces it, unless a fault hit just there.
ReplacedNotMissing ==
    \A s \in kept : \/ stored \cap Of(s) # {}
                    \/ \E r \in Request : At(r, "upsert") /\ Holding(r) /\ Name(r) = s

\* A process that is done with its own writes has in its index what Chroma
\* holds, if no other process wrote since and it was not cut off.
\* rag-design.md:59: "The index is rebuilt after ingestion and deletion and
\* hydrated from Chroma when the service is constructed."
LexicalIsCopy == \A p \in up \ behind : Free(p) => lexical[p] = stored
================================================================================
