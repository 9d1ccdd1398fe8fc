-------------------------- MODULE KnowledgeIndexProofs --------------------------
(***************************************************************************)
(* The invariants of KnowledgeIndex, for any number of processes, requests *)
(* and documents.                                                          *)
(***************************************************************************)
EXTENDS KnowledgeIndex, TLAPS

Version(s, d) == IF d = NoDoc THEN {} ELSE {<<s, d>>}

Has(t) == t.rest # <<>>

\* A request under way has a source before it, and a document from its loading to
\* its upsert.
Ongoing ==
    \A r \in Request :
        /\ ~At(r, "idle") => Has(task[r])
        /\ At(r, "embed") \/ At(r, "upsert") => task[r].doc \in Doc

\* While a process replaces or deletes a source, the collection holds what the process has
\* made of it, and nothing else unless another process wrote the source since.
PendingFor(r) ==
    LET s == Name(r)
        v == Version(s, task[r].doc)
    IN  /\ At(r, "upsert") /\ authors[s] \subseteq {Here(r)} =>
              stored \cap Of(s) = {} /\ reported[s] = {}
        /\ At(r, "rebuild") /\ Here(r) \in authors[s] =>
              /\ v \subseteq stored \cap Of(s)
              /\ authors[s] = {Here(r)} => stored \cap Of(s) = v
Pending == \A r \in Request : PendingFor(r)

\* What p told of s is in the collection, p's index has of s only what the collection has,
\* and this is only what p told unless another process wrote s since its last deletion.
ReportFor(s, p, d) ==
    <<p, d>> \in reported[s] =>
        /\ Version(s, d) \subseteq stored \cap Of(s)
        /\ p \in up => lexical[p] \cap Of(s) \subseteq stored \cap Of(s)
        /\ authors[s] = {p} => stored \cap Of(s) = Version(s, d)
Reports == \A s \in Source, p \in Process, d \in Doc \cup {NoDoc} : ReportFor(s, p, d)

\* A source that one process alone wrote since its last deletion is there in one version.
OnceFor(s, p) ==
    authors[s] \subseteq {p} => \A c, d \in stored \cap Of(s) : c = d
Once == \A s \in Source, p \in Process : OnceFor(s, p)

IndexInv ==
    /\ TypeOK
    /\ Ongoing
    /\ LexicalIsCopy
    /\ ReplacedNotMissing
    /\ Pending
    /\ Reports
    /\ Once
--------------------------------------------------------------------------------
\* The first file of a list of files, and the others.
LEMMA FilesOf ==
    ASSUME NEW S, NEW f \in Seq(S), f # <<>>
    PROVE  Head(f) \in S /\ Tail(f) \in Seq(S)
  OBVIOUS

\* What is left after the first of several files.
LEMMA MoreFiles ==
    ASSUME NEW S, NEW f \in Seq(S), Len(f) > 1
    PROVE  Tail(f) \in Seq(S) /\ Tail(f) # <<>>
<1>1. f # <<>> /\ Len(f) \in Nat
  OBVIOUS
<1>2. Tail(f) \in Seq(S) /\ Len(Tail(f)) = Len(f) - 1
  BY <1>1
<1>3. Len(Tail(f)) # 0
  BY <1>1, <1>2
<1>4. ASSUME Tail(f) = <<>> PROVE FALSE
  BY <1>3, <1>4
<1>. QED  BY <1>2, <1>4

\* A list of one file.
LEMMA OneFile ==
    ASSUME NEW S, NEW s \in S
    PROVE  <<s>> \in Seq(S) /\ <<s>> # <<>> /\ Head(<<s>>) = s
  OBVIOUS

\* A request under way is about a source.
LEMMA NameIsSource ==
    ASSUME TypeOK, Ongoing, NEW r \in Request, ~At(r, "idle")
    PROVE  Name(r) \in Source
<1>1. task[r].rest \in Seq(Source) /\ task[r].rest # <<>>
  BY DEF TypeOK, Task, Ongoing, Has
<1>. QED  BY <1>1, FilesOf DEF Name

\* What clearing a source leaves of each source.
LEMMA Clearing ==
    ASSUME NEW s \in Source, NEW t \in Source
    PROVE  Without(s) \cap Of(t) = IF t = s THEN {} ELSE stored \cap Of(t)
  BY DEF Without, Of

\* And adding a version to it.
LEMMA Adding ==
    ASSUME NEW s \in Source, NEW t \in Source, NEW d \in Doc
    PROVE  (stored \cup {<<s, d>>}) \cap Of(t) =
              IF t = s THEN (stored \cap Of(t)) \cup {<<s, d>>} ELSE stored \cap Of(t)
  BY DEF Of, Chunk
--------------------------------------------------------------------------------
\* A writing process is the one its request is at.
LEMMA BusyWith ==
    ASSUME TypeOK, NEW r \in Request, At(r, "upsert") \/ At(r, "rebuild")
    PROVE  /\ Here(r) \in Process
           /\ Here(r) \in up
           /\ busy[Here(r)] = r
<1>1. Here(r) \in up /\ up \subseteq Process
  BY DEF TypeOK, At, Here
<1>. QED  BY <1>1 DEF TypeOK, At, Here

\* No request writes in a process that is free.
LEMMA FreeFrom ==
    ASSUME TypeOK, NEW r \in Request, NEW p \in Process, Free(p), Here(r) = p
    PROVE  ~At(r, "upsert") /\ ~At(r, "rebuild")
  BY KnowledgeAssumption DEF TypeOK, Free, At, Here

\* Only one request writes in a process.
LEMMA OneWriter ==
    ASSUME TypeOK, NEW r \in Request, NEW q \in Request,
           At(r, "upsert") \/ At(r, "rebuild"), At(q, "upsert") \/ At(q, "rebuild"),
           Here(r) = Here(q)
    PROVE  r = q
  BY BusyWith
--------------------------------------------------------------------------------
\* A task that goes on is a task.
LEMMA Goes ==
    ASSUME NEW t \in Task, NEW pc \in {"idle", "load", "embed", "upsert", "rebuild"}
    PROVE  /\ [t EXCEPT !.pc = pc] \in Task
           /\ [t EXCEPT !.pc = pc].pc = pc
           /\ [t EXCEPT !.pc = pc].at = t.at
           /\ Has([t EXCEPT !.pc = pc]) = Has(t)
           /\ [t EXCEPT !.pc = pc].doc = t.doc
<1>. DEFINE Files == Seq(Source)
<1>1. Task = [pc: {"idle", "load", "embed", "upsert", "rebuild"}, at: Process \cup {NoProcess},
              rest: Files, doc: Doc \cup {NoDoc}]
  BY DEF Task
<1>. HIDE DEF Files
<1>. QED  BY <1>1 DEF Has

\* And so is one that loaded its document,
LEMMA Loaded ==
    ASSUME NEW t \in Task, NEW d \in Doc
    PROVE  /\ [t EXCEPT !.pc = "embed", !.doc = d] \in Task
           /\ [t EXCEPT !.pc = "embed", !.doc = d].pc = "embed"
           /\ [t EXCEPT !.pc = "embed", !.doc = d].at = t.at
           /\ Has([t EXCEPT !.pc = "embed", !.doc = d]) = Has(t)
           /\ [t EXCEPT !.pc = "embed", !.doc = d].doc = d
<1>. DEFINE Files == Seq(Source)
<1>1. Task = [pc: {"idle", "load", "embed", "upsert", "rebuild"}, at: Process \cup {NoProcess},
              rest: Files, doc: Doc \cup {NoDoc}]
  BY DEF Task
<1>. HIDE DEF Files
<1>. QED  BY <1>1 DEF Has

\* one that begins,
LEMMA NewTask ==
    ASSUME NEW pc \in {"idle", "load", "embed", "upsert", "rebuild"},
           NEW p \in Process \cup {NoProcess},
           NEW files \in Seq(Source)
    PROVE  /\ files # <<>> => Has(Begin(pc, p, files))
           /\ Begin(pc, p, files) \in Task
           /\ Begin(pc, p, files).pc = pc
           /\ Begin(pc, p, files).at = p
           /\ Begin(pc, p, files).rest = files
           /\ Begin(pc, p, files).doc = NoDoc
  BY DEF Begin, Task, Has

\* and one that is over.
LEMMA IdleTask == Idle \in Task /\ Idle.pc = "idle" /\ Idle.at = NoProcess
<1>1. <<>> \in Seq(Source)
  OBVIOUS
<1>. QED  BY <1>1 DEF Idle, Begin, Task

\* Types, and what a request has before it.
LEMMA TypeStep == TypeOK /\ Ongoing /\ [Next]_vars => TypeOK' /\ Ongoing'
<1>. SUFFICES ASSUME TypeOK, Ongoing, [Next]_vars PROVE TypeOK' /\ Ongoing'
  OBVIOUS
<1>0. NoRequest \notin Request /\ MaxRequests \in Nat
  BY KnowledgeAssumption
<1>1. ASSUME NEW p \in Process, Start(p) PROVE TypeOK' /\ Ongoing'
  BY <1>1 DEF Start, Hydrated, shared, TypeOK, Ongoing, At
<1>2. ASSUME NEW p \in Process, Crash(p) PROVE TypeOK' /\ Ongoing'
  <2>1. task' \in [Request -> Task]
    BY <1>2, IdleTask DEF Crash, TypeOK
  <2>2. \A r \in Request : task'[r] = IF task[r].at = p THEN Idle ELSE task[r]
    BY <1>2 DEF Crash, Here
  <2>3. \A r \in Request : task'[r].pc # "idle" => task'[r].at \in up'
    BY <1>2, <2>2, IdleTask DEF Crash, TypeOK
  <2>4. \A r \in Request, q \in Process :
           busy'[q] = r <=> task'[r].pc \in {"upsert", "rebuild"} /\ task'[r].at = q
    <3>. SUFFICES ASSUME NEW r \in Request, NEW q \in Process
                  PROVE  busy'[q] = r <=> task'[r].pc \in {"upsert", "rebuild"} /\ task'[r].at = q
      OBVIOUS
    <3>1. busy'[q] = IF q = p THEN NoRequest ELSE busy[q]
      BY <1>2 DEF Crash, TypeOK
    <3>2. busy[q] = r <=> task[r].pc \in {"upsert", "rebuild"} /\ task[r].at = q
      BY DEF TypeOK
    <3>3. CASE q = p
      BY <2>2, <3>1, <3>3, <1>0, IdleTask, KnowledgeAssumption
    <3>4. CASE q # p
      BY <2>2, <3>1, <3>2, <3>4, IdleTask
    <3>. QED  BY <3>3, <3>4
  <2>5. TypeOK'
    BY <1>2, <2>1, <2>3, <2>4 DEF Crash, TypeOK
  <2>6. Ongoing'
    BY <2>2, IdleTask DEF Ongoing, At
  <2>. QED  BY <2>5, <2>6
<1>3. ASSUME NEW r \in Request, NEW p \in Process, NEW files \in Seq(Source), files # <<>>,
             Ingest(r, p, files)
      PROVE  TypeOK' /\ Ongoing'
  <2>. DEFINE new == Begin("load", p, files)
  <2>1. /\ new \in Task /\ new.pc = "load" /\ new.at = p /\ Has(new)
    BY <1>3, NewTask
  <2>2. /\ task' = [task EXCEPT ![r] = new] /\ p \in up
        /\ UNCHANGED <<stored, authors, reported, kept, up, lexical, busy, behind>>
        /\ task[r].pc = "idle"
        /\ requests < MaxRequests /\ requests' = requests + 1
    BY <1>3 DEF Ingest, Asked, At, shared
  <2>. HIDE DEF new
  <2>3. requests' \in 0..MaxRequests
    BY <1>0, <2>2 DEF TypeOK
  <2>4. TypeOK'
    BY <2>1, <2>2, <2>3 DEF TypeOK
  <2>5. Ongoing'
    BY <1>3, <2>1, <2>2 DEF Ongoing, At, TypeOK
  <2>. QED  BY <2>4, <2>5
<1>4. ASSUME NEW r \in Request, NEW d \in Doc, Load(r, d) PROVE TypeOK' /\ Ongoing'
  <2>. DEFINE new == [task[r] EXCEPT !.pc = "embed", !.doc = d]
  <2>1. new \in Task /\ new.pc = "embed" /\ new.at = task[r].at /\ Has(new) = Has(task[r])
        /\ new.doc = d
    <3>1. task[r] \in Task
      BY DEF TypeOK
    <3>. QED  BY <3>1, Loaded
  <2>2. /\ task' = [task EXCEPT ![r] = new]
        /\ UNCHANGED <<stored, authors, reported, kept, up, lexical, busy, requests, behind>>
        /\ task[r].pc = "load"
    BY <1>4 DEF Load, At, shared
  <2>. HIDE DEF new
  <2>3. TypeOK'
    BY <2>1, <2>2 DEF TypeOK
  <2>4. Ongoing'
    BY <2>1, <2>2 DEF Ongoing, At, TypeOK
  <2>. QED  BY <2>3, <2>4
<1>5. ASSUME NEW r \in Request, Rejected(r) PROVE TypeOK' /\ Ongoing'
  <2>1. /\ task' = [task EXCEPT ![r] = Idle]
        /\ UNCHANGED <<stored, authors, reported, kept, up, lexical, busy, requests, behind>>
        /\ task[r].pc \in {"load", "embed"}
    BY <1>5 DEF Rejected, End, At, shared
  <2>2. TypeOK'
    BY <2>1, IdleTask DEF TypeOK
  <2>3. Ongoing'
    BY <2>1, IdleTask DEF Ongoing, At, TypeOK
  <2>. QED  BY <2>2, <2>3
<1>6. ASSUME NEW r \in Request, Replace(r) PROVE TypeOK' /\ Ongoing'
  <2>. DEFINE new == [task[r] EXCEPT !.pc = "upsert"]
  <2>1. /\ Name(r) \in Source /\ Here(r) \in up /\ Here(r) \in Process
        /\ busy[Here(r)] = NoRequest /\ Here(r) = task[r].at
    BY <1>6, NameIsSource DEF Replace, At, TypeOK, Free, Here
  <2>2. /\ task' = [task EXCEPT ![r] = new]
        /\ busy' = [busy EXCEPT ![Here(r)] = r]
        /\ task[r].pc = "embed"
        /\ UNCHANGED <<up, lexical, kept, requests>>
    BY <1>6 DEF Replace, At
  <2>3. new \in Task /\ new.pc = "upsert" /\ new.at = task[r].at /\ Has(new) = Has(task[r])
        /\ new.doc = task[r].doc
    <3>1. task[r] \in Task
      BY DEF TypeOK
    <3>. QED  BY <3>1, Goes
  <2>. HIDE DEF new
  <2>4. stored' \subseteq Chunk
    BY <1>6 DEF Replace, Cleared, Without, TypeOK
  <2>5. /\ authors' \in [Source -> SUBSET Process]
        /\ reported' \in [Source -> SUBSET Told]
        /\ behind' \subseteq Process
    BY <1>6, <2>1 DEF Replace, Deleted, Overtakes, TypeOK
  <2>6. ASSUME NEW q \in Request, NEW p \in Process
        PROVE  busy'[p] = q <=> task'[q].pc \in {"upsert", "rebuild"} /\ task'[q].at = p
    <3>1. busy[p] = q <=> task[q].pc \in {"upsert", "rebuild"} /\ task[q].at = p
      BY DEF TypeOK
    <3>2. busy'[p] = IF p = Here(r) THEN r ELSE busy[p]
      BY <2>1, <2>2 DEF TypeOK
    <3>3. task'[q] = IF q = r THEN new ELSE task[q]
      BY <2>2 DEF TypeOK
    <3>4. CASE q = r
      BY <3>1, <3>2, <3>3, <3>4, <2>1, <2>2, <2>3
    <3>5. CASE q # r
      BY <3>1, <3>2, <3>3, <3>5, <2>1, <1>0
    <3>. QED  BY <3>4, <3>5
  <2>7. TypeOK'
    BY <2>1, <2>2, <2>3, <2>4, <2>5, <2>6 DEF TypeOK
  <2>8. Ongoing'
    BY <2>2, <2>3 DEF Ongoing, At, TypeOK
  <2>. QED  BY <2>7, <2>8
<1>7. ASSUME NEW r \in Request, Upsert(r) PROVE TypeOK' /\ Ongoing'
  <2>. DEFINE new == [task[r] EXCEPT !.pc = "rebuild"]
  <2>1. Name(r) \in Source /\ Here(r) \in Process /\ task[r].doc \in Doc
    BY <1>7, NameIsSource, BusyWith DEF Upsert, At, Ongoing
  <2>2. /\ task' = [task EXCEPT ![r] = new]
        /\ task[r].pc = "upsert"
        /\ UNCHANGED <<up, lexical, busy, requests>>
    BY <1>7 DEF Upsert, At
  <2>3. new \in Task /\ new.pc = "rebuild" /\ new.at = task[r].at /\ Has(new) = Has(task[r])
    <3>1. task[r] \in Task
      BY DEF TypeOK
    <3>. QED  BY <3>1, Goes
  <2>. HIDE DEF new
  <2>4. stored' \subseteq Chunk
    BY <1>7, <2>1 DEF Upsert, Chunk, TypeOK
  <2>5. /\ authors' \in [Source -> SUBSET Process]
        /\ reported' \in [Source -> SUBSET Told]
        /\ behind' \subseteq Process
        /\ kept' \subseteq Source
    BY <1>7, <2>1 DEF Upsert, Added, Overtakes, TypeOK
  <2>6. TypeOK'
    BY <2>2, <2>3, <2>4, <2>5 DEF TypeOK
  <2>7. Ongoing'
    BY <2>2, <2>3 DEF Ongoing, At, TypeOK
  <2>. QED  BY <2>6, <2>7
<1>8. ASSUME NEW r \in Request, At(r, "upsert") \/ At(r, "rebuild"), Leave(r),
             NEW new \in Task, task' = [task EXCEPT ![r] = new],
             new.pc \in {"idle", "load"}, new.pc = "load" => new.at = Here(r) /\ Has(new),
             stored' = stored, authors' = authors, up' = up, requests' = requests,
             lexical' \in [Process -> SUBSET Chunk], kept' \subseteq Source,
             behind' \subseteq Process, reported' \in [Source -> SUBSET Told]
      PROVE  TypeOK' /\ Ongoing'
  <2>1. Here(r) \in Process /\ Here(r) \in up /\ busy[Here(r)] = r /\ Here(r) = task[r].at
    BY <1>8, BusyWith DEF Here
  <2>2. busy' = [busy EXCEPT ![Here(r)] = NoRequest]
    BY <1>8 DEF Leave
  <2>3. ASSUME NEW q \in Request, NEW p \in Process
        PROVE  busy'[p] = q <=> task'[q].pc \in {"upsert", "rebuild"} /\ task'[q].at = p
    <3>1. busy[p] = q <=> task[q].pc \in {"upsert", "rebuild"} /\ task[q].at = p
      BY DEF TypeOK
    <3>2. busy'[p] = IF p = Here(r) THEN NoRequest ELSE busy[p]
      BY <2>1, <2>2 DEF TypeOK
    <3>3. task'[q] = IF q = r THEN new ELSE task[q]
      BY <1>8 DEF TypeOK
    <3>4. busy[p] = r <=> p = Here(r)
      BY <1>8, <2>1 DEF TypeOK, At
    <3>5. CASE q = r
      BY <3>2, <3>3, <3>4, <3>5, <1>0, <1>8
    <3>6. CASE q # r
      BY <3>1, <3>2, <3>3, <3>4, <3>6, <1>0
    <3>. QED  BY <3>5, <3>6
  <2>4. TypeOK'
    BY <1>0, <1>8, <2>1, <2>2, <2>3 DEF TypeOK
  <2>5. Ongoing'
    BY <1>8 DEF Ongoing, At, TypeOK
  <2>. QED  BY <2>4, <2>5
<1>9. ASSUME NEW r \in Request, Lose(r) PROVE TypeOK' /\ Ongoing'
  <2>1. At(r, "upsert") /\ Here(r) \in Process
    BY <1>9, BusyWith DEF Lose
  <2>2. /\ lexical' \in [Process -> SUBSET Chunk]
        /\ kept' \subseteq Source
        /\ behind' \subseteq Process
        /\ reported' \in [Source -> SUBSET Told]
    BY <1>9, <2>1 DEF Lose, TypeOK
  <2>3. Leave(r) /\ task' = [task EXCEPT ![r] = Idle]
        /\ UNCHANGED <<stored, authors, up, requests>>
    BY <1>9 DEF Lose, End
  <2>. QED  BY <1>8, <2>1, <2>2, <2>3, IdleTask
<1>10. ASSUME NEW r \in Request, Rebuild(r) PROVE TypeOK' /\ Ongoing'
  <2>1. At(r, "rebuild") /\ Here(r) \in Process /\ Name(r) \in Source
    BY <1>10, BusyWith, NameIsSource DEF Rebuild, At
  <2>2. /\ lexical' \in [Process -> SUBSET Chunk]
        /\ kept' \subseteq Source
        /\ behind' \subseteq Process
    BY <1>10, <2>1 DEF Rebuild, AllChunks, TypeOK
  <2>3. reported' \in [Source -> SUBSET Told]
    <3>1. task[r].doc \in Doc \cup {NoDoc}
      BY DEF TypeOK, Task
    <3>2. <<Here(r), task[r].doc>> \in Told
      BY <2>1, <3>1 DEF Told
    <3>. QED  BY <1>10, <2>1, <3>2 DEF Rebuild, TypeOK
  <2>. Leave(r) /\ UNCHANGED <<stored, authors, up, requests>>
    BY <1>10 DEF Rebuild
  <2>4. CASE Len(task[r].rest) > 1
    <3>. DEFINE files == Tail(task[r].rest)
                new   == Begin("load", Here(r), files)
    <3>1. files \in Seq(Source) /\ files # <<>>
      BY <2>4, MoreFiles DEF TypeOK, Task
    <3>2. new \in Task /\ new.pc = "load" /\ new.at = Here(r) /\ Has(new)
      <4>1. "load" \in {"idle", "load", "embed", "upsert", "rebuild"}
            /\ Here(r) \in Process \cup {NoProcess}
        BY <2>1
      <4>. HIDE DEF files
      <4>. QED  BY <3>1, <4>1, NewTask
    <3>3. task' = [task EXCEPT ![r] = new]
      BY <1>10, <2>4 DEF Rebuild, Here
    <3>. HIDE DEF new
    <3>. QED  BY <1>8, <2>1, <2>2, <2>3, <3>2, <3>3
  <2>5. CASE ~(Len(task[r].rest) > 1)
    <3>1. task' = [task EXCEPT ![r] = Idle]
      BY <1>10, <2>5 DEF Rebuild, End
    <3>. QED  BY <1>8, <2>1, <2>2, <2>3, <3>1, IdleTask
  <2>. QED  BY <2>4, <2>5
<1>11. ASSUME NEW r \in Request, Stale(r) PROVE TypeOK' /\ Ongoing'
  <2>1. At(r, "rebuild") /\ Here(r) \in Process
    BY <1>11, BusyWith DEF Stale
  <2>2. /\ lexical' \in [Process -> SUBSET Chunk]
        /\ kept' \subseteq Source
        /\ behind' \subseteq Process
        /\ reported' \in [Source -> SUBSET Told]
    BY <1>11, <2>1 DEF Stale, shared, TypeOK
  <2>3. Leave(r) /\ task' = [task EXCEPT ![r] = Idle]
        /\ UNCHANGED <<stored, authors, up, requests>>
    BY <1>11 DEF Stale, End, shared
  <2>. QED  BY <1>8, <2>1, <2>2, <2>3, IdleTask
<1>12. ASSUME NEW r \in Request, NEW p \in Process, NEW s \in Source, Drop(r, p, s)
       PROVE  TypeOK' /\ Ongoing'
  <2>. DEFINE files == <<s>>
              new   == Begin("rebuild", p, files)
  <2>1. new \in Task /\ new.pc = "rebuild" /\ new.at = p /\ Has(new)
    <3>1. files \in Seq(Source) /\ files # <<>>
      BY OneFile
    <3>2. "rebuild" \in {"idle", "load", "embed", "upsert", "rebuild"}
          /\ p \in Process \cup {NoProcess}
      OBVIOUS
    <3>. HIDE DEF files
    <3>. QED  BY <3>1, <3>2, NewTask
  <2>2. /\ task' = [task EXCEPT ![r] = new] /\ p \in up
        /\ busy' = [busy EXCEPT ![p] = r] /\ busy[p] = NoRequest
        /\ task[r].pc = "idle"
        /\ requests < MaxRequests /\ requests' = requests + 1
        /\ UNCHANGED <<up, lexical>>
    BY <1>12 DEF Drop, Asked, Free, At
  <2>. HIDE DEF new
  <2>3. /\ authors' \in [Source -> SUBSET Process]
        /\ reported' \in [Source -> SUBSET Told]
        /\ behind' \subseteq Process
    BY <1>12 DEF Drop, Deleted, Overtakes, TypeOK
  <2>4. stored' \subseteq Chunk /\ kept' \subseteq Source
    BY <1>12 DEF Drop, Without, TypeOK
  <2>5. requests' \in 0..MaxRequests
    BY <1>0, <2>2 DEF TypeOK
  <2>6. ASSUME NEW q \in Request, NEW x \in Process
        PROVE  busy'[x] = q <=> task'[q].pc \in {"upsert", "rebuild"} /\ task'[q].at = x
    <3>1. busy[x] = q <=> task[q].pc \in {"upsert", "rebuild"} /\ task[q].at = x
      BY DEF TypeOK
    <3>2. busy'[x] = IF x = p THEN r ELSE busy[x]
      BY <2>2 DEF TypeOK
    <3>3. task'[q] = IF q = r THEN new ELSE task[q]
      BY <2>2 DEF TypeOK
    <3>4. CASE q = r
      BY <3>1, <3>2, <3>3, <3>4, <2>1, <2>2
    <3>5. CASE q # r
      BY <3>1, <3>2, <3>3, <3>5, <2>2, <1>0
    <3>. QED  BY <3>4, <3>5
  <2>7. TypeOK'
    BY <2>1, <2>2, <2>3, <2>4, <2>5, <2>6 DEF TypeOK
  <2>8. Ongoing'
    BY <2>1, <2>2 DEF Ongoing, At, TypeOK
  <2>. QED  BY <2>7, <2>8
<1>13. CASE UNCHANGED vars
  BY <1>13 DEF vars, shared, TypeOK, Ongoing, At
<1>14. ASSUME NEW files \in {<<s>> : s \in Source} \cup ({Directory} \ {<<>>})
       PROVE  files \in Seq(Source) /\ files # <<>>
  <2>1. CASE files \in {<<s>> : s \in Source}
    BY <2>1, OneFile
  <2>2. CASE files = Directory /\ files # <<>>
    BY <2>2, KnowledgeAssumption
  <2>. QED  BY <1>14, <2>1, <2>2
<1>. QED
  BY <1>1, <1>2, <1>3, <1>4, <1>5, <1>6, <1>7, <1>9, <1>10, <1>11, <1>12, <1>13, <1>14
  DEF Next, Step
--------------------------------------------------------------------------------
\* Writes leave every process behind but the one that writes, which is busy.
LEMMA WritersBehind ==
    ASSUME NEW p \in Process, NEW r \in Request,
           behind' = behind \cup (up \ {p}), up' = up, busy'[p] = r
    PROVE  LexicalIsCopy'
<1>. SUFFICES ASSUME NEW q \in up' \ behind', Free(q)' PROVE FALSE
  BY DEF LexicalIsCopy
<1>1. q = p
  OBVIOUS
<1>. QED  BY <1>1, KnowledgeAssumption DEF Free

\* The index of a process that is done with its writes and was not overtaken is
\* the collection.
LEMMA LexicalStep ==
    ASSUME TypeOK, TypeOK', Ongoing, LexicalIsCopy, [Next]_vars
    PROVE  LexicalIsCopy'
<1>1. ASSUME NEW p \in Process, Start(p) PROVE LexicalIsCopy'
  BY <1>1 DEF Start, Hydrated, shared, LexicalIsCopy, Free, TypeOK
<1>2. ASSUME NEW p \in Process, Crash(p) PROVE LexicalIsCopy'
  BY <1>2 DEF Crash, LexicalIsCopy, Free, TypeOK
<1>3. ASSUME UNCHANGED <<stored, up, lexical, busy, behind>> PROVE LexicalIsCopy'
  BY <1>3 DEF LexicalIsCopy, Free
<1>4. ASSUME NEW r \in Request, Replace(r) PROVE LexicalIsCopy'
  <2>1. Here(r) \in Process /\ Name(r) \in Source
    BY <1>4, NameIsSource DEF Replace, At, Here, TypeOK
  <2>2. behind' = behind \cup (up \ {Here(r)}) /\ up' = up /\ busy'[Here(r)] = r
    BY <1>4, <2>1 DEF Replace, Deleted, Overtakes, TypeOK
  <2>. QED  BY <2>1, <2>2, WritersBehind
<1>5. ASSUME NEW r \in Request, Upsert(r) PROVE LexicalIsCopy'
  <2>1. Here(r) \in Process /\ Name(r) \in Source /\ busy[Here(r)] = r
    BY <1>5, NameIsSource, BusyWith DEF Upsert, At
  <2>2. behind' = behind \cup (up \ {Here(r)}) /\ up' = up /\ busy'[Here(r)] = r
    BY <1>5, <2>1 DEF Upsert, Added, Overtakes
  <2>. QED  BY <2>1, <2>2, WritersBehind
<1>6. ASSUME NEW r \in Request, Lose(r) \/ Stale(r) PROVE LexicalIsCopy'
  <2>1. /\ behind' = behind \cup {Here(r)}
        /\ busy' = [busy EXCEPT ![Here(r)] = NoRequest]
        /\ UNCHANGED <<stored, up, lexical>>
    BY <1>6 DEF Lose, Stale, Leave, shared
  <2>. QED  BY <2>1 DEF LexicalIsCopy, Free, TypeOK
<1>7. ASSUME NEW r \in Request, Rebuild(r) PROVE LexicalIsCopy'
  <2>1. /\ lexical' = [lexical EXCEPT ![Here(r)] = stored]
        /\ behind' = behind \ {Here(r)}
        /\ busy' = [busy EXCEPT ![Here(r)] = NoRequest]
        /\ UNCHANGED <<stored, up>>
    BY <1>7 DEF Rebuild, AllChunks, Leave
  <2>. QED  BY <2>1 DEF LexicalIsCopy, Free, TypeOK
<1>8. ASSUME NEW r \in Request, NEW p \in Process, NEW s \in Source, Drop(r, p, s)
      PROVE  LexicalIsCopy'
  <2>1. behind' = behind \cup (up \ {p}) /\ up' = up /\ busy'[p] = r
    BY <1>8 DEF Drop, Deleted, Overtakes, TypeOK
  <2>. QED  BY <2>1, WritersBehind
<1>9. ASSUME NEW r \in Request,
             \/ \E p \in Process, files \in {<<s>> : s \in Source} \cup ({Directory} \ {<<>>}) :
                   Ingest(r, p, files)
             \/ \E d \in Doc : Load(r, d)
             \/ Rejected(r)
      PROVE  LexicalIsCopy'
  BY <1>3, <1>9 DEF Ingest, Load, Rejected, shared
<1>10. CASE UNCHANGED vars
  BY <1>3, <1>10 DEF vars, shared
<1>. QED
  BY <1>1, <1>2, <1>4, <1>5, <1>6, <1>7, <1>8, <1>9, <1>10 DEF Next, Step
--------------------------------------------------------------------------------
Replaces(r, s) == At(r, "upsert") /\ Holding(r) /\ Name(r) = s

\* A replacement goes on while neither its request nor its process does a step.
LEMMA StillReplaces ==
    ASSUME NEW r \in Request, NEW s, Replaces(r, s),
           task'[r] = task[r], busy'[Here(r)] = busy[Here(r)]
    PROVE  Replaces(r, s)'
  BY DEF Replaces, At, Holding, Name, Here

Missing(s) == stored \cap Of(s) = {}

\* A source that is kept stays in the collection, or is being replaced.
LEMMA ReplacedStep ==
    ASSUME TypeOK, TypeOK', Ongoing, ReplacedNotMissing, [Next]_vars
    PROVE  ReplacedNotMissing'
<1>0. ReplacedNotMissing <=> \A s \in kept : ~Missing(s) \/ \E r \in Request : Replaces(r, s)
  BY DEF ReplacedNotMissing, Missing, Replaces
<1>. SUFFICES ASSUME NEW s \in kept'
              PROVE  ~Missing(s)' \/ \E r \in Request : Replaces(r, s)'
  BY DEF ReplacedNotMissing, Missing, Replaces
<1>source. s \in Source
  BY DEF TypeOK
<1>replacer. ASSUME NEW r \in Request, Replaces(r, s) PROVE Here(r) \in Process /\ busy[Here(r)] = r
  BY <1>replacer, BusyWith DEF Replaces
<1>1. ASSUME UNCHANGED <<stored, busy, kept>>,
             \A r \in Request : At(r, "upsert") => task'[r] = task[r]
      PROVE  ~Missing(s)' \/ \E r \in Request : Replaces(r, s)'
  <2>1. CASE ~Missing(s)
    BY <1>1, <2>1 DEF Missing, Of
  <2>2. ASSUME NEW r \in Request, Replaces(r, s) PROVE Replaces(r, s)'
    BY <1>1, <2>2, StillReplaces DEF Replaces
  <2>. QED  BY <1>0, <1>1, <2>1, <2>2
<1>2. ASSUME NEW p \in Process, Crash(p)
      PROVE  ~Missing(s)' \/ \E r \in Request : Replaces(r, s)'
  <2>1. s \in kept
    BY <1>2 DEF Crash
  <2>2. CASE ~Missing(s)
    BY <1>2, <2>2 DEF Missing, Crash, Of
  <2>3. ASSUME NEW r \in Request, Replaces(r, s) PROVE Replaces(r, s)'
    <3>1. Here(r) # p
      BY <1>2, <2>3 DEF Crash, Replaces
    <3>2. task'[r] = task[r] /\ busy'[Here(r)] = busy[Here(r)]
      BY <1>2, <1>replacer, <2>3, <3>1 DEF Crash, TypeOK
    <3>. QED  BY <2>3, <3>2, StillReplaces
  <2>. QED  BY <1>0, <2>1, <2>2, <2>3
<1>3. ASSUME NEW r \in Request, Replace(r)
      PROVE  ~Missing(s)' \/ \E q \in Request : Replaces(q, s)'
  <2>1. /\ At(r, "embed") /\ Name(r) \in Source /\ Here(r) \in Process
        /\ busy[Here(r)] = NoRequest
        /\ stored' = Without(Name(r))
        /\ busy' = [busy EXCEPT ![Here(r)] = r]
        /\ task' = [task EXCEPT ![r].pc = "upsert"]
        /\ kept' = kept
    BY <1>3, NameIsSource DEF Replace, Cleared, Free, At, Here, TypeOK
  <2>2. CASE s = Name(r)
    <3>1. Replaces(r, s)'
      BY <2>1, <2>2 DEF Replaces, At, Holding, Name, Here, TypeOK
    <3>. QED  BY <3>1
  <2>3. CASE s # Name(r) /\ ~Missing(s)
    BY <1>source, <2>1, <2>3, Clearing DEF Missing, Of
  <2>4. ASSUME NEW q \in Request, Replaces(q, s) PROVE Replaces(q, s)'
    <3>1. q # r
      BY <2>1, <2>4 DEF Replaces, At
    <3>2. Here(q) # Here(r)
      BY <1>replacer, <2>1, <2>4, KnowledgeAssumption
    <3>3. task'[q] = task[q] /\ busy'[Here(q)] = busy[Here(q)]
      BY <1>replacer, <2>1, <2>4, <3>1, <3>2 DEF TypeOK
    <3>. QED  BY <2>4, <3>3, StillReplaces
  <2>. QED  BY <1>0, <2>1, <2>2, <2>3, <2>4
<1>4. ASSUME NEW r \in Request, Upsert(r)
      PROVE  ~Missing(s)' \/ \E q \in Request : Replaces(q, s)'
  <2>1. /\ At(r, "upsert") /\ Name(r) \in Source /\ task[r].doc \in Doc
        /\ stored' = stored \cup {<<Name(r), task[r].doc>>}
        /\ kept' = kept \cup {Name(r)}
        /\ task' = [task EXCEPT ![r].pc = "rebuild"]
        /\ busy' = busy
    BY <1>4, NameIsSource DEF Upsert, At, Ongoing
  <2>2. stored' \cap Of(s) = IF s = Name(r) THEN (stored \cap Of(s)) \cup {<<s, task[r].doc>>}
                                            ELSE stored \cap Of(s)
    BY <1>source, <2>1, Adding
  <2>3. CASE s = Name(r)
    BY <2>2, <2>3 DEF Missing, Of
  <2>4. CASE s # Name(r) /\ ~Missing(s)
    BY <2>2, <2>4 DEF Missing, Of
  <2>5. ASSUME NEW q \in Request, Replaces(q, s), s # Name(r) PROVE Replaces(q, s)'
    <3>1. q # r
      BY <2>5 DEF Replaces
    <3>2. task'[q] = task[q]
      BY <2>1, <3>1 DEF TypeOK
    <3>. QED  BY <2>1, <2>5, <3>2, StillReplaces
  <2>. QED  BY <1>0, <2>1, <2>3, <2>4, <2>5
<1>5. ASSUME NEW r \in Request, Lose(r) \/ Rebuild(r) \/ Stale(r)
      PROVE  ~Missing(s)' \/ \E q \in Request : Replaces(q, s)'
  <2>1. /\ At(r, "upsert") \/ At(r, "rebuild")
        /\ At(r, "upsert") => s # Name(r)
        /\ s \in kept
        /\ stored' = stored
        /\ busy' = [busy EXCEPT ![Here(r)] = NoRequest]
        /\ \A q \in Request : q # r => task'[q] = task[q]
    BY <1>5 DEF Lose, Rebuild, Stale, Leave, End, shared, TypeOK, At
  <2>2. CASE ~Missing(s)
    BY <2>1, <2>2 DEF Missing, Of
  <2>3. ASSUME NEW q \in Request, Replaces(q, s) PROVE Replaces(q, s)'
    <3>1. q # r
      BY <2>1, <2>3 DEF Replaces, At
    <3>2. Here(q) # Here(r)
      BY <2>1, <2>3, <3>1, OneWriter DEF Replaces
    <3>3. busy'[Here(q)] = busy[Here(q)]
      BY <1>replacer, <2>1, <2>3, <3>2 DEF TypeOK
    <3>. QED  BY <2>1, <2>3, <3>1, <3>3, StillReplaces
  <2>. QED  BY <1>0, <2>1, <2>2, <2>3
<1>6. ASSUME NEW r \in Request, NEW p \in Process, NEW t \in Source, Drop(r, p, t)
      PROVE  ~Missing(s)' \/ \E q \in Request : Replaces(q, s)'
  <2>1. /\ At(r, "idle") /\ busy[p] = NoRequest
        /\ s \in kept /\ s # t
        /\ stored' = Without(t)
        /\ busy' = [busy EXCEPT ![p] = r]
        /\ \A q \in Request : q # r => task'[q] = task[q]
    BY <1>6 DEF Drop, Asked, Free, TypeOK
  <2>2. CASE ~Missing(s)
    BY <1>source, <2>1, <2>2, Clearing DEF Missing, Of
  <2>3. ASSUME NEW q \in Request, Replaces(q, s) PROVE Replaces(q, s)'
    <3>1. q # r
      BY <2>1, <2>3 DEF Replaces, At
    <3>2. Here(q) # p
      BY <1>replacer, <2>1, <2>3, KnowledgeAssumption
    <3>3. busy'[Here(q)] = busy[Here(q)]
      BY <1>replacer, <2>1, <2>3, <3>2 DEF TypeOK
    <3>. QED  BY <2>1, <2>3, <3>1, <3>3, StillReplaces
  <2>. QED  BY <1>0, <2>1, <2>2, <2>3
<1>7. ASSUME NEW r \in Request,
             \/ \E p \in Process, files \in {<<x>> : x \in Source} \cup ({Directory} \ {<<>>}) :
                   Ingest(r, p, files)
             \/ \E d \in Doc : Load(r, d)
             \/ Rejected(r)
      PROVE  ~Missing(s)' \/ \E q \in Request : Replaces(q, s)'
  <2>1. /\ UNCHANGED <<stored, busy, kept>>
        /\ ~At(r, "upsert")
        /\ \A q \in Request : q # r => task'[q] = task[q]
    BY <1>7 DEF Ingest, Asked, Load, Rejected, End, shared, At, TypeOK
  <2>. QED  BY <1>1, <2>1
<1>8. ASSUME NEW p \in Process, Start(p)
      PROVE  ~Missing(s)' \/ \E q \in Request : Replaces(q, s)'
  BY <1>1, <1>8 DEF Start, shared
<1>9. CASE UNCHANGED vars
  BY <1>1, <1>9 DEF vars, shared
<1>. QED
  BY <1>2, <1>3, <1>4, <1>5, <1>6, <1>7, <1>8, <1>9 DEF Next, Step
--------------------------------------------------------------------------------
\* Writes of a source: what they do to the history and to the sources.
Anew(p, s) ==
    /\ authors' = [authors EXCEPT ![s] = {p}]
    /\ reported' = [reported EXCEPT ![s] = {}]
    /\ \A t \in Source : stored' \cap Of(t) = IF t = s THEN {} ELSE stored \cap Of(t)

More(p, s, d) ==
    /\ authors' = [authors EXCEPT ![s] = @ \cup {p}]
    /\ reported' = reported
    /\ \A t \in Source : stored' \cap Of(t) =
           IF t = s THEN (stored \cap Of(t)) \cup {<<s, d>>} ELSE stored \cap Of(t)

\* What is pending elsewhere is not disturbed by a write of another process.
LEMMA OtherPending ==
    ASSUME TypeOK, Ongoing, NEW p \in Process, NEW s \in Source,
           Anew(p, s) \/ \E d \in Doc : More(p, s, d),
           NEW q \in Request, At(q, "upsert") \/ At(q, "rebuild"), Here(q) # p,
           PendingFor(q), task'[q] = task[q]
    PROVE  PendingFor(q)'
<1>1. Name(q) \in Source /\ Here(q) \in Process
  BY NameIsSource, BusyWith DEF At
<1>2. /\ Name(q)' = Name(q) /\ Here(q)' = Here(q)
      /\ At(q, "upsert")' = At(q, "upsert") /\ At(q, "rebuild")' = At(q, "rebuild")
      /\ task'[q].doc = task[q].doc
  BY DEF Name, Here, At
<1>3. Of(Name(q))' = Of(Name(q)) /\ Version(Name(q), task[q].doc)' = Version(Name(q), task[q].doc)
  BY <1>2 DEF Of, Version
<1>4. CASE Name(q) = s
  <2>1. p \in authors'[s]
    BY DEF Anew, More, TypeOK
  <2>2. ~(authors'[s] \subseteq {Here(q)})
    BY <2>1
  <2>3. CASE Anew(p, s)
    <3>1. Here(q) \notin authors'[s]
      BY <2>3 DEF Anew, TypeOK
    <3>. QED  BY <1>2, <1>4, <2>2, <3>1 DEF PendingFor
  <2>4. ASSUME NEW d \in Doc, More(p, s, d) PROVE PendingFor(q)'
    <3>1. /\ Here(q) \in authors'[s] => Here(q) \in authors[s]
          /\ stored \cap Of(s) \subseteq stored' \cap Of(s)
      BY <2>4 DEF More, TypeOK
    <3>. QED  BY <1>2, <1>3, <1>4, <2>2, <3>1 DEF PendingFor
  <2>. QED  BY <2>3, <2>4
<1>5. CASE Name(q) # s
  <2>1. /\ authors'[Name(q)] = authors[Name(q)] /\ reported'[Name(q)] = reported[Name(q)]
        /\ stored' \cap Of(Name(q)) = stored \cap Of(Name(q))
    BY <1>1, <1>5 DEF Anew, More, TypeOK
  <2>. QED  BY <1>2, <1>3, <2>1 DEF PendingFor
<1>. QED  BY <1>4, <1>5

\* Nothing is pending for a request that does not write.
LEMMA NotPending ==
    ASSUME NEW q \in Request, ~At(q, "upsert"), ~At(q, "rebuild") PROVE PendingFor(q)
  BY DEF PendingFor

\* What is pending stays so while nothing is written.
LEMMA SamePending ==
    ASSUME NEW q \in Request, PendingFor(q), task'[q] = task[q],
           stored' = stored, authors' = authors, reported' = reported
    PROVE  PendingFor(q)'
  BY DEF PendingFor, At, Name, Here, Of, Version

\* What was reported of the other sources is kept by a process that deletes one,
LEMMA AnewReports ==
    ASSUME TypeOK, Reports, NEW p \in Process, NEW s \in Source, Anew(p, s),
           up' = up, lexical' = lexical
    PROVE  Reports'
<1>. SUFFICES ASSUME NEW t \in Source, NEW x \in Process, NEW d \in Doc \cup {NoDoc},
                     <<x, d>> \in reported'[t]
              PROVE  ReportFor(t, x, d)'
  BY DEF Reports, ReportFor
<1>1. t # s
  BY DEF Anew, TypeOK
<1>2. /\ authors'[t] = authors[t] /\ reported'[t] = reported[t]
      /\ stored' \cap Of(t) = stored \cap Of(t)
  BY <1>1 DEF Anew, TypeOK
<1>3. ReportFor(t, x, d)
  BY DEF Reports
<1>. QED  BY <1>2, <1>3 DEF ReportFor, Of, Version

\* and that of all by one that adds a version, which it did not tell of yet.
LEMMA MoreReports ==
    ASSUME TypeOK, Reports, NEW p \in Process, NEW s \in Source, NEW e \in Doc, More(p, s, e),
           authors[s] \subseteq {p} => reported[s] = {},
           up' = up, lexical' = lexical
    PROVE  Reports'
<1>. SUFFICES ASSUME NEW t \in Source, NEW x \in Process, NEW d \in Doc \cup {NoDoc},
                     <<x, d>> \in reported'[t]
              PROVE  ReportFor(t, x, d)'
  BY DEF Reports, ReportFor
<1>1. ReportFor(t, x, d) /\ <<x, d>> \in reported[t]
  BY DEF Reports, More
<1>2. stored \cap Of(t) \subseteq stored' \cap Of(t)
  BY DEF More
<1>3. CASE t = s
  <2>1. authors'[s] # {x}
    <3>1. SUFFICES ASSUME authors[s] \cup {p} = {x} PROVE FALSE
      BY DEF More, TypeOK
    <3>2. authors[s] \subseteq {p}
      BY <3>1
    <3>. QED  BY <1>1, <1>3, <3>2
  <2>. QED  BY <1>1, <1>2, <1>3, <2>1 DEF ReportFor, Of, Version
<1>4. CASE t # s
  <2>1. authors'[t] = authors[t] /\ stored' \cap Of(t) = stored \cap Of(t)
    BY <1>4 DEF More, TypeOK
  <2>. QED  BY <1>1, <2>1 DEF ReportFor, Of, Version
<1>. QED  BY <1>3, <1>4

\* And by one that writes nothing, whatever processes end.
LEMMA SameReports ==
    ASSUME TypeOK, Reports, UNCHANGED <<stored, authors, reported>>, up' \subseteq up,
           \A p \in up' : lexical'[p] = lexical[p]
    PROVE  Reports'
<1>. SUFFICES ASSUME NEW s \in Source, NEW p \in Process, NEW d \in Doc \cup {NoDoc}
              PROVE  ReportFor(s, p, d)'
  BY DEF Reports
<1>1. ReportFor(s, p, d)
  BY DEF Reports
<1>. QED  BY <1>1 DEF ReportFor, Of, Version

\* What is pending and what is reported, together.
LEMMA ReportStep ==
    ASSUME TypeOK, TypeOK', Ongoing, Pending, Reports, [Next]_vars
    PROVE  Pending' /\ Reports'
<1>0. \A q \in Request : PendingFor(q)
  BY DEF Pending
<1>1. ASSUME NEW r \in Request,
             \/ \E p \in Process, files \in {<<x>> : x \in Source} \cup ({Directory} \ {<<>>}) :
                   Ingest(r, p, files)
             \/ \E d \in Doc : Load(r, d)
             \/ Rejected(r)
             \/ Lose(r)
             \/ Stale(r)
      PROVE  Pending' /\ Reports'
  <2>1. /\ UNCHANGED <<stored, authors, reported, up, lexical>>
        /\ \A q \in Request : q # r => task'[q] = task[q]
        /\ ~At(r, "upsert")' /\ ~At(r, "rebuild")'
    <3>1. CASE \E p \in Process, files \in {<<x>> : x \in Source} \cup ({Directory} \ {<<>>}) :
                   Ingest(r, p, files)
      BY <3>1 DEF Ingest, Begin, shared, At, TypeOK
    <3>2. CASE \E d \in Doc : Load(r, d)
      BY <3>2 DEF Load, shared, At, TypeOK
    <3>3. CASE Rejected(r) \/ Lose(r) \/ Stale(r)
      <4>1. task' = [task EXCEPT ![r] = Idle]
        BY <3>3 DEF Rejected, Lose, Stale, End
      <4>. QED  BY <3>3, <4>1, IdleTask DEF Rejected, Lose, Stale, shared, At, TypeOK
    <3>. QED  BY <1>1, <3>1, <3>2, <3>3
  <2>2. Reports'
    BY <2>1, SameReports
  <2>3. ASSUME NEW q \in Request PROVE PendingFor(q)'
    <3>1. CASE q = r
      BY <2>1, <3>1, NotPending DEF PendingFor
    <3>2. CASE q # r
      BY <1>0, <2>1, <3>2, SamePending
    <3>. QED  BY <3>1, <3>2
  <2>. QED  BY <2>2, <2>3 DEF Pending
<1>2. ASSUME NEW p \in Process, Start(p) PROVE Pending' /\ Reports'
  <2>1. /\ UNCHANGED <<stored, authors, reported, kept, busy, task>>
        /\ up' = up \cup {p} /\ lexical' = [lexical EXCEPT ![p] = stored]
    BY <1>2 DEF Start, Hydrated, shared
  <2>2. ASSUME NEW s \in Source, NEW x \in Process, NEW d \in Doc \cup {NoDoc}
        PROVE  ReportFor(s, x, d)'
    <3>1. ReportFor(s, x, d)
      BY DEF Reports
    <3>2. lexical'[x] = IF x = p THEN stored ELSE lexical[x]
      BY <2>1 DEF TypeOK
    <3>. QED  BY <2>1, <3>1, <3>2 DEF ReportFor, Of, Version
  <2>3. Pending'
    BY <1>0, <2>1, SamePending DEF Pending
  <2>. QED  BY <2>2, <2>3 DEF Reports
<1>3. ASSUME NEW p \in Process, Crash(p) PROVE Pending' /\ Reports'
  <2>1. /\ UNCHANGED <<stored, authors, reported>>
        /\ up' = up \ {p} /\ lexical' = [lexical EXCEPT ![p] = {}]
        /\ \A q \in Request : task'[q] = Idle \/ task'[q] = task[q]
    BY <1>3 DEF Crash
  <2>2. Reports'
    BY <2>1, SameReports DEF TypeOK
  <2>3. ASSUME NEW q \in Request PROVE PendingFor(q)'
    <3>1. CASE task'[q] = Idle
      BY <3>1, IdleTask DEF PendingFor, At
    <3>2. CASE task'[q] = task[q]
      BY <1>0, <2>1, <3>2, SamePending
    <3>. QED  BY <2>1, <3>1, <3>2
  <2>. QED  BY <2>2, <2>3 DEF Pending
<1>4. ASSUME NEW r \in Request, Replace(r) PROVE Pending' /\ Reports'
  <2>1. /\ At(r, "embed") /\ Name(r) \in Source /\ Here(r) \in Process /\ Free(Here(r))
        /\ stored' = Without(Name(r))
        /\ task' = [task EXCEPT ![r].pc = "upsert"]
        /\ UNCHANGED <<up, lexical>>
    BY <1>4, NameIsSource DEF Replace, Cleared, At, Here, TypeOK
  <2>2. Anew(Here(r), Name(r))
    BY <1>4, <2>1, Clearing DEF Replace, Deleted, Anew
  <2>3. Reports'
    BY <2>1, <2>2, AnewReports
  <2>4. ASSUME NEW q \in Request PROVE PendingFor(q)'
    <3>1. CASE q = r
      <4>1. Name(r)' = Name(r) /\ At(r, "upsert")' /\ ~At(r, "rebuild")'
        BY <2>1 DEF Name, At, TypeOK
      <4>2. stored' \cap Of(Name(r)) = {} /\ reported'[Name(r)] = {}
        BY <2>1, <2>2 DEF Anew, TypeOK
      <4>. QED  BY <3>1, <4>1, <4>2 DEF PendingFor, Of
    <3>2. CASE q # r /\ (At(q, "upsert") \/ At(q, "rebuild"))
      <4>1. Here(q) # Here(r) /\ task'[q] = task[q]
        BY <2>1, <3>2, FreeFrom DEF TypeOK
      <4>. QED  BY <1>0, <2>1, <2>2, <3>2, <4>1, OtherPending
    <3>3. CASE q # r /\ ~At(q, "upsert") /\ ~At(q, "rebuild")
      BY <2>1, <3>3 DEF PendingFor, At, TypeOK
    <3>. QED  BY <3>1, <3>2, <3>3
  <2>. QED  BY <2>3, <2>4 DEF Pending
<1>5. ASSUME NEW r \in Request, Upsert(r) PROVE Pending' /\ Reports'
  <2>1. /\ At(r, "upsert") /\ Name(r) \in Source /\ Here(r) \in Process /\ task[r].doc \in Doc
        /\ stored' = stored \cup {<<Name(r), task[r].doc>>}
        /\ authors' = [authors EXCEPT ![Name(r)] = @ \cup {Here(r)}]
        /\ reported' = reported
        /\ task' = [task EXCEPT ![r].pc = "rebuild"]
        /\ UNCHANGED <<up, lexical>>
    BY <1>5, NameIsSource, BusyWith DEF Upsert, Added, Overtakes, At, Ongoing
  <2>2. More(Here(r), Name(r), task[r].doc)
    BY <2>1, Adding DEF More
  <2>3. Reports'
    <3>1. authors[Name(r)] \subseteq {Here(r)} => reported[Name(r)] = {}
      BY <1>0, <2>1 DEF PendingFor
    <3>. QED  BY <2>1, <2>2, <3>1, MoreReports
  <2>4. ASSUME NEW q \in Request PROVE PendingFor(q)'
    <3>1. CASE q = r
      <4>1. /\ Name(r)' = Name(r) /\ Here(r)' = Here(r) /\ ~At(r, "upsert")'
            /\ task'[r].doc = task[r].doc
        BY <2>1 DEF Name, Here, At, TypeOK
      <4>2. stored' \cap Of(Name(r)) = (stored \cap Of(Name(r))) \cup {<<Name(r), task[r].doc>>}
        BY <2>1, <2>2 DEF More
      <4>3. ASSUME authors'[Name(r)] = {Here(r)}
            PROVE  stored' \cap Of(Name(r)) = {<<Name(r), task[r].doc>>}
        <5>1. authors[Name(r)] \subseteq {Here(r)}
          BY <2>1, <4>3 DEF TypeOK
        <5>2. stored \cap Of(Name(r)) = {}
          BY <1>0, <2>1, <5>1 DEF PendingFor
        <5>. QED  BY <4>2, <5>2
      <4>4. Version(Name(r), task[r].doc) = {<<Name(r), task[r].doc>>}
        BY <2>1, KnowledgeAssumption DEF Version
      <4>. QED  BY <3>1, <4>1, <4>2, <4>3, <4>4 DEF PendingFor, Of, Version
    <3>2. CASE q # r /\ (At(q, "upsert") \/ At(q, "rebuild"))
      <4>1. Here(q) # Here(r) /\ task'[q] = task[q]
        BY <2>1, <3>2, OneWriter DEF TypeOK
      <4>. QED  BY <1>0, <2>1, <2>2, <3>2, <4>1, OtherPending
    <3>3. CASE q # r /\ ~At(q, "upsert") /\ ~At(q, "rebuild")
      BY <2>1, <3>3 DEF PendingFor, At, TypeOK
    <3>. QED  BY <3>1, <3>2, <3>3
  <2>. QED  BY <2>3, <2>4 DEF Pending
<1>6. ASSUME NEW r \in Request, NEW p \in Process, NEW s \in Source, Drop(r, p, s)
      PROVE  Pending' /\ Reports'
  <2>1. /\ At(r, "idle") /\ Free(p)
        /\ stored' = Without(s)
        /\ task' = [task EXCEPT ![r] = Begin("rebuild", p, <<s>>)]
        /\ UNCHANGED <<up, lexical>>
    BY <1>6 DEF Drop, Asked
  <2>2. Anew(p, s)
    BY <1>6, <2>1, Clearing DEF Drop, Deleted, Anew
  <2>3. Reports'
    BY <2>1, <2>2, AnewReports
  <2>4. ASSUME NEW q \in Request PROVE PendingFor(q)'
    <3>1. CASE q = r
      <4>1. Name(r)' = s /\ ~At(r, "upsert")' /\ task'[r].doc = NoDoc
        BY <2>1 DEF Name, At, Begin, TypeOK
      <4>2. stored' \cap Of(s) = {} /\ Version(s, NoDoc) = {}
        BY <2>1, Clearing DEF Version
      <4>. QED  BY <3>1, <4>1, <4>2 DEF PendingFor, Of, Version
    <3>2. CASE q # r /\ (At(q, "upsert") \/ At(q, "rebuild"))
      <4>1. Here(q) # p /\ task'[q] = task[q]
        BY <2>1, <3>2, FreeFrom DEF TypeOK
      <4>. QED  BY <1>0, <2>2, <3>2, <4>1, OtherPending
    <3>3. CASE q # r /\ ~At(q, "upsert") /\ ~At(q, "rebuild")
      BY <2>1, <3>3 DEF PendingFor, At, TypeOK
    <3>. QED  BY <3>1, <3>2, <3>3
  <2>. QED  BY <2>3, <2>4 DEF Pending
<1>7. ASSUME NEW r \in Request, Rebuild(r) PROVE Pending' /\ Reports'
  <2>. DEFINE s == Name(r)
              p == Here(r)
  <2>1. /\ At(r, "rebuild") /\ s \in Source /\ p \in Process
        /\ lexical' = [lexical EXCEPT ![p] = stored]
        /\ reported' = [reported EXCEPT ![s] = IF p \in authors[s] THEN @ \cup {<<p, task[r].doc>>}
                                                                 ELSE @]
        /\ UNCHANGED <<stored, authors, up>>
        /\ \A q \in Request : q # r => task'[q] = task[q]
    BY <1>7, NameIsSource, BusyWith DEF Rebuild, AllChunks, End, At, TypeOK
  <2>2. ~At(r, "upsert")' /\ ~At(r, "rebuild")'
    <3>1. task'[r] = Idle \/ task'[r].pc = "load"
      BY <1>7 DEF Rebuild, End, Begin, TypeOK
    <3>. QED  BY <3>1, IdleTask DEF At
  <2>3. PendingFor(r)
    BY <1>0
  <2>4. ASSUME NEW t \in Source, NEW x \in Process, NEW d \in Doc \cup {NoDoc},
               <<x, d>> \in reported'[t]
        PROVE  ReportFor(t, x, d)'
    <3>1. /\ Version(t, d) \subseteq stored \cap Of(t)
          /\ authors[t] = {x} => stored \cap Of(t) = Version(t, d)
      <4>1. CASE <<x, d>> \in reported[t]
        BY <4>1 DEF Reports, ReportFor
      <4>2. CASE <<x, d>> \notin reported[t]
        <5>1. t = s /\ p \in authors[s] /\ x = p /\ d = task[r].doc
          BY <2>1, <2>4, <4>2 DEF TypeOK
        <5>. QED  BY <2>1, <2>3, <5>1 DEF PendingFor
      <4>. QED  BY <4>1, <4>2
    <3>2. x \in up => lexical'[x] \cap Of(t) \subseteq stored \cap Of(t)
      <4>1. CASE x = p
        BY <2>1, <4>1 DEF TypeOK
      <4>2. CASE x # p
        <5>1. lexical'[x] = lexical[x] /\ <<x, d>> \in reported[t]
          BY <2>1, <2>4, <4>2 DEF TypeOK
        <5>. QED  BY <5>1 DEF Reports, ReportFor
      <4>. QED  BY <4>1, <4>2
    <3>. QED  BY <2>1, <3>1, <3>2 DEF ReportFor, Of, Version
  <2>5. Reports'
    BY <2>4 DEF Reports, ReportFor
  <2>6. ASSUME NEW q \in Request PROVE PendingFor(q)'
    <3>1. CASE q = r
      BY <2>2, <3>1 DEF PendingFor
    <3>2. CASE q # r
      <4>1. /\ Name(q)' = Name(q) /\ Here(q)' = Here(q)
            /\ At(q, "upsert")' = At(q, "upsert") /\ At(q, "rebuild")' = At(q, "rebuild")
            /\ task'[q].doc = task[q].doc
        BY <2>1, <3>2 DEF Name, Here, At
      <4>2. ASSUME At(q, "upsert"), authors[Name(q)] \subseteq {Here(q)}
            PROVE  reported'[Name(q)] = reported[Name(q)]
        <5>1. Here(q) # p /\ Name(q) \in Source
          BY <2>1, <3>2, <4>2, OneWriter, NameIsSource DEF At
        <5>2. p \notin authors[Name(q)]
          BY <4>2, <5>1
        <5>. QED  BY <2>1, <5>1, <5>2 DEF TypeOK
      <4>. QED  BY <1>0, <2>1, <4>1, <4>2 DEF PendingFor, Of, Version
    <3>. QED  BY <3>1, <3>2
  <2>. QED  BY <2>5, <2>6 DEF Pending
<1>8. CASE UNCHANGED vars
  <2>1. UNCHANGED <<stored, authors, reported, up, lexical, task>>
    BY <1>8 DEF vars, shared
  <2>. QED  BY <1>0, <2>1, SameReports, SamePending DEF Pending
<1>. QED
  BY <1>1, <1>2, <1>3, <1>4, <1>5, <1>6, <1>7, <1>8 DEF Next, Step
\* A process adds to a source that it alone wrote only after it deleted what there was.
LEMMA OnceStep ==
    ASSUME TypeOK, Ongoing, Pending, Once, [Next]_vars
    PROVE  Once'
<1>. SUFFICES ASSUME NEW s \in Source, NEW p \in Process PROVE OnceFor(s, p)'
  BY DEF Once
<1>0. OnceFor(s, p)
  BY DEF Once
<1>1. ASSUME UNCHANGED <<stored, authors>> PROVE OnceFor(s, p)'
  BY <1>0, <1>1 DEF OnceFor, Of
<1>2. ASSUME NEW x \in Process, NEW t \in Source, Anew(x, t) PROVE OnceFor(s, p)'
  <2>1. CASE s = t
    BY <1>2, <2>1 DEF OnceFor, Anew, Of
  <2>2. CASE s # t
    BY <1>0, <1>2, <2>2 DEF OnceFor, Anew, Of, TypeOK
  <2>. QED  BY <2>1, <2>2
<1>3. ASSUME NEW r \in Request, Replace(r) PROVE OnceFor(s, p)'
  <2>1. At(r, "embed") /\ Name(r) \in Source /\ Here(r) \in Process
    BY <1>3, NameIsSource DEF Replace, At, Here, TypeOK
  <2>2. Anew(Here(r), Name(r))
    BY <1>3, <2>1, Clearing DEF Replace, Cleared, Deleted, Anew
  <2>. QED  BY <1>2, <2>1, <2>2
<1>4. ASSUME NEW r \in Request, NEW x \in Process, NEW t \in Source, Drop(r, x, t)
      PROVE  OnceFor(s, p)'
  <2>1. Anew(x, t)
    BY <1>4, Clearing DEF Drop, Deleted, Anew
  <2>. QED  BY <1>2, <2>1
<1>5. ASSUME NEW r \in Request, Upsert(r) PROVE OnceFor(s, p)'
  <2>1. /\ At(r, "upsert") /\ Name(r) \in Source /\ task[r].doc \in Doc
        /\ stored' = stored \cup {<<Name(r), task[r].doc>>}
        /\ authors' = [authors EXCEPT ![Name(r)] = @ \cup {Here(r)}]
    BY <1>5, NameIsSource DEF Upsert, Added, At, Ongoing
  <2>2. stored' \cap Of(s) = IF s = Name(r) THEN (stored \cap Of(s)) \cup {<<Name(r), task[r].doc>>}
                                            ELSE stored \cap Of(s)
    BY <2>1, Adding
  <2>3. CASE s = Name(r)
    <3>1. SUFFICES ASSUME authors[s] \cup {Here(r)} \subseteq {p}
                   PROVE  stored' \cap Of(s) = {<<Name(r), task[r].doc>>}
      BY <2>1, <2>3 DEF OnceFor, Of, TypeOK
    <3>2. authors[s] \subseteq {Here(r)}
      BY <3>1
    <3>3. stored \cap Of(s) = {}
      BY <2>1, <2>3, <3>2 DEF Pending, PendingFor
    <3>. QED  BY <2>2, <2>3, <3>3
  <2>4. CASE s # Name(r)
    BY <1>0, <2>1, <2>2, <2>4 DEF OnceFor, Of, TypeOK
  <2>. QED  BY <2>3, <2>4
<1>6. ASSUME NEW r \in Request,
             \/ \E x \in Process, files \in {<<t>> : t \in Source} \cup ({Directory} \ {<<>>}) :
                   Ingest(r, x, files)
             \/ \E d \in Doc : Load(r, d)
             \/ Rejected(r) \/ Lose(r) \/ Stale(r) \/ Rebuild(r)
      PROVE  OnceFor(s, p)'
  BY <1>1, <1>6 DEF Ingest, Load, Rejected, Lose, Stale, Rebuild, shared
<1>7. ASSUME NEW x \in Process, Start(x) \/ Crash(x) PROVE OnceFor(s, p)'
  BY <1>1, <1>7 DEF Start, Crash, shared
<1>8. CASE UNCHANGED vars
  BY <1>1, <1>8 DEF vars, shared
<1>. QED
  BY <1>3, <1>4, <1>5, <1>6, <1>7, <1>8 DEF Next, Step
--------------------------------------------------------------------------------
\* The inductive invariant of the knowledge index holds in every behaviour.
THEOREM IndexInvariance == Spec => []IndexInv
<1>1. Init => IndexInv
  <2>. SUFFICES ASSUME Init PROVE IndexInv
    OBVIOUS
  <2>1. TypeOK
    BY KnowledgeAssumption, IdleTask DEF Init, TypeOK
  <2>2. Ongoing /\ Pending
    BY IdleTask DEF Init, Ongoing, Pending, PendingFor, At
  <2>. QED
    BY <2>1, <2>2 DEF Init, IndexInv, LexicalIsCopy, ReplacedNotMissing, Reports, ReportFor,
                    Once, OnceFor
<1>2. IndexInv /\ [Next]_vars => IndexInv'
  BY TypeStep, LexicalStep, ReplacedStep, ReportStep, OnceStep DEF IndexInv
<1>. QED  BY <1>1, <1>2, PTL DEF Spec

\* rag/: no process's index, task or report is ever of a shape the code cannot give it.
THEOREM TypeCorrectness == Spec => []TypeOK
<1>1. IndexInv => TypeOK
  BY DEF IndexInv
<1>. QED  BY <1>1, IndexInvariance, PTL

\* rag/: a process that is done with its own writes, and was not overtaken or cut
\* off, has in its lexical index what the collection holds.
THEOREM IndexIsCopy == Spec => []LexicalIsCopy
<1>1. IndexInv => LexicalIsCopy
  BY DEF IndexInv
<1>. QED  BY <1>1, IndexInvariance, PTL

\* rag/: a source that is ingested again can be searched until its new version is
\* ready to be stored.
THEOREM OldVersionStays == Spec => []ReplacedNotMissing
<1>1. IndexInv => ReplacedNotMissing
  BY DEF IndexInv
<1>. QED  BY <1>1, IndexInvariance, PTL

\* rag/: what a process reported of a source stays true of the collection and of its searches
\* until the source is deleted again, also while other processes replace it, whose versions
\* may stand beside its own.
THEOREM ReportsHold == Spec => []ReportIsKept
<1>1. IndexInv => ReportIsKept
  <2>. SUFFICES ASSUME IndexInv, NEW s \in Source, NEW p \in Process,
                       NEW d \in Doc \cup {NoDoc}, <<p, d>> \in reported[s]
                PROVE  /\ Version(s, d) \subseteq stored \cap Of(s)
                       /\ p \in up => Search(p) \cap Of(s) = stored \cap Of(s)
                       /\ authors[s] = {p} => stored \cap Of(s) = Version(s, d)
    BY DEF ReportIsKept, Version
  <2>1. ReportFor(s, p, d)
    BY DEF IndexInv, Reports
  <2>2. Search(p) \cap Of(s) = (stored \cap Of(s)) \cup (Lexical(p) \cap Of(s))
    BY DEF Search, Retrieve, RetrieveLexical, Semantic
  <2>3. Lexical(p) \subseteq lexical[p]
    BY DEF Lexical
  <2>. QED  BY <2>1, <2>2, <2>3 DEF ReportFor
<1>. QED  BY <1>1, IndexInvariance, PTL

\* rag/: no source is there in two versions, however often it is ingested, as long as one
\* process alone writes.
THEOREM OneWriterOneVersion == Spec => [](\A p \in Process : Process = {p} => OneVersion)
<1>1. IndexInv => \A p \in Process : Process = {p} => OneVersion
  <2>. SUFFICES ASSUME IndexInv, NEW p \in Process, Process = {p},
                       NEW c \in stored, NEW d \in stored, c[1] = d[1]
                PROVE  c = d
    BY DEF OneVersion
  <2>1. c \in Chunk /\ d \in Chunk
    BY DEF IndexInv, TypeOK
  <2>2. c[1] \in Source /\ c \in stored \cap Of(c[1]) /\ d \in stored \cap Of(c[1])
    BY <2>1 DEF Chunk, Of
  <2>3. authors[c[1]] \subseteq {p}
    BY <2>2 DEF IndexInv, TypeOK
  <2>. QED  BY <2>2, <2>3 DEF IndexInv, Once, OnceFor
<1>. QED  BY <1>1, IndexInvariance, PTL
================================================================================
