---------------------------- MODULE KnowledgeBase ----------------------------
(***************************************************************************)
(* The documents of the knowledge base.  A document is kept three times: as  *)
(* a file of the service's directory, as points of a vector collection, from *)
(* which questions are answered, and as a row of Java's catalogue.  No       *)
(* endpoint has a transaction around the three; each writes them in turn, in *)
(* a thread of its own, and a failure ends it where it is.                   *)
(*                                                                         *)
(* Source: projects/ai-service/app/routers/knowledge_base.py, rag/ingestion.py,*)
(* rag/vector_store.py and KnowledgeDocumentServiceImpl.java.              *)
(***************************************************************************)
EXTENDS Naturals, FiniteSets

CONSTANTS
  Calls,        \* the requests
  Asks,         \* what a request may ask for, records [kind, doc, suffix, gives, lines, size]
  Docs,         \* document ids
  Slot,         \* Slot[d]: d as chunk ids have it, other characters turned into _
  MaxSize,      \* bound: chunks a text is cut into
  Seeded,       \* the document whose markdown file the directory starts with
  Faults        \* what may go wrong: parse, embedding, qdrant, java, crash

Suffixes == {"md", "txt", "pdf"}
Files == Docs \X Suffixes
Md(d) == <<d, "md">>
Absent == [body |-> "absent"]
NotAsked == [kind |-> "none"]

ASSUME SlotAssumption == DOMAIN Slot = Docs
ASSUME SeededAssumption == Seeded \in Docs

VARIABLES
  files,      \* the directory: what each file holds
  points,     \* the default collection: what is stored under each point id
  shelf,      \* the files with chunks in one of the kb_ collections
  catalog,    \* Java's rows
  ask, pc, mem, \* the requests: what each asks, where it is, and its local variables
  mixed,      \* history: calls that overlapped with another on the same slot
  lapses,     \* history: the removals that failed for a call and were passed over
  fresh       \* history: calls answered OK since which nothing touched their slot

vars == <<files, points, shelf, catalog, ask, pc, mem, mixed, lapses, fresh>>
history == <<mixed, lapses, fresh>>

(***************************************************************************)
(* A text is known by who wrote it: the seed or a call.  A version of a file *)
(* is a body (without headings of the first level, which an update of the    *)
(* labels alone would drop) and the labels that are read in it (type, domain *)
(* and group, all three together): chunks are labelled by them.  A body may   *)
(* have label lines of its own, with colons of half or of full width, among   *)
(* the lines that are searched.  How many chunks it makes is the choice of the *)
(* request, which gives the size of a chunk.                                *)
(***************************************************************************)
Writers == Calls \cup {"seed"}
Lines == {"none", "half", "full"}
Unlabelled == <<"nobody", "none">>
Defaults == <<"nobody", "default">>
Labels == (Writers \X {"form", "text"}) \cup {Unlabelled, Defaults}
Version == [body: Writers, lines: Lines, labels: Labels]

\* extract_inline_metadata on a file whose header has the labels h: the last label
\* line counts, and the lines of the body come after the header's.
Loaded(w, lines, h) ==
  [body |-> w, lines |-> lines, labels |-> IF lines = "none" THEN h ELSE <<w, "text">>]

\* What the endpoints make of labels that are missing.
Said(v) == IF v.labels = Unlabelled THEN Defaults ELSE v.labels

\* The documents of the repository have lines of full width.
Seed == Loaded("seed", "full", Unlabelled)

\* validate_document_metadata: what build_qdrant_payload lets into the collection.
Indexable(f, v) == f[2] # "pdf" /\ v.labels # Unlabelled

Ids == {Slot[d] : d \in Docs} \X (1..MaxSize)
Empty == [source |-> <<"none", "none">>]
NoRow == [file |-> <<"none", "none">>]
NoFiles == [f \in Files |-> Absent]
Blank == [held |-> NoFiles, labels |-> Defaults, todo |-> {}]

OfOneFile == {"create", "upload", "update", "ingest", "delete"}
OfDirectory == {"refresh", "load"}
ASSUME AsksAssumption ==
  \A a \in Asks : /\ a.kind \in OfOneFile \cup OfDirectory /\ a.doc \in Docs
                  /\ a.suffix \in Suffixes /\ a.lines \in Lines

Doc(c) == ask[c].doc
File(c) == IF ask[c].kind = "upload" THEN <<Doc(c), ask[c].suffix>> ELSE Md(Doc(c))

\* A call is late when it has ended and Java may yet do what it asked, landed when
\* Java has.
Ended == {"done", "refused", "failed", "late", "landed"}
Running(c) == pc[c] \notin Ended \cup {"start"}

Init ==
  /\ files = [f \in Files |-> IF f = Md(Seeded) THEN Seed ELSE Absent]
  /\ points = [i \in Ids |-> Empty]
  /\ shelf = {Md(Seeded)}
  /\ catalog = [d \in Docs |-> NoRow]
  /\ ask = [c \in Calls |-> NotAsked]
  /\ pc = [c \in Calls |-> "start"]
  /\ mem = [c \in Calls |-> Blank]
  /\ mixed = {} /\ lapses = [c \in Calls |-> {}] /\ fresh = {}

(***************************************************************************)
(* Steps of a call.                                                        *)
(***************************************************************************)
Sources(a) == IF a.kind \in OfDirectory THEN Docs ELSE {a.doc}
Conflict(a, b) == \E d \in Sources(a), e \in Sources(b) : Slot[d] = Slot[e]

\* A request arrives and is about to take its first step.
Arrive(c, a) ==
  LET others == {d \in Calls : Running(d) /\ Conflict(a, ask[d])} IN
  /\ pc[c] = "start"
  /\ ask' = [ask EXCEPT ![c] = a]
  /\ mixed' = mixed \cup others \cup (IF others = {} THEN {} ELSE {c})
  /\ fresh' = {d \in fresh : ~Conflict(a, ask[d])}
  /\ UNCHANGED lapses

Goto(c, l) == pc' = [pc EXCEPT ![c] = l]
Keep(c, l, m) == Goto(c, l) /\ mem' = [mem EXCEPT ![c] = m]
Answer(c) ==
  /\ Keep(c, "done", Blank)
  /\ fresh' = IF c \in mixed THEN fresh ELSE fresh \cup {c}
  /\ UNCHANGED <<mixed, lapses>>
\* An exception: the endpoint answers with an error.
Raise(c) == Keep(c, "failed", Blank) /\ UNCHANGED history

Exists(f) == files[f] # Absent
Put(f, v) == files' = [files EXCEPT ![f] = v]
Without(f) == [i \in Ids |-> IF points[i].source = f THEN Empty ELSE points[i]]

\* build_qdrant_point: the id of a chunk leaves the suffix of its file out.
Chunks(c, f) == {Slot[f[1]]} \X (1..ask[c].size)
Chunk(f, v) == [source |-> f, version |-> v]

-----------------------------------------------------------------------------
\* create_knowledge_base_document: whatever file there is, is written over.
Create(c, a) ==
  /\ a.kind = "create" /\ Arrive(c, a)
  /\ Put(Md(a.doc), Loaded(c, a.lines, <<c, "form">>))
  /\ Keep(c, "remove", [Blank EXCEPT !.labels = <<c, "form">>])
  /\ UNCHANGED <<points, shelf, catalog>>

\* upload_knowledge_base_document: refused when the id has a file already.
CheckUpload(c, a) ==
  /\ a.kind = "upload" /\ Arrive(c, a)
  /\ Goto(c, IF \E s \in Suffixes : Exists(<<a.doc, s>>) THEN "refused" ELSE "write")
  /\ UNCHANGED <<files, points, shelf, catalog, mem>>

WriteUpload(c) ==
  /\ pc[c] = "write" /\ ask[c].kind = "upload"
  /\ Put(File(c), Loaded(c, ask[c].lines, Unlabelled))
  /\ Goto(c, "parse")
  /\ UNCHANGED <<points, shelf, catalog, ask, mem, history>>

\* The row will say what the form says, the chunks what the text says.
Parse(c) ==
  /\ pc[c] = "parse" /\ Exists(File(c))
  /\ Keep(c, "remove", [Blank EXCEPT !.labels = <<c, "form">>])
  /\ UNCHANGED <<files, points, shelf, catalog, ask, history>>

\* A file that cannot be loaded is taken away again.
ParseFails(c) ==
  /\ pc[c] = "parse" /\ ("parse" \in Faults \/ ~Exists(File(c)))
  /\ Put(File(c), Absent) /\ Raise(c)
  /\ UNCHANGED <<points, shelf, catalog, ask>>

\* update_knowledge_base_document reads the file ...
CheckUpdate(c, a) ==
  /\ a.kind = "update" /\ Arrive(c, a)
  /\ IF Exists(Md(a.doc))
       THEN Keep(c, "write", [Blank EXCEPT !.held = [NoFiles EXCEPT ![Md(a.doc)] = files[Md(a.doc)]]])
       ELSE Goto(c, "refused") /\ UNCHANGED mem
  /\ UNCHANGED <<files, points, shelf, catalog>>

\* _strip_document_boilerplate knows label lines of half width only.
Stripped(lines) == IF lines = "half" THEN "none" ELSE lines

Given(c) == IF "labels" \in ask[c].gives THEN <<c, "form">> ELSE Said(mem[c].held[File(c)])

\* ... and writes it anew, with what the request does not give as it was.
Updated(c) ==
  LET old == mem[c].held[File(c)] IN
  IF "body" \in ask[c].gives THEN Loaded(c, ask[c].lines, Given(c))
                              ELSE Loaded(old.body, Stripped(old.lines), Given(c))

WriteUpdate(c) ==
  /\ pc[c] = "write" /\ ask[c].kind = "update"
  /\ Put(File(c), Updated(c))
  /\ Keep(c, "remove", [Blank EXCEPT !.labels = Given(c)])
  /\ UNCHANGED <<points, shelf, catalog, ask, history>>

\* ingest_knowledge_base_document.
CheckIngest(c, a) ==
  /\ a.kind = "ingest" /\ Arrive(c, a)
  /\ IF Exists(Md(a.doc))
       THEN Keep(c, "remove", [Blank EXCEPT !.labels = Said(files[Md(a.doc)])])
       ELSE Goto(c, "refused") /\ UNCHANGED mem
  /\ UNCHANGED <<files, points, shelf, catalog>>

\* delete_knowledge_base_document knows markdown files only.
CheckDelete(c, a) ==
  /\ a.kind = "delete" /\ Arrive(c, a)
  /\ Goto(c, IF Exists(Md(a.doc)) THEN "remove" ELSE "unregister")
  /\ UNCHANGED <<files, points, shelf, catalog, mem>>

\* ingest_knowledge_base: the whole directory is loaded and embedded first.
LoadDirectory(c, a) ==
  /\ a.kind \in OfDirectory /\ Arrive(c, a)
  /\ Keep(c, IF a.kind = "refresh" THEN "purge" ELSE "upsert",
       [Blank EXCEPT !.held = files, !.todo = {f \in Files : Exists(f)}])
  /\ UNCHANGED <<files, points, shelf, catalog>>

-----------------------------------------------------------------------------
\* Fault seeded for NothingOrphaned: the file goes, its points are not asked for.
RemoveNothing(c) ==
  /\ pc[c] = "remove" /\ Goto(c, "removeKb")
  /\ UNCHANGED <<files, points, shelf, catalog, ask, mem, history>>

\* _delete_source_from_all_collections, first the default collection ...
Remove(c) ==
  /\ pc[c] = "remove" /\ Goto(c, "removeKb")
  /\ points' = Without(File(c))
  /\ UNCHANGED <<files, shelf, catalog, ask, mem, history>>

AfterRemoval(c) == IF ask[c].kind = "delete" THEN "unlink" ELSE "purge"
Purging(c) == [mem EXCEPT ![c].todo = {File(c)}]

\* ... then the others.
RemoveKb(c) ==
  /\ pc[c] = "removeKb" /\ Goto(c, AfterRemoval(c))
  /\ shelf' = shelf \ {File(c)} /\ mem' = Purging(c)
  /\ UNCHANGED <<files, points, catalog, ask, history>>

\* A removal that fails is passed over; Qdrant may have done it all the same.
RemoveFails(c) ==
  /\ "qdrant" \in Faults /\ pc[c] \in {"remove", "removeKb"}
  /\ lapses' = [lapses EXCEPT ![c] = @ \cup {pc[c]}]
  /\ IF pc[c] = "remove"
       THEN /\ points' \in {points, Without(File(c))} /\ UNCHANGED <<shelf, mem>>
            /\ Goto(c, "removeKb")
       ELSE /\ shelf' \in {shelf, shelf \ {File(c)}} /\ UNCHANGED points
            /\ Goto(c, AfterRemoval(c)) /\ mem' = Purging(c)
  /\ UNCHANGED <<files, catalog, ask, mixed, fresh>>

Purged(c) == IF ask[c].kind = "refresh" THEN "upsert" ELSE "load"

\* Fault seeded for SavedIsServed: update_single_document only adds.
PurgeNothing(c) ==
  /\ pc[c] = "purge" /\ Goto(c, Purged(c))
  /\ UNCHANGED <<files, points, shelf, catalog, ask, mem, history>>

\* update_single_document and refresh_directory_in_vector_store take the old
\* points of each source away, and give up when they cannot.
Purge(c) ==
  /\ pc[c] = "purge"
  /\ \/ \E f \in mem[c].todo :
          /\ points' = Without(f)
          /\ mem' = [mem EXCEPT ![c].todo = @ \ {f}]
          /\ UNCHANGED pc
     \/ /\ mem[c].todo = {}
        /\ Goto(c, Purged(c)) /\ UNCHANGED <<points, mem>>
  /\ UNCHANGED <<files, shelf, catalog, ask, history>>

\* ingest_single_document loads the file as it is now and embeds it.
Load(c) ==
  /\ pc[c] = "load" /\ Exists(File(c))
  /\ Keep(c, "upsert",
       [mem[c] EXCEPT !.held = [NoFiles EXCEPT ![File(c)] = files[File(c)]]])
  /\ UNCHANGED <<files, points, shelf, catalog, ask, history>>

\* Without an API key there is no model for the embeddings, when the file is
\* written already; or the file has gone, or embedding its chunks fails.
LoadFails(c) ==
  /\ \/ "embedding" \in Faults /\ pc[c] = "remove" /\ ask[c].kind # "delete"
     \/ pc[c] = "load" /\ ("embedding" \in Faults \/ ~Exists(File(c)))
  /\ Raise(c)
  /\ UNCHANGED <<files, points, shelf, catalog, ask>>

Held(c) == {f \in Files : mem[c].held[f] # Absent}

\* Fault seeded for TypeOK: build_qdrant_payload does not validate.
AllAccepted(c) == c \in Calls

AllIndexable(c) == \A f \in Held(c) : Indexable(f, mem[c].held[f])

\* Of the files with the same point ids the last one stays (the directory is
\* sorted, which orders the files of a slot somehow).
Lasting(c) ==
  {W \in SUBSET Held(c) :
     /\ \A f \in Held(c) : \E g \in W : Slot[g[1]] = Slot[f[1]]
     /\ \A f, g \in W : Slot[g[1]] = Slot[f[1]] => g = f}

\* The points of all files, in one request.
Upserted(c) ==
  {[i \in Ids |->
      IF \E f \in W : i \in Chunks(c, f)
        THEN LET f == CHOOSE f \in W : i \in Chunks(c, f) IN Chunk(f, mem[c].held[f])
        ELSE points[i]] : W \in Lasting(c)}

Upsert(c) ==
  /\ pc[c] = "upsert" /\ AllIndexable(c)
  /\ points' \in Upserted(c)
  /\ IF ask[c].kind \in OfDirectory
       THEN Answer(c)
       ELSE Keep(c, "register", [mem[c] EXCEPT !.held = NoFiles]) /\ UNCHANGED history
  /\ UNCHANGED <<files, shelf, catalog, ask>>

\* One chunk that build_qdrant_payload does not accept stops them all.
UpsertRefused(c) ==
  /\ pc[c] = "upsert" /\ ~AllIndexable(c)
  /\ Raise(c)
  /\ UNCHANGED <<files, points, shelf, catalog, ask>>

\* Qdrant fails, or its answer is lost.  (Embeddings that fail end a call on the
\* directory as the first request to Qdrant does.)
QdrantFails(c) ==
  /\ "qdrant" \in Faults /\ pc[c] \in {"purge", "upsert"}
  /\ \/ UNCHANGED points
     \/ pc[c] = "purge" /\ \E f \in mem[c].todo : points' = Without(f)
     \/ pc[c] = "upsert" /\ AllIndexable(c) /\ points' \in Upserted(c)
  /\ Raise(c)
  /\ UNCHANGED <<files, shelf, catalog, ask>>

-----------------------------------------------------------------------------
\* KnowledgeDocumentServiceImpl.upsertDocument.
Row(c) == [file |-> File(c), labels |-> mem[c].labels, chunks |-> ask[c].size]
Register(c) ==
  /\ pc[c] = "register"
  /\ catalog' = [catalog EXCEPT ![Doc(c)] = Row(c)]
  /\ Answer(c)
  /\ UNCHANGED <<files, points, shelf, ask>>

\* Fault seeded for RowHasFile: a delete that had a file ends with it.
UnlinkAndReturn(c) ==
  /\ pc[c] = "unlink"
  /\ IF Exists(File(c)) THEN Put(File(c), Absent) /\ Answer(c) ELSE Raise(c) /\ UNCHANGED files
  /\ UNCHANGED <<points, shelf, catalog, ask>>

Unlink(c) ==
  /\ pc[c] = "unlink"
  /\ IF Exists(File(c))
       THEN Put(File(c), Absent) /\ Keep(c, "unregister", Blank) /\ UNCHANGED history
       ELSE Raise(c) /\ UNCHANGED files
  /\ UNCHANGED <<points, shelf, catalog, ask>>

Unregister(c) ==
  /\ pc[c] = "unregister"
  /\ catalog' = [catalog EXCEPT ![Doc(c)] = NoRow]
  /\ Answer(c)
  /\ UNCHANGED <<files, points, shelf, ask>>

\* Fault seeded for DeletedIsGone: what Java answers is not looked at.
JavaFailsQuietly(c) ==
  /\ "java" \in Faults /\ pc[c] \in {"register", "unregister"}
  /\ Answer(c)
  /\ UNCHANGED <<files, points, shelf, catalog, ask>>

\* Java fails, or no answer comes in time: then the request may still be on its way.
JavaFails(c) ==
  /\ "java" \in Faults /\ pc[c] \in {"register", "unregister"}
  /\ Raise(c) \/ (Goto(c, "late") /\ UNCHANGED <<mem, history>>)
  /\ UNCHANGED <<files, points, shelf, catalog, ask>>

\* Java does what a call asked that was given up: at once, or after others were
\* answered, which are not fresh any more.  (It need not happen.)
JavaLands(c) ==
  /\ pc[c] = "late"
  /\ catalog' = [catalog EXCEPT ![Doc(c)] = IF ask[c].kind = "delete" THEN NoRow ELSE Row(c)]
  /\ Keep(c, "landed", Blank)
  /\ fresh' = {d \in fresh : Doc(d) # Doc(c) \/ ask[d].kind \in OfDirectory}
  /\ UNCHANGED <<files, points, shelf, ask, mixed, lapses>>

\* The service dies; its calls end where they are, what they have sent to Java not.
Crash ==
  /\ "crash" \in Faults /\ \E c \in Calls : Running(c)
  /\ \E sent \in SUBSET {c \in Calls : pc[c] \in {"register", "unregister"}} :
       pc' = [c \in Calls |-> IF c \in sent THEN "late"
                              ELSE IF Running(c) THEN "failed" ELSE pc[c]]
  /\ mem' = [c \in Calls |-> IF pc'[c] = "late" THEN mem[c] ELSE Blank]
  /\ UNCHANGED <<files, points, shelf, catalog, ask, history>>

First(c, a) ==
  \/ Create(c, a) \/ CheckUpload(c, a) \/ CheckUpdate(c, a) \/ CheckIngest(c, a)
  \/ CheckDelete(c, a) \/ LoadDirectory(c, a)
Later(c) ==
  \/ WriteUpload(c) \/ Parse(c) \/ ParseFails(c) \/ WriteUpdate(c)
  \/ Remove(c) \/ RemoveKb(c) \/ RemoveFails(c) \/ Purge(c) \/ Load(c) \/ LoadFails(c)
  \/ Upsert(c) \/ UpsertRefused(c) \/ QdrantFails(c)
  \/ Register(c) \/ Unlink(c) \/ Unregister(c) \/ JavaFails(c) \/ JavaLands(c)

Next == (\E c \in Calls, a \in Asks : First(c, a)) \/ (\E c \in Calls : Later(c)) \/ Crash

Spec == Init /\ [][Next]_vars

-----------------------------------------------------------------------------
(* Properties.                                                             *)

\* What is stored is well formed: the collection holds labelled chunks of
\* texts only, and a row names a file of its document.
TypeOK ==
  /\ files \in [Files -> Version \cup {Absent}]
  /\ \A i \in Ids : points[i] # Empty =>
       points[i].source \in Files /\ points[i].version \in Version
                                  /\ Indexable(points[i].source, points[i].version)
  /\ shelf \subseteq Files
  /\ \A d \in Docs : catalog[d] # NoRow => catalog[d].file \in {d} \X Suffixes
  /\ fresh \subseteq {c \in Calls : pc[c] = "done"}

\* Every chunk of the file as it is, and nothing else under its name.
Served(c, f) ==
  \A i \in Ids : IF i \in Chunks(c, f) THEN points[i] = Chunk(f, files[f]) ELSE points[i].source # f

\* What a row with these labels says of a version of its file, by the kind of call
\* that wrote it: an ingestion asks the file, an update or a creation asks the form,
\* which agrees with it if the body has no label lines (left) of its own.  An
\* upload's row has the labels of its form.
RowAgrees(kind, v, labels) ==
  kind = "upload" \/ (kind # "ingest" /\ v.lines # "none") \/ labels = Said(v)

\* A call that was answered OK, and overlapped with none on the same chunk ids,
\* leaves file, collection and catalogue in agreement, whatever calls before it
\* had failed on, until another one touches them; chunks stay elsewhere only if their
\* removal failed.  Chunks have the labels of the file, the row as far as RowAgrees.
SavedIsServed ==
  \A c \in fresh :
    /\ ask[c].kind \in OfOneFile \ {"delete"} =>
         LET f == File(c) IN
         /\ Exists(f) /\ Served(c, f)
         /\ catalog[Doc(c)].file = f /\ catalog[Doc(c)].chunks = ask[c].size
         /\ RowAgrees(ask[c].kind, files[f], catalog[Doc(c)].labels)
         /\ f \in shelf => "removeKb" \in lapses[c]
    /\ ask[c].kind = "refresh" =>
         \A f \in Files :
           Exists(f) /\ (\A g \in Files : Exists(g) /\ Slot[g[1]] = Slot[f[1]] => g = f)
             => Served(c, f)

\* Why the stores may disagree on a document: calls that overlapped.
Mixed(d) == \E c \in mixed : d \in Sources(ask[c])
Deleting(c, d) == ask[c].kind = "delete" /\ Doc(c) = d

\* After a delete that was answered OK nothing is left of the markdown file:
\* not the file, not the row, and none of its chunks, unless their removal
\* failed in this or an earlier, unfinished delete.
DeletedIsGone ==
  \A c \in fresh : ask[c].kind = "delete" =>
    LET f == Md(Doc(c))
        Missed(l) == Mixed(Doc(c)) \/ \E d \in Calls : Deleting(d, Doc(c)) /\ l \in lapses[d]
    IN /\ ~Exists(f) /\ catalog[Doc(c)] = NoRow
       /\ (\E i \in Ids : points[i].source = f) => Missed("remove")

\* An answer is never given from a document that is gone: chunks outlive their
\* file only when calls overlapped or a delete passed over a failed removal.
NothingOrphaned ==
  \A f \in Files :
    (~Exists(f) /\ \E i \in Ids : points[i].source = f) =>
      \/ Mixed(f[1])
      \/ \E c \in Calls : Deleting(c, f[1]) /\ "remove" \in lapses[c]

\* Calls whose row is not what their documents are: a delete after its unlink, a save
\* whose row came after its end.
Astray(c, d) ==
  /\ ask[c].kind \in OfOneFile /\ Doc(c) = d
  /\ IF ask[c].kind = "delete" THEN pc[c] \in {"unregister", "failed", "late"}
                                ELSE pc[c] = "landed"

\* Java lists no document without a file, but while a delete of it is between
\* the two or ended there, or when a save was given up and Java put the row in later.
RowHasFile ==
  \A d \in Docs :
    (catalog[d] # NoRow /\ ~Exists(catalog[d].file)) =>
      Mixed(d) \/ \E c \in Calls : Astray(c, d)
=============================================================================
