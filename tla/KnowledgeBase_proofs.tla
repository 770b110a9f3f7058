------------------------ MODULE KnowledgeBase_proofs ------------------------
(***************************************************************************)
(* Proofs about KnowledgeBase, for any number of requests of any kind on any *)
(* documents, whatever their chunk ids.  A call that overlapped with no other *)
(* has the files, points and row of its documents for itself: Own says what   *)
(* holds of them at each of its steps, Kept what holds once it was answered.  *)
(***************************************************************************)
EXTENDS KnowledgeBase, TLAPS

\* What is stored.
Points == {Empty} \cup {p \in [source: Files, version: Version] : Indexable(p.source, p.version)}

Stored ==
  /\ files \in [Files -> Version \cup {Absent}]
  /\ points \in [Ids -> Points]
  /\ shelf \subseteq Files
  /\ DOMAIN catalog = Docs
  /\ \A d \in Docs : catalog[d] # NoRow => catalog[d].file \in {d} \X Suffixes

\* The requests.
Places == {"start", "write", "parse", "remove", "removeKb", "purge", "load", "upsert",
           "register", "unlink", "unregister"} \cup Ended
Memory == [held: [Files -> Version \cup {Absent}], labels: Labels, todo: SUBSET Files]

Asked ==
  /\ ask \in [Calls -> Asks \cup {NotAsked}]
  /\ pc \in [Calls -> Places]
  /\ mem \in [Calls -> Memory]
  /\ mixed \subseteq Calls
  /\ lapses \in [Calls -> SUBSET {"remove", "removeKb"}]
  /\ fresh \subseteq {c \in Calls : pc[c] = "done"}

\* Which requests come to which step, and what they hold there.
Saves == OfOneFile \ {"delete"}

Control(c) ==
  /\ pc[c] = "start" => ask[c] = NotAsked /\ c \notin mixed
  /\ pc[c] # "start" => ask[c] \in Asks
  /\ pc[c] = "write" => ask[c].kind \in {"upload", "update"}
  /\ pc[c] = "parse" => ask[c].kind = "upload"
  /\ pc[c] \in {"remove", "removeKb"} => ask[c].kind \in OfOneFile
  /\ pc[c] = "purge" => ask[c].kind \in Saves \cup {"refresh"}
  /\ pc[c] \in {"load", "register"} => ask[c].kind \in Saves
  /\ pc[c] = "upsert" => ask[c].kind \in Saves \cup OfDirectory
  /\ pc[c] \in {"unlink", "unregister"} => ask[c].kind = "delete"
  /\ pc[c] = "late" => ask[c].kind \in OfOneFile
  /\ pc[c] = "write" /\ ask[c].kind = "update" => mem[c].held[File(c)] \in Version
  /\ \A f \in Files : mem[c].held[f] # Absent \/ f \in mem[c].todo =>
       pc[c] # "start" /\ f[1] \in Sources(ask[c])

\* Calls that meet on a slot know it.
Apart ==
  /\ \A c, d \in Calls :
       Running(c) /\ Running(d) /\ c # d /\ Conflict(ask[c], ask[d]) => c \in mixed
  /\ \A c \in fresh, d \in Calls : Running(d) => ~Conflict(ask[c], ask[d])

-----------------------------------------------------------------------------
RowExcused(d) == Mixed(d) \/ \E c \in Calls : Astray(c, d)
ChunksExcused(d) ==
  Mixed(d) \/ \E c \in Calls : Deleting(c, d) /\ "remove" \in lapses[c]

NoChunks(f) == \A i \in Ids : points[i].source # f
Unshelved(c) == File(c) \in shelf => "removeKb" \in lapses[c]

\* RowHasFile and NothingOrphaned, of one document and of one file.
RowSound(d) == catalog[d] # NoRow /\ ~Exists(catalog[d].file) => RowExcused(d)
ChunksSound(f) == ~Exists(f) => NoChunks(f) \/ ChunksExcused(f[1])

\* An upload found no file of its document.
Begun(c) ==
  ask[c].kind = "upload" /\ pc[c] \in {"write", "parse"} =>
    /\ catalog[Doc(c)] # NoRow => RowExcused(Doc(c))
    /\ NoChunks(File(c)) \/ ChunksExcused(Doc(c))

\* What a request that saves a document has done to it.
Saving(c) ==
  ask[c].kind \in Saves =>
    /\ pc[c] \in {"remove", "removeKb", "purge", "load", "upsert", "register"} =>
         /\ Exists(File(c))
         /\ RowAgrees(ask[c].kind, files[File(c)], mem[c].labels)
    /\ pc[c] \in {"purge", "load", "upsert", "register"} => Unshelved(c)
    /\ pc[c] = "purge" => File(c) \in mem[c].todo \/ NoChunks(File(c))
    /\ pc[c] \in {"load", "upsert"} => NoChunks(File(c))
    /\ pc[c] = "upsert" => \A g \in Files : mem[c].held[g] = IF g = File(c) THEN files[g] ELSE Absent
    /\ pc[c] = "register" => Served(c, File(c))

Removing(c) ==
  ask[c].kind = "delete" =>
    /\ pc[c] \in {"removeKb", "unlink"} => NoChunks(File(c)) \/ "remove" \in lapses[c]
    /\ pc[c] = "unregister" => ~Exists(File(c))

Refreshing(c) ==
  ask[c].kind \in OfDirectory =>
    /\ pc[c] \in {"purge", "upsert"} => \A f \in Files : mem[c].held[f] = files[f]
    /\ ask[c].kind = "refresh" /\ pc[c] \in {"purge", "upsert"} =>
         \A f \in Files : Exists(f) => (pc[c] = "purge" /\ f \in mem[c].todo) \/ NoChunks(f)

Own(c) == Begun(c) /\ Saving(c) /\ Removing(c) /\ Refreshing(c)

\* What a request that was answered has left.
Saved(c) ==
  ask[c].kind \in Saves =>
    /\ Exists(File(c)) /\ Served(c, File(c))
    /\ catalog[Doc(c)].file = File(c) /\ catalog[Doc(c)].chunks = ask[c].size
    /\ RowAgrees(ask[c].kind, files[File(c)], catalog[Doc(c)].labels)
    /\ Unshelved(c)

Alone(f) == \A g \in Files : Exists(g) /\ Slot[g[1]] = Slot[f[1]] => g = f
Refreshed(c) ==
  ask[c].kind = "refresh" => \A f \in Files : Exists(f) /\ Alone(f) => Served(c, f)

Gone(c) == ask[c].kind = "delete" => ~Exists(File(c)) /\ catalog[Doc(c)] = NoRow

Kept(c) == Saved(c) /\ Refreshed(c) /\ Gone(c)

Inv ==
  /\ Stored /\ Asked /\ Apart
  /\ \A c \in Calls : Control(c)
  /\ \A d \in Docs : RowSound(d)
  /\ \A f \in Files : ChunksSound(f)
  /\ \A c \in Calls : Running(c) /\ c \notin mixed => Own(c)
  /\ \A c \in fresh : Kept(c)

-----------------------------------------------------------------------------
(* What is stored, in terms of the files.                                   *)

LEMMA FileTypes ==
  /\ \A f \in Files : f[1] \in Docs /\ f[2] \in Suffixes /\ f = <<f[1], f[2]>> /\ f # Empty.source
  /\ \A d \in Docs, s \in Suffixes : <<d, s>> \in Files /\ <<d, s>>[1] = d
  /\ Empty.source[2] = "none"
  BY DEF Files, Suffixes, Empty

LEMMA AbsentTypes == Absent \notin Version
  BY DEF Absent, Version

LEMMA IdTypes == \A i \in Ids : \E d \in Docs : i[1] = Slot[d]
  BY DEF Ids

\* The request of a call and its file.
LEMMA AskTypes ==
  ASSUME NEW c \in Calls, ask[c] \in Asks
  PROVE  /\ ask[c].kind \in OfOneFile \cup OfDirectory
         /\ Doc(c) \in Docs /\ File(c) \in Files /\ File(c)[1] = Doc(c)
         /\ ask[c].kind # "upload" => File(c) = Md(Doc(c))
         /\ ask[c].kind \in OfOneFile => Sources(ask[c]) = {Doc(c)}
         /\ ask[c].kind \in OfDirectory => Sources(ask[c]) = Docs
         /\ Sources(ask[c]) \subseteq Docs /\ Doc(c) \in Sources(ask[c])
  BY AsksAssumption DEF Doc, File, Md, Files, Suffixes, Sources, OfOneFile, OfDirectory

\* A text has the labels of its header unless it has label lines.
LEMMA LoadedTypes ==
  ASSUME NEW w \in Writers, NEW lines \in Lines, NEW h \in Labels
  PROVE  /\ Loaded(w, lines, h) \in Version
         /\ \A k : k # "ingest" /\ h # Unlabelled => RowAgrees(k, Loaded(w, lines, h), h)
<1>1. Loaded(w, lines, h) \in Version
  BY DEF Loaded, Version, Labels
<1>2. ASSUME h # Unlabelled, lines = "none" PROVE h = Said(Loaded(w, lines, h))
  BY <1>2 DEF Loaded, Said
<1>3. QED
  BY <1>1, <1>2 DEF Loaded, RowAgrees

LEMMA SaidTypes ==
  ASSUME NEW v \in Version
  PROVE  /\ Said(v) \in Labels /\ Said(v) # Unlabelled
         /\ \A k : RowAgrees(k, v, Said(v))
  BY DEF Said, Version, Labels, Defaults, Unlabelled, RowAgrees

LEMMA FormTypes == \A c \in Calls : <<c, "form">> \in Labels /\ <<c, "form">> # Unlabelled
  BY DEF Labels, Writers, Unlabelled

\* What a step of a call may touch: the documents S, their files, their slots.
Foot(S) ==
  /\ \A f \in Files : f[1] \notin S => files'[f] = files[f] /\ (f \in shelf' <=> f \in shelf)
  /\ \A d \in Docs \ S : catalog'[d] = catalog[d]
  /\ \A i \in Ids :
       \/ points'[i] = points[i]
       \/ /\ points[i].source[1] \in S \/ \E d \in S : i[1] = Slot[d]
          /\ points'[i] = Empty \/ points'[i].source[1] \in S

\* What it leaves as it was.
LEMMA Elsewhere ==
  ASSUME Stored, NEW S \in SUBSET Docs, Foot(S), NEW f \in Files, f[1] \notin S
  PROVE  /\ files'[f] = files[f] /\ (Exists(f)' <=> Exists(f)) /\ (f \in shelf' <=> f \in shelf)
         /\ catalog'[f[1]] = catalog[f[1]]
         /\ NoChunks(f) => NoChunks(f)'
<1>1. f[1] \in Docs
  BY FileTypes
<1>2. files'[f] = files[f] /\ (f \in shelf' <=> f \in shelf) /\ catalog'[f[1]] = catalog[f[1]]
  BY <1>1 DEF Foot
<1>3. ASSUME NoChunks(f), NEW i \in Ids PROVE points'[i].source # f
  <2>1. points[i].source # f
    BY <1>3 DEF NoChunks
  <2>2. CASE points'[i] = points[i]
    BY <2>1, <2>2
  <2>3. CASE points'[i] = Empty
    BY <2>3, FileTypes
  <2>4. CASE points'[i].source[1] \in S
    BY <2>4
  <2>5. QED
    BY <2>2, <2>3, <2>4 DEF Foot
<1>4. QED
  BY <1>2, <1>3 DEF NoChunks, Exists

LEMMA ElsewhereServed ==
  ASSUME Stored, NEW S \in SUBSET Docs, Foot(S), NEW c \in Calls, ask[c]' = ask[c], NEW f \in Files,
         \A d \in S : Slot[d] # Slot[f[1]], Served(c, f), Exists(f)
  PROVE  Served(c, f)'
<1>1. f[1] \notin S /\ files'[f] = files[f]
  BY Elsewhere
<1>2. ASSUME NEW i \in Ids, i \in Chunks(c, f) PROVE points'[i] = Chunk(f, files'[f])
  <2>1. points[i] = Chunk(f, files[f]) /\ i[1] = Slot[f[1]]
    BY <1>2 DEF Served, Chunks
  <2>2. points[i].source = f
    BY <2>1 DEF Chunk
  <2>3. points'[i] = points[i]
    BY <1>1, <2>1, <2>2 DEF Foot
  <2>4. QED
    BY <1>1, <2>1, <2>3
<1>3. ASSUME NEW i \in Ids, i \notin Chunks(c, f) PROVE points'[i].source # f
  <2>1. points[i].source # f
    BY <1>3 DEF Served
  <2>2. QED
    BY <1>1, <2>1, FileTypes DEF Foot
<1>4. Chunks(c, f)' = Chunks(c, f)
  BY DEF Chunks
<1>5. QED
  BY <1>2, <1>3, <1>4 DEF Served

-----------------------------------------------------------------------------
(* A step of one call, seen from the others.                                *)

Still(d) == ask'[d] = ask[d] /\ pc'[d] = pc[d] /\ mem'[d] = mem[d] /\ lapses'[d] = lapses[d]

Step(c) ==
  /\ \A d \in Calls \ {c} : Still(d)
  /\ pc[c] \notin Ended /\ pc'[c] # "start" /\ (pc[c] # "start" => ask'[c] = ask[c])
  /\ lapses[c] \subseteq lapses'[c]
  /\ mixed \subseteq mixed' /\ \A d \in mixed' \ mixed : d = c \/ Running(d)
  /\ \A d \in Calls \ {c} :
       Running(d) => ~Conflict(ask'[c], ask[d]) \/ (c \in mixed' /\ d \in mixed')
  /\ \A d \in fresh' \ {c} : d \in fresh /\ ~Conflict(ask'[c], ask[d])
  /\ c \in fresh' => c \notin mixed'

LEMMA ConflictSymmetric == \A a, b : Conflict(a, b) => Conflict(b, a)
  BY DEF Conflict

\* An excuse stays, but a delete that has taken the row away needs none.
LEMMA ExcusesStay ==
  ASSUME Inv, NEW c \in Calls, Step(c), NEW d \in Docs
  PROVE  /\ Mixed(d) => Mixed(d)'
         /\ ChunksExcused(d) => ChunksExcused(d)'
         /\ pc[c] # "unregister" \/ pc'[c] \in {"failed", "late"} \/ d # Doc(c) =>
              (RowExcused(d) => RowExcused(d)')
<1>1. \A e \in Calls : ask[e] # NotAsked => ask'[e] = ask[e]
  BY DEF Step, Still, Inv, Control
<1>2. \A e \in mixed : ask'[e] = ask[e]
  BY <1>1 DEF Step, Still, Inv, Control, Asked
<1>3. Mixed(d) => Mixed(d)'
  BY <1>2 DEF Mixed, Step
<1>4. \A e \in Calls : Deleting(e, d) => Deleting(e, d)' /\ ask[e] # NotAsked
  BY <1>1 DEF Deleting, Doc, NotAsked
<1>5. \A e \in Calls : lapses[e] \subseteq lapses'[e]
  BY DEF Step, Still
<1>6. ChunksExcused(d) => ChunksExcused(d)'
  BY <1>3, <1>4, <1>5 DEF ChunksExcused
<1>7. ASSUME pc[c] # "unregister" \/ pc'[c] \in {"failed", "late"} \/ d # Doc(c), RowExcused(d)
      PROVE  RowExcused(d)'
  <2>1. CASE Mixed(d)
    BY <1>3, <2>1 DEF RowExcused
  <2>2. ASSUME NEW e \in Calls, Astray(e, d) PROVE RowExcused(d)'
    <3>1. ask[e].kind \in OfOneFile /\ d = Doc(e)
      BY <2>2 DEF Astray
    <3>2. ask'[e] = ask[e] /\ Doc(e)' = Doc(e)
      BY <1>1, <3>1 DEF OfOneFile, NotAsked, Doc
    <3>3. CASE ask[e].kind = "delete"
      <4>1. pc[e] \in {"unregister", "failed", "late"}
        BY <2>2, <3>3 DEF Astray
      <4>2. pc'[e] \in {"unregister", "failed", "late"}
        BY <1>7, <3>1, <4>1 DEF Step, Still, Ended
      <4>3. Astray(e, d)'
        BY <3>1, <3>2, <3>3, <4>2 DEF Astray
      <4>4. QED
        BY <4>3 DEF RowExcused
    <3>4. CASE ask[e].kind # "delete"
      <4>1. pc[e] = "landed" /\ pc'[e] = "landed"
        BY <2>2, <3>4 DEF Astray, Step, Still, Ended
      <4>2. Astray(e, d)'
        BY <3>1, <3>2, <3>4, <4>1 DEF Astray
      <4>3. QED
        BY <4>2 DEF RowExcused
    <3>5. QED
      BY <3>3, <3>4
  <2>3. QED
    BY <1>7, <2>1, <2>2 DEF RowExcused
<1>8. QED
  BY <1>3, <1>6, <1>7

\* What a call has of its own is not touched on other slots.
LEMMA OwnKept ==
  ASSUME Inv, NEW S \in SUBSET Docs, Foot(S), NEW d \in Calls, Still(d), ask[d] \in Asks,
         \A e \in S, g \in Sources(ask[d]) : Slot[e] # Slot[g],
         RowExcused(Doc(d)) => RowExcused(Doc(d))',
         ChunksExcused(Doc(d)) => ChunksExcused(Doc(d))'
  PROVE  /\ Own(d) => Own(d)'
         /\ Kept(d) => Kept(d)'
<1>1. PICK f \in Files : f = File(d) /\ f[1] = Doc(d)
  BY AskTypes
<1>2. PICK e \in Docs : e = Doc(d)
  BY AskTypes
<1>3. /\ ask'[d] = ask[d] /\ pc'[d] = pc[d] /\ mem'[d] = mem[d] /\ lapses'[d] = lapses[d]
      /\ File(d)' = f /\ Doc(d)' = e /\ f[1] = e
  BY <1>1, <1>2 DEF Still, File, Doc, Md
<1>4. e \notin S /\ (\A g \in S : Slot[g] # Slot[e])
  BY <1>2, AskTypes
<1>5. /\ files'[f] = files[f] /\ (Exists(f)' <=> Exists(f)) /\ (f \in shelf' <=> f \in shelf)
      /\ catalog'[e] = catalog[e] /\ (NoChunks(f) => NoChunks(f)')
      /\ Served(d, f) /\ Exists(f) => Served(d, f)'
  BY <1>3, <1>4, Elsewhere, ElsewhereServed DEF Inv
<1>6. Begun(d) => Begun(d)'
  <2>1. (NoChunks(File(d)) => NoChunks(File(d))') /\ catalog'[Doc(d)'] = catalog[Doc(d)]
    BY <1>1, <1>2, <1>3, <1>5 DEF NoChunks
  <2>2. QED
    BY <1>3, <2>1 DEF Begun
<1>7. ASSUME ask[d].kind \in OfDirectory
      PROVE  /\ \A g \in Files : files'[g] = files[g] /\ (Exists(g)' <=> Exists(g))
             /\ \A g \in Files : NoChunks(g) => NoChunks(g)'
             /\ \A g \in Files : Served(d, g) /\ Exists(g) => Served(d, g)'
  <2>1. ASSUME NEW g \in Files PROVE g[1] \notin S /\ (\A h \in S : Slot[h] # Slot[g[1]])
    BY <1>7, AskTypes, FileTypes
  <2>2. QED
    BY <1>3, <2>1, Elsewhere, ElsewhereServed DEF Inv
<1>8. Saving(d) => Saving(d)'
  <2>1. ASSUME Saving(d), ask[d].kind \in Saves PROVE Saving(d)'
    <3>1. pc[d] = "upsert" => \A g \in Files : mem[d].held[g] = IF g = f THEN files[g] ELSE Absent
      BY <1>1, <2>1 DEF Saving
    <3>2. pc[d] = "upsert" => \A g \in Files : mem[d].held[g] = IF g = f THEN files'[g] ELSE Absent
      BY <1>5, <3>1
    <3>3. /\ pc[d] \in {"remove", "removeKb", "purge", "load", "upsert", "register"} =>
               Exists(f) /\ RowAgrees(ask[d].kind, files[f], mem[d].labels)
          /\ pc[d] \in {"purge", "load", "upsert", "register"} =>
               (f \in shelf => "removeKb" \in lapses[d])
          /\ pc[d] = "purge" => f \in mem[d].todo \/ NoChunks(f)
          /\ pc[d] \in {"load", "upsert"} => NoChunks(f)
          /\ pc[d] = "register" => Served(d, f)
      BY <1>1, <2>1 DEF Saving, Unshelved
    <3>4. /\ pc'[d] \in {"remove", "removeKb", "purge", "load", "upsert", "register"} =>
               Exists(f)' /\ RowAgrees(ask'[d].kind, files'[f], mem'[d].labels)
          /\ pc'[d] \in {"purge", "load", "upsert", "register"} =>
               (f \in shelf' => "removeKb" \in lapses'[d])
          /\ pc'[d] = "purge" => f \in mem'[d].todo \/ NoChunks(f)'
          /\ pc'[d] \in {"load", "upsert"} => NoChunks(f)'
          /\ pc'[d] = "register" => Served(d, f)'
      BY <1>3, <1>5, <3>3
    <3>5. /\ Exists(f)' = Exists(File(d))' /\ NoChunks(f)' = NoChunks(File(d))'
          /\ Served(d, f)' = Served(d, File(d))'
      BY <1>3 DEF Exists, NoChunks, Served, Chunks, Chunk
    <3>6. QED
      BY <1>3, <3>2, <3>4, <3>5 DEF Saving, Unshelved
  <2>2. QED
    BY <1>3, <2>1 DEF Saving
<1>9. Removing(d) => Removing(d)'
  <2>1. /\ Exists(File(d)) = Exists(f) /\ NoChunks(File(d)) = NoChunks(f)
        /\ Exists(f)' = Exists(File(d))' /\ NoChunks(f)' = NoChunks(File(d))'
    BY <1>1, <1>3 DEF Exists, NoChunks
  <2>2. QED
    BY <1>3, <1>5, <2>1 DEF Removing
<1>10. Refreshing(d) => Refreshing(d)'
  BY <1>3, <1>7 DEF Refreshing
<1>11. Saved(d) => Saved(d)'
  <2>1. ASSUME Saved(d), ask[d].kind \in Saves PROVE Saved(d)'
    <3>1. /\ Exists(f) /\ Served(d, f)
          /\ catalog[e].file = f /\ catalog[e].chunks = ask[d].size
          /\ RowAgrees(ask[d].kind, files[f], catalog[e].labels)
          /\ f \in shelf => "removeKb" \in lapses[d]
      BY <1>1, <1>2, <2>1 DEF Saved, Unshelved
    <3>2. /\ Exists(f)' /\ Served(d, f)'
          /\ catalog'[e].file = f /\ catalog'[e].chunks = ask'[d].size
          /\ RowAgrees(ask'[d].kind, files'[f], catalog'[e].labels)
          /\ f \in shelf' => "removeKb" \in lapses'[d]
      BY <1>3, <1>5, <3>1
    <3>3. Exists(f)' = Exists(File(d))' /\ Served(d, f)' = Served(d, File(d))'
      BY <1>3 DEF Exists, Served, Chunks, Chunk
    <3>4. QED
      BY <1>3, <3>2, <3>3 DEF Saved, Unshelved
  <2>2. QED
    BY <1>3, <2>1 DEF Saved
<1>12. Refreshed(d) => Refreshed(d)'
  <2>1. ASSUME Refreshed(d), ask[d].kind = "refresh" PROVE Refreshed(d)'
    <3>1. \A g \in Files : Alone(g)' => Alone(g)
      BY <1>7, <2>1 DEF Alone, OfDirectory
    <3>2. QED
      BY <1>3, <1>7, <2>1, <3>1 DEF Refreshed, OfDirectory
  <2>2. QED
    BY <1>3, <2>1 DEF Refreshed
<1>13. Gone(d) => Gone(d)'
  <2>1. Exists(File(d)) = Exists(f) /\ Exists(f)' = Exists(File(d))'
    BY <1>1, <1>3 DEF Exists
  <2>2. QED
    BY <1>2, <1>3, <1>5, <2>1 DEF Gone
<1>14. QED
  BY <1>6, <1>8, <1>9, <1>10, <1>11, <1>12, <1>13 DEF Own, Kept

\* What a step leaves of the call's own documents.
Local(c) ==
  /\ \A d \in Sources(ask[c]) : RowSound(d)
  /\ \A f \in Files : f[1] \in Sources(ask[c]) => ChunksSound(f)
  /\ Running(c) => Own(c)
  /\ c \in fresh => Kept(c)

\* A step of a call keeps the invariant when it keeps to its documents, and what it
\* leaves of them is in order unless it overlapped with another call.
LEMMA StepKeeps ==
  ASSUME Inv, NEW c \in Calls, Step(c), Asked', Stored', Control(c)', pc[c] # "done",
         pc[c] = "unregister" /\ pc'[c] \notin {"failed", "late"} => catalog'[Doc(c)] = NoRow,
         Foot(Sources(ask'[c])), c \notin mixed' => Local(c)'
  PROVE  Inv'
<1>1. PICK S \in SUBSET Docs : S = Sources(ask'[c])
  <2>1. pc'[c] # "start"
    BY DEF Step
  <2>2. ask'[c] \in Asks
    BY <2>1 DEF Control
  <2>3. Sources(ask'[c]) \subseteq Docs
    BY <2>2, AsksAssumption DEF Sources
  <2>4. QED
    BY <2>3
<1>2. \A d \in Calls \ {c} : ask[d] \in Asks \/ pc[d] = "start"
  BY DEF Inv, Control
<1>3. ASSUME c \in mixed', NEW d \in Docs, d \in S PROVE Mixed(d)'
  BY <1>1, <1>3 DEF Mixed
<1>4. Apart'
  <2>1. \A d \in Calls : Running(d)' => d = c \/ Running(d)
    BY DEF Step, Still, Running
  <2>2. \A d \in Calls \ {c} : ask'[d] = ask[d] /\ (Running(d)' <=> Running(d))
    BY DEF Step, Still, Running
  <2>3. ASSUME NEW d \in Calls, NEW e \in Calls,
               Running(d)', Running(e)', d # e, Conflict(ask'[d], ask'[e])
        PROVE  d \in mixed'
    <3>1. CASE d # c /\ e # c
      <4>1. d \in mixed
        BY <2>2, <2>3, <3>1 DEF Inv, Apart
      <4>2. QED
        BY <4>1 DEF Step
    <3>2. CASE d = c
      BY <2>2, <2>3, <3>2 DEF Step
    <3>3. CASE e = c
      <4>1. Conflict(ask'[c], ask[d]) /\ Running(d)
        BY <2>2, <2>3, <3>3, ConflictSymmetric
      <4>2. QED
        BY <2>3, <3>3, <4>1 DEF Step
    <3>4. QED
      BY <3>1, <3>2, <3>3
  <2>4. ASSUME NEW d \in fresh', NEW e \in Calls, Running(e)' PROVE ~Conflict(ask'[d], ask'[e])
    <3>1. d \in Calls /\ ~Running(d)'
      BY DEF Asked, Running, Ended
    <3>2. CASE d = c
      <4>1. e # c /\ c \notin mixed'
        BY <2>4, <3>1, <3>2 DEF Step
      <4>2. QED
        BY <2>2, <2>4, <3>2, <4>1 DEF Step
    <3>3. CASE d # c
      <4>1. d \in fresh /\ ~Conflict(ask'[c], ask[d]) /\ ask'[d] = ask[d]
        BY <2>2, <3>1, <3>3 DEF Step
      <4>2. CASE e = c
        BY <4>1, <4>2, ConflictSymmetric
      <4>3. CASE e # c
        BY <2>2, <2>4, <4>1, <4>3 DEF Inv, Apart
      <4>4. QED
        BY <4>2, <4>3
    <3>4. QED
      BY <3>2, <3>3
  <2>5. QED
    BY <2>3, <2>4 DEF Apart
<1>5. \A d \in Calls : Control(d)'
  <2>1. ASSUME NEW d \in Calls, d # c PROVE Control(d)'
    <3>1. Still(d) /\ Control(d)
      BY <2>1 DEF Step, Inv
    <3>2. pc[d] = "start" /\ d \notin mixed => d \notin mixed'
      BY <2>1 DEF Step, Running
    <3>3. File(d)' = File(d)
      BY <3>1 DEF Still, File, Doc
    <3>4. QED
      BY <3>1, <3>2, <3>3 DEF Still, Control
  <2>2. QED
    BY <2>1
<1>6. \A d \in Docs : RowSound(d)'
  <2>1. ASSUME NEW d \in Docs PROVE RowSound(d)'
    <3>1. CASE d \in S
      <4>1. CASE c \in mixed'
        BY <1>3, <3>1, <4>1 DEF RowSound, RowExcused
      <4>2. CASE c \notin mixed'
        BY <1>1, <3>1, <4>2 DEF Local
      <4>3. QED
        BY <4>1, <4>2
    <3>2. CASE d \notin S
      <4>1. catalog'[d] = catalog[d]
        BY <1>1, <3>2 DEF Foot
      <4>2. ASSUME catalog[d] # NoRow PROVE Exists(catalog[d].file)' <=> Exists(catalog[d].file)
        <5>1. PICK f \in Files : f = catalog[d].file /\ f[1] = d
          BY <4>2, FileTypes DEF Inv, Stored
        <5>2. Exists(f)' <=> Exists(f)
          BY <1>1, <3>2, <5>1, Elsewhere DEF Inv
        <5>3. f = catalog'[d].file
          BY <4>1, <5>1
        <5>4. QED
          BY <5>1, <5>2, <5>3 DEF Exists
      <4>3. RowExcused(d) => RowExcused(d)'
        <5>1. pc[c] = "unregister" => d # Doc(c)
          BY <1>1, <3>2, AskTypes DEF Inv, Control, Step
        <5>2. QED
          BY <5>1, ExcusesStay
      <4>4. QED
        BY <4>1, <4>2, <4>3 DEF Inv, RowSound, Exists
    <3>3. QED
      BY <3>1, <3>2
  <2>2. QED
    BY <2>1
<1>7. \A f \in Files : ChunksSound(f)'
  <2>1. ASSUME NEW f \in Files PROVE ChunksSound(f)'
    <3>1. f[1] \in Docs
      BY FileTypes
    <3>2. CASE f[1] \in S
      <4>1. CASE c \in mixed'
        BY <1>3, <3>1, <3>2, <4>1 DEF ChunksSound, ChunksExcused
      <4>2. CASE c \notin mixed'
        BY <1>1, <3>2, <4>2 DEF Local
      <4>3. QED
        BY <4>1, <4>2
    <3>3. CASE f[1] \notin S
      <4>1. (Exists(f)' <=> Exists(f)) /\ (NoChunks(f) => NoChunks(f)')
        BY <1>1, <3>3, Elsewhere DEF Inv
      <4>2. ChunksExcused(f[1]) => ChunksExcused(f[1])'
        BY <3>1, ExcusesStay
      <4>3. QED
        BY <4>1, <4>2 DEF Inv, ChunksSound
    <3>4. QED
      BY <3>2, <3>3
  <2>2. QED
    BY <2>1
<1>8. ASSUME NEW d \in Calls, d # c, ask[d] \in Asks, ~Conflict(ask'[c], ask[d])
      PROVE  (Own(d) => Own(d)') /\ (Kept(d) => Kept(d)')
  <2>1. \A e \in S, g \in Sources(ask[d]) : Slot[e] # Slot[g]
    BY <1>1, <1>8 DEF Conflict
  <2>2. Doc(d) \in Docs /\ Doc(d) \in Sources(ask[d])
    BY <1>8, AskTypes
  <2>3. Doc(d)' = Doc(d)
    BY <1>8 DEF Step, Still, Doc
  <2>4. PICK e \in Docs : e = Doc(d)
    BY <2>2
  <2>5. pc[c] = "unregister" => e # Doc(c)
    <3>1. ASSUME pc[c] = "unregister" PROVE Doc(c) \in S
      BY <1>1, <3>1, AskTypes DEF Inv, Control, Step
    <3>2. QED
      BY <2>1, <2>2, <2>4, <3>1
  <2>6. /\ RowExcused(Doc(d)) => RowExcused(Doc(d))'
        /\ ChunksExcused(Doc(d)) => ChunksExcused(Doc(d))'
    <3>1. (RowExcused(e) => RowExcused(e)') /\ (ChunksExcused(e) => ChunksExcused(e)')
      BY <2>5, ExcusesStay
    <3>2. e = Doc(d) /\ e = Doc(d)'
      BY <2>3, <2>4
    <3>3. QED
      BY <3>1, <3>2 DEF RowExcused, ChunksExcused, Mixed, Deleting, Astray
  <2>7. Still(d)
    BY <1>8 DEF Step
  <2>8. QED
    BY <1>1, <1>8, <2>1, <2>6, <2>7, OwnKept
<1>9. \A d \in Calls : Running(d)' /\ d \notin mixed' => Own(d)'
  <2>1. ASSUME NEW d \in Calls, d # c, Running(d)', d \notin mixed' PROVE Own(d)'
    <3>1. Running(d) /\ d \notin mixed /\ ~Conflict(ask'[c], ask[d])
      BY <2>1 DEF Step, Still, Running
    <3>2. Own(d) /\ ask[d] \in Asks
      <4>1. Own(d)
        BY <3>1 DEF Inv
      <4>2. pc[d] # "start"
        BY <3>1 DEF Running
      <4>3. QED
        BY <1>2, <2>1, <4>1, <4>2
    <3>3. QED
      BY <1>8, <2>1, <3>1, <3>2
  <2>2. QED
    BY <2>1 DEF Local
<1>10. \A d \in fresh' : Kept(d)'
  <2>1. ASSUME NEW d \in fresh', d # c PROVE Kept(d)'
    <3>1. d \in fresh /\ ~Conflict(ask'[c], ask[d])
      BY <2>1 DEF Step
    <3>2. d \in Calls /\ ask[d] \in Asks /\ Kept(d)
      BY <1>2, <2>1, <3>1 DEF Inv, Asked
    <3>3. QED
      BY <1>8, <2>1, <3>1, <3>2
  <2>2. QED
    BY <2>1 DEF Local, Step
<1>11. QED
  BY <1>4, <1>5, <1>6, <1>7, <1>9, <1>10 DEF Inv

-----------------------------------------------------------------------------
(* How a call moves.                                                       *)

LEMMA BlankTypes == Blank \in Memory /\ (\A f \in Files : Blank.held[f] = Absent) /\ Blank.todo = {}
  BY DEF Blank, Memory, NoFiles, Labels

\* A later step of a call that does not answer yet.
LEMMA LaterMoves ==
  ASSUME Inv, NEW c \in Calls, Running(c), UNCHANGED <<ask, mixed, fresh>>,
         NEW l \in Places, l \notin {"start", "done"}, Goto(c, l),
         mem' \in [Calls -> Memory], \A d \in Calls \ {c} : mem'[d] = mem[d],
         lapses' \in [Calls -> SUBSET {"remove", "removeKb"}],
         \A d \in Calls \ {c} : lapses'[d] = lapses[d], lapses[c] \subseteq lapses'[c]
  PROVE  Step(c) /\ Asked' /\ pc'[c] = l /\ ask[c] \in Asks /\ c \notin fresh
<1>1. /\ pc' = [pc EXCEPT ![c] = l] /\ pc \in [Calls -> Places]
      /\ fresh \subseteq {d \in Calls : pc[d] = "done"}
  BY DEF Goto, Inv, Asked
<1>2. /\ pc'[c] = l /\ \A d \in Calls \ {c} : pc'[d] = pc[d]
      /\ pc[c] \notin Ended /\ pc[c] # "start" /\ pc[c] # "done" /\ c \notin fresh
  BY <1>1 DEF Running, Ended
<1>3. Asked'
  BY <1>1, <1>2 DEF Inv, Asked
<1>4. \A d \in Calls \ {c} : Running(d) => ~Conflict(ask'[c], ask[d]) \/ (c \in mixed' /\ d \in mixed')
  BY ConflictSymmetric DEF Inv, Apart
<1>5. \A d \in fresh' \ {c} : d \in fresh /\ ~Conflict(ask'[c], ask[d])
  BY ConflictSymmetric DEF Inv, Apart
<1>6. Step(c)
  BY <1>1, <1>2, <1>4, <1>5 DEF Step, Still, Inv, Asked
<1>7. ask[c] \in Asks
  BY <1>2 DEF Inv, Control
<1>8. QED
  BY <1>2, <1>3, <1>6, <1>7

\* The step that answers, and one that raises an exception.
LEMMA AnswerMoves ==
  ASSUME Inv, NEW c \in Calls, Running(c), UNCHANGED ask, Answer(c)
  PROVE  /\ Step(c) /\ Asked' /\ pc'[c] = "done" /\ ask[c] \in Asks /\ mem'[c] = Blank
         /\ mixed' = mixed /\ lapses' = lapses
<1>1. /\ pc' = [pc EXCEPT ![c] = "done"] /\ mem' = [mem EXCEPT ![c] = Blank]
      /\ fresh' = IF c \in mixed THEN fresh ELSE fresh \cup {c}
      /\ UNCHANGED <<mixed, lapses>>
  BY DEF Answer, Keep, Goto
<1>2. /\ pc \in [Calls -> Places] /\ mem \in [Calls -> Memory]
      /\ fresh \subseteq {d \in Calls : pc[d] = "done"}
      /\ lapses \in [Calls -> SUBSET {"remove", "removeKb"}]
  BY DEF Inv, Asked
<1>3. /\ pc'[c] = "done" /\ mem'[c] = Blank
      /\ \A d \in Calls \ {c} : pc'[d] = pc[d] /\ mem'[d] = mem[d]
      /\ pc[c] \notin Ended /\ pc[c] # "start" /\ c \notin fresh
  BY <1>1, <1>2 DEF Running, Ended
<1>4. Asked'
  BY <1>1, <1>2, <1>3, BlankTypes DEF Inv, Asked, Places, Ended
<1>5. \A d \in Calls \ {c} : Running(d) => ~Conflict(ask'[c], ask[d]) \/ (c \in mixed' /\ d \in mixed')
  BY <1>1, ConflictSymmetric DEF Inv, Apart
<1>6. \A d \in fresh' \ {c} : d \in fresh /\ ~Conflict(ask'[c], ask[d])
  BY <1>1, ConflictSymmetric DEF Inv, Apart
<1>7. Step(c)
  BY <1>1, <1>2, <1>3, <1>5, <1>6 DEF Step, Still
<1>8. ask[c] \in Asks
  BY <1>3 DEF Inv, Control
<1>9. QED
  BY <1>1, <1>3, <1>4, <1>7, <1>8

LEMMA KeepMoves ==
  ASSUME Inv, NEW c \in Calls, Running(c), UNCHANGED <<ask, mixed, lapses, fresh>>,
         NEW l \in Places, l \notin {"start", "done"}, NEW m \in Memory, Keep(c, l, m)
  PROVE  /\ Step(c) /\ Asked' /\ pc'[c] = l /\ mem'[c] = m /\ ask[c] \in Asks /\ c \notin fresh
<1>1. Goto(c, l) /\ mem' = [mem EXCEPT ![c] = m] /\ mem \in [Calls -> Memory]
      /\ lapses \in [Calls -> SUBSET {"remove", "removeKb"}]
  BY DEF Keep, Inv, Asked
<1>2. mem' \in [Calls -> Memory] /\ mem'[c] = m /\ \A d \in Calls \ {c} : mem'[d] = mem[d]
  BY <1>1
<1>3. QED
  BY <1>1, <1>2, LaterMoves

\* The first step of a request.
LEMMA FirstMoves ==
  ASSUME Inv, NEW c \in Calls, NEW a \in Asks, Arrive(c, a),
         NEW l \in Places, l \notin {"start", "done"}, Goto(c, l),
         mem' \in [Calls -> Memory], \A d \in Calls \ {c} : mem'[d] = mem[d]
  PROVE  /\ Step(c) /\ Asked' /\ pc'[c] = l /\ ask'[c] = a /\ pc[c] = "start" /\ c \notin fresh'
         /\ UNCHANGED lapses
<1> DEFINE others == {d \in Calls : Running(d) /\ Conflict(a, ask[d])}
<1>1. /\ pc[c] = "start" /\ ask' = [ask EXCEPT ![c] = a]
      /\ mixed' = mixed \cup others \cup (IF others = {} THEN {} ELSE {c})
      /\ fresh' = {d \in fresh : ~Conflict(a, ask[d])} /\ UNCHANGED lapses
      /\ pc' = [pc EXCEPT ![c] = l]
  BY DEF Arrive, Goto
<1>2. /\ pc \in [Calls -> Places] /\ fresh \subseteq {d \in Calls : pc[d] = "done"}
      /\ ask \in [Calls -> Asks \cup {NotAsked}] /\ mixed \subseteq Calls
      /\ lapses \in [Calls -> SUBSET {"remove", "removeKb"}]
  BY DEF Inv, Asked
<1>3. /\ pc'[c] = l /\ ask'[c] = a /\ c \notin fresh
      /\ \A d \in Calls \ {c} : pc'[d] = pc[d] /\ ask'[d] = ask[d]
  BY <1>1, <1>2
<1>4. Asked'
  <2>1. ask' \in [Calls -> Asks \cup {NotAsked}] /\ pc' \in [Calls -> Places] /\ mixed' \subseteq Calls
    BY <1>1, <1>2
  <2>2. fresh' \subseteq {d \in Calls : pc'[d] = "done"}
    BY <1>1, <1>2, <1>3
  <2>3. QED
    BY <1>1, <1>2, <2>1, <2>2 DEF Asked
<1>5. \A d \in Calls \ {c} : Running(d) => ~Conflict(ask'[c], ask[d]) \/ (c \in mixed' /\ d \in mixed')
  BY <1>1, <1>3
<1>6. Step(c)
  BY <1>1, <1>2, <1>3, <1>5 DEF Step, Still, Ended
<1>7. QED
  BY <1>1, <1>3, <1>4, <1>6

-----------------------------------------------------------------------------
(* What the accesses to the stores do.                                     *)

LEMMA NothingTouched ==
  ASSUME Stored, UNCHANGED <<files, points, shelf, catalog>>, NEW S
  PROVE  Stored' /\ Foot(S)
  BY DEF Stored, Foot

LEMMA PutEffect ==
  ASSUME Stored, NEW f \in Files, NEW v \in Version \cup {Absent}, Put(f, v),
         UNCHANGED <<points, shelf, catalog>>, NEW S, f[1] \in S
  PROVE  /\ Stored' /\ Foot(S)
         /\ files'[f] = v /\ \A g \in Files \ {f} : files'[g] = files[g]
<1>1. files' = [files EXCEPT ![f] = v] /\ files \in [Files -> Version \cup {Absent}]
  BY DEF Put, Stored
<1>2. files' \in [Files -> Version \cup {Absent}] /\ files'[f] = v
      /\ \A g \in Files \ {f} : files'[g] = files[g]
  BY <1>1
<1>3. QED
  BY <1>2 DEF Stored, Foot

LEMMA WithoutEffect ==
  ASSUME Stored, NEW f \in Files, points' = Without(f),
         UNCHANGED <<files, shelf, catalog>>, NEW S, f[1] \in S
  PROVE  /\ Stored' /\ Foot(S)
         /\ NoChunks(f)' /\ \A g \in Files : NoChunks(g) => NoChunks(g)'
<1>1. /\ points' = [i \in Ids |-> IF points[i].source = f THEN Empty ELSE points[i]]
      /\ points \in [Ids -> Points]
  BY DEF Without, Stored
<1>2. points' \in [Ids -> Points]
  BY <1>1 DEF Points
<1>3. \A i \in Ids : IF points[i].source = f THEN points'[i] = Empty ELSE points'[i] = points[i]
  BY <1>1
<1>4. NoChunks(f)' /\ \A g \in Files : NoChunks(g) => NoChunks(g)'
  BY <1>3, FileTypes DEF NoChunks
<1>5. Foot(S)
  BY <1>3 DEF Foot
<1>6. QED
  BY <1>2, <1>4, <1>5 DEF Stored

LEMMA ShelfEffect ==
  ASSUME Stored, NEW f \in Files, shelf' = shelf \ {f}, UNCHANGED <<files, points, catalog>>,
         NEW S, f[1] \in S
  PROVE  Stored' /\ Foot(S)
  BY DEF Stored, Foot

LEMMA RowEffect ==
  ASSUME Stored, NEW d \in Docs, NEW row, row # NoRow => row.file \in {d} \X Suffixes,
         catalog' = [catalog EXCEPT ![d] = row], UNCHANGED <<files, points, shelf>>,
         NEW S, d \in S
  PROVE  /\ Stored' /\ Foot(S)
         /\ catalog'[d] = row
<1>1. DOMAIN catalog' = Docs /\ catalog'[d] = row /\ \A e \in Docs \ {d} : catalog'[e] = catalog[e]
  BY DEF Stored
<1>2. QED
  BY <1>1 DEF Stored, Foot

\* A step that takes no file away, adds chunks of files there are and leaves the
\* rows alone.
LEMMA SoundStays ==
  ASSUME Inv, NEW c \in Calls, Step(c), c \in fresh' => Kept(c)', catalog' = catalog,
         pc[c] # "unregister" \/ pc'[c] \in {"failed", "late"},
         \A f \in Files : /\ Exists(f) => Exists(f)'
                          /\ NoChunks(f) => NoChunks(f)' \/ Exists(f)',
         Running(c)' => Own(c)', ask'[c] \in Asks
  PROVE  Local(c)'
<1>1. \A d \in Docs : RowSound(d)'
  <2>1. ASSUME NEW d \in Docs PROVE RowSound(d)'
    <3>1. RowSound(d) /\ (RowExcused(d) => RowExcused(d)')
      BY ExcusesStay DEF Inv
    <3>2. catalog[d] # NoRow => catalog[d].file \in Files
      BY FileTypes DEF Inv, Stored
    <3>3. QED
      BY <3>1, <3>2 DEF RowSound, Exists
  <2>2. QED
    BY <2>1
<1>2. \A f \in Files : ChunksSound(f)'
  <2>1. ASSUME NEW f \in Files PROVE ChunksSound(f)'
    <3>1. ChunksSound(f) /\ (ChunksExcused(f[1]) => ChunksExcused(f[1])')
      BY ExcusesStay, FileTypes DEF Inv
    <3>2. QED
      BY <3>1 DEF ChunksSound
  <2>2. QED
    BY <2>1
<1>3. Sources(ask'[c]) \subseteq Docs
  BY AsksAssumption DEF Sources
<1>4. QED
  BY <1>1, <1>2, <1>3 DEF Local

\* A call is about the same file at every step.
LEMMA SameFile ==
  ASSUME NEW c \in Calls, ask'[c] = ask[c]
  PROVE  File(c)' = File(c) /\ Doc(c)' = Doc(c)
  BY DEF File, Doc

-----------------------------------------------------------------------------
(* Every step of a call keeps the invariant.                                *)

\* An exception ends a call where it is.
LEMMA RaiseMoves ==
  ASSUME Inv, NEW c \in Calls, Running(c), Raise(c), UNCHANGED ask
  PROVE  /\ Step(c) /\ Asked' /\ Control(c)' /\ pc'[c] = "failed" /\ ~Running(c)'
         /\ ask[c] \in Asks /\ pc[c] # "done" /\ c \notin fresh' /\ UNCHANGED history
<1>1. Keep(c, "failed", Blank) /\ UNCHANGED <<ask, mixed, lapses, fresh>>
  BY DEF Raise, history
<1>2. /\ Step(c) /\ Asked' /\ pc'[c] = "failed" /\ mem'[c] = Blank /\ ask[c] \in Asks /\ c \notin fresh
  BY <1>1, KeepMoves, BlankTypes DEF Places, Ended
<1>3. Control(c)' /\ ~Running(c)'
  BY <1>1, <1>2, BlankTypes DEF Control, Running, Ended
<1>4. QED
  BY <1>1, <1>2, <1>3 DEF Running, Ended, history

LEMMA RaiseInv ==
  ASSUME Inv, NEW c \in Calls, Running(c), Raise(c), UNCHANGED <<ask, files, points, shelf, catalog>>
  PROVE  Inv'
<1>1. /\ Step(c) /\ Asked' /\ Control(c)' /\ pc'[c] = "failed" /\ ~Running(c)'
      /\ ask[c] \in Asks /\ pc[c] # "done" /\ c \notin fresh'
  BY RaiseMoves
<1>2. Stored' /\ Foot(Sources(ask'[c]))
  BY NothingTouched DEF Inv
<1>3. Local(c)'
  BY <1>1, SoundStays DEF Exists, NoChunks
<1>4. QED
  BY <1>1, <1>2, <1>3, StepKeeps

LEMMA ParseInv == ASSUME Inv, NEW c \in Calls, Parse(c) PROVE Inv'
<1> DEFINE m == [Blank EXCEPT !.labels = <<c, "form">>]
<1>1. /\ pc[c] = "parse" /\ Exists(File(c)) /\ Keep(c, "remove", m)
      /\ UNCHANGED <<files, points, shelf, catalog, ask, mixed, lapses, fresh>>
  BY DEF Parse, history
<1>2. m \in Memory /\ (\A f \in Files : m.held[f] = Absent) /\ m.todo = {}
  BY BlankTypes, FormTypes DEF Memory, Blank
<1> HIDE DEF m
<1>3. Running(c) /\ pc[c] # "done"
  BY <1>1 DEF Running, Ended
<1>4. /\ Step(c) /\ Asked' /\ pc'[c] = "remove" /\ mem'[c] = m /\ ask[c] \in Asks /\ c \notin fresh
  BY <1>1, <1>2, <1>3, KeepMoves DEF Places
<1>5. Stored' /\ Foot(Sources(ask'[c]))
  BY <1>1, NothingTouched DEF Inv
<1>6. ask'[c] = ask[c] /\ ask[c].kind = "upload"
  BY <1>1 DEF Inv, Control
<1>7. Control(c)'
  BY <1>2, <1>4, <1>6 DEF Control, OfOneFile
<1>8. Own(c)'
  BY <1>1, <1>4, <1>6, SameFile
     DEF Own, Begun, Saving, Removing, Refreshing, Exists, OfDirectory, RowAgrees
<1>9. Local(c)'
  BY <1>1, <1>4, <1>6, <1>8, SoundStays DEF Exists, NoChunks
<1>10. QED
  BY <1>1, <1>3, <1>4, <1>5, <1>7, <1>9, StepKeeps

LEMMA WriteUploadInv == ASSUME Inv, NEW c \in Calls, WriteUpload(c) PROVE Inv'
<1> DEFINE v == Loaded(c, ask[c].lines, Unlabelled)
<1>1. /\ pc[c] = "write" /\ ask[c].kind = "upload" /\ Put(File(c), v) /\ Goto(c, "parse")
      /\ UNCHANGED <<points, shelf, catalog, ask, mem, mixed, lapses, fresh>>
  BY DEF WriteUpload, history
<1>2. Running(c) /\ pc[c] # "done"
  BY <1>1 DEF Running, Ended
<1>3. mem \in [Calls -> Memory] /\ lapses \in [Calls -> SUBSET {"remove", "removeKb"}]
  BY DEF Inv, Asked
<1>4. Step(c) /\ Asked' /\ pc'[c] = "parse" /\ ask[c] \in Asks /\ c \notin fresh
  BY <1>1, <1>2, <1>3, LaterMoves DEF Places
<1>5. v \in Version
  BY <1>4, AsksAssumption, LoadedTypes DEF Labels, Writers
<1> HIDE DEF v
<1>6. PICK f \in Files : f = File(c) /\ f[1] = Doc(c) /\ f[1] \in Sources(ask'[c])
  BY <1>1, <1>4, AskTypes
<1>7. /\ Stored' /\ Foot(Sources(ask'[c]))
      /\ files'[f] = v /\ \A g \in Files \ {f} : files'[g] = files[g]
  BY <1>1, <1>5, <1>6, PutEffect DEF Inv
<1>8. Control(c)'
  BY <1>1, <1>4 DEF Inv, Control
<1>9. /\ \A g \in Files : Exists(g) => Exists(g)'
      /\ \A g \in Files : NoChunks(g) => NoChunks(g)'
  BY <1>1, <1>5, <1>7, AbsentTypes DEF Exists, NoChunks
<1>10. c \notin mixed => Own(c)'
  <2>1. ASSUME c \notin mixed PROVE Begun(c)'
    <3>1. Own(c)
      BY <1>2, <2>1 DEF Inv
    <3>2. /\ catalog[Doc(c)] # NoRow => RowExcused(Doc(c))
          /\ NoChunks(File(c)) \/ ChunksExcused(Doc(c))
      BY <1>1, <3>1 DEF Own, Begun
    <3>3. PICK d \in Docs : d = Doc(c)
      BY <1>4, AskTypes
    <3>4. (RowExcused(d) => RowExcused(d)') /\ (ChunksExcused(d) => ChunksExcused(d)')
      BY <1>1, <1>4, ExcusesStay
    <3>5. Doc(c)' = d /\ File(c)' = f
      BY <1>1, <1>6, <3>3, SameFile
    <3>6. catalog'[d] # NoRow => RowExcused(d)'
      BY <1>1, <3>2, <3>3, <3>4
    <3>7. NoChunks(f)' \/ ChunksExcused(d)'
      BY <1>6, <1>9, <3>2, <3>3, <3>4
    <3>8. /\ catalog'[Doc(c)'] # NoRow => RowExcused(Doc(c))'
          /\ NoChunks(File(c))' \/ ChunksExcused(Doc(c))'
      BY <3>5, <3>6, <3>7 DEF RowExcused, ChunksExcused, NoChunks, Mixed, Deleting, Astray
    <3>9. QED
      BY <3>8 DEF Begun
  <2>2. Saving(c)' /\ Removing(c)' /\ Refreshing(c)'
    BY <1>1, <1>4 DEF Saving, Removing, Refreshing, OfDirectory
  <2>3. QED
    BY <2>1, <2>2 DEF Own
<1>11. c \notin mixed => Local(c)'
  BY <1>1, <1>4, <1>9, <1>10, SoundStays
<1>12. QED
  BY <1>1, <1>2, <1>4, <1>7, <1>8, <1>11, StepKeeps

LEMMA ParseFailsInv == ASSUME Inv, NEW c \in Calls, ParseFails(c) PROVE Inv'
<1>1. /\ pc[c] = "parse" /\ Put(File(c), Absent) /\ Raise(c)
      /\ UNCHANGED <<points, shelf, catalog, ask>>
  BY DEF ParseFails
<1>2. Running(c)
  BY <1>1 DEF Running, Ended
<1>3. /\ Step(c) /\ Asked' /\ Control(c)' /\ pc'[c] = "failed" /\ ~Running(c)'
      /\ ask[c] \in Asks /\ pc[c] # "done" /\ c \notin fresh' /\ ask[c].kind = "upload"
  BY <1>1, <1>2, RaiseMoves DEF Inv, Control
<1>4. PICK f \in Files : f = File(c) /\ f[1] = Doc(c) /\ f[1] \in Sources(ask'[c])
  BY <1>1, <1>3, AskTypes
<1>5. /\ Stored' /\ Foot(Sources(ask'[c]))
      /\ files'[f] = Absent /\ \A g \in Files \ {f} : files'[g] = files[g]
  BY <1>1, <1>4, PutEffect DEF Inv
<1>6. PICK d \in Docs : d = Doc(c)
  BY <1>3, AskTypes
<1>7. Sources(ask'[c]) = {d}
  BY <1>1, <1>3, <1>6, AskTypes DEF OfOneFile
<1>8. ASSUME c \notin mixed' PROVE Local(c)'
  <2>1. Own(c)
    BY <1>1, <1>2, <1>8 DEF Inv, Raise, history
  <2>2. /\ catalog[d] # NoRow => RowExcused(d)
        /\ NoChunks(f) \/ ChunksExcused(d)
    BY <1>1, <1>3, <1>4, <1>6, <2>1 DEF Own, Begun
  <2>3. (RowExcused(d) => RowExcused(d)') /\ (ChunksExcused(d) => ChunksExcused(d)')
    BY <1>1, <1>3, ExcusesStay
  <2>4. RowSound(d)'
    BY <1>1, <2>2, <2>3 DEF RowSound
  <2>5. ASSUME NEW g \in Files, g[1] = d PROVE ChunksSound(g)'
    <3>1. NoChunks(g) => NoChunks(g)'
      BY <1>1 DEF NoChunks
    <3>2. CASE g = f
      BY <2>2, <2>3, <2>5, <3>1, <3>2 DEF ChunksSound
    <3>3. CASE g # f
      BY <1>5, <2>3, <2>5, <3>1, <3>3 DEF Inv, ChunksSound, Exists
    <3>4. QED
      BY <3>2, <3>3
  <2>6. QED
    BY <1>3, <1>7, <2>4, <2>5 DEF Local
<1>9. QED
  BY <1>1, <1>3, <1>5, <1>8, StepKeeps

LEMMA WriteUpdateInv == ASSUME Inv, NEW c \in Calls, WriteUpdate(c) PROVE Inv'
<1> DEFINE v == Updated(c)
           m == [Blank EXCEPT !.labels = Given(c)]
<1>1. /\ pc[c] = "write" /\ ask[c].kind = "update" /\ Put(File(c), v) /\ Keep(c, "remove", m)
      /\ UNCHANGED <<points, shelf, catalog, ask, mixed, lapses, fresh>>
  BY DEF WriteUpdate, history
<1>2. Running(c) /\ pc[c] # "done" /\ mem[c].held[File(c)] \in Version
  BY <1>1 DEF Running, Ended, Inv, Control
<1>3. v \in Version /\ Given(c) \in Labels /\ RowAgrees("update", v, Given(c))
  <2>1. ask[c].lines \in Lines
    BY <1>1, AsksAssumption DEF Inv, Control
  <2>2. Given(c) \in Labels /\ Given(c) # Unlabelled
    BY <1>2, SaidTypes, FormTypes DEF Given
  <2>3. PICK w \in Writers, lines \in Lines : v = Loaded(w, lines, Given(c))
    <3>1. PICK old \in Version : old = mem[c].held[File(c)]
      BY <1>2
    <3>2. c \in Writers /\ old.body \in Writers /\ Stripped(old.lines) \in Lines
      BY DEF Writers, Version, Stripped, Lines
    <3>3. QED
      BY <2>1, <3>1, <3>2 DEF Updated
  <2> HIDE DEF v
  <2>4. QED
    BY <2>2, <2>3, LoadedTypes
<1>4. /\ m \in Memory /\ (\A f \in Files : m.held[f] = Absent) /\ m.todo = {}
      /\ m.labels = Given(c)
  BY <1>3, BlankTypes DEF Memory, Blank
<1> HIDE DEF m, v
<1>5. Step(c) /\ Asked' /\ pc'[c] = "remove" /\ mem'[c] = m /\ ask[c] \in Asks /\ c \notin fresh
  BY <1>1, <1>2, <1>4, KeepMoves DEF Places
<1>6. PICK f \in Files : f = File(c) /\ f[1] = Doc(c) /\ f[1] \in Sources(ask'[c])
  BY <1>1, <1>5, AskTypes
<1>7. /\ Stored' /\ Foot(Sources(ask'[c]))
      /\ files'[f] = v /\ \A g \in Files \ {f} : files'[g] = files[g]
  BY <1>1, <1>3, <1>6, PutEffect DEF Inv
<1>8. Control(c)'
  BY <1>1, <1>4, <1>5 DEF Control, OfOneFile
<1>9. /\ \A g \in Files : Exists(g) => Exists(g)'
      /\ \A g \in Files : NoChunks(g) => NoChunks(g)'
  BY <1>1, <1>3, <1>7, AbsentTypes DEF Exists, NoChunks
<1>10. Own(c)'
  <2>1. File(c)' = f /\ Exists(f)'
    BY <1>1, <1>3, <1>6, <1>7, AbsentTypes, SameFile DEF Exists
  <2>2. Exists(File(c))' /\ RowAgrees("update", files'[File(c)'], mem'[c].labels)
    BY <1>3, <1>4, <1>5, <1>7, <2>1 DEF Exists
  <2>3. QED
    BY <1>1, <1>5, <2>2 DEF Own, Begun, Saving, Removing, Refreshing, OfDirectory
<1>11. Local(c)'
  BY <1>1, <1>5, <1>9, <1>10, SoundStays
<1>12. QED
  BY <1>1, <1>2, <1>5, <1>7, <1>8, <1>11, StepKeeps

LEMMA RemoveInv == ASSUME Inv, NEW c \in Calls, Remove(c) PROVE Inv'
<1>1. /\ pc[c] = "remove" /\ Goto(c, "removeKb") /\ points' = Without(File(c))
      /\ UNCHANGED <<files, shelf, catalog, ask, mem, mixed, lapses, fresh>>
  BY DEF Remove, history
<1>2. Running(c) /\ pc[c] # "done" /\ ask[c].kind \in OfOneFile
  BY <1>1 DEF Running, Ended, Inv, Control
<1>3. mem \in [Calls -> Memory] /\ lapses \in [Calls -> SUBSET {"remove", "removeKb"}]
  BY DEF Inv, Asked
<1>4. Step(c) /\ Asked' /\ pc'[c] = "removeKb" /\ ask[c] \in Asks /\ c \notin fresh
  BY <1>1, <1>2, <1>3, LaterMoves DEF Places
<1>5. PICK f \in Files : f = File(c) /\ f[1] = Doc(c) /\ f[1] \in Sources(ask'[c])
  BY <1>1, <1>4, AskTypes
<1>6. /\ Stored' /\ Foot(Sources(ask'[c]))
      /\ NoChunks(f)' /\ \A g \in Files : NoChunks(g) => NoChunks(g)'
  BY <1>1, <1>5, WithoutEffect DEF Inv
<1>7. Control(c)'
  BY <1>1, <1>2, <1>4 DEF Inv, Control
<1>8. c \notin mixed => Own(c)'
  <2>1. File(c)' = f
    BY <1>1, <1>5, SameFile
  <2>2. NoChunks(File(c))'
    BY <1>6, <2>1 DEF NoChunks
  <2>3. ASSUME c \notin mixed, ask[c].kind \in Saves
        PROVE  Exists(File(c)) /\ RowAgrees(ask[c].kind, files[File(c)], mem[c].labels)
    BY <1>1, <1>2, <2>3 DEF Inv, Own, Saving
  <2>4. Exists(File(c)) => Exists(File(c))'
    BY <1>1, <1>5, <2>1 DEF Exists
  <2>5. QED
    BY <1>1, <1>2, <1>4, <1>5, <2>1, <2>2, <2>3, <2>4
       DEF Own, Begun, Saving, Removing, Refreshing, OfDirectory, OfOneFile
<1>9. c \notin mixed => Local(c)'
  BY <1>1, <1>4, <1>6, <1>8, SoundStays DEF Exists
<1>10. QED
  BY <1>1, <1>2, <1>4, <1>6, <1>7, <1>9, StepKeeps

\* A request notes which files are left to purge.
LEMMA TodoTypes ==
  ASSUME mem \in [Calls -> Memory], NEW c \in Calls, NEW S \in SUBSET Files,
         mem' = [mem EXCEPT ![c].todo = S]
  PROVE  /\ mem' \in [Calls -> Memory] /\ \A d \in Calls \ {c} : mem'[d] = mem[d]
         /\ mem'[c].todo = S /\ mem'[c].held = mem[c].held /\ mem'[c].labels = mem[c].labels
<1> DEFINE m == [mem[c] EXCEPT !.todo = S]
<1>1. mem[c] \in Memory
  OBVIOUS
<1>2. m \in Memory /\ m.todo = S /\ m.held = mem[c].held /\ m.labels = mem[c].labels
  BY <1>1 DEF Memory
<1>3. mem' = [mem EXCEPT ![c] = m]
  OBVIOUS
<1> HIDE DEF m
<1>4. mem' \in [Calls -> Memory] /\ mem'[c] = m /\ \A d \in Calls \ {c} : mem'[d] = mem[d]
  BY <1>2, <1>3
<1>5. QED
  BY <1>2, <1>4

\* The second removal, done or passed over: the shelf is clear of the file, or the
\* lapse is on record.
LEMMA RemovedKb ==
  ASSUME Inv, NEW c \in Calls, pc[c] = "removeKb", Goto(c, AfterRemoval(c)), mem' = Purging(c),
         UNCHANGED <<files, points, catalog, ask, mixed, fresh>>,
         lapses' \in [Calls -> SUBSET {"remove", "removeKb"}],
         \A d \in Calls \ {c} : lapses'[d] = lapses[d], lapses[c] \subseteq lapses'[c],
         shelf' = shelf \ {File(c)} \/ (shelf' = shelf /\ "removeKb" \in lapses'[c])
  PROVE  Inv'
<1>1. Running(c) /\ pc[c] # "done" /\ ask[c].kind \in OfOneFile /\ ask[c] \in Asks
  BY DEF Running, Ended, Inv, Control
<1>2. PICK f \in Files : f = File(c) /\ f[1] = Doc(c) /\ f[1] \in Sources(ask'[c])
  BY <1>1, AskTypes
<1>3. mem' = [mem EXCEPT ![c].todo = {f}] /\ mem \in [Calls -> Memory]
  BY <1>2 DEF Purging, Inv, Asked
<1>4. /\ mem' \in [Calls -> Memory] /\ \A d \in Calls \ {c} : mem'[d] = mem[d]
      /\ mem'[c].todo = {f} /\ mem'[c].held = mem[c].held /\ mem'[c].labels = mem[c].labels
  <2>1. PICK S \in SUBSET Files : S = {f}
    OBVIOUS
  <2>2. QED
    BY <1>3, <2>1, TodoTypes
<1>5. PICK l \in {"unlink", "purge"} : l = AfterRemoval(c)
  BY DEF AfterRemoval
<1>6. Step(c) /\ Asked' /\ pc'[c] = l /\ c \notin fresh
  BY <1>1, <1>4, <1>5, LaterMoves DEF Places
<1>7. l = "unlink" <=> ask[c].kind = "delete"
  BY <1>5 DEF AfterRemoval
<1>8. Stored' /\ Foot(Sources(ask'[c]))
  <2>1. CASE shelf' = shelf
    BY <2>1, NothingTouched DEF Inv
  <2>2. CASE shelf' = shelf \ {File(c)}
    BY <1>2, <2>2, ShelfEffect DEF Inv
  <2>3. QED
    BY <2>1, <2>2
<1>9. Control(c)'
  <2>1. \A g \in Files : mem'[c].held[g] # Absent \/ g \in mem'[c].todo => g[1] \in Sources(ask'[c])
    BY <1>1, <1>2, <1>4 DEF Inv, Control
  <2>2. QED
    BY <1>1, <1>6, <1>7, <2>1 DEF Control, Saves
<1>10. c \notin mixed => Own(c)'
  <2>1. File(c)' = f /\ Unshelved(c)'
    BY <1>2, SameFile DEF Unshelved
  <2>2. ASSUME c \notin mixed, ask[c].kind \in Saves PROVE Saving(c)'
    <3>1. Exists(f) /\ RowAgrees(ask[c].kind, files[f], mem[c].labels)
      BY <1>1, <1>2, <2>2 DEF Inv, Own, Saving
    <3>2. Exists(File(c))' /\ RowAgrees(ask'[c].kind, files'[File(c)'], mem'[c].labels)
      BY <1>4, <2>1, <3>1 DEF Exists
    <3>3. l = "purge" /\ File(c)' \in mem'[c].todo
      BY <1>4, <1>5, <1>7, <2>1, <2>2 DEF Saves
    <3>4. QED
      BY <1>6, <2>1, <3>2, <3>3 DEF Saving
  <2>3. ASSUME c \notin mixed, ask[c].kind = "delete" PROVE Removing(c)'
    <3>1. NoChunks(f) \/ "remove" \in lapses[c]
      BY <1>1, <1>2, <2>3 DEF Inv, Own, Removing
    <3>2. NoChunks(File(c))' \/ "remove" \in lapses'[c]
      BY <2>1, <3>1 DEF NoChunks
    <3>3. QED
      BY <1>6, <1>7, <2>3, <3>2 DEF Removing
  <2>4. Begun(c)' /\ Refreshing(c)'
    BY <1>1, <1>6 DEF Begun, Refreshing, OfOneFile, OfDirectory
  <2>5. (ask[c].kind \notin Saves => Saving(c)') /\ (ask[c].kind # "delete" => Removing(c)')
    BY DEF Saving, Removing
  <2>6. QED
    BY <2>2, <2>3, <2>4, <2>5 DEF Own
<1>11. c \notin mixed => Local(c)'
  BY <1>1, <1>6, <1>10, SoundStays DEF Exists, NoChunks
<1>12. QED
  BY <1>1, <1>6, <1>8, <1>9, <1>11, StepKeeps

LEMMA RemoveKbInv == ASSUME Inv, NEW c \in Calls, RemoveKb(c) PROVE Inv'
<1>1. lapses \in [Calls -> SUBSET {"remove", "removeKb"}]
  BY DEF Inv, Asked
<1>2. QED
  BY <1>1, RemovedKb DEF RemoveKb, history

LEMMA RemoveFailsInv == ASSUME Inv, NEW c \in Calls, RemoveFails(c) PROVE Inv'
<1>1. /\ pc[c] \in {"remove", "removeKb"}
      /\ lapses' = [lapses EXCEPT ![c] = @ \cup {pc[c]}]
      /\ pc[c] = "remove" => /\ Goto(c, "removeKb") /\ UNCHANGED <<mem, shelf>>
                             /\ points' = points \/ points' = Without(File(c))
      /\ pc[c] = "removeKb" => /\ Goto(c, AfterRemoval(c)) /\ mem' = Purging(c) /\ UNCHANGED points
                               /\ shelf' = shelf \/ shelf' = shelf \ {File(c)}
      /\ UNCHANGED <<files, catalog, ask, mixed, fresh>>
  BY DEF RemoveFails
<1>2. lapses \in [Calls -> SUBSET {"remove", "removeKb"}] /\ mem \in [Calls -> Memory]
  BY DEF Inv, Asked
<1>3. /\ lapses' \in [Calls -> SUBSET {"remove", "removeKb"}] /\ pc[c] \in lapses'[c]
      /\ \A d \in Calls \ {c} : lapses'[d] = lapses[d]
      /\ lapses[c] \subseteq lapses'[c]
  BY <1>1, <1>2
<1>4. CASE pc[c] = "removeKb"
  BY <1>1, <1>3, <1>4, RemovedKb
<1>5. CASE pc[c] = "remove"
  <2>1. Running(c) /\ pc[c] # "done" /\ ask[c].kind \in OfOneFile
    BY <1>5 DEF Running, Ended, Inv, Control
  <2>2. Step(c) /\ Asked' /\ pc'[c] = "removeKb" /\ ask[c] \in Asks /\ c \notin fresh
    BY <1>1, <1>2, <1>3, <1>5, <2>1, LaterMoves DEF Places
  <2>3. Stored' /\ Foot(Sources(ask'[c])) /\ \A f \in Files : NoChunks(f) => NoChunks(f)'
    <3>1. CASE points' = points
      BY <1>1, <1>5, <3>1, NothingTouched DEF Inv, NoChunks
    <3>2. CASE points' = Without(File(c))
      <4>1. PICK f \in Files : f = File(c) /\ f[1] \in Sources(ask'[c])
        BY <1>1, <2>2, AskTypes
      <4>2. QED
        BY <1>1, <1>5, <3>2, <4>1, WithoutEffect DEF Inv
    <3>3. QED
      BY <1>1, <1>5, <3>1, <3>2
  <2>4. Control(c)'
    BY <1>1, <1>5, <2>1, <2>2 DEF Inv, Control
  <2>5. c \notin mixed => Own(c)'
    <3>1. File(c)' = File(c)
      BY <1>1, SameFile
    <3>2. ASSUME c \notin mixed, ask[c].kind \in Saves
          PROVE  Exists(File(c)) /\ RowAgrees(ask[c].kind, files[File(c)], mem[c].labels)
      BY <1>5, <2>1, <3>2 DEF Inv, Own, Saving
    <3>3. Exists(File(c)) => Exists(File(c))'
      BY <1>1, <3>1 DEF Exists
    <3>4. QED
      BY <1>1, <1>3, <1>5, <2>1, <2>2, <3>1, <3>2, <3>3
         DEF Own, Begun, Saving, Removing, Refreshing, OfDirectory, OfOneFile
  <2>6. c \notin mixed => Local(c)'
    BY <1>1, <1>5, <2>2, <2>3, <2>5, SoundStays DEF Exists
  <2>7. QED
    BY <1>1, <1>5, <2>1, <2>2, <2>3, <2>4, <2>6, StepKeeps
<1>6. QED
  BY <1>1, <1>4, <1>5

LEMMA LoadInv == ASSUME Inv, NEW c \in Calls, Load(c) PROVE Inv'
<1> DEFINE h == [NoFiles EXCEPT ![File(c)] = files[File(c)]]
           m == [mem[c] EXCEPT !.held = h]
<1>1. /\ pc[c] = "load" /\ Exists(File(c)) /\ Keep(c, "upsert", m)
      /\ UNCHANGED <<files, points, shelf, catalog, ask, mixed, lapses, fresh>>
  BY DEF Load, history
<1>2. Running(c) /\ pc[c] # "done" /\ ask[c].kind \in Saves /\ ask[c] \in Asks
  BY <1>1 DEF Running, Ended, Inv, Control
<1>3. PICK f \in Files : f = File(c) /\ f[1] = Doc(c) /\ f[1] \in Sources(ask[c])
  BY <1>2, AskTypes
<1>4. files \in [Files -> Version \cup {Absent}]
  BY DEF Inv, Stored
<1>5. /\ h \in [Files -> Version \cup {Absent}]
      /\ \A g \in Files : h[g] = IF g = f THEN files[g] ELSE Absent
  BY <1>3, <1>4 DEF NoFiles
<1> HIDE DEF h
<1>6. mem[c] \in Memory
  BY DEF Inv, Asked
<1>7. m \in Memory /\ m.held = h /\ m.labels = mem[c].labels /\ m.todo = mem[c].todo
  BY <1>5, <1>6 DEF Memory
<1> HIDE DEF m
<1>8. Step(c) /\ Asked' /\ pc'[c] = "upsert" /\ mem'[c] = m /\ c \notin fresh
  BY <1>1, <1>2, <1>7, KeepMoves DEF Places
<1>9. Stored' /\ Foot(Sources(ask'[c]))
  BY <1>1, NothingTouched DEF Inv
<1>10. Control(c)'
  <2>1. \A g \in Files : m.held[g] # Absent \/ g \in m.todo => g[1] \in Sources(ask[c])
    BY <1>3, <1>5, <1>7 DEF Inv, Control
  <2>2. QED
    BY <1>1, <1>2, <1>8, <2>1 DEF Control
<1>11. c \notin mixed => Own(c)'
  <2>1. File(c)' = f
    BY <1>1, <1>3, SameFile
  <2>2. ASSUME c \notin mixed
        PROVE  /\ Exists(f) /\ RowAgrees(ask[c].kind, files[f], mem[c].labels)
               /\ Unshelved(c) /\ NoChunks(f)
    BY <1>1, <1>2, <1>3, <2>2 DEF Inv, Own, Saving
  <2>3. ASSUME c \notin mixed
        PROVE  /\ Exists(File(c))' /\ RowAgrees(ask'[c].kind, files'[File(c)'], mem'[c].labels)
               /\ Unshelved(c)' /\ NoChunks(File(c))'
               /\ \A g \in Files : mem'[c].held[g] = IF g = File(c)' THEN files'[g] ELSE Absent
    BY <1>1, <1>3, <1>5, <1>7, <1>8, <2>1, <2>2, <2>3 DEF Exists, Unshelved, NoChunks
  <2>4. QED
    BY <1>1, <1>2, <1>8, <2>3
       DEF Own, Begun, Saving, Removing, Refreshing, OfDirectory, OfOneFile, Saves
<1>12. c \notin mixed => Local(c)'
  BY <1>1, <1>2, <1>8, <1>11, SoundStays DEF Exists, NoChunks
<1>13. QED
  BY <1>1, <1>2, <1>8, <1>9, <1>10, <1>12, StepKeeps

LEMMA FailuresInv ==
  ASSUME Inv, NEW c \in Calls, LoadFails(c) \/ UpsertRefused(c)
  PROVE  Inv'
<1>1. /\ pc[c] \in {"remove", "load", "upsert"} /\ Raise(c)
      /\ UNCHANGED <<files, points, shelf, catalog, ask>>
  BY DEF LoadFails, UpsertRefused
<1>2. Running(c)
  BY <1>1 DEF Running, Ended
<1>3. QED
  BY <1>1, <1>2, RaiseInv

LEMMA PurgeInv == ASSUME Inv, NEW c \in Calls, Purge(c) PROVE Inv'
<1>1. pc[c] = "purge" /\ UNCHANGED <<files, shelf, catalog, ask, mixed, lapses, fresh>>
  BY DEF Purge, history
<1>2. Running(c) /\ pc[c] # "done" /\ ask[c].kind \in Saves \cup {"refresh"} /\ ask[c] \in Asks
  BY <1>1 DEF Running, Ended, Inv, Control
<1>3. /\ mem \in [Calls -> Memory] /\ lapses \in [Calls -> SUBSET {"remove", "removeKb"}]
      /\ pc \in [Calls -> Places]
  BY DEF Inv, Asked
<1>4. PICK e \in Files : e = File(c)
  BY <1>2, AskTypes
<1>5. File(c)' = e
  BY <1>1, <1>4, SameFile
\* What is known of a call of its own.
<1>6. ASSUME c \notin mixed, ask[c].kind \in Saves
      PROVE  /\ Exists(e) /\ RowAgrees(ask[c].kind, files[e], mem[c].labels)
             /\ Unshelved(c) /\ (e \in mem[c].todo \/ NoChunks(e))
  BY <1>1, <1>2, <1>4, <1>6 DEF Inv, Own, Saving
<1>7. ASSUME c \notin mixed, ask[c].kind = "refresh"
      PROVE  /\ \A f \in Files : mem[c].held[f] = files[f]
             /\ \A f \in Files : Exists(f) => f \in mem[c].todo \/ NoChunks(f)
  BY <1>1, <1>2, <1>7 DEF Inv, Own, Refreshing, OfDirectory
<1>8. ASSUME NEW f \in mem[c].todo, points' = Without(f),
             mem' = [mem EXCEPT ![c].todo = @ \ {f}], UNCHANGED pc
      PROVE  Inv'
  <2>1. f \in Files /\ f[1] \in Sources(ask'[c]) /\ mem[c].todo \in SUBSET Files
    <3>1. mem[c].todo \in SUBSET Files
      BY <1>3 DEF Memory
    <3>2. QED
      BY <1>1, <1>8, <3>1 DEF Inv, Control
  <2>2. PICK S \in SUBSET Files : S = mem[c].todo \ {f}
    BY <2>1
  <2>3. mem' = [mem EXCEPT ![c].todo = S]
    BY <1>8, <2>2
  <2>4. /\ mem' \in [Calls -> Memory] /\ \A d \in Calls \ {c} : mem'[d] = mem[d]
        /\ mem'[c].todo = S /\ mem'[c].held = mem[c].held /\ mem'[c].labels = mem[c].labels
    BY <1>3, <2>3, TodoTypes
  <2>5. Goto(c, "purge")
    BY <1>1, <1>3, <1>8 DEF Goto
  <2>6. Step(c) /\ Asked' /\ pc'[c] = "purge" /\ c \notin fresh
    BY <1>1, <1>2, <1>3, <2>4, <2>5, LaterMoves DEF Places
  <2>7. /\ Stored' /\ Foot(Sources(ask'[c]))
        /\ NoChunks(f)' /\ \A g \in Files : NoChunks(g) => NoChunks(g)'
    BY <1>1, <1>8, <2>1, WithoutEffect DEF Inv
  <2>8. Control(c)'
    <3>1. \A g \in Files : mem'[c].held[g] # Absent \/ g \in mem'[c].todo => g[1] \in Sources(ask'[c])
      BY <1>1, <2>2, <2>4 DEF Inv, Control
    <3>2. QED
      BY <1>1, <1>2, <2>6, <3>1 DEF Control
  <2>9. c \notin mixed => Own(c)'
    <3>1. ASSUME c \notin mixed, ask[c].kind \in Saves PROVE Saving(c)'
      <4>1. /\ Exists(e)' /\ RowAgrees(ask'[c].kind, files'[e], mem'[c].labels)
            /\ (e \in mem'[c].todo \/ NoChunks(e)')
        BY <1>1, <1>6, <2>2, <2>4, <2>7, <3>1 DEF Exists
      <4>2. Unshelved(c)'
        BY <1>1, <1>4, <1>5, <1>6, <3>1 DEF Unshelved
      <4>3. (Exists(e)' <=> Exists(File(c))') /\ (NoChunks(e)' <=> NoChunks(File(c))')
        BY <1>5 DEF Exists, NoChunks
      <4>4. QED
        BY <1>5, <2>6, <4>1, <4>2, <4>3 DEF Saving
    <3>2. ASSUME c \notin mixed, ask[c].kind = "refresh" PROVE Refreshing(c)'
      <4>1. \A g \in Files : mem'[c].held[g] = files'[g]
        BY <1>1, <1>7, <2>4, <3>2
      <4>2. \A g \in Files : Exists(g)' => g \in mem'[c].todo \/ NoChunks(g)'
        BY <1>1, <1>7, <2>2, <2>4, <2>7, <3>2 DEF Exists
      <4>3. QED
        BY <2>6, <4>1, <4>2 DEF Refreshing
    <3>3. QED
      BY <1>1, <1>2, <2>6, <3>1, <3>2
         DEF Own, Begun, Saving, Removing, Refreshing, OfDirectory, OfOneFile, Saves
  <2>10. c \notin mixed => Local(c)'
    BY <1>1, <1>2, <2>6, <2>7, <2>9, SoundStays DEF Exists
  <2>11. QED
    BY <1>1, <1>2, <2>6, <2>7, <2>8, <2>10, StepKeeps
<1>9. ASSUME mem[c].todo = {}, Goto(c, Purged(c)), UNCHANGED <<points, mem>>
      PROVE  Inv'
  <2>1. PICK l \in {"upsert", "load"} : l = Purged(c)
    BY DEF Purged
  <2>2. l = "upsert" <=> ask[c].kind = "refresh"
    BY <2>1 DEF Purged
  <2>3. Step(c) /\ Asked' /\ pc'[c] = l /\ c \notin fresh
    BY <1>1, <1>2, <1>3, <1>9, <2>1, LaterMoves DEF Places
  <2>4. Stored' /\ Foot(Sources(ask'[c]))
    BY <1>1, <1>9, NothingTouched DEF Inv
  <2>5. Control(c)'
    <3>1. \A g \in Files : mem'[c].held[g] # Absent \/ g \in mem'[c].todo => g[1] \in Sources(ask'[c])
      BY <1>1, <1>9 DEF Inv, Control
    <3>2. QED
      BY <1>1, <1>2, <2>1, <2>2, <2>3, <3>1 DEF Control, OfDirectory
  <2>6. c \notin mixed => Own(c)'
    <3>1. ASSUME c \notin mixed, ask[c].kind \in Saves PROVE Saving(c)'
      <4>1. /\ Exists(e)' /\ RowAgrees(ask'[c].kind, files'[e], mem'[c].labels)
            /\ NoChunks(e)' /\ l = "load"
        BY <1>1, <1>6, <1>9, <2>1, <2>2, <3>1 DEF Exists, NoChunks, Saves, OfOneFile
      <4>2. Unshelved(c)'
        BY <1>1, <1>4, <1>5, <1>6, <3>1 DEF Unshelved
      <4>3. (Exists(e)' <=> Exists(File(c))') /\ (NoChunks(e)' <=> NoChunks(File(c))')
        BY <1>5 DEF Exists, NoChunks
      <4>4. QED
        BY <1>5, <2>3, <4>1, <4>2, <4>3 DEF Saving
    <3>2. ASSUME c \notin mixed, ask[c].kind = "refresh" PROVE Refreshing(c)'
      <4>1. \A g \in Files : mem'[c].held[g] = files'[g]
        BY <1>1, <1>7, <1>9, <3>2
      <4>2. \A g \in Files : Exists(g)' => NoChunks(g)'
        BY <1>1, <1>7, <1>9, <3>2 DEF Exists, NoChunks
      <4>3. QED
        BY <2>2, <2>3, <4>1, <4>2 DEF Refreshing
    <3>3. QED
      BY <1>1, <1>2, <2>1, <2>2, <2>3, <3>1, <3>2
         DEF Own, Begun, Saving, Removing, Refreshing, OfDirectory, OfOneFile, Saves
  <2>7. c \notin mixed => Local(c)'
    BY <1>1, <1>2, <1>9, <2>3, <2>6, SoundStays DEF Exists, NoChunks
  <2>8. QED
    BY <1>1, <1>2, <2>3, <2>4, <2>5, <2>7, StepKeeps
<1>10. QED
  BY <1>1, <1>8, <1>9 DEF Purge

-----------------------------------------------------------------------------
(* The points of what a call holds.                                        *)

LEMMA UpsertedEffect ==
  ASSUME Inv, NEW c \in Calls, AllIndexable(c), points' \in Upserted(c), ask[c] \in Asks,
         UNCHANGED <<files, shelf, catalog, ask>>
  PROVE  /\ Stored' /\ Foot(Sources(ask'[c]))
         /\ \E W \in SUBSET Held(c) :
              /\ \A i \in Ids : \/ points'[i] = points[i] /\ \A f \in W : i \notin Chunks(c, f)
                                \/ \E f \in W : /\ i \in Chunks(c, f)
                                                 /\ points'[i] = Chunk(f, mem[c].held[f])
              /\ \A f \in Held(c) : \E g \in W : Slot[g[1]] = Slot[f[1]]
              /\ \A f \in W, i \in Ids : i \in Chunks(c, f) => points'[i] = Chunk(f, mem[c].held[f])
<1> DEFINE h == mem[c].held
<1>1. PICK W \in Lasting(c) :
        points' = [i \in Ids |->
                     IF \E f \in W : i \in Chunks(c, f)
                       THEN Chunk(CHOOSE f \in W : i \in Chunks(c, f),
                                  h[CHOOSE f \in W : i \in Chunks(c, f)])
                       ELSE points[i]]
  BY DEF Upserted
<1>2. /\ W \in SUBSET Held(c) /\ Held(c) \subseteq Files
      /\ \A f \in Held(c) : \E g \in W : Slot[g[1]] = Slot[f[1]]
      /\ \A f, g \in W : Slot[g[1]] = Slot[f[1]] => g = f
  BY DEF Lasting, Held
<1>3. \A f \in W, i \in Ids : i \in Chunks(c, f) => i[1] = Slot[f[1]]
  BY DEF Chunks
<1>4. ASSUME NEW i \in Ids, NEW f \in W, i \in Chunks(c, f)
      PROVE  points'[i] = Chunk(f, h[f])
  <2>1. (CHOOSE g \in W : i \in Chunks(c, g)) = f
    BY <1>2, <1>3, <1>4
  <2>2. QED
    BY <1>1, <1>4, <2>1
<1>5. ASSUME NEW i \in Ids, \A f \in W : i \notin Chunks(c, f) PROVE points'[i] = points[i]
  BY <1>1, <1>5
<1>6. ASSUME NEW f \in W
      PROVE  /\ f \in Files /\ f[1] \in Sources(ask[c]) /\ Chunk(f, h[f]) \in Points
             /\ Chunk(f, h[f]).source = f
  <2>1. f \in Files /\ h[f] # Absent /\ f \in Held(c)
    BY <1>2 DEF Held
  <2>2. h[f] \in Version
    <3>1. mem[c] \in Memory
      BY DEF Inv, Asked
    <3>2. QED
      BY <2>1, <3>1 DEF Memory
  <2>3. Indexable(f, h[f])
    BY <2>1 DEF AllIndexable
  <2>4. f[1] \in Sources(ask[c])
    BY <2>1 DEF Inv, Control
  <2> HIDE DEF h
  <2>5. QED
    BY <2>1, <2>2, <2>3, <2>4 DEF Chunk, Points
<1> HIDE DEF h
<1>7. points' \in [Ids -> Points]
  <2>1. points \in [Ids -> Points]
    BY DEF Inv, Stored
  <2>2. \A i \in Ids : points'[i] \in Points
    BY <1>4, <1>5, <1>6, <2>1
  <2>3. points' = [i \in Ids |-> points'[i]]
    BY <1>1
  <2> HIDE DEF Points
  <2>4. QED
    BY <2>2, <2>3
<1>8. Stored'
  BY <1>7 DEF Inv, Stored
<1>9. Foot(Sources(ask'[c]))
  <2>1. ASSUME NEW i \in Ids, NEW f \in W, i \in Chunks(c, f)
        PROVE  f[1] \in Sources(ask[c]) /\ i[1] = Slot[f[1]] /\ points'[i].source = f
    BY <1>3, <1>4, <1>6, <2>1
  <2>2. \A i \in Ids : \/ points'[i] = points[i]
                       \/ \E d \in Sources(ask[c]) : i[1] = Slot[d] /\ points'[i].source[1] = d
    BY <1>5, <2>1
  <2>3. QED
    BY <2>2 DEF Foot
<1>10. QED
  BY <1>2, <1>4, <1>5, <1>8, <1>9 DEF h

\* The chunks of the one file a call holds, when there were none of it.
LEMMA OneServed ==
  ASSUME Inv, NEW c \in Calls, NEW e \in Files, Exists(e), NoChunks(e),
         \A g \in Files : mem[c].held[g] = IF g = e THEN files[g] ELSE Absent,
         NEW W \in SUBSET Held(c), UNCHANGED <<files, ask>>,
         \A i \in Ids : \/ points'[i] = points[i] /\ \A f \in W : i \notin Chunks(c, f)
                        \/ \E f \in W : i \in Chunks(c, f) /\ points'[i] = Chunk(f, mem[c].held[f]),
         \A f \in Held(c) : \E g \in W : Slot[g[1]] = Slot[f[1]]
  PROVE  Served(c, e)'
<1>1. Held(c) = {e}
  BY DEF Held, Exists
<1>2. W = {e}
  BY <1>1
<1>3. Chunks(c, e)' = Chunks(c, e)
  BY DEF Chunks
<1>4. \A i \in Ids : i \in Chunks(c, e) => points'[i] = Chunk(e, files'[e])
  BY <1>2
<1>5. \A i \in Ids : i \notin Chunks(c, e) => points'[i].source # e
  BY <1>2 DEF NoChunks
<1>6. QED
  BY <1>3, <1>4, <1>5 DEF Served

LEMMA UpsertInv == ASSUME Inv, NEW c \in Calls, Upsert(c) PROVE Inv'
<1>1. /\ pc[c] = "upsert" /\ AllIndexable(c) /\ points' \in Upserted(c)
      /\ UNCHANGED <<files, shelf, catalog, ask>>
  BY DEF Upsert
<1>2. Running(c) /\ pc[c] # "done" /\ ask[c].kind \in Saves \cup OfDirectory /\ ask[c] \in Asks
  BY <1>1 DEF Running, Ended, Inv, Control
<1>3. Stored' /\ Foot(Sources(ask'[c]))
  BY <1>1, <1>2, UpsertedEffect
<1>4. PICK W \in SUBSET Held(c) :
        /\ \A i \in Ids : \/ points'[i] = points[i] /\ \A f \in W : i \notin Chunks(c, f)
                          \/ \E f \in W : i \in Chunks(c, f) /\ points'[i] = Chunk(f, mem[c].held[f])
        /\ \A f \in Held(c) : \E g \in W : Slot[g[1]] = Slot[f[1]]
        /\ \A f \in W, i \in Ids : i \in Chunks(c, f) => points'[i] = Chunk(f, mem[c].held[f])
  BY <1>1, <1>2, UpsertedEffect
<1>5. PICK e \in Files : e = File(c)
  BY <1>2, AskTypes
<1>6. File(c)' = e
  BY <1>1, <1>5, SameFile
<1>7. ASSUME c \notin mixed, ask[c].kind \in Saves
      PROVE  /\ Exists(e) /\ RowAgrees(ask[c].kind, files[e], mem[c].labels)
             /\ Unshelved(c) /\ NoChunks(e)
             /\ \A g \in Files : mem[c].held[g] = IF g = e THEN files[g] ELSE Absent
  BY <1>1, <1>2, <1>5, <1>7 DEF Inv, Own, Saving
<1>8. ASSUME c \notin mixed, ask[c].kind \in OfDirectory
      PROVE  /\ \A f \in Files : mem[c].held[f] = files[f]
             /\ ask[c].kind = "refresh" => \A f \in Files : Exists(f) => NoChunks(f)
  BY <1>1, <1>2, <1>8 DEF Inv, Own, Refreshing
<1>9. ASSUME c \notin mixed, NEW f \in Files
      PROVE  (Exists(f) => Exists(f)') /\ (NoChunks(f) => NoChunks(f)' \/ Exists(f)')
  <2>1. \A g \in W : Exists(g)'
    BY <1>1, <1>2, <1>7, <1>8, <1>9 DEF Held, Exists
  <2>2. ASSUME f \notin W, NoChunks(f), NEW i \in Ids PROVE points'[i].source # f
    <3>1. CASE points'[i] = points[i]
      BY <2>2, <3>1 DEF NoChunks
    <3>2. ASSUME NEW g \in W, points'[i] = Chunk(g, mem[c].held[g]) PROVE points'[i].source # f
      BY <2>2, <3>2 DEF Chunk
    <3>3. QED
      BY <1>4, <3>1, <3>2
  <2>3. QED
    BY <1>1, <2>1, <2>2 DEF Exists, NoChunks
<1>10. ASSUME ask[c].kind \in OfDirectory, Answer(c) PROVE Inv'
  <2>1. Step(c) /\ Asked' /\ pc'[c] = "done" /\ mem'[c] = Blank /\ mixed' = mixed
    BY <1>1, <1>2, <1>10, AnswerMoves
  <2>2. Control(c)' /\ ~Running(c)'
    BY <1>1, <1>2, <2>1, BlankTypes DEF Control, Running, Ended
  <2>3. c \notin mixed => Refreshed(c)'
    <3>1. ASSUME c \notin mixed, ask[c].kind = "refresh", NEW f \in Files, Exists(f), Alone(f)
          PROVE  Served(c, f)'
      <4>1. f \in W
        <5>1. PICK g \in W : Slot[g[1]] = Slot[f[1]]
          BY <1>4, <1>8, <3>1 DEF Held, Exists, OfDirectory
        <5>2. g \in Files /\ Exists(g)
          BY <1>4, <1>8, <3>1 DEF Held, Exists, OfDirectory
        <5>3. QED
          BY <3>1, <5>1, <5>2 DEF Alone
      <4>2. NoChunks(f) /\ mem[c].held[f] = files[f]
        BY <1>8, <3>1 DEF OfDirectory
      <4>3. \A i \in Ids : i \in Chunks(c, f) => points'[i] = Chunk(f, files'[f])
        BY <1>1, <1>4, <4>1, <4>2
      <4>4. ASSUME NEW i \in Ids, i \notin Chunks(c, f) PROVE points'[i].source # f
        <5>1. CASE points'[i] = points[i]
          BY <4>2, <5>1 DEF NoChunks
        <5>2. ASSUME NEW g \in W, i \in Chunks(c, g), points'[i] = Chunk(g, mem[c].held[g])
              PROVE  points'[i].source # f
          BY <4>4, <5>2 DEF Chunk
        <5>3. QED
          BY <1>4, <5>1, <5>2
      <4>5. Chunks(c, f)' = Chunks(c, f)
        BY <1>1 DEF Chunks
      <4>6. QED
        BY <4>3, <4>4, <4>5 DEF Served
    <3>2. \A f \in Files : (Exists(f)' <=> Exists(f)) /\ (Alone(f)' <=> Alone(f))
      BY <1>1 DEF Exists, Alone
    <3>3. QED
      BY <1>1, <3>1, <3>2 DEF Refreshed
  <2>4. c \notin mixed => Kept(c)'
    BY <1>1, <1>10, <2>3 DEF Kept, Saved, Gone, Saves, OfOneFile, OfDirectory
  <2>5. c \notin mixed => Local(c)'
    BY <1>1, <1>2, <1>9, <2>1, <2>2, <2>4, SoundStays
  <2>6. QED
    BY <1>1, <1>2, <1>3, <2>1, <2>2, <2>5, StepKeeps
<1>11. ASSUME ask[c].kind \notin OfDirectory,
              Keep(c, "register", [mem[c] EXCEPT !.held = NoFiles]), UNCHANGED history
       PROVE  Inv'
  <2> DEFINE m == [mem[c] EXCEPT !.held = NoFiles]
  <2>1. m \in Memory /\ m.held = NoFiles /\ m.labels = mem[c].labels /\ m.todo = mem[c].todo
    <3>1. mem[c] \in Memory
      BY DEF Inv, Asked
    <3>2. NoFiles \in [Files -> Version \cup {Absent}]
      BY DEF NoFiles
    <3>3. QED
      BY <3>1, <3>2 DEF Memory
  <2>2. Keep(c, "register", m) /\ UNCHANGED <<mixed, lapses, fresh>>
    BY <1>11 DEF history
  <2> HIDE DEF m
  <2>3. Step(c) /\ Asked' /\ pc'[c] = "register" /\ mem'[c] = m /\ c \notin fresh
    BY <1>1, <1>2, <2>1, <2>2, KeepMoves DEF Places
  <2>4. ask[c].kind \in Saves
    BY <1>2, <1>11
  <2>5. Control(c)'
    <3>1. \A g \in Files : mem'[c].held[g] # Absent \/ g \in mem'[c].todo => g[1] \in Sources(ask'[c])
      BY <1>1, <2>1, <2>3 DEF Inv, Control, NoFiles
    <3>2. QED
      BY <1>1, <1>2, <2>3, <2>4, <3>1 DEF Control
  <2>6. c \notin mixed => Own(c)'
    <3>1. ASSUME c \notin mixed PROVE Served(c, e)'
      BY <1>1, <1>4, <1>7, <2>4, <3>1, OneServed
    <3>2. Served(c, e)' <=> Served(c, File(c))'
      BY <1>6 DEF Served, Chunks, Chunk
    <3>3. ASSUME c \notin mixed
          PROVE  /\ Exists(e)' /\ RowAgrees(ask'[c].kind, files'[e], mem'[c].labels)
                 /\ (e \in shelf' => "removeKb" \in lapses'[c])
      BY <1>1, <1>5, <1>7, <2>1, <2>2, <2>3, <2>4, <3>3 DEF Exists, Unshelved
    <3>4. Exists(e)' <=> Exists(File(c))'
      BY <1>6 DEF Exists
    <3>5. ASSUME c \notin mixed PROVE Saving(c)'
      BY <1>6, <2>3, <3>1, <3>2, <3>3, <3>4, <3>5 DEF Saving, Unshelved
    <3>6. QED
      BY <1>1, <2>3, <2>4, <3>5 DEF Own, Begun, Removing, Refreshing, Saves, OfOneFile, OfDirectory
  <2>7. c \notin mixed => Local(c)'
    BY <1>1, <1>2, <1>9, <2>2, <2>3, <2>6, SoundStays
  <2>8. QED
    BY <1>1, <1>2, <1>3, <2>2, <2>3, <2>5, <2>7, StepKeeps
<1>12. QED
  BY <1>10, <1>11 DEF Upsert

LEMMA QdrantFailsInv == ASSUME Inv, NEW c \in Calls, QdrantFails(c) PROVE Inv'
<1>1. /\ pc[c] \in {"purge", "upsert"} /\ Raise(c)
      /\ UNCHANGED <<files, shelf, catalog, ask>>
  BY DEF QdrantFails
<1>2. Running(c) /\ ask[c].kind \in Saves \cup OfDirectory
  BY <1>1 DEF Running, Ended, Inv, Control, OfDirectory
<1>3. /\ Step(c) /\ Asked' /\ Control(c)' /\ pc'[c] = "failed" /\ ~Running(c)'
      /\ ask[c] \in Asks /\ pc[c] # "done" /\ c \notin fresh' /\ UNCHANGED history
  BY <1>1, <1>2, RaiseMoves
<1>4. CASE UNCHANGED points
  BY <1>1, <1>2, <1>4, RaiseInv
<1>5. ASSUME NEW f \in mem[c].todo, points' = Without(f) PROVE Inv'
  <2>1. f \in Files /\ f[1] \in Sources(ask'[c])
    <3>1. mem[c].todo \in SUBSET Files
      BY DEF Inv, Asked, Memory
    <3>2. QED
      BY <1>1, <1>5, <3>1 DEF Inv, Control
  <2>2. Stored' /\ Foot(Sources(ask'[c])) /\ \A g \in Files : NoChunks(g) => NoChunks(g)'
    BY <1>1, <1>5, <2>1, WithoutEffect DEF Inv
  <2>3. Local(c)'
    BY <1>1, <1>3, <2>2, SoundStays DEF Exists
  <2>4. QED
    BY <1>1, <1>3, <2>2, <2>3, StepKeeps
<1>6. ASSUME pc[c] = "upsert", AllIndexable(c), points' \in Upserted(c) PROVE Inv'
  <2>1. Stored' /\ Foot(Sources(ask'[c]))
    BY <1>1, <1>3, <1>6, UpsertedEffect
  <2>2. PICK W \in SUBSET Held(c) :
          \A i \in Ids : \/ points'[i] = points[i] /\ \A f \in W : i \notin Chunks(c, f)
                         \/ \E f \in W : i \in Chunks(c, f) /\ points'[i] = Chunk(f, mem[c].held[f])
    BY <1>1, <1>3, <1>6, UpsertedEffect
  <2>3. ASSUME c \notin mixed, NEW f \in Held(c) PROVE f \in Files /\ Exists(f)'
    <3>1. Own(c)
      BY <1>2, <2>3 DEF Inv
    <3>2. f \in Files /\ mem[c].held[f] # Absent
      BY <2>3 DEF Held
    <3>3. mem[c].held[f] = files[f]
      BY <1>2, <1>6, <3>1, <3>2 DEF Own, Saving, Refreshing
    <3>4. QED
      BY <1>1, <3>2, <3>3 DEF Exists
  <2>4. ASSUME c \notin mixed, NEW f \in Files
        PROVE  (Exists(f) => Exists(f)') /\ (NoChunks(f) => NoChunks(f)' \/ Exists(f)')
    <3>1. ASSUME f \notin W, NoChunks(f), NEW i \in Ids PROVE points'[i].source # f
      <4>1. CASE points'[i] = points[i]
        BY <3>1, <4>1 DEF NoChunks
      <4>2. ASSUME NEW g \in W, points'[i] = Chunk(g, mem[c].held[g]) PROVE points'[i].source # f
        BY <3>1, <4>2 DEF Chunk
      <4>3. QED
        BY <2>2, <4>1, <4>2
    <3>2. QED
      BY <1>1, <2>3, <2>4, <3>1 DEF Exists, NoChunks
  <2>5. c \notin mixed => Local(c)'
    BY <1>1, <1>3, <2>4, SoundStays
  <2>6. QED
    BY <1>1, <1>3, <2>1, <2>5, StepKeeps DEF history
<1>7. QED
  BY <1>4, <1>5, <1>6 DEF QdrantFails

-----------------------------------------------------------------------------
(* The row and the file.                                                   *)

\* A row a call writes: of a file that is there, when the call is of its own.
LEMMA RowWritten ==
  ASSUME Inv, NEW c \in Calls, Step(c), pc[c] = "register", ask[c] \in Asks,
         catalog' = [catalog EXCEPT ![Doc(c)] = Row(c)], UNCHANGED <<files, points, shelf, ask>>
  PROVE  /\ Stored' /\ Foot(Sources(ask'[c])) /\ catalog'[Doc(c)] = Row(c)
         /\ c \notin mixed => /\ \A d \in Docs : RowSound(d)'
                              /\ \A f \in Files : ChunksSound(f)'
                              /\ Exists(File(c)) /\ Served(c, File(c)) /\ Unshelved(c)
                              /\ RowAgrees(ask[c].kind, files[File(c)], mem[c].labels)
<1>1. Running(c) /\ ask[c].kind \in Saves
  BY DEF Running, Ended, Inv, Control
<1>2. PICK e \in Files : e = File(c) /\ e[1] = Doc(c) /\ e[1] \in Sources(ask'[c])
  BY AskTypes
<1>3. PICK d \in Docs : d = Doc(c) /\ d \in Sources(ask'[c])
  BY AskTypes
<1>4. Row(c).file = e /\ e \in {d} \X Suffixes
  BY <1>2, <1>3, FileTypes DEF Row
<1>5. Stored' /\ Foot(Sources(ask'[c])) /\ catalog'[d] = Row(c)
  <2>1. Stored
    BY DEF Inv
  <2>2. catalog' = [catalog EXCEPT ![d] = Row(c)]
    BY <1>3
  <2>3. QED
    BY <1>3, <1>4, <2>1, <2>2, RowEffect
<1>6. ASSUME c \notin mixed
      PROVE  /\ Exists(e) /\ Served(c, e) /\ Unshelved(c)
             /\ RowAgrees(ask[c].kind, files[e], mem[c].labels)
  <2>1. Saving(c)
    BY <1>1, <1>6 DEF Inv, Own
  <2>2. QED
    BY <1>1, <1>2, <2>1 DEF Saving
<1>7. ASSUME c \notin mixed, NEW x \in Docs PROVE RowSound(x)'
  <2>1. CASE x = d
    BY <1>4, <1>5, <1>6, <1>7, <2>1 DEF RowSound, Exists
  <2>2. CASE x # d
    <3>1. catalog'[x] = catalog[x]
      BY <1>3, <2>2 DEF Inv, Stored
    <3>2. RowExcused(x) => RowExcused(x)'
      BY ExcusesStay
    <3>3. QED
      BY <3>1, <3>2 DEF Inv, RowSound, Exists
  <2>3. QED
    BY <2>1, <2>2
<1>8. ASSUME NEW f \in Files PROVE ChunksSound(f)'
  <2>1. ChunksSound(f) /\ (ChunksExcused(f[1]) => ChunksExcused(f[1])')
    BY ExcusesStay, FileTypes DEF Inv
  <2>2. QED
    BY <2>1 DEF ChunksSound, Exists, NoChunks
<1>9. QED
  BY <1>2, <1>3, <1>5, <1>6, <1>7, <1>8

LEMMA RegisterInv == ASSUME Inv, NEW c \in Calls, Register(c) PROVE Inv'
<1>1. /\ pc[c] = "register" /\ catalog' = [catalog EXCEPT ![Doc(c)] = Row(c)]
      /\ Answer(c) /\ UNCHANGED <<files, points, shelf, ask>>
  BY DEF Register
<1>2. Running(c) /\ pc[c] # "done" /\ ask[c].kind \in Saves
  BY <1>1 DEF Running, Ended, Inv, Control
<1>3. /\ Step(c) /\ Asked' /\ pc'[c] = "done" /\ mem'[c] = Blank /\ ask[c] \in Asks
      /\ UNCHANGED <<mixed, lapses>>
  BY <1>1, <1>2, AnswerMoves
<1>4. Control(c)' /\ ~Running(c)'
  BY <1>1, <1>2, <1>3, BlankTypes DEF Control, Running, Ended
<1>5. /\ Stored' /\ Foot(Sources(ask'[c])) /\ catalog'[Doc(c)] = Row(c)
      /\ c \notin mixed => /\ \A d \in Docs : RowSound(d)'
                           /\ \A f \in Files : ChunksSound(f)'
                           /\ Exists(File(c)) /\ Served(c, File(c)) /\ Unshelved(c)
                           /\ RowAgrees(ask[c].kind, files[File(c)], mem[c].labels)
  BY <1>1, <1>3, RowWritten
<1>6. PICK e \in Files : e = File(c)
  BY <1>3, AskTypes
<1>7. PICK d \in Docs : d = Doc(c)
  BY <1>3, AskTypes
<1>8. File(c)' = e /\ Doc(c)' = d
  BY <1>1, <1>6, <1>7, SameFile
<1>9. ASSUME c \notin mixed PROVE Kept(c)'
  <2>1. (Exists(e)' <=> Exists(File(c))') /\ (Served(c, e)' <=> Served(c, File(c))')
    BY <1>8 DEF Exists, Served, Chunks, Chunk
  <2>2. Exists(e)' /\ Served(c, e)'
    BY <1>1, <1>5, <1>6, <1>9 DEF Exists, Served, Chunks, Chunk
  <2>3. catalog'[d].file = e /\ catalog'[d].chunks = ask'[c].size /\ catalog'[d].labels = mem[c].labels
    BY <1>1, <1>5, <1>6, <1>7 DEF Row
  <2>4. RowAgrees(ask'[c].kind, files'[e], catalog'[d].labels)
    BY <1>1, <1>5, <1>6, <1>9, <2>3
  <2>5. Unshelved(c)'
    BY <1>1, <1>3, <1>5, <1>6, <1>8, <1>9 DEF Unshelved
  <2>6. Saved(c)'
    BY <1>8, <2>1, <2>2, <2>3, <2>4, <2>5 DEF Saved
  <2>7. QED
    BY <1>1, <1>2, <2>6 DEF Kept, Refreshed, Gone, Saves, OfOneFile
<1>10. c \notin mixed => Local(c)'
  <2>1. Sources(ask'[c]) \subseteq Docs
    BY <1>1, <1>3, AskTypes
  <2>2. QED
    BY <1>4, <1>5, <1>9, <2>1 DEF Local
<1>11. QED
  BY <1>1, <1>2, <1>3, <1>4, <1>5, <1>10, StepKeeps

\* The file of a delete goes while its row is still there; the call is at
\* unregister then, which excuses it.
LEMMA UnlinkInv == ASSUME Inv, NEW c \in Calls, Unlink(c) PROVE Inv'
<1>1. pc[c] = "unlink" /\ UNCHANGED <<points, shelf, catalog, ask>>
  BY DEF Unlink
<1>2. Running(c) /\ pc[c] # "done" /\ ask[c].kind = "delete" /\ ask[c] \in Asks
  BY <1>1 DEF Running, Ended, Inv, Control
<1>3. CASE ~Exists(File(c))
  BY <1>1, <1>2, <1>3, RaiseInv DEF Unlink
<1>4. CASE Exists(File(c))
  <2>1. Put(File(c), Absent) /\ Keep(c, "unregister", Blank) /\ UNCHANGED <<mixed, lapses, fresh>>
    BY <1>4 DEF Unlink, history
  <2>2. Step(c) /\ Asked' /\ pc'[c] = "unregister" /\ mem'[c] = Blank /\ c \notin fresh
    BY <1>1, <1>2, <2>1, KeepMoves, BlankTypes DEF Places
  <2>3. PICK e \in Files : e = File(c) /\ e[1] = Doc(c) /\ e[1] \in Sources(ask'[c])
    BY <1>1, <1>2, AskTypes
  <2>4. PICK d \in Docs : d = Doc(c) /\ Sources(ask'[c]) = {d}
    BY <1>1, <1>2, AskTypes DEF OfOneFile
  <2>5. /\ Stored' /\ Foot(Sources(ask'[c]))
        /\ files'[e] = Absent /\ \A g \in Files \ {e} : files'[g] = files[g]
    BY <1>1, <2>1, <2>3, PutEffect DEF Inv
  <2>6. Control(c)'
    BY <1>1, <1>2, <2>2, BlankTypes DEF Control
  <2>7. Deleting(c, d)' /\ Astray(c, d)'
    BY <1>1, <1>2, <2>2, <2>4 DEF Deleting, Astray, Doc, OfOneFile
  <2>8. ASSUME c \notin mixed PROVE Local(c)'
    <3>1. NoChunks(e) \/ "remove" \in lapses[c]
      BY <1>1, <1>2, <2>3, <2>8 DEF Inv, Own, Removing
    <3>2. RowSound(d)'
      BY <2>2, <2>7 DEF RowSound, RowExcused
    <3>3. ASSUME NEW g \in Files, g[1] = d PROVE ChunksSound(g)'
      <4>1. NoChunks(g)' <=> NoChunks(g)
        BY <1>1 DEF NoChunks
      <4>2. CASE g = e /\ "remove" \in lapses[c]
        BY <2>1, <2>7, <3>3, <4>2 DEF ChunksSound, ChunksExcused
      <4>3. CASE g = e /\ NoChunks(e)
        BY <4>1, <4>3 DEF ChunksSound
      <4>4. CASE g # e
        <5>1. ChunksExcused(d) => ChunksExcused(d)'
          BY <2>2, ExcusesStay
        <5>2. QED
          BY <2>5, <3>3, <4>1, <4>4, <5>1 DEF Inv, ChunksSound, Exists
      <4>5. QED
        BY <3>1, <4>2, <4>3, <4>4
    <3>4. Own(c)'
      <4>1. File(c)' = e
        BY <1>1, <2>3, SameFile
      <4>2. ~Exists(File(c))'
        BY <2>5, <4>1 DEF Exists
      <4>3. QED
        BY <1>1, <1>2, <2>2, <4>2
           DEF Own, Begun, Saving, Removing, Refreshing, OfDirectory, OfOneFile, Saves
    <3>5. QED
      BY <2>1, <2>2, <2>4, <3>2, <3>3, <3>4 DEF Local
  <2>9. QED
    BY <1>1, <1>2, <2>1, <2>2, <2>5, <2>6, <2>8, StepKeeps
<1>5. QED
  BY <1>3, <1>4

\* A row that is gone needs no excuse.
LEMMA RowGone ==
  ASSUME Inv, NEW c \in Calls, Step(c), pc[c] = "unregister", ask[c] \in Asks,
         catalog' = [catalog EXCEPT ![Doc(c)] = NoRow], UNCHANGED <<files, points, shelf, ask>>
  PROVE  /\ Stored' /\ Foot(Sources(ask'[c])) /\ catalog'[Doc(c)] = NoRow
         /\ \A d \in Sources(ask'[c]) : RowSound(d)'
         /\ \A f \in Files : ChunksSound(f)'
<1>1. ask[c].kind = "delete"
  BY DEF Inv, Control
<1>2. PICK d \in Docs : d = Doc(c) /\ Sources(ask'[c]) = {d}
  BY <1>1, AskTypes DEF OfOneFile
<1>3. Stored' /\ Foot(Sources(ask'[c])) /\ catalog'[d] = NoRow
  <2>1. PICK S : S = Sources(ask'[c]) /\ d \in S
    BY <1>2
  <2>2. Stored' /\ Foot(S) /\ catalog'[d] = NoRow
    BY <1>2, <2>1, RowEffect DEF Inv
  <2>3. QED
    BY <2>1, <2>2
<1>4. RowSound(d)'
  BY <1>3 DEF RowSound
<1>5. ASSUME NEW f \in Files PROVE ChunksSound(f)'
  <2>1. ChunksSound(f) /\ (ChunksExcused(f[1]) => ChunksExcused(f[1])')
    BY ExcusesStay, FileTypes DEF Inv
  <2>2. QED
    BY <2>1 DEF ChunksSound, Exists, NoChunks
<1>6. QED
  BY <1>2, <1>3, <1>4, <1>5

LEMMA UnregisterInv == ASSUME Inv, NEW c \in Calls, Unregister(c) PROVE Inv'
<1>1. /\ pc[c] = "unregister" /\ catalog' = [catalog EXCEPT ![Doc(c)] = NoRow]
      /\ Answer(c) /\ UNCHANGED <<files, points, shelf, ask>>
  BY DEF Unregister
<1>2. Running(c) /\ pc[c] # "done" /\ ask[c].kind = "delete"
  BY <1>1 DEF Running, Ended, Inv, Control
<1>3. /\ Step(c) /\ Asked' /\ pc'[c] = "done" /\ mem'[c] = Blank /\ ask[c] \in Asks
      /\ UNCHANGED <<mixed, lapses>>
  BY <1>1, <1>2, AnswerMoves
<1>4. Control(c)' /\ ~Running(c)'
  BY <1>1, <1>2, <1>3, BlankTypes DEF Control, Running, Ended
<1>5. /\ Stored' /\ Foot(Sources(ask'[c])) /\ catalog'[Doc(c)] = NoRow
      /\ \A d \in Sources(ask'[c]) : RowSound(d)'
      /\ \A f \in Files : ChunksSound(f)'
  BY <1>1, <1>3, RowGone
<1>6. ASSUME c \notin mixed PROVE Kept(c)'
  <2>1. ~Exists(File(c))
    BY <1>1, <1>2, <1>6 DEF Inv, Own, Removing
  <2>2. File(c)' = File(c) /\ Doc(c)' = Doc(c)
    BY <1>1, SameFile
  <2>3. ~Exists(File(c))' /\ catalog'[Doc(c)'] = NoRow
    BY <1>1, <1>5, <2>1, <2>2 DEF Exists
  <2>4. QED
    BY <1>1, <1>2, <2>3 DEF Kept, Saved, Refreshed, Gone, Saves
<1>7. c \notin mixed => Local(c)'
  BY <1>4, <1>5, <1>6 DEF Local
<1>8. QED
  BY <1>1, <1>2, <1>3, <1>4, <1>5, <1>7, StepKeeps

LEMMA JavaFailsInv == ASSUME Inv, NEW c \in Calls, JavaFails(c) PROVE Inv'
<1>1. /\ pc[c] \in {"register", "unregister"}
      /\ Raise(c) \/ (Goto(c, "late") /\ UNCHANGED <<mem, mixed, lapses, fresh>>)
      /\ UNCHANGED <<files, points, shelf, catalog, ask>>
  BY DEF JavaFails, history
<1>2. Running(c) /\ pc[c] # "done" /\ ask[c].kind \in OfOneFile
  BY <1>1 DEF Running, Ended, Inv, Control, Saves, OfOneFile
<1>3. CASE Raise(c)
  BY <1>1, <1>2, <1>3, RaiseInv
<1>4. ASSUME Goto(c, "late"), UNCHANGED <<mem, mixed, lapses, fresh>> PROVE Inv'
  <2>1. mem \in [Calls -> Memory] /\ lapses \in [Calls -> SUBSET {"remove", "removeKb"}]
    BY DEF Inv, Asked
  <2>2. Step(c) /\ Asked' /\ pc'[c] = "late" /\ ask[c] \in Asks /\ c \notin fresh
    BY <1>1, <1>2, <1>4, <2>1, LaterMoves DEF Places, Ended
  <2>3. Stored' /\ Foot(Sources(ask'[c]))
    BY <1>1, NothingTouched DEF Inv
  <2>4. Control(c)' /\ ~Running(c)'
    BY <1>1, <1>2, <1>4, <2>2 DEF Inv, Control, Running, Ended
  <2>5. Local(c)'
    BY <1>1, <1>4, <2>2, <2>4, SoundStays DEF Exists, NoChunks
  <2>6. QED
    BY <1>1, <1>2, <1>4, <2>2, <2>3, <2>4, <2>5, StepKeeps
<1>5. QED
  BY <1>1, <1>3, <1>4

\* A call given up is no longer under way when Java does what it asked: the row of its
\* document is gone or excused by the call, and the calls answered on it are not fresh.
LEMMA JavaLandsInv == ASSUME Inv, NEW c \in Calls, JavaLands(c) PROVE Inv'
<1> DEFINE row == IF ask[c].kind = "delete" THEN NoRow ELSE Row(c)
<1>1. /\ pc[c] = "late" /\ catalog' = [catalog EXCEPT ![Doc(c)] = row]
      /\ pc' = [pc EXCEPT ![c] = "landed"] /\ mem' = [mem EXCEPT ![c] = Blank]
      /\ fresh' = {e \in fresh : Doc(e) # Doc(c) \/ ask[e].kind \in OfDirectory}
      /\ UNCHANGED <<files, points, shelf, ask, mixed, lapses>>
  BY DEF JavaLands, Keep, Goto
<1>2. /\ pc \in [Calls -> Places] /\ mem \in [Calls -> Memory]
      /\ fresh \subseteq {e \in Calls : pc[e] = "done"}
      /\ ask[c] \in Asks /\ ask[c].kind \in OfOneFile
  BY <1>1 DEF Inv, Asked, Control
<1>3. PICK d \in Docs : d = Doc(c)
  BY <1>2, AskTypes
<1>4. row # NoRow => row.file \in {d} \X Suffixes
  <2>1. PICK f \in Files : f = File(c) /\ f[1] = d
    BY <1>2, <1>3, AskTypes
  <2>2. f \in {d} \X Suffixes
    BY <2>1, FileTypes
  <2>3. QED
    BY <2>1, <2>2 DEF Row
<1> HIDE DEF row
<1>5. /\ pc'[c] = "landed" /\ mem'[c] = Blank /\ c \notin fresh
      /\ \A e \in Calls \ {c} : pc'[e] = pc[e] /\ mem'[e] = mem[e]
  BY <1>1, <1>2
<1>6. \A e \in Calls : (Running(e)' <=> Running(e)) /\ (Running(e) => e # c)
  BY <1>1, <1>5 DEF Running, Ended
<1>7. DOMAIN catalog = Docs /\ catalog'[d] = row /\ \A x \in Docs \ {d} : catalog'[x] = catalog[x]
  BY <1>1, <1>3 DEF Inv, Stored
<1>8. Stored'
  <2>1. d \in {d}
    OBVIOUS
  <2>2. QED
    BY <1>1, <1>3, <1>4, <2>1, RowEffect DEF Inv
<1>9. Asked'
  <2>1. pc' \in [Calls -> Places] /\ mem' \in [Calls -> Memory]
    BY <1>1, <1>2, BlankTypes DEF Places, Ended
  <2>2. fresh' \subseteq {e \in Calls : pc'[e] = "done"}
    BY <1>1, <1>2, <1>5
  <2>3. QED
    BY <1>1, <2>1, <2>2 DEF Inv, Asked
<1>10. Apart'
  <2>1. fresh' \subseteq fresh
    BY <1>1
  <2>2. QED
    BY <1>1, <1>6, <2>1 DEF Inv, Apart
<1>11. ASSUME NEW e \in Calls PROVE Control(e)'
  <2>1. CASE e = c
    BY <1>1, <1>2, <1>5, <2>1, BlankTypes DEF Control
  <2>2. CASE e # c
    <3>1. pc'[e] = pc[e] /\ mem'[e] = mem[e] /\ ask'[e] = ask[e] /\ mixed' = mixed /\ Control(e)
      BY <1>1, <1>5, <2>2 DEF Inv
    <3>2. File(e)' = File(e)
      BY <1>1, SameFile
    <3>3. QED
      BY <3>1, <3>2 DEF Control
  <2>3. QED
    BY <2>1, <2>2
<1>12. ASSUME NEW x \in Docs, catalog'[x] # NoRow, RowExcused(x) PROVE RowExcused(x)'
  <2>1. CASE Mixed(x)
    BY <1>1, <2>1 DEF RowExcused, Mixed
  <2>2. ASSUME NEW e \in Calls, Astray(e, x) PROVE Astray(e, x)'
    <3>1. x = Doc(e) /\ ask'[e] = ask[e] /\ Doc(e)' = Doc(e)
      BY <1>1, <2>2, SameFile DEF Astray
    <3>2. CASE e # c
      BY <1>5, <2>2, <3>1, <3>2 DEF Astray
    <3>3. CASE e = c
      <4>1. ask[c].kind # "delete"
        BY <1>3, <1>7, <1>12, <3>1, <3>3 DEF row
      <4>2. QED
        BY <1>5, <2>2, <3>1, <3>3, <4>1 DEF Astray
    <3>4. QED
      BY <3>2, <3>3
  <2>3. QED
    BY <1>12, <2>1, <2>2 DEF RowExcused
<1>13. catalog'[d] # NoRow => RowExcused(d)'
  <2>1. ASSUME catalog'[d] # NoRow PROVE Astray(c, d)'
    <3>1. ask[c].kind # "delete"
      BY <1>7, <2>1 DEF row
    <3>2. Doc(c)' = d
      BY <1>1, <1>3, SameFile
    <3>3. QED
      BY <1>1, <1>2, <1>5, <3>1, <3>2 DEF Astray
  <2>2. QED
    BY <2>1 DEF RowExcused
<1>14. ASSUME NEW x \in Docs PROVE RowSound(x)'
  <2>1. CASE x = d
    BY <1>13, <2>1 DEF RowSound
  <2>2. CASE x # d
    BY <1>1, <1>7, <1>12, <2>2 DEF Inv, RowSound, Exists
  <2>3. QED
    BY <2>1, <2>2
<1>15. \A x \in Docs : ChunksExcused(x) => ChunksExcused(x)'
  BY <1>1 DEF ChunksExcused, Mixed, Deleting, Doc
<1>16. ASSUME NEW f \in Files PROVE ChunksSound(f)'
  BY <1>1, <1>15, FileTypes DEF Inv, ChunksSound, NoChunks, Exists
<1>17. ASSUME NEW e \in Calls, Running(e)', e \notin mixed' PROVE Own(e)'
  <2>1. Running(e) /\ e # c /\ Own(e) /\ ask[e] \in Asks
    <3>1. Running(e) /\ e # c /\ Own(e)
      BY <1>1, <1>6, <1>17 DEF Inv
    <3>2. pc[e] # "start"
      BY <3>1 DEF Running
    <3>3. QED
      BY <3>1, <3>2 DEF Inv, Control
  <2>2. pc'[e] = pc[e] /\ mem'[e] = mem[e] /\ ask'[e] = ask[e] /\ lapses' = lapses
    BY <1>1, <1>5, <2>1
  <2>3. File(e)' = File(e) /\ Doc(e)' = Doc(e)
    BY <1>1, SameFile
  <2>4. Begun(e)'
    <3>1. PICK x \in Docs : x = Doc(e)
      BY <2>1, AskTypes
    <3>2. ASSUME ask[e].kind = "upload", pc[e] \in {"write", "parse"}
          PROVE  (catalog'[x] # NoRow => RowExcused(x)') /\ (NoChunks(File(e))' \/ ChunksExcused(x)')
      <4>1. /\ catalog[x] # NoRow => RowExcused(x)
            /\ NoChunks(File(e)) \/ ChunksExcused(x)
        BY <2>1, <3>1, <3>2 DEF Own, Begun
      <4>2. catalog'[x] # NoRow => RowExcused(x)'
        BY <1>7, <1>12, <1>13, <4>1
      <4>3. NoChunks(File(e)) => NoChunks(File(e))'
        BY <1>1, <2>3 DEF NoChunks
      <4>4. QED
        BY <1>15, <4>1, <4>2, <4>3
    <3>3. Doc(e)' = x
      BY <2>3, <3>1
    <3>4. /\ RowExcused(x)' <=> RowExcused(Doc(e))'
          /\ ChunksExcused(x)' <=> ChunksExcused(Doc(e))'
      BY <3>3 DEF RowExcused, ChunksExcused, Mixed, Deleting, Astray
    <3>5. QED
      BY <2>2, <3>2, <3>3, <3>4 DEF Begun
  <2>5. Saving(e)' /\ Removing(e)' /\ Refreshing(e)'
    <3>1. Saving(e) /\ Removing(e) /\ Refreshing(e)
      BY <2>1 DEF Own
    <3>2. /\ Exists(File(e))' = Exists(File(e)) /\ NoChunks(File(e))' = NoChunks(File(e))
          /\ Served(e, File(e))' = Served(e, File(e)) /\ Unshelved(e)' = Unshelved(e)
      BY <1>1, <2>2, <2>3 DEF Exists, NoChunks, Served, Chunks, Chunk, Unshelved
    <3>3. \A f \in Files : (Exists(f)' <=> Exists(f)) /\ (NoChunks(f)' <=> NoChunks(f))
      BY <1>1 DEF Exists, NoChunks
    <3>4. Saving(e)'
      BY <1>1, <2>2, <2>3, <3>1, <3>2 DEF Saving
    <3>5. Removing(e)'
      BY <2>2, <3>1, <3>2 DEF Removing
    <3>6. Refreshing(e)'
      BY <1>1, <2>2, <3>1, <3>3 DEF Refreshing
    <3>7. QED
      BY <3>4, <3>5, <3>6
  <2>6. QED
    BY <2>4, <2>5 DEF Own
<1>18. ASSUME NEW e \in fresh' PROVE Kept(e)'
  <2>1. e \in Calls /\ Kept(e) /\ e # c /\ (Doc(e) # d \/ ask[e].kind \in OfDirectory)
    BY <1>1, <1>2, <1>3, <1>5, <1>18 DEF Inv
  <2>2. ask[e] \in Asks
    BY <1>1, <1>2, <1>18 DEF Inv, Control
  <2>3. File(e)' = File(e) /\ Doc(e)' = Doc(e)
    BY <1>1, <2>1, SameFile
  <2>4. Refreshed(e)' /\ (ask[e].kind \in OfOneFile => catalog'[Doc(e)'] = catalog[Doc(e)])
    <3>1. Refreshed(e)' <=> Refreshed(e)
      BY <1>1 DEF Refreshed, Exists, Alone, Served, Chunks, Chunk
    <3>2. ask[e].kind \in OfOneFile => Doc(e) \in Docs \ {d}
      BY <2>1, <2>2, AskTypes DEF OfOneFile, OfDirectory
    <3>3. QED
      BY <1>7, <2>1, <2>3, <3>1, <3>2 DEF Kept
  <2>5. /\ Exists(File(e))' = Exists(File(e)) /\ Served(e, File(e))' = Served(e, File(e))
        /\ Unshelved(e)' = Unshelved(e)
    BY <1>1, <2>3 DEF Exists, Served, Chunks, Chunk, Unshelved
  <2>6. Saved(e)' /\ Gone(e)'
    BY <1>1, <2>1, <2>3, <2>4, <2>5 DEF Kept, Saved, Gone, Saves, OfOneFile
  <2>7. QED
    BY <2>4, <2>6 DEF Kept
<1>19. QED
  BY <1>8, <1>9, <1>10, <1>11, <1>14, <1>16, <1>17, <1>18 DEF Inv

-----------------------------------------------------------------------------
(* The first steps.                                                        *)

LEMMA FirstInv ==
  ASSUME Inv, NEW c \in Calls, NEW a \in Asks, Arrive(c, a),
         NEW l \in Places, l \notin {"start", "done"}, Goto(c, l),
         mem' \in [Calls -> Memory], \A d \in Calls \ {c} : mem'[d] = mem[d],
         UNCHANGED <<points, catalog>>, Stored', Foot(Sources(a)),
         \A f \in Files : Exists(f) => Exists(f)',
         ask'[c] = a => Control(c)' /\ (Running(c)' => Own(c)')
  PROVE  Inv'
<1>1. /\ Step(c) /\ Asked' /\ pc'[c] = l /\ ask'[c] = a /\ pc[c] = "start" /\ c \notin fresh'
  BY FirstMoves
<1>2. Local(c)'
  BY <1>1, SoundStays DEF NoChunks
<1>3. QED
  BY <1>1, <1>2, StepKeeps

\* A request has nothing in its memory before.
LEMMA StartsBlank ==
  ASSUME Inv, NEW c \in Calls, NEW a \in Asks, Arrive(c, a)
  PROVE  /\ pc[c] = "start" /\ pc \in [Calls -> Places] /\ mem \in [Calls -> Memory]
         /\ mem[c] \in Memory /\ mem[c].todo = {} /\ \A f \in Files : mem[c].held[f] = Absent
         /\ ask' = [ask EXCEPT ![c] = a] /\ ask'[c] = a
<1>1. pc[c] = "start" /\ ask' = [ask EXCEPT ![c] = a]
  BY DEF Arrive
<1>2. /\ pc \in [Calls -> Places] /\ mem \in [Calls -> Memory] /\ ask \in [Calls -> Asks \cup {NotAsked}]
      /\ mem[c] \in Memory
  BY DEF Inv, Asked
<1>3. mem[c].todo = {} /\ \A f \in Files : mem[c].held[f] = Absent
  <2>1. mem[c].todo \in SUBSET Files
    BY <1>2 DEF Memory
  <2>2. QED
    BY <1>1, <2>1 DEF Inv, Control
<1>4. QED
  BY <1>1, <1>2, <1>3

\* The document and the file of a request that has just arrived.
LEMMA ArrivedTypes ==
  ASSUME NEW c \in Calls, NEW a \in Asks, ask'[c] = a
  PROVE  /\ a.doc \in Docs /\ Md(a.doc) \in Files /\ Md(a.doc)[1] = a.doc
         /\ Doc(c)' = a.doc /\ a.doc \in Sources(a)
         /\ a.kind # "upload" => File(c)' = Md(a.doc)
         /\ a.kind = "upload" => File(c)' = <<a.doc, a.suffix>> /\ a.suffix \in Suffixes
         /\ a.kind \in OfOneFile => Sources(a) = {a.doc}
         /\ a.kind \in OfDirectory => Sources(a) = Docs
  BY AsksAssumption DEF Doc, File, Md, Files, Suffixes, Sources, OfOneFile, OfDirectory

LEMMA CreateInv == ASSUME Inv, NEW c \in Calls, NEW a \in Asks, Create(c, a) PROVE Inv'
<1> DEFINE v == Loaded(c, a.lines, <<c, "form">>)
           m == [Blank EXCEPT !.labels = <<c, "form">>]
<1>1. /\ a.kind = "create" /\ Arrive(c, a) /\ Put(Md(a.doc), v) /\ Goto(c, "remove")
      /\ mem' = [mem EXCEPT ![c] = m] /\ UNCHANGED <<points, shelf, catalog>>
  BY DEF Create, Keep
<1>2. pc[c] = "start" /\ mem \in [Calls -> Memory] /\ pc \in [Calls -> Places] /\ ask'[c] = a
  BY <1>1, StartsBlank
<1>3. v \in Version /\ RowAgrees("create", v, <<c, "form">>)
  BY AsksAssumption, LoadedTypes, FormTypes DEF Writers
<1>4. /\ m \in Memory /\ (\A f \in Files : m.held[f] = Absent) /\ m.todo = {}
      /\ m.labels = <<c, "form">>
  BY BlankTypes, FormTypes DEF Memory, Blank
<1> HIDE DEF v, m
<1>5. mem' \in [Calls -> Memory] /\ mem'[c] = m /\ \A d \in Calls \ {c} : mem'[d] = mem[d]
  BY <1>1, <1>2, <1>4
<1>6. PICK e \in Files : e = Md(a.doc) /\ e[1] \in Sources(a) /\ File(c)' = e
  BY <1>1, <1>2, ArrivedTypes
<1>7. /\ Stored' /\ Foot(Sources(a))
      /\ files'[e] = v /\ \A g \in Files \ {e} : files'[g] = files[g]
  BY <1>1, <1>3, <1>6, PutEffect DEF Inv
<1>8. \A f \in Files : Exists(f) => Exists(f)'
  BY <1>3, <1>7, AbsentTypes DEF Exists
<1>9. pc'[c] = "remove"
  BY <1>1, <1>2 DEF Goto
<1>10. Control(c)'
  BY <1>1, <1>2, <1>4, <1>5, <1>9 DEF Control, OfOneFile
<1>11. Own(c)'
  <2>1. Exists(File(c))' /\ RowAgrees("create", files'[File(c)'], mem'[c].labels)
    BY <1>3, <1>4, <1>5, <1>6, <1>7, AbsentTypes DEF Exists
  <2>2. QED
    BY <1>1, <1>2, <1>9, <2>1 DEF Own, Begun, Saving, Removing, Refreshing, OfDirectory
<1>12. QED
  BY <1>1, <1>5, <1>7, <1>8, <1>10, <1>11, FirstInv DEF Places

\* Where there is no file of a document, its row and its chunks are excused.
LEMMA CheckUploadInv == ASSUME Inv, NEW c \in Calls, NEW a \in Asks, CheckUpload(c, a) PROVE Inv'
<1>1. /\ a.kind = "upload" /\ Arrive(c, a) /\ UNCHANGED <<files, points, shelf, catalog, mem>>
      /\ Goto(c, IF \E s \in Suffixes : Exists(<<a.doc, s>>) THEN "refused" ELSE "write")
  BY DEF CheckUpload
<1>2. PICK l \in {"refused", "write"} :
        l = IF \E s \in Suffixes : Exists(<<a.doc, s>>) THEN "refused" ELSE "write"
  OBVIOUS
<1>3. /\ pc[c] = "start" /\ mem \in [Calls -> Memory] /\ pc \in [Calls -> Places] /\ ask'[c] = a
      /\ mem[c].todo = {} /\ \A f \in Files : mem[c].held[f] = Absent
  BY <1>1, StartsBlank
<1>4. Goto(c, l) /\ pc'[c] = l
  BY <1>1, <1>2, <1>3 DEF Goto
<1>5. Stored' /\ Foot(Sources(a))
  BY <1>1, NothingTouched DEF Inv
<1>6. Control(c)'
  BY <1>1, <1>2, <1>3, <1>4 DEF Control, Ended
<1>7. Step(c) /\ a \in Asks
  BY <1>1, <1>2, <1>3, <1>4, FirstMoves DEF Places, Ended
<1>8. Running(c)' => Own(c)'
  <2>1. ASSUME l = "write" PROVE Begun(c)'
    <3>1. PICK d \in Docs : d = a.doc /\ Doc(c)' = d
      BY <1>3, ArrivedTypes
    <3>2. PICK e \in Files : e = File(c)' /\ e[1] = d /\ e = <<d, a.suffix>> /\ a.suffix \in Suffixes
      BY <1>1, <1>3, <3>1, FileTypes, ArrivedTypes
    <3>3. \A s \in Suffixes : ~Exists(<<d, s>>)
      BY <1>2, <2>1, <3>1
    <3>4. catalog[d] # NoRow => RowExcused(d)
      <4>1. RowSound(d) /\ (catalog[d] # NoRow => catalog[d].file \in {d} \X Suffixes)
        BY DEF Inv, Stored
      <4>2. ASSUME NEW f \in {d} \X Suffixes PROVE ~Exists(f)
        BY <3>3, <4>2
      <4>3. QED
        BY <4>1, <4>2 DEF RowSound
    <3>5. NoChunks(e) \/ ChunksExcused(d)
      BY <3>2, <3>3 DEF Inv, ChunksSound
    <3>6. (RowExcused(d) => RowExcused(d)') /\ (ChunksExcused(d) => ChunksExcused(d)')
      BY <1>3, <1>7, ExcusesStay
    <3>7. catalog'[d] # NoRow => RowExcused(d)'
      BY <1>1, <3>4, <3>6
    <3>8. NoChunks(e)' \/ ChunksExcused(d)'
      BY <1>1, <3>5, <3>6 DEF NoChunks
    <3>9. /\ catalog'[Doc(c)'] # NoRow => RowExcused(Doc(c))'
          /\ NoChunks(File(c))' \/ ChunksExcused(Doc(c))'
      BY <3>1, <3>2, <3>7, <3>8 DEF RowExcused, ChunksExcused, NoChunks, Mixed, Deleting, Astray
    <3>10. QED
      BY <3>9 DEF Begun
  <2>2. QED
    BY <1>1, <1>2, <1>3, <1>4, <2>1
       DEF Own, Running, Ended, Saving, Removing, Refreshing, OfDirectory
<1>9. QED
  BY <1>1, <1>2, <1>3, <1>4, <1>5, <1>6, <1>8, FirstInv DEF Places, Ended, Exists

\* A request that is refused.
LEMMA RefusedInv ==
  ASSUME Inv, NEW c \in Calls, NEW a \in Asks, Arrive(c, a), Goto(c, "refused"),
         UNCHANGED <<files, points, shelf, catalog, mem>>
  PROVE  Inv'
<1>1. /\ pc[c] = "start" /\ mem \in [Calls -> Memory] /\ pc \in [Calls -> Places] /\ ask'[c] = a
      /\ mem[c].todo = {} /\ \A f \in Files : mem[c].held[f] = Absent
  BY StartsBlank
<1>2. pc'[c] = "refused"
  BY <1>1 DEF Goto
<1>3. Stored' /\ Foot(Sources(a))
  BY NothingTouched DEF Inv
<1>4. Control(c)' /\ ~Running(c)'
  BY <1>1, <1>2 DEF Control, Running, Ended
<1>5. QED
  BY <1>1, <1>3, <1>4, FirstInv DEF Places, Ended, Exists

LEMMA CheckUpdateInv == ASSUME Inv, NEW c \in Calls, NEW a \in Asks, CheckUpdate(c, a) PROVE Inv'
<1>1. a.kind = "update" /\ Arrive(c, a) /\ UNCHANGED <<files, points, shelf, catalog>>
  BY DEF CheckUpdate
<1>2. CASE ~Exists(Md(a.doc))
  BY <1>1, <1>2, RefusedInv DEF CheckUpdate
<1>3. CASE Exists(Md(a.doc))
  <2> DEFINE h == [NoFiles EXCEPT ![Md(a.doc)] = files[Md(a.doc)]]
             m == [Blank EXCEPT !.held = h]
  <2>1. Goto(c, "write") /\ mem' = [mem EXCEPT ![c] = m]
    BY <1>3 DEF CheckUpdate, Keep
  <2>2. pc[c] = "start" /\ mem \in [Calls -> Memory] /\ pc \in [Calls -> Places] /\ ask'[c] = a
    BY <1>1, StartsBlank
  <2>3. PICK e \in Files : e = Md(a.doc) /\ e[1] \in Sources(a) /\ File(c)' = e
    BY <1>1, <2>2, ArrivedTypes
  <2>4. /\ h \in [Files -> Version \cup {Absent}] /\ h[e] \in Version
        /\ \A g \in Files : g # e => h[g] = Absent
    <3>1. files \in [Files -> Version \cup {Absent}] /\ files[e] # Absent
      BY <1>3, <2>3 DEF Inv, Stored, Exists
    <3>2. QED
      BY <2>3, <3>1 DEF NoFiles
  <2> HIDE DEF h
  <2>5. m \in Memory /\ m.held = h /\ m.todo = {}
    BY <2>4, BlankTypes DEF Memory, Blank
  <2> HIDE DEF m
  <2>6. mem' \in [Calls -> Memory] /\ mem'[c] = m /\ \A d \in Calls \ {c} : mem'[d] = mem[d]
    BY <2>1, <2>2, <2>5
  <2>7. Stored' /\ Foot(Sources(a))
    BY <1>1, NothingTouched DEF Inv
  <2>8. pc'[c] = "write"
    BY <2>1, <2>2 DEF Goto
  <2>9. Control(c)'
    <3>1. \A g \in Files : mem'[c].held[g] # Absent \/ g \in mem'[c].todo => g[1] \in Sources(ask'[c])
      BY <2>2, <2>3, <2>4, <2>5, <2>6
    <3>2. mem'[c].held[File(c)'] \in Version
      BY <2>3, <2>4, <2>5, <2>6
    <3>3. QED
      BY <1>1, <2>2, <2>8, <3>1, <3>2 DEF Control
  <2>10. Own(c)'
    BY <1>1, <2>2, <2>8 DEF Own, Begun, Saving, Removing, Refreshing, OfDirectory
  <2>11. QED
    BY <1>1, <2>1, <2>6, <2>7, <2>9, <2>10, FirstInv DEF Places, Exists
<1>4. QED
  BY <1>2, <1>3

LEMMA CheckIngestInv == ASSUME Inv, NEW c \in Calls, NEW a \in Asks, CheckIngest(c, a) PROVE Inv'
<1>1. a.kind = "ingest" /\ Arrive(c, a) /\ UNCHANGED <<files, points, shelf, catalog>>
  BY DEF CheckIngest
<1>2. CASE ~Exists(Md(a.doc))
  BY <1>1, <1>2, RefusedInv DEF CheckIngest
<1>3. CASE Exists(Md(a.doc))
  <2> DEFINE m == [Blank EXCEPT !.labels = Said(files[Md(a.doc)])]
  <2>1. Goto(c, "remove") /\ mem' = [mem EXCEPT ![c] = m]
    BY <1>3 DEF CheckIngest, Keep
  <2>2. pc[c] = "start" /\ mem \in [Calls -> Memory] /\ pc \in [Calls -> Places] /\ ask'[c] = a
    BY <1>1, StartsBlank
  <2>3. PICK e \in Files : e = Md(a.doc) /\ e[1] \in Sources(a) /\ File(c)' = e
    BY <1>1, <2>2, ArrivedTypes
  <2>4. files[e] \in Version
    BY <1>3, <2>3 DEF Inv, Stored, Exists
  <2>5. /\ m \in Memory /\ (\A f \in Files : m.held[f] = Absent) /\ m.todo = {}
        /\ m.labels = Said(files[e])
    BY <2>3, <2>4, BlankTypes, SaidTypes DEF Memory, Blank
  <2> HIDE DEF m
  <2>6. mem' \in [Calls -> Memory] /\ mem'[c] = m /\ \A d \in Calls \ {c} : mem'[d] = mem[d]
    BY <2>1, <2>2, <2>5
  <2>7. Stored' /\ Foot(Sources(a))
    BY <1>1, NothingTouched DEF Inv
  <2>8. pc'[c] = "remove"
    BY <2>1, <2>2 DEF Goto
  <2>9. Control(c)'
    BY <1>1, <2>2, <2>5, <2>6, <2>8 DEF Control, OfOneFile
  <2>10. Own(c)'
    <3>1. Exists(File(c))' /\ RowAgrees("ingest", files'[File(c)'], mem'[c].labels)
      BY <1>1, <1>3, <2>3, <2>4, <2>5, <2>6, SaidTypes DEF Exists
    <3>2. QED
      BY <1>1, <2>2, <2>8, <3>1 DEF Own, Begun, Saving, Removing, Refreshing, OfDirectory
  <2>11. QED
    BY <1>1, <2>1, <2>6, <2>7, <2>9, <2>10, FirstInv DEF Places, Exists
<1>4. QED
  BY <1>2, <1>3

LEMMA CheckDeleteInv == ASSUME Inv, NEW c \in Calls, NEW a \in Asks, CheckDelete(c, a) PROVE Inv'
<1>1. /\ a.kind = "delete" /\ Arrive(c, a) /\ UNCHANGED <<files, points, shelf, catalog, mem>>
      /\ Goto(c, IF Exists(Md(a.doc)) THEN "remove" ELSE "unregister")
  BY DEF CheckDelete
<1>2. PICK l \in {"remove", "unregister"} : l = IF Exists(Md(a.doc)) THEN "remove" ELSE "unregister"
  OBVIOUS
<1>3. /\ pc[c] = "start" /\ mem \in [Calls -> Memory] /\ pc \in [Calls -> Places] /\ ask'[c] = a
      /\ mem[c].todo = {} /\ \A f \in Files : mem[c].held[f] = Absent
  BY <1>1, StartsBlank
<1>4. Goto(c, l) /\ pc'[c] = l
  BY <1>1, <1>2, <1>3 DEF Goto
<1>5. Stored' /\ Foot(Sources(a))
  BY <1>1, NothingTouched DEF Inv
<1>6. Control(c)'
  BY <1>1, <1>2, <1>3, <1>4 DEF Control, OfOneFile
<1>7. Own(c)'
  <2>1. PICK e \in Files : e = Md(a.doc) /\ File(c)' = e
    BY <1>1, <1>3, ArrivedTypes
  <2>2. l = "unregister" => ~Exists(e)
    BY <1>2, <2>1
  <2>3. l = "unregister" => ~Exists(File(c))'
    BY <1>1, <2>1, <2>2 DEF Exists
  <2>4. QED
    BY <1>1, <1>2, <1>3, <1>4, <2>3 DEF Own, Begun, Saving, Removing, Refreshing, OfDirectory, Saves
<1>8. QED
  BY <1>1, <1>2, <1>3, <1>4, <1>5, <1>6, <1>7, FirstInv DEF Places, Exists

LEMMA LoadDirectoryInv == ASSUME Inv, NEW c \in Calls, NEW a \in Asks, LoadDirectory(c, a) PROVE Inv'
<1> DEFINE m == [Blank EXCEPT !.held = files, !.todo = {f \in Files : Exists(f)}]
<1>1. /\ a.kind \in OfDirectory /\ Arrive(c, a) /\ UNCHANGED <<files, points, shelf, catalog>>
      /\ Goto(c, IF a.kind = "refresh" THEN "purge" ELSE "upsert")
      /\ mem' = [mem EXCEPT ![c] = m]
  BY DEF LoadDirectory, Keep
<1>2. PICK l \in {"purge", "upsert"} : l = IF a.kind = "refresh" THEN "purge" ELSE "upsert"
  OBVIOUS
<1>3. pc[c] = "start" /\ mem \in [Calls -> Memory] /\ pc \in [Calls -> Places] /\ ask'[c] = a
  BY <1>1, StartsBlank
<1>4. m \in Memory /\ m.held = files /\ m.todo = {f \in Files : Exists(f)}
  <2>1. files \in [Files -> Version \cup {Absent}]
    BY DEF Inv, Stored
  <2>2. QED
    BY <2>1, BlankTypes DEF Memory, Blank
<1> HIDE DEF m
<1>5. mem' \in [Calls -> Memory] /\ mem'[c] = m /\ \A d \in Calls \ {c} : mem'[d] = mem[d]
  BY <1>1, <1>3, <1>4
<1>6. Goto(c, l) /\ pc'[c] = l
  BY <1>1, <1>2, <1>3 DEF Goto
<1>7. Stored' /\ Foot(Sources(a))
  BY <1>1, NothingTouched DEF Inv
<1>8. Control(c)'
  <2>1. \A g \in Files : g[1] \in Sources(ask'[c])
    BY <1>1, <1>3, ArrivedTypes, FileTypes
  <2>2. QED
    BY <1>1, <1>2, <1>3, <1>6, <2>1 DEF Control
<1>9. Own(c)'
  <2>1. \A f \in Files : mem'[c].held[f] = files'[f] /\ (Exists(f)' => f \in mem'[c].todo)
    BY <1>1, <1>4, <1>5 DEF Exists
  <2>2. QED
    BY <1>1, <1>2, <1>3, <1>6, <2>1
       DEF Own, Begun, Saving, Removing, Refreshing, Saves, OfDirectory, OfOneFile
<1>10. QED
  BY <1>1, <1>2, <1>3, <1>5, <1>6, <1>7, <1>8, <1>9, FirstInv DEF Places, Exists

-----------------------------------------------------------------------------
(* The invariant.                                                          *)

LEMMA FirstStepInv == ASSUME Inv, NEW c \in Calls, NEW a \in Asks, First(c, a) PROVE Inv'
  BY CreateInv, CheckUploadInv, CheckUpdateInv, CheckIngestInv, CheckDeleteInv, LoadDirectoryInv
     DEF First

LEMMA LaterStepInv == ASSUME Inv, NEW c \in Calls, Later(c) PROVE Inv'
  BY WriteUploadInv, ParseInv, ParseFailsInv, WriteUpdateInv, RemoveInv, RemoveKbInv, RemoveFailsInv,
     PurgeInv, LoadInv, FailuresInv, UpsertInv, QdrantFailsInv, RegisterInv, UnlinkInv, UnregisterInv,
     JavaFailsInv, JavaLandsInv DEF Later

\* A crash leaves the stores as they are; no call is under way after it, and a
\* delete it ends before the row has gone excuses that row as it did.
LEMMA CrashInv == ASSUME Inv, Crash PROVE Inv'
<1>0. PICK sent \in SUBSET {c \in Calls : pc[c] \in {"register", "unregister"}} :
        pc' = [c \in Calls |-> IF c \in sent THEN "late"
                               ELSE IF Running(c) THEN "failed" ELSE pc[c]]
  BY DEF Crash
<1>1. /\ mem' = [c \in Calls |-> IF pc'[c] = "late" THEN mem[c] ELSE Blank]
      /\ UNCHANGED <<files, points, shelf, catalog, ask, mixed, lapses, fresh>>
  BY DEF Crash, history
<1>2. /\ pc \in [Calls -> Places] /\ fresh \subseteq {c \in Calls : pc[c] = "done"}
      /\ mem \in [Calls -> Memory]
      /\ \A c \in Calls : mem'[c] = IF pc'[c] = "late" THEN mem[c] ELSE Blank
      /\ \A c \in Calls : IF Running(c) THEN \/ pc'[c] = "failed"
                                             \/ pc'[c] = "late" /\ pc[c] \in {"register", "unregister"}
                                        ELSE pc'[c] = pc[c]
  BY <1>0, <1>1 DEF Inv, Asked, Running, Ended
<1>3. \A c \in Calls : ~Running(c)'
  BY <1>2 DEF Running, Ended
<1>4. Stored'
  BY <1>1 DEF Inv, Stored
<1>5. Asked'
  <2>1. pc' \in [Calls -> Places] /\ mem' \in [Calls -> Memory]
    BY <1>0, <1>1, <1>2, BlankTypes DEF Places, Ended
  <2>2. fresh' \subseteq {c \in Calls : pc'[c] = "done"}
    BY <1>1, <1>2 DEF Running, Ended
  <2>3. QED
    BY <1>1, <2>1, <2>2 DEF Inv, Asked
<1>6. Apart'
  BY <1>3, <1>5 DEF Apart, Asked
<1>7. ASSUME NEW c \in Calls PROVE Control(c)'
  <2>1. pc[c] = "start" => ~Running(c)
    BY DEF Running
  <2>2. pc'[c] \in Ended \cup {"start"} /\ (pc'[c] = "start" <=> pc[c] = "start")
    BY <1>2 DEF Running, Ended
  <2>3. (pc[c] = "start" => ask[c] = NotAsked /\ c \notin mixed) /\ (pc[c] # "start" => ask[c] \in Asks)
    BY DEF Inv, Control
  <2>4. CASE pc'[c] # "late"
    BY <1>1, <1>2, <2>2, <2>3, <2>4, BlankTypes DEF Control, Ended
  <2>5. CASE pc'[c] = "late"
    <3>1. pc[c] \in {"register", "unregister", "late"} /\ mem'[c] = mem[c]
      BY <1>2, <2>5
    <3>2. ask[c].kind \in OfOneFile
      BY <3>1 DEF Inv, Control, Saves, OfOneFile
    <3>3. QED
      BY <1>1, <2>3, <2>5, <3>1, <3>2 DEF Inv, Control
  <2>6. QED
    BY <2>4, <2>5
<1>8. ASSUME NEW d \in Docs PROVE RowSound(d)'
  <2>1. Mixed(d)' <=> Mixed(d)
    BY <1>1 DEF Mixed
  <2>2. \A c \in Calls : /\ pc[c] \in {"unregister", "failed", "late"} => pc'[c] \in {"failed", "late"}
                         /\ pc[c] = "landed" => pc'[c] = "landed"
    BY <1>2 DEF Running, Ended
  <2>3. \A c \in Calls : Astray(c, d) => Astray(c, d)'
    BY <1>1, <2>2 DEF Astray, Doc
  <2>4. RowExcused(d) => RowExcused(d)'
    BY <2>1, <2>3 DEF RowExcused
  <2>5. QED
    BY <1>1, <2>4 DEF Inv, RowSound, Exists
<1>9. ASSUME NEW f \in Files PROVE ChunksSound(f)'
  BY <1>1 DEF Inv, ChunksSound, ChunksExcused, NoChunks, Exists, Mixed, Deleting, Doc
<1>10. ASSUME NEW c \in fresh' PROVE Kept(c)'
  <2>1. Kept(c)
    BY <1>1, <1>10 DEF Inv
  <2>2. Kept(c)' <=> Kept(c)
    BY <1>1 DEF Kept, Saved, Refreshed, Gone, Exists, Served, Chunks, Chunk, Alone, Unshelved, File, Doc
  <2>3. QED
    BY <2>1, <2>2
<1>11. QED
  BY <1>3, <1>4, <1>5, <1>6, <1>7, <1>8, <1>9, <1>10 DEF Inv

LEMMA StutterInv == ASSUME Inv, UNCHANGED vars PROVE Inv'
<1>1. UNCHANGED <<files, points, shelf, catalog, ask, pc, mem, mixed, lapses, fresh>>
  BY DEF vars
<1>2. Stored' /\ Asked' /\ Apart'
  BY <1>1 DEF Inv, Stored, Asked, Apart, Running
<1>3. \A c \in Calls : /\ Control(c)' /\ (Running(c)' <=> Running(c))
                       /\ (Own(c)' <=> Own(c)) /\ (Kept(c)' <=> Kept(c))
  <2>1. ASSUME NEW c \in Calls
        PROVE  Control(c)' /\ (Running(c)' <=> Running(c))
    BY <1>1 DEF Inv, Control, Running, File, Doc
  <2>2. ASSUME NEW c \in Calls PROVE Kept(c)' <=> Kept(c)
    BY <1>1 DEF Kept, Saved, Refreshed, Gone, Exists, Served, Chunks, Chunk, Alone, Unshelved, File, Doc
  <2>3. ASSUME NEW c \in Calls PROVE Begun(c)' <=> Begun(c)
    BY <1>1 DEF Begun, RowExcused, ChunksExcused, NoChunks, Mixed, Deleting, Astray, File, Doc
  <2>4. ASSUME NEW c \in Calls
        PROVE  /\ (Saving(c)' <=> Saving(c)) /\ (Removing(c)' <=> Removing(c))
               /\ (Refreshing(c)' <=> Refreshing(c))
    BY <1>1
       DEF Saving, Removing, Refreshing, NoChunks, Exists, Served, Chunks, Chunk, Unshelved, File, Doc
  <2>5. QED
    BY <2>1, <2>2, <2>3, <2>4 DEF Own
<1>4. \A d \in Docs : RowSound(d)'
  BY <1>1 DEF Inv, RowSound, RowExcused, Exists, Mixed, Astray, Doc
<1>5. \A f \in Files : ChunksSound(f)'
  BY <1>1 DEF Inv, ChunksSound, ChunksExcused, NoChunks, Exists, Mixed, Deleting, Doc
<1>6. fresh \subseteq Calls
  BY DEF Inv, Asked
<1>7. QED
  BY <1>1, <1>2, <1>3, <1>4, <1>5, <1>6 DEF Inv

LEMMA InitInv == Init => Inv
<1> SUFFICES ASSUME Init PROVE Inv
  OBVIOUS
<1>1. /\ files = [f \in Files |-> IF f = Md(Seeded) THEN Seed ELSE Absent]
      /\ points = [i \in Ids |-> Empty] /\ shelf = {Md(Seeded)}
      /\ catalog = [d \in Docs |-> NoRow] /\ ask = [c \in Calls |-> NotAsked]
      /\ pc = [c \in Calls |-> "start"] /\ mem = [c \in Calls |-> Blank]
      /\ mixed = {} /\ lapses = [c \in Calls |-> {}] /\ fresh = {}
  BY DEF Init
<1>2. Seed \in Version /\ Md(Seeded) \in Files
  BY SeededAssumption, LoadedTypes DEF Seed, Labels, Lines, Writers, Md, Files, Suffixes
<1>3. Stored
  BY <1>1, <1>2 DEF Stored, Points
<1>4. Asked
  BY <1>1, BlankTypes DEF Asked, Places
<1>5. \A c \in Calls : pc[c] = "start" /\ ~Running(c) /\ mem[c] = Blank /\ ask[c] = NotAsked
  BY <1>1 DEF Running
<1>6. Apart
  BY <1>1, <1>5 DEF Apart
<1>7. \A c \in Calls : Control(c)
  BY <1>1, <1>5, BlankTypes DEF Control
<1>8. (\A d \in Docs : RowSound(d)) /\ \A f \in Files : ChunksSound(f)
  BY <1>1, FileTypes DEF RowSound, ChunksSound, NoChunks
<1>9. QED
  BY <1>1, <1>3, <1>4, <1>5, <1>6, <1>7, <1>8 DEF Inv

LEMMA StepInv == Inv /\ [Next]_vars => Inv'
  BY FirstStepInv, LaterStepInv, CrashInv, StutterInv DEF Next

\* The inductive invariant holds of every behaviour of the endpoints.
THEOREM Invariance == Spec => []Inv
  BY InitInv, StepInv, PTL DEF Spec

-----------------------------------------------------------------------------
(* What follows from it.                                                   *)

\* The collection holds labelled chunks of texts only, and a row names a file of
\* its document, whatever calls of the endpoints ran and failed.
THEOREM TypeCorrect == Spec => []TypeOK
<1>1. Inv => TypeOK
  <2> SUFFICES ASSUME Inv PROVE TypeOK
    OBVIOUS
  <2>1. Stored /\ fresh \subseteq {c \in Calls : pc[c] = "done"}
    BY DEF Inv, Asked
  <2>2. ASSUME NEW i \in Ids, points[i] # Empty
        PROVE  points[i].source \in Files /\ points[i].version \in Version
               /\ Indexable(points[i].source, points[i].version)
    BY <2>1, <2>2 DEF Stored, Points
  <2>3. QED
    BY <2>1, <2>2 DEF TypeOK, Stored
<1>2. QED
  BY <1>1, Invariance, PTL

\* Java lists no document without a file, but while a delete of it is between the
\* two (unlink, then delete_document) or ended there, when Java put the row of a save
\* in after the save was given up, or where calls overlapped.
THEOREM RowsHaveFiles == Spec => []RowHasFile
<1>1. Inv => RowHasFile
  BY DEF Inv, RowSound, RowExcused, RowHasFile
<1>2. QED
  BY <1>1, Invariance, PTL

\* Chunks outlive their file only where calls overlapped or a delete passed over a
\* failed removal (_delete_source_from_all_collections swallows the exception).
THEOREM NoneOrphaned == Spec => []NothingOrphaned
<1>1. Inv => NothingOrphaned
  BY DEF Inv, ChunksSound, ChunksExcused, NoChunks, NothingOrphaned
<1>2. QED
  BY <1>1, Invariance, PTL

\* A delete that was answered OK leaves no file, no row, and no chunk but of a
\* removal that failed (delete_knowledge_base_document).
THEOREM DeletedAreGone == Spec => []DeletedIsGone
<1>1. Inv => DeletedIsGone
  <2> SUFFICES ASSUME Inv, NEW c \in fresh, ask[c].kind = "delete"
               PROVE  /\ ~Exists(Md(Doc(c))) /\ catalog[Doc(c)] = NoRow
                      /\ (\E i \in Ids : points[i].source = Md(Doc(c))) =>
                           \/ Mixed(Doc(c))
                           \/ \E d \in Calls : Deleting(d, Doc(c)) /\ "remove" \in lapses[d]
    BY DEF DeletedIsGone
  <2>1. c \in Calls /\ pc[c] = "done" /\ Kept(c)
    BY DEF Inv, Asked
  <2>2. ask[c] \in Asks
    BY <2>1 DEF Inv, Control
  <2>3. PICK f \in Files : f = File(c) /\ f = Md(Doc(c)) /\ f[1] = Doc(c)
    BY <2>1, <2>2, AskTypes
  <2>4. ~Exists(f) /\ catalog[Doc(c)] = NoRow
    BY <2>1, <2>3 DEF Kept, Gone
  <2>5. NoChunks(f) \/ ChunksExcused(f[1])
    BY <2>4 DEF Inv, ChunksSound
  <2>6. QED
    BY <2>3, <2>4, <2>5 DEF NoChunks, ChunksExcused
<1>2. QED
  BY <1>1, Invariance, PTL

\* A call that was answered OK, and overlapped with none on its chunk ids, leaves
\* file, collection and catalogue in agreement until a call on them arrives or Java
\* does what an earlier one asked; on labels only as far as the text of the file has
\* no label lines of its own (_strip_document_boilerplate against the loaders).
THEOREM SavedAreServed == Spec => []SavedIsServed
<1>1. Inv => SavedIsServed
  BY DEF Inv, Kept, Saved, Refreshed, Alone, Unshelved, Saves, SavedIsServed
<1>2. QED
  BY <1>1, Invariance, PTL
=============================================================================
