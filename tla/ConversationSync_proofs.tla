----------------------- MODULE ConversationSync_proofs -----------------------
(***************************************************************************)
(* Proofs about ConversationSync, for any number of calls, any length a     *)
(* transcript is cut to, and any faults.  Inv adds to the types that the    *)
(* batches of Java are numbered without a gap, that a transcript in         *)
(* somebody's hands was stored once, that the entry a marker is about to be *)
(* set for was stored, and that the flusher removes the marker only of what *)
(* it has filed.                                                            *)
(***************************************************************************)
EXTENDS ConversationSync, FiniteSetTheorems, SequenceTheorems, TLAPS

\* TypeOK without the bound of the batch numbers, which Batches gives.
Types ==
  /\ transcript \in Seq(Entries) /\ Len(transcript) <= MaxMessages
  /\ marked \in BOOLEAN
  /\ filed \in [Entries -> Nat]
  /\ pc \in [Processes -> Steps]
  /\ held \in [Processes -> Seq(Entries)]
  /\ \A p \in Processes : Len(held[p]) <= MaxMessages
  /\ recorded \subseteq Entries /\ gone \subseteq Entries /\ skipped \subseteq Entries

\* n is the number of the last batch that filed anything.
IsLast(n) == (\A e \in Entries : filed[e] <= n) /\ (n = 0 \/ \E e \in Entries : filed[e] = n)

\* A batch that files anything files something new.
Batches == \E n \in 0 .. Cardinality(InJava) : IsLast(n)

\* Everything that was ever stored.
Written == InJava \cup gone \cup Stored(transcript)

HeldIsWritten == \A p \in Processes : Stored(held[p]) \subseteq Written

StoredBeforeMarked ==
  \A c \in Calls : pc[c] = "mark" => Kind[c] = "exchange" /\ c \in gone \cup Stored(transcript)

FiledBeforeUnmarked == pc[Flusher] = "unmark" => Stored(held[Flusher]) \subseteq InJava

Inv ==
  /\ Types /\ Batches /\ HeldIsWritten
  /\ StoredBeforeMarked /\ FiledBeforeUnmarked /\ NothingForgotten

-----------------------------------------------------------------------------
LEMMA EntriesFinite ==
  /\ IsFiniteSet(Entries) /\ Cardinality(Entries) \in Nat
  /\ \A S \in SUBSET Entries :
       /\ IsFiniteSet(S) /\ Cardinality(S) \in Nat /\ Cardinality(S) <= Cardinality(Entries)
<1>1. Entries \in SUBSET Calls
  BY DEF Entries
<1>2. IsFiniteSet(Entries)
  BY <1>1, CallsAssumption, FS_Subset
<1>3. QED
  BY <1>2, FS_Subset, FS_CardinalityType

LEMMA StoredInSet == ASSUME NEW S, NEW s \in Seq(S) PROVE Stored(s) \subseteq S
  BY DEF Stored

LEMMA EmptyTranscript == <<>> \in Seq(Entries) /\ Len(<<>>) = 0 /\ Stored(<<>>) = {}
  BY DEF Stored

\* Cutting a transcript keeps its end.
LEMMA TrimProperties ==
  ASSUME NEW S, NEW s \in Seq(S)
  PROVE  /\ Trim(s) \in Seq(S) /\ Len(Trim(s)) <= MaxMessages
         /\ Stored(Trim(s)) \subseteq Stored(s)
         /\ s # <<>> => s[Len(s)] \in Stored(Trim(s))
<1> DEFINE n == Len(s)
           m == IF n > MaxMessages THEN n - MaxMessages + 1 ELSE 1
<1>1. n \in Nat /\ m \in Nat \ {0} /\ MaxMessages \in Nat \ {0} /\ n - m + 1 <= MaxMessages
      /\ m <= n + 1 /\ (n > 0 => m <= n)
  BY MaxMessagesAssumption
<1>2. Trim(s) = SubSeq(s, m, n)
  BY DEF Trim
<1> HIDE DEF m
<1>3. \A i \in m .. n : s[i] \in S
  BY <1>1
<1>4. /\ SubSeq(s, m, n) \in Seq(S)
      /\ Len(SubSeq(s, m, n)) = n - m + 1
      /\ \A i \in 1 .. n - m + 1 : SubSeq(s, m, n)[i] = s[m + i - 1]
  <2>1. m \in Int /\ n \in Int /\ (IF m <= n THEN n - m + 1 ELSE 0) = n - m + 1
    BY <1>1
  <2> HIDE DEF n
  <2>2. QED
    BY <1>3, <2>1, SubSeqProperties
<1>5. Len(Trim(s)) <= MaxMessages
  BY <1>1, <1>2, <1>4
<1>6. Stored(Trim(s)) \subseteq Stored(s)
  <2> SUFFICES ASSUME NEW i \in DOMAIN Trim(s) PROVE Trim(s)[i] \in Stored(s)
    BY DEF Stored
  <2>1. i \in 1 .. n - m + 1
    BY <1>1, <1>2, <1>4
  <2>2. m + i - 1 \in 1 .. n
    BY <1>1, <2>1
  <2>3. QED
    BY <1>2, <1>4, <2>1, <2>2 DEF Stored
<1>7. ASSUME s # <<>> PROVE s[n] \in Stored(Trim(s))
  <2>1. n > 0 /\ m <= n
    BY <1>1, <1>7, EmptySeq
  <2>2. n - m + 1 \in 1 .. n - m + 1 /\ m + (n - m + 1) - 1 = n
    BY <1>1, <2>1
  <2>3. Trim(s)[n - m + 1] = s[n] /\ n - m + 1 \in DOMAIN Trim(s)
    BY <1>1, <1>2, <1>4, <2>1, <2>2
  <2>4. QED
    BY <2>3 DEF Stored
<1>8. QED
  BY <1>2, <1>4, <1>5, <1>6, <1>7

\* What the copy of a call becomes when its own entry is added.
LEMMA AppendedProperties ==
  ASSUME NEW s \in Seq(Entries), NEW c \in Entries
  PROVE  /\ Trim(Append(s, c)) \in Seq(Entries) /\ Len(Trim(Append(s, c))) <= MaxMessages
         /\ Stored(Trim(Append(s, c))) \subseteq Stored(s) \cup {c}
         /\ c \in Stored(Trim(Append(s, c)))
<1>1. /\ Append(s, c) \in Seq(Entries) /\ Append(s, c) # <<>>
      /\ Len(Append(s, c)) = Len(s) + 1
      /\ \A i \in 1 .. Len(s) : Append(s, c)[i] = s[i]
      /\ Append(s, c)[Len(s) + 1] = c
  BY AppendProperties
<1>2. Stored(Append(s, c)) \subseteq Stored(s) \cup {c}
  BY <1>1 DEF Stored
<1>3. Append(s, c)[Len(Append(s, c))] = c
  BY <1>1
<1>4. c \in Stored(Trim(Append(s, c)))
  <2> DEFINE t == Append(s, c)
  <2>1. t \in Seq(Entries) /\ t # <<>> /\ t[Len(t)] = c
    BY <1>1, <1>3
  <2> HIDE DEF t
  <2>2. t[Len(t)] \in Stored(Trim(t))
    BY <2>1, TrimProperties
  <2>3. QED
    BY <2>1, <2>2 DEF t
<1>5. QED
  BY <1>1, <1>2, <1>4, TrimProperties

\* After get(), the flusher files what it got, and a call goes on or ends.
LEMMA AfterFlusher == ASSUME NEW s PROVE After(Flusher, s) = IF s = <<>> THEN "unmark" ELSE "write"
  BY Zenon DEF After

LEMMA AfterCall ==
  ASSUME NEW c \in Calls, NEW s PROVE After(c, s) \in {"save", "done"}
<1>1. c # Flusher
  BY FlusherAssumption
<1>2. CASE Kind[c] = "feedback"
  BY Zenon, <1>1, <1>2 DEF After
<1>3. CASE Kind[c] # "feedback"
  BY Zenon, <1>1, <1>3 DEF After
<1>4. QED
  BY <1>2, <1>3

-----------------------------------------------------------------------------
\* Writing a transcript over another one forgets nothing: what it drops is gone.
LEMMA SaveKeeps ==
  ASSUME NEW t, Save(t)
  PROVE  gone \cup Stored(transcript) \subseteq gone' \cup Stored(transcript')
  BY DEF Save

LEMMA InitInv == Init => Inv
<1> SUFFICES ASSUME Init PROVE Inv
  OBVIOUS
<1>1. Types
  <2>1. transcript \in Seq(Entries) /\ Len(transcript) <= MaxMessages
    BY EmptyTranscript, MaxMessagesAssumption DEF Init
  <2>2. pc \in [Processes -> Steps]
    BY DEF Init, Steps
  <2>3. held \in [Processes -> Seq(Entries)] /\ \A p \in Processes : Len(held[p]) <= MaxMessages
    BY EmptyTranscript, MaxMessagesAssumption DEF Init
  <2>4. QED
    BY <2>1, <2>2, <2>3 DEF Init, Types
<1>2. InJava = {}
  BY DEF Init, InJava
<1>3. Batches
  <2>1. IsLast(0)
    BY DEF Init, IsLast
  <2>2. QED
    BY <1>2, <2>1, FS_EmptySet DEF Batches
<1>4. HeldIsWritten /\ StoredBeforeMarked /\ FiledBeforeUnmarked /\ NothingForgotten
  BY EmptyTranscript, FlusherAssumption
     DEF Init, HeldIsWritten, StoredBeforeMarked, FiledBeforeUnmarked, NothingForgotten, Processes
<1>5. QED
  BY <1>1, <1>3, <1>4 DEF Inv

\* A step of one process that files nothing: it goes on with s in its hands, and may
\* have written t over the transcript.
LEMMA MoveInv ==
  ASSUME Inv, NEW p \in Processes, NEW st \in Steps, NEW s \in Seq(Entries), Len(s) <= MaxMessages,
         Goto(p, st, s), UNCHANGED <<marked, filed, recorded, skipped>>,
         \/ UNCHANGED <<transcript, gone>>
         \/ \E t \in Seq(Entries) : Len(t) <= MaxMessages /\ Save(t),
         Stored(s) \subseteq Written',
         st = "mark" => Kind[p] = "exchange" /\ p \in gone' \cup Stored(transcript'),
         p = Flusher /\ st = "unmark" => Stored(s) \subseteq InJava
  PROVE  Inv'
<1>1. gone \cup Stored(transcript) \subseteq gone' \cup Stored(transcript')
  BY SaveKeeps
<1>2. Types'
  <2>1. Stored(transcript) \subseteq Entries
    BY StoredInSet DEF Inv, Types
  <2>2. transcript' \in Seq(Entries) /\ Len(transcript') <= MaxMessages /\ gone' \subseteq Entries
    BY <2>1 DEF Inv, Types, Save
  <2>3. pc' \in [Processes -> Steps] /\ held' \in [Processes -> Seq(Entries)]
    BY DEF Inv, Types, Goto
  <2>4. \A q \in Processes : Len(held'[q]) <= MaxMessages
    BY DEF Inv, Types, Goto
  <2>5. QED
    BY <2>2, <2>3, <2>4 DEF Inv, Types
<1>3. InJava' = InJava
  BY DEF InJava
<1>4. Batches'
  BY <1>3 DEF Inv, Batches, IsLast
<1>5. HeldIsWritten'
  <2>1. Written \subseteq Written'
    BY <1>1, <1>3 DEF Written
  <2>2. held' = [held EXCEPT ![p] = s]
    BY DEF Goto
  <2>3. QED
    BY <2>1, <2>2 DEF Inv, HeldIsWritten, Types
<1>6. StoredBeforeMarked'
  BY <1>1 DEF Inv, StoredBeforeMarked, Types, Goto, Processes
<1>7. FiledBeforeUnmarked'
  BY <1>3 DEF Inv, FiledBeforeUnmarked, Types, Goto, Processes
<1>8. NothingForgotten'
  <2>1. gone \subseteq gone'
    BY DEF Save
  <2>2. ASSUME NEW e \in recorded
        PROVE  \/ e \in InJava \cup gone' \cup skipped
               \/ marked /\ e \in Stored(transcript')
    BY <1>1, <2>1, <2>2 DEF Inv, NothingForgotten
  <2>3. recorded' = recorded /\ skipped' = skipped /\ marked' = marked
    OBVIOUS
  <2>4. QED
    BY <1>3, <2>2, <2>3 DEF NothingForgotten
<1>9. QED
  BY <1>2, <1>4, <1>5, <1>6, <1>7, <1>8 DEF Inv

\* The rows Java answers with hold what it has, and cut they still do.
LEMMA ListingProperties ==
  ASSUME filed \in [Entries -> Nat], NEW s \in Listings
  PROVE  /\ Trim(s) \in Seq(Entries) /\ Len(Trim(s)) <= MaxMessages
         /\ Stored(Trim(s)) \subseteq InJava
<1>1. InJava \subseteq Entries /\ Cardinality(InJava) \in Nat
  BY EntriesFinite DEF InJava
<1>2. s \in [1 .. Cardinality(InJava) -> InJava]
  BY DEF Listings
<1>3. s \in Seq(Entries) /\ s \in Seq(InJava)
  BY <1>1, <1>2
<1>4. Stored(Trim(s)) \subseteq Stored(s) /\ Stored(s) \subseteq InJava
  BY <1>3, TrimProperties, StoredInSet
<1>5. QED
  BY <1>3, <1>4, TrimProperties

\* Where a process goes once it has a transcript.
LEMMA AfterGet ==
  ASSUME NEW p \in Processes, NEW s
  PROVE  /\ After(p, s) \in Steps /\ After(p, s) # "mark"
         /\ p = Flusher /\ After(p, s) = "unmark" => s = <<>>
<1>1. CASE p = Flusher
  BY <1>1, AfterFlusher DEF Steps
<1>2. CASE p # Flusher
  BY <1>2, AfterCall DEF Steps, Processes
<1>3. QED
  BY <1>1, <1>2

\* The steps by which a process comes by a transcript.
LEMMA GetInv == ASSUME Inv, NEW p \in Processes, GetStep(p) PROVE Inv'
<1> USE DEF Written
<1>1. CASE GetHit(p)
  <2> DEFINE st == After(p, transcript)
  <2>1. st \in Steps /\ st # "mark" /\ (p = Flusher /\ st = "unmark" => transcript = <<>>)
    BY AfterGet
  <2>2. transcript \in Seq(Entries) /\ Len(transcript) <= MaxMessages
    BY DEF Inv, Types
  <2>3. /\ Goto(p, st, transcript) /\ transcript # <<>>
        /\ UNCHANGED <<marked, filed, recorded, skipped>> /\ UNCHANGED <<transcript, gone>>
    BY <1>1 DEF GetHit, history
  <2>4. Stored(transcript) \subseteq Written'
    BY <2>3
  <2> HIDE DEF st
  <2>5. QED
    BY <2>1, <2>2, <2>3, <2>4, MoveInv
<1>2. CASE GetMiss(p)
  <2>1. "fill" \in Steps
    BY DEF Steps
  <2>2. /\ Goto(p, "fill", <<>>)
        /\ UNCHANGED <<marked, filed, recorded, skipped>> /\ UNCHANGED <<transcript, gone>>
    BY <1>2 DEF GetMiss, history
  <2>3. Len(<<>>) <= MaxMessages
    BY EmptyTranscript, MaxMessagesAssumption
  <2>4. QED
    BY <2>1, <2>2, <2>3, EmptyTranscript, MoveInv
<1>3. CASE Fill(p)
  <2>1. PICK s \in Listings :
          Goto(p, IF s = <<>> THEN After(p, s) ELSE "restore", Trim(s))
    BY <1>3 DEF Fill
  <2> DEFINE st == IF s = <<>> THEN After(p, s) ELSE "restore"
             t == Trim(s)
  <2>2. st \in Steps /\ st # "mark"
    BY AfterGet DEF Steps
  <2>3. t \in Seq(Entries) /\ Len(t) <= MaxMessages /\ Stored(t) \subseteq InJava
    BY ListingProperties DEF Inv, Types
  <2>4. Goto(p, st, t)
    BY <2>1
  <2>5. UNCHANGED <<marked, filed, recorded, skipped>> /\ UNCHANGED <<transcript, gone>>
    BY <1>3 DEF Fill, history
  <2>6. Stored(t) \subseteq Written'
    BY <2>3, <2>5 DEF InJava
  <2> HIDE DEF st, t
  <2>7. QED
    BY <2>2, <2>3, <2>4, <2>5, <2>6, MoveInv
<1>4. CASE FillFails(p)
  <2> DEFINE st == After(p, <<>>)
  <2>1. st \in Steps /\ st # "mark"
    BY AfterGet
  <2>2. /\ Goto(p, st, <<>>)
        /\ UNCHANGED <<marked, filed, recorded, skipped>> /\ UNCHANGED <<transcript, gone>>
    BY <1>4 DEF FillFails, history
  <2>3. Len(<<>>) <= MaxMessages
    BY EmptyTranscript, MaxMessagesAssumption
  <2> HIDE DEF st
  <2>4. QED
    BY <2>1, <2>2, <2>3, EmptyTranscript, MoveInv
<1>5. CASE Restore(p)
  <2> DEFINE t == held[p]
             st == After(p, t)
  <2>1. st \in Steps /\ st # "mark" /\ (p = Flusher /\ st = "unmark" => t = <<>>)
    BY AfterGet
  <2>2. t \in Seq(Entries) /\ Len(t) <= MaxMessages
    BY DEF Inv, Types
  <2>3. Save(t) /\ Goto(p, st, t) /\ UNCHANGED <<marked, filed, recorded, skipped>>
    BY <1>5 DEF Restore
  <2>4. Stored(t) \subseteq Written'
    BY <2>3 DEF Save
  <2>5. p = Flusher /\ st = "unmark" => Stored(t) \subseteq InJava
    BY <2>1, EmptyTranscript
  <2> HIDE DEF st, t
  <2>6. QED
    BY <2>1, <2>2, <2>3, <2>4, <2>5, MoveInv
<1>6. QED
  BY <1>1, <1>2, <1>3, <1>4, <1>5 DEF GetStep

\* The steps of a call that write the transcript or give up.
LEMMA AppendInv == ASSUME Inv, NEW c \in Calls, AppendCall(c) PROVE Inv'
<1> USE DEF Written
<1> DEFINE t == IF Kind[c] = "feedback" THEN held[c] ELSE Trim(Append(held[c], c))
           st == IF Kind[c] = "exchange" THEN "mark" ELSE "done"
<1>1. Save(t) /\ Goto(c, st, <<>>) /\ UNCHANGED <<marked, filed, recorded, skipped>>
  BY DEF AppendCall
<1>2. c \in Processes /\ c # Flusher /\ held[c] \in Seq(Entries) /\ Len(held[c]) <= MaxMessages
  BY FlusherAssumption DEF Inv, Types, Processes
<1>3. t \in Seq(Entries) /\ Len(t) <= MaxMessages /\ (Kind[c] = "exchange" => c \in Stored(t))
  <2>1. CASE Kind[c] = "feedback"
    BY <1>2, <2>1
  <2>2. CASE Kind[c] # "feedback"
    <3>1. c \in Entries
      BY <2>2 DEF Entries
    <3>2. QED
      BY <1>2, <2>2, <3>1, AppendedProperties
  <2>3. QED
    BY <2>1, <2>2
<1>4. st \in Steps /\ (st = "mark" => Kind[c] = "exchange")
  BY DEF Steps
<1> HIDE DEF t, st
<1>5. transcript' = t
  BY <1>1 DEF Save
<1>6. Len(<<>>) <= MaxMessages
  BY EmptyTranscript, MaxMessagesAssumption
<1>7. QED
  BY <1>1, <1>2, <1>3, <1>4, <1>5, <1>6, EmptyTranscript, MoveInv

\* The steps that give up, or begin a cycle, and touch nothing but their process.
LEMMA LeaveInv ==
  ASSUME Inv, NEW p \in Processes, NEW st \in {"start", "get", "done"}, Goto(p, st, <<>>),
         UNCHANGED <<transcript, marked, filed, history>>
  PROVE  Inv'
<1>1. st \in Steps /\ st # "mark" /\ st # "unmark"
  BY DEF Steps
<1>2. Len(<<>>) <= MaxMessages
  BY EmptyTranscript, MaxMessagesAssumption
<1>3. UNCHANGED <<marked, filed, recorded, skipped>> /\ UNCHANGED <<transcript, gone>>
  BY DEF history
<1>4. QED
  BY <1>1, <1>2, <1>3, EmptyTranscript, MoveInv

-----------------------------------------------------------------------------
\* The last batch is numbered as LastBatch says, at most with the number of entries filed.
LEMMA LastBatchIsLast ==
  ASSUME Types, Batches
  PROVE  LastBatch \in 0 .. Cardinality(InJava) /\ IsLast(LastBatch)
<1>1. InJava \in SUBSET Entries
  BY DEF InJava
<1>2. /\ Cardinality(InJava) \in Nat /\ Cardinality(Entries) \in Nat
      /\ Cardinality(InJava) <= Cardinality(Entries)
  BY <1>1, EntriesFinite
<1>3. PICK n \in 0 .. Cardinality(InJava) : IsLast(n)
  BY DEF Batches
<1>4. n \in 0 .. Cardinality(Entries)
  BY <1>2
<1>5. LastBatch \in 0 .. Cardinality(Entries) /\ IsLast(LastBatch)
  BY <1>3, <1>4 DEF LastBatch, IsLast
<1>6. LastBatch = n
  <2>1. filed \in [Entries -> Nat] /\ n \in Nat /\ LastBatch \in Nat
    BY <1>2, <1>5 DEF Types
  <2>2. QED
    BY <1>3, <1>5, <2>1 DEF IsLast
<1>7. QED
  BY <1>3, <1>6

\* A batch files what of the copy was not filed, under one number more than the last;
\* that number is again within the number of entries filed if there is anything to file.
LEMMA BatchProperties ==
  ASSUME Types, Batches, BatchInsert
  PROVE  /\ InJava' = InJava \cup Stored(held[Flusher])
         /\ filed' \in [Entries -> Nat] /\ Batches'
         /\ Stored(held[Flusher]) \ InJava = {} => filed' = filed
         /\ Stored(held[Flusher]) \ InJava # {}
              => LastBatch + 1 <= Cardinality(InJava') /\ InJava' \in SUBSET Entries
<1> DEFINE new == Stored(held[Flusher]) \ InJava
<1>1. held[Flusher] \in Seq(Entries) /\ filed \in [Entries -> Nat]
  BY DEF Types, Processes
<1>2. new \subseteq Entries
  BY <1>1, StoredInSet
<1>3. LastBatch \in 0 .. Cardinality(InJava) /\ IsLast(LastBatch)
  BY LastBatchIsLast
<1>4. InJava \in SUBSET Entries
  BY DEF InJava
<1>5. Cardinality(InJava) \in Nat /\ LastBatch \in Nat
  BY <1>3, <1>4, EntriesFinite
<1> PICK k \in Nat \ {0} : k = LastBatch + 1
  BY <1>5
<1>6. filed' = [e \in Entries |-> IF e \in new THEN k ELSE filed[e]]
  BY DEF BatchInsert
<1>7. filed' \in [Entries -> Nat]
  BY <1>1, <1>5, <1>6
<1>8. InJava' = InJava \cup new
  BY <1>1, <1>2, <1>5, <1>6 DEF InJava
<1>9. CASE new = {}
  <2>1. filed' = filed
    BY <1>1, <1>6, <1>9
  <2>2. InJava' = InJava
    BY <2>1 DEF InJava
  <2>3. Batches'
    BY <2>1, <2>2 DEF Batches, IsLast
  <2>4. QED
    BY <1>7, <1>8, <1>9, <2>1, <2>3
<1>10. CASE new # {}
  <2>1. InJava' \in SUBSET Entries
    BY <1>2, <1>4, <1>8
  <2>2. IsFiniteSet(InJava') /\ Cardinality(InJava') \in Nat
    BY <2>1, EntriesFinite
  <2>3. InJava \in SUBSET (InJava') /\ InJava # InJava'
    BY <1>8, <1>10
  <2>4. Cardinality(InJava) <= Cardinality(InJava') /\ Cardinality(InJava) # Cardinality(InJava')
    BY <2>2, <2>3, FS_Subset
  <2>5. k \in 0 .. Cardinality(InJava')
    BY <1>3, <1>5, <2>2, <2>4
  <2>6. IsLast(k)'
    <3>1. \A e \in Entries : filed[e] <= k /\ filed[e] \in Nat
      BY <1>1, <1>3, <1>5 DEF IsLast
    <3>2. PICK e \in new : TRUE
      BY <1>10
    <3>3. filed'[e] = k /\ e \in Entries
      BY <1>2, <1>6, <3>2
    <3>4. \A d \in Entries : filed'[d] <= k
      BY <1>5, <1>6, <3>1
    <3>5. QED
      BY <3>3, <3>4 DEF IsLast
  <2>7. Batches'
    BY <2>5, <2>6 DEF Batches
  <2>8. QED
    BY <1>7, <1>8, <1>10, <2>1, <2>2, <2>5, <2>7
<1>11. QED
  BY <1>9, <1>10

\* A batch that reached Java, whether or not its answer came back.
LEMMA BatchInv ==
  ASSUME Inv, BatchInsert, UNCHANGED <<transcript, marked, history>>,
         \/ Goto(Flusher, "unmark", held[Flusher])
         \/ Goto(Flusher, "start", <<>>)
  PROVE  Inv'
<1>1. /\ InJava' = InJava \cup Stored(held[Flusher])
      /\ filed' \in [Entries -> Nat] /\ Batches'
  BY BatchProperties DEF Inv
<1>2. UNCHANGED <<recorded, gone, skipped>>
  BY DEF history
<1>3. PICK st \in {"unmark", "start"}, s \in {held[Flusher], <<>>} :
        Goto(Flusher, st, s) /\ (st = "unmark" => s = held[Flusher])
  OBVIOUS
<1>4. Flusher \in Processes /\ Flusher \notin Calls
  BY FlusherAssumption DEF Processes
<1>5. /\ s \in Seq(Entries) /\ Len(s) <= MaxMessages
      /\ Stored(s) \subseteq Written
  <2>1. CASE s = <<>>
    BY <2>1, EmptyTranscript, MaxMessagesAssumption
  <2>2. CASE s = held[Flusher]
    BY <1>4, <2>2 DEF Inv, Types, HeldIsWritten
  <2>3. QED
    BY <2>1, <2>2
<1>6. Types'
  <2>1. pc' \in [Processes -> Steps] /\ held' \in [Processes -> Seq(Entries)]
    BY <1>3, <1>4, <1>5 DEF Inv, Types, Goto, Steps
  <2>2. \A q \in Processes : Len(held'[q]) <= MaxMessages
    BY <1>3, <1>4, <1>5 DEF Inv, Types, Goto
  <2>3. QED
    BY <1>1, <1>2, <2>1, <2>2 DEF Inv, Types
<1>7. HeldIsWritten'
  <2>1. Written \subseteq Written'
    BY <1>1, <1>2 DEF Written
  <2>2. held' = [held EXCEPT ![Flusher] = s]
    BY <1>3 DEF Goto
  <2>3. QED
    BY <1>5, <2>1, <2>2 DEF Inv, HeldIsWritten, Types
<1>8. StoredBeforeMarked'
  BY <1>2, <1>3, <1>4 DEF Inv, StoredBeforeMarked, Types, Goto, Processes
<1>9. FiledBeforeUnmarked'
  <2>1. CASE st = "unmark"
    BY <1>1, <1>3, <1>4, <2>1 DEF Inv, FiledBeforeUnmarked, Types, Goto
  <2>2. CASE st = "start"
    BY <1>3, <1>4, <2>2 DEF Inv, FiledBeforeUnmarked, Types, Goto
  <2>3. QED
    BY <2>1, <2>2
<1>10. NothingForgotten'
  BY <1>1, <1>2 DEF Inv, NothingForgotten
<1>11. QED
  BY <1>1, <1>6, <1>7, <1>8, <1>9, <1>10 DEF Inv

\* A call sets the marker of what it has stored before.
LEMMA MarkInv == ASSUME Inv, NEW c \in Calls, MarkPending(c) PROVE Inv'
<1>1. /\ marked' = TRUE /\ recorded' = recorded \cup {c} /\ skipped' = skipped \ Stored(transcript)
      /\ Goto(c, "done", <<>>) /\ UNCHANGED <<transcript, filed, gone>> /\ pc[c] = "mark"
  BY DEF MarkPending
<1>2. c \in Processes /\ c # Flusher
  BY FlusherAssumption DEF Processes
<1>3. c \in Entries /\ c \in gone \cup Stored(transcript)
  BY <1>1 DEF Inv, StoredBeforeMarked, Entries
<1>4. InJava' = InJava /\ Written' = Written
  BY <1>1 DEF InJava, Written
<1>5. Types'
  BY <1>1, <1>2, <1>3, EmptyTranscript, MaxMessagesAssumption DEF Inv, Types, Goto, Steps
<1>6. Batches'
  BY <1>1, <1>4 DEF Inv, Batches, IsLast
<1>7. HeldIsWritten'
  BY <1>1, <1>2, <1>4, EmptyTranscript DEF Inv, HeldIsWritten, Types, Goto
<1>8. StoredBeforeMarked'
  BY <1>1, <1>2 DEF Inv, StoredBeforeMarked, Types, Goto, Processes
<1>9. FiledBeforeUnmarked'
  BY <1>1, <1>2, <1>4 DEF Inv, FiledBeforeUnmarked, Types, Goto, Processes
<1>10. NothingForgotten'
  <2> SUFFICES ASSUME NEW e \in recorded \cup {c}
               PROVE  e \in InJava \cup gone \cup skipped' \/ e \in Stored(transcript)
    BY <1>1, <1>4 DEF NothingForgotten
  <2>1. CASE e = c
    BY <1>3, <2>1
  <2>2. CASE e \in recorded
    BY <1>1, <2>2 DEF Inv, NothingForgotten
  <2>3. QED
    BY <2>1, <2>2
<1>11. QED
  BY <1>5, <1>6, <1>7, <1>8, <1>9, <1>10 DEF Inv

\* The flusher removes the marker; what its copy lacked was skipped.
LEMMA UnmarkInv == ASSUME Inv, Unmark PROVE Inv'
<1>1. /\ marked' = FALSE /\ skipped' = skipped \cup (Stored(transcript) \ Stored(held[Flusher]))
      /\ Goto(Flusher, "start", <<>>) /\ UNCHANGED <<transcript, filed, recorded, gone>>
      /\ pc[Flusher] = "unmark"
  BY DEF Unmark
<1>2. Flusher \in Processes /\ Flusher \notin Calls
  BY FlusherAssumption DEF Processes
<1>3. Stored(held[Flusher]) \subseteq InJava
  BY <1>1 DEF Inv, FiledBeforeUnmarked
<1>4. InJava' = InJava /\ Written' = Written
  BY <1>1 DEF InJava, Written
<1>5. Types'
  <2>1. Stored(transcript) \subseteq Entries
    BY StoredInSet DEF Inv, Types
  <2>2. pc' \in [Processes -> Steps] /\ held' \in [Processes -> Seq(Entries)]
    BY <1>1, <1>2, EmptyTranscript DEF Inv, Types, Goto, Steps
  <2>3. \A q \in Processes : Len(held'[q]) <= MaxMessages
    BY <1>1, <1>2, EmptyTranscript, MaxMessagesAssumption DEF Inv, Types, Goto
  <2>4. QED
    BY <1>1, <2>1, <2>2, <2>3 DEF Inv, Types
<1>6. Batches'
  BY <1>1, <1>4 DEF Inv, Batches, IsLast
<1>7. HeldIsWritten'
  BY <1>1, <1>2, <1>4, EmptyTranscript DEF Inv, HeldIsWritten, Types, Goto
<1>8. StoredBeforeMarked'
  BY <1>1, <1>2 DEF Inv, StoredBeforeMarked, Types, Goto, Processes
<1>9. FiledBeforeUnmarked'
  BY <1>1, <1>2 DEF Inv, FiledBeforeUnmarked, Types, Goto
<1>10. NothingForgotten'
  BY <1>1, <1>3, <1>4 DEF Inv, NothingForgotten
<1>11. QED
  BY <1>5, <1>6, <1>7, <1>8, <1>9, <1>10 DEF Inv

\* The key is lost, with the markers or without them: its entries are gone.
LEMMA LossInv == ASSUME Inv, Loss PROVE Inv'
<1>1. /\ transcript' = <<>> /\ gone' = gone \cup Stored(transcript) /\ marked' \in BOOLEAN
      /\ UNCHANGED <<filed, pc, held, recorded, skipped>>
  BY EmptyTranscript DEF Loss, Save, Inv, Types
<1>2. InJava' = InJava /\ Written \subseteq Written'
  BY <1>1 DEF InJava, Written
<1>3. Types'
  <2>1. Stored(transcript) \subseteq Entries
    BY StoredInSet DEF Inv, Types
  <2>2. QED
    BY <1>1, <2>1, EmptyTranscript, MaxMessagesAssumption DEF Inv, Types
<1>4. Batches'
  BY <1>1, <1>2 DEF Inv, Batches, IsLast
<1>5. HeldIsWritten'
  BY <1>1, <1>2 DEF Inv, HeldIsWritten
<1>6. StoredBeforeMarked' /\ FiledBeforeUnmarked'
  BY <1>1, <1>2 DEF Inv, StoredBeforeMarked, FiledBeforeUnmarked
<1>7. NothingForgotten'
  BY <1>1, <1>2 DEF Inv, NothingForgotten
<1>8. QED
  BY <1>3, <1>4, <1>5, <1>6, <1>7 DEF Inv

\* A restart leaves nobody with a transcript, a marker to set or one to remove.
LEMMA RestartInv == ASSUME Inv, Restart PROVE Inv'
<1>1. /\ pc' = [p \in Processes |-> IF p = Flusher THEN "start"
                                    ELSE IF pc[p] = "get" THEN "get" ELSE "done"]
      /\ held' = [p \in Processes |-> <<>>]
      /\ UNCHANGED <<transcript, marked, filed, recorded, gone, skipped>>
  BY DEF Restart, history
<1>2. Flusher \in Processes /\ Calls \subseteq Processes
  BY DEF Processes
<1>3. InJava' = InJava /\ Written' = Written
  BY <1>1 DEF InJava, Written
<1>4. Types'
  <2>1. pc' \in [Processes -> Steps]
    BY <1>1 DEF Steps
  <2>2. held' \in [Processes -> Seq(Entries)] /\ \A p \in Processes : Len(held'[p]) <= MaxMessages
    BY <1>1, EmptyTranscript, MaxMessagesAssumption
  <2>3. QED
    BY <1>1, <2>1, <2>2 DEF Inv, Types
<1>5. Batches'
  BY <1>1, <1>3 DEF Inv, Batches, IsLast
<1>6. HeldIsWritten' /\ StoredBeforeMarked' /\ FiledBeforeUnmarked'
  BY <1>1, <1>2, EmptyTranscript DEF HeldIsWritten, StoredBeforeMarked, FiledBeforeUnmarked
<1>7. NothingForgotten'
  BY <1>1, <1>3 DEF Inv, NothingForgotten
<1>8. QED
  BY <1>4, <1>5, <1>6, <1>7 DEF Inv

-----------------------------------------------------------------------------
LEMMA StepInv == ASSUME Inv, [Next]_vars PROVE Inv'
<1>1. ASSUME NEW p \in Processes, GetStep(p) PROVE Inv'
  BY <1>1, GetInv
<1>2. ASSUME NEW c \in Calls, CallStep(c) PROVE Inv'
  <2>1. CASE AppendCall(c)
    BY <2>1, AppendInv
  <2>2. CASE MarkPending(c)
    BY <2>2, MarkInv
  <2>3. CASE CallFails(c)
    BY <2>3, LeaveInv DEF CallFails, Processes
  <2>4. QED
    BY <1>2, <2>1, <2>2, <2>3 DEF CallStep
<1>3. CASE SyncStep
  <2>1. CASE SyncStart
    BY <2>1, LeaveInv DEF SyncStart, Processes
  <2>2. CASE WriteOk
    BY <2>2, BatchInv DEF WriteOk
  <2>3. CASE WriteFails
    <3>1. CASE BatchInsert
      BY <2>3, <3>1, BatchInv DEF WriteFails
    <3>2. CASE UNCHANGED filed
      BY <2>3, <3>2, LeaveInv DEF WriteFails, Processes
    <3>3. QED
      BY <2>3, <3>1, <3>2 DEF WriteFails
  <2>4. CASE Unmark
    BY <2>4, UnmarkInv
  <2>5. CASE SyncFails
    BY <2>5, LeaveInv DEF SyncFails, Processes
  <2>6. QED
    BY <1>3, <2>1, <2>2, <2>3, <2>4, <2>5 DEF SyncStep
<1>4. CASE UNCHANGED vars
  <2>1. UNCHANGED <<transcript, marked, filed, pc, held, recorded, gone, skipped>>
    BY <1>4 DEF vars
  <2>2. InJava' = InJava /\ Written' = Written
    BY <2>1 DEF InJava, Written
  <2>3. Types' /\ Batches' /\ HeldIsWritten'
    BY <2>1, <2>2 DEF Inv, Types, Batches, IsLast, HeldIsWritten
  <2>4. StoredBeforeMarked' /\ FiledBeforeUnmarked' /\ NothingForgotten'
    BY <2>1, <2>2 DEF Inv, StoredBeforeMarked, FiledBeforeUnmarked, NothingForgotten
  <2>5. QED
    BY <2>3, <2>4 DEF Inv
<1>5. QED
  BY <1>1, <1>2, <1>3, <1>4, LossInv, RestartInv DEF Next

LEMMA Invariance == Spec => []Inv
<1>1. Inv /\ [Next]_vars => Inv'
  BY StepInv
<1>2. QED
  BY <1>1, InitInv, PTL DEF Spec

-----------------------------------------------------------------------------
\* Whatever the calls, the faults and the bound: a transcript is never longer than the
\* bound (SessionConversationStore trims what it appends and what it rebuilds), and the
\* batches of Java are never more than the entries.
THEOREM TypeCorrect == Spec => []TypeOK
<1>1. Inv => TypeOK
  <2> SUFFICES ASSUME Inv PROVE TypeOK
    OBVIOUS
  <2>1. filed \in [Entries -> 0 .. Cardinality(Entries)]
    <3>1. InJava \in SUBSET Entries
      BY DEF InJava
    <3>2. /\ Cardinality(InJava) \in Nat /\ Cardinality(Entries) \in Nat
          /\ Cardinality(InJava) <= Cardinality(Entries)
      BY <3>1, EntriesFinite
    <3>3. PICK n \in 0 .. Cardinality(InJava) : IsLast(n)
      BY DEF Inv, Batches
    <3>4. QED
      BY <3>2, <3>3 DEF Inv, Types, IsLast
  <2>2. QED
    BY <2>1 DEF Inv, Types, TypeOK
<1>2. QED
  BY <1>1, Invariance, PTL

\* Whatever happens to the service, Redis and Java: an exchange whose marker was set is
\* filed or still waits behind its marker, or was lost in one of the ways
\* NothingForgotten names (flush_pending_conversations removes the marker only after the
\* batch was accepted).
THEOREM RecordedIsNotForgotten == Spec => []NothingForgotten
<1>1. Inv => NothingForgotten
  BY DEF Inv
<1>2. QED
  BY <1>1, Invariance, PTL

\* The initial state of the transcript is one of the abstract one.
LEMMA StartsUnwritten == Init => Durable!Init
<1> SUFFICES ASSUME Init PROVE Durable!Init
  OBVIOUS
<1>1. InJava = {} /\ gone = {} /\ Stored(transcript) = {}
  BY EmptyTranscript DEF Init, InJava
<1>2. filed = [e \in Entries |-> 0]
  BY DEF Init
<1>3. QED
  BY <1>1, <1>2 DEF Durable!Init

\* Every save of the transcript writes at most the entry of the call that makes it.
LEMMA SaveWrites ==
  ASSUME NEW t, Save(t), UNCHANGED filed, NEW new \in SUBSET Entries,
         Stored(t) \subseteq Written \cup new, new \subseteq Stored(t)
  PROVE  Written' = Written \cup new
<1>1. transcript' = t /\ gone' = gone \cup (Stored(transcript) \ Stored(t)) /\ InJava' = InJava
  BY DEF Save, InJava
<1>2. Stored(transcript') = Stored(t)
  BY <1>1
<1>3. QED
  BY <1>1, <1>2 DEF Written

\* A step that leaves what was written and what is filed alone stutters.
LEMMA NothingWritten ==
  ASSUME Written' = Written, UNCHANGED filed
  PROVE  [Durable!Next]_<<Written, filed>>
  OBVIOUS

\* Every step writes one entry, files one batch, or changes nothing Java could tell.
LEMMA StepIsDurable ==
  ASSUME Inv, [Next]_vars PROVE [Durable!Next]_<<Written, filed>>
<1>1. ASSUME UNCHANGED <<transcript, filed, gone>> PROVE [Durable!Next]_<<Written, filed>>
  <2>1. Written' = Written
    BY <1>1 DEF Written, InJava
  <2>2. QED
    BY <1>1, <2>1, NothingWritten
<1>2. ASSUME BatchInsert, UNCHANGED <<transcript, gone>>
      PROVE  [Durable!Next]_<<Written, filed>>
  <2> DEFINE new == Stored(held[Flusher]) \ InJava
  <2>1. Flusher \in Processes /\ held[Flusher] \in Seq(Entries) /\ filed \in [Entries -> Nat]
    BY DEF Inv, Types, Processes
  <2>2. Stored(held[Flusher]) \subseteq Written
    BY <2>1 DEF Inv, HeldIsWritten
  <2>3. /\ InJava' = InJava \cup Stored(held[Flusher])
        /\ new = {} => filed' = filed
        /\ new # {} => LastBatch + 1 <= Cardinality(InJava') /\ InJava' \in SUBSET Entries
    BY <1>2, BatchProperties DEF Inv
  <2>4. Written' = Written
    BY <1>2, <2>2, <2>3 DEF Written
  <2>5. CASE new = {}
    BY <2>3, <2>4, <2>5, NothingWritten
  <2>6. CASE new # {}
    <3>1. LastBatch \in 0 .. Cardinality(InJava) /\ IsLast(LastBatch)
      BY LastBatchIsLast DEF Inv
    <3>2. InJava \in SUBSET Entries
      BY DEF InJava
    <3>3. /\ Cardinality(InJava) \in Nat /\ Cardinality(InJava') \in Nat
          /\ Cardinality(Entries) \in Nat /\ Cardinality(InJava') <= Cardinality(Entries)
      BY <2>3, <2>6, <3>2, EntriesFinite
    <3>4. PICK n \in 1 .. Cardinality(Entries) : n = LastBatch + 1
      BY <2>3, <2>6, <3>1, <3>3
    <3>5. new \in SUBSET Entries
      BY <2>1, StoredInSet
    <3>6. \A e \in new : filed[e] = 0
      BY <2>1, <3>5 DEF InJava
    <3>7. \A e \in Entries : filed[e] < n
      BY <2>1, <3>1, <3>3, <3>4 DEF IsLast
    <3>8. filed' = [e \in Entries |-> IF e \in new THEN n ELSE filed[e]]
      BY <1>2, <3>4 DEF BatchInsert
    <3>9. PICK S \in SUBSET Entries : S = new
      BY <3>5
    <3>10. Durable!FileBatch(S, n)
      BY <2>2, <2>4, <3>6, <3>7, <3>8, <3>9 DEF Durable!FileBatch, Written
    <3>11. Durable!Cardinality(Entries) = Cardinality(Entries)
      BY DEF Durable!Cardinality, Cardinality
    <3>12. QED
      BY <3>10, <3>11 DEF Durable!Next
  <2>7. QED
    BY <2>5, <2>6
<1>3. ASSUME NEW t, Save(t), UNCHANGED filed, Stored(t) \subseteq Written
      PROVE  [Durable!Next]_<<Written, filed>>
  <2>1. Stored(t) \subseteq Written \cup {} /\ {} \in SUBSET Entries /\ {} \subseteq Stored(t)
    BY <1>3
  <2>2. Written' = Written \cup {}
    BY <1>3, <2>1, SaveWrites
  <2>3. QED
    BY <1>3, <2>2, NothingWritten
<1>4. ASSUME NEW p \in Processes, GetStep(p) PROVE [Durable!Next]_<<Written, filed>>
  <2>1. CASE Restore(p)
    BY <1>3, <2>1 DEF Restore, Inv, HeldIsWritten
  <2>2. CASE GetHit(p) \/ GetMiss(p) \/ Fill(p) \/ FillFails(p)
    BY <1>1, <2>2 DEF GetHit, GetMiss, Fill, FillFails, history
  <2>3. QED
    BY <1>4, <2>1, <2>2 DEF GetStep
<1>5. ASSUME NEW c \in Calls, AppendCall(c) PROVE [Durable!Next]_<<Written, filed>>
  <2>1. c \in Processes /\ held[c] \in Seq(Entries)
    BY DEF Inv, Types, Processes
  <2>2. Stored(held[c]) \subseteq Written
    BY <2>1 DEF Inv, HeldIsWritten
  <2>3. CASE Kind[c] = "feedback"
    BY <1>3, <1>5, <2>2, <2>3 DEF AppendCall
  <2>4. CASE Kind[c] # "feedback"
    <3>1. c \in Entries
      BY <2>4 DEF Entries
    <3> DEFINE t == Trim(Append(held[c], c))
    <3>2. Save(t) /\ UNCHANGED filed
      BY <1>5, <2>4 DEF AppendCall
    <3>3. Stored(t) \subseteq Stored(held[c]) \cup {c} /\ c \in Stored(t)
      BY <2>1, <3>1, AppendedProperties
    <3> HIDE DEF t
    <3>4. Stored(t) \subseteq Written \cup {c} /\ {c} \in SUBSET Entries /\ {c} \subseteq Stored(t)
      BY <2>2, <3>1, <3>3
    <3>5. Written' = Written \cup {c}
      BY <3>2, <3>4, SaveWrites
    <3>6. Durable!Write(c)
      BY <3>2, <3>5 DEF Durable!Write, Written
    <3>7. QED
      BY <3>1, <3>6 DEF Durable!Next
  <2>5. QED
    BY <2>3, <2>4
<1>6. ASSUME NEW c \in Calls, CallStep(c) PROVE [Durable!Next]_<<Written, filed>>
  BY <1>1, <1>5, <1>6 DEF CallStep, MarkPending, CallFails, history
<1>7. CASE SyncStep
  BY <1>1, <1>2, <1>7 DEF SyncStep, SyncStart, WriteOk, WriteFails, Unmark, SyncFails, history
<1>8. CASE Loss
  <2>1. Save(<<>>) /\ UNCHANGED filed
    BY <1>8 DEF Loss
  <2>2. Stored(<<>>) \subseteq Written
    BY EmptyTranscript
  <2>3. QED
    BY <1>3, <2>1, <2>2
<1>9. CASE Restart \/ UNCHANGED vars
  BY <1>1, <1>9 DEF Restart, vars, history
<1>10. QED
  BY <1>4, <1>6, <1>7, <1>8, <1>9 DEF Next

\* Java promises of the transcript what DurableTranscript says: whatever is delivered
\* again, a message stays in the batch that first brought it (insertIgnoreBatch), no
\* batch has an earlier number, and only what was stored is ever filed.
THEOREM TranscriptIsDurable == Spec => AppendOnly
<1>1. Init => Durable!Init
  BY StartsUnwritten
<1>2. Inv /\ [Next]_vars => [Durable!Next]_<<Written, filed>>
  BY StepIsDurable
<1>3. QED
  BY <1>1, <1>2, Invariance, PTL DEF Spec, AppendOnly, Durable!Spec, Written

-----------------------------------------------------------------------------
(* The order of the transcript.  JavaKeepsOrder is not inductive: an entry may *)
(* come back from the copy in somebody's hands, and a batch files what the    *)
(* flusher has read, not what the transcript holds by then.  OrderInv says it *)
(* of every copy, and of a pair of which the flusher holds the later one.     *)

\* Of an entry a that comes before b in some copy.
Good(a, b) ==
  a \in gone \/ /\ b \in InJava => a \in InJava /\ filed[a] <= filed[b]
                /\ b \in Stored(held[Flusher]) => a \in Stored(held[Flusher]) \cup InJava

Ordered(s) == \A i, j \in DOMAIN s : i < j => Good(s[i], s[j])

\* A call that has not stored its entry yet.
Early == {"get", "fill", "restore", "save"}
Unwritten == \A c \in Calls : pc[c] \in Early => c \notin Written

OrderInv == Unwritten /\ Ordered(transcript) /\ \A p \in Processes : Ordered(held[p])

\* A transcript that is cut is the end of the one it was.
LEMMA TrimShift ==
  ASSUME NEW S, NEW s \in Seq(S)
  PROVE  \E k \in Nat : \A i \in DOMAIN Trim(s) : i + k \in DOMAIN s /\ Trim(s)[i] = s[i + k]
<1> DEFINE n == Len(s)
           m == IF n > MaxMessages THEN n - MaxMessages + 1 ELSE 1
<1>1. n \in Nat /\ m \in Nat \ {0} /\ MaxMessages \in Nat \ {0} /\ m <= n + 1
  BY MaxMessagesAssumption
<1>2. Trim(s) = SubSeq(s, m, n)
  BY DEF Trim
<1> HIDE DEF m
<1>3. \A i \in m .. n : s[i] \in S
  BY <1>1
<1>4. /\ SubSeq(s, m, n) \in Seq(S)
      /\ Len(SubSeq(s, m, n)) = n - m + 1
      /\ \A i \in 1 .. n - m + 1 : SubSeq(s, m, n)[i] = s[m + i - 1]
  <2>1. m \in Int /\ n \in Int /\ (IF m <= n THEN n - m + 1 ELSE 0) = n - m + 1
    BY <1>1
  <2> HIDE DEF n
  <2>2. QED
    BY <1>3, <2>1, SubSeqProperties
<1>5. PICK k \in Nat : k = m - 1
  BY <1>1
<1>6. ASSUME NEW i \in DOMAIN Trim(s) PROVE i + k \in DOMAIN s /\ Trim(s)[i] = s[i + k]
  <2>1. i \in 1 .. n - m + 1
    BY <1>1, <1>2, <1>4
  <2>2. i + k \in 1 .. n /\ m + i - 1 = i + k
    BY <1>1, <1>5, <2>1
  <2>3. Trim(s)[i] = s[m + i - 1]
    BY <1>2, <1>4, <2>1
  <2>4. QED
    BY <2>2, <2>3
<1>7. QED
  BY <1>6

LEMMA TrimOrdered == ASSUME NEW S, NEW s \in Seq(S), Ordered(s) PROVE Ordered(Trim(s))
<1>1. PICK k \in Nat : \A i \in DOMAIN Trim(s) : i + k \in DOMAIN s /\ Trim(s)[i] = s[i + k]
  BY TrimShift
<1>2. Trim(s) \in Seq(S)
  BY TrimProperties
<1>3. ASSUME NEW i \in DOMAIN Trim(s), NEW j \in DOMAIN Trim(s), i < j
      PROVE  Good(Trim(s)[i], Trim(s)[j])
  <2>1. i \in Nat /\ j \in Nat
    BY <1>2
  <2>2. i + k < j + k
    BY <1>3, <2>1
  <2>3. QED
    BY <1>1, <2>2 DEF Ordered
<1>4. QED
  BY <1>3 DEF Ordered

LEMMA EmptyOrdered == Ordered(<<>>) /\ Ordered(<<>>)'
  BY DEF Ordered

\* A pair stays in order when nothing is filed, whatever the flusher reads.
LEMMA GoodStays ==
  ASSUME Inv, UNCHANGED filed, gone \subseteq gone', NEW a, NEW b, Good(a, b),
         \/ held'[Flusher] = held[Flusher]
         \/ Stored(held'[Flusher]) \subseteq InJava
         \/ held'[Flusher] = transcript /\ a \in Written
  PROVE  Good(a, b)'
<1>1. InJava' = InJava
  BY DEF InJava
<1>2. CASE a \in gone
  BY <1>2 DEF Good
<1>3. CASE a \notin gone
  <2>1. /\ b \in InJava => a \in InJava /\ filed[a] <= filed[b]
        /\ b \in Stored(held[Flusher]) => a \in Stored(held[Flusher]) \cup InJava
    BY <1>3 DEF Good
  <2>2. b \in Stored(held'[Flusher]) => a \in Stored(held'[Flusher]) \cup InJava
    BY <1>3, <2>1 DEF Written
  <2>3. QED
    BY <1>1, <2>1, <2>2 DEF Good
<1>4. QED
  BY <1>2, <1>3

\* A batch files what the flusher holds after all that was filed before.
LEMMA GoodFiled ==
  ASSUME Inv, BatchInsert, UNCHANGED gone, NEW a, NEW b, Good(a, b),
         held'[Flusher] = held[Flusher] \/ held'[Flusher] = <<>>
  PROVE  Good(a, b)'
<1> DEFINE F == Stored(held[Flusher])
           k == LastBatch + 1
<1>1. InJava' = InJava \cup F
  BY BatchProperties DEF Inv
<1>2. /\ F \subseteq Entries /\ InJava \subseteq Entries /\ filed \in [Entries -> Nat]
  BY StoredInSet DEF Inv, Types, Processes, InJava
<1>3. LastBatch \in Nat /\ \A e \in Entries : filed[e] <= LastBatch
  <2>1. InJava \in SUBSET Entries
    BY <1>2
  <2>2. Cardinality(InJava) \in Nat /\ LastBatch \in 0 .. Cardinality(InJava) /\ IsLast(LastBatch)
    BY <2>1, EntriesFinite, LastBatchIsLast DEF Inv
  <2>3. QED
    BY <2>2 DEF IsLast
<1>4. \A e \in Entries : filed'[e] = IF e \in F \ InJava THEN k ELSE filed[e]
  BY DEF BatchInsert
<1>5. CASE a \in gone
  BY <1>5 DEF Good
<1>6. CASE a \notin gone
  <2>1. /\ b \in InJava => a \in InJava /\ filed[a] <= filed[b]
        /\ b \in F => a \in F \cup InJava
    BY <1>6 DEF Good
  <2>2. b \in InJava' => a \in InJava' /\ filed'[a] <= filed'[b]
    BY <1>1, <1>2, <1>3, <1>4, <2>1
  <2>3. b \in Stored(held'[Flusher]) => a \in Stored(held'[Flusher]) \cup InJava'
    <3>1. CASE held'[Flusher] = held[Flusher]
      BY <1>1, <2>1, <3>1
    <3>2. CASE held'[Flusher] = <<>>
      BY <3>2, EmptyTranscript
    <3>3. QED
      BY <3>1, <3>2
  <2>4. QED
    BY <2>2, <2>3 DEF Good
<1>7. QED
  BY <1>5, <1>6

\* A step of one process that files nothing: it goes on with s in its hands, and the
\* transcript is as it was or becomes t.
LEMMA MoveOrder ==
  ASSUME Inv, OrderInv, NEW p \in Processes, NEW st, NEW s, Goto(p, st, s),
         UNCHANGED filed, gone \subseteq gone', Ordered(s), Stored(s) \subseteq Written,
         p = Flusher => s = held[Flusher] \/ Stored(s) \subseteq InJava \/ s = transcript,
         \/ transcript' = transcript
         \/ Ordered(transcript') /\ held'[Flusher] = held[Flusher],
         Written' \subseteq Written \cup {p},
         st \in Early /\ p \in Calls => pc[p] \in Early /\ Written' \subseteq Written
  PROVE  OrderInv'
<1>1. pc' = [pc EXCEPT ![p] = st] /\ held' = [held EXCEPT ![p] = s] /\ Flusher \in Processes
      /\ pc \in [Processes -> Steps] /\ held \in [Processes -> Seq(Entries)]
  BY DEF Goto, Inv, Types, Processes
<1>2. /\ held'[p] = s /\ pc'[p] = st
      /\ \A q \in Processes \ {p} : held'[q] = held[q] /\ pc'[q] = pc[q]
  BY <1>1
<1>3. \/ held'[Flusher] = held[Flusher]
      \/ Stored(held'[Flusher]) \subseteq InJava
      \/ held'[Flusher] = transcript
  BY <1>1, <1>2
<1>4. ASSUME NEW u, Ordered(u), held'[Flusher] = held[Flusher] \/ Stored(u) \subseteq Written
      PROVE  Ordered(u)'
  <2>1. ASSUME NEW i \in DOMAIN u, NEW j \in DOMAIN u, i < j PROVE Good(u[i], u[j])'
    <3>1. Good(u[i], u[j]) /\ (held'[Flusher] # held[Flusher] => u[i] \in Written)
      BY <1>4, <2>1 DEF Ordered, Stored
    <3>2. PICK a, b : a = u[i] /\ b = u[j]
      OBVIOUS
    <3>3. Good(a, b)'
      BY <1>3, <3>1, <3>2, GoodStays
    <3>4. QED
      BY <3>2, <3>3
  <2>2. QED
    BY <2>1 DEF Ordered
<1>5. ASSUME NEW q \in Processes PROVE Ordered(held[q])'
  <2>1. PICK u : u = held'[q]
    OBVIOUS
  <2>2. Ordered(u) /\ Stored(u) \subseteq Written
    BY <1>2, <2>1 DEF OrderInv, Inv, HeldIsWritten
  <2>3. Ordered(u)'
    BY <1>4, <2>2
  <2>4. QED
    BY <2>1, <2>3 DEF Ordered
<1>6. Ordered(transcript)'
  <2>1. PICK u : u = transcript'
    OBVIOUS
  <2>2. Ordered(u) /\ (held'[Flusher] = held[Flusher] \/ Stored(u) \subseteq Written)
    BY <2>1 DEF OrderInv, Written
  <2>3. Ordered(u)'
    BY <1>4, <2>2
  <2>4. QED
    BY <2>1, <2>3 DEF Ordered
<1>7. Unwritten'
  <2>1. ASSUME NEW c \in Calls, pc'[c] \in Early PROVE c \notin Written'
    <3>1. c \in Processes
      BY DEF Processes
    <3>2. CASE c = p
      BY <1>2, <2>1, <3>2 DEF OrderInv, Unwritten
    <3>3. CASE c # p
      BY <1>2, <2>1, <3>1, <3>3 DEF OrderInv, Unwritten
    <3>4. QED
      BY <3>2, <3>3
  <2>2. QED
    BY <2>1 DEF Unwritten
<1>8. QED
  BY <1>5, <1>6, <1>7 DEF OrderInv

\* The rows Java answers with are in the order of their batches.
LEMMA ListingOrdered ==
  ASSUME Inv, NEW s \in Listings
  PROVE  Ordered(Trim(s)) /\ Stored(Trim(s)) \subseteq InJava
<1>1. /\ filed \in [Entries -> Nat] /\ InJava \subseteq Entries /\ Cardinality(InJava) \in Nat
  BY EntriesFinite DEF Inv, Types, InJava
<1>2. /\ s \in [1 .. Cardinality(InJava) -> InJava]
      /\ \A i, j \in DOMAIN s : i < j => filed[s[i]] <= filed[s[j]]
  BY DEF Listings
<1>3. s \in Seq(InJava) /\ \A i \in DOMAIN s : s[i] \in InJava
  BY <1>1, <1>2
<1>4. Ordered(s)
  BY <1>2, <1>3 DEF Ordered, Good
<1>5. QED
  BY <1>1, <1>3, <1>4, TrimOrdered, ListingProperties

LEMMA GetOrder == ASSUME Inv, OrderInv, NEW p \in Processes, GetStep(p) PROVE OrderInv'
<1> USE DEF Early
<1>1. CASE GetHit(p)
  <2> DEFINE st == After(p, transcript)
  <2>1. /\ Goto(p, st, transcript) /\ pc[p] = "get"
        /\ UNCHANGED <<transcript, filed, gone>>
    BY <1>1 DEF GetHit, history
  <2>2. Written' = Written /\ Stored(transcript) \subseteq Written
    BY <2>1 DEF Written, InJava
  <2> HIDE DEF st
  <2>3. QED
    BY <2>1, <2>2, MoveOrder DEF OrderInv
<1>2. CASE GetMiss(p)
  <2>1. Goto(p, "fill", <<>>) /\ pc[p] = "get" /\ UNCHANGED <<transcript, filed, gone>>
    BY <1>2 DEF GetMiss, history
  <2>2. Written' = Written
    BY <2>1 DEF Written, InJava
  <2>3. QED
    BY <2>1, <2>2, EmptyTranscript, EmptyOrdered, MoveOrder
<1>3. CASE Fill(p)
  <2>1. PICK s \in Listings :
          Goto(p, IF s = <<>> THEN After(p, s) ELSE "restore", Trim(s))
    BY <1>3 DEF Fill
  <2> DEFINE st == IF s = <<>> THEN After(p, s) ELSE "restore"
             t == Trim(s)
  <2>2. Goto(p, st, t) /\ pc[p] = "fill" /\ UNCHANGED <<transcript, filed, gone>>
    BY <1>3, <2>1 DEF Fill, history
  <2>3. Ordered(t) /\ Stored(t) \subseteq InJava /\ Stored(t) \subseteq Written
    BY ListingOrdered DEF Written
  <2>4. Written' = Written
    BY <2>2 DEF Written, InJava
  <2> HIDE DEF st, t
  <2>5. QED
    BY <2>2, <2>3, <2>4, MoveOrder
<1>4. CASE FillFails(p)
  <2> DEFINE st == After(p, <<>>)
  <2>1. Goto(p, st, <<>>) /\ pc[p] = "fill" /\ UNCHANGED <<transcript, filed, gone>>
    BY <1>4 DEF FillFails, history
  <2>2. Written' = Written
    BY <2>1 DEF Written, InJava
  <2> HIDE DEF st
  <2>3. QED
    BY <2>1, <2>2, EmptyTranscript, EmptyOrdered, MoveOrder
<1>5. CASE Restore(p)
  <2> DEFINE t == held[p]
             st == After(p, t)
  <2>1. Save(t) /\ Goto(p, st, t) /\ pc[p] = "restore" /\ UNCHANGED filed
    BY <1>5 DEF Restore
  <2>2. Ordered(t) /\ Stored(t) \subseteq Written
    BY DEF OrderInv, Inv, HeldIsWritten
  <2>3. transcript' = t /\ gone \subseteq gone'
    BY <2>1 DEF Save
  <2>4. Written' \subseteq Written
    BY <2>1, <2>2 DEF Written, InJava, Save
  <2>5. held'[Flusher] = held[Flusher]
    BY <2>1 DEF Goto, Inv, Types, Processes
  <2>6. p = Flusher => t = held[Flusher]
    OBVIOUS
  <2> HIDE DEF st, t
  <2>7. QED
    BY <2>1, <2>2, <2>3, <2>4, <2>5, <2>6, MoveOrder
<1>6. QED
  BY <1>1, <1>2, <1>3, <1>4, <1>5 DEF GetStep

\* A call appends an entry nobody has seen yet.
LEMMA AppendOrder == ASSUME Inv, OrderInv, NEW c \in Calls, AppendCall(c) PROVE OrderInv'
<1> USE DEF Early
<1> DEFINE h == held[c]
           t == IF Kind[c] = "feedback" THEN h ELSE Trim(Append(h, c))
           st == IF Kind[c] = "exchange" THEN "mark" ELSE "done"
<1>1. Save(t) /\ Goto(c, st, <<>>) /\ UNCHANGED filed /\ pc[c] = "save"
  BY DEF AppendCall
<1>2. c \in Processes /\ c # Flusher /\ h \in Seq(Entries) /\ Flusher \in Processes
  BY FlusherAssumption DEF Inv, Types, Processes
<1>3. Ordered(h) /\ Stored(h) \subseteq Written /\ c \notin Written
  BY <1>1, <1>2 DEF OrderInv, Unwritten, Inv, HeldIsWritten
<1> HIDE DEF h
<1>4. Ordered(t) /\ Stored(t) \subseteq Written \cup {c}
  <2>1. CASE Kind[c] = "feedback"
    BY <1>3, <2>1
  <2>2. CASE Kind[c] # "feedback"
    <3> DEFINE a == Append(h, c)
    <3>1. c \in Entries
      BY <2>2 DEF Entries
    <3>2. a \in Seq(Entries) /\ DOMAIN a = 1 .. Len(h) + 1 /\ a[Len(h) + 1] = c
          /\ (\A i \in 1 .. Len(h) : a[i] = h[i]) /\ DOMAIN h = 1 .. Len(h) /\ Len(h) \in Nat
      BY <1>2, <3>1, AppendProperties
    <3> HIDE DEF a
    <3>3. ASSUME NEW i \in DOMAIN a, NEW j \in DOMAIN a, i < j PROVE Good(a[i], a[j])
      <4>1. CASE j = Len(h) + 1
        <5>1. a[j] = c /\ c \notin InJava
          BY <1>3, <3>2, <4>1 DEF Written
        <5>2. c \notin Stored(held[Flusher])
          BY <1>2, <1>3 DEF Inv, HeldIsWritten
        <5>3. QED
          BY <5>1, <5>2 DEF Good
      <4>2. CASE j # Len(h) + 1
        <5>1. i \in DOMAIN h /\ j \in DOMAIN h /\ a[i] = h[i] /\ a[j] = h[j]
          BY <3>2, <3>3, <4>2
        <5>2. QED
          BY <1>3, <3>3, <5>1 DEF Ordered
      <4>3. QED
        BY <4>1, <4>2
    <3>4. Ordered(a)
      BY <3>3 DEF Ordered
    <3>5. Ordered(Trim(a))
      BY <3>2, <3>4, TrimOrdered
    <3>6. Stored(Trim(a)) \subseteq Stored(h) \cup {c}
      BY <1>2, <3>1, AppendedProperties DEF a
    <3>7. t = Trim(a)
      BY <2>2 DEF a
    <3> HIDE DEF t
    <3>8. QED
      BY <1>3, <3>5, <3>6, <3>7
  <2>3. QED
    BY <2>1, <2>2
<1>5. st \notin Early
  OBVIOUS
<1> HIDE DEF t, st
<1>6. transcript' = t /\ gone \subseteq gone' /\ Written' \subseteq Written \cup {c}
  BY <1>1, <1>4 DEF Save, Written, InJava
<1>7. held'[Flusher] = held[Flusher]
  BY <1>1, <1>2 DEF Goto, Inv, Types
<1>8. QED
  BY <1>1, <1>2, <1>4, <1>5, <1>6, <1>7, EmptyTranscript, EmptyOrdered, MoveOrder

\* A process puts down what it holds.
LEMMA LeaveOrder ==
  ASSUME Inv, OrderInv, NEW p \in Processes, NEW st \in {"start", "get", "done"}, Goto(p, st, <<>>),
         p = Flusher \/ st = "done", UNCHANGED <<transcript, filed, gone>>
  PROVE  OrderInv'
<1>1. Written' = Written
  BY DEF Written, InJava
<1>2. st \in Early /\ p \in Calls => pc[p] \in Early
  BY FlusherAssumption DEF Early
<1>3. QED
  BY <1>1, <1>2, EmptyTranscript, EmptyOrdered, MoveOrder

\* A batch that reached Java, whether or not its answer came back.
LEMMA BatchOrder ==
  ASSUME Inv, OrderInv, BatchInsert, UNCHANGED <<transcript, gone>>,
         \/ Goto(Flusher, "unmark", held[Flusher])
         \/ Goto(Flusher, "start", <<>>)
  PROVE  OrderInv'
<1>1. /\ Flusher \in Processes /\ Flusher \notin Calls /\ Calls \subseteq Processes
      /\ pc \in [Processes -> Steps] /\ held \in [Processes -> Seq(Entries)]
  BY FlusherAssumption DEF Inv, Types, Processes
<1>2. /\ held'[Flusher] = held[Flusher] \/ held'[Flusher] = <<>>
      /\ \A q \in Processes \ {Flusher} : held'[q] = held[q] /\ pc'[q] = pc[q]
  BY <1>1 DEF Goto
<1>3. ASSUME NEW u, Ordered(u) PROVE Ordered(u)'
  <2>1. ASSUME NEW i \in DOMAIN u, NEW j \in DOMAIN u, i < j PROVE Good(u[i], u[j])'
    <3>1. PICK a, b : a = u[i] /\ b = u[j]
      OBVIOUS
    <3>2. Good(a, b)
      BY <1>3, <2>1, <3>1 DEF Ordered
    <3>3. Good(a, b)'
      BY <1>2, <3>2, GoodFiled
    <3>4. QED
      BY <3>1, <3>3
  <2>2. QED
    BY <2>1 DEF Ordered
<1>4. ASSUME NEW q \in Processes PROVE Ordered(held[q])'
  <2>1. PICK u : u = held'[q]
    OBVIOUS
  <2>2. Ordered(u)
    BY <1>2, <2>1, EmptyOrdered DEF OrderInv
  <2>3. Ordered(u)'
    BY <1>3, <2>2
  <2>4. QED
    BY <2>1, <2>3 DEF Ordered
<1>5. Ordered(transcript)'
  <2>1. PICK u : u = transcript
    OBVIOUS
  <2>2. Ordered(u)'
    BY <1>3, <2>1 DEF OrderInv
  <2>3. QED
    BY <2>1, <2>2 DEF Ordered
<1>6. Unwritten'
  <2>1. Stored(held[Flusher]) \subseteq Written
    BY <1>1 DEF Inv, HeldIsWritten
  <2>2. InJava' = InJava \cup Stored(held[Flusher])
    BY BatchProperties DEF Inv
  <2>3. Written' = Written
    BY <2>1, <2>2 DEF Written
  <2>4. QED
    BY <1>1, <1>2, <2>3 DEF OrderInv, Unwritten
<1>7. QED
  BY <1>4, <1>5, <1>6 DEF OrderInv

\* What is lost in Redis is gone.
LEMMA LossOrder == ASSUME Inv, OrderInv, Loss PROVE OrderInv'
<1>1. /\ transcript' = <<>> /\ gone' = gone \cup Stored(transcript)
      /\ UNCHANGED <<filed, pc, held>>
  BY EmptyTranscript DEF Loss, Save
<1>2. InJava' = InJava /\ Written' \subseteq Written
  BY <1>1, EmptyTranscript DEF InJava, Written
<1>3. ASSUME NEW q \in Processes PROVE Ordered(held[q])'
  <2>1. Ordered(held[q])
    BY DEF OrderInv
  <2>2. QED
    BY <1>1, <1>2, <2>1 DEF Ordered, Good
<1>4. QED
  BY <1>1, <1>2, <1>3, EmptyOrdered DEF OrderInv, Unwritten, Ordered

LEMMA RestartOrder == ASSUME Inv, OrderInv, Restart PROVE OrderInv'
<1>1. /\ pc' = [p \in Processes |-> IF p = Flusher THEN "start"
                                    ELSE IF pc[p] = "get" THEN "get" ELSE "done"]
      /\ held' = [p \in Processes |-> <<>>]
      /\ UNCHANGED <<transcript, filed, gone>>
  BY DEF Restart, history
<1>2. Flusher \in Processes /\ Calls \subseteq Processes
  BY DEF Processes
<1>3. InJava' = InJava /\ Written' = Written
  BY <1>1 DEF InJava, Written
<1>4. Unwritten'
  BY <1>1, <1>2, <1>3 DEF OrderInv, Unwritten, Early
<1>5. Ordered(transcript)'
  <2>1. Stored(held'[Flusher]) = {}
    BY <1>1, <1>2, EmptyTranscript
  <2>2. Ordered(transcript)
    BY DEF OrderInv
  <2>3. QED
    BY <1>1, <1>3, <2>1, <2>2 DEF Ordered, Good
<1>6. \A q \in Processes : Ordered(held[q])'
  BY <1>1 DEF Ordered
<1>7. QED
  BY <1>4, <1>5, <1>6 DEF OrderInv

LEMMA InitOrder == Init => OrderInv
<1> SUFFICES ASSUME Init PROVE OrderInv
  OBVIOUS
<1>1. Written = {}
  BY EmptyTranscript DEF Init, Written, InJava
<1>2. transcript = <<>> /\ \A p \in Processes : held[p] = <<>>
  BY DEF Init
<1>3. QED
  BY <1>1, <1>2, EmptyOrdered DEF OrderInv, Unwritten, Ordered

LEMMA StepOrder == ASSUME Inv, OrderInv, [Next]_vars PROVE OrderInv'
<1>1. ASSUME NEW c \in Calls, CallStep(c) PROVE OrderInv'
  <2>1. CASE AppendCall(c)
    BY <2>1, AppendOrder
  <2>2. CASE MarkPending(c)
    BY <2>2, LeaveOrder DEF MarkPending, Processes
  <2>3. CASE CallFails(c)
    BY <2>3, LeaveOrder DEF CallFails, Processes, history
  <2>4. QED
    BY <1>1, <2>1, <2>2, <2>3 DEF CallStep
<1>2. CASE SyncStep
  <2>1. CASE SyncStart
    BY <2>1, LeaveOrder DEF SyncStart, Processes, history
  <2>2. CASE WriteOk
    BY <2>2, BatchOrder DEF WriteOk, history
  <2>3. CASE WriteFails
    <3>1. CASE BatchInsert
      BY <2>3, <3>1, BatchOrder DEF WriteFails, history
    <3>2. CASE UNCHANGED filed
      BY <2>3, <3>2, LeaveOrder DEF WriteFails, Processes, history
    <3>3. QED
      BY <2>3, <3>1, <3>2 DEF WriteFails
  <2>4. CASE Unmark
    BY <2>4, LeaveOrder DEF Unmark, Processes
  <2>5. CASE SyncFails
    BY <2>5, LeaveOrder DEF SyncFails, Processes, history
  <2>6. QED
    BY <1>2, <2>1, <2>2, <2>3, <2>4, <2>5 DEF SyncStep
<1>3. CASE UNCHANGED vars
  <2>1. UNCHANGED <<transcript, filed, pc, held, gone>>
    BY <1>3 DEF vars
  <2>2. InJava' = InJava /\ Written' = Written
    BY <2>1 DEF InJava, Written
  <2>3. QED
    BY <2>1, <2>2 DEF OrderInv, Unwritten, Ordered, Good
<1>4. QED
  BY <1>1, <1>2, <1>3, GetOrder, LossOrder, RestartOrder DEF Next

\* The order of the transcript survives Java, whatever is filed again, lost, rebuilt or
\* written over: of two filed entries the one further down was never filed in an earlier
\* batch (listByConversation orders by created_at, one instant for the rows of a batch),
\* unless the other had dropped out of the transcript before.
THEOREM OrderSurvivesJava == Spec => []JavaKeepsOrder
<1>1. Inv /\ OrderInv /\ [Next]_vars => OrderInv'
  BY StepOrder
<1>2. OrderInv => JavaKeepsOrder
  BY DEF OrderInv, Ordered, Good, JavaKeepsOrder
<1>3. QED
  BY <1>1, <1>2, InitOrder, Invariance, PTL DEF Spec
=============================================================================
