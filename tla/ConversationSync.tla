-------------------------- MODULE ConversationSync --------------------------
(***************************************************************************)
(* The transcript of one conversation: the copy in Redis the service works  *)
(* on (console_agent_conversation_store.py), the set of markers and the     *)
(* daemon that files marked transcripts in Java (conversation_sync.py), and *)
(* the rows in Java from which an expired transcript is rebuilt.            *)
(*                                                                          *)
(* Every request of the console reads the whole transcript, changes it and  *)
(* writes it back, in steps of its own.  An entry stands for what one call  *)
(* appends (a question with its answer, or a reply of the staff) and is     *)
(* named after the call.                                                    *)
(***************************************************************************)
EXTENDS Naturals, Sequences, FiniteSets

CONSTANTS
  Calls,         \* the requests that touch the transcript
  Kind,          \* Calls -> what the request does, see Kinds
  Flusher,       \* the thread of PendingConversationSync.run_forever
  MaxMessages,   \* MAX_CONVERSATION_MESSAGES
  Faults         \* which of "java", "redis", "loss", "restart" may happen

Kinds == {"exchange",   \* a question answered by the AI: stored, then marked
          "takeover",   \* a question while staff have the conversation: stored
          "reply",      \* a reply of the staff: stored
          "feedback"}   \* a rating of an answer already stored

ASSUME CallsAssumption == IsFiniteSet(Calls)
ASSUME KindAssumption == Kind \in [Calls -> Kinds]
ASSUME FlusherAssumption == Flusher \notin Calls
ASSUME MaxMessagesAssumption == MaxMessages \in Nat \ {0}

VARIABLES
  transcript,   \* the entries under the conversation's key; <<>>: no key
  marked,       \* the conversation is in the set of pending markers
  filed,        \* entry -> number of the batch that filed it in Java, 0: none
  pc, held,     \* of every call and the flusher: next step, transcript read
  recorded,     \* history: exchanges whose marker was set
  gone,         \* history: entries once dropped from the transcript
  skipped       \* history: entries stored behind the flusher's back, whose
                \* marker it removed
vars == <<transcript, marked, filed, pc, held, recorded, gone, skipped>>
history == <<recorded, gone, skipped>>

Processes == Calls \cup {Flusher}
Entries == {c \in Calls : Kind[c] # "feedback"}
InJava == {e \in Entries : filed[e] > 0}
Stored(s) == {s[i] : i \in DOMAIN s}

Steps == {"start", "get", "fill", "restore", "save", "mark", "write", "unmark", "done"}

TypeOK ==
  /\ transcript \in Seq(Entries) /\ Len(transcript) <= MaxMessages
  /\ marked \in BOOLEAN
  /\ filed \in [Entries -> 0..Cardinality(Entries)]
  /\ pc \in [Processes -> Steps]
  /\ held \in [Processes -> Seq(Entries)]
  /\ \A p \in Processes : Len(held[p]) <= MaxMessages
  /\ recorded \subseteq Entries /\ gone \subseteq Entries /\ skipped \subseteq Entries

Init ==
  /\ transcript = <<>> /\ marked = FALSE
  /\ filed = [e \in Entries |-> 0]
  /\ pc = [p \in Processes |-> IF p = Flusher THEN "start" ELSE "get"]
  /\ held = [p \in Processes |-> <<>>]
  /\ recorded = {} /\ gone = {} /\ skipped = {}

(***************************************************************************)
(* The transcript.                                                          *)
(***************************************************************************)
\* Fault seeded for TypeOK: the transcript is never cut.
TrimNothing(s) == s

\* messages[-MAX_CONVERSATION_MESSAGES:]
Trim(s) == SubSeq(s, IF Len(s) > MaxMessages THEN Len(s) - MaxMessages + 1 ELSE 1, Len(s))

\* The whole transcript is written over whatever the key holds by now.
Save(s) ==
  /\ transcript' = s
  /\ gone' = gone \cup (Stored(transcript) \ Stored(s))

\* Fault seeded for JavaKeepsOrder: the rows come back without an ORDER BY.
ListingsUnordered ==
  {s \in [1..Cardinality(InJava) -> InJava] : Stored(s) = InJava}

\* ORDER BY created_at, which is one instant for all the rows of a batch.
Listings ==
  {s \in [1..Cardinality(InJava) -> InJava] :
     /\ Stored(s) = InJava
     /\ \A i, j \in DOMAIN s : i < j => filed[s[i]] <= filed[s[j]]}

\* p goes on to step with the transcript s in its hands.
Goto(p, step, s) ==
  pc' = [pc EXCEPT ![p] = step] /\ held' = [held EXCEPT ![p] = s]

\* What a process does once get() has given it the transcript s.
After(p, s) ==
  CASE p = Flusher -> IF s = <<>> THEN "unmark" ELSE "write"
    [] p # Flusher /\ Kind[p] = "feedback"
         -> IF \E e \in Stored(s) : Kind[e] = "exchange" THEN "save" ELSE "done"
    [] OTHER -> "save"

GetHit(p) ==
  /\ pc[p] = "get" /\ transcript # <<>>
  /\ Goto(p, After(p, transcript), transcript)
  /\ UNCHANGED <<transcript, marked, filed, history>>

GetMiss(p) ==
  /\ pc[p] = "get" /\ transcript = <<>>
  /\ Goto(p, "fill", <<>>) /\ UNCHANGED <<transcript, marked, filed, history>>

\* Java answers with the rows; without rows there is no transcript.
Fill(p) ==
  /\ pc[p] = "fill"
  /\ \E s \in Listings :
       Goto(p, IF s = <<>> THEN After(p, s) ELSE "restore", Trim(s))
  /\ UNCHANGED <<transcript, marked, filed, history>>

FillFails(p) ==
  /\ "java" \in Faults /\ pc[p] = "fill"
  /\ Goto(p, After(p, <<>>), <<>>)
  /\ UNCHANGED <<transcript, marked, filed, history>>

\* The rebuilt transcript is saved whether or not a key has appeared meanwhile.
Restore(p) ==
  /\ pc[p] = "restore"
  /\ Save(held[p]) /\ Goto(p, After(p, held[p]), held[p])
  /\ UNCHANGED <<marked, filed, recorded, skipped>>

(***************************************************************************)
(* The calls.                                                               *)
(***************************************************************************)
AppendCall(c) ==
  /\ pc[c] = "save"
  /\ Save(IF Kind[c] = "feedback" THEN held[c] ELSE Trim(Append(held[c], c)))
  /\ Goto(c, IF Kind[c] = "exchange" THEN "mark" ELSE "done", <<>>)
  /\ UNCHANGED <<marked, filed, recorded, skipped>>

MarkPending(c) ==
  /\ pc[c] = "mark"
  /\ marked' = TRUE
  /\ recorded' = recorded \cup {c}
  /\ skipped' = skipped \ Stored(transcript)
  /\ Goto(c, "done", <<>>)
  /\ UNCHANGED <<transcript, filed, gone>>

\* A Redis error ends the call; the customer has the answer all the same.
CallFails(c) ==
  /\ "redis" \in Faults /\ pc[c] \in {"get", "restore", "save", "mark"}
  /\ Goto(c, "done", <<>>) /\ UNCHANGED <<transcript, marked, filed, history>>

(***************************************************************************)
(* The flusher.                                                             *)
(***************************************************************************)
SyncStart ==
  /\ pc[Flusher] = "start" /\ marked
  /\ Goto(Flusher, "get", <<>>) /\ UNCHANGED <<transcript, marked, filed, history>>

\* The number of the last batch that filed anything.
LastBatch ==
  CHOOSE n \in 0..Cardinality(Entries) :
    /\ \A e \in Entries : filed[e] <= n
    /\ n = 0 \/ \E e \in Entries : filed[e] = n

\* Fault seeded for AppendOnly: INSERT ... ON DUPLICATE KEY UPDATE created_at.
BatchReplace ==
  filed' = [e \in Entries |->
              IF e \in Stored(held[Flusher]) THEN LastBatch + 1 ELSE filed[e]]

\* INSERT IGNORE: the entries of the copy that are not filed yet form a batch.
BatchInsert ==
  filed' = [e \in Entries |->
              IF e \in Stored(held[Flusher]) \ InJava THEN LastBatch + 1 ELSE filed[e]]

WriteOk ==
  /\ pc[Flusher] = "write"
  /\ BatchInsert /\ Goto(Flusher, "unmark", held[Flusher])
  /\ UNCHANGED <<transcript, marked, history>>

\* Fault seeded for NothingForgotten: the marker is removed whatever happened.
WriteFailsUnmarked ==
  /\ "java" \in Faults /\ pc[Flusher] = "write"
  /\ marked' = FALSE
  /\ Goto(Flusher, "start", <<>>)
  /\ UNCHANGED <<transcript, filed, history>>

\* Fault seeded for Flushed: an exception ends the thread.
WriteFailsForGood ==
  /\ "java" \in Faults /\ pc[Flusher] = "write"
  /\ Goto(Flusher, "done", <<>>)
  /\ UNCHANGED <<transcript, marked, filed, history>>

\* Any exception leaves the marker for the next cycle; Java may have written.
WriteFails ==
  /\ "java" \in Faults /\ pc[Flusher] = "write"
  /\ BatchInsert \/ UNCHANGED filed
  /\ Goto(Flusher, "start", <<>>)
  /\ UNCHANGED <<transcript, marked, history>>

Unmark ==
  /\ pc[Flusher] = "unmark"
  /\ marked' = FALSE
  /\ skipped' = skipped \cup (Stored(transcript) \ Stored(held[Flusher]))
  /\ Goto(Flusher, "start", <<>>)
  /\ UNCHANGED <<transcript, filed, recorded, gone>>

SyncFails ==
  /\ "redis" \in Faults /\ pc[Flusher] \in {"get", "restore", "unmark"}
  /\ Goto(Flusher, "start", <<>>) /\ UNCHANGED <<transcript, marked, filed, history>>

(***************************************************************************)
(* The surroundings: the key expires or Redis comes back empty; the service *)
(* is restarted, its calls die where they are.                              *)
(***************************************************************************)
Loss ==
  /\ "loss" \in Faults /\ transcript # <<>>
  /\ Save(<<>>)
  /\ marked' \in {marked, FALSE}
  /\ UNCHANGED <<filed, pc, held, recorded, skipped>>

Restart ==
  /\ "restart" \in Faults
  /\ \E p \in Processes : pc[p] \notin {"start", "get", "done"}
  /\ pc' = [p \in Processes |-> IF p = Flusher THEN "start"
                                ELSE IF pc[p] = "get" THEN "get" ELSE "done"]
  /\ held' = [p \in Processes |-> <<>>]
  /\ UNCHANGED <<transcript, marked, filed, history>>

GetStep(p) == GetHit(p) \/ GetMiss(p) \/ Fill(p) \/ FillFails(p) \/ Restore(p)
CallStep(c) == AppendCall(c) \/ MarkPending(c) \/ CallFails(c)
SyncStep == SyncStart \/ WriteOk \/ WriteFails \/ Unmark \/ SyncFails

Next ==
  \/ \E p \in Processes : GetStep(p)
  \/ \E c \in Calls : CallStep(c)
  \/ SyncStep \/ Loss \/ Restart

(***************************************************************************)
(* The daemon runs as long as the service does, so its steps are fair; and  *)
(* because Java, Redis and the service itself may fail again and again but  *)
(* not always, a cycle that is tried again and again gets through.  Nothing *)
(* is assumed of the calls: a customer may never come back.                 *)
(***************************************************************************)
Fairness ==
  /\ SF_vars(SyncStart) /\ SF_vars(GetHit(Flusher)) /\ SF_vars(WriteOk)
  /\ WF_vars(GetMiss(Flusher) \/ Fill(Flusher) \/ Restore(Flusher) \/ Unmark)

Spec == Init /\ [][Next]_vars /\ Fairness

(***************************************************************************)
(* Properties.                                                              *)
(***************************************************************************)
\* An exchange whose marker was set is in Java, or waits in a transcript that
\* is still marked; the only ways around are a transcript written over or lost
\* in Redis, and a marker the flusher removed for an older copy.
NothingForgotten ==
  \A e \in recorded :
    \/ e \in InJava \cup gone \cup skipped
    \/ marked /\ e \in Stored(transcript)

\* The order of the transcript survives Java: of two filed entries, the one
\* further down the transcript was never filed in an earlier batch, unless the
\* other had dropped out of the transcript before (trimmed, then written back
\* by a call that still held it).
JavaKeepsOrder ==
  \A i, j \in DOMAIN transcript :
    i < j /\ {transcript[i], transcript[j]} \subseteq InJava
      => filed[transcript[i]] <= filed[transcript[j]] \/ transcript[i] \in gone

\* Java keeps a message in the batch that first brought it, whatever is
\* delivered again after a lost answer.
Durable == INSTANCE DurableTranscript WITH written <- InJava \cup gone \cup Stored(transcript)
AppendOnly == Durable!Spec

\* A recorded exchange gets to Java in the end, however often a cycle fails,
\* unless it is lost in one of the ways of NothingForgotten.
Flushed ==
  \A e \in {c \in Calls : Kind[c] = "exchange"} :
    e \in recorded ~> e \in InJava \cup gone \cup skipped
=============================================================================
