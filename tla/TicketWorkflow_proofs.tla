------------------------ MODULE TicketWorkflow_proofs ------------------------
(***************************************************************************)
(* Proofs about TicketWorkflow, for any number of executions and of other   *)
(* senders of the key, whatever Redis and the commits do.  Everything rests *)
(* on ServiceInv, which createTicket keeps by itself: the key's row is      *)
(* committed once, by the only transaction that has inserted it, and what   *)
(* a snapshot shows of the key is that row or nothing.                      *)
(***************************************************************************)
EXTENDS TicketWorkflow, TLAPS

\* A snapshot shows the committed ticket, none, or is not taken yet.
SnapshotsAreTrue == \A r \in Requests : view[r] \in {None, Unopened, ticket}

\* The row of a transaction is under the key as long as it is neither committed
\* nor rolled back, and nothing is committed under the key meanwhile.
KeyIsHeld ==
  /\ inserted # None => ticket = None /\ pc[inserted] \in {"remember", "commit"}
  /\ \A r \in Requests : pc[r] \in {"remember", "commit"} => inserted = r

\* Who inserts, or has, found nothing under the key.
InsertersSawNothing ==
  \A r \in Requests : pc[r] \in {"insert", "remember", "commit"} => view[r] = None

AnswersEnd == \A r \in Requests : pc[r] # "done" => answer[r] = NoAnswer

ServiceInv ==
  /\ ServiceTypeOK
  /\ SnapshotsAreTrue /\ KeyIsHeld /\ InsertersSawNothing
  /\ AnswersEnd /\ AnswersTrue /\ RetryFinds

Inv == TypeOK /\ ServiceInv /\ ToldTrue

-----------------------------------------------------------------------------
\* The answers a request can get, field by field.
LEMMA AnswerFields ==
  /\ NoAnswer.kind = "none" /\ Failed.kind = "failed"
  /\ \A t : Ok(t).kind = "ok" /\ Ok(t).ticket = t
  /\ \A t : Conflict(t).kind = "conflict" /\ Conflict(t).ticket = t
  BY DEF NoAnswer, Failed, Ok, Conflict

LEMMA AnswersTyped ==
  /\ NoAnswer \in Answers /\ Failed \in Answers
  /\ \A t \in Requests : Ok(t) \in Answers /\ Conflict(t) \in Answers
  BY DEF Answers

\* What r finds under the key is the committed ticket or nothing.
LEMMA SeenIsTicket ==
  ASSUME ServiceInv, NEW r \in Requests
  PROVE  See(r) \in {None, ticket}
  BY DEF ServiceInv, SnapshotsAreTrue, See

\* existingTicketOrConflict tells the truth about the committed ticket.
LEMMA ExistingIsTrue ==
  ASSUME NEW r \in Requests, NEW t \in Requests
  PROVE  /\ Existing(r, t) \in Answers
         /\ Existing(r, t).kind \in {"ok", "conflict"}
         /\ Existing(r, t).ticket = t
         /\ Existing(r, t).kind = "ok" => Fingerprint[t] = Fingerprint[r]
         /\ Existing(r, t).kind = "conflict" => Fingerprint[t] # Fingerprint[r]
  BY AnswerFields, AnswersTyped DEF Existing

\* A true answer to r, while the row of the key is t and r has seen v of it.
True(r, a, t, v) ==
  /\ a \in Answers
  /\ a.kind \in {"ok", "conflict"} => t = a.ticket
  /\ a.kind = "ok" => Fingerprint[t] = Fingerprint[r]
  /\ a.kind = "conflict" => Fingerprint[t] # Fingerprint[r]
  /\ a.kind = "failed" => v \notin Requests

\* AnswersTrue and RetryFinds, request by request.
LEMMA TrueIffAnswered ==
  ASSUME ServiceTypeOK
  PROVE  (\A r \in Requests : True(r, answer[r], ticket, view[r])) <=> AnswersTrue /\ RetryFinds
  BY DEF True, AnswersTrue, RetryFinds, ServiceTypeOK

LEMMA ServiceInitInv == ServiceInit => ServiceInv
<1> SUFFICES ASSUME ServiceInit PROVE ServiceInv
  OBVIOUS
<1>1. ServiceTypeOK
  BY AnswersTyped DEF ServiceInit, ServiceTypeOK
<1>2. SnapshotsAreTrue /\ KeyIsHeld /\ InsertersSawNothing /\ AnswersEnd
  BY DEF ServiceInit, SnapshotsAreTrue, KeyIsHeld, InsertersSawNothing, AnswersEnd
<1>3. AnswersTrue /\ RetryFinds
  BY RequestsAssumption, AnswerFields DEF ServiceInit, AnswersTrue, RetryFinds
<1>4. QED
  BY <1>1, <1>2, <1>3 DEF ServiceInv

\* A step of a request r that is not answered yet and neither inserts nor
\* commits: it may take its snapshot, fill the cache, and be answered the truth.
LEMMA ReaderInv ==
  ASSUME ServiceInv, NEW r \in Requests, pc[r] \in {"idle", "cache", "select", "insert"},
         NEW s \in {"cache", "select", "insert", "done"}, pc' = [pc EXCEPT ![r] = s],
         NEW v \in {view[r], None, ticket}, view' = [view EXCEPT ![r] = v],
         NEW a \in Answers, answer' = [answer EXCEPT ![r] = a],
         s # "done" => a = NoAnswer, s = "insert" => v = None,
         True(r, a, ticket, v),
         cache' \in Requests \cup {None}, UNCHANGED <<ticket, inserted>>
  PROVE  ServiceInv'
<1>1. ServiceTypeOK'
  BY DEF ServiceInv, ServiceTypeOK
<1>2. SnapshotsAreTrue'
  BY DEF ServiceInv, ServiceTypeOK, SnapshotsAreTrue
<1>3. KeyIsHeld'
  BY DEF ServiceInv, ServiceTypeOK, KeyIsHeld
<1>4. InsertersSawNothing'
  BY DEF ServiceInv, ServiceTypeOK, InsertersSawNothing
<1>5. AnswersEnd'
  BY DEF ServiceInv, ServiceTypeOK, AnswersEnd
<1>6. \A q \in Requests : True(q, answer'[q], ticket', view'[q])
  BY TrueIffAnswered DEF ServiceInv, ServiceTypeOK
<1>7. (AnswersTrue /\ RetryFinds)'
  BY <1>1, <1>6 DEF True, AnswersTrue, RetryFinds, ServiceTypeOK
<1>8. QED
  BY <1>1, <1>2, <1>3, <1>4, <1>5, <1>7 DEF ServiceInv

LEMMA BeginInv == ASSUME ServiceInv, NEW r \in Requests, Begin(r) PROVE ServiceInv'
<1>1. answer[r] = NoAnswer /\ answer' = [answer EXCEPT ![r] = NoAnswer]
  BY DEF Begin, ServiceInv, AnswersEnd, ServiceTypeOK
<1>2. PICK v \in {view[r], None, ticket} : view' = [view EXCEPT ![r] = v]
  BY SeenIsTicket DEF Begin, Read, ServiceInv, ServiceTypeOK
<1>3. True(r, NoAnswer, ticket, v)
  BY AnswerFields, AnswersTyped DEF True
<1>4. /\ pc[r] = "idle" /\ pc' = [pc EXCEPT ![r] = "cache"]
      /\ cache' \in Requests \cup {None} /\ UNCHANGED <<ticket, inserted>>
  BY DEF Begin, Goto, ServiceInv, ServiceTypeOK
<1>5. QED
  BY <1>1, <1>2, <1>3, <1>4, ReaderInv, AnswersTyped

\* A request that sees the ticket t is answered what existingTicketOrConflict says.
LEMMA FoundIsTrue ==
  ASSUME ServiceInv, NEW r \in Requests, See(r) \in Requests
  PROVE  True(r, Existing(r, See(r)), ticket, See(r)) /\ See(r) = ticket
  BY SeenIsTicket, ExistingIsTrue, RequestsAssumption DEF True

LEMMA FindCachedInv == ASSUME ServiceInv, NEW r \in Requests, FindCached(r) PROVE ServiceInv'
<1>1. answer[r] = NoAnswer /\ pc[r] = "cache" /\ UNCHANGED <<ticket, inserted, cache>>
  BY DEF FindCached, ServiceInv, AnswersEnd
<1>2. \A v : True(r, NoAnswer, ticket, v)
  BY AnswerFields, AnswersTyped DEF True
<1>3. PICK t \in Fetched :
        IF t = None
          THEN Goto(r, "select") /\ UNCHANGED <<view, answer>>
          ELSE /\ Read(r)
               /\ IF See(r) = t
                    THEN Finish(r, Existing(r, t))
                    ELSE Goto(r, "select") /\ UNCHANGED answer
  BY DEF FindCached
<1>4. t \in Requests \cup {None}
  BY DEF Fetched, ServiceInv, ServiceTypeOK
<1>5. CASE t = None \/ See(r) # t
  <2>1. PICK v \in {view[r], None, ticket} : view' = [view EXCEPT ![r] = v]
    BY <1>3, SeenIsTicket DEF Read, ServiceInv, ServiceTypeOK
  <2>2. pc' = [pc EXCEPT ![r] = "select"] /\ answer' = [answer EXCEPT ![r] = NoAnswer]
    BY <1>1, <1>3, <1>5 DEF Goto, ServiceInv, ServiceTypeOK
  <2>3. QED
    BY <1>1, <1>2, <2>1, <2>2, ReaderInv, AnswersTyped DEF ServiceInv, ServiceTypeOK
<1>6. CASE t # None /\ See(r) = t
  BY <1>1, <1>3, <1>4, <1>6, FoundIsTrue, ExistingIsTrue, ReaderInv, SeenIsTicket
     DEF Finish, Goto, Read, ServiceInv, ServiceTypeOK
<1>7. QED
  BY <1>5, <1>6

LEMMA FindExistingInv == ASSUME ServiceInv, NEW r \in Requests, FindExisting(r) PROVE ServiceInv'
<1>1. /\ answer[r] = NoAnswer /\ pc[r] = "select" /\ UNCHANGED <<ticket, inserted>>
      /\ view' = [view EXCEPT ![r] = See(r)] /\ See(r) \in {None, ticket}
  BY SeenIsTicket DEF FindExisting, Read, ServiceInv, AnswersEnd
<1>2. CASE See(r) = None
  <2>1. True(r, NoAnswer, ticket, None)
    BY AnswerFields, AnswersTyped DEF True
  <2>2. /\ pc' = [pc EXCEPT ![r] = "insert"] /\ UNCHANGED cache
        /\ answer' = [answer EXCEPT ![r] = NoAnswer]
    BY <1>1, <1>2 DEF FindExisting, Goto, ServiceInv, ServiceTypeOK
  <2>3. QED
    BY <1>1, <1>2, <2>1, <2>2, ReaderInv, AnswersTyped DEF ServiceInv, ServiceTypeOK
<1>3. CASE See(r) # None
  <2>1. See(r) \in Requests
    BY <1>1, <1>3 DEF ServiceInv, ServiceTypeOK
  <2>2. /\ pc' = [pc EXCEPT ![r] = "done"]
        /\ answer' = [answer EXCEPT ![r] = Existing(r, See(r))]
        /\ cache' \in {cache, See(r)}
    BY <1>3 DEF FindExisting, Finish, Goto, Remembered
  <2>3. cache' \in Requests \cup {None}
    BY <2>1, <2>2 DEF ServiceInv, ServiceTypeOK
  <2>4. True(r, Existing(r, See(r)), ticket, See(r)) /\ Existing(r, See(r)) \in Answers
    BY <2>1, FoundIsTrue, ExistingIsTrue
  <2>5. QED
    BY <1>1, <2>2, <2>3, <2>4, ReaderInv
<1>4. QED
  BY <1>2, <1>3

LEMMA InsertInv == ASSUME ServiceInv, NEW r \in Requests, Insert(r) PROVE ServiceInv'
<1>1. pc[r] = "insert" /\ inserted = None /\ view[r] = None /\ UNCHANGED <<ticket, cache, view>>
  BY DEF Insert, ServiceInv, InsertersSawNothing
<1>2. CASE ticket = None
  <2>1. inserted' = r /\ pc' = [pc EXCEPT ![r] = "remember"] /\ UNCHANGED answer
    BY <1>2 DEF Insert, Goto
  <2>2. ServiceTypeOK'
    BY <1>1, <2>1 DEF ServiceInv, ServiceTypeOK
  <2>3. KeyIsHeld'
    BY <1>1, <1>2, <2>1, RequestsAssumption DEF ServiceInv, ServiceTypeOK, KeyIsHeld
  <2>4. (SnapshotsAreTrue /\ InsertersSawNothing /\ AnswersEnd)'
    BY <1>1, <2>1 DEF ServiceInv, ServiceTypeOK, SnapshotsAreTrue, InsertersSawNothing, AnswersEnd
  <2>5. (AnswersTrue /\ RetryFinds)'
    BY <1>1, <2>1 DEF ServiceInv, AnswersTrue, RetryFinds
  <2>6. QED
    BY <2>2, <2>3, <2>4, <2>5 DEF ServiceInv
<1>3. CASE ticket # None
  <2>1. See(r) = None
    BY <1>1, RequestsAssumption DEF See
  <2>2. /\ pc' = [pc EXCEPT ![r] = "done"] /\ answer' = [answer EXCEPT ![r] = Failed]
        /\ UNCHANGED inserted
    BY <1>3, <2>1 DEF Insert, Finish, Goto
  <2>3. True(r, Failed, ticket, None)
    BY AnswerFields, AnswersTyped, RequestsAssumption DEF True
  <2>4. view' = [view EXCEPT ![r] = None]
    BY <1>1 DEF ServiceInv, ServiceTypeOK
  <2>5. QED
    BY <1>1, <2>2, <2>3, <2>4, ReaderInv, AnswersTyped DEF ServiceInv, ServiceTypeOK
<1>4. QED
  BY <1>2, <1>3

LEMMA RememberInv == ASSUME ServiceInv, NEW r \in Requests, Remember(r) PROVE ServiceInv'
<1>1. /\ pc[r] = "remember" /\ pc' = [pc EXCEPT ![r] = "commit"]
      /\ cache' \in {cache, r} /\ UNCHANGED <<ticket, inserted, view, answer>>
  BY DEF Remember, Goto, Remembered
<1>2. ServiceTypeOK'
  BY <1>1 DEF ServiceInv, ServiceTypeOK
<1>3. (SnapshotsAreTrue /\ KeyIsHeld /\ InsertersSawNothing /\ AnswersEnd)'
  BY <1>1 DEF ServiceInv, ServiceTypeOK, SnapshotsAreTrue, KeyIsHeld, InsertersSawNothing, AnswersEnd
<1>4. (AnswersTrue /\ RetryFinds)'
  BY <1>1 DEF ServiceInv, AnswersTrue, RetryFinds
<1>5. QED
  BY <1>2, <1>3, <1>4 DEF ServiceInv

LEMMA CommitInv == ASSUME ServiceInv, NEW r \in Requests, Commit(r) PROVE ServiceInv'
<1>1. /\ pc[r] = "commit" /\ inserted = r /\ ticket = None /\ view[r] = None
      /\ ticket' = r /\ inserted' = None /\ UNCHANGED <<cache, view>>
      /\ pc' = [pc EXCEPT ![r] = "done"] /\ answer' = [answer EXCEPT ![r] = Ok(r)]
  BY RequestsAssumption DEF Commit, Finish, Goto, ServiceInv, KeyIsHeld, InsertersSawNothing
<1>2. ServiceTypeOK'
  BY <1>1, AnswersTyped DEF ServiceInv, ServiceTypeOK
<1>3. (SnapshotsAreTrue /\ KeyIsHeld /\ InsertersSawNothing /\ AnswersEnd)'
  BY <1>1, RequestsAssumption
     DEF ServiceInv, ServiceTypeOK, SnapshotsAreTrue, KeyIsHeld, InsertersSawNothing, AnswersEnd
\* Until now nobody was answered with a ticket.
<1>4. \A q \in Requests : answer[q] \in {NoAnswer, Failed}
  <2> SUFFICES ASSUME NEW q \in Requests PROVE answer[q] \in {NoAnswer, Failed}
    OBVIOUS
  <2>1. answer[q].kind \notin {"ok", "conflict"} \/ answer[q].ticket = None
    BY <1>1 DEF ServiceInv, AnswersTrue
  <2>2. answer[q] \in Answers
    BY DEF ServiceInv, ServiceTypeOK
  <2>3. QED
    BY <2>1, <2>2, RequestsAssumption, AnswerFields DEF Answers
<1>5. (AnswersTrue /\ RetryFinds)'
  <2>1. \A q \in Requests : answer'[q] = IF q = r THEN Ok(r) ELSE answer[q]
    BY <1>1 DEF ServiceInv, ServiceTypeOK
  <2>2. AnswersTrue'
    BY <1>1, <1>4, <2>1, AnswerFields DEF AnswersTrue
  <2>3. RetryFinds'
    BY <1>1, <2>1, AnswerFields DEF ServiceInv, RetryFinds
  <2>4. QED
    BY <2>2, <2>3
<1>6. QED
  BY <1>2, <1>3, <1>5 DEF ServiceInv

LEMMA CommitFailsInv == ASSUME ServiceInv, NEW r \in Requests, CommitFails(r) PROVE ServiceInv'
<1> DEFINE waiting == {q \in Requests : pc[q] = "insert"}
<1>1. PICK V \in SUBSET waiting :
        /\ pc' = [q \in Requests |-> IF q \in V \cup {r} THEN "done" ELSE pc[q]]
        /\ answer' = [q \in Requests |-> IF q \in V \cup {r} THEN Failed ELSE answer[q]]
  BY DEF CommitFails
<1>2. pc[r] = "commit" /\ inserted = r /\ inserted' = None /\ UNCHANGED <<ticket, cache, view>>
  BY DEF CommitFails, ServiceInv, KeyIsHeld
<1>3. \A q \in V \cup {r} : view[q] = None
  BY <1>1, <1>2 DEF ServiceInv, InsertersSawNothing
<1>4. ServiceTypeOK'
  BY <1>1, <1>2, AnswersTyped DEF ServiceInv, ServiceTypeOK
<1>5. (SnapshotsAreTrue /\ KeyIsHeld /\ InsertersSawNothing /\ AnswersEnd)'
  BY <1>1, <1>2 DEF ServiceInv, SnapshotsAreTrue, KeyIsHeld, InsertersSawNothing, AnswersEnd
<1>6. (AnswersTrue /\ RetryFinds)'
  BY <1>1, <1>2, <1>3, AnswerFields, RequestsAssumption DEF ServiceInv, AnswersTrue, RetryFinds
<1>7. QED
  BY <1>4, <1>5, <1>6 DEF ServiceInv

LEMMA ExpireInv == ASSUME ServiceInv, Expire PROVE ServiceInv'
  BY DEF Expire, ServiceInv, ServiceTypeOK, SnapshotsAreTrue, KeyIsHeld, InsertersSawNothing,
         AnswersEnd, AnswersTrue, RetryFinds

LEMMA RequestStepInv == ASSUME ServiceInv, NEW r \in Requests, RequestStep(r) PROVE ServiceInv'
  BY FindCachedInv, FindExistingInv, InsertInv, RememberInv, CommitInv, CommitFailsInv
     DEF RequestStep

LEMMA ServiceStutter == ASSUME ServiceInv, UNCHANGED service PROVE ServiceInv'
  BY DEF service, ServiceInv, ServiceTypeOK, SnapshotsAreTrue, KeyIsHeld, InsertersSawNothing,
         AnswersEnd, AnswersTrue, RetryFinds

\* A committed ticket stays: nothing is inserted beside it.
LEMMA TicketStays ==
  ASSUME ServiceInv, ServiceNext, ticket # None
  PROVE  ticket' = ticket
<1>1. ASSUME NEW r \in Requests, Commit(r) PROVE FALSE
  BY <1>1, RequestsAssumption DEF Commit, ServiceInv, KeyIsHeld
<1>2. QED
  BY <1>1 DEF ServiceNext, RequestStep, Begin, Expire, FindCached, FindExisting, Insert,
              Remember, CommitFails

-----------------------------------------------------------------------------
\* Whatever the Python service does, Java takes a step of createTicket or none.
LEMMA JavaPart == [Next]_vars => [ServiceNext]_service
<1> SUFFICES ASSUME [Next]_vars PROVE [ServiceNext]_service
  OBVIOUS
<1>1. CASE Plan \/ Confirm \/ TimePasses \/ Restart
  BY <1>1 DEF Plan, Confirm, TimePasses, Restart
<1>2. ASSUME NEW e \in Executions, RequireConfirmed(e) \/ ExecutionStep(e)
      PROVE  [ServiceNext]_service
  <2>1. CASE Call(e)
    BY <2>1, ExecutionsAssumption DEF Call, ServiceNext
  <2>2. CASE RequireConfirmed(e) \/ Replay(e) \/ Answered(e) \/ Timeout(e)
    BY <2>2 DEF RequireConfirmed, Replay, Answered, Timeout
  <2>3. QED
    BY <1>2, <2>1, <2>2 DEF ExecutionStep
<1>3. CASE JavaStep
  BY <1>3 DEF JavaStep, ServiceNext, Others
<1>4. CASE UNCHANGED vars
  BY <1>4 DEF vars
<1>5. QED
  BY <1>1, <1>2, <1>3, <1>4 DEF Next

\* What the Python service keeps and tells is the ticket Java answered with.
LEMMA WorkflowTypes == ASSUME Inv, [Next]_vars, ServiceTypeOK' PROVE TypeOK'
<1>1. CASE Plan \/ Confirm \/ TimePasses \/ Restart
  BY <1>1 DEF Inv, TypeOK, Plan, Confirm, TimePasses, Restart
<1>2. ASSUME NEW e \in Executions, RequireConfirmed(e) \/ ExecutionStep(e) PROVE TypeOK'
  <2>1. CASE RequireConfirmed(e) \/ Call(e) \/ Timeout(e)
    BY <2>1 DEF Inv, TypeOK, RequireConfirmed, Call, Timeout, Enter
  <2>2. CASE Replay(e)
    BY <2>2 DEF Inv, TypeOK, Replay, Enter
  <2>3. CASE Answered(e)
    <3>1. answer[e].kind = "ok" => answer[e].ticket \in Requests
      <4>1. answer[e] \in Answers
        BY ExecutionsAssumption DEF Inv, TypeOK, ServiceTypeOK
      <4>2. QED
        BY <4>1, AnswerFields DEF Answers
    <3>2. QED
      BY <2>3, <3>1 DEF Inv, TypeOK, Answered, Enter
  <2>4. QED
    BY <1>2, <2>1, <2>2, <2>3 DEF ExecutionStep
<1>3. CASE JavaStep \/ UNCHANGED vars
  BY <1>3 DEF Inv, TypeOK, JavaStep, workflow, vars
<1>4. QED
  BY <1>1, <1>2, <1>3 DEF Next

\* What is told or kept anew was answered by Java, or had been kept before.
LEMMA ToldByJava ==
  ASSUME Inv, [Next]_vars
  PROVE  \A t \in told' \cup {result'} :
           \/ t \in told \cup {result, None}
           \/ ticket = t /\ UNCHANGED service
<1>1. CASE Plan \/ Confirm \/ TimePasses \/ Restart
  BY <1>1 DEF Plan, Confirm, TimePasses, Restart
<1>2. ASSUME NEW e \in Executions, Answered(e)
      PROVE  \A t \in told' \cup {result'} :
               \/ t \in told \cup {result, None}
               \/ ticket = t /\ UNCHANGED service
  BY <1>2, ExecutionsAssumption DEF Answered, Inv, ServiceInv, AnswersTrue
<1>3. ASSUME NEW e \in Executions, RequireConfirmed(e) \/ Replay(e) \/ Call(e) \/ Timeout(e)
      PROVE  told' \subseteq told \cup {result} /\ result' = result
  BY <1>3 DEF RequireConfirmed, Replay, Call, Timeout
<1>4. CASE JavaStep \/ UNCHANGED vars
  BY <1>4 DEF JavaStep, workflow, vars
<1>5. QED
  BY <1>1, <1>2, <1>3, <1>4 DEF Next, ExecutionStep

LEMMA ToldStep == ASSUME Inv, [Next]_vars PROVE ToldTrue'
<1> SUFFICES ASSUME NEW t \in told' \cup {result'}, t # None PROVE t = ticket'
  BY DEF ToldTrue
<1>1. CASE t \in told \cup {result, None}
  <2>1. t = ticket
    BY <1>1 DEF Inv, ToldTrue
  <2>2. ticket' = ticket
    BY <2>1, JavaPart, TicketStays DEF Inv, service
  <2>3. QED
    BY <2>1, <2>2
<1>2. CASE ticket = t /\ UNCHANGED service
  BY <1>2 DEF service
<1>3. QED
  BY <1>1, <1>2, ToldByJava

LEMMA InitInv == Init => Inv
  BY ServiceInitInv, RequestsAssumption
     DEF Init, Inv, TypeOK, ToldTrue, ServiceInv

LEMMA NextInv == Inv /\ [Next]_vars => Inv'
<1> SUFFICES ASSUME Inv, [Next]_vars PROVE Inv'
  OBVIOUS
<1>1. ServiceInv'
  BY JavaPart, BeginInv, RequestStepInv, ExpireInv, ServiceStutter DEF Inv, ServiceNext
<1>2. TypeOK'
  BY <1>1, WorkflowTypes DEF ServiceInv
<1>3. QED
  BY <1>1, <1>2, ToldStep DEF Inv

LEMMA Invariance == Spec => []Inv
  BY InitInv, NextInv, PTL DEF Spec

-----------------------------------------------------------------------------
\* The tables of both services keep their types; an error is never kept as a ticket.
THEOREM TypeCorrect == Spec => []TypeOK
<1>1. Inv => TypeOK
  BY DEF Inv
<1>2. QED
  BY <1>1, Invariance, PTL

\* For any number of requests with one Idempotency-Key, an OK answer of createTicket
\* names the one committed ticket of the key, made of the request's own fingerprint.
THEOREM OneKeyOneTicket == Spec => []AnswersTrue
<1>1. Inv => AnswersTrue
  BY DEF Inv, ServiceInv
<1>2. QED
  BY <1>1, Invariance, PTL

\* A request whose snapshot shows the committed ticket is not turned away with an
\* error, whatever entry findFromIdempotencyCache meets.
THEOREM RetriesFind == Spec => []RetryFinds
<1>1. Inv => RetryFinds
  BY DEF Inv, ServiceInv
<1>2. QED
  BY <1>1, Invariance, PTL

\* Whatever timeouts, retries and restarts lead to, all executions of a plan that were
\* answered (execute_confirmed_ticket) were answered with the ticket Java has.
THEOREM OneTicketTold == Spec => []ToldTrue
<1>1. Inv => ToldTrue
  BY DEF Inv
<1>2. QED
  BY <1>1, Invariance, PTL
=============================================================================
