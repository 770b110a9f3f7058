------------------------- MODULE TicketThread_proofs -------------------------
(***************************************************************************)
(* Proofs about TicketThread, for any orders and any number of messages of    *)
(* the thread, in both graphs.  Inv says of each node what must hold when the *)
(* run arrives there: which graph has it (Placed), what is offered and granted *)
(* (Offered), whether the emotion is of this turn (Felt), where the draft is   *)
(* from (Current), what the routes that lead there have looked at (Ways) and,   *)
(* while nothing was given up and no message came in over an offer since the   *)
(* last decision, which flow the customer asked for (Followed).  Sought says of *)
(* every flow the thread is about that the customer asked for it since then.   *)
(***************************************************************************)
EXTENDS TicketThread, TLAPS

\* The nodes that call the Java service, and the one that waits for the customer.
Exec == {"create_ticket", "execute_refund_request", "execute_cancel_request"}
Ask == "request_ticket_confirmation"

\* The nodes of each graph and subgraph; outside a subgraph every update is saved.
Placed ==
  /\ worker = "knowledge_agent" =>
       node \in {"emotion_recognition", "retrieve_policy", "decide_ticket_need"}
  /\ worker = "order_agent" => node \in {"emotion_recognition", "query_order"}
  /\ worker = "ticket_agent" =>
       node \in {"emotion_recognition", "extract_ticket_fields", "handle_refund_request",
                 "handle_cancel_request", "ask_missing_ticket_fields", Ask} \cup Exec
  /\ worker = "none" /\ supervised =>
       node \in {"normalize_user_input", "supervisor_route", "build_direct_answer", "END"}
  /\ node = "supervisor_route" => supervised
  /\ node = "END" => worker = "none" /\ ~running
  /\ worker = "none" => saved = state

\* An offer stands only at the interrupt, a grant only on the way to its execution,
\* and both are what the state says.
Offered ==
  /\ shown # NoOffer => /\ ~running /\ node = Ask /\ grant = NoOffer /\ ~open
                        /\ shown = [flow |-> FlowOf(state), draft |-> state.fields]
  /\ grant # NoOffer => running /\ node \in Exec
  /\ running /\ node \in Exec =>
       /\ state.approved /\ state.confirmation = state.fields
       /\ grant = [flow |-> FlowOf(state), draft |-> state.fields]
       /\ (node = "execute_cancel_request") <=> (FlowOf(state) = "cancel")
       /\ (node = "execute_refund_request") <=> (FlowOf(state) = "refund")

\* An emotional message leads to the hand-off, and the state says so from the first
\* node on.
Felt ==
  /\ running /\ felt => message.angry
  /\ felt => node \in {"emotion_recognition", "build_emotion_handoff_answer", "END"}
  /\ node # "normalize_user_input" => (state.emotional <=> felt)

\* Begun after the last decision, about an order named since.
Fresh(d) == d.since > settled /\ d.order \in named \cup {NoOrder}

\* A draft that is open, or on its way to the customer, is fresh.  The thread's own
\* copy may be behind while a worker executes; after a crash there no message that
\* was let through is left.
Current ==
  /\ settled <= turn
  /\ node \notin Exec \cup {"END"} => turn > settled /\ message.order \in named \cup {NoOrder}
  /\ Collecting(state) => Fresh(state.fields)
  /\ Collecting(saved) => Fresh(saved.fields) \/ (node \in Exec /\ worker = "ticket_agent")
  /\ node \in Exec \cup {Ask} => ~state.missing
  /\ node = Ask => Fresh(state.fields)
  /\ node = "ask_missing_ticket_fields" => state.missing /\ Fresh(state.fields)
  /\ node \in Exec /\ worker = "ticket_agent" /\ ~running => ~admitted

\* The nodes that write the draft, those that ask about it, and the parts of a turn
\* after and before the message was classified.
Draws == {"extract_ticket_fields", "handle_refund_request", "handle_cancel_request"}
Answers == {"ask_missing_ticket_fields", Ask}

Classified ==
  worker # "none" \/ node \in {"retrieve_policy", "decide_ticket_need", "query_order"} \cup Draws

Unread ==
  /\ worker = "none"
  /\ node \in {"normalize_user_input", "emotion_recognition", "classify_intent", "supervisor_route"}

\* The intent i is what the customer asked for.
Meant(i) ==
  /\ i \in Flows => asked = i
  /\ i = "policy" => asked = "ticket" /\ ~open
  /\ open => i \in Flows

\* A draft is being collected exactly while a question about it is open, and it is
\* of the flow that was asked for.
AsAsked ==
  IF ~open THEN ~Collecting(state)
  ELSE /\ Collecting(state) /\ asked \in Flows /\ FlowOf(state) = asked
       /\ asked = "ticket" => state.needs

\* What the way to a node says, whatever has been given up before.
Ways ==
  /\ node \in Exec => ~open
  /\ worker = "knowledge_agent" \/ node = "retrieve_policy" => state.intent = "policy"
  /\ node = "decide_ticket_need" => state.intent \in {"policy", "ticket"}
  /\ worker = "ticket_agent" \/ node \in {"extract_ticket_fields"} \cup Answers => state.needs
  /\ worker = "ticket_agent" => state.intent \in Flows \cup {"policy"}
  /\ node = "handle_refund_request" => state.intent = "refund" \/ CollectingRefund(state)

\* What it says of the flow that was asked for, while nothing has been disturbed.
Followed ==
  /\ ~running => node \in {"END", Ask} /\ (node = Ask => ~open)
  /\ node \in Answers => FlowOf(state) = asked
  /\ node \notin Exec \cup Answers \/ (node = Ask /\ ~running) => AsAsked
  /\ Classified /\ node \notin Exec \cup Answers => Meant(state.intent)
  /\ Unread => open \/ Meant(message.intent)
  /\ node = "extract_ticket_fields" => asked = "ticket"
  /\ node = "handle_refund_request" => asked = "refund"
  /\ node = "handle_cancel_request" => asked = "cancel"

Inv == TypeOK /\ Placed /\ Offered /\ Felt /\ Current /\ Ways /\ (~disturbed => Followed)

-----------------------------------------------------------------------------
\* The routes, by their conditions.
LEMMA EmotionRoute ==
  ASSUME NEW s
  PROVE  /\ worker = "none" => AfterEmotion(s) = "classify_intent"
         /\ worker = "knowledge_agent" => AfterEmotion(s) = "retrieve_policy"
         /\ worker = "order_agent" => AfterEmotion(s) = "query_order"
         /\ worker = "ticket_agent" => AfterEmotion(s) = TicketEntry(s)
  BY Zenon DEF AfterEmotion

LEMMA AnswerRoute ==
  /\ AnswerNode("policy") = "retrieve_policy" /\ AnswerNode("order") = "query_order"
  /\ AnswerNode("ticket") = "decide_ticket_need"
  /\ AnswerNode("refund") = "handle_refund_request"
  /\ AnswerNode("cancel") = "handle_cancel_request"
  /\ AnswerNode("smalltalk") = "build_direct_answer"
  BY Zenon DEF AnswerNode

LEMMA ConfirmationRoute ==
  ASSUME NEW s
  PROVE  /\ s.correction => AfterConfirmation(s) = Ask
         /\ ~s.correction /\ ~s.approved => AfterConfirmation(s) = "END"
         /\ ~s.correction /\ s.approved =>
              /\ FlowOf(s) = "cancel" => AfterConfirmation(s) = "execute_cancel_request"
              /\ FlowOf(s) = "refund" => AfterConfirmation(s) = "execute_refund_request"
              /\ FlowOf(s) = "ticket" => AfterConfirmation(s) = "create_ticket"
  BY Zenon DEF AfterConfirmation, Ask

LEMMA SuperviseRoute ==
  ASSUME Supervise
  PROVE  /\ At("supervisor_route")
         /\ LET i == IntentOf(state)
                s == [state EXCEPT !.intent = i, !.needs = @ \/ (i \in Flows)]
            IN  /\ i = "policy" => Enter("knowledge_agent", s)
                /\ i = "order" => Enter("order_agent", s)
                /\ i \in Flows => Enter("ticket_agent", s)
                /\ i = "smalltalk" => Goto("build_direct_answer", s)
         /\ UNCHANGED <<supervised, message, turn, admitted, offerVars, historyVars>>
  BY Zenon DEF Supervise, Flows

-----------------------------------------------------------------------------
\* What a step makes of the thread's state.

\* The next state has the fields of s that routes and answers depend on.
Like(s) ==
  /\ state' \in State
  /\ state'.fields = s.fields /\ state'.missing = s.missing
  /\ state'.cancel = s.cancel /\ state'.refund = s.refund /\ state'.needs = s.needs
  /\ state'.intent = s.intent /\ state'.emotional = s.emotional

\* What no node changes, but the confirmation and the operations.
Unheard == UNCHANGED <<supervised, message, turn, admitted, shown, grant, ran,
                       named, settled, asked, wanted, disturbed>>

LEMMA StateFields ==
  ASSUME NEW s \in State
  PROVE  /\ s.intent \in Intents /\ s.fields \in Draft /\ s.confirmation \in Draft
         /\ s.refund \in BOOLEAN /\ s.cancel \in BOOLEAN /\ s.needs \in BOOLEAN
         /\ s.missing \in BOOLEAN /\ s.approved \in BOOLEAN /\ s.emotional \in BOOLEAN
         /\ s.rag \in {"none", "answered", "no_context"}
  BY DEF State

LEMMA KeptFields ==
  ASSUME NEW s \in State
  PROVE  /\ Kept(s) \in State
         /\ Kept(s).fields = s.fields /\ Kept(s).missing = s.missing
         /\ Kept(s).cancel = s.cancel /\ Kept(s).refund = s.refund /\ Kept(s).needs = s.needs
         /\ Kept(s).intent = s.intent /\ Kept(s).emotional = s.emotional
<1>1. NoDraft \in Draft
  BY ModesAssumption DEF NoDraft, Draft, Issues, Turns
<1>2. QED
  BY <1>1 DEF Kept, State

\* A node that goes on.
LEMMA GotoEffect ==
  ASSUME NEW s \in State, NEW n, Goto(n, s)
  PROVE  /\ Like(s) /\ node' = n /\ UNCHANGED <<worker, running>>
         /\ saved' = IF worker = "none" THEN state' ELSE saved
  BY DEF Goto, Like

\* A node that ends a walk: of the subgraph of the policies another one may follow.
LEMMA FinishEffect ==
  ASSUME NEW s \in State, Finish(s)
  PROVE  /\ Like(s) /\ saved' = state'
         /\ \/ /\ worker = "knowledge_agent" /\ s.needs
               /\ worker' = "ticket_agent" /\ node' = "emotion_recognition" /\ UNCHANGED running
            \/ /\ worker # "knowledge_agent" \/ ~s.needs
               /\ worker' = "none" /\ node' = "END" /\ running' = FALSE
  BY KeptFields DEF Finish, Enter, Ended, Like

LEMMA EnterEffect ==
  ASSUME NEW s \in State, NEW w, Enter(w, s)
  PROVE  /\ Like(s) /\ saved' = state' /\ UNCHANGED running
         /\ worker' = w /\ node' = "emotion_recognition"
  BY DEF Enter, Like

\* A step of a node keeps the types if it stays where it may.
LEMMA NodeTyped ==
  ASSUME TypeOK, Unheard, state' \in State, saved' \in State, node' \in NodeNames,
         worker' \in Workers, running' \in BOOLEAN, worker' # "none" => supervised,
         felt' \in BOOLEAN, open' \in BOOLEAN
  PROVE  TypeOK'
  BY DEF TypeOK, Unheard

\* Nothing is shown or granted while a node works.
LEMMA NodeOffered ==
  ASSUME Inv, Unheard, running, node \notin Exec, node' \notin Exec
  PROVE  Offered'
  BY DEF Inv, Offered, Unheard

-----------------------------------------------------------------------------
(* Every node keeps the invariant.                                          *)

LEMMA NormalizeInv == ASSUME Inv, Normalize PROVE Inv'
<1> DEFINE s == [state EXCEPT !.emotional = FALSE]
<1>1. s \in State /\ s.fields = state.fields /\ s.missing = state.missing
      /\ s.cancel = state.cancel /\ s.refund = state.refund /\ s.needs = state.needs
      /\ s.intent = state.intent /\ s.emotional = FALSE
  BY DEF Inv, TypeOK, State
<1>2. /\ running /\ node = "normalize_user_input" /\ Unheard /\ UNCHANGED <<open, felt>>
      /\ Goto(IF supervised THEN "supervisor_route" ELSE "emotion_recognition", s)
  BY DEF Normalize, At, Unheard, offerVars, historyVars
<1> HIDE DEF s
<1>3. /\ Like(s) /\ UNCHANGED <<worker, running>>
      /\ saved' = IF worker = "none" THEN state' ELSE saved
      /\ node' = IF supervised THEN "supervisor_route" ELSE "emotion_recognition"
  BY <1>1, <1>2, GotoEffect
<1>4. worker = "none"
  BY <1>2 DEF Inv, Placed, Ask, Exec, TypeOK, Workers
<1>5. TypeOK'
  BY <1>2, <1>3, <1>4, NodeTyped DEF Inv, TypeOK, Like, NodeNames
<1>6. Placed'
  BY <1>2, <1>3, <1>4 DEF Inv, Placed, Unheard
<1>7. Offered'
  BY <1>2, <1>3, NodeOffered DEF Exec
<1>8. Felt'
  BY <1>1, <1>2, <1>3 DEF Inv, Felt, Unheard, Like
<1>9. Current'
  BY <1>1, <1>2, <1>3, <1>4 DEF Inv, Current, Unheard, Like, Fresh, Collecting, Exec, Ask
<1>10. Ways'
  BY <1>2, <1>3, <1>4 DEF Ways, Exec, Answers, Ask
<1>11. ~disturbed' => Followed'
  BY <1>1, <1>2, <1>3, <1>4
     DEF Inv, Followed, Unheard, Like, Classified, Unread, AsAsked, Collecting, Exec, Ask,
         Meant, Answers, Draws, FlowOf
<1>12. QED
  BY <1>5, <1>6, <1>7, <1>8, <1>9, <1>10, <1>11 DEF Inv

\* A node that leaves the draft alone and goes on to no question about it.
LEMMA NodeCurrent ==
  ASSUME Inv, Unheard, running, node \notin Exec, node' \notin Exec \cup Answers,
         state'.fields = state.fields, state'.missing = state.missing,
         saved' = state' \/ saved' = saved
  PROVE  Current'
<1> USE DEF Unheard, Fresh, Collecting
<1>1. /\ node # "END" /\ node' \notin Exec /\ node' # Ask /\ node' # "ask_missing_ticket_fields"
  BY DEF Inv, Placed, Answers
<1>2. /\ settled <= turn /\ turn > settled /\ message.order \in named \cup {NoOrder}
      /\ Collecting(state) => Fresh(state.fields)
      /\ Collecting(saved) => Fresh(saved.fields)
  BY <1>1 DEF Inv, Current
<1>3. Collecting(state') => Fresh(state'.fields)
  BY <1>2
<1>4. Collecting(saved') => Fresh(saved'.fields)
  BY <1>2, <1>3
<1>5. QED
  BY <1>1, <1>2, <1>3, <1>4 DEF Current

LEMMA RecogniseInv == ASSUME Inv, Recognise PROVE Inv'
<1> DEFINE s == [state EXCEPT !.emotional = message.angry]
<1>1. message.angry \in BOOLEAN /\ message.intent \in Intents
  BY DEF Inv, TypeOK, Message
<1>2. s \in State /\ s.fields = state.fields /\ s.missing = state.missing
      /\ s.cancel = state.cancel /\ s.refund = state.refund /\ s.needs = state.needs
      /\ s.intent = state.intent /\ s.emotional = message.angry
  BY <1>1 DEF Inv, TypeOK, State
<1>3. /\ running /\ node = "emotion_recognition" /\ Unheard /\ UNCHANGED open
      /\ felt' = (felt \/ message.angry)
      /\ ~message.angry => Goto(AfterEmotion(s), s)
      /\ message.angry /\ worker = "none" => Goto("build_emotion_handoff_answer", s)
      /\ message.angry /\ worker # "none" => Finish(s)
  BY DEF Recognise, At, Unheard, offerVars
<1> HIDE DEF s
<1>4. worker \in Workers /\ node \notin Exec /\ worker' \in Workers
  BY <1>2, <1>3, GotoEffect, FinishEffect DEF Inv, TypeOK, Exec, Workers
<1>5. Like(s) /\ (saved' = state' \/ saved' = saved)
  BY <1>2, <1>3, GotoEffect, FinishEffect
<1>6. CASE ~message.angry
  <2>1. /\ node' = AfterEmotion(s) /\ UNCHANGED <<worker, running, felt>>
        /\ saved' = IF worker = "none" THEN state' ELSE saved
    BY <1>2, <1>3, <1>6, GotoEffect DEF Inv, TypeOK
  <2>2. /\ worker = "none" => node' = "classify_intent" /\ ~supervised
        /\ worker = "knowledge_agent" => node' = "retrieve_policy"
        /\ worker = "order_agent" => node' = "query_order"
        /\ worker = "ticket_agent" => node' = TicketEntry(s)
    BY <1>3, <2>1, EmotionRoute DEF Inv, Placed
  <2>3. TicketEntry(s) \in Draws
    BY DEF TicketEntry, Draws
  <2>4. TypeOK'
    BY <1>3, <1>4, <1>5, <2>1, <2>2, <2>3, NodeTyped
       DEF Inv, TypeOK, Like, NodeNames, Workers, Draws
  <2>5. Placed'
    BY <1>3, <1>4, <2>1, <2>2, <2>3 DEF Inv, Placed, Unheard, Draws, Workers
  <2>6. Offered'
    BY <1>3, <1>4, <2>2, <2>3, NodeOffered DEF Exec, Draws, Workers
  <2>7. Felt'
    BY <1>2, <1>3, <1>4, <1>5, <1>6, <2>1, <2>2, <2>3 DEF Inv, Felt, Unheard, Like, Draws, Workers
  <2>8. Current'
    BY <1>2, <1>3, <1>4, <1>5, <2>2, <2>3, NodeCurrent DEF Like, Exec, Answers, Ask, Draws, Workers
  <2>9. Ways' /\ (~disturbed' => Followed')
    <3> USE DEF Inv, TypeOK, Ways, Followed, Unheard, Like, Classified, Unread, AsAsked,
                Collecting, Exec, Ask, Meant, Answers, Draws, FlowOf
    <3>1. CASE worker # "ticket_agent"
      BY <1>2, <1>3, <1>4, <1>5, <2>1, <2>2, <3>1 DEF Workers
    <3>2. CASE worker = "ticket_agent"
      <4>1. /\ state.needs /\ s.intent = state.intent /\ state.intent \in Flows \cup {"policy"}
            /\ ~disturbed => AsAsked /\ Meant(state.intent)
        BY <1>2, <1>3, <3>2
      <4>2. CASE node' = "handle_cancel_request"
        <5>1. s.intent = "cancel" \/ CollectingCancel(s)
          BY <2>2, <3>2, <4>2 DEF TicketEntry
        <5>2. ~disturbed => asked = "cancel"
          BY <1>2, <4>1, <5>1 DEF CollectingCancel, Flows
        <5>3. QED
          BY <1>2, <1>3, <1>5, <2>1, <3>2, <4>1, <4>2, <5>2
      <4>3. CASE node' = "handle_refund_request"
        <5>1. /\ s.intent # "cancel" /\ ~CollectingCancel(s)
              /\ s.intent = "refund" \/ CollectingRefund(s)
          BY <2>2, <3>2, <4>3 DEF TicketEntry
        <5>2. ~disturbed => asked = "refund"
          BY <1>2, <4>1, <5>1 DEF CollectingCancel, CollectingRefund, Flows
        <5>3. state'.intent = "refund" \/ CollectingRefund(state')
          BY <1>5, <5>1 DEF CollectingRefund
        <5>4. QED
          BY <1>2, <1>3, <1>5, <2>1, <3>2, <4>1, <4>3, <5>2, <5>3
      <4>4. CASE node' = "extract_ticket_fields"
        <5>1. /\ s.intent # "cancel" /\ ~CollectingCancel(s)
              /\ s.intent # "refund" /\ ~CollectingRefund(s)
          BY <2>2, <3>2, <4>4 DEF TicketEntry
        <5>2. ~disturbed => asked = "ticket"
          BY <1>2, <4>1, <5>1 DEF CollectingCancel, CollectingRefund, Flows
        <5>3. QED
          BY <1>2, <1>3, <1>5, <2>1, <3>2, <4>1, <4>4, <5>2
      <4>5. QED
        BY <2>2, <2>3, <3>2, <4>2, <4>3, <4>4
    <3>3. QED
      BY <3>1, <3>2
  <2>10. QED
    BY <2>4, <2>5, <2>6, <2>7, <2>8, <2>9 DEF Inv
<1>7. CASE message.angry
  <2>1. /\ felt' = TRUE /\ node' \in {"build_emotion_handoff_answer", "END", "emotion_recognition"}
        /\ node' = "build_emotion_handoff_answer" => 
             worker' = "none" /\ ~supervised /\ UNCHANGED running
        /\ node' = "END" => worker' = "none" /\ running' = FALSE
        /\ node' = "emotion_recognition" => 
             /\ worker' = "ticket_agent" /\ UNCHANGED running
             /\ worker = "knowledge_agent" /\ s.needs
        /\ worker' = "none" => saved' = state'
    <3>1. CASE worker = "none"
      <4>1. ~supervised
        BY <1>3, <3>1 DEF Inv, Placed
      <4>2. /\ node' = "build_emotion_handoff_answer" /\ UNCHANGED <<worker, running>>
            /\ saved' = state'
        BY <1>2, <1>3, <1>7, <3>1, GotoEffect
      <4>3. QED
        BY <1>1, <1>3, <1>7, <3>1, <4>1, <4>2
    <3>2. CASE worker # "none"
      BY <1>1, <1>2, <1>3, <1>7, <3>2, FinishEffect DEF Inv, TypeOK
    <3>3. QED
      BY <3>1, <3>2
  <2>2. TypeOK'
    BY <1>3, <1>4, <1>5, <2>1, NodeTyped DEF Inv, TypeOK, Like, NodeNames, Workers
  <2>3. Placed'
    BY <1>3, <2>1 DEF Inv, Placed, Unheard
  <2>4. Offered'
    BY <1>3, <1>4, <2>1, NodeOffered DEF Exec
  <2>5. Felt'
    BY <1>2, <1>3, <1>5, <1>7, <2>1 DEF Inv, Felt, Unheard, Like
  <2>6. Current'
    BY <1>2, <1>3, <1>4, <1>5, <2>1, NodeCurrent DEF Like, Exec, Answers, Ask
  <2>7. Ways' /\ (~disturbed' => Followed')
    BY <1>2, <1>3, <1>4, <1>5, <2>1
       DEF Inv, TypeOK, Placed, Ways, Followed, Unheard, Like, Classified, Unread, AsAsked,
           Collecting, Exec, Ask, Meant, Answers, Draws, Workers, FlowOf
  <2>8. QED
    BY <2>2, <2>3, <2>4, <2>5, <2>6, <2>7 DEF Inv
<1>8. QED
  BY <1>1, <1>6, <1>7

\* An open collection is what the flow asked for was collecting; without one the
\* message decides.
LEMMA IntentMeant ==
  ASSUME Inv, node \in {"classify_intent", "supervisor_route"}
  PROVE  IntentOf(state) \in Intents /\ (~disturbed => Meant(IntentOf(state)))
<1>1. message.intent \in Intents
  BY DEF Inv, TypeOK, Message
<1>2. worker = "none"
  BY DEF Inv, TypeOK, Workers, Placed, Exec, Ask
<1>3. ~disturbed => AsAsked /\ (open \/ Meant(message.intent))
  BY <1>2 DEF Inv, Followed, Exec, Answers, Ask, Unread
<1>4. IntentOf(state) \in Intents
  BY <1>1 DEF IntentOf, Intents, Flows
<1>5. ASSUME ~disturbed, open PROVE Meant(IntentOf(state))
  <2>1. /\ Collecting(state) /\ asked \in Flows /\ FlowOf(state) = asked
        /\ asked = "ticket" => state.needs
    BY <1>3, <1>5 DEF AsAsked
  <2>2. IntentOf(state) = asked
    BY <2>1 DEF IntentOf, CollectingCancel, CollectingRefund, CollectingTicket, FlowOf, Flows
  <2>3. QED
    BY <2>1, <2>2 DEF Meant, Flows
<1>6. ASSUME ~disturbed, ~open PROVE Meant(IntentOf(state))
  BY <1>3, <1>6 DEF AsAsked, IntentOf, CollectingCancel, CollectingRefund, CollectingTicket
<1>7. QED
  BY <1>4, <1>5, <1>6

LEMMA ClassifyInv == ASSUME Inv, Classify PROVE Inv'
<1> DEFINE i == IntentOf(state)
           s == [state EXCEPT !.intent = IntentOf(state)]
<1>1. /\ running /\ node = "classify_intent" /\ Unheard /\ UNCHANGED <<felt, open>>
      /\ Goto(AnswerNode(i), s)
  BY DEF Classify, At, Unheard, offerVars, historyVars
<1>2. i \in Intents /\ (~disturbed => Meant(i))
  BY <1>1, IntentMeant
<1>3. s \in State /\ s.fields = state.fields /\ s.missing = state.missing
      /\ s.cancel = state.cancel /\ s.refund = state.refund /\ s.needs = state.needs
      /\ s.intent = i /\ s.emotional = state.emotional
  BY <1>2 DEF Inv, TypeOK, State
<1> HIDE DEF s, i
<1>4. worker = "none" /\ ~supervised /\ node \notin Exec
  BY <1>1 DEF Inv, TypeOK, Workers, Placed, Exec, Ask
<1>5. Like(s) /\ UNCHANGED <<worker, running>> /\ saved' = state' /\ node' = AnswerNode(i)
  BY <1>1, <1>3, <1>4, GotoEffect
<1>6. /\ i = "policy" => node' = "retrieve_policy"
      /\ i = "order" => node' = "query_order"
      /\ i = "ticket" => node' = "decide_ticket_need"
      /\ i = "refund" => node' = "handle_refund_request"
      /\ i = "cancel" => node' = "handle_cancel_request"
      /\ i = "smalltalk" => node' = "build_direct_answer"
  BY <1>5, AnswerRoute
<1>7. TypeOK'
  BY <1>1, <1>2, <1>4, <1>5, <1>6, NodeTyped DEF Inv, TypeOK, Like, NodeNames, Intents, Flows
<1>8. Placed'
  BY <1>1, <1>2, <1>4, <1>5, <1>6 DEF Placed, Unheard, Intents, Flows
<1>9. Offered'
  BY <1>1, <1>2, <1>4, <1>6, NodeOffered DEF Exec, Intents, Flows
<1>10. Felt'
  BY <1>1, <1>2, <1>3, <1>5, <1>6 DEF Inv, Felt, Unheard, Like, Intents, Flows
<1>11. Current'
  BY <1>1, <1>2, <1>3, <1>4, <1>5, <1>6, NodeCurrent DEF Like, Exec, Answers, Ask, Intents, Flows
<1>12. Ways'
  BY <1>1, <1>2, <1>3, <1>4, <1>5, <1>6 DEF Ways, Like, Exec, Ask, Answers, Intents, Flows
<1>13. ~disturbed' => Followed'
  <2>1. ~disturbed => AsAsked
    BY <1>1 DEF Inv, Followed, Exec, Answers, Ask
  <2>2. AsAsked => AsAsked'
    BY <1>1, <1>3, <1>5 DEF AsAsked, Collecting, FlowOf, Like, Unheard
  <2>3. ~disturbed => Meant(state.intent)'
    BY <1>1, <1>2, <1>3, <1>5 DEF Like, Meant, Unheard
  <2>4. QED
    BY <1>1, <1>2, <1>3, <1>4, <1>5, <1>6, <2>1, <2>2, <2>3
       DEF Followed, Unheard, Like, Classified, Unread, Draws, Meant, Exec, Ask, Answers, Intents, Flows
<1>14. QED
  BY <1>7, <1>8, <1>9, <1>10, <1>11, <1>12, <1>13 DEF Inv

LEMMA SuperviseInv == ASSUME Inv, Supervise PROVE Inv'
<1> DEFINE i == IntentOf(state)
           s == [state EXCEPT !.intent = IntentOf(state), !.needs = @ \/ (IntentOf(state) \in Flows)]
<1>1. /\ running /\ node = "supervisor_route" /\ Unheard /\ UNCHANGED <<felt, open>>
      /\ i = "policy" => Enter("knowledge_agent", s)
      /\ i = "order" => Enter("order_agent", s)
      /\ i \in Flows => Enter("ticket_agent", s)
      /\ i = "smalltalk" => Goto("build_direct_answer", s)
  BY SuperviseRoute DEF At, Unheard, offerVars, historyVars
<1>2. i \in Intents /\ (~disturbed => Meant(i))
  BY <1>1, IntentMeant
<1>3. s \in State /\ s.fields = state.fields /\ s.missing = state.missing
      /\ s.cancel = state.cancel /\ s.refund = state.refund /\ s.needs = (state.needs \/ i \in Flows)
      /\ s.intent = i /\ s.emotional = state.emotional
  BY <1>2 DEF Inv, TypeOK, State
<1> HIDE DEF s, i
<1>4. worker = "none" /\ supervised /\ node \notin Exec
  BY <1>1 DEF Inv, TypeOK, Workers, Placed, Exec, Ask
<1>5. /\ Like(s) /\ UNCHANGED running /\ saved' = state'
      /\ i = "policy" => worker' = "knowledge_agent" /\ node' = "emotion_recognition"
      /\ i = "order" => worker' = "order_agent" /\ node' = "emotion_recognition"
      /\ i \in Flows => worker' = "ticket_agent" /\ node' = "emotion_recognition"
      /\ i = "smalltalk" => worker' = "none" /\ node' = "build_direct_answer"
  <2>1. CASE i = "smalltalk"
    BY <1>1, <1>3, <1>4, <2>1, GotoEffect DEF Flows
  <2>2. CASE i # "smalltalk"
    BY <1>1, <1>2, <1>3, <2>2, EnterEffect DEF Flows, Intents
  <2>3. QED
    BY <2>1, <2>2
<1>6. TypeOK'
  BY <1>1, <1>2, <1>4, <1>5, NodeTyped DEF Inv, TypeOK, Like, NodeNames, Workers, Intents, Flows
<1>7. Placed'
  BY <1>1, <1>2, <1>4, <1>5 DEF Placed, Unheard, Intents, Flows
<1>8. Offered'
  BY <1>1, <1>2, <1>4, <1>5, NodeOffered DEF Exec, Intents, Flows
<1>9. Felt'
  BY <1>1, <1>2, <1>3, <1>5 DEF Inv, Felt, Unheard, Like, Intents, Flows
<1>10. Current'
  BY <1>1, <1>2, <1>3, <1>4, <1>5, NodeCurrent DEF Like, Exec, Answers, Ask, Intents, Flows
<1>11. Ways'
  BY <1>1, <1>2, <1>3, <1>4, <1>5 DEF Ways, Like, Exec, Ask, Answers, Intents, Flows
<1>12. ~disturbed' => Followed'
  <2>1. ~disturbed => AsAsked
    BY <1>1 DEF Inv, Followed, Exec, Answers, Ask
  <2>2. AsAsked => AsAsked'
    BY <1>1, <1>3, <1>5 DEF AsAsked, Collecting, FlowOf, Like, Unheard
  <2>3. ~disturbed => Meant(state.intent)'
    BY <1>1, <1>2, <1>3, <1>5 DEF Like, Meant, Unheard
  <2>4. QED
    BY <1>1, <1>2, <1>3, <1>4, <1>5, <2>1, <2>2, <2>3
       DEF Followed, Unheard, Like, Classified, Unread, Draws, Exec, Ask, Answers, Intents, Flows
<1>13. QED
  BY <1>6, <1>7, <1>8, <1>9, <1>10, <1>11, <1>12 DEF Inv

\* A turn that ends with an answer and leaves the collection as it was.
LEMMA EndInv ==
  ASSUME Inv, Unheard, UNCHANGED <<felt, open>>, running,
         node \notin Exec \cup Answers \cup {"normalize_user_input"},
         state' \in State, state'.fields = state.fields, state'.missing = state.missing,
         state'.emotional = state.emotional, ~disturbed => AsAsked',
         saved' = state', node' = "END", worker' = "none", running' = FALSE
  PROVE  Inv'
<1>1. TypeOK'
  BY NodeTyped DEF Inv, TypeOK, NodeNames, Workers
<1>2. Placed'
  BY DEF Placed, Exec, Ask
<1>3. Offered'
  BY NodeOffered DEF Exec
<1>4. Felt'
  BY DEF Inv, Felt, Unheard
<1>5. Current'
  BY NodeCurrent DEF Exec, Answers, Ask
<1>6. Ways'
  BY DEF Ways, Exec, Answers, Ask
<1>7. ~disturbed' => Followed'
  BY DEF Followed, Unheard, Classified, Unread, Draws, Exec, Answers, Ask
<1>8. QED
  BY <1>1, <1>2, <1>3, <1>4, <1>5, <1>6, <1>7 DEF Inv

\* A collection is judged by the draft and the flags alone.
LEMMA AsAskedKept ==
  ASSUME AsAsked, UNCHANGED <<open, asked>>, state'.fields = state.fields,
         state'.missing = state.missing, state'.cancel = state.cancel,
         state'.refund = state.refund, open /\ asked = "ticket" /\ state.needs => state'.needs
  PROVE  AsAsked'
  BY DEF AsAsked, Collecting, FlowOf

LEMMA AnswerInv == ASSUME Inv, Answer \/ QueryOrder PROVE Inv'
<1>1. /\ running /\ node \in {"build_direct_answer", "build_emotion_handoff_answer", "query_order"}
      /\ Finish(state) /\ Unheard /\ UNCHANGED <<felt, open>>
  BY DEF Answer, QueryOrder, At, Unheard, offerVars, historyVars
<1>2. state \in State /\ worker # "knowledge_agent"
  BY <1>1 DEF Inv, TypeOK, Placed
<1>3. /\ Like(state) /\ saved' = state' /\ worker' = "none" /\ node' = "END" /\ running' = FALSE
  BY <1>1, <1>2, FinishEffect
<1>4. node \notin Exec \cup Answers \cup {"normalize_user_input"}
  BY <1>1 DEF Exec, Answers, Ask
<1>5. ~disturbed => AsAsked'
  BY <1>1, <1>3, <1>4, AsAskedKept DEF Inv, Followed, Like, Unheard
<1>6. QED
  BY <1>1, <1>3, <1>4, <1>5, EndInv DEF Like

LEMMA RetrievePolicyInv == ASSUME Inv, RetrievePolicy PROVE Inv'
<1>1. PICK found \in {"answered", "no_context"} :
        Goto("decide_ticket_need", [state EXCEPT !.rag = found])
  BY DEF RetrievePolicy
<1> DEFINE s == [state EXCEPT !.rag = found]
<1>2. running /\ node = "retrieve_policy" /\ Unheard /\ UNCHANGED <<felt, open>>
  BY DEF RetrievePolicy, At, Unheard, offerVars, historyVars
<1>3. s \in State /\ s.fields = state.fields /\ s.missing = state.missing
      /\ s.cancel = state.cancel /\ s.refund = state.refund /\ s.needs = state.needs
      /\ s.intent = state.intent /\ s.emotional = state.emotional
  BY DEF Inv, TypeOK, State
<1> HIDE DEF s
<1>4. /\ Like(s) /\ node' = "decide_ticket_need" /\ UNCHANGED <<worker, running>>
      /\ saved' = IF worker = "none" THEN state' ELSE saved
  BY <1>1, <1>3, GotoEffect DEF s
<1>5. node \notin Exec /\ (worker = "none" => ~supervised) /\ state.intent = "policy"
  BY <1>2 DEF Exec, Inv, Placed, Ways
<1>6. TypeOK'
  BY <1>2, <1>4, NodeTyped DEF Inv, TypeOK, Like, NodeNames
<1>7. Placed'
  BY <1>2, <1>4, <1>5 DEF Inv, Placed, Unheard, Exec, Ask
<1>8. Offered'
  BY <1>2, <1>4, <1>5, NodeOffered DEF Exec
<1>9. Felt'
  BY <1>2, <1>3, <1>4 DEF Inv, Felt, Unheard, Like
<1>10. Current'
  BY <1>2, <1>3, <1>4, <1>5, NodeCurrent DEF Like, Exec, Answers, Ask
<1>11. Ways'
  BY <1>2, <1>3, <1>4, <1>5 DEF Inv, Placed, Ways, Like, Exec, Answers, Ask
<1>12. ~disturbed' => Followed'
  <2>1. ~disturbed => AsAsked /\ Meant(state.intent)
    BY <1>2 DEF Inv, Followed, Classified, Exec, Answers, Ask
  <2>2. ~disturbed => AsAsked' /\ Meant(state.intent)'
    BY <1>2, <1>3, <1>4, <2>1, AsAskedKept DEF Like, Unheard, Meant
  <2>3. QED
    BY <1>2, <1>4, <2>2 DEF Followed, Unheard, Unread, Exec, Answers, Ask
<1>13. QED
  BY <1>6, <1>7, <1>8, <1>9, <1>10, <1>11, <1>12 DEF Inv

LEMMA DecideNeedInv == ASSUME Inv, DecideNeed PROVE Inv'
<1> DEFINE needed == state.intent = "ticket" \/ (state.intent = "policy" /\ state.rag = "no_context")
           s == [state EXCEPT !.needs = needed]
<1>1. /\ running /\ node = "decide_ticket_need" /\ Unheard /\ UNCHANGED <<felt, open>>
      /\ IF s.needs /\ worker = "none" THEN Goto("extract_ticket_fields", s) ELSE Finish(s)
  BY DEF DecideNeed, At, Unheard, offerVars, historyVars
<1>2. s \in State /\ s.fields = state.fields /\ s.missing = state.missing
      /\ s.cancel = state.cancel /\ s.refund = state.refund /\ s.needs = needed
      /\ s.intent = state.intent /\ s.emotional = state.emotional
  BY DEF Inv, TypeOK, State
<1> HIDE DEF s
<1>3. /\ node \notin Exec \cup Answers \cup {"normalize_user_input"}
      /\ state.intent \in {"policy", "ticket"}
      /\ (worker = "none" /\ ~supervised) \/ (worker = "knowledge_agent" /\ state.intent = "policy")
  <2>1. /\ node \notin Exec \cup Answers \cup {"normalize_user_input"}
        /\ state.intent \in {"policy", "ticket"}
    BY <1>1 DEF Exec, Answers, Ask, Inv, Ways
  <2>2. worker \in Workers
    BY DEF Inv, TypeOK
  <2>3. worker = "none" \/ worker = "knowledge_agent"
    BY <1>1, <2>2 DEF Workers, Inv, Placed, Exec, Ask
  <2>4. worker = "none" => ~supervised
    BY <1>1 DEF Inv, Placed
  <2>5. worker = "knowledge_agent" => state.intent = "policy"
    BY DEF Inv, Ways
  <2>6. QED
    BY <2>1, <2>3, <2>4, <2>5, Zenon
<1>4. ~disturbed => AsAsked /\ Meant(state.intent)
  BY <1>1, <1>3 DEF Inv, Followed, Classified
<1>5. Like(s) /\ (~disturbed => AsAsked' /\ Meant(state.intent)' /\ asked = "ticket")
  <2>1. Like(s)
    BY <1>1, <1>2, GotoEffect, FinishEffect
  <2>2. ASSUME ~disturbed PROVE AsAsked'
    BY <1>1, <1>2, <1>3, <1>4, <2>1, <2>2, AsAskedKept DEF Like, Unheard, Meant, Flows
  <2>3. QED
    BY <1>1, <1>2, <1>3, <1>4, <2>1, <2>2 DEF Like, Unheard, Meant, Flows
<1>6. CASE needed
  <2>1. /\ worker = "none" => /\ node' = "extract_ticket_fields" /\ UNCHANGED <<worker, running>>
                              /\ saved' = state'
        /\ worker # "none" => /\ node' = "emotion_recognition" /\ worker' = "ticket_agent"
                              /\ UNCHANGED running /\ saved' = state'
    BY <1>1, <1>2, <1>3, <1>6, GotoEffect, FinishEffect
  <2>2. TypeOK'
    BY <1>1, <1>3, <1>5, <2>1, NodeTyped DEF Inv, TypeOK, Like, NodeNames, Workers
  <2>3. Placed'
    BY <1>1, <1>3, <2>1 DEF Inv, Placed, Unheard, Exec, Ask
  <2>4. Offered'
    BY <1>1, <1>3, <2>1, NodeOffered DEF Exec
  <2>5. Felt'
    BY <1>1, <1>2, <1>3, <1>5, <2>1 DEF Inv, Felt, Unheard, Like
  <2>6. Current'
    BY <1>1, <1>2, <1>3, <1>5, <2>1, NodeCurrent DEF Like, Exec, Answers, Ask
  <2>7. Ways'
    BY <1>1, <1>2, <1>3, <1>5, <1>6, <2>1 DEF Ways, Like, Exec, Answers, Ask
  <2>8. ~disturbed' => Followed'
    BY <1>1, <1>3, <1>5, <2>1 DEF Followed, Unheard, Unread, Exec, Answers, Ask
  <2>9. QED
    BY <2>2, <2>3, <2>4, <2>5, <2>6, <2>7, <2>8 DEF Inv
<1>7. CASE ~needed
  <2>1. /\ node' = "END" /\ worker' = "none" /\ running' = FALSE /\ saved' = state'
    BY <1>1, <1>2, <1>7, FinishEffect
  <2>2. QED
    BY <1>1, <1>2, <1>3, <1>5, <2>1, EndInv DEF Like
<1>8. QED
  BY <1>6, <1>7

\* A node that writes the draft goes on to the question for what is missing, or to
\* the confirmation.
LEMMA DraftInv ==
  ASSUME Inv, Unheard, UNCHANGED <<felt, open>>, running, node \in Draws,
         NEW s \in State, s.emotional = state.emotional, s.intent = state.intent,
         s.needs, Fresh(s.fields),
         ~disturbed => FlowOf(s) = asked, Goto(AfterFields(s), s)
  PROVE  Inv'
<1>1. /\ Like(s) /\ node' = AfterFields(s) /\ UNCHANGED <<worker, running>>
      /\ saved' = IF worker = "none" THEN state' ELSE saved
  BY GotoEffect
<1>2. /\ s.missing => node' = "ask_missing_ticket_fields"
      /\ ~s.missing => node' = Ask
      /\ s.missing \in BOOLEAN
  BY <1>1, StateFields DEF AfterFields, Ask
<1>3. /\ (worker = "none" /\ ~supervised) \/ worker = "ticket_agent"
      /\ node \notin Exec \cup Answers \cup {"END"} /\ node' \notin Exec /\ node' \in Answers
  BY <1>2 DEF Inv, TypeOK, Workers, Placed, Draws, Exec, Answers, Ask
<1>4. Fresh(state.fields)'
  BY <1>1 DEF Like, Fresh, Unheard
<1>5. TypeOK'
  BY <1>1, <1>3, NodeTyped DEF Inv, TypeOK, Like, NodeNames, Answers, Ask
<1>6. Placed'
  BY <1>1, <1>2, <1>3 DEF Placed, Unheard, Answers, Ask
<1>7. Offered'
  BY <1>3, NodeOffered
<1>8. Felt'
  BY <1>1, <1>2, <1>3 DEF Inv, Felt, Unheard, Like, Draws, Answers, Ask
<1>9. Current'
  <2>1. /\ settled <= turn /\ turn > settled /\ message.order \in named \cup {NoOrder}
        /\ (Collecting(saved) => Fresh(saved.fields))
    BY <1>3 DEF Inv, Current
  <2>2. Collecting(saved)' => Fresh(saved.fields)'
    BY <1>1, <1>4, <2>1 DEF Collecting, Fresh, Unheard
  <2>3. /\ state'.missing = s.missing /\ (node' = Ask => ~s.missing)
        /\ node' = "ask_missing_ticket_fields" => s.missing
    BY <1>1, <1>2 DEF Like, Ask
  <2>4. QED
    BY <1>3, <1>4, <2>1, <2>2, <2>3 DEF Current, Unheard
<1>10. Ways'
  BY <1>1, <1>2, <1>3 DEF Inv, Ways, Like, Exec, Answers, Ask
<1>11. ~disturbed' => Followed'
  <2>1. ~disturbed => FlowOf(state)' = asked'
    BY <1>1 DEF FlowOf, Like, Unheard
  <2>2. running' /\ node' \notin Draws
    BY <1>1, <1>2 DEF Draws, Ask
  <2>3. QED
    BY <1>3, <2>1, <2>2 DEF Followed, Unheard, Unread, Classified, Draws, Exec, Answers, Ask
<1>12. QED
  BY <1>5, <1>6, <1>7, <1>8, <1>9, <1>10, <1>11 DEF Inv

LEMMA ExtractInv == ASSUME Inv, Extract PROVE Inv'
<1> DEFINE d == Extracted(state)
           s == [state EXCEPT !.fields = d, !.missing = Incomplete(d), !.complete = ~Incomplete(d),
                              !.refund = FALSE, !.cancel = FALSE]
<1>1. /\ running /\ node = "extract_ticket_fields" /\ Unheard /\ UNCHANGED <<felt, open>>
      /\ Goto(AfterFields(s), s)
  BY DEF Extract, At, Unheard, offerVars, historyVars
<1>2. /\ turn \in Turns /\ turn > settled /\ message \in Message
      /\ message.order \in named \cup {NoOrder} /\ state \in State
      /\ Collecting(state) => Fresh(state.fields)
  BY <1>1 DEF Inv, TypeOK, Current, Exec
<1>3. d \in Draft /\ Fresh(d)
  BY <1>2, StateFields
     DEF Extracted, CollectingTicket, Known, Fresh, Draft, Message, Issues
<1>4. Incomplete(d) \in BOOLEAN
  BY DEF Incomplete
<1> HIDE DEF d
<1>5. s \in State /\ s.fields = d /\ s.needs = state.needs /\ s.refund = FALSE /\ s.cancel = FALSE
      /\ s.emotional = state.emotional /\ s.intent = state.intent
  BY <1>2, <1>3, <1>4 DEF State
<1> HIDE DEF s
<1>6. state.needs /\ (~disturbed => asked = "ticket")
  BY <1>1 DEF Inv, Ways, Followed
<1>7. QED
  BY <1>1, <1>3, <1>5, <1>6, DraftInv DEF Draws, FlowOf

\* A draft of a request is fresh: it continues an open collection or begins one.
LEMMA RequestedFresh ==
  ASSUME Inv, node \in Draws, NEW issue \in Issues, NEW c \in BOOLEAN, c => Collecting(state)
  PROVE  Requested(state, issue, c) \in Draft /\ Fresh(Requested(state, issue, c))
<1>1. /\ turn \in Turns /\ turn > settled /\ message \in Message
      /\ message.order \in named \cup {NoOrder} /\ state \in State
      /\ Collecting(state) => Fresh(state.fields)
  BY DEF Inv, TypeOK, Current, Exec, Draws
<1>2. QED
  BY <1>1, StateFields DEF Requested, Known, Fresh, Draft, Message

LEMMA HandleRefundInv == ASSUME Inv, HandleRefund PROVE Inv'
<1> DEFINE d == Requested(state, "refund", CollectingRefund(state))
           s == [state EXCEPT !.fields = d, !.missing = d.order = NoOrder,
                              !.complete = d.order # NoOrder, !.needs = TRUE,
                              !.refund = TRUE, !.cancel = FALSE]
<1>1. /\ running /\ node = "handle_refund_request" /\ Unheard /\ UNCHANGED <<felt, open>>
      /\ Goto(AfterFields(s), s)
  BY DEF HandleRefund, At, Unheard, offerVars, historyVars
<1>2. CollectingRefund(state) \in BOOLEAN /\ (CollectingRefund(state) => Collecting(state))
  BY StateFields DEF CollectingRefund, Collecting, Inv, TypeOK
<1>3. d \in Draft /\ Fresh(d)
  BY <1>1, <1>2, RequestedFresh DEF Draws, Issues
<1> HIDE DEF d
<1>4. s \in State /\ s.fields = d /\ s.needs = TRUE /\ s.refund = TRUE /\ s.cancel = FALSE
      /\ s.emotional = state.emotional /\ s.intent = state.intent
  <2>1. state \in State
    BY DEF Inv, TypeOK
  <2>2. QED
    BY <1>3, <2>1 DEF State
<1> HIDE DEF s
<1>5. ~disturbed => asked = "refund"
  BY <1>1 DEF Inv, Followed
<1>6. QED
  BY <1>1, <1>3, <1>4, <1>5, DraftInv DEF Draws, FlowOf

LEMMA HandleCancelInv == ASSUME Inv, HandleCancel PROVE Inv'
<1> DEFINE d == Requested(state, "cancel", CollectingCancel(state))
           s == [state EXCEPT !.fields = d, !.missing = d.order = NoOrder,
                              !.complete = d.order # NoOrder, !.needs = TRUE,
                              !.cancel = TRUE, !.refund = FALSE]
<1>1. /\ running /\ node = "handle_cancel_request" /\ Unheard /\ UNCHANGED <<felt, open>>
      /\ Goto(AfterFields(s), s)
  BY DEF HandleCancel, At, Unheard, offerVars, historyVars
<1>2. CollectingCancel(state) \in BOOLEAN /\ (CollectingCancel(state) => Collecting(state))
  BY StateFields DEF CollectingCancel, Collecting, Inv, TypeOK
<1>3. d \in Draft /\ Fresh(d)
  BY <1>1, <1>2, RequestedFresh DEF Draws, Issues
<1> HIDE DEF d
<1>4. s \in State /\ s.fields = d /\ s.needs = TRUE /\ s.cancel = TRUE /\ s.refund = FALSE
      /\ s.emotional = state.emotional /\ s.intent = state.intent
  <2>1. state \in State
    BY DEF Inv, TypeOK
  <2>2. QED
    BY <1>3, <2>1 DEF State
<1> HIDE DEF s
<1>5. ~disturbed => asked = "cancel"
  BY <1>1 DEF Inv, Followed
<1>6. QED
  BY <1>1, <1>3, <1>4, <1>5, DraftInv DEF Draws, FlowOf

LEMMA AskMissingInv == ASSUME Inv, AskMissing PROVE Inv'
<1>1. /\ running /\ node = "ask_missing_ticket_fields" /\ Unheard /\ UNCHANGED felt /\ open' = TRUE
      /\ Finish(state)
  BY DEF AskMissing, At, Unheard, offerVars
<1>2. /\ node \notin Exec /\ worker # "knowledge_agent" /\ state \in State
      /\ state.missing /\ state.fields.since > settled /\ settled \in Nat /\ state.needs /\ ~felt
      /\ ~disturbed => FlowOf(state) = asked
  BY <1>1 DEF Exec, Inv, TypeOK, Turns, Placed, Current, Fresh, Ways, Felt, Followed, Answers
<1>3. /\ Like(state) /\ saved' = state' /\ worker' = "none" /\ node' = "END" /\ running' = FALSE
  BY <1>1, <1>2, FinishEffect
<1>4. TypeOK'
  BY <1>1, <1>3, NodeTyped DEF Inv, TypeOK, Like, NodeNames, Workers
<1>5. Placed'
  BY <1>3 DEF Placed, Exec, Ask
<1>6. Offered'
  BY <1>1, <1>2, <1>3, NodeOffered DEF Exec
<1>7. Felt'
  BY <1>1, <1>2, <1>3 DEF Inv, Felt, Unheard, Like
<1>8. Current'
  BY <1>1, <1>2, <1>3, NodeCurrent DEF Like, Exec, Answers, Ask
<1>9. Ways'
  BY <1>3 DEF Ways, Exec, Answers, Ask
<1>10. ASSUME ~disturbed PROVE AsAsked'
  <2>1. state.fields # NoDraft
    BY <1>2 DEF NoDraft
  <2>2. FlowOf(state) \in Flows
    BY DEF FlowOf, Flows
  <2>3. Collecting(state)' /\ FlowOf(state)' = asked' /\ asked' \in Flows /\ state'.needs
    BY <1>1, <1>2, <1>3, <1>10, <2>1, <2>2 DEF Collecting, FlowOf, Like, Unheard
  <2>4. QED
    BY <1>1, <2>3 DEF AsAsked
<1>11. ~disturbed' => Followed'
  BY <1>1, <1>3, <1>10 DEF Followed, Unheard, Classified, Unread, Draws, Exec, Answers, Ask
<1>12. QED
  BY <1>4, <1>5, <1>6, <1>7, <1>8, <1>9, <1>11 DEF Inv

\* Where no message is being read, none asks for or names anything.
LEMMA NoMessageRead ==
  /\ NoMessage \in Message /\ NoMessage.order = NoOrder /\ ~NoMessage.angry
  /\ Wants(NoMessage) = {}
  BY DEF NoMessage, Message, Intents, Flows, Wants

LEMMA InterruptInv == ASSUME Inv, Interrupt PROVE Inv'
<1>1. /\ running /\ node = Ask /\ shown' = [flow |-> FlowOf(state), draft |-> state.fields]
      /\ running' = FALSE /\ open' = FALSE /\ message' = NoMessage
      /\ UNCHANGED <<supervised, saved, state, node, worker, turn, admitted, grant, ran,
                     named, settled, felt, asked, wanted, disturbed>>
  BY DEF Interrupt, At, Ask
<1>2. state \in State /\ node \notin Exec /\ ~state.missing /\ (~disturbed => FlowOf(state) = asked)
  BY <1>1 DEF Inv, TypeOK, Exec, Ask, Current, Followed, Answers
<1>3. shown' \in Offers
  BY <1>1, <1>2, StateFields DEF Offers, FlowOf, Flows
<1>4. TypeOK'
  BY <1>1, <1>3, NoMessageRead DEF Inv, TypeOK
<1>5. Placed'
  BY <1>1 DEF Inv, Placed, Ask
<1>6. Offered'
  BY <1>1, <1>2 DEF Inv, Offered, FlowOf
<1>7. Felt'
  BY <1>1 DEF Inv, Felt
<1>8. Current'
  BY <1>1, <1>2, NoMessageRead DEF Inv, Current, Collecting, Fresh
<1>9. Ways'
  BY <1>1, <1>2 DEF Inv, Ways, CollectingRefund, Collecting
<1>10. ~disturbed' => Followed'
  BY <1>1, <1>2 DEF Followed, FlowOf, AsAsked, Collecting, Unread, Draws, Answers, Ask
<1>11. QED
  BY <1>4, <1>5, <1>6, <1>7, <1>8, <1>9, <1>10 DEF Inv

\* What waits at the interrupt of the confirmation is a complete draft and its offer.
LEMMA Waiting ==
  ASSUME Inv, shown # NoOffer
  PROVE  /\ ~running /\ node = Ask /\ grant = NoOffer /\ ~open
         /\ shown = [flow |-> FlowOf(state), draft |-> state.fields] /\ shown \in Offers
         /\ (worker = "none" /\ ~supervised) \/ worker = "ticket_agent"
         /\ worker = "ticket_agent" => state.intent \in Flows \cup {"policy"}
         /\ state.needs /\ ~state.missing /\ Fresh(state.fields) /\ ~felt /\ ~state.emotional
         /\ state \in State /\ saved \in State /\ turn \in Turns /\ turn > settled /\ settled \in Turns
         /\ message.order \in named \cup {NoOrder} /\ (Collecting(saved) => Fresh(saved.fields))
         /\ ~disturbed => FlowOf(state) = asked
<1>1. ~running /\ node = Ask /\ grant = NoOffer /\ ~open
      /\ shown = [flow |-> FlowOf(state), draft |-> state.fields]
  BY DEF Inv, Offered
<1>2. /\ shown \in Offers /\ state \in State /\ saved \in State /\ turn \in Turns
      /\ settled \in Turns /\ worker \in Workers /\ felt \in BOOLEAN
  BY DEF Inv, TypeOK
<1>3. (worker = "none" /\ ~supervised) \/ worker = "ticket_agent"
  BY <1>1, <1>2 DEF Inv, Placed, Workers, Ask
<1>4. state.needs /\ (worker = "ticket_agent" => state.intent \in Flows \cup {"policy"})
  BY <1>1 DEF Inv, Ways, Answers
<1>5. /\ ~state.missing /\ Fresh(state.fields) /\ turn > settled
      /\ message.order \in named \cup {NoOrder} /\ (Collecting(saved) => Fresh(saved.fields))
  BY <1>1 DEF Inv, Current, Exec, Ask
<1>6. ~felt /\ ~state.emotional
  BY <1>1, <1>2, StateFields DEF Inv, Felt, Ask
<1>7. ~disturbed => FlowOf(state) = asked
  BY <1>1 DEF Inv, Followed, Answers
<1>8. QED
  BY <1>1, <1>2, <1>3, <1>4, <1>5, <1>6, <1>7

\* The confirmation resumes: the graph goes on, or the walk is over.
LEMMA ResumedEffect ==
  ASSUME NEW s \in State, Resumed(s), worker # "knowledge_agent"
  PROVE  /\ shown # NoOffer /\ ~running /\ shown' = NoOffer
         /\ AfterConfirmation(s) = "END" =>
              /\ Like(s) /\ saved' = state' /\ worker' = "none" /\ node' = "END" /\ running' = FALSE
         /\ AfterConfirmation(s) # "END" =>
              /\ state' = s /\ node' = AfterConfirmation(s) /\ running' = TRUE /\ UNCHANGED worker
              /\ saved' = IF worker = "none" THEN s ELSE saved
  BY FinishEffect DEF Resumed

\* What a decision writes into the state.
LEMMA DecidedTyped ==
  ASSUME state \in State, NEW approved \in BOOLEAN
  PROVE  Decided(approved) \in State
<1>1. PICK refund \in BOOLEAN, cancel \in BOOLEAN :
        refund = (state.refund /\ approved) /\ cancel = (state.cancel /\ approved)
  OBVIOUS
<1>2. PICK fields \in Draft : fields = state.fields
  BY StateFields
<1>3. [state EXCEPT !.approved = approved, !.correction = FALSE, !.confirmation = fields,
                    !.refund = refund, !.cancel = cancel] \in State
  BY DEF State
<1>4. QED
  BY <1>1, <1>2, <1>3 DEF Decided

LEMMA DecideInv == ASSUME Inv, NEW approved \in BOOLEAN, Decide(approved) PROVE Inv'
<1> DEFINE s == [state EXCEPT !.approved = approved, !.correction = FALSE, !.confirmation = state.fields,
                              !.refund = @ /\ approved, !.cancel = @ /\ approved]
<1>1. /\ Resumed(s) /\ grant' = IF approved THEN shown ELSE NoOffer
      /\ settled' = turn /\ named' = {} /\ wanted' = {} /\ disturbed' = FALSE
      /\ UNCHANGED <<supervised, message, turn, admitted, ran, felt, asked, open>>
  BY DEF Decide, Decided
<1>2. shown # NoOffer
  BY <1>1 DEF Resumed
<1>3. s \in State /\ s.fields = state.fields /\ s.missing = state.missing /\ s.needs = state.needs
      /\ s.intent = state.intent /\ s.emotional = state.emotional
      /\ s.approved = approved /\ s.correction = FALSE /\ s.confirmation = state.fields
      /\ s.refund = (state.refund /\ approved) /\ s.cancel = (state.cancel /\ approved)
  <2>1. state \in State
    BY DEF Inv, TypeOK
  <2>2. s \in State
    BY <2>1, DecidedTyped DEF Decided
  <2>3. QED
    BY <2>1, <2>2 DEF State
<1> HIDE DEF s
<1>4. worker # "knowledge_agent" /\ worker \in Workers
  BY <1>2, Waiting DEF Workers
<1>5. TypeOK
  BY DEF Inv
<1>6. CASE approved
  <2>1. FlowOf(s) = FlowOf(state) /\ FlowOf(s) \in Flows
    BY <1>3, <1>6 DEF FlowOf, Flows
  <2>2. /\ AfterConfirmation(s) \in Exec
        /\ (AfterConfirmation(s) = "execute_cancel_request") <=> (FlowOf(s) = "cancel")
        /\ (AfterConfirmation(s) = "execute_refund_request") <=> (FlowOf(s) = "refund")
    BY <1>3, <1>6, <2>1, ConfirmationRoute DEF Flows, Exec
  <2>3. /\ state' = s /\ node' = AfterConfirmation(s) /\ running' = TRUE /\ UNCHANGED worker
        /\ saved' = IF worker = "none" THEN s ELSE saved
        /\ shown' = NoOffer /\ grant' = shown
    BY <1>1, <1>3, <1>4, <1>6, <2>2, ResumedEffect DEF Exec
  <2>4. TypeOK'
    BY <1>1, <1>2, <1>3, <1>5, <2>2, <2>3, Waiting DEF TypeOK, Exec, NodeNames
  <2>5. Placed'
    BY <1>1, <1>2, <2>2, <2>3, Waiting DEF Placed, Exec, Ask
  <2>6. Offered'
    <3>1. grant' = [flow |-> FlowOf(state'), draft |-> state'.fields]
      BY <1>2, <1>3, <2>1, <2>3, Waiting
    <3>2. QED
      BY <1>3, <1>6, <2>2, <2>3, <3>1 DEF Offered, FlowOf
  <2>7. Felt'
    BY <1>1, <1>2, <1>3, <2>3, Waiting DEF Felt
  <2>8. Current'
    BY <1>1, <1>2, <1>3, <2>2, <2>3, Waiting DEF Current, Collecting, Exec, Turns, Ask
  <2>9. Ways'
    BY <1>1, <1>2, <1>3, <2>2, <2>3, Waiting DEF Ways, Exec, Answers, Ask
  <2>10. Followed'
    BY <2>2, <2>3 DEF Followed, Unread, Exec, Answers, Ask
  <2>11. QED
    BY <2>4, <2>5, <2>6, <2>7, <2>8, <2>9, <2>10 DEF Inv
<1>7. CASE ~approved
  <2>1. /\ Like(s) /\ saved' = state' /\ worker' = "none" /\ node' = "END" /\ running' = FALSE
        /\ shown' = NoOffer /\ grant' = NoOffer
    BY <1>1, <1>3, <1>4, <1>7, ResumedEffect, ConfirmationRoute
  <2>2. TypeOK'
    BY <1>1, <1>5, <2>1 DEF TypeOK, Like, NodeNames, Workers
  <2>3. Placed'
    BY <2>1 DEF Placed, Exec, Ask
  <2>4. Offered'
    BY <2>1 DEF Offered, Exec
  <2>5. Felt'
    BY <1>1, <1>2, <1>3, <2>1, Waiting DEF Felt, Like
  <2>6. Current'
    BY <1>1, <1>2, <1>3, <2>1, Waiting DEF Current, Like, Collecting, Exec, Turns, Ask
  <2>7. Ways'
    BY <2>1 DEF Ways, Exec, Answers, Ask
  <2>8. Followed'
    BY <1>1, <1>2, <1>3, <2>1, Waiting
       DEF Followed, Like, AsAsked, Collecting, Classified, Unread, Draws, Exec, Answers, Ask
  <2>9. QED
    BY <2>2, <2>3, <2>4, <2>5, <2>6, <2>7, <2>8 DEF Inv
<1>8. QED
  BY <1>6, <1>7

LEMMA CorrectInv == ASSUME Inv, Correct PROVE Inv'
<1>1. PICK d \in Corrections :
        /\ Resumed(Corrected(d))
        /\ named' = IF d.order = NoOrder THEN named ELSE named \cup {d.order}
  BY DEF Correct
<1>2. UNCHANGED <<supervised, message, turn, admitted, grant, ran, settled, felt, asked, open,
                 wanted, disturbed>>
  BY DEF Correct
<1>3. d \in Draft /\ ~Incomplete(d) /\ d.since = turn
  BY DEF Corrections
<1> DEFINE s == [state EXCEPT !.fields = d, !.missing = FALSE, !.complete = TRUE,
                              !.approved = FALSE, !.correction = TRUE, !.confirmation = NoDraft]
<1>4. Resumed(s) /\ shown # NoOffer
  BY <1>1, <1>3 DEF Corrected, Resumed
<1>5. s \in State /\ s.fields = d /\ s.missing = FALSE /\ s.needs = state.needs
      /\ s.intent = state.intent /\ s.emotional = state.emotional /\ s.correction = TRUE
      /\ s.refund = state.refund /\ s.cancel = state.cancel
  <2>1. state \in State
    BY DEF Inv, TypeOK
  <2>2. NoDraft \in Draft
    BY ModesAssumption DEF NoDraft, Draft, Issues, Turns
  <2>3. QED
    BY <1>3, <2>1, <2>2 DEF State
<1> HIDE DEF s
<1>6. /\ state' = s /\ node' = Ask /\ running' = TRUE /\ UNCHANGED worker
      /\ saved' = IF worker = "none" THEN s ELSE saved
      /\ shown' = NoOffer
  <2>1. worker # "knowledge_agent"
    BY <1>4, Waiting
  <2>2. AfterConfirmation(s) = Ask
    BY <1>5, ConfirmationRoute
  <2>3. QED
    BY <1>4, <1>5, <2>1, <2>2, ResumedEffect DEF Ask
<1>7. d.order \in Orders \cup {NoOrder} /\ named' \subseteq named \cup Orders /\ named \subseteq named'
      /\ d.order \in named' \cup {NoOrder}
  BY <1>1, <1>3 DEF Draft
<1>8. TypeOK'
  BY <1>2, <1>5, <1>6, <1>7 DEF Inv, TypeOK, NodeNames, Ask
<1>9. Placed'
  BY <1>2, <1>4, <1>6, Waiting DEF Placed, Ask
<1>10. Offered'
  BY <1>2, <1>4, <1>6, Waiting DEF Offered, Exec, Ask
<1>11. Felt'
  BY <1>2, <1>4, <1>5, <1>6, Waiting DEF Felt
<1>12. Current'
  <2>1. Fresh(state.fields)' /\ ~state'.missing /\ node' \notin Exec
        /\ node' # "ask_missing_ticket_fields"
    BY <1>2, <1>3, <1>4, <1>5, <1>6, <1>7, Waiting DEF Fresh, Exec, Ask
  <2>2. turn' > settled' /\ message'.order \in named' \cup {NoOrder} /\ settled' <= turn'
    BY <1>2, <1>4, <1>7, Waiting DEF Turns
  <2>3. Collecting(saved)' => Fresh(saved.fields)'
    BY <1>2, <1>4, <1>5, <1>6, <1>7, Waiting DEF Fresh, Collecting
  <2>4. QED
    BY <2>1, <2>2, <2>3 DEF Current, Ask
<1>13. Ways'
  BY <1>4, <1>5, <1>6, Waiting DEF Ways, Exec, Answers, Ask
<1>14. ~disturbed' => Followed'
  <2>1. FlowOf(state)' = FlowOf(state)
    BY <1>5, <1>6 DEF FlowOf
  <2>2. QED
    BY <1>2, <1>4, <1>6, <2>1, Waiting DEF Followed, Unread, Draws, Answers, Ask
<1>15. QED
  BY <1>8, <1>9, <1>10, <1>11, <1>12, <1>13, <1>14 DEF Inv

\* An operation ends its turn with no draft open, whether the service accepted it.
LEMMA PerformInv ==
  ASSUME Inv, NEW flow \in Flows, NEW s \in State, running, node \in Exec, Perform(flow, s),
         s.missing = state.missing, s.emotional = state.emotional
  PROVE  Inv'
<1>1. /\ ran' = ran \/ ran' = [flow |-> flow, draft |-> Confirmed]
      /\ grant' = NoOffer /\ Finish(s) /\ UNCHANGED <<supervised, message, turn, admitted, shown>>
      /\ UNCHANGED <<named, settled, felt, asked, open, wanted, disturbed>>
  BY DEF Perform, historyVars
<1>2. /\ worker # "knowledge_agent" /\ state \in State /\ ~felt /\ ~state.emotional
      /\ ~state.missing /\ ~open /\ shown = NoOffer /\ settled <= turn
  BY StateFields DEF Inv, TypeOK, Placed, Felt, Current, Ways, Offered, Exec
<1>3. ran' \in Offers \cup {NoOffer}
  <2>1. Confirmed \in Draft
    BY <1>2, StateFields DEF Confirmed
  <2>2. QED
    BY <1>1, <2>1 DEF Inv, TypeOK, Offers
<1>4. Like(s) /\ saved' = state' /\ worker' = "none" /\ node' = "END" /\ running' = FALSE
  BY <1>1, <1>2, FinishEffect
<1>5. TypeOK'
  BY <1>1, <1>3, <1>4 DEF Inv, TypeOK, Like, NodeNames, Workers
<1>6. Placed'
  BY <1>4 DEF Placed, Exec, Ask
<1>7. Offered'
  BY <1>1, <1>2, <1>4 DEF Offered, Exec
<1>8. Felt'
  BY <1>1, <1>2, <1>4 DEF Felt, Like
<1>9. Current'
  BY <1>1, <1>2, <1>4 DEF Current, Like, Collecting, Exec, Ask
<1>10. Ways'
  BY <1>4 DEF Ways, Exec, Answers, Ask
<1>11. ~disturbed' => Followed'
  BY <1>1, <1>2, <1>4
     DEF Followed, Like, AsAsked, Collecting, Classified, Unread, Draws, Exec, Answers, Ask
<1>12. QED
  BY <1>5, <1>6, <1>7, <1>8, <1>9, <1>10, <1>11 DEF Inv

LEMMA ExecutionInv ==
  ASSUME Inv, CreateTicket \/ ExecuteRefund \/ ExecuteCancel
  PROVE  Inv'
<1>1. state \in State
  BY DEF Inv, TypeOK
<1>2. CASE CreateTicket
  BY <1>1, <1>2, PerformInv DEF CreateTicket, At, Exec, Flows
<1>3. CASE ExecuteRefund
  <2> DEFINE s == [state EXCEPT !.refund = FALSE]
  <2>1. s \in State /\ s.missing = state.missing /\ s.emotional = state.emotional
    BY <1>1 DEF State
  <2>2. running /\ node = "execute_refund_request" /\ Perform("refund", s)
    BY <1>3 DEF ExecuteRefund, At
  <2>3. QED
    BY <2>1, <2>2, PerformInv DEF Exec, Flows
<1>4. CASE ExecuteCancel
  <2> DEFINE s == [state EXCEPT !.cancel = FALSE]
  <2>1. s \in State /\ s.missing = state.missing /\ s.emotional = state.emotional
    BY <1>1 DEF State
  <2>2. running /\ node = "execute_cancel_request" /\ Perform("cancel", s)
    BY <1>4 DEF ExecuteCancel, At
  <2>3. QED
    BY <2>1, <2>2, PerformInv DEF Exec, Flows
<1>5. QED
  BY <1>2, <1>3, <1>4

LEMMA AdmitInv == ASSUME Inv, Admit PROVE Inv'
<1>1. /\ ~Pending /\ admitted' = TRUE
      /\ UNCHANGED <<supervised, saved, state, node, worker, running, message, turn, shown, grant, ran,
                     named, settled, felt, asked, open, wanted, disturbed>>
  BY DEF Admit, runVars, offerVars, historyVars
<1>2. TypeOK' /\ Placed'
  BY <1>1 DEF Inv, TypeOK, Placed
<1>3. Offered' /\ Felt'
  BY <1>1 DEF Inv, Offered, Felt, FlowOf
<1>4. Current'
  BY <1>1 DEF Inv, Current, Collecting, Fresh, Pending
<1>5. Ways'
  BY <1>1 DEF Inv, Ways, CollectingRefund, Collecting
<1>6. ~disturbed' => Followed'
  BY <1>1 DEF Inv, Followed, FlowOf, AsAsked, Collecting, Classified, Unread, Meant
<1>7. QED
  BY <1>2, <1>3, <1>4, <1>5, <1>6 DEF Inv

LEMMA StartInv == ASSUME Inv, Start PROVE Inv'
<1>1. /\ admitted /\ ~running /\ turn < MaxTurns /\ admitted' = FALSE /\ turn' = turn + 1
      /\ message' \in Message /\ state' = saved /\ node' = "normalize_user_input"
      /\ worker' = "none" /\ running' = TRUE
      /\ shown' = NoOffer /\ grant' = NoOffer /\ ran' = NoOffer /\ felt' = FALSE
      /\ named' = IF message'.order = NoOrder THEN named ELSE named \cup {message'.order}
      /\ asked' = IF open THEN asked
                  ELSE IF message'.intent \in Flows THEN message'.intent
                  ELSE IF message'.intent = "policy" THEN "ticket" ELSE "none"
      /\ wanted' = wanted \cup Wants(message')
      /\ disturbed' = (disturbed \/ (supervised /\ Pending))
      /\ UNCHANGED <<supervised, saved, settled, open>>
  BY DEF Start
<1>2. TypeOK
  BY DEF Inv
<1>3. message'.order \in Orders \cup {NoOrder} /\ message'.intent \in Intents
  BY <1>1 DEF Message
<1>4. named' \subseteq Orders /\ named \subseteq named' /\ message'.order \in named' \cup {NoOrder}
  BY <1>1, <1>2, <1>3 DEF TypeOK
<1>5. turn' \in Turns /\ settled < turn'
  BY <1>1, <1>2, ModesAssumption DEF Inv, Current, TypeOK, Turns
<1>6. (supervised /\ Pending) \in BOOLEAN
  BY <1>2 DEF TypeOK, Pending
<1>7. asked' \in Flows \cup {"none"} /\ wanted' \subseteq Flows
  BY <1>1, <1>2 DEF TypeOK, Flows, Wants
<1>8. TypeOK'
  BY <1>1, <1>2, <1>4, <1>5, <1>6, <1>7 DEF TypeOK, NodeNames, Workers
<1>9. Placed'
  BY <1>1 DEF Placed, Exec, Ask
<1>10. Offered' /\ Felt'
  BY <1>1 DEF Offered, Felt, Exec
<1>11. Current'
  <2>1. Collecting(saved) => Fresh(saved.fields)
    BY <1>1 DEF Inv, Current
  <2>2. Collecting(saved)' => Fresh(saved.fields)'
    BY <1>1, <1>4, <2>1 DEF Fresh, Collecting
  <2>3. Collecting(state)' => Fresh(state.fields)'
    BY <1>1, <2>2 DEF Fresh, Collecting
  <2>4. settled' <= turn' /\ turn' > settled'
    BY <1>1, <1>2, <1>5 DEF TypeOK, Turns
  <2>5. QED
    BY <1>1, <1>4, <2>2, <2>3, <2>4 DEF Current, Exec, Ask
<1>12. Ways'
  BY <1>1 DEF Ways, Exec, Answers, Ask
<1>13. ~disturbed' => Followed'
  <2>1. SUFFICES ASSUME ~disturbed' PROVE Followed'
    OBVIOUS
  <2>2. Followed /\ (~supervised \/ ~Pending)
    BY <1>1, <2>1 DEF Inv
  <2>3. AsAsked
    BY <1>1, <2>2 DEF Followed, Exec, Answers, Ask
  <2>4. worker = "none"
    BY <1>1, <2>2 DEF Followed, Inv, Placed, TypeOK, Pending, Ask
  <2>5. saved = state
    BY <2>4 DEF Inv, Placed
  <2>6. AsAsked'
    BY <1>1, <2>3, <2>5 DEF AsAsked, Collecting, FlowOf
  <2>7. open' \/ Meant(message.intent)'
    BY <1>1, <1>2 DEF TypeOK, Meant, Flows
  <2>8. QED
    BY <1>1, <2>6, <2>7 DEF Followed, Classified, Draws, Exec, Answers, Ask
<1>14. QED
  BY <1>8, <1>9, <1>10, <1>11, <1>12, <1>13 DEF Inv

LEMMA AbandonInv == ASSUME Inv, Abandon PROVE Inv'
<1>1. /\ running /\ grant = NoOffer /\ running' = FALSE /\ disturbed' = TRUE
      /\ worker = "none" \/ node \in {"emotion_recognition", "retrieve_policy"}
      /\ message' = NoMessage
      /\ UNCHANGED <<supervised, saved, state, node, worker, turn, admitted, shown, grant, ran,
                     named, settled, felt, asked, open, wanted>>
  BY DEF Abandon, offerVars
<1>2. TypeOK' /\ Placed'
  BY <1>1, NoMessageRead DEF Inv, TypeOK, Placed
<1>3. Offered' /\ Felt'
  BY <1>1 DEF Inv, Offered, Felt
<1>4. Current'
  BY <1>1, NoMessageRead DEF Inv, Current, Collecting, Fresh, Exec
<1>5. Ways'
  BY <1>1 DEF Inv, Ways, CollectingRefund, Collecting
<1>6. QED
  BY <1>1, <1>2, <1>3, <1>4, <1>5 DEF Inv

LEMMA CrashInv == ASSUME Inv, Crash PROVE Inv'
<1>1. /\ running /\ running' = FALSE /\ admitted' = FALSE /\ grant' = NoOffer /\ shown' = NoOffer
      /\ message' = NoMessage /\ disturbed' = TRUE
      /\ UNCHANGED <<supervised, saved, state, node, worker, turn, ran,
                     named, settled, felt, asked, open, wanted>>
  BY DEF Crash
<1>2. TypeOK' /\ Placed'
  BY <1>1, NoMessageRead DEF Inv, TypeOK, Placed
<1>3. Offered' /\ Felt'
  BY <1>1 DEF Inv, Offered, Felt
<1>4. Current'
  BY <1>1, NoMessageRead DEF Inv, Current, Collecting, Fresh
<1>5. Ways'
  BY <1>1 DEF Inv, Ways, CollectingRefund, Collecting
<1>6. QED
  BY <1>1, <1>2, <1>3, <1>4, <1>5 DEF Inv

\* A thread that begins, or begins anew.
LEMMA AnewInv ==
  ASSUME TypeOK', settled' <= turn', saved' = NewState, state' = NewState, node' = "END",
         worker' = "none", ~running', shown' = NoOffer, grant' = NoOffer, ~felt', ~open'
  PROVE  Inv'
<1>1. ~NewState.missing /\ ~NewState.emotional
  BY DEF NewState
<1>2. Placed' /\ Offered' /\ Felt' /\ Ways'
  BY <1>1 DEF Placed, Offered, Felt, Ways, Exec, Answers, Ask
<1>3. Current'
  BY <1>1 DEF Current, Collecting, Exec, Ask
<1>4. Followed'
  BY <1>1 DEF Followed, AsAsked, Collecting, Classified, Unread, Draws, Answers, Ask
<1>5. QED
  BY <1>2, <1>3, <1>4 DEF Inv

LEMMA NewTyped == NewState \in State
<1>1. NoDraft \in Draft
  BY ModesAssumption DEF NoDraft, Draft, Issues, Turns
<1>2. QED
  BY <1>1 DEF NewState, State, Intents

LEMMA ExpireInv == ASSUME Inv, Expire PROVE Inv'
<1>1. /\ ~running /\ saved' = NewState /\ state' = NewState /\ node' = "END" /\ worker' = "none"
      /\ shown' = NoOffer /\ ran' = NoOffer /\ grant' = NoOffer
      /\ felt' = FALSE /\ asked' = "none" /\ open' = FALSE /\ disturbed' = FALSE
      /\ named' = {} /\ wanted' = {} /\ message' = NoMessage
      /\ UNCHANGED <<supervised, running, turn, admitted, settled>>
  BY DEF Expire
<1>2. TypeOK'
  BY <1>1, NewTyped, NoMessageRead DEF Inv, TypeOK, NodeNames, Workers
<1>3. QED
  BY <1>1, <1>2, AnewInv DEF Inv, Current

LEMMA InitInv == ASSUME Init PROVE Inv
<1>1. TypeOK
  <2>1. 0 \in Turns
    BY ModesAssumption DEF Turns
  <2>2. QED
    BY <2>1, NoMessageRead, NewTyped DEF Init, TypeOK, NodeNames, Workers
<1>2. ~NewState.missing /\ ~NewState.emotional /\ settled <= turn
  BY DEF NewState, Init
<1>3. Placed /\ Offered /\ Felt /\ Ways
  BY <1>2 DEF Init, Placed, Offered, Felt, Ways, Exec, Answers, Ask
<1>4. Current
  BY <1>2 DEF Init, Current, Collecting, Exec, Ask
<1>5. Followed
  BY <1>2 DEF Init, Followed, AsAsked, Collecting, Classified, Unread, Draws, Answers, Ask
<1>6. QED
  BY <1>1, <1>3, <1>4, <1>5 DEF Inv

LEMMA StutterInv == ASSUME Inv, UNCHANGED vars PROVE Inv'
<1>1. UNCHANGED <<supervised, saved, state, node, worker, running, message, turn, admitted,
                  shown, grant, ran, named, settled, felt, asked, open, wanted, disturbed>>
  BY DEF vars, runVars, offerVars, historyVars
<1>2. TypeOK' /\ Placed'
  BY <1>1 DEF Inv, TypeOK, Placed
<1>3. Offered' /\ Felt'
  BY <1>1 DEF Inv, Offered, Felt, FlowOf
<1>4. Current' /\ Ways'
  BY <1>1 DEF Inv, Current, Collecting, Fresh, Ways, CollectingRefund
<1>5. ~disturbed' => Followed'
  BY <1>1 DEF Inv, Followed, FlowOf, AsAsked, Collecting, Classified, Unread, Meant
<1>6. QED
  BY <1>2, <1>3, <1>4, <1>5 DEF Inv

LEMMA StepInv == Inv /\ [Next]_vars => Inv'
<1> SUFFICES ASSUME Inv, [Next]_vars PROVE Inv'
  OBVIOUS
<1>1. CASE Admit
  BY <1>1, AdmitInv
<1>2. CASE Start
  BY <1>2, StartInv
<1>3. CASE Node
  BY <1>3, NormalizeInv, RecogniseInv, ClassifyInv, SuperviseInv, AnswerInv, RetrievePolicyInv,
     DecideNeedInv, ExtractInv, HandleRefundInv, HandleCancelInv, AskMissingInv, InterruptInv,
     ExecutionInv DEF Node
<1>4. CASE \E approved \in BOOLEAN : Decide(approved)
  BY <1>4, DecideInv
<1>5. CASE Correct
  BY <1>5, CorrectInv
<1>6. CASE Abandon
  BY <1>6, AbandonInv
<1>7. CASE Crash
  BY <1>7, CrashInv
<1>8. CASE Expire
  BY <1>8, ExpireInv
<1>9. CASE UNCHANGED vars
  BY <1>9, StutterInv
<1>10. QED
  BY <1>1, <1>2, <1>3, <1>4, <1>5, <1>6, <1>7, <1>8, <1>9 DEF Next

\* The invariant holds in every state of the thread.
LEMMA Invariance == Spec => []Inv
  BY InitInv, StepInv, PTL DEF Spec

-----------------------------------------------------------------------------
(* The flows that were asked for since the last decision.                    *)

\* A draft that is open, asked about or being written is of such a flow, and so is
\* what the message and, once it was read, the state's intent lead to.
Sought ==
  /\ Collecting(state) => FlowOf(state) \in wanted
  /\ Collecting(saved) => FlowOf(saved) \in wanted \/ (node \in Exec /\ worker = "ticket_agent")
  /\ node \in Answers => FlowOf(state) \in wanted
  /\ node \notin Exec \cup {"END"} => Wants(message) \subseteq wanted
  /\ Classified /\ node \notin Exec \cup Answers => Wants(state) \subseteq wanted
  /\ node = "extract_ticket_fields" => "ticket" \in wanted
  /\ node = "handle_refund_request" => "refund" \in wanted
  /\ node = "handle_cancel_request" => "cancel" \in wanted

\* The state after a node, as far as Sought looks at it.
SameDraft ==
  /\ state'.fields = state.fields /\ state'.missing = state.missing
  /\ state'.cancel = state.cancel /\ state'.refund = state.refund

\* A node that leaves the draft alone and goes on to no question about it.
LEMMA NodeSought ==
  ASSUME Sought, UNCHANGED <<message, wanted>>, SameDraft, saved' = state' \/ saved' = saved,
         node \notin Exec \cup {"END"}, node' \notin Exec \cup Answers,
         Classified' => Wants(state)' \subseteq wanted,
         node' = "extract_ticket_fields" => "ticket" \in wanted,
         node' = "handle_refund_request" => "refund" \in wanted,
         node' = "handle_cancel_request" => "cancel" \in wanted
  PROVE  Sought'
<1>1. Collecting(state)' => FlowOf(state)' \in wanted
  BY DEF Sought, SameDraft, Collecting, FlowOf
<1>2. Collecting(saved)' => FlowOf(saved)' \in wanted
  BY <1>1 DEF Sought, Collecting, FlowOf
<1>3. Wants(message)' \subseteq wanted
  BY DEF Sought, Wants
<1>4. QED
  BY <1>1, <1>2, <1>3 DEF Sought

\* An open collection takes the message for its own flow; otherwise it is read.
LEMMA IntentSought ==
  ASSUME Inv, Sought, node \in {"classify_intent", "supervisor_route"},
         NEW s, s.intent = IntentOf(state)
  PROVE  Wants(s) \subseteq wanted
<1>1. Wants(message) \subseteq wanted /\ (Collecting(state) => FlowOf(state) \in wanted)
  BY DEF Sought, Exec
<1>2. CASE CollectingCancel(state)
  BY <1>1, <1>2 DEF IntentOf, CollectingCancel, FlowOf, Wants, Flows
<1>3. CASE ~CollectingCancel(state) /\ CollectingRefund(state)
  BY <1>1, <1>3 DEF IntentOf, CollectingCancel, CollectingRefund, FlowOf, Wants, Flows
<1>4. CASE ~CollectingCancel(state) /\ ~CollectingRefund(state) /\ CollectingTicket(state)
  BY <1>1, <1>4
     DEF IntentOf, CollectingCancel, CollectingRefund, CollectingTicket, FlowOf, Wants, Flows
<1>5. CASE ~CollectingCancel(state) /\ ~CollectingRefund(state) /\ ~CollectingTicket(state)
  BY <1>1, <1>5 DEF IntentOf, Wants
<1>6. QED
  BY <1>2, <1>3, <1>4, <1>5

LEMMA RecogniseSought == ASSUME Inv, Sought, Recognise PROVE Sought'
<1> DEFINE s == [state EXCEPT !.emotional = message.angry]
<1>1. message.angry \in BOOLEAN /\ state \in State /\ worker \in Workers
  BY DEF Inv, TypeOK, Message
<1>2. s \in State /\ s.fields = state.fields /\ s.missing = state.missing
      /\ s.cancel = state.cancel /\ s.refund = state.refund /\ s.intent = state.intent
  BY <1>1 DEF State
<1>3. /\ node = "emotion_recognition" /\ UNCHANGED <<message, wanted>>
      /\ ~message.angry => Goto(AfterEmotion(s), s)
      /\ message.angry /\ worker = "none" => Goto("build_emotion_handoff_answer", s)
      /\ message.angry /\ worker # "none" => Finish(s)
  BY DEF Recognise, At
<1> HIDE DEF s
<1>4. Like(s) /\ (saved' = state' \/ saved' = saved)
  BY <1>2, <1>3, GotoEffect, FinishEffect
<1>5. SameDraft /\ node \notin Exec \cup {"END"} /\ state'.intent = state.intent
  BY <1>2, <1>3, <1>4 DEF SameDraft, Like, Exec
<1>6. worker # "none" => Wants(state) \subseteq wanted /\ Wants(state)' \subseteq wanted
  BY <1>3, <1>5 DEF Sought, Classified, Exec, Answers, Ask, Wants
<1>7. CASE message.angry
  <2>1. /\ node' \in {"build_emotion_handoff_answer", "END", "emotion_recognition"}
        /\ worker = "none" => worker' = "none"
    BY <1>2, <1>3, <1>7, GotoEffect, FinishEffect
  <2>2. Classified' => Wants(state)' \subseteq wanted
    BY <1>6, <2>1 DEF Classified, Draws
  <2>3. QED
    BY <1>3, <1>4, <1>5, <2>1, <2>2, NodeSought DEF Exec, Answers, Ask
<1>8. CASE ~message.angry
  <2>1. node' = AfterEmotion(s) /\ UNCHANGED worker
    BY <1>2, <1>3, <1>8, GotoEffect
  <2>2. CASE worker # "ticket_agent"
    <3>1. /\ worker = "none" => node' = "classify_intent"
          /\ node' \in {"classify_intent", "retrieve_policy", "query_order"}
      BY <1>1, <2>1, <2>2, EmotionRoute DEF Workers
    <3>2. Classified' => Wants(state)' \subseteq wanted
      BY <1>6, <2>1, <3>1 DEF Classified, Draws
    <3>3. QED
      BY <1>3, <1>4, <1>5, <3>1, <3>2, NodeSought DEF Exec, Answers, Ask
  <2>3. CASE worker = "ticket_agent"
    <3>1. node' = TicketEntry(s) /\ state.intent \in Flows \cup {"policy"}
      BY <2>1, <2>3, EmotionRoute DEF Inv, Ways
    <3>2. Collecting(s) => FlowOf(s) \in wanted
      BY <1>2 DEF Sought, Collecting, FlowOf
    <3>3. /\ node' \in Draws
          /\ node' = "handle_cancel_request" => "cancel" \in wanted
          /\ node' = "handle_refund_request" => "refund" \in wanted
          /\ node' = "extract_ticket_fields" => "ticket" \in wanted
      BY <1>2, <1>6, <2>3, <3>1, <3>2
         DEF TicketEntry, CollectingCancel, CollectingRefund, FlowOf, Wants, Flows, Draws
    <3>4. QED
      BY <1>3, <1>4, <1>5, <1>6, <2>3, <3>3, NodeSought DEF Draws, Exec, Answers, Ask
  <2>4. QED
    BY <2>2, <2>3
<1>9. QED
  BY <1>1, <1>7, <1>8

LEMMA ClassifySought == ASSUME Inv, Sought, Classify PROVE Sought'
<1> DEFINE i == IntentOf(state)
           s == [state EXCEPT !.intent = IntentOf(state)]
<1>1. node = "classify_intent" /\ UNCHANGED <<message, wanted>> /\ Goto(AnswerNode(i), s)
  BY DEF Classify, At, historyVars
<1>2. i \in Intents
  BY <1>1, IntentMeant
<1>3. s \in State /\ s.fields = state.fields /\ s.missing = state.missing
      /\ s.cancel = state.cancel /\ s.refund = state.refund /\ s.intent = i
  BY <1>2 DEF Inv, TypeOK, State
<1>4. Wants(s) \subseteq wanted
  BY <1>1, <1>3, IntentSought
<1> HIDE DEF s, i
<1>5. /\ Like(s) /\ node' = AnswerNode(i) /\ (saved' = state' \/ saved' = saved)
      /\ SameDraft /\ Wants(state)' \subseteq wanted
  BY <1>1, <1>3, <1>4, GotoEffect DEF Like, SameDraft, Wants
<1>6. /\ node' \notin Exec \cup Answers
      /\ node' # "extract_ticket_fields"
      /\ node' = "handle_refund_request" => i = "refund"
      /\ node' = "handle_cancel_request" => i = "cancel"
  BY <1>2, <1>5, AnswerRoute DEF Intents, Flows, Exec, Answers, Ask
<1>7. (i = "refund" => "refund" \in wanted) /\ (i = "cancel" => "cancel" \in wanted)
  BY <1>3, <1>4 DEF Wants, Flows
<1>8. QED
  BY <1>1, <1>5, <1>6, <1>7, NodeSought DEF Exec

LEMMA SuperviseSought == ASSUME Inv, Sought, Supervise PROVE Sought'
<1> DEFINE i == IntentOf(state)
           s == [state EXCEPT !.intent = IntentOf(state), !.needs = @ \/ (IntentOf(state) \in Flows)]
<1>1. /\ node = "supervisor_route" /\ UNCHANGED <<message, wanted>>
      /\ i = "policy" => Enter("knowledge_agent", s)
      /\ i = "order" => Enter("order_agent", s)
      /\ i \in Flows => Enter("ticket_agent", s)
      /\ i = "smalltalk" => Goto("build_direct_answer", s)
  BY SuperviseRoute DEF At, historyVars
<1>2. i \in Intents
  BY <1>1, IntentMeant
<1>3. s \in State /\ s.fields = state.fields /\ s.missing = state.missing
      /\ s.cancel = state.cancel /\ s.refund = state.refund /\ s.intent = i
  BY <1>2 DEF Inv, TypeOK, State
<1>4. Wants(s) \subseteq wanted
  BY <1>1, <1>3, IntentSought
<1> HIDE DEF s, i
<1>5. /\ Like(s) /\ (saved' = state' \/ saved' = saved)
      /\ node' \in {"emotion_recognition", "build_direct_answer"}
  <2>1. CASE i = "smalltalk"
    BY <1>1, <1>3, <2>1, GotoEffect
  <2>2. CASE i # "smalltalk"
    BY <1>1, <1>2, <1>3, <2>2, EnterEffect DEF Flows, Intents
  <2>3. QED
    BY <2>1, <2>2
<1>6. SameDraft /\ Wants(state)' \subseteq wanted
  BY <1>3, <1>4, <1>5 DEF Like, SameDraft, Wants
<1>7. QED
  BY <1>1, <1>5, <1>6, NodeSought DEF Exec, Answers, Ask

\* The nodes that neither read the message nor write the draft.
LEMMA QuietSought ==
  ASSUME Inv, Sought, Normalize \/ Answer \/ RetrievePolicy \/ QueryOrder
  PROVE  Sought'
<1>1. state \in State /\ worker \in Workers /\ UNCHANGED <<message, wanted>>
  BY DEF Inv, TypeOK, Normalize, Answer, RetrievePolicy, QueryOrder, historyVars
<1>2. CASE Normalize
  <2> DEFINE s == [state EXCEPT !.emotional = FALSE]
  <2>1. /\ s \in State /\ s.fields = state.fields /\ s.missing = state.missing
        /\ s.cancel = state.cancel /\ s.refund = state.refund
    BY <1>1 DEF State
  <2>2. /\ node = "normalize_user_input"
        /\ Goto(IF supervised THEN "supervisor_route" ELSE "emotion_recognition", s)
    BY <1>2 DEF Normalize, At
  <2> HIDE DEF s
  <2>3. /\ Like(s) /\ (saved' = state' \/ saved' = saved) /\ UNCHANGED worker
        /\ node' \in {"supervisor_route", "emotion_recognition"}
    BY <2>1, <2>2, GotoEffect
  <2>4. SameDraft /\ worker = "none"
    BY <1>1, <2>1, <2>2, <2>3 DEF Like, SameDraft, Inv, Placed, Ask, Exec, Workers
  <2>5. QED
    BY <1>1, <2>2, <2>3, <2>4, NodeSought DEF Classified, Draws, Exec, Answers, Ask
<1>3. CASE RetrievePolicy
  <2>1. PICK found \in {"answered", "no_context"} :
          Goto("decide_ticket_need", [state EXCEPT !.rag = found])
    BY <1>3 DEF RetrievePolicy
  <2> DEFINE s == [state EXCEPT !.rag = found]
  <2>2. /\ s \in State /\ s.fields = state.fields /\ s.missing = state.missing
        /\ s.cancel = state.cancel /\ s.refund = state.refund /\ s.intent = state.intent
    BY <1>1 DEF State
  <2> HIDE DEF s
  <2>3. /\ Like(s) /\ (saved' = state' \/ saved' = saved) /\ node' = "decide_ticket_need"
    BY <2>1, <2>2, GotoEffect DEF s
  <2>4. node = "retrieve_policy"
    BY <1>3 DEF RetrievePolicy, At
  <2>5. SameDraft /\ Wants(state)' \subseteq wanted
    BY <2>2, <2>3, <2>4 DEF Like, SameDraft, Sought, Classified, Exec, Answers, Ask, Wants
  <2>6. QED
    BY <1>1, <2>3, <2>4, <2>5, NodeSought DEF Exec, Answers, Ask
<1>4. CASE Answer \/ QueryOrder
  <2>1. /\ node \in {"build_direct_answer", "build_emotion_handoff_answer", "query_order"}
        /\ Finish(state)
    BY <1>4 DEF Answer, QueryOrder, At
  <2>2. /\ Like(state) /\ saved' = state' /\ worker' = "none" /\ node' = "END"
    BY <1>1, <2>1, FinishEffect DEF Inv, Placed
  <2>3. QED
    BY <1>1, <2>1, <2>2, NodeSought
       DEF Like, SameDraft, Classified, Draws, Exec, Answers, Ask
<1>5. QED
  BY <1>2, <1>3, <1>4

LEMMA DecideNeedSought == ASSUME Inv, Sought, DecideNeed PROVE Sought'
<1> DEFINE needed == state.intent = "ticket" \/ (state.intent = "policy" /\ state.rag = "no_context")
           s == [state EXCEPT !.needs = needed]
<1>1. /\ node = "decide_ticket_need" /\ UNCHANGED <<message, wanted>>
      /\ IF s.needs /\ worker = "none" THEN Goto("extract_ticket_fields", s) ELSE Finish(s)
  BY DEF DecideNeed, At, historyVars
<1>2. s \in State /\ s.fields = state.fields /\ s.missing = state.missing
      /\ s.cancel = state.cancel /\ s.refund = state.refund /\ s.intent = state.intent
  BY DEF Inv, TypeOK, State
<1> HIDE DEF s
<1>3. /\ Like(s) /\ (saved' = state' \/ saved' = saved)
      /\ node' \in {"extract_ticket_fields", "emotion_recognition", "END"}
  BY <1>1, <1>2, GotoEffect, FinishEffect
<1>4. SameDraft /\ Wants(state) \subseteq wanted /\ Wants(state)' \subseteq wanted
  BY <1>1, <1>2, <1>3 DEF Like, SameDraft, Sought, Classified, Exec, Answers, Ask, Wants
<1>5. "ticket" \in wanted
  BY <1>1, <1>4 DEF Inv, Ways, Wants, Flows
<1>6. QED
  BY <1>1, <1>3, <1>4, <1>5, NodeSought DEF Exec, Answers, Ask

\* A node that writes the draft of its flow.
LEMMA DraftSought ==
  ASSUME Inv, Sought, UNCHANGED <<message, wanted>>, node \in Draws,
         NEW s \in State, FlowOf(s) \in wanted, Goto(AfterFields(s), s)
  PROVE  Sought'
<1>1. /\ Like(s) /\ node' = AfterFields(s) /\ (saved' = state' \/ saved' = saved)
  BY GotoEffect
<1>2. node' \in Answers /\ node \notin Exec \cup {"END"}
  BY <1>1 DEF AfterFields, Answers, Ask, Draws, Exec
<1>3. FlowOf(state)' \in wanted
  BY <1>1 DEF Like, FlowOf
<1>4. Collecting(saved)' => FlowOf(saved)' \in wanted
  BY <1>1, <1>2, <1>3 DEF Sought, Collecting, FlowOf
<1>5. Wants(message)' \subseteq wanted
  BY <1>2 DEF Sought, Wants
<1>6. QED
  BY <1>2, <1>3, <1>4, <1>5 DEF Sought, Answers, Ask

LEMMA ExtractSought == ASSUME Inv, Sought, Extract PROVE Sought'
<1> DEFINE d == Extracted(state)
           s == [state EXCEPT !.fields = d, !.missing = Incomplete(d), !.complete = ~Incomplete(d),
                              !.refund = FALSE, !.cancel = FALSE]
<1>1. /\ running /\ node = "extract_ticket_fields" /\ UNCHANGED <<message, wanted>>
      /\ Goto(AfterFields(s), s)
  BY DEF Extract, At, historyVars
<1>2. state \in State /\ message \in Message /\ turn \in Turns
  BY DEF Inv, TypeOK
<1>3. d \in Draft /\ Incomplete(d) \in BOOLEAN
  BY <1>2, StateFields
     DEF Extracted, CollectingTicket, Known, Draft, Message, Issues, Incomplete
<1> HIDE DEF d
<1>4. s \in State /\ s.refund = FALSE /\ s.cancel = FALSE
  BY <1>2, <1>3 DEF State
<1> HIDE DEF s
<1>5. FlowOf(s) \in wanted
  BY <1>1, <1>4 DEF FlowOf, Sought
<1>6. QED
  BY <1>1, <1>4, <1>5, DraftSought DEF Draws

LEMMA HandleRefundSought == ASSUME Inv, Sought, HandleRefund PROVE Sought'
<1> DEFINE d == Requested(state, "refund", CollectingRefund(state))
           s == [state EXCEPT !.fields = d, !.missing = d.order = NoOrder,
                              !.complete = d.order # NoOrder, !.needs = TRUE,
                              !.refund = TRUE, !.cancel = FALSE]
<1>1. /\ node = "handle_refund_request" /\ UNCHANGED <<message, wanted>>
      /\ Goto(AfterFields(s), s)
  BY DEF HandleRefund, At, historyVars
<1>2. CollectingRefund(state) \in BOOLEAN /\ (CollectingRefund(state) => Collecting(state))
  BY StateFields DEF CollectingRefund, Collecting, Inv, TypeOK
<1>3. d \in Draft
  BY <1>1, <1>2, RequestedFresh DEF Draws, Issues
<1> HIDE DEF d
<1>4. s \in State /\ s.refund = TRUE /\ s.cancel = FALSE
  <2>1. state \in State
    BY DEF Inv, TypeOK
  <2>2. QED
    BY <1>3, <2>1 DEF State
<1> HIDE DEF s
<1>5. FlowOf(s) \in wanted
  BY <1>1, <1>4 DEF FlowOf, Sought
<1>6. QED
  BY <1>1, <1>4, <1>5, DraftSought DEF Draws

LEMMA HandleCancelSought == ASSUME Inv, Sought, HandleCancel PROVE Sought'
<1> DEFINE d == Requested(state, "cancel", CollectingCancel(state))
           s == [state EXCEPT !.fields = d, !.missing = d.order = NoOrder,
                              !.complete = d.order # NoOrder, !.needs = TRUE,
                              !.cancel = TRUE, !.refund = FALSE]
<1>1. /\ node = "handle_cancel_request" /\ UNCHANGED <<message, wanted>>
      /\ Goto(AfterFields(s), s)
  BY DEF HandleCancel, At, historyVars
<1>2. CollectingCancel(state) \in BOOLEAN /\ (CollectingCancel(state) => Collecting(state))
  BY StateFields DEF CollectingCancel, Collecting, Inv, TypeOK
<1>3. d \in Draft
  BY <1>1, <1>2, RequestedFresh DEF Draws, Issues
<1> HIDE DEF d
<1>4. s \in State /\ s.cancel = TRUE
  <2>1. state \in State
    BY DEF Inv, TypeOK
  <2>2. QED
    BY <1>3, <2>1 DEF State
<1> HIDE DEF s
<1>5. FlowOf(s) \in wanted
  BY <1>1, <1>4 DEF FlowOf, Sought
<1>6. QED
  BY <1>1, <1>4, <1>5, DraftSought DEF Draws

\* A turn that ends, or waits, with the draft it has.
LEMMA AskedSought == ASSUME Inv, Sought, AskMissing \/ Interrupt PROVE Sought'
<1>1. CASE AskMissing
  <2>1. /\ node = "ask_missing_ticket_fields" /\ Finish(state) /\ UNCHANGED <<message, wanted>>
        /\ state \in State
    BY <1>1 DEF AskMissing, At, Inv, TypeOK
  <2>2. /\ Like(state) /\ saved' = state' /\ worker' = "none" /\ node' = "END"
    BY <2>1, FinishEffect DEF Inv, Placed
  <2>3. QED
    BY <2>1, <2>2, NodeSought
       DEF Like, SameDraft, Classified, Draws, Exec, Answers, Ask
<1>2. CASE Interrupt
  <2>1. Wants(message)' = {}
    BY <1>2, NoMessageRead DEF Interrupt, Wants
  <2>2. QED
    BY <1>2, <2>1 DEF Interrupt, At, Sought, Collecting, FlowOf, Classified, Wants
<1>3. QED
  BY <1>1, <1>2

\* A decision closes the draft, and what was asked for is forgotten with it.
LEMMA DecideSought == ASSUME Inv, Sought, NEW approved \in BOOLEAN, Decide(approved) PROVE Sought'
<1> DEFINE s == Decided(approved)
<1>1. Resumed(s) /\ shown # NoOffer /\ UNCHANGED message
  BY DEF Decide, Resumed
<1>2. /\ state \in State /\ ~state.missing /\ worker # "knowledge_agent"
      /\ worker = "none" \/ worker = "ticket_agent"
  BY <1>1, Waiting
<1>3. /\ s \in State /\ s.missing = FALSE /\ s.correction = FALSE /\ s.approved = approved
  <2>1. s \in State /\ state.missing = FALSE
    BY <1>2, StateFields, DecidedTyped
  <2>2. QED
    BY <1>2, <2>1 DEF State, Decided
<1> HIDE DEF s
<1>4. FlowOf(s) \in Flows
  BY DEF FlowOf, Flows
<1>5. /\ state'.missing = FALSE
      /\ \/ node' = "END" /\ worker' = "none" /\ saved' = state'
         \/ node' \in Exec /\ UNCHANGED worker /\ (worker = "none" => saved' = state')
  <2>1. CASE approved
    <3>1. AfterConfirmation(s) \in Exec
      BY <1>3, <1>4, <2>1, ConfirmationRoute DEF Flows, Exec
    <3>2. QED
      BY <1>1, <1>2, <1>3, <3>1, ResumedEffect DEF Exec
  <2>2. CASE ~approved
    BY <1>1, <1>2, <1>3, <2>2, ConfirmationRoute, ResumedEffect DEF Like
  <2>3. QED
    BY <2>1, <2>2
<1>6. ~Collecting(state)' /\ (Collecting(saved)' => node' \in Exec /\ worker' = "ticket_agent")
  BY <1>2, <1>5 DEF Collecting, Exec
<1>7. node' \in Exec \cup {"END"} /\ (node' = "END" => worker' = "none")
  BY <1>5 DEF Exec
<1>8. QED
  BY <1>6, <1>7 DEF Sought, Classified, Draws, Exec, Answers, Ask

\* A correction changes the draft, and the operation stays the one that was offered.
LEMMA CorrectSought == ASSUME Inv, Sought, Correct PROVE Sought'
<1>1. PICK d \in Corrections : Resumed(Corrected(d))
  BY DEF Correct
<1>2. shown # NoOffer /\ UNCHANGED <<message, wanted>>
  BY <1>1 DEF Correct, Resumed
<1>3. d \in Draft /\ ~Incomplete(d)
  BY DEF Corrections
<1> DEFINE s == [state EXCEPT !.fields = d, !.missing = FALSE, !.complete = TRUE,
                              !.approved = FALSE, !.correction = TRUE, !.confirmation = NoDraft]
<1>4. Resumed(s)
  BY <1>1, <1>3 DEF Corrected
<1>5. /\ node = Ask /\ state \in State /\ worker # "knowledge_agent"
      /\ worker = "none" \/ worker = "ticket_agent"
  BY <1>2, Waiting
<1>6. /\ s \in State /\ s.correction = TRUE /\ s.missing = FALSE
      /\ s.refund = state.refund /\ s.cancel = state.cancel
  <2>1. NoDraft \in Draft
    BY ModesAssumption DEF NoDraft, Draft, Issues, Turns
  <2>2. QED
    BY <1>3, <1>5, <2>1 DEF State
<1> HIDE DEF s
<1>7. state' = s /\ node' = Ask /\ (saved' = state' \/ saved' = saved)
  <2>1. AfterConfirmation(s) = Ask
    BY <1>6, ConfirmationRoute
  <2>2. QED
    BY <1>4, <1>5, <1>6, <2>1, ResumedEffect DEF Ask
<1>8. FlowOf(state)' \in wanted /\ Wants(message)' \subseteq wanted
  BY <1>2, <1>5, <1>6, <1>7 DEF Sought, FlowOf, Wants, Answers, Ask, Exec
<1>9. Collecting(saved)' => FlowOf(saved)' \in wanted
  BY <1>5, <1>6, <1>7, <1>8 DEF Sought, Collecting, FlowOf, Exec, Ask
<1>10. QED
  BY <1>2, <1>7, <1>8, <1>9 DEF Sought, Answers, Ask

\* An operation ends its turn with no draft open.
LEMMA ExecutionSought ==
  ASSUME Inv, Sought, CreateTicket \/ ExecuteRefund \/ ExecuteCancel
  PROVE  Sought'
<1>1. state \in State /\ worker # "knowledge_agent" /\ ~state.missing
  BY DEF Inv, TypeOK, Placed, Current, CreateTicket, ExecuteRefund, ExecuteCancel, At, Exec
<1>2. PICK s \in State : Finish(s) /\ s.missing = state.missing
  <2>1. [state EXCEPT !.refund = FALSE] \in State /\ [state EXCEPT !.cancel = FALSE] \in State
    BY <1>1 DEF State
  <2>2. QED
    BY <1>1, <2>1 DEF CreateTicket, ExecuteRefund, ExecuteCancel, Perform, State
<1>3. /\ node' = "END" /\ worker' = "none" /\ saved' = state' /\ ~state'.missing
  BY <1>1, <1>2, FinishEffect DEF Like
<1>4. QED
  BY <1>3 DEF Sought, Collecting, Classified, Draws, Exec, Answers, Ask

\* A message adds what it asks for.
LEMMA StartSought == ASSUME Inv, Sought, Start PROVE Sought'
<1>1. /\ admitted /\ ~running /\ state' = saved /\ node' = "normalize_user_input"
      /\ worker' = "none" /\ wanted' = wanted \cup Wants(message') /\ UNCHANGED saved
  BY DEF Start
<1>2. Collecting(saved) => FlowOf(saved) \in wanted
  BY <1>1 DEF Sought, Inv, Current
<1>3. Wants(message)' = Wants(message')
  BY DEF Wants
<1>4. QED
  BY <1>1, <1>2, <1>3
     DEF Sought, Collecting, FlowOf, Classified, Draws, Exec, Answers, Ask

\* The steps that leave the walk where it is, or begin the thread anew.
LEMMA OutsideSought ==
  ASSUME Sought, Admit \/ Abandon \/ Crash \/ Expire \/ UNCHANGED vars
  PROVE  Sought'
<1>1. CASE Admit \/ Abandon \/ Crash \/ UNCHANGED vars
  <2>1. UNCHANGED <<saved, state, node, worker, wanted>> /\ message' \in {message, NoMessage}
    BY <1>1 DEF Admit, Abandon, Crash, vars, runVars, historyVars
  <2>2. Wants(message)' \in {Wants(message), {}}
    BY <2>1, NoMessageRead DEF Wants
  <2>3. QED
    BY <2>1, <2>2 DEF Sought, Collecting, FlowOf, Classified, Wants
<1>2. CASE Expire
  <2>1. saved' = NewState /\ state' = NewState /\ node' = "END" /\ worker' = "none"
    BY <1>2 DEF Expire
  <2>2. ~NewState.missing
    BY DEF NewState
  <2>3. QED
    BY <2>1, <2>2 DEF Sought, Collecting, Classified, Draws, Exec, Answers, Ask
<1>3. QED
  BY <1>1, <1>2

LEMMA SoughtStep == Inv /\ Sought /\ [Next]_vars => Sought'
<1> SUFFICES ASSUME Inv, Sought, [Next]_vars PROVE Sought'
  OBVIOUS
<1>1. CASE Node
  BY <1>1, QuietSought, RecogniseSought, ClassifySought, SuperviseSought, DecideNeedSought,
     ExtractSought, HandleRefundSought, HandleCancelSought, AskedSought, ExecutionSought DEF Node
<1>2. CASE \E approved \in BOOLEAN : Decide(approved)
  BY <1>2, DecideSought
<1>3. CASE Correct
  BY <1>3, CorrectSought
<1>4. CASE Start
  BY <1>4, StartSought
<1>5. CASE Admit \/ Abandon \/ Crash \/ Expire \/ UNCHANGED vars
  BY <1>5, OutsideSought
<1>6. QED
  BY <1>1, <1>2, <1>3, <1>4, <1>5 DEF Next

\* Every flow the thread is about is one the customer asked for since their decision.
LEMMA SoughtAlways == Spec => []Sought
<1>1. Init => Sought
  <2>1. ~NewState.missing
    BY DEF NewState
  <2>2. QED
    BY <2>1 DEF Init, Sought, Collecting, Classified, Draws, Exec, Answers, Ask
<1>2. QED
  BY <1>1, Invariance, SoughtStep, PTL DEF Spec

-----------------------------------------------------------------------------
(* The properties.                                                        *)

\* The thread's state, the checkpoint and the messages have their types; a worker's
\* subgraph runs in the supervised graph only.
THEOREM TypeCorrect == Spec => []TypeOK
<1>1. Inv => TypeOK
  BY DEF Inv
<1>2. QED
  BY <1>1, Invariance, PTL

\* Whatever was abandoned, expired or crashed: the draft the customer is asked about
\* was begun after their last decision, with an order they named since.
THEOREM DraftsAreCurrent == Spec => []DraftIsCurrent
<1>1. Inv => DraftIsCurrent
  <2>1. SUFFICES ASSUME Inv, shown # NoOffer
                 PROVE  shown.draft.since > settled /\ shown.draft.order \in named \cup {NoOrder}
    BY DEF DraftIsCurrent
  <2>2. shown.draft = state.fields /\ Fresh(state.fields)
    BY <2>1, Waiting
  <2>3. QED
    BY <2>2 DEF Fresh
<1>2. QED
  BY <1>1, Invariance, PTL

\* normalize_user_input resets the emotion early enough, in both graphs: a turn ends
\* in a hand-off exactly if its own message was emotional, and then in no offer.
THEOREM HandoffsOfThisTurn == Spec => []HandoffIsOfThisTurn
<1>1. Inv => HandoffIsOfThisTurn
  <2>1. ASSUME Inv, node = "END" PROVE saved.emotional <=> felt
    BY <2>1 DEF Inv, Placed, Felt
  <2>2. ASSUME Inv, shown # NoOffer PROVE ~felt
    BY <2>2, Waiting
  <2>3. QED
    BY <2>1, <2>2 DEF HandoffIsOfThisTurn
<1>2. QED
  BY <1>1, Invariance, PTL

\* The operation that is offered is one the customer asked for since their last
\* decision, whatever flags, runs given up and messages over an offer have left in the
\* checkpoint; and it is the one of the open question or else of the message, unless
\* since that decision a run was given up or a message came in over a supervised offer.
THEOREM DraftsAreAsAsked == Spec => []DraftIsAsAsked
<1>1. Inv /\ Sought => DraftIsAsAsked
  <2>1. SUFFICES ASSUME Inv, Sought, shown # NoOffer
                 PROVE  shown.flow \in wanted /\ (~disturbed => shown.flow = asked)
    BY DEF DraftIsAsAsked
  <2>2. node = Ask /\ shown.flow = FlowOf(state) /\ (~disturbed => FlowOf(state) = asked)
    BY <2>1, Waiting
  <2>3. QED
    BY <2>1, <2>2 DEF Sought, Answers
<1>2. QED
  BY <1>1, Invariance, SoughtAlways, PTL

-----------------------------------------------------------------------------
(* The thread implements ApprovedExecution.                                 *)

\* An operation that reaches the service is the one that was approved.
LEMMA PerformRuns ==
  ASSUME Inv, running, node \in Exec, NEW flow, NEW s, Perform(flow, s), FlowOf(state) = flow
  PROVE  Contract!Run \/ Contract!Drop
<1>1. /\ state \in State /\ state.confirmation = state.fields /\ shown = NoOffer
      /\ grant = [flow |-> flow, draft |-> state.fields] /\ state.fields \in Draft
  BY StateFields DEF Inv, TypeOK, Offered
<1>2. Confirmed = state.fields
  BY <1>1 DEF Confirmed
<1>3. grant # NoOffer
  <2>1. flow \in Flows
    BY DEF FlowOf, Flows
  <2>2. flow # "none"
    BY <2>1 DEF Flows
  <2>3. QED
    BY <1>1, <2>2 DEF NoOffer
<1>4. /\ ran' = [flow |-> flow, draft |-> Confirmed] \/ UNCHANGED ran
      /\ grant' = NoOffer /\ UNCHANGED shown
  BY DEF Perform
<1>5. CASE ran' = [flow |-> flow, draft |-> Confirmed]
  BY <1>1, <1>2, <1>3, <1>4, <1>5 DEF Contract!Run
<1>6. CASE UNCHANGED ran
  BY <1>1, <1>4, <1>6 DEF Contract!Drop
<1>7. QED
  BY <1>4, <1>5, <1>6

\* The interrupt shows, a decision approves or drops, an operation runs what is
\* granted, a new message forgets; every other node leaves the contract alone.
LEMMA StepRefines == Inv /\ [Next]_vars => [Contract!Next]_<<shown, grant, ran>>
<1> SUFFICES ASSUME Inv, [Next]_vars
             PROVE  Contract!Next \/ UNCHANGED <<shown, grant, ran>>
  OBVIOUS
<1> USE DEF Contract!Next
<1>1. CASE Admit
  BY <1>1 DEF Admit, offerVars
<1>2. CASE Start
  BY <1>2 DEF Start, Contract!Forget
<1>3. CASE Normalize \/ Recognise \/ Classify \/ Answer \/ RetrievePolicy \/ QueryOrder
  BY <1>3 DEF Normalize, Recognise, Classify, Answer, RetrievePolicy, QueryOrder, offerVars
<1>4. CASE Supervise
  BY <1>4, SuperviseRoute DEF offerVars
<1>5. CASE DecideNeed \/ Extract \/ HandleRefund \/ HandleCancel \/ AskMissing
  BY <1>5 DEF DecideNeed, Extract, HandleRefund, HandleCancel, AskMissing, offerVars
<1>6. CASE Interrupt
  <2>1. shown' = [flow |-> FlowOf(state), draft |-> state.fields] /\ UNCHANGED <<grant, ran>>
    BY <1>6 DEF Interrupt
  <2>2. state.fields \in Draft /\ FlowOf(state) \in Flows
    BY StateFields DEF Inv, TypeOK, FlowOf, Flows
  <2>3. grant = NoOffer
    BY <1>6 DEF Interrupt, At, Inv, Offered, Exec
  <2>4. QED
    BY <2>1, <2>2, <2>3 DEF Contract!Show, Offers
<1>7. CASE CreateTicket
  <2>1. running /\ node = "create_ticket" /\ Perform("ticket", state)
    BY <1>7 DEF CreateTicket, At
  <2>2. FlowOf(state) = "ticket"
    BY <2>1 DEF Inv, Offered, Exec, FlowOf
  <2>3. QED
    BY <2>1, <2>2, PerformRuns DEF Exec
<1>8. CASE ExecuteRefund
  <2>1. running /\ node = "execute_refund_request" /\ Perform("refund", [state EXCEPT !.refund = FALSE])
    BY <1>8 DEF ExecuteRefund, At
  <2>2. FlowOf(state) = "refund"
    BY <2>1 DEF Inv, Offered, Exec
  <2>3. QED
    BY <2>1, <2>2, PerformRuns DEF Exec
<1>9. CASE ExecuteCancel
  <2>1. running /\ node = "execute_cancel_request" /\ Perform("cancel", [state EXCEPT !.cancel = FALSE])
    BY <1>9 DEF ExecuteCancel, At
  <2>2. FlowOf(state) = "cancel"
    BY <2>1 DEF Inv, Offered, Exec
  <2>3. QED
    BY <2>1, <2>2, PerformRuns DEF Exec
<1>10. CASE \E approved \in BOOLEAN : Decide(approved)
  <2>1. PICK approved \in BOOLEAN : Decide(approved)
    BY <1>10
  <2>2. /\ shown # NoOffer /\ shown' = NoOffer /\ UNCHANGED ran
        /\ grant' = IF approved THEN shown ELSE NoOffer
    BY <2>1 DEF Decide, Resumed
  <2>3. QED
    BY <2>2 DEF Contract!Approve, Contract!Drop
<1>11. CASE Correct
  <2>1. shown # NoOffer /\ shown' = NoOffer /\ UNCHANGED <<grant, ran>>
    BY <1>11 DEF Correct, Resumed
  <2>2. grant = NoOffer
    BY <2>1, Waiting
  <2>3. QED
    BY <2>1, <2>2 DEF Contract!Drop
<1>12. CASE Abandon
  BY <1>12 DEF Abandon, offerVars
<1>13. CASE Crash
  BY <1>13 DEF Crash, Contract!Drop
<1>14. CASE Expire
  BY <1>14 DEF Expire, Contract!Forget
<1>15. CASE UNCHANGED vars
  BY <1>15 DEF vars, offerVars
<1>16. QED
  BY <1>1, <1>2, <1>3, <1>4, <1>5, <1>6, <1>7, <1>8, <1>9, <1>10, <1>11, <1>12, <1>13, <1>14, <1>15
     DEF Next, Node

\* The Java service is asked for what was shown and approved, once per approval, and
\* an approval is never answered by the question again.
THEOREM ApprovedThenRun == Spec => ShownThenApprovedThenRun
<1>1. Init => Contract!Init
  BY DEF Init, Contract!Init
<1>2. QED
  BY <1>1, Invariance, StepRefines, PTL DEF Spec, ShownThenApprovedThenRun, Contract!Spec
=============================================================================
