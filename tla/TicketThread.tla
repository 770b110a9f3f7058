---------------------------- MODULE TicketThread ----------------------------
(***************************************************************************)
(* The turns of one thread of the ticket agent: a walk through the LangGraph  *)
(* state machine per message, over a state that the checkpointer carries from *)
(* turn to turn, with a stop at the confirmation of a draft.                  *)
(*                                                                         *)
(* Two graphs serve it: the single one (build_ticket_agent_graph) writes each *)
(* node's update into the thread's checkpoint, the supervised one runs the     *)
(* same nodes in worker subgraphs whose updates reach the thread's state when *)
(* the worker ends, as far as the supervisor's state has room for them.        *)
(*                                                                         *)
(* A step is one node.  The runs of the thread are one at a time here; what    *)
(* happens when they overlap is the subject of ConsoleAgent.                   *)
(***************************************************************************)
EXTENDS Naturals

CONSTANTS
  Orders, NoOrder,
  Modes,      \* settings.agent_multi_agent_enabled: which of FALSE, TRUE to look at
  MaxTurns    \* bound: messages of the thread

ASSUME OrdersAssumption == NoOrder \notin Orders
ASSUME ModesAssumption == Modes \subseteq BOOLEAN /\ MaxTurns \in Nat

Flows == {"ticket", "refund", "cancel"}
Intents == {"policy", "order", "smalltalk"} \cup Flows
Issues == {"complaint", "refund", "cancel", "policy_gap", "unknown"}
Turns == 0..MaxTurns

\* What the classifiers read in a message.
Message == [intent: Intents, issue: {"complaint", "unknown"}, order: Orders \cup {NoOrder},
            angry: BOOLEAN]

\* Ticket fields; since is the turn whose message is the description.
Draft == [issue: Issues, order: Orders \cup {NoOrder}, since: Turns]
NoDraft == [issue |-> "unknown", order |-> NoOrder, since |-> 0]

Offers == [flow: Flows, draft: Draft]
NoOffer == [flow |-> "none", draft |-> NoDraft]

NodeNames ==
  {"normalize_user_input", "emotion_recognition", "classify_intent", "supervisor_route",
   "retrieve_policy", "decide_ticket_need", "query_order", "extract_ticket_fields",
   "handle_refund_request", "handle_cancel_request", "ask_missing_ticket_fields",
   "request_ticket_confirmation", "create_ticket", "execute_refund_request",
   "execute_cancel_request", "build_direct_answer", "build_emotion_handoff_answer", "END"}

Workers == {"none", "knowledge_agent", "order_agent", "ticket_agent"}

\* TicketAgentState, as far as a route or an answer depends on it.
State == [intent: Intents, refund: BOOLEAN, cancel: BOOLEAN, needs: BOOLEAN,
          fields: Draft, missing: BOOLEAN, complete: BOOLEAN,
          approved: BOOLEAN, correction: BOOLEAN, confirmation: Draft,
          emotional: BOOLEAN, rag: {"none", "answered", "no_context"}]

NewState ==
  [intent |-> "smalltalk", refund |-> FALSE, cancel |-> FALSE, needs |-> FALSE,
   fields |-> NoDraft, missing |-> FALSE, complete |-> FALSE,
   approved |-> FALSE, correction |-> FALSE, confirmation |-> NoDraft,
   emotional |-> FALSE, rag |-> "none"]

VARIABLES
  supervised,  \* which graph
  saved,       \* the thread's checkpoint
  state,       \* the state the nodes of the run work on
  node,        \* the next node
  worker,      \* the subgraph the run is in
  running,     \* the run goes on (else it has ended, waits or was abandoned)
  message,     \* the turn's message, while the run may read it
  turn,
  admitted,    \* another message has passed its check and not yet begun
  shown,       \* the interrupt's payload
  grant,       \* history: the offer approved and not yet executed
  ran,         \* history: the last operation the Java service executed, this turn
  named,       \* history: orders the customer named since the last decision
  settled,     \* history: the turn of the last decision
  felt,        \* history: this turn's message was recognised as emotional
  asked, open, \* history: the flow asked for; a question about its draft is open
  wanted,      \* history: flows the customer asked for since the last decision
  disturbed    \* history: a run was given up, or a message came in over an offer of the
               \* supervised graph, since the last decision

runVars == <<saved, state, node, worker, running>>
offerVars == <<shown, grant, ran>>
historyVars == <<named, settled, felt, asked, open, wanted, disturbed>>
vars == <<supervised, runVars, message, turn, admitted, offerVars, historyVars>>

TypeOK ==
  /\ supervised \in Modes /\ saved \in State /\ state \in State
  /\ node \in NodeNames /\ worker \in Workers /\ running \in BOOLEAN
  /\ worker # "none" => supervised
  /\ message \in Message /\ turn \in Turns /\ admitted \in BOOLEAN
  /\ {shown, grant, ran} \subseteq Offers \cup {NoOffer}
  /\ named \subseteq Orders /\ settled \in Turns /\ felt \in BOOLEAN
  /\ asked \in Flows \cup {"none"} /\ wanted \subseteq Flows
  /\ open \in BOOLEAN /\ disturbed \in BOOLEAN

NoMessage == [intent |-> "smalltalk", issue |-> "unknown", order |-> NoOrder, angry |-> FALSE]

Init ==
  /\ supervised \in Modes /\ saved = NewState /\ state = NewState
  /\ node = "END" /\ worker = "none" /\ running = FALSE
  /\ message = NoMessage /\ turn = 0 /\ admitted = FALSE
  /\ shown = NoOffer /\ grant = NoOffer /\ ran = NoOffer
  /\ named = {} /\ settled = 0 /\ felt = FALSE
  /\ asked = "none" /\ open = FALSE /\ wanted = {} /\ disturbed = FALSE

-----------------------------------------------------------------------------
(* How a node's update becomes the state of the thread.                     *)

\* The supervisor's state has no room for the rest of the confirmation.
Kept(s) == [s EXCEPT !.complete = FALSE, !.correction = FALSE, !.confirmation = NoDraft]

\* The node writes s and the graph goes on at n, in the same subgraph.
Goto(n, s) ==
  /\ state' = s /\ node' = n
  /\ saved' = IF worker = "none" THEN s ELSE saved
  /\ UNCHANGED <<worker, running>>

\* The supervisor hands the thread's state to a worker.
Enter(w, s) ==
  /\ saved' = s /\ state' = s /\ worker' = w /\ node' = "emotion_recognition"
  /\ UNCHANGED running

Ended(s) == saved' = s /\ state' = s /\ node' = "END" /\ worker' = "none" /\ running' = FALSE

\* after_knowledge_agent; every other worker's end is the end.
Finish(s) ==
  IF worker = "knowledge_agent" /\ s.needs THEN Enter("ticket_agent", Kept(s))
  ELSE Ended(IF worker = "none" THEN s ELSE Kept(s))

At(n) == running /\ node = n

-----------------------------------------------------------------------------
(* The flows a thread can be in the middle of.                              *)

\* Fault seeded for DraftIsCurrent: a complete draft counts as being collected.
CollectingComplete(s) == s.fields # NoDraft

Collecting(s) == s.fields # NoDraft /\ s.missing
CollectingCancel(s) == s.cancel /\ Collecting(s)
CollectingRefund(s) == s.refund /\ Collecting(s)
CollectingTicket(s) == s.needs /\ Collecting(s)

\* classify_intent and supervisor_route: an open collection comes before what
\* the message says.
IntentOf(s) ==
  IF CollectingCancel(s) THEN "cancel"
  ELSE IF CollectingRefund(s) THEN "refund"
  ELSE IF CollectingTicket(s) THEN "ticket"
  ELSE message.intent

\* _has_pending_ticket_confirmation_next: a message is refused.
Pending == node = "request_ticket_confirmation" \/ worker = "ticket_agent"

-----------------------------------------------------------------------------
(* Messages.                                                               *)

\* _reject_if_confirmation_is_pending lets a message through; also while the run
\* of an earlier one goes on.
Admit ==
  /\ ~admitted /\ ~Pending /\ turn < MaxTurns
  /\ admitted' = TRUE
  /\ UNCHANGED <<supervised, runVars, message, turn, offerVars, historyVars>>

\* The flows a message asks for; a question about a policy becomes a ticket when
\* the knowledge base has no answer.
Wants(m) ==
  IF m.intent \in Flows THEN {m.intent} ELSE IF m.intent = "policy" THEN {"ticket"} ELSE {}

\* A new input starts the graph over, on the state of the thread; a subgraph
\* that was waiting at its interrupt is forgotten with what it knew.
Start ==
  /\ admitted /\ ~running /\ turn < MaxTurns
  /\ admitted' = FALSE /\ turn' = turn + 1
  /\ message' \in Message
  /\ state' = saved /\ node' = "normalize_user_input" /\ worker' = "none" /\ running' = TRUE
  /\ shown' = NoOffer /\ grant' = NoOffer /\ ran' = NoOffer
  /\ felt' = FALSE
  /\ named' = IF message'.order = NoOrder THEN named ELSE named \cup {message'.order}
  /\ asked' = IF open THEN asked
              ELSE IF message'.intent \in Flows THEN message'.intent
              ELSE IF message'.intent = "policy" THEN "ticket" ELSE "none"
  /\ wanted' = wanted \cup Wants(message')
  /\ disturbed' = (disturbed \/ (supervised /\ Pending))
  /\ UNCHANGED <<supervised, saved, settled, open>>

\* Fault seeded for HandoffIsOfThisTurn: the emotion of the last turn is kept.
NormalizeNothing ==
  /\ At("normalize_user_input")
  /\ Goto(IF supervised THEN "supervisor_route" ELSE "emotion_recognition", state)
  /\ UNCHANGED <<supervised, message, turn, admitted, offerVars, historyVars>>

Normalize ==
  /\ At("normalize_user_input")
  /\ Goto(IF supervised THEN "supervisor_route" ELSE "emotion_recognition",
          [state EXCEPT !.emotional = FALSE])
  /\ UNCHANGED <<supervised, message, turn, admitted, offerVars, historyVars>>

\* route_ticket_worker_entry.
TicketEntry(s) ==
  IF s.intent = "cancel" \/ CollectingCancel(s) THEN "handle_cancel_request"
  ELSE IF s.intent = "refund" \/ CollectingRefund(s) THEN "handle_refund_request"
  ELSE "extract_ticket_fields"

AfterEmotion(s) ==
  CASE worker = "none" -> "classify_intent"
    [] worker = "knowledge_agent" -> "retrieve_policy"
    [] worker = "order_agent" -> "query_order"
    [] worker = "ticket_agent" -> TicketEntry(s)

\* emotion_recognition, of the single graph and of each worker: a strong feeling
\* ends the turn with a hand-off.
Recognise ==
  /\ At("emotion_recognition")
  /\ LET s == [state EXCEPT !.emotional = message.angry]
     IN  IF ~message.angry THEN Goto(AfterEmotion(s), s)
         ELSE IF worker = "none" THEN Goto("build_emotion_handoff_answer", s)
         ELSE Finish(s)
  /\ felt' = (felt \/ message.angry)
  /\ UNCHANGED <<supervised, message, turn, admitted, offerVars, named, settled,
                 asked, open, wanted, disturbed>>

\* Fault seeded for TypeOK: an intent without a route of its own is taken for a node.
AnswerNodeOpen(intent) ==
  CASE intent = "policy" -> "retrieve_policy"
    [] intent = "order" -> "query_order"
    [] intent = "ticket" -> "decide_ticket_need"
    [] intent = "refund" -> "handle_refund_request"
    [] intent = "cancel" -> "handle_cancel_request"
    [] OTHER -> intent

AnswerNode(intent) ==
  CASE intent = "policy" -> "retrieve_policy"
    [] intent = "order" -> "query_order"
    [] intent = "ticket" -> "decide_ticket_need"
    [] intent = "refund" -> "handle_refund_request"
    [] intent = "cancel" -> "handle_cancel_request"
    [] OTHER -> "build_direct_answer"

Classify ==
  /\ At("classify_intent")
  /\ Goto(AnswerNode(IntentOf(state)), [state EXCEPT !.intent = IntentOf(state)])
  /\ UNCHANGED <<supervised, message, turn, admitted, offerVars, historyVars>>

\* supervisor_route_node: the new subject of a flow is marked here, before the worker.
Supervise ==
  /\ At("supervisor_route")
  /\ LET i == IntentOf(state)
         s == [state EXCEPT !.intent = i,
                            !.needs = @ \/ (i \in Flows)]
     IN  CASE i = "policy" -> Enter("knowledge_agent", s)
           [] i = "order" -> Enter("order_agent", s)
           [] i \in Flows -> Enter("ticket_agent", s)
           [] OTHER -> Goto("build_direct_answer", s)
  /\ UNCHANGED <<supervised, message, turn, admitted, offerVars, historyVars>>

-----------------------------------------------------------------------------
(* Answers that need no draft.                                             *)

Answer ==
  /\ running /\ node \in {"build_direct_answer", "build_emotion_handoff_answer"}
  /\ Finish(state)
  /\ UNCHANGED <<supervised, message, turn, admitted, offerVars, historyVars>>

RetrievePolicy ==
  /\ At("retrieve_policy")
  /\ \E found \in {"answered", "no_context"} :
       Goto("decide_ticket_need", [state EXCEPT !.rag = found])
  /\ UNCHANGED <<supervised, message, turn, admitted, offerVars, historyVars>>

\* query_order_node: its outcome, an error included, is in the answer only.
QueryOrder ==
  /\ At("query_order")
  /\ Finish(state)
  /\ UNCHANGED <<supervised, message, turn, admitted, offerVars, historyVars>>

-----------------------------------------------------------------------------
(* Collecting a draft.                                                     *)

DecideNeed ==
  /\ At("decide_ticket_need")
  /\ LET s == [state EXCEPT !.needs = state.intent = "ticket"
                                      \/ (state.intent = "policy" /\ state.rag = "no_context")]
     IN  IF s.needs /\ worker = "none" THEN Goto("extract_ticket_fields", s) ELSE Finish(s)
  /\ UNCHANGED <<supervised, message, turn, admitted, offerVars, historyVars>>

Known(order, before) == IF order # NoOrder THEN order ELSE before

\* extract_ticket_fields and merge_ticket_fields.
Extracted(s) ==
  LET issue == IF message.issue = "unknown" /\ s.rag = "no_context"
                 THEN "policy_gap" ELSE message.issue
  IN  IF CollectingTicket(s)
        THEN [issue |-> IF issue # "unknown" THEN issue ELSE s.fields.issue,
              order |-> Known(message.order, s.fields.order),
              since |-> s.fields.since]
        ELSE [issue |-> issue, order |-> message.order, since |-> turn]

\* find_missing_ticket_fields.
Incomplete(d) == d.issue = "unknown" \/ (d.issue \in {"complaint", "refund"} /\ d.order = NoOrder)

AfterFields(s) == IF s.missing THEN "ask_missing_ticket_fields" ELSE "request_ticket_confirmation"

Extract ==
  /\ At("extract_ticket_fields")
  /\ LET d == Extracted(state)
         s == [state EXCEPT !.fields = d, !.missing = Incomplete(d), !.complete = ~Incomplete(d),
                            !.refund = FALSE, !.cancel = FALSE]
     IN  Goto(AfterFields(s), s)
  /\ UNCHANGED <<supervised, message, turn, admitted, offerVars, historyVars>>

\* build_refund_ticket_fields, build_cancel_ticket_fields.
Requested(s, issue, collecting) ==
  [issue |-> issue,
   order |-> Known(message.order, IF collecting THEN s.fields.order ELSE NoOrder),
   since |-> IF collecting THEN s.fields.since ELSE turn]

\* Fault seeded for DraftIsAsAsked: the cancellation that was waiting stays active.
HandleRefundBeside ==
  /\ At("handle_refund_request")
  /\ LET d == Requested(state, "refund", CollectingRefund(state))
         s == [state EXCEPT !.fields = d, !.missing = d.order = NoOrder,
                            !.complete = d.order # NoOrder, !.needs = TRUE, !.refund = TRUE]
     IN  Goto(AfterFields(s), s)
  /\ UNCHANGED <<supervised, message, turn, admitted, offerVars, historyVars>>

HandleRefund ==
  /\ At("handle_refund_request")
  /\ LET d == Requested(state, "refund", CollectingRefund(state))
         s == [state EXCEPT !.fields = d, !.missing = d.order = NoOrder,
                            !.complete = d.order # NoOrder, !.needs = TRUE,
                            !.refund = TRUE, !.cancel = FALSE]
     IN  Goto(AfterFields(s), s)
  /\ UNCHANGED <<supervised, message, turn, admitted, offerVars, historyVars>>

HandleCancel ==
  /\ At("handle_cancel_request")
  /\ LET d == Requested(state, "cancel", CollectingCancel(state))
         s == [state EXCEPT !.fields = d, !.missing = d.order = NoOrder,
                            !.complete = d.order # NoOrder, !.needs = TRUE,
                            !.cancel = TRUE, !.refund = FALSE]
     IN  Goto(AfterFields(s), s)
  /\ UNCHANGED <<supervised, message, turn, admitted, offerVars, historyVars>>

AskMissing ==
  /\ At("ask_missing_ticket_fields")
  /\ Finish(state)
  /\ open' = TRUE
  /\ UNCHANGED <<supervised, message, turn, admitted, offerVars, named, settled,
                 felt, asked, wanted, disturbed>>

-----------------------------------------------------------------------------
(* The confirmation.                                                       *)

FlowOf(s) == IF s.cancel THEN "cancel" ELSE IF s.refund THEN "refund" ELSE "ticket"

\* request_ticket_confirmation_interrupt_node, up to its interrupt.
Interrupt ==
  /\ At("request_ticket_confirmation")
  /\ shown' = [flow |-> FlowOf(state), draft |-> state.fields]
  /\ running' = FALSE /\ message' = NoMessage
  /\ open' = FALSE
  /\ UNCHANGED <<supervised, saved, state, node, worker, turn, admitted, grant, ran,
                 named, settled, felt, asked, wanted, disturbed>>

\* route_by_ticket_confirmation.
AfterConfirmation(s) ==
  IF s.correction THEN "request_ticket_confirmation"
  ELSE IF ~s.approved THEN "END"
  ELSE CASE FlowOf(s) = "cancel" -> "execute_cancel_request"
         [] FlowOf(s) = "refund" -> "execute_refund_request"
         [] OTHER -> "create_ticket"

\* The interrupted node ends with the update s, and the graph is routed.
Resumed(s) ==
  /\ shown # NoOffer /\ ~running
  /\ shown' = NoOffer
  /\ IF AfterConfirmation(s) = "END"
       THEN Finish(s)
       ELSE /\ state' = s /\ node' = AfterConfirmation(s) /\ running' = TRUE
            /\ saved' = IF worker = "none" THEN s ELSE saved
            /\ UNCHANGED worker

Decided(approved) ==
  [state EXCEPT !.approved = approved, !.correction = FALSE, !.confirmation = state.fields,
                !.refund = @ /\ approved, !.cancel = @ /\ approved]

\* decide_ticket_confirmation on the draft the customer was shown.
Decide(approved) ==
  /\ Resumed(Decided(approved))
  /\ grant' = IF approved THEN shown ELSE NoOffer
  /\ settled' = turn /\ named' = {} /\ wanted' = {} /\ disturbed' = FALSE
  /\ UNCHANGED <<supervised, message, turn, admitted, ran, felt, asked, open>>

\* Fault seeded for ShownThenApprovedThenRun: corrected fields are not validated.
CorrectionsUnchecked == {d \in Draft : d.since = turn}

\* _validate_corrected_ticket_fields.
Corrections == {d \in Draft : ~Incomplete(d) /\ d.since = turn}

\* The part of the node that takes corrected fields; the console lets only
\* complete ones through to it.
Corrected(d) ==
  IF Incomplete(d)
    THEN [state EXCEPT !.fields = d, !.missing = TRUE, !.complete = FALSE,
                       !.correction = FALSE, !.confirmation = NoDraft]
    ELSE [state EXCEPT !.fields = d, !.missing = FALSE, !.complete = TRUE,
                       !.approved = FALSE, !.correction = TRUE, !.confirmation = NoDraft]

\* correct_ticket_confirmation.
Correct ==
  /\ \E d \in Corrections :
       /\ Resumed(Corrected(d))
       /\ named' = IF d.order = NoOrder THEN named ELSE named \cup {d.order}
  /\ UNCHANGED <<supervised, message, turn, admitted, grant, ran, settled, felt, asked, open,
                 wanted, disturbed>>

-----------------------------------------------------------------------------
(* Execution.                                                              *)

\* _get_confirmed_ticket_fields.
Confirmed == IF state.confirmation # NoDraft THEN state.confirmation ELSE state.fields

\* The Java service executes the operation, or the node answers with a failure;
\* an unapproved state or an incomplete draft never reaches it.
Perform(flow, s) ==
  /\ \/ /\ state.approved
        /\ IF flow = "ticket" THEN Confirmed.issue # "unknown" ELSE Confirmed.order # NoOrder
        /\ ran' = [flow |-> flow, draft |-> Confirmed]
     \/ UNCHANGED ran
  /\ grant' = NoOffer
  /\ Finish(s)
  /\ UNCHANGED <<supervised, message, turn, admitted, shown, historyVars>>

CreateTicket == At("create_ticket") /\ Perform("ticket", state)

ExecuteRefund ==
  At("execute_refund_request") /\ Perform("refund", [state EXCEPT !.refund = FALSE])

ExecuteCancel ==
  At("execute_cancel_request") /\ Perform("cancel", [state EXCEPT !.cancel = FALSE])

-----------------------------------------------------------------------------
(* Runs that do not get to their end.                                       *)

\* A run that a message began is given up between two nodes: a node raises, or
\* the customer leaves and the generator of stream_reply is closed.  The updates
\* of a worker are not streamed, and of its nodes only retrieve_policy raises.
Abandon ==
  /\ running /\ grant = NoOffer /\ ~(At("request_ticket_confirmation") /\ state.correction)
  /\ worker = "none" \/ node \in {"emotion_recognition", "retrieve_policy"}
  /\ running' = FALSE /\ message' = NoMessage /\ disturbed' = TRUE
  /\ UNCHANGED <<supervised, saved, state, node, worker, turn, admitted, offerVars,
                 named, settled, felt, asked, open, wanted>>

\* The process dies, and with it the messages it had let through.
Crash ==
  /\ running
  /\ running' = FALSE /\ admitted' = FALSE /\ grant' = NoOffer /\ shown' = NoOffer
  /\ message' = NoMessage /\ disturbed' = TRUE
  /\ UNCHANGED <<supervised, saved, state, node, worker, turn, ran,
                 named, settled, felt, asked, open, wanted>>

\* agent_checkpoint_ttl_minutes without a read: the thread begins anew.
Expire ==
  /\ ~running
  /\ saved' = NewState /\ state' = NewState /\ node' = "END" /\ worker' = "none"
  /\ shown' = NoOffer /\ ran' = NoOffer /\ grant' = NoOffer
  /\ felt' = FALSE /\ asked' = "none" /\ open' = FALSE /\ disturbed' = FALSE
  /\ named' = {} /\ wanted' = {} /\ message' = NoMessage
  /\ UNCHANGED <<supervised, running, turn, admitted, settled>>

Node ==
  \/ Normalize \/ Recognise \/ Classify \/ Supervise
  \/ Answer \/ RetrievePolicy \/ QueryOrder
  \/ DecideNeed \/ Extract \/ HandleRefund \/ HandleCancel \/ AskMissing
  \/ Interrupt \/ CreateTicket \/ ExecuteRefund \/ ExecuteCancel

Next ==
  \/ Admit \/ Start \/ Node
  \/ \E approved \in BOOLEAN : Decide(approved)
  \/ Correct
  \/ Abandon \/ Crash \/ Expire

Spec == Init /\ [][Next]_vars

-----------------------------------------------------------------------------
(* Properties.                                                             *)

Contract == INSTANCE ApprovedExecution

(* What the Java service is asked to do is the operation and the draft that   *)
(* the customer was shown and approved, once per approval, whatever flags,     *)
(* approvals and drafts earlier turns, corrections and abandoned runs have     *)
(* left in the thread's state; and an approval is never answered by the        *)
(* question again.                                                           *)
ShownThenApprovedThenRun == Contract!Spec

(* The draft the customer is asked about was begun after their last decision,  *)
(* and its order is one they have named since: nothing of a draft that was      *)
(* decided comes back through the fields left in the checkpoint.               *)
DraftIsCurrent ==
  shown # NoOffer =>
    /\ shown.draft.since > settled
    /\ shown.draft.order \in named \cup {NoOrder}

(* The thread's state asks for a person because of the emotion exactly in the   *)
(* turns whose message was emotional, which then never end in an offer: the    *)
(* verdict of one turn reaches neither a later turn nor, through the workers'   *)
(* states, another worker.                                                   *)
HandoffIsOfThisTurn ==
  ~running =>
    /\ node = "END" => (saved.emotional <=> felt)
    /\ shown # NoOffer => ~felt

(* The operation the customer is asked to confirm is one they have asked for   *)
(* since their last decision: a complaint after a rejected refund is never      *)
(* confirmed as a refund, nor a refund after a cancellation as a cancellation,  *)
(* although the flags of the earlier flow are in the checkpoint.  It is the one *)
(* an open question is about or else their message asks for, unless since that  *)
(* decision a run was given up, or a message came in over an offer of the       *)
(* supervised graph: then a collection left in the checkpoint may take the      *)
(* message (supervisor_route_node), and offer what they had asked for earlier.  *)
DraftIsAsAsked ==
  shown # NoOffer => /\ shown.flow \in wanted
                     /\ ~disturbed => shown.flow = asked
=============================================================================
