---------------------------- MODULE ConsoleAgent ----------------------------
(***************************************************************************)
(* One conversation of the console agent (ConsoleAgentService): the calls   *)
(* of the customer (messages, a decision on or a correction of the ticket   *)
(* draft, "get me a person"), the replies of the staff, and the hand-off    *)
(* queue of the Java service that decides whether the AI answers at all.     *)
(*                                                                         *)
(* The endpoints are synchronous functions run by a thread pool; nothing     *)
(* serialises the calls of one conversation.  What they share are the        *)
(* LangGraph checkpoint of the thread, the store of confirmed tool calls of   *)
(* the MCP server and the queue.  A step is one access to one of the three.   *)
(***************************************************************************)
EXTENDS Naturals, FiniteSets

CONSTANTS
  Requests,       \* the calls of the conversation
  Asks,           \* the endpoints they call, out of Kinds
  Drafts,         \* ticket drafts (their fields, and so their confirmation_id)
  NoDraft,
  Staff, Supervisors, Nobody,
  McpTools,       \* settings.agent_mcp_tools_enabled
  LookupMayFail   \* the Java service may fail to answer get_active_handoff

Kinds == {"reply", "stream", "handoff", "decide", "correct", "human"}

ASSUME RequestsAssumption == IsFiniteSet(Requests)
ASSUME StaffAssumption == Supervisors \subseteq Staff /\ Nobody \notin Staff
ASSUME DraftsAssumption == NoDraft \notin Drafts
ASSUME ModesAssumption == McpTools \in BOOLEAN /\ LookupMayFail \in BOOLEAN
ASSUME AsksAssumption == Asks \subseteq Kinds

Messages == {"reply", "stream"}

Job == [kind: Kinds, draft: Drafts \cup {NoDraft}, to: Drafts \cup {NoDraft},
        approve: BOOLEAN, by: Staff \cup {Nobody}]

NoJob == [kind |-> "reply", draft |-> NoDraft, to |-> NoDraft, approve |-> FALSE, by |-> Nobody]

\* What a call carries: a decision names the draft it is about, a correction
\* also the new fields; a reply of the staff, its author.
Jobs ==
  {j \in Job :
     /\ j.kind \in Asks
     /\ j.draft # NoDraft <=> j.kind \in {"decide", "correct"}
     /\ j.to # NoDraft <=> j.kind = "correct"
     /\ j.approve => j.kind = "decide"
     /\ j.by # Nobody <=> j.kind = "human"}

VARIABLES
  rows, clock, creating, stamp, moving, claimed, owners,  \* HumanHandoff
  pending,      \* checkpoint: the draft its interrupt waits on, or NoDraft
  orderFailed,  \* checkpoint: the last order query failed and wants human support
  emotional,    \* checkpoint: emotion_handoff_requested
  confirmed,    \* drafts registered as confirmed with the MCP server
  executed,     \* drafts the Java service was asked to execute
  replies,      \* replies of the staff in the conversation store
  pc, job,      \* the calls: where each is, what it asks
  held,         \* what a call has read: a row, or the checkpoint it resumed
  out,          \* what a call was answered
  escalated,    \* calls whose answer asks the queue for a hand-off
  approved,     \* history: drafts whose approval was accepted
  within,       \* history: messages received in a take-over that still lasts
  blind,        \* history: messages whose lookup failed in a take-over
  shadowed      \* history: messages that were shown a pending row in a take-over

queueVars == <<rows, clock, creating, stamp, moving, claimed, owners>>
threadVars == <<pending, orderFailed, emotional>>
toolVars == <<confirmed, executed, approved>>
callVars == <<pc, job, held, out>>
sightVars == <<within, blind, shadowed>>
vars == <<queueVars, threadVars, toolVars, callVars, sightVars, replies, escalated>>

Queue == INSTANCE HumanHandoff WITH Creators <- Requests

Steps == {"idle", "pending", "lookup", "eligible", "run", "running", "decide", "correct",
          "register", "resume", "resuming", "execute", "append", "done"}

Outs == {"none", "refused", "takeover", "ai", "draft", "error", "done", "failed", "human"}

TypeOK ==
  /\ Queue!TypeOK
  /\ pending \in Drafts \cup {NoDraft} /\ orderFailed \in BOOLEAN /\ emotional \in BOOLEAN
  /\ confirmed \subseteq Drafts /\ executed \subseteq Drafts /\ approved \subseteq Drafts
  /\ replies \subseteq [row: Queue!Stamps, by: Staff]
  /\ pc \in [Requests -> Steps] /\ job \in [Requests -> Job] /\ out \in [Requests -> Outs]
  /\ held \in [Requests -> [row: {0} \cup Queue!Stamps, draft: Drafts \cup {NoDraft}, failed: BOOLEAN]]
  /\ escalated \subseteq Requests
  /\ within \subseteq Requests /\ blind \subseteq Requests /\ shadowed \subseteq Requests

Nothing == [row |-> 0, draft |-> NoDraft, failed |-> FALSE]

Init ==
  /\ Queue!Init
  /\ pending = NoDraft /\ orderFailed = FALSE /\ emotional = FALSE
  /\ confirmed = {} /\ executed = {} /\ approved = {} /\ replies = {} /\ escalated = {}
  /\ pc = [q \in Requests |-> "idle"] /\ job = [q \in Requests |-> NoJob]
  /\ held = [q \in Requests |-> Nothing] /\ out = [q \in Requests |-> "none"]
  /\ within = {} /\ blind = {} /\ shadowed = {}

-----------------------------------------------------------------------------
Goto(q, step) == pc' = [pc EXCEPT ![q] = step] /\ UNCHANGED out

Answered(q, answer) ==
  pc' = [pc EXCEPT ![q] = "done"] /\ out' = [out EXCEPT ![q] = answer]

\* _to_response and _record_exchange: an answer given in a state that wants a
\* person carries a hand-off, and is sent to the queue.
AnsweredBy(q, answer) ==
  /\ Answered(q, answer)
  /\ escalated' = IF orderFailed' \/ emotional' THEN escalated \cup {q} ELSE escalated

\* Fault seeded for YieldsDuringTakeover: stream_reply starts where reply does.
FirstAlike(kind) ==
  CASE kind \in Messages \cup {"handoff"} -> "pending"
    [] kind = "human" -> "lookup"
    [] OTHER -> kind

First(kind) ==
  CASE kind \in {"reply", "handoff"} -> "pending"
    [] kind \in {"stream", "human"} -> "lookup"
    [] OTHER -> kind

\* reply asks the checkpoint and then the queue, stream_reply the other way round.
AfterPending(kind) ==
  CASE kind = "reply" -> "lookup" [] kind = "stream" -> "run" [] OTHER -> "eligible"

AfterLookup(kind) == IF kind = "stream" THEN "pending" ELSE "run"

Receive(q) ==
  /\ pc[q] = "idle"
  /\ \E j \in Jobs :
       /\ job' = [job EXCEPT ![q] = j]
       /\ Goto(q, First(j.kind))
  /\ within' = IF Queue!TakenOver /\ job'[q].kind \in Messages THEN within \cup {q} ELSE within
  /\ UNCHANGED <<queueVars, threadVars, toolVars, held, blind, shadowed, replies, escalated>>

-----------------------------------------------------------------------------
(* Messages: the two checks, then a run of the graph.                      *)

\* _reject_if_confirmation_is_pending: TICKET_CONFIRMATION_PENDING.
CheckPending(q) ==
  /\ pc[q] = "pending"
  /\ IF pending # NoDraft THEN Answered(q, "refused") ELSE Goto(q, AfterPending(job[q].kind))
  /\ UNCHANGED <<queueVars, threadVars, toolVars, job, held, sightVars, replies, escalated>>

\* request_human_handoff: HUMAN_HANDOFF_NOT_AVAILABLE unless the state asks for one.
CheckEligible(q) ==
  /\ pc[q] = "eligible"
  /\ IF orderFailed THEN Goto(q, "run") ELSE Answered(q, "refused")
  /\ UNCHANGED <<queueVars, threadVars, toolVars, job, held, sightVars, replies, escalated>>

\* The row get_active_handoff answers with is in progress.
InHand == Queue!Newest # 0 /\ rows[Queue!Newest].status = "in_progress"

\* _active_human_handoff of a message: only a newest row in progress silences the AI.
Lookup(q) ==
  /\ pc[q] = "lookup" /\ job[q].kind \in Messages
  /\ \/ /\ InHand
        /\ Answered(q, "takeover")
        /\ UNCHANGED <<blind, shadowed>>
     \/ /\ ~InHand
        /\ Goto(q, AfterLookup(job[q].kind))
        /\ shadowed' = IF Queue!TakenOver THEN shadowed \cup {q} ELSE shadowed
        /\ UNCHANGED blind
     \/ /\ LookupMayFail
        /\ Goto(q, AfterLookup(job[q].kind))
        /\ blind' = IF Queue!TakenOver THEN blind \cup {q} ELSE blind
        /\ UNCHANGED shadowed
  /\ UNCHANGED <<queueVars, threadVars, toolVars, job, held, within, replies, escalated>>

\* graph.invoke / graph.stream with a new input: the thread starts over at the
\* entry node, an interrupt that was waiting is gone, and so is the emotion.
RunBegin(q) ==
  /\ pc[q] = "run"
  /\ pending' = NoDraft /\ emotional' = FALSE
  /\ Goto(q, "running")
  /\ UNCHANGED <<queueVars, orderFailed, toolVars, job, held, sightVars, replies, escalated>>

\* The run ends at an answer, at the confirmation interrupt or at an exception.
RunEnd(q) ==
  /\ pc[q] = "running"
  /\ \/ /\ pending' = NoDraft /\ orderFailed' \in BOOLEAN /\ emotional' \in BOOLEAN
        /\ AnsweredBy(q, "ai")
     \/ /\ pending' \in Drafts /\ orderFailed' \in BOOLEAN /\ emotional' = FALSE
        /\ Answered(q, "draft")
        /\ UNCHANGED escalated
     \/ /\ Answered(q, "error")
        /\ UNCHANGED <<threadVars, escalated>>
  /\ UNCHANGED <<queueVars, toolVars, job, held, sightVars, replies>>

-----------------------------------------------------------------------------
(* Decisions and corrections: a look at the checkpoint, then its resumption. *)

\* decide_ticket_confirmation and correct_ticket_confirmation: the draft the
\* caller names must be the one the interrupt waits on.
Recognise(q) ==
  /\ pc[q] \in {"decide", "correct"}
  /\ IF pending # job[q].draft
       THEN Answered(q, "refused") /\ UNCHANGED approved
       ELSE /\ Goto(q, IF job[q].approve /\ McpTools THEN "register" ELSE "resume")
            /\ approved' = IF job[q].approve THEN approved \cup {job[q].draft} ELSE approved
  /\ UNCHANGED <<queueVars, threadVars, confirmed, executed, job, held, sightVars, replies, escalated>>

\* register_ticket_confirmation, in the store the MCP server reads.
Register(q) ==
  /\ pc[q] = "register"
  /\ confirmed' = confirmed \cup {job[q].draft}
  /\ Goto(q, "resume")
  /\ UNCHANGED <<queueVars, threadVars, executed, approved, job, held, sightVars, replies, escalated>>

\* graph.invoke(Command(resume)): the interrupted node starts again on the
\* checkpoint as it is now.  With no interrupt there is nothing to resume.
ResumeBegin(q) ==
  /\ pc[q] = "resume"
  /\ UNCHANGED threadVars
  /\ IF pending = NoDraft
       THEN AnsweredBy(q, "ai") /\ UNCHANGED held
       ELSE /\ Goto(q, "resuming") /\ UNCHANGED escalated
            /\ held' = [held EXCEPT ![q] = [row |-> 0, draft |-> pending, failed |-> orderFailed]]
  /\ UNCHANGED <<queueVars, toolVars, job, sightVars, replies>>

\* The run writes its own state over the checkpoint, with this draft pending.
Saved(q, draft) == pending' = draft /\ orderFailed' = held[q].failed /\ emotional' = FALSE

\* request_ticket_confirmation: a correction interrupts again with its own
\* fields, a rejection ends the run, an approval goes on to the execution.
ResumeEnd(q) ==
  /\ pc[q] = "resuming"
  /\ Saved(q, job[q].to)
  /\ \/ job[q].approve /\ Goto(q, "execute") /\ UNCHANGED escalated
     \/ job[q].kind = "correct" /\ Answered(q, "draft") /\ UNCHANGED escalated
     \/ job[q].kind = "decide" /\ ~job[q].approve /\ AnsweredBy(q, "ai")
  /\ UNCHANGED <<queueVars, toolVars, job, held, sightVars, replies>>

\* Fault seeded for NothingUnapproved: the MCP server does not look the confirmation up.
ExecuteUnasked(q) ==
  /\ pc[q] = "execute"
  /\ Saved(q, NoDraft)
  /\ \/ executed' = executed \cup {held[q].draft} /\ AnsweredBy(q, "done")
     \/ UNCHANGED executed /\ AnsweredBy(q, "failed")
  /\ UNCHANGED <<queueVars, confirmed, approved, job, held, sightVars, replies>>

\* create_ticket, execute_refund_request, execute_cancel_request: the draft the
\* run resumed from is executed; the MCP server only does so for a confirmed one.
Execute(q) ==
  /\ pc[q] = "execute"
  /\ Saved(q, NoDraft)
  /\ \/ /\ McpTools => held[q].draft \in confirmed
        /\ executed' = executed \cup {held[q].draft}
        /\ AnsweredBy(q, "done")
     \/ UNCHANGED executed /\ AnsweredBy(q, "failed")
  /\ UNCHANGED <<queueVars, confirmed, approved, job, held, sightVars, replies>>

\* A confirmation outlives tool_confirmation_ttl_seconds.
Expire(d) ==
  /\ d \in confirmed
  /\ confirmed' = confirmed \ {d}
  /\ UNCHANGED <<queueVars, threadVars, executed, approved, callVars, sightVars, replies, escalated>>

-----------------------------------------------------------------------------
(* Replies of the staff.                                                   *)

\* Fault seeded for RepliesFromHolder: the assignment of the row is not looked at.
LookupAnyone(q) ==
  /\ pc[q] = "lookup" /\ job[q].kind = "human"
  /\ IF InHand
       THEN Goto(q, "append") /\ held' = [held EXCEPT ![q].row = Queue!Newest]
       ELSE Answered(q, "refused") /\ UNCHANGED held
  /\ UNCHANGED <<queueVars, threadVars, toolVars, job, sightVars, replies, escalated>>

\* Fault seeded for TypeOK: the row that was read is not kept for the reply.
LookupForgotten(q) ==
  /\ pc[q] = "lookup" /\ job[q].kind = "human"
  /\ IF InHand /\ (rows[Queue!Newest].agent \in {Nobody, job[q].by} \/ job[q].by \in Supervisors)
       THEN Goto(q, "append")
       ELSE Answered(q, "refused")
  /\ UNCHANGED <<queueVars, threadVars, toolVars, job, held, sightVars, replies, escalated>>

\* human_reply: HANDOFF_NOT_ACTIVE, HANDOFF_NOT_ASSIGNED, or on to the store.
LookupAssigned(q) ==
  /\ pc[q] = "lookup" /\ job[q].kind = "human"
  /\ IF InHand /\ (rows[Queue!Newest].agent \in {Nobody, job[q].by} \/ job[q].by \in Supervisors)
       THEN Goto(q, "append") /\ held' = [held EXCEPT ![q].row = Queue!Newest]
       ELSE Answered(q, "refused") /\ UNCHANGED held
  /\ UNCHANGED <<queueVars, threadVars, toolVars, job, sightVars, replies, escalated>>

\* append_human_reply.
Append(q) ==
  /\ pc[q] = "append"
  /\ replies' = replies \cup {[row |-> held[q].row, by |-> job[q].by]}
  /\ held' = [held EXCEPT ![q] = Nothing]
  /\ Answered(q, "human")
  /\ UNCHANGED <<queueVars, threadVars, toolVars, job, sightVars, escalated>>

-----------------------------------------------------------------------------
\* create_handoff and the workbench.  The call may be lost, or cut off by
\* its timeout while Java goes on: it keeps step with nothing.
QueueMoves ==
  /\ \/ \E q \in escalated : Queue!Create(q)
     \/ \E s \in Staff : Queue!Work(s)
  /\ within' = IF Queue!TakenOver' THEN within ELSE {}
  /\ UNCHANGED <<threadVars, toolVars, callVars, blind, shadowed, replies, escalated>>

Call(q) ==
  \/ Receive(q) \/ CheckPending(q) \/ CheckEligible(q) \/ Lookup(q) \/ RunBegin(q) \/ RunEnd(q)
  \/ Recognise(q) \/ Register(q) \/ ResumeBegin(q) \/ ResumeEnd(q) \/ Execute(q)
  \/ LookupAssigned(q) \/ Append(q)

\* Every call has been answered; the queue may wait for the staff.
Idle == (\A q \in Requests : pc[q] = "done") /\ UNCHANGED vars

Next ==
  \/ \E q \in Requests : Call(q)
  \/ QueueMoves
  \/ \E d \in Drafts : Expire(d)
  \/ Idle

Spec == Init /\ [][Next]_vars

-----------------------------------------------------------------------------
(* Properties. *)

\* NothingUnapproved: Java executes only drafts whose approval was accepted
\* (README.md:99: "the user approves, and only then it is stored"), although a
\* correction may replace the draft between the check of a decision and the
\* resumption of the graph.
NothingUnapproved == executed \subseteq approved

\* YieldsDuringTakeover: the AI answers a message received while a person is at
\* work on the conversation only when Java did not answer the lookup, or showed
\* it a newer row that is still pending.
YieldsDuringTakeover ==
  \A q \in within : out[q] \in {"ai", "draft"} => q \in blind \cup shadowed

\* AiYields: it never does (README.md:276: "while a hand-off is in progress the
\* AI yields").
AiYields == \A q \in within : out[q] \notin {"ai", "draft"}

\* RepliesFromHolder: a reply of the staff reaches the customer's conversation only
\* from a supervisor or from somebody the hand-off was assigned to at some time.
RepliesFromHolder == \A r \in replies : r.by \in owners[r.row] \cup Supervisors
=============================================================================
