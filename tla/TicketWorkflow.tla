--------------------------- MODULE TicketWorkflow ---------------------------
(***************************************************************************)
(* One ticket on its way through the Python service: the plan waits for the *)
(* user's confirmation (tool_confirmation.py), and every execution of it    *)
(* (ticket_workflow_service.py) passes run_idempotent_tool (idempotency.py) *)
(* before it asks Java, whose createTicket is TicketService.  The           *)
(* confirmation's id is the Idempotency-Key of every execution.             *)
(* The confirmations and the results are in the memory of the process; the  *)
(* lock of the results is held while Java is asked.                         *)
(***************************************************************************)
EXTENDS TicketService

CONSTANTS Executions   \* the requests that are sent by executions of the plan
Others == Requests \ Executions   \* other senders of the key, such as the agent

ASSUME ExecutionsAssumption == Executions \subseteq Requests

VARIABLES
  record,    \* the confirmation: "none", "pending", "confirmed", or "lost"
  expired,   \* its time is over
  step,      \* of every execution
  lock,      \* the execution in run_idempotent_tool, or None
  result,    \* the ticket kept for the key, or None
  told       \* history: the tickets executions were answered with
workflow == <<record, expired, step, lock, result, told>>
vars == <<service, workflow>>

TypeOK ==
  /\ ServiceTypeOK
  /\ record \in {"none", "pending", "confirmed", "lost"} /\ expired \in BOOLEAN
  /\ step \in [Executions -> {"idle", "waiting", "calling", "done"}]
  /\ lock \in Executions \cup {None}
  /\ result \in Requests \cup {None}
  /\ told \subseteq Requests

Init ==
  /\ ServiceInit
  /\ record = "none" /\ expired = FALSE
  /\ step = [e \in Executions |-> "idle"]
  /\ lock = None /\ result = None /\ told = {}

Enter(e, s) == step' = [step EXCEPT ![e] = s]

\* plan_ticket: ToolConfirmationStore.create
Plan ==
  /\ record = "none" /\ record' = "pending"
  /\ UNCHANGED <<service, expired, step, lock, result, told>>

\* ToolConfirmationStore.confirm: only until the plan expires.
Confirm ==
  /\ record = "pending" /\ ~expired
  /\ record' = "confirmed"
  /\ UNCHANGED <<service, expired, step, lock, result, told>>

TimePasses ==
  /\ record \in {"pending", "confirmed"} /\ ~expired /\ expired' = TRUE
  /\ UNCHANGED <<service, record, step, lock, result, told>>

\* execute_confirmed_ticket: require_confirmed
RequireConfirmed(e) ==
  /\ step[e] = "idle" /\ record = "confirmed" /\ ~expired
  /\ Enter(e, "waiting")
  /\ UNCHANGED <<service, record, expired, lock, result, told>>

\* run_idempotent_tool, a result is kept: it is answered again.
Replay(e) ==
  /\ step[e] = "waiting" /\ lock = None /\ result # None
  /\ told' = told \cup {result}
  /\ Enter(e, "done")
  /\ UNCHANGED <<service, record, expired, lock, result>>

\* run_idempotent_tool, no result: the lock is kept while Java is asked.
Call(e) ==
  /\ step[e] = "waiting" /\ lock = None /\ result = None
  /\ lock' = e /\ Enter(e, "calling")
  /\ Begin(e)
  /\ UNCHANGED <<record, expired, result, told>>

\* Fault seeded for ToldTrue: the client names the ticket before Java commits.
AnsweredEarly(e) ==
  /\ step[e] = "calling" /\ pc[e] \in {"commit", "done"}
  /\ result' = e /\ told' = told \cup {e}
  /\ lock' = None /\ Enter(e, "done")
  /\ UNCHANGED <<service, record, expired>>

\* Fault seeded for TypeOK: an error is kept like a ticket.
AnsweredUnchecked(e) ==
  /\ step[e] = "calling" /\ pc[e] = "done"
  /\ result' = answer[e].ticket /\ told' = told \cup {answer[e].ticket}
  /\ lock' = None /\ Enter(e, "done")
  /\ UNCHANGED <<service, record, expired>>

\* Java has answered within the timeout of the client.
Answered(e) ==
  /\ step[e] = "calling" /\ pc[e] = "done"
  /\ IF answer[e].kind = "ok"
       THEN result' = answer[e].ticket /\ told' = told \cup {answer[e].ticket}
       ELSE UNCHANGED <<result, told>>
  /\ lock' = None /\ Enter(e, "done")
  /\ UNCHANGED <<service, record, expired>>

\* Fault seeded for EveryExecutionEnds: the error leaves the lock taken.
TimeoutHolding(e) ==
  /\ step[e] = "calling" /\ Enter(e, "done")
  /\ UNCHANGED <<service, record, expired, lock, result, told>>

\* The client gives up, or the connection breaks; the transaction in Java goes on.
Timeout(e) ==
  /\ step[e] = "calling"
  /\ lock' = None /\ Enter(e, "done")
  /\ UNCHANGED <<service, record, expired, result, told>>

\* The process restarts: confirmations, results and running executions are gone.
Restart ==
  /\ record # "lost" /\ record' = "lost"
  /\ lock' = None /\ result' = None
  /\ step' = [e \in Executions |-> IF step[e] = "idle" THEN "idle" ELSE "done"]
  /\ UNCHANGED <<service, expired, told>>

ExecutionStep(e) == Replay(e) \/ Call(e) \/ Answered(e) \/ Timeout(e)

JavaStep ==
  /\ \/ Expire
     \/ \E r \in Others : Begin(r)
     \/ \E r \in Requests : RequestStep(r)
  /\ UNCHANGED workflow

Next ==
  \/ Plan \/ Confirm \/ TimePasses \/ Restart
  \/ \E e \in Executions : RequireConfirmed(e) \/ ExecutionStep(e)
  \/ JavaStep

\* Threads run, and the client's timeout ends a call that Java does not answer.
Fairness == \A e \in Executions : WF_vars(ExecutionStep(e))

Spec == Init /\ [][Next]_vars /\ Fairness

-----------------------------------------------------------------------------
\* Whatever the lock, the kept result, a timeout, a retry or a restart lead to,
\* all executions that were answered were answered with one ticket, and Java has it.
ToldTrue == (told \cup {result}) \ {None} \subseteq {ticket}

\* An execution is never stuck behind the call of another one.
EveryExecutionEnds == \A e \in Executions : step[e] = "waiting" ~> step[e] = "done"
=============================================================================
