----------------------------- MODULE TicketDesk -----------------------------
(***************************************************************************)
(* One ticket on the workbench (TicketQueryServiceImpl): staff claim it,    *)
(* assign it, set its status and resolve it, its customer replies and       *)
(* reopens it.  Every operation is a REPEATABLE READ transaction that reads *)
(* the ticket with its assignment, checks what it read, and then updates    *)
(* without naming it again.                                                 *)
(***************************************************************************)
EXTENDS Naturals, FiniteSets

CONSTANTS
  Calls,      \* the calls of the workbench
  Op,         \* Calls -> the operation, see Operations
  Staff, Managers,
  Nobody      \* no assignee

ASSUME ManagersAssumption == Managers \subseteq Staff /\ Nobody \notin Staff

Statuses == {"created", "in_progress", "waiting_user", "resolved", "closed"}

\* ALLOWED_TRANSITIONS
AllowedTransitions(from) ==
  CASE from = "created" -> {"in_progress", "waiting_user"}
    [] from = "in_progress" -> {"waiting_user", "resolved"}
    [] from = "waiting_user" -> {"in_progress", "resolved"}
    [] from = "resolved" -> {"closed"}
    [] from = "closed" -> {}

Operations ==
  [kind : {"claim"}, by : Staff, to : {Nobody}]
    \cup [kind : {"assign"}, by : Staff, to : Staff]
    \cup [kind : {"status"}, by : Staff, to : Statuses]
    \cup [kind : {"resolve"}, by : Staff, to : {"resolved"}]
    \cup [kind : {"reopen", "reply"}, by : {Nobody}, to : {"in_progress"}]

ASSUME OpAssumption == Op \in [Calls -> Operations]

VARIABLES
  status,     \* tickets.ticket_status
  assignee,   \* ticket_assignments.assignee_user_id; Nobody: there is no row
  step,       \* of every call: "read", "write", "insert", "ok", "refused"
  seen,       \* of every call: the status and the assignee of its snapshot
  overtaken,  \* history: calls behind whose back the ticket was written
  inserts     \* history: the calls that inserted an assignment row
vars == <<status, assignee, step, seen, overtaken, inserts>>

Unread == [status |-> "created", assignee |-> Nobody]

TypeOK ==
  /\ status \in Statuses
  /\ assignee \in Staff \cup {Nobody}
  /\ step \in [Calls -> {"read", "write", "insert", "ok", "refused"}]
  /\ seen \in [Calls -> [status : Statuses, assignee : Staff \cup {Nobody}]]
  /\ overtaken \subseteq Calls /\ inserts \subseteq Calls
  /\ inserts # {} => assignee # Nobody

Init ==
  /\ status \in Statuses
  /\ assignee \in Staff \cup {Nobody}
  /\ step = [c \in Calls |-> "read"]
  /\ seen = [c \in Calls |-> Unread]
  /\ overtaken = {} /\ inserts = {}

Assigning(c) == Op[c].kind \in {"claim", "assign"}

\* Fault seeded for TypeOK: a claim takes the assignee from the request, which names none.
AssigneeNamed(c) == Op[c].to

Assignee(c) == IF Op[c].kind = "claim" THEN Op[c].by ELSE Op[c].to

\* Fault seeded for LawfulUnlessOvertaken: resolveTicket without validateTransition.
PermittedUnvalidated(c, s, a) ==
  LET op == Op[c]
  IN  \/ op.kind = "claim" /\ a = Nobody
      \/ op.kind = "assign" /\ \/ op.by \in Managers
                               \/ op.by = a
                               \/ a = Nobody /\ op.to = op.by
      \/ op.kind = "status" /\ op.to \in AllowedTransitions(s)
      \/ op.kind = "resolve"
      \/ op.kind = "reopen" /\ s = "resolved"
      \/ op.kind = "reply" /\ s \in {"created", "in_progress", "waiting_user"}

\* What each operation asks of the ticket it has read: a claim that nobody has
\* it; requireAssignmentPermission; validateTransition; a customer reopens a
\* resolved ticket and replies to one that is not resolved yet.
Permitted(c, s, a) ==
  LET op == Op[c]
  IN  \/ op.kind = "claim" /\ a = Nobody
      \/ op.kind = "assign" /\ \/ op.by \in Managers
                               \/ op.by = a
                               \/ a = Nobody /\ op.to = op.by
      \/ op.kind \in {"status", "resolve"} /\ op.to \in AllowedTransitions(s)
      \/ op.kind = "reopen" /\ s = "resolved"
      \/ op.kind = "reply" /\ s \in {"created", "in_progress", "waiting_user"}

Read(c) ==
  /\ step[c] = "read"
  /\ seen' = [seen EXCEPT ![c] = [status |-> status, assignee |-> assignee]]
  /\ step' = [step EXCEPT ![c] = IF Permitted(c, status, assignee) THEN "write" ELSE "refused"]
  /\ UNCHANGED <<status, assignee, overtaken, inserts>>

\* The write of c is committed; whoever has read and not yet written is behind.
Written(c) ==
  /\ step' = [step EXCEPT ![c] = "ok"]
  /\ overtaken' = overtaken \cup {d \in Calls \ {c} : step[d] \in {"write", "insert"}}

\* updateTicketStatus, with no status in its WHERE.  A reply to a ticket that was
\* not seen waiting for the customer only touches updated_at.
WriteStatus(c) ==
  /\ step[c] = "write" /\ ~Assigning(c)
  /\ status' = IF Op[c].kind = "reply" /\ seen[c].status # "waiting_user"
                 THEN status ELSE Op[c].to
  /\ Written(c)
  /\ UNCHANGED <<assignee, seen, inserts>>

\* updateTicketAssignment finds a row, whoever put it there.
UpdateAssignment(c) ==
  /\ step[c] = "write" /\ Assigning(c) /\ assignee # Nobody
  /\ assignee' = Assignee(c)
  /\ Written(c)
  /\ UNCHANGED <<status, seen, inserts>>

\* ... or none, and locks the gap, which others may lock as well.
MissAssignment(c) ==
  /\ step[c] = "write" /\ Assigning(c) /\ assignee = Nobody
  /\ step' = [step EXCEPT ![c] = "insert"]
  /\ UNCHANGED <<status, assignee, seen, overtaken, inserts>>

InGap == {c \in Calls : step[c] = "insert"}

\* Fault seeded for OneRow: the gap is not locked and the key is not unique.
InsertUnlocked(c) ==
  /\ step[c] = "insert"
  /\ assignee' = Assignee(c)
  /\ inserts' = inserts \cup {c}
  /\ Written(c)
  /\ UNCHANGED <<status, seen>>

\* insertTicketAssignment waits while another transaction has the gap locked.
InsertAssignment(c) ==
  /\ InGap = {c}
  /\ assignee' = Assignee(c)
  /\ inserts' = inserts \cup {c}
  /\ Written(c)
  /\ UNCHANGED <<status, seen>>

\* Fault seeded for EveryCallAnswered: a deadlock is left to itself.
DeadlockUnseen(c) ==
  /\ Cardinality(InGap) > Cardinality(Calls) /\ c \in InGap
  /\ step' = [step EXCEPT ![c] = "refused"]
  /\ UNCHANGED <<status, assignee, seen, overtaken, inserts>>

\* Two inserts wait for each other's gap: InnoDB rolls one of them back.
Deadlock(c) ==
  /\ Cardinality(InGap) > 1 /\ c \in InGap
  /\ step' = [step EXCEPT ![c] = "refused"]
  /\ UNCHANGED <<status, assignee, seen, overtaken, inserts>>

CallStep(c) ==
  \/ Read(c) \/ WriteStatus(c) \/ UpdateAssignment(c)
  \/ MissAssignment(c) \/ InsertAssignment(c) \/ Deadlock(c)

Next == \E c \in Calls : CallStep(c)

\* A transaction that can go on does: it waits for locks only, never for a person.
Spec == Init /\ [][Next]_vars /\ \A c \in Calls : WF_vars(CallStep(c))

-----------------------------------------------------------------------------
\* A ticket leaves the table of transitions, or changes hands by someone not
\* entitled to it, only through a call that was overtaken between its check and
\* its update; a call that was not overtaken does what its check promised.
LawfulUnlessOvertaken ==
  [][\A c \in Calls \ overtaken :
       step[c] # "ok" /\ step'[c] = "ok" =>
         /\ status' # status =>
              \/ status' \in AllowedTransitions(status)
              \/ Op[c].kind = "reopen" /\ status = "resolved"
         /\ assignee' # assignee =>
              \/ Op[c].by \in Managers \cup {assignee}
              \/ assignee = Nobody /\ Op[c].by = assignee']_vars

\* Calls that both find a ticket without an assignment never both insert one.
OneRow == Cardinality(inserts) <= 1

\* However the calls meet, each is answered.
EveryCallAnswered == \A c \in Calls : <>(step[c] \in {"ok", "refused"})
=============================================================================
