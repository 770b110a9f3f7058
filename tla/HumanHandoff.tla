---------------------------- MODULE HumanHandoff ----------------------------
(***************************************************************************)
(* The hand-off queue of the Java business service (table                  *)
(* ai_human_handoffs), seen from one conversation: the AI service asks for  *)
(* a hand-off (InternalHumanHandoffController), the staff of the workbench   *)
(* claim, transfer and close it (HumanHandoffController).                    *)
(*                                                                         *)
(* None of the handlers runs in a transaction: creating is a SELECT and an   *)
(* INSERT, transferring a SELECT and an UPDATE, and other requests run in    *)
(* between.  A request that is refused (HANDOFF_STATE_CONFLICT,              *)
(* HANDOFF_NOT_ASSIGNED, INVALID_REQUEST_PARAM) changes nothing and is the   *)
(* absence of a step here.                                                   *)
(***************************************************************************)
EXTENDS Naturals, FiniteSets

CONSTANTS
  Creators,     \* the calls of POST /internal/ai-human-handoffs
  Staff,        \* users of the workbench
  Supervisors,  \* those with the role "supervisor"
  Nobody        \* assigned_agent IS NULL

ASSUME StaffAssumption == Supervisors \subseteq Staff /\ Nobody \notin Staff
ASSUME CreatorsAssumption == IsFiniteSet(Creators)

\* A row is known by its created_at: the instant its creator read the clock.
Stamps == 1 .. Cardinality(Creators)

Row == [status: {"none", "pending", "in_progress", "closed"}, agent: Staff \cup {Nobody}]

Missing == [status |-> "none", agent |-> Nobody]

VARIABLES
  rows,      \* created_at -> row
  clock,     \* the last created_at handed out
  creating,  \* creator -> "idle", "insert" or "done"
  stamp,     \* creator -> the created_at of the row it is to insert, 0 before
  moving,    \* staff -> the transfer it has checked and not yet written
  claimed,   \* history: row -> those whose claim was answered OK
  owners     \* history: row -> everyone it was ever assigned to

vars == <<rows, clock, creating, stamp, moving, claimed, owners>>

\* No transfer under way.
Still == [row |-> 0, to |-> Nobody]

TypeOK ==
  /\ rows \in [Stamps -> Row]
  /\ clock \in 0 .. Cardinality(Creators)
  /\ creating \in [Creators -> {"idle", "insert", "done"}]
  /\ stamp \in [Creators -> {0} \cup Stamps]
  /\ moving \in [Staff -> [row: {0} \cup Stamps, to: Staff \cup {Nobody}]]
  /\ claimed \in [Stamps -> SUBSET Staff]
  /\ owners \in [Stamps -> SUBSET Staff]

Init ==
  /\ rows = [i \in Stamps |-> Missing]
  /\ clock = 0
  /\ creating = [q \in Creators |-> "idle"]
  /\ stamp = [q \in Creators |-> 0]
  /\ moving = [s \in Staff |-> Still]
  /\ claimed = [i \in Stamps |-> {}]
  /\ owners = [i \in Stamps |-> {}]

-----------------------------------------------------------------------------
Active == {i \in Stamps : rows[i].status \in {"pending", "in_progress"}}

\* findActiveByConversation: the newest row that is not closed, 0 for null.
Newest == IF Active = {} THEN 0 ELSE CHOOSE i \in Active : \A j \in Active : j <= i

\* A row somebody is working on.
TakenOver == \E i \in Stamps : rows[i].status = "in_progress"

Assign(i, status, agent) ==
  /\ rows' = [rows EXCEPT ![i] = [status |-> status, agent |-> agent]]
  /\ owners' = [owners EXCEPT ![i] = @ \cup {agent}]

-----------------------------------------------------------------------------
\* Fault seeded for TypeOK: an answered create is sent again.
CreateCheckRetried(q) ==
  /\ creating[q] # "insert"
  /\ IF Newest = 0
       THEN /\ clock' = clock + 1
            /\ stamp' = [stamp EXCEPT ![q] = clock + 1]
            /\ creating' = [creating EXCEPT ![q] = "insert"]
       ELSE /\ creating' = [creating EXCEPT ![q] = "done"]
            /\ UNCHANGED <<clock, stamp>>
  /\ UNCHANGED <<rows, moving, claimed, owners>>

\* create: the SELECT; with an active row there is nothing to insert.
CreateCheck(q) ==
  /\ creating[q] = "idle"
  /\ IF Newest = 0
       THEN /\ clock' = clock + 1
            /\ stamp' = [stamp EXCEPT ![q] = clock + 1]
            /\ creating' = [creating EXCEPT ![q] = "insert"]
       ELSE /\ creating' = [creating EXCEPT ![q] = "done"]
            /\ UNCHANGED <<clock, stamp>>
  /\ UNCHANGED <<rows, moving, claimed, owners>>

\* create: the INSERT; no unique key stands in its way.
CreateInsert(q) ==
  /\ creating[q] = "insert"
  /\ rows' = [rows EXCEPT ![stamp[q]] = [status |-> "pending", agent |-> Nobody]]
  /\ creating' = [creating EXCEPT ![q] = "done"]
  /\ UNCHANGED <<clock, stamp, moving, claimed, owners>>

\* Fault seeded for OneClaimant: the UPDATE of claim without its status.
ClaimAnyway(s, i) ==
  /\ rows[i].status \in {"pending", "in_progress"}
  /\ Assign(i, "in_progress", s)
  /\ claimed' = [claimed EXCEPT ![i] = @ \cup {s}]
  /\ UNCHANGED <<clock, creating, stamp, moving>>

\* claim: UPDATE ... WHERE status = 'pending'.
Claim(s, i) ==
  /\ rows[i].status = "pending"
  /\ Assign(i, "in_progress", s)
  /\ claimed' = [claimed EXCEPT ![i] = @ \cup {s}]
  /\ UNCHANGED <<clock, creating, stamp, moving>>

\* close: UPDATE ... WHERE status = 'in_progress'; whoever closes is recorded
\* as the agent, assigned or not.
Close(s, i) ==
  /\ rows[i].status = "in_progress"
  /\ Assign(i, "closed", s)
  /\ UNCHANGED <<clock, creating, stamp, moving, claimed>>

\* Fault seeded for TransferredByOwner: anyone may transfer.
TransferCheckAnyone(s, i, to) ==
  /\ moving[s] = Still
  /\ rows[i].status = "in_progress"
  /\ to # rows[i].agent
  /\ moving' = [moving EXCEPT ![s] = [row |-> i, to |-> to]]
  /\ UNCHANGED <<rows, clock, creating, stamp, claimed, owners>>

\* transfer: the row is read and the caller must be its agent or a supervisor.
TransferCheck(s, i, to) ==
  /\ moving[s] = Still
  /\ rows[i].status = "in_progress"
  /\ s = rows[i].agent \/ s \in Supervisors
  /\ to # rows[i].agent
  /\ moving' = [moving EXCEPT ![s] = [row |-> i, to |-> to]]
  /\ UNCHANGED <<rows, clock, creating, stamp, claimed, owners>>

\* Fault seeded for Lifecycle: the UPDATE of transfer without its status.
TransferWriteAnyway(s) ==
  /\ moving[s] # Still
  /\ Assign(moving[s].row, "in_progress", moving[s].to)
  /\ moving' = [moving EXCEPT ![s] = Still]
  /\ UNCHANGED <<clock, creating, stamp, claimed>>

\* transfer: UPDATE ... WHERE status = 'in_progress', whoever the agent is by now.
TransferWrite(s) ==
  /\ moving[s] # Still
  /\ moving' = [moving EXCEPT ![s] = Still]
  /\ IF rows[moving[s].row].status = "in_progress"
       THEN Assign(moving[s].row, "in_progress", moving[s].to)
       ELSE UNCHANGED <<rows, owners>>
  /\ UNCHANGED <<clock, creating, stamp, claimed>>

Create(q) == CreateCheck(q) \/ CreateInsert(q)

Work(s) ==
  \/ \E i \in Stamps : Claim(s, i) \/ Close(s, i)
  \/ \E i \in Stamps, to \in Staff : TransferCheck(s, i, to)
  \/ TransferWrite(s)

\* Every call has been answered and nothing is left to work on.
Idle ==
  /\ \A q \in Creators : creating[q] = "done"
  /\ Active = {}
  /\ UNCHANGED vars

Next == (\E q \in Creators : Create(q)) \/ (\E s \in Staff : Work(s)) \/ Idle

Spec == Init /\ [][Next]_vars

-----------------------------------------------------------------------------
(* Properties. *)

\* OneClaimant: of the staff that press "claim" on one row at the same time,
\* one is told it has the conversation, and everybody else HANDOFF_STATE_CONFLICT.
OneClaimant == \A i \in Stamps : \A s, t \in claimed[i] : s = t

\* TransferredByOwner: a row changes hands only by a supervisor or by someone
\* it was assigned to, although transfer checks a row it read earlier.
TransferredByOwner ==
  [][\A i \in Stamps :
       rows[i].status = "in_progress" /\ rows'[i].status = "in_progress"
         /\ rows'[i].agent # rows[i].agent =>
           \E s \in owners[i] \cup Supervisors :
             moving[s].row = i /\ moving[s].to = rows'[i].agent]_vars

Rows == INSTANCE HandoffLifecycle

\* Lifecycle: every row lives the life HandoffLifecycle describes: opened once,
\* taken by one claim, never touched again once it is closed, although transfers
\* are checked before they are written.
Lifecycle == Rows!Spec
=============================================================================
