-------------------------- MODULE TicketDesk_proofs --------------------------
(***************************************************************************)
(* Proofs about TicketDesk, for any number of calls and any staff.  Inv adds *)
(* to the types that nobody has the ticket while a gap is locked, and that a *)
(* call behind whose back nothing was written would still be permitted.      *)
(***************************************************************************)
EXTENDS TicketDesk, FiniteSetTheorems, TLAPS

\* Under way: checked, not yet written.
UnderWay(c) == step[c] \in {"write", "insert"}

\* An insert finds no row: the row that another insert made would be there for good.
GapIsFree ==
  /\ InGap # {} => assignee = Nobody
  /\ \A c \in InGap : Assigning(c)
  /\ inserts = {} \/ \E c \in Calls : inserts = {c}

\* What a call has read is still so, unless it was overtaken.
Current ==
  \A c \in Calls \ overtaken :
    UnderWay(c) => seen[c].status = status /\ Permitted(c, status, assignee)

Inv == TypeOK /\ GapIsFree /\ Current

LEMMA InitInv == Init => Inv
<1> SUFFICES ASSUME Init PROVE Inv
  OBVIOUS
<1>1. TypeOK
  BY DEF Init, TypeOK, Unread, Statuses
<1>2. GapIsFree /\ Current
  BY DEF Init, GapIsFree, Current, InGap, UnderWay
<1>3. QED
  BY <1>1, <1>2 DEF Inv

\* Who an assignment names.
LEMMA AssigneeIsStaff == ASSUME NEW c \in Calls, Assigning(c) PROVE Assignee(c) \in Staff
  BY OpAssumption DEF Operations, Assigning, Assignee

\* Where a change of status leads.
LEMMA TargetIsStatus == ASSUME NEW c \in Calls, ~Assigning(c) PROVE Op[c].to \in Statuses
  BY OpAssumption DEF Operations, Assigning, Statuses

\* A committed write leaves nobody current that is still under way.
LEMMA WrittenCurrent ==
  ASSUME TypeOK, NEW c \in Calls, Written(c)
  PROVE  /\ Current'
         /\ overtaken' \subseteq Calls
         /\ step' \in [Calls -> {"read", "write", "insert", "ok", "refused"}]
         /\ InGap' \subseteq InGap
<1>1. step' = [step EXCEPT ![c] = "ok"]
      /\ overtaken' = overtaken \cup {d \in Calls \ {c} : step[d] \in {"write", "insert"}}
  BY DEF Written
<1>2. \A d \in Calls : UnderWay(d)' => d \in overtaken'
  BY <1>1 DEF UnderWay, TypeOK
<1>3. QED
  BY <1>1, <1>2 DEF Current, InGap, TypeOK

LEMMA ReadInv == ASSUME Inv, NEW c \in Calls, Read(c) PROVE Inv'
<1>1. TypeOK'
  BY DEF Inv, TypeOK, Read
<1>2. InGap' = InGap
  BY DEF Inv, TypeOK, Read, InGap
<1>3. GapIsFree'
  BY <1>2 DEF Inv, GapIsFree, Read, Assigning
<1>4. Current'
  <2> SUFFICES ASSUME NEW d \in Calls \ overtaken', UnderWay(d)'
               PROVE seen'[d].status = status' /\ Permitted(d, status', assignee')
    BY DEF Current
  <2>1. CASE d = c
    BY <2>1 DEF Inv, TypeOK, Read, UnderWay
  <2>2. CASE d # c
    BY <2>2 DEF Inv, TypeOK, Current, Read, UnderWay
  <2>3. QED
    BY <2>1, <2>2
<1>5. QED
  BY <1>1, <1>3, <1>4 DEF Inv

LEMMA WriteStatusInv == ASSUME Inv, NEW c \in Calls, WriteStatus(c) PROVE Inv'
<1>1. TypeOK'
  BY WrittenCurrent, TargetIsStatus DEF Inv, TypeOK, WriteStatus
<1>2. GapIsFree'
  BY WrittenCurrent DEF Inv, GapIsFree, WriteStatus, Assigning
<1>3. QED
  BY <1>1, <1>2, WrittenCurrent DEF Inv, WriteStatus

LEMMA UpdateAssignmentInv == ASSUME Inv, NEW c \in Calls, UpdateAssignment(c) PROVE Inv'
<1>1. TypeOK'
  BY WrittenCurrent, AssigneeIsStaff, ManagersAssumption DEF Inv, TypeOK, UpdateAssignment
<1>2. InGap = {}
  BY DEF Inv, GapIsFree, UpdateAssignment
<1>3. GapIsFree'
  BY <1>2, WrittenCurrent DEF Inv, GapIsFree, UpdateAssignment
<1>4. QED
  BY <1>1, <1>3, WrittenCurrent DEF Inv, UpdateAssignment

LEMMA MissAssignmentInv == ASSUME Inv, NEW c \in Calls, MissAssignment(c) PROVE Inv'
<1>1. TypeOK'
  BY DEF Inv, TypeOK, MissAssignment
<1>2. InGap' = InGap \cup {c}
  BY DEF Inv, TypeOK, MissAssignment, InGap
<1>3. GapIsFree'
  BY <1>2 DEF Inv, GapIsFree, MissAssignment, Assigning
<1>4. Current'
  BY DEF Inv, TypeOK, Current, MissAssignment, UnderWay, Permitted
<1>5. QED
  BY <1>1, <1>3, <1>4 DEF Inv

LEMMA InsertAssignmentInv == ASSUME Inv, NEW c \in Calls, InsertAssignment(c) PROVE Inv'
<1>1. assignee = Nobody /\ inserts = {} /\ Assigning(c)
  BY DEF Inv, TypeOK, GapIsFree, InsertAssignment
<1>2. TypeOK'
  BY <1>1, WrittenCurrent, AssigneeIsStaff, ManagersAssumption DEF Inv, TypeOK, InsertAssignment
<1>3. InGap' = {}
  BY DEF Inv, TypeOK, InsertAssignment, InGap, Written
<1>4. inserts' = {c}
  BY <1>1 DEF InsertAssignment
<1>5. GapIsFree'
  BY <1>3, <1>4 DEF GapIsFree
<1>6. QED
  BY <1>2, <1>5, WrittenCurrent DEF Inv, InsertAssignment

LEMMA DeadlockInv == ASSUME Inv, NEW c \in Calls, Deadlock(c) PROVE Inv'
<1>1. TypeOK'
  BY DEF Inv, TypeOK, Deadlock
<1>2. InGap' \subseteq InGap
  BY DEF Inv, TypeOK, Deadlock, InGap
<1>3. GapIsFree'
  BY <1>2 DEF Inv, GapIsFree, Deadlock, Assigning
<1>4. Current'
  BY DEF Inv, TypeOK, Current, Deadlock, UnderWay, Permitted
<1>5. QED
  BY <1>1, <1>3, <1>4 DEF Inv

LEMMA NextInv == Inv /\ [Next]_vars => Inv'
<1> SUFFICES ASSUME Inv, [Next]_vars PROVE Inv'
  OBVIOUS
<1>1. ASSUME NEW c \in Calls, CallStep(c) PROVE Inv'
  BY <1>1, ReadInv, WriteStatusInv, UpdateAssignmentInv, MissAssignmentInv,
     InsertAssignmentInv, DeadlockInv DEF CallStep
<1>2. CASE UNCHANGED vars
  BY <1>2 DEF vars, Inv, TypeOK, GapIsFree, Current, InGap, UnderWay, Permitted, Assigning
<1>3. QED
  BY <1>1, <1>2 DEF Next

LEMMA Invariance == Spec => []Inv
  BY InitInv, NextInv, PTL DEF Spec

\* The tables and the calls keep their types; an inserted assignment is a row.
THEOREM TypeCorrect == Spec => []TypeOK
<1>1. Inv => TypeOK
  BY DEF Inv
<1>2. QED
  BY <1>1, Invariance, PTL

\* Of any number of claims and assignments that find a ticket without an assignment,
\* only one inserts a row (insertTicketAssignment behind the gap lock).
THEOREM OneInsert == Spec => []OneRow
<1>1. Inv => OneRow
  <2> SUFFICES ASSUME Inv PROVE OneRow
    OBVIOUS
  <2>1. CASE inserts = {}
    BY <2>1, FS_EmptySet DEF OneRow
  <2>2. ASSUME NEW c \in Calls, inserts = {c} PROVE OneRow
    BY <2>2, FS_Singleton DEF OneRow
  <2>3. QED
    BY <2>1, <2>2 DEF Inv, GapIsFree
<1>2. QED
  BY <1>1, Invariance, PTL

\* What one step of a call that was not overtaken may do.
Lawful ==
  \A c \in Calls \ overtaken :
    step[c] # "ok" /\ step'[c] = "ok" =>
      /\ status' # status =>
           \/ status' \in AllowedTransitions(status)
           \/ Op[c].kind = "reopen" /\ status = "resolved"
      /\ assignee' # assignee =>
           \/ Op[c].by \in Managers \cup {assignee}
           \/ assignee = Nobody /\ Op[c].by = assignee'

\* Only the call that writes is answered OK.
LEMMA WriterAnswered ==
  ASSUME TypeOK, NEW c \in Calls, Written(c), NEW d \in Calls, step[d] # "ok", step'[d] = "ok"
  PROVE  d = c
  BY DEF Written, TypeOK

LEMMA StatusLawful == ASSUME Inv, NEW c \in Calls, WriteStatus(c) PROVE Lawful
<1> SUFFICES ASSUME NEW d \in Calls \ overtaken, step[d] # "ok", step'[d] = "ok",
                    status' # status
             PROVE  \/ status' \in AllowedTransitions(status)
                    \/ Op[d].kind = "reopen" /\ status = "resolved"
  BY DEF Lawful, WriteStatus
<1>1. d = c
  BY WriterAnswered DEF Inv, WriteStatus
<1>2. Permitted(c, status, assignee) /\ seen[c].status = status
  BY <1>1 DEF Inv, Current, UnderWay, WriteStatus
<1>3. status' = Op[c].to
  BY DEF WriteStatus
<1>4. CASE Op[c].kind = "reply"
  <2>1. status = "waiting_user"
    BY <1>2, <1>4 DEF WriteStatus
  <2>2. Op[c].to = "in_progress"
    BY <1>4, OpAssumption DEF Operations
  <2>3. QED
    BY <1>3, <2>1, <2>2 DEF AllowedTransitions
<1>5. CASE Op[c].kind # "reply"
  BY <1>1, <1>2, <1>3, <1>5 DEF Permitted, WriteStatus, Assigning
<1>6. QED
  BY <1>4, <1>5

LEMMA AssignmentLawful ==
  ASSUME Inv, NEW c \in Calls, Written(c), Assigning(c), UnderWay(c),
         assignee' = Assignee(c), status' = status
  PROVE  Lawful
<1> SUFFICES ASSUME NEW d \in Calls \ overtaken, step[d] # "ok", step'[d] = "ok"
             PROVE  \/ Op[d].by \in Managers \cup {assignee}
                    \/ assignee = Nobody /\ Op[d].by = assignee'
  BY DEF Lawful
<1>1. d = c
  BY WriterAnswered DEF Inv
<1>2. Permitted(c, status, assignee)
  BY <1>1 DEF Inv, Current
<1>3. QED
  BY <1>1, <1>2 DEF Permitted, Assigning, Assignee

LEMMA StepLawful == Inv /\ Inv' /\ [Next]_vars => Lawful
<1> SUFFICES ASSUME Inv, [Next]_vars PROVE Lawful
  OBVIOUS
<1>1. ASSUME NEW c \in Calls, CallStep(c) PROVE Lawful
  <2>1. CASE WriteStatus(c)
    BY <2>1, StatusLawful
  <2>2. CASE UpdateAssignment(c)
    BY <2>2, AssignmentLawful DEF UpdateAssignment, UnderWay
  <2>3. CASE InsertAssignment(c)
    BY <2>3, AssignmentLawful DEF InsertAssignment, UnderWay, InGap, Inv, GapIsFree
  <2>4. CASE Read(c) \/ MissAssignment(c) \/ Deadlock(c)
    BY <2>4 DEF Lawful, Read, MissAssignment, Deadlock, Inv, TypeOK
  <2>5. QED
    BY <1>1, <2>1, <2>2, <2>3, <2>4 DEF CallStep
<1>2. CASE UNCHANGED vars
  BY <1>2 DEF Lawful, vars
<1>3. QED
  BY <1>1, <1>2 DEF Next

\* However calls interleave, one that was not overtaken between its check and its
\* update moves the ticket along ALLOWED_TRANSITIONS (or reopens a resolved one) and
\* changes its agent with the right requireAssignmentPermission asks for.
THEOREM CurrentCallsAreLawful == Spec => LawfulUnlessOvertaken
<1>1. Inv /\ Inv' /\ [Next]_vars => [Lawful]_vars
  BY StepLawful
<1>2. Spec => [][Lawful]_vars
  BY <1>1, Invariance, PTL DEF Spec
<1>3. QED
  BY <1>2 DEF Lawful, LawfulUnlessOvertaken
=============================================================================
