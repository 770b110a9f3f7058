------------------------ MODULE ConsoleAgent_proofs ------------------------
(***************************************************************************)
(* Proofs about ConsoleAgent for any number of calls, drafts and staff: with *)
(* the MCP tools only what was approved is executed, and the AI yields to a   *)
(* person except where Java's answer misleads it.  The second half is about   *)
(* its composition with HumanHandoff and rests on the invariant of the queue: *)
(* every part keeps its type, and what the staff append to the conversation   *)
(* comes from somebody entitled to it.                                       *)
(***************************************************************************)
EXTENDS ConsoleAgent, FiniteSetTheorems, WellFoundedInduction, TLAPS

\* Where the calls are; the only types the arguments below need.
Calls ==
  /\ pc \in [Requests -> Steps]
  /\ job \in [Requests -> Job]
  /\ out \in [Requests -> Outs]

\* A decision on its way to the MCP store was accepted.
Accepted ==
  /\ confirmed \subseteq approved
  /\ \A q \in Requests : pc[q] = "register" => job[q].draft \in approved

\* A message received in a take-over that still lasts: it has not been looked up
\* yet, it was not answered by the AI, or the lookup misled it.
Unsettled(q) ==
  \/ job[q].kind = "reply" /\ pc[q] \in {"pending", "lookup"}
  \/ job[q].kind = "stream" /\ pc[q] = "lookup"
  \/ pc[q] = "done" /\ out[q] \notin {"ai", "draft"}

Watched ==
  /\ within \subseteq {q \in Requests : job[q].kind \in Messages}
  /\ \A q \in within :
       /\ pc[q] \in {"pending", "lookup", "run", "running", "done"}
       /\ out[q] \in {"ai", "draft"} => pc[q] = "done"
       /\ Unsettled(q) \/ q \in blind \cup shadowed
  /\ within # {} => Queue!TakenOver

Silent == \A q \in Requests : pc[q] # "done" => out[q] = "none"

Inv == Calls /\ Silent /\ Watched

InvMcp == Calls /\ Accepted /\ NothingUnapproved

LEMMA InitInv == Init => Inv /\ InvMcp
  BY DEF Init, Inv, InvMcp, Calls, Silent, Watched, Accepted, NothingUnapproved, Steps, Outs,
         NoJob, Job, Kinds

LEMMA JobsAreJobs == Jobs \subseteq Job
  BY DEF Jobs

LEMMA FirstStep ==
  ASSUME NEW k \in Kinds
  PROVE  /\ First(k) \in {"pending", "lookup", "decide", "correct"}
         /\ k = "reply" => First(k) = "pending"
         /\ k = "stream" => First(k) = "lookup"
  BY DEF First, Kinds

\* Every call stays where the model has a step for it.
LEMMA StepCalls == Calls /\ [Next]_vars => Calls'
<1> SUFFICES ASSUME Calls, [Next]_vars PROVE Calls'
  OBVIOUS
<1> USE DEF Calls, Steps, Outs
<1>1. ASSUME NEW q \in Requests, Receive(q) PROVE Calls'
  <2>1. PICK j \in Jobs : job' = [job EXCEPT ![q] = j] /\ Goto(q, First(j.kind))
    BY <1>1 DEF Receive
  <2>2. j \in Job /\ First(j.kind) \in {"pending", "lookup", "decide", "correct"}
    BY JobsAreJobs, FirstStep DEF Job
  <2>3. QED
    BY <2>1, <2>2 DEF Goto
<1>2. ASSUME NEW q \in Requests, CheckPending(q) PROVE Calls'
  BY <1>2 DEF CheckPending, Answered, Goto, AfterPending, callVars
<1>3. ASSUME NEW q \in Requests, CheckEligible(q) PROVE Calls'
  BY <1>3 DEF CheckEligible, Answered, Goto
<1>4. ASSUME NEW q \in Requests, Lookup(q) PROVE Calls'
  BY <1>4 DEF Lookup, Answered, Goto, AfterLookup
<1>5. ASSUME NEW q \in Requests, RunBegin(q) \/ RunEnd(q) PROVE Calls'
  BY <1>5 DEF RunBegin, RunEnd, AnsweredBy, Answered, Goto
<1>6. ASSUME NEW q \in Requests, Recognise(q) \/ Register(q) PROVE Calls'
  BY <1>6 DEF Recognise, Register, Answered, Goto
<1>7. ASSUME NEW q \in Requests, ResumeBegin(q) \/ ResumeEnd(q) \/ Execute(q) PROVE Calls'
  BY <1>7 DEF ResumeBegin, ResumeEnd, Execute, AnsweredBy, Answered, Goto
<1>8. ASSUME NEW q \in Requests, LookupAssigned(q) \/ Append(q) PROVE Calls'
  BY <1>8 DEF LookupAssigned, Append, Answered, Goto
<1>9. CASE QueueMoves \/ UNCHANGED vars \/ \E d \in Drafts : Expire(d)
  BY <1>9 DEF QueueMoves, Expire, vars, callVars
<1>10. QED
  BY <1>1, <1>2, <1>3, <1>4, <1>5, <1>6, <1>7, <1>8, <1>9 DEF Next, Call, Idle

-----------------------------------------------------------------------------
\* Only a decision whose draft was accepted is ever registered, and with the
\* MCP tools only what is registered is executed.
LEMMA StepAccepted ==
  ASSUME McpTools, Calls, Accepted, NothingUnapproved, [Next]_vars
  PROVE  Accepted' /\ NothingUnapproved'
<1> USE DEF Calls, Accepted, NothingUnapproved, Steps
<1>1. ASSUME NEW q \in Requests, Receive(q) PROVE Accepted' /\ NothingUnapproved'
  <2>1. PICK j \in Jobs : job' = [job EXCEPT ![q] = j] /\ Goto(q, First(j.kind))
    BY <1>1 DEF Receive
  <2>2. First(j.kind) \in {"pending", "lookup", "decide", "correct"}
    BY JobsAreJobs, FirstStep DEF Job
  <2>3. QED
    BY <1>1, <2>1, <2>2 DEF Receive, Goto, toolVars
<1>2. ASSUME NEW q \in Requests, CheckPending(q) \/ CheckEligible(q) \/ Lookup(q)
      PROVE  Accepted' /\ NothingUnapproved'
  BY <1>2 DEF CheckPending, CheckEligible, Lookup, Answered, Goto, AfterPending, AfterLookup, toolVars
<1>3. ASSUME NEW q \in Requests, RunBegin(q) \/ RunEnd(q) PROVE Accepted' /\ NothingUnapproved'
  BY <1>3 DEF RunBegin, RunEnd, AnsweredBy, Answered, Goto, toolVars
<1>4. ASSUME NEW q \in Requests, Recognise(q) PROVE Accepted' /\ NothingUnapproved'
  BY <1>4 DEF Recognise, Answered, Goto
<1>5. ASSUME NEW q \in Requests, Register(q) PROVE Accepted' /\ NothingUnapproved'
  BY <1>5 DEF Register, Goto
<1>6. ASSUME NEW q \in Requests, ResumeBegin(q) \/ ResumeEnd(q) PROVE Accepted' /\ NothingUnapproved'
  BY <1>6 DEF ResumeBegin, ResumeEnd, AnsweredBy, Answered, Goto, toolVars
<1>7. ASSUME NEW q \in Requests, Execute(q) PROVE Accepted' /\ NothingUnapproved'
  BY <1>7 DEF Execute, AnsweredBy, Answered
<1>8. ASSUME NEW q \in Requests, LookupAssigned(q) \/ Append(q) PROVE Accepted' /\ NothingUnapproved'
  BY <1>8 DEF LookupAssigned, Append, Answered, Goto, toolVars
<1>9. CASE QueueMoves \/ UNCHANGED vars \/ \E d \in Drafts : Expire(d)
  BY <1>9 DEF QueueMoves, Expire, vars, callVars, toolVars
<1>10. QED
  BY <1>1, <1>2, <1>3, <1>4, <1>5, <1>6, <1>7, <1>8, <1>9 DEF Next, Call, Idle

\* OnlyTheApproved: with the MCP tools switched on, Java executes no draft whose
\* approval was not accepted, however decisions, corrections and messages race.
THEOREM OnlyTheApproved == ASSUME McpTools PROVE Spec => []NothingUnapproved
<1>1. Init => InvMcp
  BY InitInv
<1>2. InvMcp /\ [Next]_vars => InvMcp'
  BY McpTools, StepCalls, StepAccepted DEF InvMcp
<1>3. InvMcp => NothingUnapproved
  BY DEF InvMcp
<1>4. QED
  BY <1>1, <1>2, <1>3, PTL DEF Spec

-----------------------------------------------------------------------------
LEMMA StepSilent == Calls /\ Silent /\ [Next]_vars => Silent'
<1> SUFFICES ASSUME Calls, Silent, [Next]_vars PROVE Silent'
  OBVIOUS
<1> USE DEF Calls, Silent, Goto, Answered, AnsweredBy
<1>1. ASSUME NEW q \in Requests, Receive(q) PROVE Silent'
  BY <1>1 DEF Receive
<1>2. ASSUME NEW q \in Requests, CheckPending(q) \/ CheckEligible(q) \/ Lookup(q) PROVE Silent'
  BY <1>2 DEF CheckPending, CheckEligible, Lookup
<1>3. ASSUME NEW q \in Requests, RunBegin(q) \/ RunEnd(q) PROVE Silent'
  BY <1>3 DEF RunBegin, RunEnd
<1>4. ASSUME NEW q \in Requests, Recognise(q) \/ Register(q) PROVE Silent'
  BY <1>4 DEF Recognise, Register
<1>5. ASSUME NEW q \in Requests, ResumeBegin(q) \/ ResumeEnd(q) \/ Execute(q) PROVE Silent'
  BY <1>5 DEF ResumeBegin, ResumeEnd, Execute
<1>6. ASSUME NEW q \in Requests, LookupAssigned(q) \/ Append(q) PROVE Silent'
  BY <1>6 DEF LookupAssigned, Append
<1>7. CASE QueueMoves \/ UNCHANGED vars \/ \E d \in Drafts : Expire(d)
  BY <1>7 DEF QueueMoves, Expire, vars, callVars
<1>8. QED
  BY <1>1, <1>2, <1>3, <1>4, <1>5, <1>6, <1>7 DEF Next, Call, Idle

\* What a call does to the take-over it has to respect: nothing.
LEMMA SameQueue ==
  ASSUME UNCHANGED queueVars
  PROVE  Queue!TakenOver' = Queue!TakenOver
  BY DEF queueVars, Queue!TakenOver

LEMMA ReceiveWatched ==
  ASSUME Inv, NEW q \in Requests, Receive(q)
  PROVE  Watched'
<1>1. PICK j \in Jobs : job' = [job EXCEPT ![q] = j] /\ Goto(q, First(j.kind))
  BY DEF Receive
<1>2. Queue!TakenOver' = Queue!TakenOver
  BY SameQueue DEF Receive
<1>3. q \notin within
  BY DEF Inv, Watched, Receive
<1>4. out[q] = "none" /\ job'[q] = j /\ pc'[q] = First(j.kind) /\ UNCHANGED <<out, blind, shadowed>>
  BY <1>1 DEF Inv, Calls, Silent, Goto, Receive
<1>5. \A p \in Requests \ {q} : pc'[p] = pc[p] /\ job'[p] = job[p]
  BY <1>1 DEF Inv, Calls, Goto
<1>6. CASE Queue!TakenOver /\ j.kind \in Messages
  <2>1. within' = within \cup {q}
    BY <1>4, <1>6 DEF Receive
  <2>2. /\ pc'[q] \in {"pending", "lookup"}
        /\ j.kind = "reply" => pc'[q] = "pending"
        /\ j.kind = "stream" => pc'[q] = "lookup"
    BY <1>4, <1>6, FirstStep DEF Messages, Kinds
  <2>3. \A p \in within : p # q /\ p \in Requests
    BY <1>3 DEF Inv, Watched
  <2>4. QED
    BY <1>2, <1>4, <1>5, <1>6, <2>1, <2>2, <2>3 DEF Inv, Watched, Unsettled, Messages
<1>7. CASE ~(Queue!TakenOver /\ j.kind \in Messages)
  <2>1. within' = within
    BY <1>4, <1>7 DEF Receive
  <2>2. \A p \in within : p # q /\ p \in Requests
    BY <1>3 DEF Inv, Watched
  <2>3. QED
    BY <1>2, <1>4, <1>5, <2>1, <2>2 DEF Inv, Watched, Unsettled
<1>8. QED
  BY <1>6, <1>7

\* The other steps of a call q: they leave the take-over and every other call alone.
LEMMA OthersWatched ==
  ASSUME Inv, NEW q \in Requests, UNCHANGED <<queueVars, job, within>>,
         blind \subseteq blind', shadowed \subseteq shadowed',
         \A p \in Requests \ {q} : pc'[p] = pc[p] /\ out'[p] = out[p],
         q \in within =>
           /\ pc'[q] \in {"pending", "lookup", "run", "running", "done"}
           /\ out'[q] \in {"ai", "draft"} => pc'[q] = "done"
           /\ Unsettled(q)' \/ q \in blind' \cup shadowed'
  PROVE  Watched'
<1>1. Queue!TakenOver' = Queue!TakenOver
  BY SameQueue
<1>2. \A p \in within \ {q} : Unsettled(p)' = Unsettled(p) /\ p \in Requests
  BY DEF Inv, Watched, Unsettled
<1>3. QED
  BY <1>1, <1>2 DEF Inv, Watched

LEMMA StepWatched == Inv /\ [Next]_vars => Watched'
<1> SUFFICES ASSUME Inv, [Next]_vars PROVE Watched'
  OBVIOUS
<1> USE DEF Calls, Steps, Goto, Answered, AnsweredBy, sightVars
<1>1. ASSUME NEW q \in Requests, CheckPending(q) PROVE Watched'
  <2>1. q \in within => job[q].kind \in Messages /\ (Unsettled(q) \/ q \in blind \cup shadowed)
                        /\ out[q] \notin {"ai", "draft"}
    BY <1>1 DEF Inv, Watched, CheckPending, Silent
  <2>2. q \in within => /\ pc'[q] \in {"lookup", "run", "done"}
                        /\ out'[q] \notin {"ai", "draft"}
                        /\ Unsettled(q)' \/ q \in blind' \cup shadowed'
    BY <1>1, <2>1 DEF Inv, CheckPending, AfterPending, Messages, Unsettled
  <2>3. QED
    BY <1>1, <2>2, OthersWatched DEF Inv, CheckPending
<1>2. ASSUME NEW q \in Requests, CheckEligible(q) PROVE Watched'
  <2>1. q \notin within
    BY <1>2 DEF Inv, Watched, CheckEligible
  <2>2. QED
    BY <1>2, <2>1, OthersWatched DEF Inv, CheckEligible
<1>3. ASSUME NEW q \in Requests, Lookup(q) PROVE Watched'
  <2>1. blind \subseteq blind' /\ shadowed \subseteq shadowed'
    BY <1>3 DEF Lookup
  <2>2. q \in within => Queue!TakenOver
    BY DEF Inv, Watched
  <2>3. q \in within => /\ pc'[q] \in {"pending", "run", "done"}
                        /\ out'[q] \notin {"ai", "draft"}
                        /\ Unsettled(q)' \/ q \in blind' \cup shadowed'
    BY <1>3, <2>2 DEF Inv, Lookup, AfterLookup, Messages, Unsettled, Silent
  <2>4. QED
    BY <1>3, <2>1, <2>3, OthersWatched DEF Inv, Lookup
<1>4. ASSUME NEW q \in Requests, RunBegin(q) PROVE Watched'
  <2>1. q \in within => q \in blind \cup shadowed
    BY <1>4 DEF Inv, Watched, Unsettled, RunBegin
  <2>2. out[q] = "none" /\ pc'[q] = "running" /\ UNCHANGED out
    BY <1>4 DEF Inv, Silent, RunBegin
  <2>3. QED
    BY <1>4, <2>1, <2>2, OthersWatched DEF Inv, RunBegin
<1>5. ASSUME NEW q \in Requests, RunEnd(q) PROVE Watched'
  <2>1. q \in within => q \in blind \cup shadowed
    BY <1>5 DEF Inv, Watched, Unsettled, RunEnd
  <2>2. pc'[q] = "done"
    BY <1>5 DEF Inv, RunEnd
  <2>3. QED
    BY <1>5, <2>1, <2>2, OthersWatched DEF Inv, RunEnd
<1>6. ASSUME NEW q \in Requests,
             \/ Recognise(q) \/ Register(q) \/ ResumeBegin(q) \/ ResumeEnd(q) \/ Execute(q)
             \/ Append(q)
      PROVE  Watched'
  <2>1. q \notin within
    BY <1>6 DEF Inv, Watched, Recognise, Register, ResumeBegin, ResumeEnd, Execute, Append
  <2>2. UNCHANGED <<queueVars, job, sightVars>>
    BY <1>6 DEF Recognise, Register, ResumeBegin, ResumeEnd, Execute, Append
  <2>3. \A p \in Requests \ {q} : pc'[p] = pc[p] /\ out'[p] = out[p]
    BY <1>6 DEF Inv, Recognise, Register, ResumeBegin, ResumeEnd, Execute, Append
  <2>4. QED
    BY <2>1, <2>2, <2>3, OthersWatched
<1>7. ASSUME NEW q \in Requests, LookupAssigned(q) PROVE Watched'
  <2>1. q \notin within
    BY <1>7 DEF Inv, Watched, LookupAssigned, Messages
  <2>2. QED
    BY <1>7, <2>1, OthersWatched DEF Inv, LookupAssigned
<1>8. CASE QueueMoves
  BY <1>8 DEF Inv, Watched, Unsettled, QueueMoves, callVars
<1>9. CASE UNCHANGED vars \/ \E d \in Drafts : Expire(d)
  <2>1. UNCHANGED <<queueVars, callVars, sightVars>>
    BY <1>9 DEF Expire, vars
  <2>2. Queue!TakenOver' = Queue!TakenOver
    BY <2>1, SameQueue
  <2>3. QED
    BY <2>1, <2>2 DEF Inv, Watched, Unsettled, callVars
<1>10. QED
  BY <1>1, <1>2, <1>3, <1>4, <1>5, <1>6, <1>7, <1>8, <1>9, ReceiveWatched DEF Next, Call, Idle

\* YieldsUnlessMisled: for any number of calls and staff, the AI answers a message
\* received in a take-over that still lasts only if Java did not answer the lookup
\* or answered with a newer row that nobody has claimed.
THEOREM YieldsUnlessMisled == Spec => []YieldsDuringTakeover
<1>1. Init => Inv
  BY InitInv
<1>2. Inv /\ [Next]_vars => Inv'
  BY StepCalls, StepSilent, StepWatched DEF Inv
<1>3. Inv => YieldsDuringTakeover
  BY DEF Inv, Watched, Unsettled, YieldsDuringTakeover
<1>4. QED
  BY <1>1, <1>2, <1>3, PTL DEF Spec

-----------------------------------------------------------------------------
Asking == escalated \subseteq Requests

\* Every step of the console is a step of the queue or leaves the queue alone.
LEMMA StepQueue == Asking /\ [Next]_vars => Asking' /\ [Queue!Next]_(Queue!vars)
<1> SUFFICES ASSUME Asking, [Next]_vars PROVE Asking' /\ [Queue!Next]_(Queue!vars)
  OBVIOUS
<1>1. UNCHANGED queueVars => UNCHANGED Queue!vars
  BY DEF queueVars, Queue!vars
<1>2. ASSUME NEW q \in Requests, Call(q) PROVE UNCHANGED queueVars /\ Asking'
  BY <1>2 DEF Call, Receive, CheckPending, CheckEligible, Lookup, RunBegin, RunEnd, Recognise,
              Register, ResumeBegin, ResumeEnd, Execute, LookupAssigned, Append, AnsweredBy, Asking
<1>3. QueueMoves => Queue!Next /\ Asking'
  BY DEF QueueMoves, Queue!Next, Asking
<1>4. UNCHANGED vars \/ (\E d \in Drafts : Expire(d)) => UNCHANGED queueVars /\ Asking'
  BY DEF Expire, vars, Asking
<1>5. QED
  BY <1>1, <1>2, <1>3, <1>4 DEF Next, Idle

\* ConsoleDrivesQueue: whatever the console does, the queue only ever sees the calls
\* HumanHandoff describes, so all that is proved of the queue holds here as well.
THEOREM ConsoleDrivesQueue == Spec => Queue!Spec
<1>1. Init => Queue!Init /\ Asking
  BY DEF Init, Asking
<1>2. QED
  BY <1>1, StepQueue, PTL DEF Spec, Queue!Spec

-----------------------------------------------------------------------------
(* The composition with the queue.                                         *)
Q == INSTANCE HumanHandoff_proofs WITH Creators <- Requests

-----------------------------------------------------------------------------
\* A set of numbers that is not empty has a least and, when bounded, a greatest one.
Less == OpToRel(<, Nat)

LEMMA LessPairs == ASSUME NEW a \in Nat, NEW b \in Nat, a < b PROVE <<a, b>> \in Less
  BY Zenon DEF Less, OpToRel

LEMMA Least == ASSUME NEW T \in SUBSET Nat, T # {} PROVE \E x \in T : \A y \in T : x <= y
<1>1. IsWellFoundedOn(Less, Nat)
  BY NatLessThanWellFounded DEF Less
<1>2. PICK x \in T : \A y \in T : ~(<<y, x>> \in Less)
  BY <1>1, WFMin
<1>3. ASSUME NEW y \in T PROVE x <= y
  <2>1. ~(y < x)
    BY <1>2, LessPairs
  <2>2. QED
    BY <2>1
<1>4. QED
  BY <1>3

LEMMA Greatest ==
  ASSUME NEW n \in Nat, NEW T \in SUBSET (0 .. n), T # {}
  PROVE  \E x \in T : \A y \in T : y <= x
<1> DEFINE below == {d \in 0 .. n : n - d \in T}
<1>1. below \subseteq Nat /\ below # {}
  <2>1. below \subseteq Nat
    OBVIOUS
  <2>2. PICK x : x \in T
    OBVIOUS
  <2>3. x \in 0 .. n
    BY <2>2
  <2>4. n - x \in 0 .. n /\ n - (n - x) = x
    BY <2>3
  <2>5. n - x \in below
    BY <2>2, <2>4
  <2>6. QED
    BY <2>1, <2>5
<1>2. PICK d \in below : \A e \in below : d <= e
  BY <1>1, Least
<1>3. n - d \in T
  OBVIOUS
<1>4. ASSUME NEW y \in T PROVE y <= n - d
  <2>1. n - y \in 0 .. n /\ n - (n - y) = y
    OBVIOUS
  <2>2. d <= n - y
    BY <1>2, <2>1 DEF below
  <2>3. QED
    BY <2>2
<1>5. QED
  BY <1>3, <1>4

\* The queue counts its creators, which are the calls, as this module does.
LEMMA RequestsCount ==
  /\ Cardinality(Requests) \in Nat
  /\ Queue!Cardinality(Requests) = Cardinality(Requests)
  /\ Q!Cardinality(Requests) = Cardinality(Requests)
<1>1. Cardinality(Requests) \in Nat
  BY RequestsAssumption, FS_CardinalityType
<1>2. Queue!Cardinality(Requests) = Cardinality(Requests)
  BY Zenon DEF Queue!Cardinality, Cardinality
<1>3. Q!Cardinality(Requests) = Cardinality(Requests)
  BY Zenon DEF Q!Cardinality, Cardinality
<1>4. QED
  BY <1>1, <1>2, <1>3

\* Both instances of the queue have the same rows.
LEMMA SameStamps == Queue!Stamps = 1 .. Cardinality(Requests) /\ Q!Stamps = Queue!Stamps
  BY RequestsCount DEF Queue!Stamps, Q!Stamps

\* findActiveByConversation answers with an active row, if there is one.
LEMMA NewestIsActive == Queue!Newest = 0 \/ Queue!Newest \in Queue!Active
<1>1. Queue!Active \in SUBSET (0 .. Cardinality(Requests))
  BY RequestsCount, SameStamps DEF Queue!Active
<1>2. CASE Queue!Active # {}
  <2>1. \E i \in Queue!Active : \A j \in Queue!Active : j <= i
    BY <1>1, <1>2, Greatest, RequestsCount
  <2>2. QED
    BY <1>2, <2>1 DEF Queue!Newest
<1>3. QED
  BY <1>2 DEF Queue!Newest

-----------------------------------------------------------------------------
\* The queue that ConsoleAgent drives is the one HumanHandoff_proofs is about.
LEMMA SameInit == Queue!Init => Q!Init
  BY SameStamps DEF Queue!Init, Q!Init, Queue!Missing, Q!Missing, Queue!Still, Q!Still

LEMMA SameNext == [Queue!Next]_(Queue!vars) => [Q!Next]_(Q!vars)
  BY SameStamps
     DEF Queue!Next, Q!Next, Queue!vars, Q!vars, Queue!Create, Q!Create, Queue!Work, Q!Work,
         Queue!Idle, Q!Idle, Queue!CreateCheck, Q!CreateCheck, Queue!CreateInsert, Q!CreateInsert,
         Queue!Claim, Q!Claim, Queue!Close, Q!Close, Queue!TransferCheck, Q!TransferCheck,
         Queue!TransferWrite, Q!TransferWrite, Queue!Assign, Q!Assign, Queue!Still, Q!Still,
         Queue!Newest, Q!Newest, Queue!Active, Q!Active

\* What HumanHandoff assumes of its constants holds of the calls and the staff.
LEMMA QueueAssumptions == Q!StaffAssumption /\ Q!CreatorsAssumption
<1>1. Q!StaffAssumption
  BY StaffAssumption DEF Q!StaffAssumption
<1>2. Q!IsFiniteSet(Requests)
  BY RequestsAssumption DEF IsFiniteSet, Q!IsFiniteSet
<1>3. QED
  BY <1>1, <1>2 DEF Q!CreatorsAssumption

LEMMA SameTypes == Q!TypeOK => Queue!TypeOK
  BY SameStamps, RequestsCount DEF Queue!TypeOK, Q!TypeOK, Queue!Row, Q!Row

-----------------------------------------------------------------------------
Stamps == 1 .. Cardinality(Requests)

ThreadTypes == pending \in Drafts \cup {NoDraft} /\ orderFailed \in BOOLEAN /\ emotional \in BOOLEAN

ToolTypes == confirmed \subseteq Drafts /\ executed \subseteq Drafts /\ approved \subseteq Drafts

HeldTypes ==
  held \in [Requests -> [row: {0} \cup Stamps, draft: Drafts \cup {NoDraft}, failed: BOOLEAN]]

SightTypes ==
  /\ escalated \subseteq Requests
  /\ within \subseteq Requests /\ blind \subseteq Requests /\ shadowed \subseteq Requests

\* What a call carries along fits the step it is about to take.
Carries(q) ==
  /\ job[q] \in Jobs \cup {NoJob}
  /\ pc[q] = "register" => job[q].approve
  /\ pc[q] \in {"resuming", "execute"} => held[q].draft \in Drafts
  /\ pc[q] = "append" =>
       /\ held[q].row \in Stamps /\ job[q].by \in Staff
       /\ job[q].by \in owners[held[q].row] \cup Supervisors

Carried == \A q \in Requests : Carries(q)

Replied == replies \subseteq [row: Stamps, by: Staff] /\ RepliesFromHolder

StaffInv ==
  /\ Q!Inv /\ Calls /\ ThreadTypes /\ ToolTypes /\ HeldTypes /\ SightTypes
  /\ Carried /\ Replied

LEMMA StaffInvTypes == StaffInv => TypeOK
  BY SameTypes, SameStamps
     DEF StaffInv, Q!Inv, TypeOK, Calls, ThreadTypes, ToolTypes, HeldTypes, SightTypes, Replied, Stamps

LEMMA StaffInit == Init => StaffInv
<1> SUFFICES ASSUME Init PROVE StaffInv
  OBVIOUS
<1>1. Q!Inv
  BY SameInit, Q!InitInv, QueueAssumptions DEF Init
<1>2. Calls
  BY InitInv DEF Inv
<1>3. ThreadTypes /\ ToolTypes /\ HeldTypes /\ SightTypes
  BY DEF Init, ThreadTypes, ToolTypes, HeldTypes, SightTypes, Nothing
<1>4. Carried /\ Replied
  BY DEF Init, Carried, Carries, Replied, RepliesFromHolder
<1>5. QED
  BY <1>1, <1>2, <1>3, <1>4 DEF StaffInv

\* The queue keeps its invariant, whatever the console does.
LEMMA QueueKept == ASSUME StaffInv, [Next]_vars PROVE Q!Inv'
  BY StepQueue, SameNext, Q!StepInv, QueueAssumptions DEF StaffInv, SightTypes, Asking

\* Who was once assigned a row stays among its owners.
LEMMA OwnersStay ==
  ASSUME StaffInv, [Next]_vars, NEW i \in Stamps
  PROVE  owners[i] \subseteq owners'[i]
<1>1. [Q!Next]_(Q!vars)
  BY StepQueue, SameNext DEF StaffInv, SightTypes, Asking
<1>2. owners \in [Stamps -> SUBSET Staff]
  BY SameStamps DEF StaffInv, Q!Inv, Q!TypeOK, Stamps
<1>3. QED
  BY <1>1, <1>2
     DEF Q!Next, Q!vars, Q!Create, Q!Work, Q!Idle, Q!CreateCheck, Q!CreateInsert, Q!Claim, Q!Close,
         Q!TransferCheck, Q!TransferWrite, Q!Assign

-----------------------------------------------------------------------------
\* A call leaves what the other calls carry alone.
LEMMA OthersCarry ==
  ASSUME StaffInv, [Next]_vars, NEW q \in Requests,
         \A p \in Requests \ {q} : pc'[p] = pc[p] /\ job'[p] = job[p] /\ held'[p] = held[p],
         Carries(q)'
  PROVE  Carried'
<1>1. ASSUME NEW p \in Requests \ {q} PROVE Carries(p)'
  <2>1. Carries(p)
    BY DEF StaffInv, Carried
  <2>2. held[p].row \in Stamps => owners[held[p].row] \subseteq owners'[held[p].row]
    BY OwnersStay
  <2>3. QED
    BY <2>1, <2>2 DEF Carries
<1>2. QED
  BY <1>1 DEF Carried

LEMMA RepliesStay == ASSUME StaffInv, [Next]_vars, UNCHANGED replies PROVE Replied'
<1>1. \A r \in replies : r.row \in Stamps /\ owners[r.row] \subseteq owners'[r.row]
  BY OwnersStay DEF StaffInv, Replied
<1>2. QED
  BY <1>1 DEF StaffInv, Replied, RepliesFromHolder

\* The parts of StaffInv that are not the queue's and not proved elsewhere.
Rest == ThreadTypes /\ ToolTypes /\ HeldTypes /\ SightTypes /\ Carried /\ Replied

LEMMA ReceiveRest == ASSUME StaffInv, [Next]_vars, NEW q \in Requests, Receive(q) PROVE Rest'
<1>1. PICK j \in Jobs : job' = [job EXCEPT ![q] = j] /\ Goto(q, First(j.kind))
  BY DEF Receive
<1>2. First(j.kind) \in {"pending", "lookup", "decide", "correct"}
  BY JobsAreJobs, FirstStep DEF Job
<1>3. Carries(q)'
  BY <1>1, <1>2 DEF StaffInv, Calls, Carries, Goto
<1>4. Carried'
  BY <1>1, <1>3, OthersCarry DEF StaffInv, Calls, Goto, Receive
<1>5. (ThreadTypes /\ ToolTypes /\ HeldTypes /\ SightTypes)'
  BY DEF StaffInv, Receive, ThreadTypes, ToolTypes, HeldTypes, SightTypes, threadVars, toolVars
<1>6. QED
  BY <1>4, <1>5, RepliesStay DEF Rest, Receive

\* Steps that look at the checkpoint or the queue, or run the graph, and carry nothing.
LEMMA MessageRest ==
  ASSUME StaffInv, [Next]_vars, NEW q \in Requests,
         CheckPending(q) \/ CheckEligible(q) \/ Lookup(q) \/ RunBegin(q) \/ RunEnd(q)
  PROVE  Rest'
<1> USE DEF CheckPending, CheckEligible, Lookup, RunBegin, RunEnd, Goto, Answered, AnsweredBy
<1>1. UNCHANGED <<job, held, replies>>
  OBVIOUS
<1>2. /\ \A p \in Requests \ {q} : pc'[p] = pc[p]
      /\ pc'[q] \in {"lookup", "run", "eligible", "pending", "running", "done"}
  BY DEF StaffInv, Calls, AfterPending, AfterLookup
<1>3. Carries(q)'
  BY <1>1, <1>2 DEF StaffInv, Carried, Carries
<1>4. ThreadTypes' /\ ToolTypes'
  BY DEF StaffInv, ThreadTypes, ToolTypes, threadVars, toolVars
<1>5. HeldTypes' /\ SightTypes'
  BY DEF StaffInv, HeldTypes, SightTypes, sightVars
<1>6. QED
  BY <1>1, <1>2, <1>3, <1>4, <1>5, OthersCarry, RepliesStay DEF Rest

\* A decision that approves names a draft.
LEMMA ApprovalsNameDrafts ==
  ASSUME StaffInv, NEW q \in Requests, job[q].approve
  PROVE  job[q].draft \in Drafts
<1>1. job[q] \in Jobs
  BY DEF StaffInv, Carried, Carries, NoJob
<1>2. QED
  BY <1>1 DEF Jobs, Job

LEMMA RecogniseRest ==
  ASSUME StaffInv, [Next]_vars, NEW q \in Requests, Recognise(q) \/ Register(q) PROVE Rest'
<1>1. UNCHANGED <<job, held, replies, threadVars, sightVars, escalated>>
  BY DEF Recognise, Register
<1>2. /\ \A p \in Requests \ {q} : pc'[p] = pc[p]
      /\ pc'[q] \in {"done", "register", "resume"}
      /\ pc'[q] = "register" => job[q].approve
  BY DEF StaffInv, Calls, Recognise, Register, Goto, Answered
<1>3. Carries(q)'
  BY <1>1, <1>2 DEF StaffInv, Carried, Carries
<1>4. ToolTypes'
  BY ApprovalsNameDrafts DEF StaffInv, Carried, Carries, ToolTypes, Recognise, Register
<1>5. ThreadTypes' /\ HeldTypes' /\ SightTypes'
  BY <1>1 DEF StaffInv, ThreadTypes, HeldTypes, SightTypes, threadVars, sightVars
<1>6. QED
  BY <1>1, <1>2, <1>3, <1>4, <1>5, OthersCarry, RepliesStay DEF Rest

LEMMA ResumeBeginRest ==
  ASSUME StaffInv, [Next]_vars, NEW q \in Requests, ResumeBegin(q) PROVE Rest'
<1>1. UNCHANGED <<job, replies, threadVars, toolVars, sightVars>> /\ escalated' \subseteq Requests
  BY DEF ResumeBegin, AnsweredBy, StaffInv, SightTypes
<1>2. \/ pc' = [pc EXCEPT ![q] = "done"] /\ UNCHANGED held
      \/ /\ pc' = [pc EXCEPT ![q] = "resuming"] /\ pending \in Drafts
         /\ held' = [held EXCEPT ![q] = [row |-> 0, draft |-> pending, failed |-> orderFailed]]
  BY DEF ResumeBegin, AnsweredBy, Answered, Goto, StaffInv, ThreadTypes
<1>3. HeldTypes'
  BY <1>2 DEF StaffInv, HeldTypes, ThreadTypes
<1>4. Carries(q)'
  BY <1>1, <1>2 DEF StaffInv, Calls, HeldTypes, Carried, Carries
<1>5. \A p \in Requests \ {q} : pc'[p] = pc[p] /\ job'[p] = job[p] /\ held'[p] = held[p]
  BY <1>1, <1>2 DEF StaffInv, Calls, HeldTypes
<1>6. ThreadTypes' /\ ToolTypes' /\ SightTypes'
  BY <1>1 DEF StaffInv, ThreadTypes, ToolTypes, SightTypes, threadVars, toolVars, sightVars
<1>7. QED
  BY <1>1, <1>3, <1>4, <1>5, <1>6, OthersCarry, RepliesStay DEF Rest

LEMMA JobTo == ASSUME StaffInv, NEW q \in Requests PROVE job[q].to \in Drafts \cup {NoDraft}
  BY DEF StaffInv, Calls, Job

LEMMA ResumeEndRest ==
  ASSUME StaffInv, [Next]_vars, NEW q \in Requests, ResumeEnd(q) PROVE Rest'
<1>1. UNCHANGED <<job, held, replies, toolVars, sightVars>> /\ escalated' \subseteq Requests
  BY DEF ResumeEnd, AnsweredBy, StaffInv, SightTypes
<1>2. /\ \A p \in Requests \ {q} : pc'[p] = pc[p]
      /\ pc'[q] \in {"execute", "done"} /\ pc[q] = "resuming"
  BY DEF ResumeEnd, AnsweredBy, Answered, Goto, StaffInv, Calls
<1>3. Carries(q)'
  BY <1>1, <1>2 DEF StaffInv, Carried, Carries
<1>4. ThreadTypes'
  BY JobTo DEF ResumeEnd, Saved, StaffInv, ThreadTypes, HeldTypes
<1>5. ToolTypes' /\ HeldTypes' /\ SightTypes'
  BY <1>1 DEF StaffInv, ToolTypes, HeldTypes, SightTypes, toolVars, sightVars
<1>6. QED
  BY <1>1, <1>2, <1>3, <1>4, <1>5, OthersCarry, RepliesStay DEF Rest

LEMMA ExecuteRest ==
  ASSUME StaffInv, [Next]_vars, NEW q \in Requests, Execute(q) PROVE Rest'
<1>1. UNCHANGED <<job, held, replies, confirmed, approved, sightVars>> /\ escalated' \subseteq Requests
  BY DEF Execute, AnsweredBy, StaffInv, SightTypes
<1>2. (\A p \in Requests \ {q} : pc'[p] = pc[p]) /\ pc'[q] = "done"
  BY DEF Execute, AnsweredBy, Answered, StaffInv, Calls
<1>3. Carries(q)'
  BY <1>1, <1>2 DEF StaffInv, Carried, Carries
<1>4. ThreadTypes' /\ ToolTypes'
  BY DEF Execute, Saved, StaffInv, ThreadTypes, ToolTypes, HeldTypes, Carried, Carries
<1>5. HeldTypes' /\ SightTypes'
  BY <1>1 DEF StaffInv, HeldTypes, SightTypes, sightVars
<1>6. QED
  BY <1>1, <1>2, <1>3, <1>4, <1>5, OthersCarry, RepliesStay DEF Rest

-----------------------------------------------------------------------------
\* Whoever LookupAssigned lets pass is an owner of the row it read, or a supervisor.
LEMMA HolderIsEntitled ==
  ASSUME StaffInv, InHand, NEW s,
         rows[Queue!Newest].agent \in {Nobody, s} \/ s \in Supervisors
  PROVE  Queue!Newest \in Stamps /\ s \in owners[Queue!Newest] \cup Supervisors
<1>1. Queue!Newest \in Stamps /\ rows[Queue!Newest].status = "in_progress"
  BY NewestIsActive, SameStamps DEF InHand, Queue!Active, Stamps
<1>2. rows[Queue!Newest].agent \in owners[Queue!Newest] \cap Staff
  BY <1>1, SameStamps DEF StaffInv, Q!Inv, Q!Owned, Stamps
<1>3. QED
  BY <1>1, <1>2, StaffAssumption

\* A reply of the staff names its author.
LEMMA RepliesAreSigned ==
  ASSUME StaffInv, NEW q \in Requests, job[q].kind = "human"
  PROVE  job[q].by \in Staff
<1>1. job[q] \in Jobs
  BY DEF StaffInv, Carried, Carries, NoJob
<1>2. QED
  BY <1>1 DEF Jobs, Job

LEMMA LookupAssignedRest ==
  ASSUME StaffInv, [Next]_vars, NEW q \in Requests, LookupAssigned(q) PROVE Rest'
<1>1. UNCHANGED <<job, replies, queueVars, threadVars, toolVars, sightVars, escalated>>
  BY DEF LookupAssigned
<1>2. \/ pc' = [pc EXCEPT ![q] = "done"] /\ UNCHANGED held
      \/ /\ pc' = [pc EXCEPT ![q] = "append"]
         /\ held' = [held EXCEPT ![q].row = Queue!Newest]
         /\ Queue!Newest \in Stamps
         /\ job[q].by \in owners[Queue!Newest] \cup Supervisors
  BY HolderIsEntitled DEF LookupAssigned, Goto, Answered
<1>3. HeldTypes'
  BY <1>2 DEF StaffInv, HeldTypes
<1>4. job[q].by \in Staff
  BY RepliesAreSigned DEF LookupAssigned
<1>5. Carries(q)'
  <2>1. CASE pc' = [pc EXCEPT ![q] = "done"]
    BY <1>1, <2>1 DEF StaffInv, Calls, Carried, Carries
  <2>2. CASE pc' = [pc EXCEPT ![q] = "append"]
    BY <1>1, <1>2, <1>4, <2>2 DEF StaffInv, Calls, HeldTypes, Carried, Carries, queueVars
  <2>3. QED
    BY <1>2, <2>1, <2>2
<1>6. \A p \in Requests \ {q} : pc'[p] = pc[p] /\ job'[p] = job[p] /\ held'[p] = held[p]
  BY <1>1, <1>2 DEF StaffInv, Calls, HeldTypes
<1>7. ThreadTypes' /\ ToolTypes' /\ SightTypes'
  BY <1>1 DEF StaffInv, ThreadTypes, ToolTypes, SightTypes, threadVars, toolVars, sightVars
<1>8. QED
  BY <1>1, <1>3, <1>5, <1>6, <1>7, OthersCarry, RepliesStay DEF Rest

LEMMA AppendRest ==
  ASSUME StaffInv, [Next]_vars, NEW q \in Requests, Append(q) PROVE Rest'
<1>1. /\ UNCHANGED <<job, queueVars, threadVars, toolVars, sightVars, escalated>>
      /\ pc[q] = "append" /\ pc' = [pc EXCEPT ![q] = "done"]
      /\ held' = [held EXCEPT ![q] = Nothing]
      /\ replies' = replies \cup {[row |-> held[q].row, by |-> job[q].by]}
  BY DEF Append, Answered
<1>2. HeldTypes'
  BY <1>1 DEF StaffInv, HeldTypes, Nothing
<1>3. Carries(q)'
  BY <1>1 DEF StaffInv, Calls, Carried, Carries
<1>4. \A p \in Requests \ {q} : pc'[p] = pc[p] /\ job'[p] = job[p] /\ held'[p] = held[p]
  BY <1>1 DEF StaffInv, Calls, HeldTypes
<1>5. Replied'
  <2>1. /\ held[q].row \in Stamps /\ job[q].by \in Staff
        /\ job[q].by \in owners[held[q].row] \cup Supervisors
    BY <1>1 DEF StaffInv, Carried, Carries
  <2>2. QED
    BY <1>1, <2>1 DEF StaffInv, Replied, RepliesFromHolder, queueVars
<1>6. ThreadTypes' /\ ToolTypes' /\ SightTypes'
  BY <1>1 DEF StaffInv, ThreadTypes, ToolTypes, SightTypes, threadVars, toolVars, sightVars
<1>7. QED
  BY <1>2, <1>3, <1>4, <1>5, <1>6, OthersCarry DEF Rest

\* The staff at work, confirmations that expire: no call moves.
LEMMA SpectatorRest ==
  ASSUME StaffInv, [Next]_vars, QueueMoves \/ UNCHANGED vars \/ \E d \in Drafts : Expire(d)
  PROVE  Rest'
<1>1. UNCHANGED <<pc, job, held, replies, threadVars>> /\ (ToolTypes /\ SightTypes)'
  BY DEF QueueMoves, Expire, vars, callVars, StaffInv, ToolTypes, SightTypes, toolVars, sightVars
<1>2. ASSUME NEW q \in Requests PROVE Carries(q)'
  <2>1. Carries(q)
    BY DEF StaffInv, Carried
  <2>2. held[q].row \in Stamps => owners[held[q].row] \subseteq owners'[held[q].row]
    BY OwnersStay
  <2>3. QED
    BY <1>1, <2>1, <2>2 DEF Carries
<1>3. ThreadTypes' /\ HeldTypes'
  BY <1>1 DEF StaffInv, ThreadTypes, HeldTypes, threadVars
<1>4. QED
  BY <1>1, <1>2, <1>3, RepliesStay DEF Rest, Carried

LEMMA StaffStep == StaffInv /\ [Next]_vars => StaffInv'
<1> SUFFICES ASSUME StaffInv, [Next]_vars PROVE StaffInv'
  OBVIOUS
<1>1. ASSUME NEW q \in Requests, Call(q) PROVE Rest'
  BY <1>1, ReceiveRest, MessageRest, RecogniseRest, ResumeBeginRest, ResumeEndRest,
     ExecuteRest, LookupAssignedRest, AppendRest DEF Call
<1>2. Rest'
  BY <1>1, SpectatorRest DEF Next, Idle
<1>3. Q!Inv' /\ Calls'
  BY QueueKept, StepCalls DEF StaffInv
<1>4. QED
  BY <1>2, <1>3 DEF StaffInv, Rest

LEMMA StaffInvariance == Spec => []StaffInv
  BY StaffInit, StaffStep, PTL DEF Spec

-----------------------------------------------------------------------------
\* The checkpoint, the tools, the calls and the queue keep their types together: a
\* reply under way names the row it was checked against (human_reply).
THEOREM CompositionTyped == Spec => []TypeOK
  BY StaffInvTypes, StaffInvariance, PTL

\* For any number of calls and any staff, what human_reply appends comes from a
\* supervisor or from somebody the hand-off was assigned to at some time, although
\* the assignment is checked before the reply is stored.
THEOREM RepliesAreEntitled == Spec => []RepliesFromHolder
<1>1. StaffInv => RepliesFromHolder
  BY DEF StaffInv, Replied
<1>2. QED
  BY <1>1, StaffInvariance, PTL
=============================================================================
