------------------------ MODULE HumanHandoff_proofs ------------------------
(***************************************************************************)
(* Proofs about HumanHandoff, for any number of creators and any staff.     *)
(* The inductive invariant is Inv: the stamps handed out name rows of their  *)
(* own, a row nobody took has no claimant, the agent of a row is among its   *)
(* owners, and a transfer under way was started by someone entitled to it.   *)
(***************************************************************************)
EXTENDS HumanHandoff, FiniteSetTheorems, TLAPS

\* The creators that have been given an answer or a stamp.
Begun == {q \in Creators : creating[q] # "idle"}

Counted == clock <= Cardinality(Begun)

Stamped ==
  /\ \A q \in Creators :
       creating[q] = "insert" =>
         stamp[q] \in 1 .. clock /\ rows[stamp[q]] = Missing
  /\ \A p, q \in Creators :
       creating[p] = "insert" /\ creating[q] = "insert" /\ stamp[p] = stamp[q] => p = q
  /\ \A i \in Stamps : i > clock => rows[i] = Missing

Claims == \A i \in Stamps : rows[i].status \in {"none", "pending"} => claimed[i] = {}

Owned == \A i \in Stamps : rows[i].status = "in_progress" => rows[i].agent \in owners[i] \cap Staff

Entitled ==
  \A s \in Staff :
    moving[s] # Still =>
      /\ moving[s].row \in Stamps /\ moving[s].to \in Staff
      /\ s \in owners[moving[s].row] \cup Supervisors

Inv ==
  /\ TypeOK /\ Counted /\ Stamped
  /\ Claims /\ OneClaimant
  /\ Owned /\ Entitled

LEMMA StampsAreNaturals == Cardinality(Creators) \in Nat /\ Stamps \subseteq Nat \ {0}
<1>1. Cardinality(Creators) \in Nat
  BY CreatorsAssumption, FS_CardinalityType
<1>2. QED
  BY <1>1 DEF Stamps

\* Everyone who has begun is a creator: there are no more of them than creators.
LEMMA BegunBound == IsFiniteSet(Begun) /\ Cardinality(Begun) \in Nat
                    /\ Cardinality(Begun) <= Cardinality(Creators)
<1>1. Begun \subseteq Creators
  BY DEF Begun
<1>2. QED
  BY <1>1, CreatorsAssumption, FS_Subset, FS_CardinalityType

LEMMA InitInv == Init => Inv
<1> SUFFICES ASSUME Init PROVE Inv
  OBVIOUS
<1>1. TypeOK
  BY StampsAreNaturals, StaffAssumption DEF Init, TypeOK, Row, Missing, Still
<1>2. Counted
  BY BegunBound DEF Init, Counted
<1>3. Stamped /\ Claims /\ OneClaimant /\ Owned /\ Entitled
  BY DEF Init, Stamped, Claims, OneClaimant, Owned, Entitled, Missing, Still
<1>4. QED
  BY <1>1, <1>2, <1>3 DEF Inv

\* One more creator has begun.
LEMMA OneMoreBegun ==
  ASSUME TypeOK, Counted, NEW q \in Creators, creating[q] = "idle",
         NEW b \in {"insert", "done"}, creating' = [creating EXCEPT ![q] = b]
  PROVE  /\ Cardinality(Begun') = Cardinality(Begun) + 1
         /\ clock + 1 <= Cardinality(Begun')
         /\ clock + 1 <= Cardinality(Creators)
<1>1. q \notin Begun /\ Begun' = Begun \cup {q}
  BY DEF Begun, TypeOK
<1>2. Cardinality(Begun') = Cardinality(Begun) + 1
  BY <1>1, BegunBound, FS_AddElement
<1>3. Begun' \subseteq Creators
  BY DEF Begun
<1>4. Cardinality(Begun') <= Cardinality(Creators)
  BY <1>3, CreatorsAssumption, FS_Subset
<1>5. clock \in Nat
  BY StampsAreNaturals DEF TypeOK
<1>6. QED
  BY <1>2, <1>4, <1>5, BegunBound, StampsAreNaturals DEF Counted

\* A creator that had begun goes on.
LEMMA SameBegun ==
  ASSUME TypeOK, Counted, UNCHANGED clock,
         \/ UNCHANGED creating
         \/ \E q \in Creators :
              creating[q] = "insert" /\ creating' = [creating EXCEPT ![q] = "done"]
  PROVE  Counted'
<1>1. Begun' = Begun
  BY DEF Begun, TypeOK
<1>2. QED
  BY <1>1 DEF Counted

LEMMA CheckInv ==
  ASSUME Inv, NEW q \in Creators, CreateCheck(q)
  PROVE  Inv'
<1>0. TypeOK /\ Counted /\ clock \in Nat
  BY StampsAreNaturals DEF Inv, TypeOK
<1>1. CASE Newest = 0
  <2>1. clock' = clock + 1 /\ stamp' = [stamp EXCEPT ![q] = clock + 1]
        /\ creating' = [creating EXCEPT ![q] = "insert"]
        /\ UNCHANGED <<rows, moving, claimed, owners>>
    BY <1>1 DEF CreateCheck
  <2>2. clock + 1 <= Cardinality(Begun') /\ clock + 1 <= Cardinality(Creators)
    BY <1>0, <2>1, OneMoreBegun DEF CreateCheck
  <2>3. clock + 1 \in Stamps
    BY <1>0, <2>2, StampsAreNaturals DEF Stamps
  <2>4. TypeOK'
    BY <1>0, <2>1, <2>2, <2>3, StampsAreNaturals DEF TypeOK
  <2>5. Counted'
    BY <2>1, <2>2 DEF Counted
  <2>6. Stamped'
    BY <1>0, <2>1, <2>3, StampsAreNaturals DEF Inv, Stamped, TypeOK
  <2>7. Claims' /\ OneClaimant' /\ Owned' /\ Entitled'
    BY <2>1 DEF Inv, Claims, OneClaimant, Owned, Entitled
  <2>8. QED
    BY <2>4, <2>5, <2>6, <2>7 DEF Inv
<1>2. CASE Newest # 0
  <2>1. creating' = [creating EXCEPT ![q] = "done"]
        /\ UNCHANGED <<clock, stamp, rows, moving, claimed, owners>>
    BY <1>2 DEF CreateCheck
  <2>2. TypeOK'
    BY <1>0, <2>1 DEF TypeOK
  <2>3. Counted'
    <3>1. Cardinality(Begun') = Cardinality(Begun) + 1
      BY <1>0, <2>1, OneMoreBegun DEF CreateCheck
    <3>2. QED
      BY <1>0, <2>1, <3>1, BegunBound DEF Counted
  <2>4. Stamped'
    BY <1>0, <2>1 DEF Inv, Stamped, TypeOK
  <2>5. Claims' /\ OneClaimant' /\ Owned' /\ Entitled'
    BY <2>1 DEF Inv, Claims, OneClaimant, Owned, Entitled
  <2>6. QED
    BY <2>2, <2>3, <2>4, <2>5 DEF Inv
<1>3. QED
  BY <1>1, <1>2

LEMMA InsertInv ==
  ASSUME Inv, NEW q \in Creators, CreateInsert(q)
  PROVE  Inv'
<1>0. TypeOK /\ Counted /\ clock \in 0 .. Cardinality(Creators)
  BY DEF Inv, TypeOK
<1>1. stamp[q] \in 1 .. clock /\ stamp[q] \in Stamps /\ rows[stamp[q]] = Missing
  BY <1>0, StampsAreNaturals DEF Inv, Stamped, CreateInsert, Stamps
<1>2. TypeOK'
  BY <1>0, <1>1 DEF TypeOK, CreateInsert, Row
<1>3. Counted'
  BY <1>0, SameBegun DEF CreateInsert
<1>4. Stamped'
  BY <1>0, <1>1, StampsAreNaturals DEF Inv, Stamped, CreateInsert, TypeOK
<1>5. Claims'
  BY <1>0, <1>1 DEF Inv, Claims, CreateInsert, TypeOK, Missing
<1>6. OneClaimant' /\ Entitled'
  BY DEF Inv, OneClaimant, Entitled, CreateInsert
<1>7. Owned'
  BY <1>0, <1>1 DEF Inv, Owned, CreateInsert, TypeOK
<1>8. QED
  BY <1>2, <1>3, <1>4, <1>5, <1>6, <1>7 DEF Inv

\* What a row that was taken or passed on does to the invariant, whoever did it.
LEMMA AssignInv ==
  ASSUME Inv, NEW i \in Stamps, NEW a \in Staff, NEW st \in {"in_progress", "closed"},
         rows[i].status \in {"pending", "in_progress"}, Assign(i, st, a),
         UNCHANGED <<clock, creating, stamp>>
  PROVE  /\ rows' \in [Stamps -> Row] /\ owners' \in [Stamps -> SUBSET Staff]
         /\ Counted' /\ Stamped' /\ Owned'
         /\ \A j \in Stamps : owners[j] \subseteq owners'[j]
<1>0. TypeOK
  BY DEF Inv
<1>1. rows' \in [Stamps -> Row] /\ owners' \in [Stamps -> SUBSET Staff]
  BY <1>0 DEF TypeOK, Assign, Row
<1>2. Counted'
  BY <1>0, SameBegun DEF Inv
<1>3. Stamped'
  BY <1>0, StampsAreNaturals DEF Inv, Stamped, Assign, TypeOK, Missing
<1>4. Owned'
  BY <1>0 DEF Inv, Owned, Assign, TypeOK
<1>5. \A j \in Stamps : owners[j] \subseteq owners'[j]
  BY <1>0 DEF Assign, TypeOK
<1>6. QED
  BY <1>1, <1>2, <1>3, <1>4, <1>5

LEMMA ClaimInv ==
  ASSUME Inv, NEW s \in Staff, NEW i \in Stamps, Claim(s, i)
  PROVE  Inv'
<1>0. TypeOK
  BY DEF Inv
<1>1. /\ rows' \in [Stamps -> Row] /\ owners' \in [Stamps -> SUBSET Staff]
      /\ Counted' /\ Stamped' /\ Owned'
      /\ \A j \in Stamps : owners[j] \subseteq owners'[j]
  BY AssignInv DEF Claim
<1>2. TypeOK'
  BY <1>0, <1>1 DEF TypeOK, Claim
<1>3. Claims' /\ OneClaimant'
  BY <1>0 DEF Inv, Claims, OneClaimant, Claim, Assign, TypeOK
<1>4. Entitled'
  BY <1>1 DEF Inv, Entitled, Claim
<1>5. QED
  BY <1>1, <1>2, <1>3, <1>4 DEF Inv

LEMMA CloseInv ==
  ASSUME Inv, NEW s \in Staff, NEW i \in Stamps, Close(s, i)
  PROVE  Inv'
<1>0. TypeOK
  BY DEF Inv
<1>1. /\ rows' \in [Stamps -> Row] /\ owners' \in [Stamps -> SUBSET Staff]
      /\ Counted' /\ Stamped' /\ Owned'
      /\ \A j \in Stamps : owners[j] \subseteq owners'[j]
  BY AssignInv DEF Close
<1>2. TypeOK'
  BY <1>0, <1>1 DEF TypeOK, Close
<1>3. Claims' /\ OneClaimant'
  BY <1>0 DEF Inv, Claims, OneClaimant, Close, Assign, TypeOK
<1>4. Entitled'
  BY <1>1 DEF Inv, Entitled, Close
<1>5. QED
  BY <1>1, <1>2, <1>3, <1>4 DEF Inv

LEMMA TransferCheckInv ==
  ASSUME Inv, NEW s \in Staff, NEW i \in Stamps, NEW to \in Staff, TransferCheck(s, i, to)
  PROVE  Inv'
<1>0. TypeOK
  BY DEF Inv
<1>1. s \in owners[i] \cup Supervisors
  BY DEF Inv, Owned, TransferCheck
<1>2. TypeOK'
  BY <1>0 DEF TypeOK, TransferCheck
<1>3. Counted'
  BY <1>0, SameBegun DEF Inv, TransferCheck
<1>4. Stamped' /\ Claims' /\ OneClaimant' /\ Owned'
  BY DEF Inv, Stamped, Claims, OneClaimant, Owned, TransferCheck
<1>5. Entitled'
  BY <1>0, <1>1 DEF Inv, Entitled, TransferCheck, TypeOK
<1>6. QED
  BY <1>2, <1>3, <1>4, <1>5 DEF Inv

LEMMA TransferWriteInv ==
  ASSUME Inv, NEW s \in Staff, TransferWrite(s)
  PROVE  Inv'
<1>0. TypeOK /\ moving[s].row \in Stamps /\ moving[s].to \in Staff
  BY DEF Inv, Entitled, TransferWrite
<1>1. CASE rows[moving[s].row].status = "in_progress"
  <2>0. Assign(moving[s].row, "in_progress", moving[s].to)
    BY <1>1 DEF TransferWrite
  <2>1. /\ rows' \in [Stamps -> Row] /\ owners' \in [Stamps -> SUBSET Staff]
        /\ Counted' /\ Stamped' /\ Owned'
        /\ \A j \in Stamps : owners[j] \subseteq owners'[j]
    BY <1>0, <1>1, <2>0, AssignInv DEF TransferWrite
  <2>2. TypeOK'
    BY <1>0, <2>1 DEF TypeOK, TransferWrite, Still
  <2>3. Claims' /\ OneClaimant'
    BY <1>0, <1>1, <2>0 DEF Inv, Claims, OneClaimant, TransferWrite, Assign, TypeOK
  <2>4. Entitled'
    BY <1>0, <2>1 DEF Inv, Entitled, TransferWrite, TypeOK
  <2>5. QED
    BY <2>1, <2>2, <2>3, <2>4 DEF Inv
<1>2. CASE rows[moving[s].row].status # "in_progress"
  <2>1. TypeOK'
    BY <1>0, <1>2 DEF TypeOK, TransferWrite, Still
  <2>2. Counted'
    BY <1>0, <1>2, SameBegun DEF Inv, TransferWrite
  <2>3. Stamped' /\ Claims' /\ OneClaimant' /\ Owned'
    BY <1>2 DEF Inv, Stamped, Claims, OneClaimant, Owned, TransferWrite
  <2>4. Entitled'
    BY <1>0, <1>2 DEF Inv, Entitled, TransferWrite, TypeOK
  <2>5. QED
    BY <2>1, <2>2, <2>3, <2>4 DEF Inv
<1>3. QED
  BY <1>1, <1>2

LEMMA StepInv == Inv /\ [Next]_vars => Inv'
<1> SUFFICES ASSUME Inv, [Next]_vars PROVE Inv'
  OBVIOUS
<1>1. CASE \E q \in Creators : Create(q)
  BY <1>1, CheckInv, InsertInv DEF Create
<1>2. CASE \E s \in Staff : Work(s)
  BY <1>2, ClaimInv, CloseInv, TransferCheckInv, TransferWriteInv DEF Work
<1>3. CASE UNCHANGED vars
  <2>1. TypeOK'
    BY <1>3 DEF Inv, TypeOK, vars
  <2>2. Counted'
    BY <1>3, SameBegun DEF Inv, vars
  <2>3. Stamped' /\ Claims' /\ OneClaimant' /\ Owned' /\ Entitled'
    BY <1>3 DEF Inv, Stamped, Claims, OneClaimant, Owned, Entitled, vars
  <2>4. QED
    BY <2>1, <2>2, <2>3 DEF Inv
<1>4. QED
  BY <1>1, <1>2, <1>3 DEF Next, Idle

LEMMA Invariance == Spec => []Inv
<1>1. QED
  BY InitInv, StepInv, PTL DEF Spec

-----------------------------------------------------------------------------
\* TypeCorrect: the queue keeps its types; in particular no creator is ever given
\* a created_at that names no row.
THEOREM TypeCorrect == Spec => []TypeOK
<1>1. Inv => TypeOK
  BY DEF Inv
<1>2. QED
  BY <1>1, Invariance, PTL

\* OneWinner: of all the staff that claim one row, only one is answered OK.
THEOREM OneWinner == Spec => []OneClaimant
<1>1. Inv => OneClaimant
  BY DEF Inv
<1>2. QED
  BY <1>1, Invariance, PTL

\* A claim, a close or a write of a transfer is the only thing that moves a row
\* that is in progress, and only the write leaves it in progress.
LEMMA StepTransfers ==
  ASSUME Inv, [Next]_vars, NEW i \in Stamps,
         rows[i].status = "in_progress", rows'[i].status = "in_progress",
         rows'[i].agent # rows[i].agent
  PROVE  \E s \in owners[i] \cup Supervisors :
           moving[s].row = i /\ moving[s].to = rows'[i].agent
<1>0. TypeOK
  BY DEF Inv
<1>1. CASE \E q \in Creators : CreateCheck(q)
  BY <1>1 DEF CreateCheck
<1>2. ASSUME NEW q \in Creators, CreateInsert(q) PROVE FALSE
  <2>1. stamp[q] # i
    BY <1>2 DEF Inv, Stamped, CreateInsert, Missing
  <2>2. QED
    BY <1>0, <1>2, <2>1 DEF CreateInsert, TypeOK
<1>3. ASSUME NEW s \in Staff, NEW j \in Stamps, Claim(s, j) \/ Close(s, j) PROVE FALSE
  <2>1. CASE j = i
    BY <1>0, <1>3, <2>1 DEF Claim, Close, Assign, TypeOK
  <2>2. CASE j # i
    BY <1>0, <1>3, <2>2 DEF Claim, Close, Assign, TypeOK
  <2>3. QED
    BY <2>1, <2>2
<1>4. CASE \E s \in Staff, j \in Stamps, to \in Staff : TransferCheck(s, j, to)
  BY <1>4 DEF TransferCheck
<1>5. ASSUME NEW s \in Staff, TransferWrite(s)
      PROVE  s \in owners[i] \cup Supervisors /\ moving[s].row = i /\ moving[s].to = rows'[i].agent
  <2>1. moving[s].row = i
    BY <1>0, <1>5 DEF TransferWrite, Assign, TypeOK
  <2>2. QED
    BY <1>0, <1>5, <2>1 DEF Inv, Entitled, TransferWrite, Assign, TypeOK
<1>6. CASE UNCHANGED vars
  BY <1>6 DEF vars
<1>7. QED
  BY <1>1, <1>2, <1>3, <1>4, <1>5, <1>6 DEF Next, Create, Work, Idle

\* HandsChangeByOwners: a row changes hands only through a transfer that a
\* supervisor, or someone the row was assigned to, had been allowed to make.
THEOREM HandsChangeByOwners == Spec => TransferredByOwner
<1>1. Inv /\ [Next]_vars =>
        [\A i \in Stamps :
           rows[i].status = "in_progress" /\ rows'[i].status = "in_progress"
             /\ rows'[i].agent # rows[i].agent =>
               \E s \in owners[i] \cup Supervisors :
                 moving[s].row = i /\ moving[s].to = rows'[i].agent]_vars
  BY StepTransfers
<1>2. QED
  BY <1>1, Invariance, PTL DEF Spec, TransferredByOwner

-----------------------------------------------------------------------------
LEMMA InitRows == Init => Rows!Init
  BY DEF Init, Rows!Init, Missing, Rows!Missing

LEMMA StepRows == Inv /\ [Next]_vars => [Rows!Next]_rows
<1> SUFFICES ASSUME Inv, [Next]_vars, rows' # rows PROVE Rows!Next
  OBVIOUS
<1> USE DEF Rows!Next, Rows!Becomes
<1>0. TypeOK
  BY DEF Inv
<1>1. ASSUME NEW q \in Creators, CreateInsert(q) PROVE Rows!Next
  <2>1. stamp[q] \in Stamps /\ rows[stamp[q]] = Missing
    BY <1>0, <1>1, StampsAreNaturals DEF Inv, Stamped, CreateInsert, TypeOK, Stamps
  <2>2. Rows!Open(stamp[q])
    BY <1>1, <2>1 DEF CreateInsert, Rows!Open, Missing, Rows!Missing
  <2>3. QED
    BY <2>1, <2>2
<1>2. ASSUME NEW s \in Staff, NEW i \in Stamps, Claim(s, i) PROVE Rows!Next
  BY <1>2 DEF Claim, Assign, Rows!Take
<1>3. ASSUME NEW s \in Staff, NEW i \in Stamps, Close(s, i) PROVE Rows!Next
  BY <1>3 DEF Close, Assign, Rows!Finish
<1>4. ASSUME NEW s \in Staff, TransferWrite(s) PROVE Rows!Next
  <2>1. moving[s].row \in Stamps /\ moving[s].to \in Staff
    BY <1>4 DEF Inv, Entitled, TransferWrite
  <2>2. Rows!Pass(moving[s].row, moving[s].to)
    BY <1>4 DEF TransferWrite, Assign, Rows!Pass
  <2>3. QED
    BY <2>1, <2>2
<1>5. CASE \E q \in Creators : CreateCheck(q)
  BY <1>5 DEF CreateCheck
<1>6. CASE \E s \in Staff, i \in Stamps, to \in Staff : TransferCheck(s, i, to)
  BY <1>6 DEF TransferCheck
<1>7. QED
  BY <1>1, <1>2, <1>3, <1>4, <1>5, <1>6 DEF Next, Create, Work, Idle, vars

\* QueueImplementsLifecycle: every row of the queue lives as HandoffLifecycle
\* describes, for any number of concurrent creates, claims, transfers and closes.
THEOREM QueueImplementsLifecycle == Spec => Lifecycle
<1>1. QED
  BY InitRows, StepRows, Invariance, PTL DEF Spec, Lifecycle, Rows!Spec
=============================================================================
