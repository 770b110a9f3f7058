------------------------ MODULE OrderService_proofs -------------------------
(***************************************************************************)
(* Proofs about OrderService, for every set of clients, orders, keys and   *)
(* requests and every choice of faults.                                    *)
(*                                                                         *)
(* The inductive invariant has five parts.  Control says what a request's  *)
(* program counter and mode imply; Tables is what the two committed tables *)
(* satisfy; Locks relates uncommitted writes to the tables and to each     *)
(* other; Places says where shared locks on a key's place come from;       *)
(* Faithful says that, until a transaction is lost, every Redis     *)
(* entry and every match found through one is backed by the event table or *)
(* by a request that has inserted its event.                               *)
(***************************************************************************)
EXTENDS OrderService, TLAPS

Finding == {"find", "findEvent", "findLegacy", "findOther"}
Writing == {"put", "insert", "remember"}

ControlOf(c) ==
  /\ pc[c] \in Finding => /\ req[c].op \in Ops /\ req[c].key \in Keys
                          /\ mode[c] # "replay" /\ ~ inserted[c]
  /\ pc[c] \in {"load", "loadDb", "fill"} => mode[c] # "recover" /\ ~ inserted[c]
  /\ pc[c] \in {"check", "update"} => mode[c] = "execute"
  /\ pc[c] \in Writing \cup {"update", "commit"} => req[c].op \in Ops
  /\ pc[c] \in Writing => write[c] # Absent /\ mode[c] = "execute"
  /\ pc[c] = "insert" => ~ inserted[c]
  /\ pc[c] = "remember" => inserted[c] /\ req[c].key \in Keys
  /\ pc[c] = "commit" => inserted[c] \/ mode[c] = "replay"
  /\ pc[c] \in {"idle", "done"} => write[c] = Absent
  /\ pc[c] = "idle" => mode[c] = "execute"
  /\ mode[c] = "execute" /\ write[c] # Absent => pc[c] \in Writing \cup {"commit"}
  /\ mode[c] = "replay" => req[c].key \in Keys /\ req[c].op \in Ops
  /\ pc[c] \in Writing \cup {"fill", "check", "update", "commit"} => ord[c] # Absent
  /\ view[c].hits \subseteq {e \in events : e.key = req[c].key}

Control == \A c \in Clients : ControlOf(c)

Tables ==
  /\ \A e \in events : /\ rows[e.order] # Absent
                       /\ Shows(e.op, rows[e.order])
                       /\ e.print.order = e.order
                       /\ e.print.kind \in {e.op, "legacy"}
  /\ \A e, f \in events : e.order = f.order => e = f
  /\ \A e, f \in events : e.key = f.key /\ e.key # NoKey => e = f
  /\ \A o \in Orders : ~ (rows[o].pay = "refunded" /\ rows[o].status = "canceled")

LocksOf(c) ==
  /\ write[c] # Absent =>
       /\ req[c].op \in Ops
       /\ Updatable(req[c].op, rows[req[c].order])
       /\ write[c] = Applied(req[c].op, rows[req[c].order])
       /\ \A d \in Clients \ {c} : write[d] # Absent => req[d].order # req[c].order
  /\ inserted[c] =>
       /\ write[c] # Absent
       /\ pc[c] \in {"remember", "commit"}
       /\ req[c].key # NoKey =>
            /\ \A e \in events : e.key # req[c].key
            /\ \A d \in Clients \ {c} : inserted[d] => req[d].key # req[c].key

Locks == \A c \in Clients : LocksOf(c)

\* An entry is backed by its event, stored or being committed.
Backed(k, p) ==
  \/ \E e \in events : e.key = k /\ e.print = p
  \/ \E d \in Clients : inserted[d] /\ req[d].key = k /\ p = Fingerprint(req[d])

\* The request's operation was done under its key, or is being committed.
Evidence(c) ==
  \/ \E e \in events : e.key = req[c].key /\ e.order = req[c].order /\ e.op = req[c].op
  \/ /\ req[c].key # NoKey
     /\ \E d \in Clients : /\ inserted[d] /\ req[d].key = req[c].key
                           /\ req[d].order = req[c].order /\ req[d].op = req[c].op

Faithful ==
  ~ lost =>
    /\ \A k \in Keys : \A p \in idemCache[k] : p # TicketPrint => Backed(k, p)
    /\ \A c \in Clients : pc[c] = "findLegacy" =>
         \E e \in events : e.key = req[c].key /\ e.print = LegacyFingerprint(req[c])
    /\ \A c \in Clients : mode[c] = "replay" => write[c] = Absent
    /\ \A c \in Clients : mode[c] = "replay" \/ Succeeded(c) => Evidence(c)
    /\ LedgerComplete

\* Only an insert asks for a lock on the place of its key; a shared lock is
\* left by a commit, which stored the event, or by a rollback.
Places ==
  \A c \in Clients :
    /\ keyLock[c] # "none" => pc[c] = "insert" /\ req[c].key # NoKey
    /\ keyLock[c] = "shared" => lost \/ Duplicate(c)

IInv == TypeOK /\ Control /\ Tables /\ Locks /\ Places /\ Faithful
-----------------------------------------------------------------------------
(* Facts about the data. *)

\* An operation applied to a row gives a row that shows it.
LEMMA AppliedRow ==
  ASSUME NEW op \in Ops, NEW row \in Row
  PROVE  /\ Applied(op, row) \in Row
         /\ Applied(op, row) # Absent
         /\ Shows(op, Applied(op, row))
  BY DEF Ops, Row, Applied, Shows, Absent

\* The WHERE clause lets an operation through only on a row that shows neither
\* operation; the row written shows that operation and not the other.
LEMMA UpdatableRow ==
  ASSUME NEW op \in Ops, NEW row \in Row \cup {Absent}, Updatable(op, row)
  PROVE  /\ row \in Row
         /\ \A p \in Ops : ~ Shows(p, row)
         /\ \A p \in Ops : Shows(p, Applied(op, row)) <=> p = op
         /\ ~ (Applied(op, row).pay = "refunded" /\ Applied(op, row).status = "canceled")
  <1>1. row \in Row
    BY DEF Updatable
  <1>2. CASE op = "refund"
    BY <1>1, <1>2 DEF Ops, Row, Applied, Shows, Updatable
  <1>3. CASE op = "cancel"
    BY <1>1, <1>3 DEF Ops, Row, Applied, Shows, Updatable
  <1>4. QED
    BY <1>1, <1>2, <1>3 DEF Ops

\* Fingerprints and events are well formed; equal fingerprints name the same
\* operation on the same order.
LEMMA PrintFacts ==
  ASSUME NEW r \in Request, r.op \in Ops
  PROVE  /\ Fingerprint(r) \in Prints /\ Fingerprint(r) # TicketPrint
         /\ Fingerprint(r).order = r.order /\ Fingerprint(r).kind = r.op
         /\ LegacyFingerprint(r).order = r.order /\ LegacyFingerprint(r).kind = "legacy"
         /\ LegacyFingerprint(r) # TicketPrint
         /\ Fingerprint(r) # LegacyFingerprint(r)
         /\ EventFor(r) \in Event
  BY DEF Request, Fingerprint, LegacyFingerprint, TicketPrint, EventFor, Prints, Event, Ops

LEMMA VerdictCode ==
  ASSUME NEW r \in Request, NEW row \in Row
  PROVE  /\ Verdict(r, row) \in Codes \cup {"PROCEED"}
         /\ Verdict(r, row) = "OK" => r.op = "query"
         /\ Verdict(r, row) = "PROCEED" => r.op \in Ops
  BY DEF Verdict, Codes, Request, Ops

-----------------------------------------------------------------------------
(* Type correctness. *)

LEMMA InitInvariant == Init => IInv
  <1> SUFFICES ASSUME Init PROVE IInv
    OBVIOUS
  <1>1. PICK s \in Seeds : rows = s.rows /\ events = s.events /\ idemCache = s.idem
    BY DEF Init
  <1>2. LedgerOK(rows, events, idemCache)
    BY <1>1, SeedsAssumption
  <1>3. \A c \in Clients : req[c] \in Request
    BY RequestsAssumption DEF Init
  <1>4. TypeOK
    BY <1>2, <1>3, RequestsAssumption DEF Init, TypeOK, LedgerOK, Unread, Codes
  <1>5. Control
    BY DEF Init, Control, ControlOf, Unread, Finding, Writing
  <1>6. Tables
    <2>1. \A e \in events : e.order \in Orders /\ e.op \in Ops
      BY <1>4 DEF TypeOK, Event
    <2>2. \A o \in Orders : ~ (rows[o].pay = "refunded" /\ rows[o].status = "canceled")
      <3> SUFFICES ASSUME NEW o \in Orders, rows[o].pay = "refunded",
                          rows[o].status = "canceled"
                   PROVE  FALSE
        OBVIOUS
      <3>1. rows[o] # Absent
        BY DEF Absent
      <3>2. PICK e \in events : e.order = o /\ e.op = "refund"
        BY <3>1, <1>2 DEF LedgerOK, Ops, Shows
      <3>3. PICK f \in events : f.order = o /\ f.op = "cancel"
        BY <3>1, <1>2 DEF LedgerOK, Ops, Shows
      <3>4. QED
        BY <3>2, <3>3, <1>2 DEF LedgerOK
    <2>3. \A e \in events : rows[e.order] # Absent /\ Shows(e.op, rows[e.order])
      BY <2>1, <1>2 DEF LedgerOK
    <2>4. QED
      BY <1>2, <2>2, <2>3 DEF Tables, LedgerOK
  <1>7. Locks
    BY DEF Init, Locks, LocksOf
  <1>8. Faithful
    <2>1. \A k \in Keys : \A p \in idemCache[k] : Backed(k, p)
      BY <1>2 DEF LedgerOK, Backed
    <2>2. LedgerComplete
      BY <1>2 DEF LedgerComplete, LedgerOK
    <2>3. \A c \in Clients : pc[c] = "idle" /\ mode[c] = "execute" /\ ~ Succeeded(c)
      BY DEF Init, Succeeded
    <2>4. QED
      BY <2>1, <2>2, <2>3 DEF Faithful
  <1>9. Places
    BY DEF Init, Places
  <1>10. QED
    BY <1>4, <1>5, <1>6, <1>7, <1>8, <1>9 DEF IInv

LEMMA TypeStep == TypeOK /\ Control /\ [Next]_vars => TypeOK'
  <1> SUFFICES ASSUME TypeOK, Control, [Next]_vars PROVE TypeOK'
    OBVIOUS
  <1> USE DEF TypeOK, Goto, tables, caches
  <1>a. ASSUME NEW c \in Clients, NEW code \in Codes, NEW body \in Row \cup {Absent},
               Answer(c, code, body)
        PROVE  /\ pc' \in [Clients -> {"idle", "find", "findEvent", "findLegacy", "findOther",
                         "load", "loadDb", "fill", "check", "update", "put",
                         "insert", "remember", "commit", "done"}]
               /\ req' \in [Clients -> Request]
               /\ mode' \in [Clients -> {"execute", "recover", "replay"}]
               /\ ord' \in [Clients -> Row \cup {Absent}]
               /\ view' \in [Clients -> [taken: BOOLEAN, row: Row \cup {Absent}, hits: SUBSET Event]]
               /\ write' \in [Clients -> Row \cup {Absent}]
               /\ inserted' \in [Clients -> BOOLEAN]
               /\ keyLock' \in [Clients -> {"none", "asked", "shared"}]
               /\ reply' \in [Clients -> [code: Codes, body: Row \cup {Absent}]]
    BY <1>a DEF Answer, Unread, Granted
  <1>b. \A c \in Clients : req[c].order \in Orders /\ ReadView(c) \in
          [taken: BOOLEAN, row: Row \cup {Absent}, hits: SUBSET Event]
    BY DEF ReadView, Request
  <1>c. {"OK", "INVALID", "ORDER_NOT_FOUND", "REFUND_ALREADY_EXISTS", "CANCEL_ALREADY_EXISTS",
         "IDEMPOTENCY_KEY_CONFLICT", "ERROR"} \subseteq Codes
    BY DEF Codes
  \* An answer, from whatever step.
  <1>d. ASSUME NEW c \in Clients, NEW code \in Codes, NEW body \in Row \cup {Absent},
               Answer(c, code, body), UNCHANGED <<lost, tables, caches>>
        PROVE  TypeOK'
    <2>1. /\ rows' \in [Orders -> Row \cup {Absent}] /\ events' \in SUBSET Event
          /\ orderCache' \in [Orders -> Row \cup {Absent}]
          /\ idemCache' \in [Keys -> SUBSET (Prints \cup {TicketPrint})]
          /\ lost' \in BOOLEAN
      BY <1>d
    <2>2. QED
      BY <1>a, <1>d, <2>1
  <1>e. ASSUME NEW c \in Clients, NoMatch(c) \/ Match(c) \/ Conflict(c),
               UNCHANGED <<lost, tables, caches>>
        PROVE  TypeOK'
    <2>1. CASE mode[c] = "recover" /\ NoMatch(c)
      <3>1. Answer(c, "ERROR", Absent) /\ "ERROR" \in Codes
        BY <1>c, <2>1 DEF NoMatch
      <3>2. QED
        BY <1>e, <1>d, <3>1
    <2>2. CASE mode[c] # "recover" /\ NoMatch(c)
      <3> HIDE DEF TypeOK
      <3>1. /\ pc' = [pc EXCEPT ![c] = "load"] /\ view' = [view EXCEPT ![c] = ReadView(c)]
            /\ UNCHANGED <<req, mode, ord, write, inserted, keyLock, reply>>
        BY <2>2 DEF NoMatch
      <3>2. view' \in [Clients -> [taken: BOOLEAN, row: Row \cup {Absent}, hits: SUBSET Event]]
        BY <1>b, <3>1 DEF TypeOK
      <3>3. QED
        BY <1>e, <3>1, <3>2 DEF TypeOK
    <2>3. CASE Match(c)
      <3> HIDE DEF TypeOK
      <3>1. /\ pc' = [pc EXCEPT ![c] = "load"] /\ mode' = [mode EXCEPT ![c] = "replay"]
            /\ view' = [view EXCEPT ![c] = ReadView(c)]
            /\ UNCHANGED <<req, ord, write, inserted, keyLock, reply>>
        BY <2>3 DEF Match
      <3>2. view' \in [Clients -> [taken: BOOLEAN, row: Row \cup {Absent}, hits: SUBSET Event]]
        BY <1>b, <3>1 DEF TypeOK
      <3>3. QED
        BY <1>e, <3>1, <3>2 DEF TypeOK
    <2>4. CASE Conflict(c)
      <3>1. Answer(c, "IDEMPOTENCY_KEY_CONFLICT", Absent) /\ "IDEMPOTENCY_KEY_CONFLICT" \in Codes
        BY <1>c, <2>4 DEF Conflict
      <3>2. QED
        BY <1>e, <1>d, <3>1
    <2>5. QED
      BY <1>e, <2>1, <2>2, <2>3, <2>4
  <1>1. ASSUME NEW c \in Clients, Receive(c) PROVE TypeOK'
    BY <1>a, <1>c, <1>1 DEF Receive
  <1>2. ASSUME NEW c \in Clients, FindCached(c) PROVE TypeOK'
    BY <1>2 DEF FindCached
  <1>3. ASSUME NEW c \in Clients, FindEvent(c) PROVE TypeOK'
    BY <1>e, <1>3 DEF FindEvent
  <1>4. ASSUME NEW c \in Clients, FindLegacy(c) PROVE TypeOK'
    BY <1>e, <1>4 DEF FindLegacy
  <1>5. ASSUME NEW c \in Clients, FindOther(c) PROVE TypeOK'
    BY <1>e, <1>5 DEF FindOther
  <1>6. ASSUME NEW c \in Clients, LoadCached(c) PROVE TypeOK'
    <2> HIDE DEF TypeOK
    <2>1. \/ /\ ord' = [ord EXCEPT ![c] = orderCache[req[c].order]]
             /\ \E n \in {"check", "commit"} : pc' = [pc EXCEPT ![c] = n]
          \/ pc' = [pc EXCEPT ![c] = "loadDb"] /\ UNCHANGED ord
      BY <1>6 DEF LoadCached, AfterLoad
    <2>2. ord' \in [Clients -> Row \cup {Absent}]
      BY <1>b, <2>1 DEF TypeOK
    <2>3. UNCHANGED <<lost, tables, caches, req, mode, view, write, inserted, keyLock, reply>>
      BY <1>6 DEF LoadCached
    <2>4. \E n \in {"check", "commit", "loadDb"} : pc' = [pc EXCEPT ![c] = n]
      BY <2>1
    <2>5. QED
      BY <2>2, <2>3, <2>4 DEF TypeOK
  <1>7. ASSUME NEW c \in Clients, LoadDb(c) PROVE TypeOK'
    <2>1. VisibleRow(c) \in Row \cup {Absent}
      BY <1>b DEF VisibleRow
    <2>2. CASE VisibleRow(c) = Absent
      <3>1. /\ Answer(c, "ORDER_NOT_FOUND", Absent) /\ "ORDER_NOT_FOUND" \in Codes
            /\ UNCHANGED <<lost, tables, caches>>
        BY <1>c, <1>7, <2>2 DEF LoadDb
      <3>2. QED
        BY <1>d, <3>1
    <2>3. CASE VisibleRow(c) # Absent
      <3> HIDE DEF TypeOK
      <3>1. /\ pc' = [pc EXCEPT ![c] = "fill"] /\ ord' = [ord EXCEPT ![c] = VisibleRow(c)]
            /\ view' = view \/ view' = [view EXCEPT ![c] = ReadView(c)]
            /\ UNCHANGED <<lost, tables, caches, req, mode, write, inserted, keyLock, reply>>
        BY <1>7, <2>3 DEF LoadDb
      <3>2. ord' \in [Clients -> Row \cup {Absent}]
        BY <2>1, <3>1 DEF TypeOK
      <3>3. view' \in [Clients -> [taken: BOOLEAN, row: Row \cup {Absent}, hits: SUBSET Event]]
        BY <1>b, <3>1 DEF TypeOK
      <3>4. QED
        BY <3>1, <3>2, <3>3 DEF TypeOK
    <2>4. QED
      BY <2>2, <2>3
  <1>8. ASSUME NEW c \in Clients, Fill(c) PROVE TypeOK'
    BY <1>b, <1>8 DEF Fill, PutSnapshot, AfterLoad
  <1>9. ASSUME NEW c \in Clients, Check(c) PROVE TypeOK'
    <2>1. ord[c] \in Row
      BY <1>9 DEF Check, Control, ControlOf
    <2>2. Verdict(req[c], ord[c]) \in Codes \cup {"PROCEED"}
      BY <2>1, VerdictCode
    <2>3. CASE Verdict(req[c], ord[c]) = "PROCEED"
      BY <1>9, <2>3 DEF Check
    <2>4. CASE Verdict(req[c], ord[c]) # "PROCEED"
      <3> DEFINE body == IF Verdict(req[c], ord[c]) = "OK" THEN ord[c] ELSE Absent
      <3>1. /\ Answer(c, Verdict(req[c], ord[c]), body) /\ UNCHANGED <<lost, tables, caches>>
            /\ Verdict(req[c], ord[c]) \in Codes
        BY <1>9, <2>2, <2>4 DEF Check
      <3>2. body \in Row \cup {Absent}
        BY <2>1
      <3> HIDE DEF body
      <3>3. QED
        BY <1>d, <3>1, <3>2
    <2>5. QED
      BY <2>3, <2>4
  <1>10. ASSUME NEW c \in Clients, Update(c) PROVE TypeOK'
    <2>1. ord[c] \in Row /\ req[c].op \in Ops
      BY <1>10 DEF Update, Control, ControlOf
    <2>2. CASE Updatable(req[c].op, rows[req[c].order])
      <3>1. Applied(req[c].op, rows[req[c].order]) \in Row
        BY <1>b, <2>1, <2>2, AppliedRow DEF Updatable
      <3>2. Applied(req[c].op, ord[c]) \in Row
        BY <2>1, AppliedRow
      <3> HIDE DEF TypeOK
      <3>3. /\ write' = [write EXCEPT ![c] = Applied(req[c].op, rows[req[c].order])]
            /\ ord' = [ord EXCEPT ![c] = Applied(req[c].op, ord[c])]
            /\ pc' = [pc EXCEPT ![c] = "put"]
            /\ UNCHANGED <<lost, tables, caches, req, mode, view, inserted, keyLock, reply>>
        BY <1>10, <2>2 DEF Update
      <3>4. write' \in [Clients -> Row \cup {Absent}] /\ ord' \in [Clients -> Row \cup {Absent}]
        BY <3>1, <3>2, <3>3 DEF TypeOK
      <3>5. QED
        BY <3>3, <3>4 DEF TypeOK
    <2>3. CASE ~ Updatable(req[c].op, rows[req[c].order])
      <3>1. AlreadyExists(req[c].op) \in Codes
        BY <1>c DEF AlreadyExists
      <3>2. Answer(c, AlreadyExists(req[c].op), Absent) /\ UNCHANGED <<lost, tables, caches>>
        BY <1>10, <2>3 DEF Update
      <3>3. QED
        BY <1>d, <3>1, <3>2
    <2>4. QED
      BY <2>2, <2>3
  <1>11. ASSUME NEW c \in Clients, PutOrder(c) PROVE TypeOK'
    BY <1>b, <1>11 DEF PutOrder, PutSnapshot
  <1>12. ASSUME NEW c \in Clients, Insert(c) PROVE TypeOK'
    BY <1>12 DEF Insert
  <1>13. ASSUME NEW c \in Clients, Remember(c) PROVE TypeOK'
    <2>1. Fingerprint(req[c]) \in Prints
      BY <1>13, PrintFacts DEF Remember, Control, ControlOf, Writing
    <2>2. {Fingerprint(req[c])} \in SUBSET (Prints \cup {TicketPrint})
      BY <2>1
    <2>3. idemCache' \in [Keys -> SUBSET (Prints \cup {TicketPrint})]
      BY <1>13, <2>2 DEF Remember
    <2>4. QED
      BY <1>13, <2>3 DEF Remember
  <1>14. ASSUME NEW c \in Clients, Commit(c) PROVE TypeOK'
    <2>1. Answer(c, "OK", ord[c]) /\ UNCHANGED <<lost, caches>>
      BY <1>14 DEF Commit
    <2>2. rows' \in [Orders -> Row \cup {Absent}]
      BY <1>b, <1>14 DEF Commit
    <2>3. events' \in SUBSET Event
      <3>1. CASE inserted[c]
        BY <1>14, <3>1, PrintFacts DEF Commit, Control, ControlOf
      <3>2. CASE ~ inserted[c]
        BY <1>14, <3>2 DEF Commit
      <3>3. QED
        BY <3>1, <3>2
    <2>4. QED
      BY <1>a, <1>c, <2>1, <2>2, <2>3
  <1>15. ASSUME NEW c \in Clients, DbFault(c) PROVE TypeOK'
    BY <1>a, <1>c, <1>15 DEF DbFault
  <1>16. ASSUME NEW o \in Orders, ExpireOrder(o) PROVE TypeOK'
    BY <1>16 DEF ExpireOrder
  <1>17. ASSUME NEW k \in Keys, ExpireKey(k) \/ TicketRemembers(k) PROVE TypeOK'
    BY <1>17 DEF ExpireKey, TicketRemembers
  <1>18. ASSUME NEW c \in Clients, AwaitKey(c) PROVE TypeOK'
    BY <1>18 DEF AwaitKey
  <1>19. ASSUME NEW c \in Clients, Deadlock(c) PROVE TypeOK'
    BY <1>a, <1>c, <1>19 DEF Deadlock
  <1>20. CASE UNCHANGED vars
    BY <1>20 DEF vars
  <1>21. QED
    BY <1>1, <1>2, <1>3, <1>4, <1>5, <1>6, <1>7, <1>8, <1>9, <1>10, <1>11, <1>12,
       <1>13, <1>14, <1>15, <1>16, <1>17, <1>18, <1>19, <1>20 DEF Next, Step, Finished

-----------------------------------------------------------------------------
(* A step of one request leaves the others where they are; the event table   *)
(* only grows, and only a commit changes the tables.                         *)

SameAt(d) ==
  /\ pc'[d] = pc[d] /\ req'[d] = req[d] /\ mode'[d] = mode[d] /\ ord'[d] = ord[d]
  /\ view'[d] = view[d] /\ write'[d] = write[d] /\ inserted'[d] = inserted[d]
  /\ reply'[d] = reply[d]

LEMMA Frame ==
  ASSUME TypeOK, NEW c \in Clients, Step(c) \/ DbFault(c)
  PROVE  /\ \A d \in Clients \ {c} : SameAt(d)
         /\ req' = req
         /\ events \subseteq events'
         /\ ~ Commit(c) => UNCHANGED tables
  <1> USE DEF TypeOK, Goto, Answer, SameAt, tables, caches
  <1>1. CASE Receive(c)
    BY <1>1 DEF Receive
  <1>2. CASE FindCached(c)
    BY <1>2 DEF FindCached
  <1>3. CASE FindEvent(c)
    BY <1>3 DEF FindEvent, NoMatch, Match, Conflict
  <1>4. CASE FindLegacy(c)
    BY <1>4 DEF FindLegacy, Match, Conflict
  <1>5. CASE FindOther(c)
    BY <1>5 DEF FindOther, NoMatch, Conflict
  <1>6. CASE LoadCached(c)
    BY <1>6 DEF LoadCached
  <1>7. CASE LoadDb(c)
    BY <1>7 DEF LoadDb
  <1>8. CASE Fill(c)
    BY <1>8 DEF Fill
  <1>9. CASE Check(c)
    BY <1>9 DEF Check
  <1>10. CASE Update(c)
    BY <1>10 DEF Update
  <1>11. CASE PutOrder(c)
    BY <1>11 DEF PutOrder
  <1>12. CASE Insert(c)
    BY <1>12 DEF Insert
  <1>13. CASE Remember(c)
    BY <1>13 DEF Remember
  <1>14. CASE Commit(c)
    BY <1>14 DEF Commit
  <1>15. CASE DbFault(c)
    BY <1>15 DEF DbFault
  <1>16. CASE AwaitKey(c) \/ Deadlock(c)
    BY <1>16 DEF AwaitKey, Deadlock
  <1>17. QED
    BY <1>1, <1>2, <1>3, <1>4, <1>5, <1>6, <1>7, <1>8, <1>9, <1>10, <1>11, <1>12,
       <1>13, <1>14, <1>15, <1>16 DEF Step

\* Steps that are nobody's: the tables and every request stay as they are.
Environment ==
  \/ \E o \in Orders : ExpireOrder(o)
  \/ \E k \in Keys : ExpireKey(k) \/ TicketRemembers(k)
  \/ Finished

LEMMA EnvironmentFrame ==
  ASSUME Environment \/ UNCHANGED vars
  PROVE  UNCHANGED <<tables, pc, req, mode, ord, view, write, inserted, keyLock, reply, lost>>
  BY DEF Environment, ExpireOrder, ExpireKey, TicketRemembers, Finished, vars, tables

LEMMA NextCases ==
  [Next]_vars => \/ \E c \in Clients : Step(c) \/ DbFault(c)
                \/ Environment
                \/ UNCHANGED vars
  BY DEF Next, Environment

-----------------------------------------------------------------------------
(* Control. *)

LEMMA ControlStep == TypeOK /\ Control /\ Locks /\ [Next]_vars => Control'
  <1> SUFFICES ASSUME TypeOK, Control, Locks, [Next]_vars PROVE Control'
    OBVIOUS
  <1>1. ASSUME NEW c \in Clients, Step(c) \/ DbFault(c)
        PROVE  Control'
    <2>1. \A d \in Clients \ {c} : ControlOf(d)'
      <3> SUFFICES ASSUME NEW d \in Clients \ {c} PROVE ControlOf(d)'
        OBVIOUS
      <3>1. ControlOf(d)
        BY DEF Control
      <3>2. SameAt(d) /\ events \subseteq events'
        BY <1>1, Frame
      <3>3. QED
        BY <3>1, <3>2 DEF ControlOf, SameAt
    <2>2. ControlOf(c)'
      <3> USE DEF TypeOK, Goto, tables, caches, Finding, Writing
      <3>a. ControlOf(c) /\ LocksOf(c)
        BY DEF Control, Locks
      <3>b. req[c] \in Request /\ req' = req /\ events \subseteq events'
        BY <1>1, Frame
      <3>c. ReadView(c).hits \subseteq {e \in events : e.key = req[c].key}
        BY <3>a DEF ControlOf, ReadView
      <3>d. ASSUME NEW code, NEW body, Answer(c, code, body), ~ inserted'[c],
                   mode[c] = "replay" => req[c].key \in Keys /\ req[c].op \in Ops
            PROVE  ControlOf(c)'
        BY <3>b, <3>d DEF Answer, ControlOf, Unread
      <3>e. ASSUME NoMatch(c) \/ Match(c) \/ Conflict(c), pc[c] \in Finding
            PROVE  ControlOf(c)'
        <4>1. CASE mode[c] = "recover" /\ NoMatch(c)
          BY <3>a, <3>d, <3>e, <4>1 DEF NoMatch, ControlOf, Answer
        <4>2. CASE mode[c] # "recover" /\ NoMatch(c)
          BY <3>a, <3>b, <3>c, <3>e, <4>2 DEF NoMatch, ControlOf
        <4>3. CASE Match(c)
          BY <3>a, <3>b, <3>c, <3>e, <4>3 DEF Match, ControlOf
        <4>4. CASE Conflict(c)
          BY <3>a, <3>d, <3>e, <4>4 DEF Conflict, ControlOf, Answer
        <4>5. QED
          BY <3>e, <4>1, <4>2, <4>3, <4>4
      <3>1. CASE Receive(c)
        <4>1. CASE req[c].op # "query" /\ req[c].note = TooLong
          BY <3>1, <3>a, <3>d, <4>1 DEF Receive, Answer, ControlOf
        <4>2. CASE ~ (req[c].op # "query" /\ req[c].note = TooLong)
          <5>1. ~ inserted[c] /\ mode[c] = "execute" /\ write[c] = Absent
            BY <3>1, <3>a DEF Receive, ControlOf, LocksOf
          <5>2. req[c].op # "query" /\ req[c].key # NoKey
                  => req[c].op \in Ops /\ req[c].key \in Keys
            BY <3>b DEF Request
          <5>3. QED
            BY <3>1, <3>a, <3>b, <4>2, <5>1, <5>2 DEF Receive, ControlOf
        <4>3. QED
          BY <4>1, <4>2
      <3>2. CASE FindCached(c)
        BY <3>2, <3>a, <3>b DEF FindCached, ControlOf
      <3>3. CASE FindEvent(c)
        BY <3>3, <3>e DEF FindEvent
      <3>4. CASE FindLegacy(c)
        BY <3>4, <3>e DEF FindLegacy
      <3>5. CASE FindOther(c)
        BY <3>5, <3>e DEF FindOther
      <3>6. CASE LoadCached(c)
        BY <3>6, <3>a, <3>b DEF LoadCached, ControlOf, AfterLoad, Request
      <3>7. CASE LoadDb(c)
        <4>1. CASE VisibleRow(c) = Absent
          BY <3>7, <3>a, <3>d, <4>1 DEF LoadDb, Answer, ControlOf
        <4>2. CASE VisibleRow(c) # Absent
          BY <3>7, <3>a, <3>b, <3>c, <4>2 DEF LoadDb, ControlOf
        <4>3. QED
          BY <4>1, <4>2
      <3>8. CASE Fill(c)
        BY <3>8, <3>a, <3>b DEF Fill, ControlOf, AfterLoad
      <3>9. CASE Check(c)
        <4>1. CASE Verdict(req[c], ord[c]) = "PROCEED"
          <5>1. ord[c] \in Row
            BY <3>9, <3>a DEF Check, ControlOf
          <5>2. req[c].op \in Ops
            BY <3>b, <5>1, <4>1, VerdictCode
          <5>3. QED
            BY <3>9, <3>a, <3>b, <4>1, <5>2 DEF Check, ControlOf, LocksOf
        <4>2. CASE Verdict(req[c], ord[c]) # "PROCEED"
          BY <3>9, <3>a, <3>d, <4>2 DEF Check, Answer, ControlOf
        <4>3. QED
          BY <4>1, <4>2
      <3>10. CASE Update(c)
        <4>1. CASE Updatable(req[c].op, rows[req[c].order])
          <5>1. req[c].op \in Ops /\ ord[c] \in Row /\ rows[req[c].order] \in Row
            BY <3>10, <3>a, <3>b, <4>1 DEF Update, ControlOf, Updatable, Request
          <5>2. /\ Applied(req[c].op, rows[req[c].order]) # Absent
                /\ Applied(req[c].op, ord[c]) # Absent
            BY <5>1, AppliedRow
          <5>3. ~ inserted[c]
            BY <3>10, <3>a DEF Update, LocksOf
          <5>4. QED
            BY <3>10, <3>a, <3>b, <4>1, <5>1, <5>2, <5>3 DEF Update, ControlOf
        <4>2. CASE ~ Updatable(req[c].op, rows[req[c].order])
          BY <3>10, <3>a, <3>d, <4>2 DEF Update, Answer, ControlOf
        <4>3. QED
          BY <4>1, <4>2
      <3>11. CASE PutOrder(c)
        BY <3>11, <3>a, <3>b DEF PutOrder, ControlOf, LocksOf
      <3>12. CASE Insert(c)
        <4>1. req[c].key \in Keys \cup {NoKey}
          BY <3>b DEF Request
        <4>2. QED
          BY <3>12, <3>a, <3>b, <4>1 DEF Insert, ControlOf, Duplicate
      <3>13. CASE Remember(c)
        BY <3>13, <3>a, <3>b DEF Remember, ControlOf
      <3>14. CASE Commit(c)
        BY <3>14, <3>a, <3>d DEF Commit, Answer, ControlOf
      <3>15. CASE DbFault(c)
        BY <3>15, <3>a, <3>d DEF DbFault, Answer, ControlOf
      <3>16. CASE AwaitKey(c)
        BY <3>16, <3>a, <3>b DEF AwaitKey, ControlOf
      <3>17. CASE Deadlock(c)
        BY <3>17, <3>a, <3>d DEF Deadlock, Answer, ControlOf
      <3>18. QED
        BY <1>1, <3>1, <3>2, <3>3, <3>4, <3>5, <3>6, <3>7, <3>8, <3>9, <3>10, <3>11,
           <3>12, <3>13, <3>14, <3>15, <3>16, <3>17 DEF Step
    <2>3. QED
      BY <2>1, <2>2 DEF Control
  <1>2. CASE Environment \/ UNCHANGED vars
    <2>1. UNCHANGED <<tables, pc, req, mode, ord, view, write, inserted, keyLock, reply, lost>>
      BY <1>2, EnvironmentFrame
    <2>2. QED
      BY <2>1 DEF Control, ControlOf, tables
  <1>3. QED
    BY <1>1, <1>2, NextCases

-----------------------------------------------------------------------------
(* Tables and Locks. *)

\* No event is stored on an order whose row is being settled.
LEMMA SettlingIsFirst ==
  ASSUME TypeOK, Tables, Locks, NEW c \in Clients, write[c] # Absent
  PROVE  /\ \A e \in events : e.order # req[c].order
         /\ req[c].op \in Ops /\ req[c].order \in Orders
         /\ rows[req[c].order] \in Row
         /\ write[c] \in Row /\ write[c] = Applied(req[c].op, rows[req[c].order])
         /\ Updatable(req[c].op, rows[req[c].order])
         /\ \A p \in Ops : ~ Shows(p, rows[req[c].order])
         /\ \A p \in Ops : Shows(p, write[c]) <=> p = req[c].op
         /\ ~ (write[c].pay = "refunded" /\ write[c].status = "canceled")
  <1>1. /\ req[c].op \in Ops /\ Updatable(req[c].op, rows[req[c].order])
        /\ write[c] = Applied(req[c].op, rows[req[c].order])
    BY DEF Locks, LocksOf
  <1>2. req[c].order \in Orders /\ rows[req[c].order] \in Row \cup {Absent}
    BY DEF TypeOK, Request
  <1>3. /\ rows[req[c].order] \in Row
        /\ \A p \in Ops : ~ Shows(p, rows[req[c].order])
        /\ \A p \in Ops : Shows(p, write[c]) <=> p = req[c].op
        /\ ~ (write[c].pay = "refunded" /\ write[c].status = "canceled")
    BY <1>1, <1>2, UpdatableRow
  <1>4. write[c] \in Row
    BY <1>1, <1>3, AppliedRow
  <1>5. \A e \in events : e.order # req[c].order
    BY <1>3 DEF Tables, TypeOK, Event
  <1>6. QED
    BY <1>1, <1>2, <1>3, <1>4, <1>5

\* What a commit does to the tables.
LEMMA CommitTables ==
  ASSUME TypeOK, Control, Tables, Locks, NEW c \in Clients, Commit(c)
  PROVE  /\ \A o \in Orders : rows'[o] = IF write[c] # Absent /\ o = req[c].order
                                         THEN write[c] ELSE rows[o]
         /\ events' = IF inserted[c] THEN events \cup {EventFor(req[c])} ELSE events
         /\ inserted[c] => write[c] # Absent
         /\ req[c] \in Request /\ req[c].op \in Ops
  <1>1. inserted[c] => write[c] # Absent
    BY DEF Locks, LocksOf
  <1>2. req[c] \in Request /\ req[c].op \in Ops
    BY DEF TypeOK, Commit, Control, ControlOf
  <1>3. \A o \in Orders : rows'[o] = IF write[c] # Absent /\ o = req[c].order
                                    THEN write[c] ELSE rows[o]
    BY DEF TypeOK, Commit
  <1>4. QED
    BY <1>1, <1>2, <1>3 DEF Commit

LEMMA TablesStep == TypeOK /\ Control /\ Tables /\ Locks /\ [Next]_vars => Tables'
  <1> SUFFICES ASSUME TypeOK, Control, Tables, Locks, [Next]_vars PROVE Tables'
    OBVIOUS
  <1>1. ASSUME NEW c \in Clients, Commit(c) PROVE Tables'
    <2> DEFINE o == req[c].order
               e0 == EventFor(req[c])
    <2>1. /\ \A p \in Orders : rows'[p] = IF write[c] # Absent /\ p = o THEN write[c] ELSE rows[p]
          /\ events' = IF inserted[c] THEN events \cup {e0} ELSE events
          /\ inserted[c] => write[c] # Absent
          /\ req[c] \in Request /\ req[c].op \in Ops
      BY <1>1, CommitTables
    <2>2. \A e \in events : e.order \in Orders /\ e.op \in Ops
      BY DEF TypeOK, Event
    <2>3. CASE write[c] = Absent
      <3>1. events' = events /\ \A p \in Orders : rows'[p] = rows[p]
        BY <2>1, <2>3
      <3>2. QED
        BY <2>2, <3>1 DEF Tables
    <2>4. CASE write[c] # Absent
      <3>1. /\ \A e \in events : e.order # o
            /\ o \in Orders /\ write[c] \in Row
            /\ Shows(req[c].op, write[c])
            /\ ~ (write[c].pay = "refunded" /\ write[c].status = "canceled")
        BY <2>1, <2>4, SettlingIsFirst
      <3>2. write[c] # Absent /\ rows'[o] = write[c] /\ \A p \in Orders \ {o} : rows'[p] = rows[p]
        BY <2>1, <2>4, <3>1
      <3>3. /\ e0.order = o /\ e0.op = req[c].op /\ e0.key = req[c].key
            /\ e0.print.order = o /\ e0.print.kind = req[c].op
        BY DEF EventFor, Fingerprint
      <3>4. inserted[c] /\ req[c].key # NoKey => \A e \in events : e.key # req[c].key
        BY DEF Locks, LocksOf
      <3>5. events' \subseteq events \cup {e0}
        BY <2>1
      <3>6. \A e \in events' : /\ rows'[e.order] # Absent /\ Shows(e.op, rows'[e.order])
                              /\ e.print.order = e.order /\ e.print.kind \in {e.op, "legacy"}
        BY <2>2, <3>1, <3>2, <3>3, <3>5 DEF Tables
      <3>7. \A e, f \in events' : e.order = f.order => e = f
        BY <3>1, <3>3, <3>5 DEF Tables
      <3>8. \A e, f \in events' : e.key = f.key /\ e.key # NoKey => e = f
        BY <2>1, <3>3, <3>4 DEF Tables
      <3>9. \A p \in Orders : ~ (rows'[p].pay = "refunded" /\ rows'[p].status = "canceled")
        BY <3>1, <3>2 DEF Tables
      <3>10. QED
        BY <3>6, <3>7, <3>8, <3>9 DEF Tables
    <2>5. QED
      BY <2>3, <2>4
  <1>2. ASSUME NEW c \in Clients, Step(c) \/ DbFault(c), ~ Commit(c) PROVE Tables'
    BY <1>2, Frame DEF Tables, tables
  <1>3. CASE Environment \/ UNCHANGED vars
    BY <1>3, EnvironmentFrame DEF Tables, tables
  <1>4. QED
    BY <1>1, <1>2, <1>3, NextCases

LEMMA LocksStep == TypeOK /\ Control /\ Tables /\ Locks /\ [Next]_vars => Locks'
  <1> SUFFICES ASSUME TypeOK, Control, Tables, Locks, [Next]_vars PROVE Locks'
    OBVIOUS
  <1>1. ASSUME NEW c \in Clients, Step(c) \/ DbFault(c)
        PROVE  Locks'
    <2> USE DEF TypeOK, Goto, tables, caches
    <2>1. /\ \A d \in Clients \ {c} : SameAt(d)
          /\ req' = req /\ events \subseteq events'
      BY <1>1, Frame
    <2>2. ControlOf(c) /\ \A d \in Clients : LocksOf(d)
      BY DEF Control, Locks
    <2>a. ASSUME UNCHANGED <<tables, write, inserted>>,
                 pc'[c] \in {"remember", "commit"} \/ ~ inserted[c]
          PROVE  Locks'
      BY <2>1, <2>2, <2>a DEF Locks, LocksOf, SameAt
    <2>b. ASSUME NEW code, NEW body, Answer(c, code, body), UNCHANGED tables
          PROVE  Locks'
      <3>1. write'[c] = Absent /\ ~ inserted'[c]
        BY <2>b DEF Answer
      <3>2. SUFFICES ASSUME NEW d \in Clients \ {c} PROVE LocksOf(d)'
        BY <3>1 DEF Locks, LocksOf
      <3>3. /\ req' = req /\ rows' = rows /\ events' = events
            /\ write'[d] = write[d] /\ inserted'[d] = inserted[d] /\ pc'[d] = pc[d]
        BY <2>1, <2>b DEF SameAt
      <3>4. \A x \in Clients : /\ write'[x] # Absent => write[x] # Absent
                               /\ inserted'[x] => inserted[x]
        BY <2>1, <3>1 DEF SameAt
      <3>5. QED
        <4> HIDE DEF TypeOK
        <4>1. QED
          BY <2>2, <3>3, <3>4 DEF LocksOf
    <2>3. CASE Receive(c) \/ LoadDb(c) \/ Check(c) \/ DbFault(c)
      BY <2>2, <2>3, <2>a, <2>b DEF Receive, LoadDb, Check, DbFault, ControlOf, LocksOf
    <2>4. CASE FindEvent(c) \/ FindLegacy(c) \/ FindOther(c)
      BY <2>2, <2>4, <2>a, <2>b DEF FindEvent, FindLegacy, FindOther, NoMatch, Match, Conflict,
                                   ControlOf, Finding
    <2>5. CASE FindCached(c) \/ LoadCached(c) \/ Fill(c) \/ PutOrder(c) \/ Remember(c)
      BY <2>2, <2>5, <2>a DEF FindCached, LoadCached, Fill, PutOrder, Remember, LocksOf
    <2>6. CASE Update(c)
      <3>1. CASE ~ Updatable(req[c].op, rows[req[c].order])
        BY <2>6, <2>b, <3>1 DEF Update
      <3>2. CASE Updatable(req[c].op, rows[req[c].order])
        <4>1. /\ write' = [write EXCEPT ![c] = Applied(req[c].op, rows[req[c].order])]
              /\ UNCHANGED <<tables, inserted>> /\ ~ inserted[c] /\ req[c].op \in Ops
              /\ \A d \in Clients \ {c} : write[d] # Absent => req[d].order # req[c].order
          BY <2>2, <2>6, <3>2 DEF Update, RowLocked, ControlOf, LocksOf
        <4>2. /\ \A d \in Clients \ {c} : write'[d] = write[d] /\ pc'[d] = pc[d]
              /\ write'[c] = Applied(req[c].op, rows[req[c].order]) /\ ~ inserted'[c]
              /\ UNCHANGED <<rows, events, req, inserted>>
          BY <2>1, <4>1 DEF SameAt
        <4> HIDE DEF TypeOK
        <4>3. LocksOf(c)'
          BY <3>2, <4>1, <4>2 DEF LocksOf
        <4>4. ASSUME NEW d \in Clients \ {c} PROVE LocksOf(d)'
          BY <2>2, <4>1, <4>2 DEF LocksOf
        <4>5. QED
          BY <4>3, <4>4 DEF Locks
      <3>3. QED
        BY <3>1, <3>2
    <2>7. CASE Insert(c)
      <3>1. UNCHANGED <<tables, write>> /\ write[c] # Absent /\ ~ inserted[c]
        BY <2>2, <2>7 DEF Insert, ControlOf, Writing
      <3>2. CASE ~ inserted'[c]
        <4>1. /\ UNCHANGED <<rows, events, write, req>>
              /\ \A d \in Clients : inserted'[d] => inserted[d] /\ pc'[d] = pc[d]
          BY <2>1, <3>1, <3>2 DEF SameAt
        <4> HIDE DEF TypeOK
        <4>2. ASSUME NEW d \in Clients PROVE LocksOf(d)'
          BY <2>2, <4>1, <4>2 DEF LocksOf
        <4>3. QED
          BY <4>2 DEF Locks
      <3>3. CASE inserted'[c]
        <4>1. /\ pc'[c] \in {"remember", "commit"}
              /\ req[c].key # NoKey =>
                   /\ \A e \in events : e.key # req[c].key
                   /\ \A d \in Clients \ {c} : inserted[d] => req[d].key # req[c].key
          BY <2>7, <3>1, <3>3 DEF Insert, KeyLocked, Duplicate
        <4>2. LocksOf(c)'
          <5>1. /\ pc'[c] \in {"remember", "commit"} /\ write'[c] # Absent
                /\ UNCHANGED <<rows, events, write, req>>
                /\ \A d \in Clients \ {c} : inserted'[d] = inserted[d]
            BY <2>1, <3>1, <4>1 DEF SameAt
          <5> HIDE DEF TypeOK
          <5>2. QED
            BY <2>2, <4>1, <5>1 DEF LocksOf
        <4>3. ASSUME NEW d \in Clients \ {c} PROVE LocksOf(d)'
          <5>1. /\ pc'[d] = pc[d] /\ UNCHANGED <<rows, events, write, req>>
                /\ \A x \in Clients \ {c} : inserted'[x] = inserted[x]
            BY <2>1, <3>1 DEF SameAt
          <5> HIDE DEF TypeOK
          <5>2. QED
            BY <2>2, <4>1, <5>1 DEF LocksOf
        <4>4. QED
          BY <4>2, <4>3 DEF Locks
      <3>4. QED
        BY <3>2, <3>3
    <2>8. CASE Commit(c)
      <3>1. write'[c] = Absent /\ ~ inserted'[c]
        BY <2>8 DEF Commit, Answer
      <3>2. SUFFICES ASSUME NEW d \in Clients \ {c} PROVE LocksOf(d)'
        BY <3>1 DEF Locks, LocksOf
      <3>3. /\ \A p \in Orders : rows'[p] = IF write[c] # Absent /\ p = req[c].order
                                            THEN write[c] ELSE rows[p]
            /\ events' = IF inserted[c] THEN events \cup {EventFor(req[c])} ELSE events
        BY <2>8, CommitTables
      <3>4. LocksOf(c) /\ LocksOf(d) /\ req[d].order \in Orders
        BY <2>2 DEF Request
      <3>5. write[d] # Absent => rows'[req[d].order] = rows[req[d].order]
        BY <3>3, <3>4 DEF LocksOf
      <3>6. inserted[d] /\ req[d].key # NoKey => \A e \in events' : e.key # req[d].key
        <4>1. EventFor(req[c]).key = req[c].key
          BY DEF EventFor
        <4>2. QED
          BY <3>3, <3>4, <4>1 DEF LocksOf
      <3>7. \A x \in Clients \ {d} : inserted'[x] => inserted[x]
        BY <2>1, <3>1 DEF SameAt
      <3>w. \A x \in Clients \ {d} : write'[x] # Absent => write[x] # Absent
        BY <2>1, <3>1 DEF SameAt
      <3>8. /\ req' = req /\ write'[d] = write[d] /\ inserted'[d] = inserted[d] /\ pc'[d] = pc[d]
        BY <2>1 DEF SameAt
      <3>9. write'[d] # Absent =>
              /\ req'[d].op \in Ops
              /\ Updatable(req'[d].op, rows'[req'[d].order])
              /\ write'[d] = Applied(req'[d].op, rows'[req'[d].order])
              /\ \A x \in Clients \ {d} : write'[x] # Absent => req'[x].order # req'[d].order
        <4> HIDE DEF TypeOK
        <4> SUFFICES ASSUME write'[d] # Absent
                     PROVE  /\ req'[d].op \in Ops
                            /\ Updatable(req'[d].op, rows'[req'[d].order])
                            /\ write'[d] = Applied(req'[d].op, rows'[req'[d].order])
                            /\ \A x \in Clients \ {d} :
                                 write'[x] # Absent => req'[x].order # req'[d].order
          OBVIOUS
        <4>1. write[d] # Absent /\ req'[d] = req[d] /\ rows'[req'[d].order] = rows[req[d].order]
          BY <3>5, <3>8
        <4>2. /\ req[d].op \in Ops
              /\ Updatable(req[d].op, rows[req[d].order])
              /\ write[d] = Applied(req[d].op, rows[req[d].order])
              /\ \A x \in Clients \ {d} : write[x] # Absent => req[x].order # req[d].order
          BY <3>4, <4>1 DEF LocksOf
        <4>3. \A x \in Clients \ {d} : write'[x] # Absent => req'[x].order # req'[d].order
          BY <3>w, <2>1, <4>2
        <4>4. QED
          BY <3>8, <4>1, <4>2, <4>3
      <3>10. inserted'[d] =>
              /\ write'[d] # Absent
              /\ pc'[d] \in {"remember", "commit"}
              /\ req'[d].key # NoKey =>
                   /\ \A e \in events' : e.key # req'[d].key
                   /\ \A x \in Clients \ {d} : inserted'[x] => req'[x].key # req'[d].key
        <4> HIDE DEF TypeOK
        <4>1. inserted[d] =>
                /\ write[d] # Absent
                /\ pc[d] \in {"remember", "commit"}
                /\ req[d].key # NoKey =>
                     \A x \in Clients \ {d} : inserted[x] => req[x].key # req[d].key
          BY <3>4 DEF LocksOf
        <4>2. \A x \in Clients \ {d} : inserted'[x] => inserted[x] /\ req'[x].key = req[x].key
          BY <3>7, <2>1
        <4>3. req'[d].key = req[d].key
          BY <2>1
        <4>4. QED
          BY <3>6, <3>8, <4>1, <4>2, <4>3
      <3>11. QED
        BY <3>9, <3>10 DEF LocksOf
    <2>9. CASE AwaitKey(c)
      BY <2>2, <2>9, <2>a DEF AwaitKey, LocksOf
    <2>10. CASE Deadlock(c)
      BY <2>10, <2>b DEF Deadlock
    <2>11. QED
      BY <1>1, <2>3, <2>4, <2>5, <2>6, <2>7, <2>8, <2>9, <2>10 DEF Step
  <1>2. CASE Environment \/ UNCHANGED vars
    BY <1>2, EnvironmentFrame DEF Locks, LocksOf, tables
  <1>3. QED
    BY <1>1, <1>2, NextCases

\* Only the end of a transaction that has inserted the event grants a shared
\* lock: a commit, or the rollback of one that counts as lost.
LEMMA PlacesStep == TypeOK /\ Control /\ Locks /\ Places /\ [Next]_vars => Places'
  <1> SUFFICES ASSUME TypeOK, Control, Locks, Places, [Next]_vars PROVE Places'
    OBVIOUS
  <1>1. ASSUME NEW c \in Clients, Step(c) \/ DbFault(c)
        PROVE  Places'
    <2>1. /\ \A d \in Clients \ {c} : SameAt(d)
          /\ req' = req /\ events \subseteq events'
      BY <1>1, Frame
    <2>2. lost => lost'
      BY <1>1 DEF Step, DbFault, Receive, FindCached, FindEvent, FindLegacy, FindOther, LoadCached,
         LoadDb, Fill, Check, Update, PutOrder, AwaitKey, Insert, Deadlock, Remember, Commit
    <2>3. \A d \in Clients : Duplicate(d) => Duplicate(d)'
      BY <2>1 DEF Duplicate
    <2>4. ControlOf(c) /\ LocksOf(c)
      BY DEF Control, Locks
    <2>a. ASSUME keyLock' = keyLock, pc[c] # "insert" PROVE Places'
      BY <2>1, <2>2, <2>3, <2>a DEF Places, SameAt
    <2>b. ASSUME keyLock' = Granted(c),
                 inserted[c] /\ req[c].key # NoKey => lost' \/ EventFor(req[c]) \in events'
          PROVE  Places'
      <3>1. ASSUME NEW d \in Clients, keyLock'[d] # "none"
            PROVE  /\ d # c /\ keyLock[d] # "none"
                   /\ keyLock'[d] = "shared" => \/ keyLock[d] = "shared"
                                                \/ inserted[c] /\ req[d].key = req[c].key
        BY <2>b, <3>1 DEF Granted
      <3>2. ASSUME NEW d \in Clients, keyLock'[d] # "none"
            PROVE  /\ pc'[d] = "insert" /\ req'[d].key # NoKey
                   /\ keyLock'[d] = "shared" => lost' \/ Duplicate(d)'
        <4>1. pc'[d] = "insert" /\ req'[d].key = req[d].key /\ req[d].key # NoKey
          BY <2>1, <3>1, <3>2 DEF Places, SameAt
        <4>2. CASE keyLock[d] = "shared"
          BY <2>2, <2>3, <4>1, <4>2 DEF Places
        <4>3. CASE inserted[c] /\ req[d].key = req[c].key
          BY <2>1, <2>b, <4>1, <4>3 DEF Duplicate, EventFor
        <4>4. QED
          BY <3>1, <3>2, <4>1, <4>2, <4>3
      <3>3. QED
        BY <3>2 DEF Places
    <2>5. CASE pc[c] \in {"remember", "commit"}
      <3>1. CASE Remember(c)
        BY <2>a, <3>1 DEF Remember
      <3>2. CASE Commit(c)
        BY <2>b, <3>2 DEF Commit, Answer
      <3>3. CASE DbFault(c)
        BY <2>4, <2>5, <2>b, <3>3 DEF DbFault, Answer, ControlOf
      <3>4. QED
        BY <1>1, <2>4, <2>5, <3>1, <3>2, <3>3 DEF Step, Receive, FindCached, FindEvent, FindLegacy,
           FindOther, LoadCached, LoadDb, Fill, Check, Update, PutOrder, AwaitKey, Insert, Deadlock,
           Places
    <2>6. CASE pc[c] = "insert"
      <3>1. CASE AwaitKey(c)
        BY <2>1, <2>2, <2>3, <2>6, <3>1 DEF AwaitKey, Places, SameAt, TypeOK
      <3>2. CASE Insert(c)
        BY <2>1, <2>2, <2>3, <3>2 DEF Insert, Places, SameAt, TypeOK
      <3>3. CASE Deadlock(c) \/ DbFault(c)
        BY <2>4, <2>6, <2>b, <3>3 DEF Deadlock, DbFault, Answer, ControlOf
      <3>4. QED
        BY <1>1, <2>6, <3>1, <3>2, <3>3 DEF Step, Receive, FindCached, FindEvent, FindLegacy,
           FindOther, LoadCached, LoadDb, Fill, Check, Update, PutOrder, Remember, Commit
    <2>7. CASE pc[c] \notin {"insert", "remember", "commit"}
      <3>1. ~ inserted[c]
        BY <2>4, <2>7 DEF LocksOf
      <3>2. CASE keyLock' = keyLock
        BY <2>7, <2>a, <3>2
      <3>3. CASE keyLock' = Granted(c)
        BY <2>b, <3>1, <3>3
      <3>4. QED
        BY <1>1, <2>7, <3>2, <3>3 DEF Step, DbFault, Receive, FindCached, FindEvent, FindLegacy,
           FindOther, NoMatch, Match, Conflict, LoadCached, LoadDb, Fill, Check, Update, PutOrder,
           AwaitKey, Insert, Deadlock, Remember, Commit, Answer, Places
    <2>8. QED
      BY <2>5, <2>6, <2>7
  <1>2. CASE Environment \/ UNCHANGED vars
    BY <1>2, EnvironmentFrame DEF Places, Duplicate, tables
  <1>3. QED
    BY <1>1, <1>2, NextCases

-----------------------------------------------------------------------------
(* Faithful. *)

\* Evidence and backing survive every step that loses no transaction.
LEMMA BackingPersists ==
  ASSUME IInv, NEW c \in Clients, Step(c) \/ DbFault(c), ~ lost, ~ lost'
  PROVE  /\ \A k \in Keys, p \in Prints : Backed(k, p) => Backed(k, p)'
         /\ \A d \in Clients : Evidence(d) => Evidence(d)'
  <1> USE DEF IInv
  <1>1. /\ \A d \in Clients \ {c} : SameAt(d)
        /\ req' = req /\ events \subseteq events'
    BY Frame
  <1>2. ASSUME inserted[c], ~ inserted'[c], req[c].key # NoKey
        PROVE  EventFor(req[c]) \in events'
    <2>1. pc[c] \in {"remember", "commit"}
      BY <1>2 DEF Locks, LocksOf
    <2>2. CASE Commit(c)
      BY <1>2, <2>2 DEF Commit
    <2>3. CASE Remember(c)
      BY <1>2, <2>3 DEF Remember
    <2>4. CASE DbFault(c)
      <3>1. pc[c] = "commit"
        BY <2>1, <2>4 DEF DbFault
      <3>2. QED
        BY <1>2, <2>4, <3>1 DEF DbFault
    <2>5. QED
      BY <2>1, <2>2, <2>3, <2>4 DEF Step, Receive, FindCached, FindEvent, FindLegacy,
         FindOther, LoadCached, LoadDb, Fill, Check, Update, PutOrder, AwaitKey, Insert,
         Deadlock, Places
  <1>3. \A d \in Clients : inserted[d] /\ req[d].key # NoKey
                          => inserted'[d] \/ EventFor(req[d]) \in events'
    BY <1>1, <1>2 DEF SameAt
  <1>4. \A d \in Clients : /\ EventFor(req[d]).key = req[d].key
                          /\ EventFor(req[d]).order = req[d].order
                          /\ EventFor(req[d]).op = req[d].op
                          /\ EventFor(req[d]).print = Fingerprint(req[d])
    BY DEF EventFor
  <1>5. ASSUME NEW k \in Keys, NEW p \in Prints, Backed(k, p)
        PROVE  Backed(k, p)'
    <2>1. CASE \E e \in events : e.key = k /\ e.print = p
      BY <1>1, <2>1 DEF Backed
    <2>2. CASE \E d \in Clients : inserted[d] /\ req[d].key = k /\ p = Fingerprint(req[d])
      <3>1. PICK d \in Clients : inserted[d] /\ req[d].key = k /\ p = Fingerprint(req[d])
        BY <2>2
      <3>2. inserted'[d] \/ EventFor(req[d]) \in events'
        BY <1>3, <3>1, NamesAssumption
      <3>3. CASE inserted'[d]
        BY <1>1, <3>1, <3>3 DEF Backed
      <3>4. CASE EventFor(req[d]) \in events'
        BY <1>4, <3>1, <3>4 DEF Backed
      <3>5. QED
        BY <3>2, <3>3, <3>4
    <2>3. QED
      BY <1>5, <2>1, <2>2 DEF Backed
  <1>6. ASSUME NEW d \in Clients, Evidence(d)
        PROVE  Evidence(d)'
    <2>1. CASE \E e \in events : /\ e.key = req[d].key /\ e.order = req[d].order
                                 /\ e.op = req[d].op
      BY <1>1, <2>1 DEF Evidence
    <2>2. CASE /\ req[d].key # NoKey
               /\ \E x \in Clients : /\ inserted[x] /\ req[x].key = req[d].key
                                     /\ req[x].order = req[d].order /\ req[x].op = req[d].op
      <3>1. PICK x \in Clients : /\ inserted[x] /\ req[x].key = req[d].key
                                /\ req[x].order = req[d].order /\ req[x].op = req[d].op
        BY <2>2
      <3>2. inserted'[x] \/ EventFor(req[x]) \in events'
        BY <1>3, <2>2, <3>1
      <3>3. CASE inserted'[x]
        BY <1>1, <2>2, <3>1, <3>3 DEF Evidence
      <3>4. CASE EventFor(req[x]) \in events'
        BY <1>1, <1>4, <3>1, <3>4 DEF Evidence
      <3>5. QED
        BY <3>2, <3>3, <3>4
    <2>3. QED
      BY <1>6, <2>1, <2>2 DEF Evidence
  <1>7. QED
    BY <1>5, <1>6

\* A backed fingerprint of the request is evidence that its operation was
\* done, so the request has written nothing itself.
LEMMA BackedIsEvidence ==
  ASSUME IInv, NEW c \in Clients, req[c].op \in Ops, req[c].key \in Keys,
         Backed(req[c].key, Fingerprint(req[c]))
  PROVE  Evidence(c)
  <1> USE DEF IInv
  <1>1. req[c] \in Request
    BY DEF TypeOK
  <1>2. CASE \E e \in events : e.key = req[c].key /\ e.print = Fingerprint(req[c])
    <2>1. PICK e \in events : e.key = req[c].key /\ e.print = Fingerprint(req[c])
      BY <1>2
    <2>2. e.print.kind = req[c].op /\ e.print.order = req[c].order /\ req[c].op # "legacy"
      BY <1>1, <2>1, PrintFacts DEF Ops
    <2>3. e.op = req[c].op /\ e.order = req[c].order
      BY <2>2 DEF Tables
    <2>4. QED
      BY <2>1, <2>3 DEF Evidence
  <1>3. CASE \E d \in Clients : /\ inserted[d] /\ req[d].key = req[c].key
                                /\ Fingerprint(req[c]) = Fingerprint(req[d])
    <2>1. PICK d \in Clients : /\ inserted[d] /\ req[d].key = req[c].key
                              /\ Fingerprint(req[c]) = Fingerprint(req[d])
      BY <1>3
    <2>2. req[d].order = req[c].order /\ req[d].op = req[c].op
      BY <2>1 DEF Fingerprint
    <2>3. QED
      BY <2>1, <2>2, NamesAssumption DEF Evidence
  <1>4. QED
    BY <1>2, <1>3 DEF Backed

LEMMA EvidenceForbidsWriting ==
  ASSUME IInv, NEW c \in Clients, Evidence(c), ~ inserted[c]
  PROVE  write[c] = Absent
  <1> SUFFICES ASSUME write[c] # Absent PROVE FALSE
    OBVIOUS
  <1> USE DEF IInv
  <1>1. \A e \in events : e.order # req[c].order
    BY SettlingIsFirst
  <1>2. PICK d \in Clients : inserted[d] /\ req[d].order = req[c].order
    BY <1>1 DEF Evidence
  <1>3. d # c /\ write[d] # Absent
    BY <1>2 DEF Locks, LocksOf
  <1>4. QED
    BY <1>2, <1>3 DEF Locks, LocksOf

\* A request starts a replay only on evidence.
LEMMA ReplayOnEvidence ==
  ASSUME IInv, ~ lost, NEW c \in Clients, Step(c),
         mode'[c] = "replay", mode[c] # "replay"
  PROVE  Evidence(c) /\ ~ inserted[c] /\ write'[c] = write[c]
  <1> USE DEF IInv
  <1>1. TypeOK /\ ControlOf(c) /\ LocksOf(c) /\ req[c] \in Request
    BY DEF Control, Locks, TypeOK
  <1>2. CASE FindCached(c)
    <2>1. /\ Fingerprint(req[c]) \in idemCache[req[c].key]
          /\ pc[c] \in Finding /\ write' = write
      BY <1>2 DEF FindCached, TypeOK, Finding
    <2>2. req[c].op \in Ops /\ req[c].key \in Keys /\ ~ inserted[c]
      BY <1>1, <2>1 DEF ControlOf
    <2>3. Backed(req[c].key, Fingerprint(req[c]))
      BY <1>1, <2>1, <2>2, PrintFacts DEF Faithful
    <2>4. QED
      BY <2>1, <2>2, <2>3, BackedIsEvidence
  <1>3. ASSUME Match(c), pc[c] \in Finding,
               \E e \in ReadView(c).hits : e.op = req[c].op /\ e.order = req[c].order
        PROVE  Evidence(c) /\ ~ inserted[c] /\ write'[c] = write[c]
    <2>1. ReadView(c).hits \subseteq {e \in events : e.key = req[c].key}
      BY <1>1 DEF ControlOf, ReadView
    <2>2. QED
      BY <1>1, <1>3, <2>1 DEF Match, ControlOf, Evidence
  <1>4. CASE FindEvent(c)
    <2>1. PICK e \in ReadView(c).hits :
            /\ Match(c)
            /\ \/ e.print = Fingerprint(req[c])
               \/ e.print = LegacyFingerprint(req[c]) /\ e.op = req[c].op
      BY <1>4, <1>1 DEF FindEvent, NoMatch, Conflict, Answer, TypeOK
    <2>2. pc[c] \in Finding /\ req[c].op \in Ops
      BY <1>1, <1>4 DEF FindEvent, Finding, ControlOf
    <2>3. e \in events
      BY <1>1, <2>1 DEF ControlOf, ReadView
    <2>4. e.order = req[c].order /\ e.op = req[c].op
      BY <1>1, <2>1, <2>2, <2>3, PrintFacts DEF Tables, Ops
    <2>5. QED
      BY <1>3, <2>1, <2>2, <2>4
  <1>5. CASE FindLegacy(c)
    <2>1. PICK e \in ReadView(c).hits : e.op = req[c].op /\ Match(c)
      BY <1>5, <1>1 DEF FindLegacy, Conflict, Answer, TypeOK
    <2>2. pc[c] \in Finding /\ req[c].op \in Ops /\ req[c].key \in Keys
      BY <1>1, <1>5 DEF FindLegacy, Finding, ControlOf
    <2>3. PICK f \in events : f.key = req[c].key /\ f.print = LegacyFingerprint(req[c])
      BY <1>5 DEF FindLegacy, Faithful
    <2>4. e \in events /\ e.key = req[c].key
      BY <1>1, <2>1 DEF ControlOf, ReadView
    <2>5. e = f /\ e.order = req[c].order
      BY <1>1, <2>2, <2>3, <2>4, NamesAssumption, PrintFacts DEF Tables
    <2>6. QED
      BY <1>3, <2>1, <2>2, <2>5
  <1>6. CASE ~ (FindCached(c) \/ FindEvent(c) \/ FindLegacy(c))
    BY <1>1, <1>6 DEF Step, Receive, FindOther, NoMatch, Conflict, LoadCached, LoadDb, Fill,
       Check, Update, PutOrder, AwaitKey, Insert, Deadlock, Remember, Commit, Answer, TypeOK
  <1>7. QED
    BY <1>2, <1>4, <1>5, <1>6

\* A request succeeds only on evidence.
LEMMA SuccessOnEvidence ==
  ASSUME IInv, ~ lost, ~ lost', NEW c \in Clients, Step(c) \/ DbFault(c),
         ~ Succeeded(c), Succeeded(c)'
  PROVE  Evidence(c)'
  <1> USE DEF IInv
  <1>1. TypeOK /\ ControlOf(c) /\ req[c] \in Request /\ req' = req
    BY Frame DEF Control, TypeOK
  <1>2. CASE Commit(c)
    <2>1. CASE inserted[c]
      <3>1. EventFor(req[c]) \in events'
        BY <1>2, <2>1 DEF Commit
      <3>2. QED
        BY <1>1, <3>1 DEF Evidence, EventFor
    <2>2. CASE ~ inserted[c]
      BY <1>1, <1>2, <2>2, BackingPersists DEF Commit, ControlOf, Faithful
    <2>3. QED
      BY <2>1, <2>2
  <1>3. CASE Check(c)
    <2>1. ord[c] \in Row
      BY <1>1, <1>3 DEF Check, ControlOf, TypeOK
    <2>2. Verdict(req[c], ord[c]) = "OK" => req[c].op \notin Ops
      BY <1>1, <2>1, VerdictCode DEF Ops
    <2>3. QED
      BY <1>1, <1>3, <2>2 DEF Check, Answer, Succeeded, TypeOK
  <1>4. CASE ~ Commit(c) /\ ~ Check(c)
    BY <1>1, <1>4 DEF Step, DbFault, Receive, FindCached, FindEvent, FindLegacy, FindOther,
       NoMatch, Match, Conflict, LoadCached, LoadDb, Fill, Update, AlreadyExists, PutOrder,
       AwaitKey, Insert, Deadlock, Remember, Answer, Succeeded, TypeOK
  <1>5. QED
    BY <1>2, <1>3, <1>4

LEMMA FaithfulStep == IInv /\ [Next]_vars => Faithful'
  <1> SUFFICES ASSUME IInv, [Next]_vars, ~ lost'
               PROVE  /\ (\A k \in Keys : \A p \in idemCache[k] : p # TicketPrint => Backed(k, p))'
                      /\ (\A c \in Clients : pc[c] = "findLegacy" =>
                           \E e \in events : e.key = req[c].key /\ e.print = LegacyFingerprint(req[c]))'
                      /\ (\A c \in Clients : mode[c] = "replay" => write[c] = Absent)'
                      /\ (\A c \in Clients : mode[c] = "replay" \/ Succeeded(c) => Evidence(c))'
                      /\ LedgerComplete'
    BY DEF Faithful
  <1> USE DEF IInv
  <1>1. ASSUME NEW c \in Clients, Step(c) \/ DbFault(c)
        PROVE  /\ (\A k \in Keys : \A p \in idemCache[k] : p # TicketPrint => Backed(k, p))'
               /\ (\A d \in Clients : pc[d] = "findLegacy" =>
                    \E e \in events : e.key = req[d].key /\ e.print = LegacyFingerprint(req[d]))'
               /\ (\A d \in Clients : mode[d] = "replay" => write[d] = Absent)'
               /\ (\A d \in Clients : mode[d] = "replay" \/ Succeeded(d) => Evidence(d))'
               /\ LedgerComplete'
    <2>1. ~ lost
      BY <1>1 DEF Step, DbFault, Receive, FindCached, FindEvent, FindLegacy, FindOther, LoadCached,
         LoadDb, Fill, Check, Update, PutOrder, AwaitKey, Insert, Deadlock, Remember, Commit
    <2>2. /\ \A d \in Clients \ {c} : SameAt(d)
          /\ req' = req /\ events \subseteq events'
          /\ ~ Commit(c) => UNCHANGED tables
      BY <1>1, Frame
    <2>3. /\ \A k \in Keys, p \in Prints : Backed(k, p) => Backed(k, p)'
          /\ \A d \in Clients : Evidence(d) => Evidence(d)'
      BY <1>1, <2>1, BackingPersists
    <2>4. TypeOK /\ ControlOf(c) /\ LocksOf(c) /\ req[c] \in Request
      BY DEF TypeOK, Control, Locks
    <2>5. ASSUME NEW k \in Keys, NEW p \in idemCache'[k], p # TicketPrint
          PROVE  Backed(k, p)'
      <3>1. CASE p \in idemCache[k]
        BY <2>1, <2>3, <2>5, <3>1 DEF Faithful, TypeOK
      <3>2. CASE p \notin idemCache[k]
        <4>1. Remember(c) /\ req[c].key = k /\ p = Fingerprint(req[c])
          <5> HIDE DEF IInv
          <5>1. idemCache' # idemCache
            BY <2>5, <3>2
          <5>2. Remember(c)
            BY <1>1, <5>1 DEF Step, DbFault, Receive, FindCached, FindEvent, FindLegacy, FindOther,
               LoadCached, LoadDb, Fill, Check, Update, PutOrder, AwaitKey, Insert, Deadlock,
               Commit, caches
          <5>3. idemCache' = [idemCache EXCEPT ![req[c].key] = {Fingerprint(req[c])}]
            BY <5>1, <5>2 DEF Remember
          <5>4. QED
            BY <2>4, <2>5, <3>2, <5>2, <5>3 DEF TypeOK
        <4>2. inserted'[c]
          BY <2>4, <4>1 DEF Remember, ControlOf
        <4>3. QED
          BY <2>2, <4>1, <4>2 DEF Backed
      <3>3. QED
        BY <3>1, <3>2
    <2>6. ASSUME NEW d \in Clients, pc'[d] = "findLegacy"
          PROVE  \E e \in events' : e.key = req'[d].key /\ e.print = LegacyFingerprint(req'[d])
      <3>1. CASE pc[d] = "findLegacy"
        BY <2>1, <2>2, <3>1 DEF Faithful
      <3>2. CASE pc[d] # "findLegacy"
        <4>1. d = c
          BY <2>2, <2>6, <3>2 DEF SameAt
        <4>2. FindCached(c)
          BY <1>1, <2>4, <2>6, <3>2, <4>1 DEF Step, DbFault, Receive, FindEvent, FindLegacy,
             FindOther, NoMatch, Match, Conflict, LoadCached, AfterLoad, LoadDb, Fill, Check,
             Update, PutOrder, AwaitKey, Insert, Deadlock, Remember, Commit, Answer, Goto, TypeOK
        <4>3. LegacyFingerprint(req[c]) \in idemCache[req[c].key] /\ pc[c] \in Finding
          BY <2>4, <2>6, <4>1, <4>2 DEF FindCached, Goto, Finding, TypeOK
        <4>4. req[c].op \in Ops /\ req[c].key \in Keys
          BY <2>4, <4>3 DEF ControlOf
        <4>5. Backed(req[c].key, LegacyFingerprint(req[c]))
          BY <2>1, <2>4, <4>3, <4>4, PrintFacts DEF Faithful
        <4>6. \A x \in Clients : inserted[x] => Fingerprint(req[x]) # LegacyFingerprint(req[c])
          <5> SUFFICES ASSUME NEW x \in Clients, inserted[x]
                       PROVE  Fingerprint(req[x]) # LegacyFingerprint(req[c])
            OBVIOUS
          <5>1. LocksOf(x)
            BY DEF Locks
          <5>2. req[x].op \in Ops
            BY <5>1 DEF LocksOf
          <5>3. Fingerprint(req[x]).kind # LegacyFingerprint(req[c]).kind
            BY <5>2 DEF Fingerprint, LegacyFingerprint, Ops
          <5>4. QED
            BY <5>3
        <4>7. QED
          BY <2>2, <4>1, <4>5, <4>6 DEF Backed
      <3>3. QED
        BY <3>1, <3>2
    <2>7. ASSUME NEW d \in Clients, mode'[d] = "replay"
          PROVE  write'[d] = Absent /\ Evidence(d)'
      <3>1. CASE d # c
        <4>1. mode[d] = "replay" /\ write'[d] = write[d]
          BY <2>2, <2>7, <3>1 DEF SameAt
        <4>2. QED
          BY <2>1, <2>3, <4>1 DEF Faithful
      <3>2. CASE d = c /\ mode[c] = "replay"
        <4>1. write[c] = Absent /\ Evidence(c)'
          BY <2>1, <2>3, <3>2 DEF Faithful
        <4>2. write'[c] = write[c] \/ write'[c] = Absent
          BY <1>1, <2>4, <3>2 DEF Step, DbFault, Receive, FindCached, FindEvent, FindLegacy,
             FindOther, NoMatch, Match, Conflict, LoadCached, LoadDb, Fill, Check, Update,
             PutOrder, AwaitKey, Insert, Deadlock, Remember, Commit, Answer, ControlOf, TypeOK
        <4>3. QED
          BY <3>2, <4>1, <4>2
      <3>3. CASE d = c /\ mode[c] # "replay"
        <4>1. Step(c)
          BY <1>1, <2>7, <3>3 DEF DbFault, Answer
        <4>2. Evidence(c) /\ ~ inserted[c] /\ write'[c] = write[c]
          BY <2>1, <2>7, <3>3, <4>1, ReplayOnEvidence
        <4>3. QED
          BY <2>3, <3>3, <4>2, EvidenceForbidsWriting
      <3>4. QED
        BY <3>1, <3>2, <3>3
    <2>8. ASSUME NEW d \in Clients, Succeeded(d)'
          PROVE  Evidence(d)'
      <3>1. CASE Succeeded(d)
        BY <2>1, <2>3, <3>1 DEF Faithful
      <3>2. CASE ~ Succeeded(d)
        <4>1. d = c
          BY <2>2, <2>8, <3>2 DEF SameAt, Succeeded
        <4>2. QED
          BY <1>1, <2>1, <2>8, <3>2, <4>1, SuccessOnEvidence
      <3>3. QED
        BY <3>1, <3>2
    <2>9. LedgerComplete'
      <3>1. CASE write[c] = Absent \/ ~ Commit(c)
        <4>1. events' = events /\ \A o \in Orders : rows'[o] = rows[o]
          BY <2>2, <2>4, <3>1, CommitTables DEF tables
        <4>2. QED
          BY <2>1, <4>1 DEF Faithful, LedgerComplete
      <3>2. CASE write[c] # Absent /\ Commit(c)
        <4> DEFINE o == req[c].order
        <4>1. /\ \A p \in Orders : rows'[p] = IF p = o THEN write[c] ELSE rows[p]
              /\ events' = IF inserted[c] THEN events \cup {EventFor(req[c])} ELSE events
          BY <3>2, CommitTables
        <4>2. inserted[c]
          BY <2>1, <2>4, <3>2 DEF Commit, ControlOf, Faithful
        <4>3. /\ \A e \in events : e.order # o
              /\ \A p \in Ops : Shows(p, write[c]) <=> p = req[c].op
          BY <3>2, SettlingIsFirst
        <4>4. EventFor(req[c]).order = o /\ EventFor(req[c]).op = req[c].op
          BY DEF EventFor
        <4>5. ASSUME NEW p \in Orders, NEW op \in Ops, rows'[p] # Absent
              PROVE  Shows(op, rows'[p]) <=> \E e \in events' : e.order = p /\ e.op = op
          <5>1. CASE p = o
            BY <4>1, <4>2, <4>3, <4>4, <5>1
          <5>2. CASE p # o
            BY <2>1, <4>1, <4>2, <4>4, <4>5, <5>2 DEF Faithful, LedgerComplete
          <5>3. QED
            BY <5>1, <5>2
        <4>6. QED
          BY <4>5 DEF LedgerComplete
      <3>3. QED
        BY <3>1, <3>2
    <2>10. QED
      BY <2>5, <2>6, <2>7, <2>8, <2>9
  <1>2. CASE Environment \/ UNCHANGED vars
    <2>1. UNCHANGED <<tables, pc, req, mode, ord, view, write, inserted, keyLock, reply, lost>>
      BY <1>2, EnvironmentFrame
    <2>2. \A k \in Keys : idemCache'[k] \subseteq idemCache[k] \cup {TicketPrint}
      BY <1>2 DEF Environment, ExpireOrder, ExpireKey, TicketRemembers, Finished, vars, TypeOK
    <2>3. Faithful /\ ~ lost
      BY <2>1
    <2>4. QED
      BY <2>1, <2>2, <2>3 DEF Faithful, Backed, Evidence, Succeeded, LedgerComplete, tables
  <1>3. QED
    BY <1>1, <1>2, NextCases

-----------------------------------------------------------------------------
(* Theorems. *)

LEMMA InductiveInvariant == Spec => []IInv
  <1>1. IInv /\ [Next]_vars => IInv'
    BY TypeStep, ControlStep, TablesStep, LocksStep, PlacesStep, FaithfulStep DEF IInv
  <1>2. QED
    BY <1>1, InitInvariant, PTL DEF Spec

\* TypeCorrect: every variable keeps its type.
THEOREM TypeCorrect == Spec => []TypeOK
  BY InductiveInvariant, PTL DEF IInv

\* SettlementIsExclusive: an order is refunded or canceled at most once and
\* never both, whatever fails.
THEOREM SettlementIsExclusive == Spec => []SettledOnce
  <1>1. IInv => SettledOnce
    BY DEF IInv, Tables, SettledOnce
  <1>2. QED
    BY <1>1, InductiveInvariant, PTL

\* RowsMatchEvents: the rows and the events tell the same story until a
\* transaction is lost after its entry went to Redis.
THEOREM RowsMatchEvents == Spec => []LedgerComplete
  <1>1. IInv => LedgerComplete
    BY DEF IInv, Faithful, LedgerComplete
  <1>2. QED
    BY <1>1, InductiveInvariant, PTL

\* SuccessIsReal: a refund or cancellation answered OK is done or being done.
THEOREM SuccessIsReal == Spec => []NoFalseSuccess
  <1>1. ASSUME IInv PROVE NoFalseSuccess
    BY <1>1 DEF IInv, Faithful, Evidence, NoFalseSuccess, Effective, Committing
  <1>2. QED
    BY <1>1, InductiveInvariant, PTL

\* KeysAreBound: one Idempotency-Key, one operation on one order.
THEOREM KeysAreBound == Spec => []KeyBindsOneRequest
  <1>1. ASSUME IInv PROVE KeyBindsOneRequest
    <2> SUFFICES ASSUME ~ lost, NEW c \in Clients, NEW d \in Clients, Succeeded(c), Succeeded(d),
                        req[c].key = req[d].key, req[c].key # NoKey
                 PROVE  req[c].op = req[d].op /\ req[c].order = req[d].order
      BY DEF KeyBindsOneRequest
    <2>1. Evidence(c) /\ Evidence(d)
      BY <1>1 DEF IInv, Faithful
    <2>2. /\ \A e, f \in events : e.key = f.key /\ e.key # NoKey => e = f
          /\ \A x \in Clients : inserted[x] /\ req[x].key # NoKey =>
               /\ \A e \in events : e.key # req[x].key
               /\ \A y \in Clients \ {x} : inserted[y] => req[y].key # req[x].key
      BY <1>1 DEF IInv, Tables, Locks, LocksOf
    <2>3. QED
      BY <2>1, <2>2 DEF Evidence
  <1>2. QED
    BY <1>1, InductiveInvariant, PTL

\* LocksNeverTangle: some unanswered request can take its next step, unless
\* a settlement was rolled back after its insert and two requests that waited
\* for its event now hold shared locks, which the choice of a victim ends.
THEOREM LocksNeverTangle == Spec => []NoStandoff
  <1>1. ASSUME IInv PROVE NoStandoff
    <2> SUFFICES ASSUME NEW c \in Clients, pc[c] # "done",
                        \A x \in Clients : pc[x] # "done" => Waiting(x)
                 PROVE  lost /\ Deadlocked
      BY DEF NoStandoff
    <2>1. \A x \in Clients : ~ inserted[x]
      BY <1>1 DEF IInv, Locks, LocksOf, Waiting
    <2>2. \A x \in Clients : write[x] # Absent => pc[x] \notin {"update", "done"}
      BY <1>1 DEF IInv, Control, ControlOf, Locks, LocksOf, Writing
    <2>3. PICK x \in Clients : pc[x] = "insert" /\ Waiting(x)
      <3>1. CASE pc[c] = "update"
        BY <2>2, <3>1 DEF Waiting, RowLocked
      <3>2. CASE pc[c] # "update"
        BY <3>2 DEF Waiting
      <3>3. QED
        BY <3>1, <3>2
    <2>4. PICK d \in Clients : keyLock[d] = "shared"
      BY <2>1, <2>3 DEF Waiting, KeyLocked
    <2>5. pc[d] = "insert" /\ (lost \/ Duplicate(d))
      BY <1>1, <2>4 DEF IInv, Places
    <2>6. ~ Duplicate(d) /\ \E e \in Clients \ {d} : keyLock[e] = "shared"
      BY <2>1, <2>5 DEF Waiting, KeyLocked
    <2>7. QED
      BY <2>4, <2>5, <2>6 DEF Deadlocked
  <1>2. QED
    BY <1>1, InductiveInvariant, PTL

\* TablesImplementLedger: every change of the tables is one settlement of the
\* abstract ledger, until a transaction is lost after its entry went to Redis.
THEOREM TablesImplementLedger == Spec => AtomicSettlement
  <1>1. ASSUME IInv, [Next]_vars, ~ lost, ~ UNCHANGED tables
        PROVE  Ledger!Next
    <2>1. PICK c \in Clients : Commit(c)
      BY <1>1, Frame, EnvironmentFrame, NextCases DEF IInv, tables
    <2> DEFINE o == req[c].order
               e0 == EventFor(req[c])
    <2>2. /\ rows' = IF write[c] = Absent THEN rows ELSE [rows EXCEPT ![o] = write[c]]
          /\ events' = IF inserted[c] THEN events \cup {e0} ELSE events
      BY <2>1 DEF Commit
    <2>3. LocksOf(c) /\ ControlOf(c) /\ req[c] \in Request
      BY <1>1 DEF IInv, Locks, Control, TypeOK
    <2>4. write[c] # Absent /\ inserted[c]
      BY <1>1, <2>1, <2>2, <2>3 DEF IInv, Faithful, tables, LocksOf, ControlOf, Commit
    <2>5. /\ \A e \in events : e.order # o
          /\ req[c].op \in Ops /\ o \in Orders /\ rows[o] \in Row
          /\ write[c] = Applied(req[c].op, rows[o])
          /\ Updatable(req[c].op, rows[o])
          /\ \A p \in Ops : ~ Shows(p, rows[o])
      BY <1>1, <2>4, SettlingIsFirst DEF IInv
    <2>6. Ledger!Open(o)
      BY <2>5 DEF Ledger!Open, Ops, Shows, Row
    <2>7. req[c].op = "cancel" => rows[o].status = "waiting_shipment"
      BY <2>5 DEF Updatable
    <2>8. Ledger!Fresh(req[c].key)
      BY <2>3, <2>4 DEF LocksOf, Ledger!Fresh
    <2>9. rows' = [rows EXCEPT ![o] = Ledger!Outcome(req[c].op, rows[o])]
      BY <2>2, <2>4, <2>5 DEF Applied, Ledger!Outcome
    <2>10. /\ e0.order = o /\ e0.op = req[c].op /\ e0.key = req[c].key
           /\ e0 \notin events /\ events' = events \cup {e0}
      BY <2>2, <2>4, <2>5 DEF EventFor
    <2>11. Ledger!Settle(req[c].op, o, req[c].key)
      BY <2>6, <2>7, <2>8, <2>9, <2>10 DEF Ledger!Settle
    <2>12. req[c].op \in Ledger!Ops /\ req[c].key \in Keys \cup {NoKey}
      BY <2>3, <2>5 DEF Request, Ops, Ledger!Ops
    <2>13. QED
      BY <2>5, <2>11, <2>12 DEF Ledger!Next
  <1>2. IInv /\ [Next]_vars => [lost \/ Ledger!Next]_tables
    BY <1>1
  <1>3. QED
    BY <1>2, InductiveInvariant, PTL DEF Spec, AtomicSettlement
=============================================================================
