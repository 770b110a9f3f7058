---------------------------- MODULE OrderService ----------------------------
(***************************************************************************)
(* The order tool API of the Java business service: queryOrder,            *)
(* refundOrder and cancelOrder (OrderServiceImpl), executed by concurrent  *)
(* HTTP requests against                                                   *)
(*                                                                         *)
(*   - MySQL: the orders table and the order_events table with its unique  *)
(*     (tenant_id, idempotency_key) index, under InnoDB REPEATABLE READ;   *)
(*   - Redis: the cache-aside order snapshots and the idempotency entries, *)
(*     both with a TTL and both allowed to fail (failures are logged and   *)
(*     swallowed), neither taking part in the MySQL transaction.           *)
(*                                                                         *)
(* Every element of Clients is one HTTP request; a retry is another client *)
(* with the same content.  One action is one statement that another        *)
(* request can interleave with: a Redis read or write, a SELECT, the       *)
(* guarded UPDATE, the INSERT of the event, the commit.                    *)
(***************************************************************************)
EXTENDS Naturals, FiniteSets

CONSTANTS
  Clients,    \* the HTTP requests
  Orders,     \* order ids, with or without a row
  Users,      \* callers and order owners
  Keys,       \* values of the Idempotency-Key header
  NoKey,      \* a request without the header
  Notes,      \* reasons given for a refund or a cancellation
  TooLong,    \* a reason beyond REFUND_REASON_MAX_LENGTH / CANCEL_REASON_MAX_LENGTH
  Owner,      \* the owner of each order
  Requests,   \* the requests clients may send
  Seeds,      \* the committed ledgers the service may start on
  Faults      \* what may go wrong: "redis" calls fail, entries meet their
              \* "expiry", "db" statements or commits fail

-----------------------------------------------------------------------------
(* Data. *)

Ops == {"refund", "cancel"}

Row == [status: {"waiting_shipment", "shipped", "delivered", "canceled"},
        pay: {"unpaid", "paid", "refunded"}]

\* No row in the table, no entry in the order cache, no uncommitted write.
Absent == [status |-> "absent", pay |-> "absent"]

Request == [op: Ops \cup {"query"}, order: Orders, key: Keys \cup {NoKey},
            note: Notes \cup {TooLong}, user: Users]

\* The SHA-256 of order, reason, user and operation; rows written before the
\* upgrade carry one without the operation ("legacy").
Prints == [order: Orders, note: Notes \cup {TooLong}, user: Users,
          kind: Ops \cup {"legacy"}]

\* The entry POST /internal/tickets leaves in the same Redis namespace.
TicketPrint == [kind |-> "ticket"]

Event == [key: Keys \cup {NoKey}, order: Orders, op: Ops, print: Prints]

Fingerprint(r) ==
  [order |-> r.order, note |-> r.note, user |-> r.user, kind |-> r.op]

LegacyFingerprint(r) ==
  [order |-> r.order, note |-> r.note, user |-> r.user, kind |-> "legacy"]

EventFor(r) ==
  [key |-> r.key, order |-> r.order, op |-> r.op, print |-> Fingerprint(r)]

\* Fault seeded for TypeOK: applyRefund writes the order status into payment_status.
AppliedToWrongColumn(op, row) ==
  IF op = "refund" THEN [row EXCEPT !.pay = "canceled"]
                   ELSE [row EXCEPT !.status = "canceled"]

\* What the operation writes on a row.
Applied(op, row) ==
  IF op = "refund" THEN [row EXCEPT !.pay = "refunded"]
                   ELSE [row EXCEPT !.status = "canceled"]

\* What an operation has done to a row it was applied to.
Shows(op, row) ==
  IF op = "refund" THEN row.pay = "refunded" ELSE row.status = "canceled"

\* Fault seeded for SettledOnce: updateCancelState without its payment_status clause.
UpdatableWithoutPayment(op, row) ==
  /\ row # Absent
  /\ IF op = "refund" THEN row.pay # "refunded" /\ row.status # "canceled"
                      ELSE row.status = "waiting_shipment"

\* The WHERE clause of updateRefundState and updateCancelState.
Updatable(op, row) ==
  /\ row # Absent
  /\ row.pay # "refunded"
  /\ IF op = "refund" THEN row.status # "canceled"
                      ELSE row.status = "waiting_shipment"

AlreadyExists(op) ==
  IF op = "refund" THEN "REFUND_ALREADY_EXISTS" ELSE "CANCEL_ALREADY_EXISTS"

\* The answer a request gets from the checks on the order it loaded, in the
\* order the code makes them; "PROCEED" when it goes on to write.
Verdict(r, row) ==
  IF Owner[r.order] # r.user THEN "ORDER_ACCESS_DENIED"
  ELSE IF r.op = "query" THEN "OK"
  ELSE IF r.op = "refund" THEN
    IF row.status # "waiting_shipment" THEN "ORDER_NOT_REFUNDABLE"
    ELSE IF row.pay = "refunded" THEN "REFUND_ALREADY_EXISTS"
    ELSE "PROCEED"
  ELSE IF row.status = "canceled" \/ row.pay = "refunded" THEN "CANCEL_ALREADY_EXISTS"
  ELSE IF row.status # "waiting_shipment" THEN "ORDER_NOT_CANCELABLE"
  ELSE "PROCEED"

Codes == {"none", "OK", "INVALID", "ORDER_NOT_FOUND", "ORDER_ACCESS_DENIED",
          "ORDER_NOT_REFUNDABLE", "REFUND_ALREADY_EXISTS",
          "ORDER_NOT_CANCELABLE", "CANCEL_ALREADY_EXISTS",
          "IDEMPOTENCY_KEY_CONFLICT", "ERROR"}

\* A ledger the service may start on: every settled row has its event, keys
\* are unique, events of before the upgrade have a legacy fingerprint, and an
\* idempotency entry that survived the upgrade is that of a stored event.
LedgerOK(rows, events, idem) ==
  /\ rows \in [Orders -> Row \cup {Absent}]
  /\ events \in SUBSET Event
  /\ \A o \in Orders : \A op \in Ops :
       rows[o] # Absent =>
         (Shows(op, rows[o]) <=> \E e \in events : e.order = o /\ e.op = op)
  /\ \A e, f \in events : e.order = f.order => e = f
  /\ \A e, f \in events : e.key = f.key /\ e.key # NoKey => e = f
  /\ \A e \in events : /\ rows[e.order] # Absent
                       /\ e.print.order = e.order
                       /\ e.print.kind \in {e.op, "legacy"}
  /\ idem \in [Keys -> SUBSET Prints]
  /\ \A k \in Keys : \A p \in idem[k] :
       \E e \in events : e.key = k /\ e.print = p

ASSUME RequestsAssumption == Requests \subseteq Request
ASSUME SeedsAssumption == \A s \in Seeds : LedgerOK(s.rows, s.events, s.idem)
ASSUME NamesAssumption == NoKey \notin Keys /\ Owner \in [Orders -> Users]

-----------------------------------------------------------------------------
VARIABLES
  rows,        \* committed rows of the orders table
  events,      \* committed rows of the order_events table
  orderCache,  \* Redis: order id -> snapshot, Absent when there is none
  idemCache,   \* Redis: key -> the set holding its entry, if any
  pc,          \* client -> its next statement
  req,         \* client -> its request
  mode,        \* client -> "execute", "recover" (after a duplicate key) or "replay"
  ord,         \* client -> the Order object in its hands
  view,        \* client -> its InnoDB read view: the part its SELECTs read
  write,       \* client -> its uncommitted write of its order's row (holds the row lock)
  inserted,    \* client -> whether its event is inserted, uncommitted (locked)
  keyLock,     \* client -> its lock on the place of its key, while another has one too:
               \* "asked" for (it waits) or "shared" (granted); "none" otherwise
  reply,       \* client -> the answer it got
  lost         \* history: a transaction failed after its idempotency entry was in Redis

tables == <<rows, events>>
caches == <<orderCache, idemCache>>
vars == <<rows, events, orderCache, idemCache, pc, req, mode, ord, view, write,
          inserted, keyLock, reply, lost>>

\* No read view yet.
Unread == [taken |-> FALSE, row |-> Absent, hits |-> {}]

TypeOK ==
  /\ rows \in [Orders -> Row \cup {Absent}]
  /\ events \in SUBSET Event
  /\ orderCache \in [Orders -> Row \cup {Absent}]
  /\ idemCache \in [Keys -> SUBSET (Prints \cup {TicketPrint})]
  /\ pc \in [Clients -> {"idle", "find", "findEvent", "findLegacy", "findOther",
                         "load", "loadDb", "fill", "check", "update", "put",
                         "insert", "remember", "commit", "done"}]
  /\ req \in [Clients -> Request]
  /\ mode \in [Clients -> {"execute", "recover", "replay"}]
  /\ ord \in [Clients -> Row \cup {Absent}]
  /\ view \in [Clients -> [taken: BOOLEAN, row: Row \cup {Absent}, hits: SUBSET Event]]
  /\ write \in [Clients -> Row \cup {Absent}]
  /\ inserted \in [Clients -> BOOLEAN]
  /\ keyLock \in [Clients -> {"none", "asked", "shared"}]
  /\ reply \in [Clients -> [code: Codes, body: Row \cup {Absent}]]
  /\ lost \in BOOLEAN

Init ==
  /\ \E s \in Seeds : rows = s.rows /\ events = s.events /\ idemCache = s.idem
  /\ orderCache = [o \in Orders |-> Absent]
  /\ pc = [c \in Clients |-> "idle"]
  /\ req \in [Clients -> Requests]
  /\ mode = [c \in Clients |-> "execute"]
  /\ ord = [c \in Clients |-> Absent]
  /\ view = [c \in Clients |-> Unread]
  /\ write = [c \in Clients |-> Absent]
  /\ inserted = [c \in Clients |-> FALSE]
  /\ keyLock = [c \in Clients |-> "none"]
  /\ reply = [c \in Clients |-> [code |-> "none", body |-> Absent]]
  /\ lost = FALSE

-----------------------------------------------------------------------------
(* Helpers. *)

Goto(c, to) == pc' = [pc EXCEPT ![c] = to]

\* The transaction of c ends: whoever waits for its uncommitted event is
\* granted the shared lock it asked for.  After a commit that lock is on the
\* event, after a rollback it is on the gap the event has left.
Granted(c) ==
  [d \in Clients |->
     IF d = c THEN "none"
     ELSE IF keyLock[d] = "asked" /\ inserted[c] /\ req[d].key = req[c].key THEN "shared"
     ELSE keyLock[d]]

\* Fault seeded for NoStandoff: the transaction is neither committed nor rolled
\* back when the request ends, and its row lock stays.
AnswerHoldingLock(c, code, body) ==
  /\ Goto(c, "done")
  /\ reply' = [reply EXCEPT ![c] = [code |-> code, body |-> body]]
  /\ inserted' = [inserted EXCEPT ![c] = FALSE]
  /\ keyLock' = Granted(c)
  /\ view' = [view EXCEPT ![c] = Unread]
  /\ ord' = [ord EXCEPT ![c] = Absent]
  /\ UNCHANGED <<req, mode, write>>

\* The request ends with this answer; what its transaction had written is
\* rolled back unless the same step commits it.
Answer(c, code, body) ==
  /\ Goto(c, "done")
  /\ reply' = [reply EXCEPT ![c] = [code |-> code, body |-> body]]
  /\ write' = [write EXCEPT ![c] = Absent]
  /\ inserted' = [inserted EXCEPT ![c] = FALSE]
  /\ keyLock' = Granted(c)
  /\ view' = [view EXCEPT ![c] = Unread]
  /\ ord' = [ord EXCEPT ![c] = Absent]
  /\ UNCHANGED <<req, mode>>

\* The read view of the transaction of c: the one it has, or one taken now.
ReadView(c) ==
  IF view[c].taken THEN view[c]
  ELSE [taken |-> TRUE, row |-> rows[req[c].order],
        hits |-> {e \in events : e.key = req[c].key}]

\* Another request holds the lock of this order's row, of this key.
RowLocked(c, o) == \E d \in Clients \ {c} : write[d] # Absent /\ req[d].order = o
KeyLocked(c, k) == \E d \in Clients \ {c} : inserted[d] /\ req[d].key = k

\* Other requests hold a shared lock on the place of this key.
GapShared(c, k) == \E d \in Clients \ {c} : keyLock[d] = "shared" /\ req[d].key = k

\* The key of c is taken by a committed event.
Duplicate(c) == req[c].key # NoKey /\ \E e \in events : e.key = req[c].key

\* A Redis call may fail; the code logs it and goes on as on a miss.
RedisFails == "redis" \in Faults

AfterLoad(c) == IF mode[c] = "replay" THEN "commit" ELSE "check"

\* findOrderByIdempotency is empty: go on with the operation, or, on the way
\* back from a duplicate key, rethrow.
NoMatch(c) ==
  IF mode[c] = "recover"
    THEN Answer(c, "ERROR", Absent)
    ELSE /\ Goto(c, "load")
         /\ view' = [view EXCEPT ![c] = ReadView(c)]
         /\ UNCHANGED <<req, mode, ord, write, inserted, keyLock, reply>>

\* The event found under the key is the outcome of this very request.
Match(c) ==
  /\ Goto(c, "load")
  /\ mode' = [mode EXCEPT ![c] = "replay"]
  /\ view' = [view EXCEPT ![c] = ReadView(c)]
  /\ UNCHANGED <<req, ord, write, inserted, keyLock, reply>>

Conflict(c) == Answer(c, "IDEMPOTENCY_KEY_CONFLICT", Absent)

-----------------------------------------------------------------------------
(* Actions: one per statement of the handlers. *)

\* The handler is entered; reasons beyond the limit are refused at once.
Receive(c) ==
  /\ pc[c] = "idle"
  /\ IF req[c].op # "query" /\ req[c].note = TooLong
       THEN Answer(c, "INVALID", Absent)
       ELSE /\ Goto(c, IF req[c].op = "query" \/ req[c].key = NoKey THEN "load" ELSE "find")
            /\ UNCHANGED <<req, mode, ord, view, write, inserted, keyLock, reply>>
  /\ UNCHANGED <<lost, tables, caches>>

\* ticketIdempotencyCache.get(tenant, key) and the comparison of fingerprints.
FindCached(c) ==
  /\ pc[c] = "find"
  /\ \/ \E p \in idemCache[req[c].key] :
          \/ /\ p = Fingerprint(req[c])
             /\ Goto(c, "load")
             /\ mode' = [mode EXCEPT ![c] = "replay"]
          \/ /\ p = LegacyFingerprint(req[c])
             /\ Goto(c, "findLegacy")
             /\ UNCHANGED mode
          \/ /\ p \notin {Fingerprint(req[c]), LegacyFingerprint(req[c])}
             /\ Goto(c, "findOther")
             /\ UNCHANGED mode
     \/ /\ idemCache[req[c].key] = {} \/ RedisFails
        /\ Goto(c, "findEvent")
        /\ UNCHANGED mode
  /\ UNCHANGED <<lost, tables, caches, req, ord, view, write, inserted, keyLock, reply>>

\* Fault seeded for KeyBindsOneRequest: the event found under the key is
\* replayed without comparing fingerprints.
FindEventUnchecked(c) ==
  /\ pc[c] = "findEvent"
  /\ IF ReadView(c).hits = {} THEN NoMatch(c) ELSE Match(c)
  /\ UNCHANGED <<lost, tables, caches>>

\* No entry in Redis: the event stored under the key decides.
FindEvent(c) ==
  /\ pc[c] = "findEvent"
  /\ \/ /\ ReadView(c).hits = {}
        /\ NoMatch(c)
     \/ \E e \in ReadView(c).hits :
          IF \/ e.print = Fingerprint(req[c])
             \/ e.print = LegacyFingerprint(req[c]) /\ e.op = req[c].op
            THEN Match(c)
            ELSE Conflict(c)
  /\ UNCHANGED <<lost, tables, caches>>

\* Fault seeded for NoFalseSuccess: a legacy entry is trusted whatever the
\* operation of the stored event.
FindLegacyTrusting(c) ==
  /\ pc[c] = "findLegacy"
  /\ IF ReadView(c).hits # {} THEN Match(c) ELSE Conflict(c)
  /\ UNCHANGED <<lost, tables, caches>>

\* A legacy entry in Redis cannot tell the operations apart: the stored event
\* must be of this operation, otherwise the request fails closed.
FindLegacy(c) ==
  /\ pc[c] = "findLegacy"
  /\ IF \E e \in ReadView(c).hits : e.op = req[c].op
       THEN Match(c)
       ELSE Conflict(c)
  /\ UNCHANGED <<lost, tables, caches>>

\* An entry of another request in Redis: a conflict only if the event exists.
FindOther(c) ==
  /\ pc[c] = "findOther"
  /\ IF ReadView(c).hits = {} THEN NoMatch(c) ELSE Conflict(c)
  /\ UNCHANGED <<lost, tables, caches>>

\* loadOrder: the snapshot in the order cache.
LoadCached(c) ==
  /\ pc[c] = "load"
  /\ \/ /\ orderCache[req[c].order] # Absent
        /\ ord' = [ord EXCEPT ![c] = orderCache[req[c].order]]
        /\ Goto(c, AfterLoad(c))
     \/ /\ orderCache[req[c].order] = Absent \/ RedisFails
        /\ Goto(c, "loadDb")
        /\ UNCHANGED ord
  /\ UNCHANGED <<lost, tables, caches, req, mode, view, write, inserted, keyLock, reply>>

\* The row c's SELECT returns: its own uncommitted write, the latest committed
\* row outside a transaction (queryOrder), the one of its read view inside.
VisibleRow(c) ==
  IF write[c] # Absent THEN write[c]
  ELSE IF req[c].op = "query" THEN rows[req[c].order]
  ELSE ReadView(c).row

\* loadOrder: the row, when the cache had none.
LoadDb(c) ==
  /\ pc[c] = "loadDb"
  /\ IF VisibleRow(c) = Absent
       THEN Answer(c, "ORDER_NOT_FOUND", Absent)
       ELSE /\ ord' = [ord EXCEPT ![c] = VisibleRow(c)]
            /\ view' = IF req[c].op = "query" THEN view
                       ELSE [view EXCEPT ![c] = ReadView(c)]
            /\ Goto(c, "fill")
            /\ UNCHANGED <<req, mode, write, inserted, keyLock, reply>>
  /\ UNCHANGED <<lost, tables, caches>>

\* orderCache.put, or its swallowed failure.
PutSnapshot(c) ==
  \/ orderCache' = [orderCache EXCEPT ![req[c].order] = ord[c]]
  \/ RedisFails /\ UNCHANGED orderCache

\* loadOrder: the row just read goes into the cache.
Fill(c) ==
  /\ pc[c] = "fill"
  /\ PutSnapshot(c)
  /\ Goto(c, AfterLoad(c))
  /\ UNCHANGED <<lost, tables, idemCache, req, mode, ord, view, write, inserted, keyLock, reply>>

\* checkAccess and the checks on the order's status.
Check(c) ==
  /\ pc[c] = "check"
  /\ IF Verdict(req[c], ord[c]) = "PROCEED"
       THEN /\ Goto(c, "update")
            /\ UNCHANGED <<req, mode, ord, view, write, inserted, keyLock, reply>>
       ELSE Answer(c, Verdict(req[c], ord[c]),
                   IF Verdict(req[c], ord[c]) = "OK" THEN ord[c] ELSE Absent)
  /\ UNCHANGED <<lost, tables, caches>>

\* Fault seeded for AtomicSettlement: the handler runs without its transaction,
\* and the UPDATE is committed at once.
UpdateAutocommit(c) ==
  /\ pc[c] = "update"
  /\ ~ RowLocked(c, req[c].order)
  /\ IF Updatable(req[c].op, rows[req[c].order])
       THEN /\ rows' = [rows EXCEPT ![req[c].order] = Applied(req[c].op, @)]
            /\ ord' = [ord EXCEPT ![c] = Applied(req[c].op, ord[c])]
            /\ Goto(c, "put")
            /\ UNCHANGED <<req, mode, view, write, inserted, keyLock, reply>>
       ELSE /\ Answer(c, AlreadyExists(req[c].op), Absent)
            /\ UNCHANGED rows
  /\ UNCHANGED <<lost, events, caches>>

\* The guarded UPDATE, a current read: it waits for the row's lock, then
\* writes the row or matches none.  The Order object is changed as well.
Update(c) ==
  /\ pc[c] = "update"
  /\ ~ RowLocked(c, req[c].order)
  /\ IF Updatable(req[c].op, rows[req[c].order])
       THEN /\ write' = [write EXCEPT ![c] = Applied(req[c].op, rows[req[c].order])]
            /\ ord' = [ord EXCEPT ![c] = Applied(req[c].op, ord[c])]
            /\ Goto(c, "put")
            /\ UNCHANGED <<req, mode, view, inserted, keyLock, reply>>
       ELSE Answer(c, AlreadyExists(req[c].op), Absent)
  /\ UNCHANGED <<lost, tables, caches>>

\* applyRefund, applyCancel: the order cache is refreshed before the commit.
PutOrder(c) ==
  /\ pc[c] = "put"
  /\ PutSnapshot(c)
  /\ Goto(c, "insert")
  /\ UNCHANGED <<lost, tables, idemCache, req, mode, ord, view, write, inserted, keyLock, reply>>

\* insertOrderEvent meets an uncommitted event under its key: the check for
\* duplicates asks for a shared lock on that event and waits.
AwaitKey(c) ==
  /\ pc[c] = "insert"
  /\ keyLock[c] = "none"
  /\ req[c].key # NoKey /\ KeyLocked(c, req[c].key)
  /\ keyLock' = [keyLock EXCEPT ![c] = "asked"]
  /\ UNCHANGED <<lost, tables, caches, pc, req, mode, ord, view, write, inserted, reply>>

\* Fault seeded for LedgerComplete: the duplicate key is swallowed and the
\* handler goes on as after a successful insert.
InsertIgnore(c) ==
  /\ pc[c] = "insert"
  /\ req[c].key # NoKey => ~ KeyLocked(c, req[c].key) /\ ~ GapShared(c, req[c].key)
  /\ inserted' = [inserted EXCEPT ![c] = ~ Duplicate(c)]
  /\ keyLock' = [keyLock EXCEPT ![c] = "none"]
  /\ Goto(c, IF req[c].key = NoKey THEN "commit" ELSE "remember")
  /\ UNCHANGED <<lost, tables, caches, req, mode, ord, view, write, reply>>

\* insertOrderEvent: waits for an uncommitted event under the same key, fails
\* on a committed one (DuplicateKeyException, caught: the row stays written),
\* and otherwise waits until nobody else has a shared lock where it inserts.
\* A shared lock kept past this statement only delays others: its holder
\* has no statement left that waits.
Insert(c) ==
  /\ pc[c] = "insert"
  /\ keyLock' = [keyLock EXCEPT ![c] = "none"]
  /\ \/ /\ req[c].key = NoKey
        /\ inserted' = [inserted EXCEPT ![c] = TRUE]
        /\ Goto(c, "commit")
        /\ UNCHANGED mode
     \/ /\ Duplicate(c)
        /\ mode' = [mode EXCEPT ![c] = "recover"]
        /\ Goto(c, "find")
        /\ UNCHANGED inserted
     \/ /\ req[c].key # NoKey /\ ~ Duplicate(c)
        /\ ~ KeyLocked(c, req[c].key) /\ ~ GapShared(c, req[c].key)
        /\ inserted' = [inserted EXCEPT ![c] = TRUE]
        /\ Goto(c, "remember")
        /\ UNCHANGED mode
  /\ UNCHANGED <<lost, tables, caches, req, ord, view, write, reply>>

\* Two requests that waited for one event both have their shared lock after it
\* was rolled back, and each insert waits for the other's lock: InnoDB rolls
\* one of them back.  (Keys next to each other may share the gap.)
Deadlock(c) ==
  /\ keyLock[c] = "shared"
  /\ \E d \in Clients \ {c} : keyLock[d] = "shared"
  /\ Answer(c, "ERROR", Absent)
  /\ UNCHANGED <<lost, tables, caches>>

\* ticketIdempotencyCache.put, or its swallowed failure; before the commit too.
Remember(c) ==
  /\ pc[c] = "remember"
  /\ \/ idemCache' = [idemCache EXCEPT ![req[c].key] = {Fingerprint(req[c])}]
     \/ RedisFails /\ UNCHANGED idemCache
  /\ Goto(c, "commit")
  /\ UNCHANGED <<lost, tables, orderCache, req, mode, ord, view, write, inserted, keyLock, reply>>

\* The method returns, the transaction commits, the answer goes out.
Commit(c) ==
  /\ pc[c] = "commit"
  /\ rows' = IF write[c] = Absent THEN rows
             ELSE [rows EXCEPT ![req[c].order] = write[c]]
  /\ events' = IF inserted[c] THEN events \cup {EventFor(req[c])} ELSE events
  /\ Answer(c, "OK", ord[c])
  /\ UNCHANGED <<lost, caches>>

\* A statement or the commit fails in MySQL (lost connection, lock wait
\* timeout, deadlock victim), or the service stops: the transaction is rolled
\* back, the caller gets no result.
DbFault(c) ==
  /\ "db" \in Faults
  /\ pc[c] \in {"findEvent", "findLegacy", "findOther", "loadDb", "update",
                "insert", "commit"}
  /\ Answer(c, "ERROR", Absent)
  /\ lost' = (lost \/ (pc[c] = "commit" /\ inserted[c] /\ req[c].key # NoKey))
  /\ UNCHANGED <<tables, caches>>

\* The TTLs of the two Redis namespaces, and eviction.
ExpireOrder(o) ==
  /\ "expiry" \in Faults
  /\ orderCache[o] # Absent
  /\ orderCache' = [orderCache EXCEPT ![o] = Absent]
  /\ UNCHANGED <<lost, tables, idemCache, pc, req, mode, ord, view, write, inserted, keyLock, reply>>

ExpireKey(k) ==
  /\ "expiry" \in Faults
  /\ idemCache[k] # {}
  /\ idemCache' = [idemCache EXCEPT ![k] = {}]
  /\ UNCHANGED <<lost, tables, orderCache, pc, req, mode, ord, view, write, inserted, keyLock, reply>>

\* A ticket is created under the same key: its entry replaces the order's.
TicketRemembers(k) ==
  /\ idemCache[k] # {TicketPrint}
  /\ idemCache' = [idemCache EXCEPT ![k] = {TicketPrint}]
  /\ UNCHANGED <<lost, tables, orderCache, pc, req, mode, ord, view, write, inserted, keyLock, reply>>

\* Every request has been answered.
Finished ==
  /\ \A c \in Clients : pc[c] = "done"
  /\ UNCHANGED vars

Step(c) ==
  \/ Receive(c) \/ FindCached(c) \/ FindEvent(c) \/ FindLegacy(c) \/ FindOther(c)
  \/ LoadCached(c) \/ LoadDb(c) \/ Fill(c) \/ Check(c) \/ Update(c)
  \/ PutOrder(c) \/ AwaitKey(c) \/ Insert(c) \/ Deadlock(c) \/ Remember(c) \/ Commit(c)

Next ==
  \/ \E c \in Clients : Step(c)
  \/ \E c \in Clients : DbFault(c)
  \/ \E o \in Orders : ExpireOrder(o)
  \/ \E k \in Keys : ExpireKey(k) \/ TicketRemembers(k)
  \/ Finished

Spec == Init /\ [][Next]_vars

-----------------------------------------------------------------------------
(* Properties. *)

\* SettledOnce: an order has at most one refund or cancellation event, ever,
\* and no row is both refunded and canceled: whatever the interleaving of
\* refunds and cancellations, stale snapshots and failures of Redis or MySQL,
\* one of them wins (the WHERE clauses of OrderMapper.xml).
SettledOnce ==
  /\ \A e, f \in events : e.order = f.order => e = f
  /\ \A o \in Orders : ~ (rows[o].pay = "refunded" /\ rows[o].status = "canceled")

\* LedgerComplete: a row is refunded (canceled) exactly when its refund
\* (cancel) event is stored, as long as no transaction was lost after its
\* entry went to Redis: the recovery from a duplicate key in refundOrder and
\* cancelOrder never commits a row without its event.
LedgerComplete ==
  ~ lost =>
    \A o \in Orders : \A op \in Ops :
      rows[o] # Absent =>
        (Shows(op, rows[o]) <=> \E e \in events : e.order = o /\ e.op = op)

Succeeded(c) == req[c].op \in Ops /\ reply[c].code = "OK"

Effective(op, o) == \E e \in events : e.order = o /\ e.op = op

\* A request in flight that has written the row and the event of op on o.
Committing(op, o) ==
  \E d \in Clients : inserted[d] /\ req[d].order = o /\ req[d].op = op

\* NoFalseSuccess: a refund or cancellation answered OK is in the ledger, or
\* is about to be through a request that has written it already, as long as
\* no transaction was lost after its entry went to Redis.
NoFalseSuccess ==
  ~ lost => \A c \in Clients : Succeeded(c) =>
    Effective(req[c].op, req[c].order) \/ Committing(req[c].op, req[c].order)

\* KeyBindsOneRequest: two requests with one Idempotency-Key both succeed only
\* if they ask the same operation on the same order ("cross-operation" reuse
\* of a key is refused), under the same condition.
KeyBindsOneRequest ==
  ~ lost => \A c, d \in Clients :
    Succeeded(c) /\ Succeeded(d) /\ req[c].key = req[d].key /\ req[c].key # NoKey
      => req[c].op = req[d].op /\ req[c].order = req[d].order

\* What the next statement of c waits for.  Where an insert goes, another key's
\* shared lock may cover the gap as well: counted as waiting.
Waiting(c) ==
  \/ pc[c] = "update" /\ RowLocked(c, req[c].order)
  \/ pc[c] = "insert" /\ req[c].key # NoKey /\ KeyLocked(c, req[c].key)
  \/ pc[c] = "insert" /\ ~ Duplicate(c) /\ \E d \in Clients \ {c} : keyLock[d] = "shared"

\* Two requests that a rollback has left waiting for each other's shared lock.
Deadlocked ==
  \E c, d \in Clients : c # d /\ keyLock[c] = "shared" /\ keyLock[d] = "shared"

\* NoStandoff: requests never all wait for one another's row and key locks,
\* but for one standoff: the commit of a keyed settlement failed while two
\* others waited for its event, and InnoDB's choice of a victim among
\* those two ends it (the row lock is taken before the key in refundOrder and
\* cancelOrder, and nothing that waits comes after the key).
NoStandoff ==
  (\E c \in Clients : pc[c] # "done") =>
    \/ \E c \in Clients : pc[c] # "done" /\ ~ Waiting(c)
    \/ lost /\ Deadlocked

Ledger == INSTANCE SettlementLedger

\* AtomicSettlement: every change of the two tables is one settlement of the
\* abstract ledger (an open order, a fresh key, row and event together), as
\* long as no transaction was lost after its entry went to Redis.
AtomicSettlement == [][lost \/ Ledger!Next]_tables

\* SuccessIsExecuted: NoFalseSuccess without its condition: MySQL, not Redis,
\* decides whether a keyed request has been executed.
SuccessIsExecuted ==
  \A c \in Clients : Succeeded(c) =>
    Effective(req[c].op, req[c].order) \/ Committing(req[c].op, req[c].order)
=============================================================================
