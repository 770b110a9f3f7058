---------------------------- MODULE TicketService ----------------------------
(***************************************************************************)
(* createTicket of the Java service (TicketServiceImpl): the requests that  *)
(* carry one Idempotency-Key of one tenant, each a REPEATABLE READ          *)
(* transaction over the tickets table with its unique key                   *)
(* (tenant_id, idempotency_key), and the entry of the key in Redis.         *)
(* A ticket is named after the request that inserted it.                    *)
(***************************************************************************)
EXTENDS Naturals, FiniteSets

CONSTANTS
  Requests,
  Fingerprint,   \* Requests -> TicketRequestFingerprint of user and command
  WithOrder,     \* the requests with a related order, validated first
  Faults,        \* which of "redis", "commit" may happen
  None,          \* no ticket
  Unopened       \* a transaction that has read nothing yet has no snapshot

ASSUME RequestsAssumption == None \notin Requests /\ Unopened \notin Requests /\ None # Unopened
ASSUME WithOrderAssumption == WithOrder \subseteq Requests

VARIABLES
  ticket,     \* the committed row of the key, or None
  inserted,   \* the transaction whose row for the key is not committed, or None
  cache,      \* the ticket the entry of the key names, or None
  pc, view,   \* of every request: the next step, what its snapshot shows
  answer      \* of every request: what it was answered
service == <<ticket, inserted, cache, pc, view, answer>>

NoAnswer == [kind |-> "none", ticket |-> None]
Ok(t) == [kind |-> "ok", ticket |-> t]
Conflict(t) == [kind |-> "conflict", ticket |-> t]
Failed == [kind |-> "failed", ticket |-> None]
Answers == {NoAnswer, Failed} \cup {Ok(t) : t \in Requests} \cup {Conflict(t) : t \in Requests}

ServiceTypeOK ==
  /\ ticket \in Requests \cup {None}
  /\ inserted \in Requests \cup {None}
  /\ cache \in Requests \cup {None}
  /\ pc \in [Requests -> {"idle", "cache", "select", "insert", "remember", "commit", "done"}]
  /\ view \in [Requests -> Requests \cup {None, Unopened}]
  /\ answer \in [Requests -> Answers]

ServiceInit ==
  /\ ticket = None /\ inserted = None /\ cache = None
  /\ pc = [r \in Requests |-> "idle"]
  /\ view = [r \in Requests |-> Unopened]
  /\ answer = [r \in Requests |-> NoAnswer]

Goto(r, step) == pc' = [pc EXCEPT ![r] = step]

Finish(r, a) == Goto(r, "done") /\ answer' = [answer EXCEPT ![r] = a]

\* What a consistent read of r shows: its first read takes the snapshot.
See(r) == IF view[r] = Unopened THEN ticket ELSE view[r]
Read(r) == view' = [view EXCEPT ![r] = See(r)]

\* Redis is asked in vain or does not take the entry when it is down.
Fetched == {cache} \cup (IF "redis" \in Faults THEN {None} ELSE {})
Remembered(t) == cache' = t \/ ("redis" \in Faults /\ UNCHANGED cache)

\* existingTicketOrConflict
Existing(r, t) == IF Fingerprint[t] = Fingerprint[r] THEN Ok(t) ELSE Conflict(t)

\* validateIdempotencyKey, validateRelatedOrder
Begin(r) ==
  /\ pc[r] = "idle"
  /\ IF r \in WithOrder THEN Read(r) ELSE UNCHANGED view
  /\ Goto(r, "cache")
  /\ UNCHANGED <<ticket, inserted, cache, answer>>

\* Fault seeded for AnswersTrue: the entry is believed without its ticket.
FindCachedTrusting(r) ==
  /\ pc[r] = "cache"
  /\ \E t \in Fetched :
       IF t = None
         THEN Goto(r, "select") /\ UNCHANGED answer
         ELSE Finish(r, Existing(r, t))
  /\ UNCHANGED <<ticket, inserted, cache, view>>

\* Fault seeded for RetryFinds: an entry whose ticket is not there is an error.
FindCachedOrFail(r) ==
  /\ pc[r] = "cache"
  /\ \E t \in Fetched :
       IF t = None
         THEN Goto(r, "select") /\ UNCHANGED <<view, answer>>
         ELSE /\ Read(r)
              /\ Finish(r, IF See(r) = t THEN Existing(r, t) ELSE Failed)
  /\ UNCHANGED <<ticket, inserted, cache>>

\* findFromIdempotencyCache: an entry counts once the ticket it names is seen.
FindCached(r) ==
  /\ pc[r] = "cache"
  /\ \E t \in Fetched :
       IF t = None
         THEN Goto(r, "select") /\ UNCHANGED <<view, answer>>
         ELSE /\ Read(r)
              /\ IF See(r) = t
                   THEN Finish(r, Existing(r, t))
                   ELSE Goto(r, "select") /\ UNCHANGED answer
  /\ UNCHANGED <<ticket, inserted, cache>>

\* findByIdempotencyKey, and rememberIdempotency when the ticket is the caller's.
FindExisting(r) ==
  /\ pc[r] = "select"
  /\ Read(r)
  /\ IF See(r) = None
       THEN Goto(r, "insert") /\ UNCHANGED <<cache, answer>>
       ELSE /\ Finish(r, Existing(r, See(r)))
            /\ IF Fingerprint[See(r)] = Fingerprint[r]
                 THEN Remembered(See(r)) ELSE UNCHANGED cache
  /\ UNCHANGED <<ticket, inserted>>

\* insertTicket: waits for the transaction that holds the key; once that has
\* committed the key is a duplicate, and the second findByIdempotencyKey reads
\* the snapshot the first one took.
Insert(r) ==
  /\ pc[r] = "insert" /\ inserted = None
  /\ IF ticket = None
       THEN inserted' = r /\ Goto(r, "remember") /\ UNCHANGED answer
       ELSE /\ Finish(r, IF See(r) = None THEN Failed ELSE Existing(r, See(r)))
            /\ UNCHANGED inserted
  /\ UNCHANGED <<ticket, cache, view>>

\* insertCreatedEvent and rememberIdempotency, before the commit.
Remember(r) ==
  /\ pc[r] = "remember"
  /\ Remembered(r) /\ Goto(r, "commit")
  /\ UNCHANGED <<ticket, inserted, view, answer>>

Commit(r) ==
  /\ pc[r] = "commit"
  /\ ticket' = r /\ inserted' = None
  /\ Finish(r, Ok(r))
  /\ UNCHANGED <<cache, view>>

\* The rollback wakes the inserts that wait; all but one may be the victims of
\* the deadlock their shared locks on the vanished row lead to.
CommitFails(r) ==
  LET waiting == {q \in Requests : pc[q] = "insert"}
  IN  /\ "commit" \in Faults /\ pc[r] = "commit"
      /\ inserted' = None
      /\ \E V \in SUBSET waiting :
           /\ V # waiting \/ waiting = {}
           /\ pc' = [q \in Requests |-> IF q \in V \cup {r} THEN "done" ELSE pc[q]]
           /\ answer' = [q \in Requests |-> IF q \in V \cup {r} THEN Failed ELSE answer[q]]
      /\ UNCHANGED <<ticket, cache, view>>

\* The entry expires, after ticket-idempotency-ttl-seconds or because Redis is emptied.
Expire ==
  /\ cache # None /\ cache' = None
  /\ UNCHANGED <<ticket, inserted, pc, view, answer>>

RequestStep(r) ==
  \/ FindCached(r) \/ FindExisting(r) \/ Insert(r)
  \/ Remember(r) \/ Commit(r) \/ CommitFails(r)

ServiceNext == Expire \/ \E r \in Requests : Begin(r) \/ RequestStep(r)

ServiceSpec == ServiceInit /\ [][ServiceNext]_service

-----------------------------------------------------------------------------
\* Whatever the cache says, an OK answer names the one committed ticket of the
\* key, made of the request's own fingerprint, and for good; a conflict is only
\* answered when the key's ticket is another request's.
AnswersTrue ==
  \A r \in Requests :
    /\ answer[r].kind = "ok" =>
         ticket = answer[r].ticket /\ Fingerprint[ticket] = Fingerprint[r]
    /\ answer[r].kind = "conflict" =>
         ticket = answer[r].ticket /\ Fingerprint[ticket] # Fingerprint[r]

\* A request whose snapshot was taken after the ticket was committed, a retry for
\* one, is never turned away with an error, whatever the entry in Redis names.
RetryFinds ==
  \A r \in Requests : view[r] \in Requests => answer[r].kind # "failed"
=============================================================================
