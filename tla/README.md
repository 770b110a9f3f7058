# DaYun verification project

TLA+ models of the concurrent core of DaYun, an AI customer-service system: a
Python service (`src/projects/ai-service`, FastAPI, LangGraph, MCP, Redis) that
talks to the customer, and a Java service
(`src/projects/java-business-service`, Spring, MyBatis, MySQL, Redis) that owns
orders, tickets and the queue of human hand-offs. The modules are translated
from the code; TLC checks them on small instances and TLAPS proves the main
theorems for every value of the constants.

Paths below are abbreviated: `AI/` is `src/projects/ai-service/app/`, `JAVA/` is
`src/projects/java-business-service/src/main/java/com/panpan/aibusinessservice/`.

| status of this document | |
|---|---|
| modelled, checked and proved about | order tool API, human hand-off queue, the take-over and confirmation logic of the console agent, ticket tool API with the workflow before it, ticket workbench, the transcript and its sync, the turns of the ticket agent in both graphs, knowledge base documents |
| modelled and checked | cost sync |
| planned | LLM call service, rate limits, pure strategies (see *Plan*) |

## 1. Inventory

How the parts hang together: the console (Vue) calls the **console agent
service**, one conversation at a time; it asks Java for an active **hand-off**,
runs the **ticket agent graph** (a LangGraph state machine whose checkpoint is
the memory of the thread), and records the exchange in the **conversation
store** (Redis), from which a background task **syncs** to Java. The graph's tool
nodes call the **order** and **ticket tool APIs** of Java, either directly or
through an **MCP server** that keeps **confirmations** of its own. Staff work in
Java's **workbench** and **hand-off queue**, and answer customers through the
console agent service.

### Java service

* **Order tool API** (`JAVA/service/impl/OrderServiceImpl.java`).
  State: MySQL `orders` and `order_events` (unique key on tenant and idempotency
  key), Redis order snapshots (TTL 300 s) and idempotency entries (TTL 24 h, a
  namespace shared with tickets). Operations: `queryOrder`, `refundOrder`,
  `cancelOrder`. Hard: concurrent requests on one order, retries with one
  Idempotency-Key, Redis writes before the MySQL commit, stale snapshots,
  fingerprints of before an upgrade. Correct when: an order is settled once; row
  and event agree; an OK answer is true; a key stands for one request; requests
  never deadlock on row and key locks, but for the one deadlock InnoDB resolves.
* **Ticket tool API** (`TicketServiceImpl.java`). The same pattern (cache, unique
  key, recovery from a duplicate) around the creation of tickets. Correct when
  one key creates one ticket, and a retry finds it. Hard: the recovery reads in
  the snapshot of its transaction.
* **Ticket workbench** (`TicketQueryServiceImpl.java`). State: tickets,
  assignments, messages. Operations: claim, assign, reply, resolve, re-open,
  status changes. Hard: check-then-act without locks. Correct when a ticket moves
  along allowed transitions only and has one agent.
* **Human hand-off queue** (`InternalHumanHandoffController.java`,
  `HumanHandoffController.java`). State: `ai_human_handoffs`. Operations: create,
  look up the newest active row, claim, transfer, close. Hard: none of them is a
  transaction; creating and transferring are check-then-act. Correct when one
  claim of a row wins, rows change hands only by someone entitled, and a closed
  row stays closed.
* **Conversation persistence** (`AiConversationServiceImpl.java`). Upsert of a
  conversation, `INSERT IGNORE` of its messages, deletion after 30 days.
* **Accounts, feedback, ops statistics, RAG evaluation runs**: single-row CRUD and
  aggregation. **Rate limiting** (`common/rate`): a counter per window in Redis.

### AI service

* **Console agent service** (`AI/services/console_agent_service.py`). State: none
  of its own; it reads and drives the thread's checkpoint, the hand-off queue and
  the conversation store. Operations: `reply`, `stream_reply`,
  `decide_ticket_confirmation`, `correct_ticket_confirmation`,
  `request_human_handoff`, `human_reply`. Hard: every endpoint is
  check-then-act over shared state and nothing serialises two calls of one
  conversation. Correct when the AI is silent in a take-over, only what was
  approved is executed, and only entitled staff reach the customer.
* **Ticket agent graph** (`AI/agents/ticket_agent.py`). State: the checkpoint
  (drafts, order status, emotion, interrupt). Nodes classify, extract, query,
  confirm (interrupt), execute. Hard: fields that survive from earlier turns.
* **Supervisor and workers** (`AI/agents/supervisor`, `AI/agents/workers`): the same
  nodes in worker subgraphs, whose states reach the thread when a worker ends.
* **Conversation store and sync** (`console_agent_conversation_store.py`,
  `conversation_sync.py`). State: one Redis value per conversation, a set of
  pending markers. Hard: read-modify-write by several processes; the flush reads,
  writes to Java and removes the marker. Correct when no exchange is lost.
* **Tool confirmation and idempotency stores** (`tools/tool_confirmation.py`,
  `tools/idempotency.py`), **ticket workflow** (`ticket_workflow_service.py`):
  pending, confirmed and expired records; a result kept per key.
* **MCP servers and clients**: a gate (`require_confirmed`) before each write.
* **Costs** (`cost_recorder.py`, `cost_sync.py`): aggregation, flush, restore.
* **Rate limiting, model routing and fallback, LLM retry, release and cost
  control, retry/timeout/resilience strategies, thread life cycle and clean-up,
  user memory**: decision tables and small stores.
* **Knowledge base documents** (`AI/routers/knowledge_base.py`, `AI/rag/ingestion.py`,
  `KnowledgeDocumentServiceImpl.java`). State: the files of a directory, the points of
  a Qdrant collection, rows in Java. Operations: create, upload, update, ingest, delete,
  ingestion of the directory. Hard: three stores, no transaction, failures passed over,
  ids of chunks that collide. Correct when a saved document is what questions are
  answered from, and a deleted one is not.
* **RAG, LLM client, evaluation, observability, front end, scripts**: numeric,
  textual or pure I/O; not modelled.

`PROJECT.json` lists every component with its files and, under `hazards`, each
place where this code is hard to test, with the property that watches it or, where
there is none, the reason.

## 2. Modules

| module | what it is |
|---|---|
| `OrderService` | the order tool API, one action per Redis or SQL statement |
| `SettlementLedger` | the abstract ledger it implements |
| `OrderService_proofs` | seven theorems about it |
| `HumanHandoff` | the hand-off queue, one action per SQL statement |
| `HandoffLifecycle` | the life of one row, which it implements |
| `HumanHandoff_proofs` | four theorems about it |
| `ConsoleAgent` | one conversation of the console agent, composed with `HumanHandoff` |
| `ConsoleAgent_proofs` | five theorems about the composition, two of which rest on the queue's invariant |
| `ConversationSync` | the transcript of a conversation in Redis, its flush to Java and its rebuilding |
| `DurableTranscript` | what Java promises of the messages, which it implements |
| `ConversationSync_proofs` | four theorems about both |
| `TicketService` | creation of a ticket under one idempotency key, one action per statement |
| `TicketWorkflow` | confirmation and executions of a plan in the AI service, composed with `TicketService` |
| `TicketWorkflow_proofs` | four theorems about both |
| `TicketDesk` | one ticket on the workbench |
| `TicketDesk_proofs` | three theorems about it |
| `TicketThread` | the turns of one thread of the agent, one action per node, both graphs |
| `ApprovedExecution` | shown, approved, executed: the contract it implements |
| `TicketThread_proofs` | five theorems about both |
| `CostSync` | recording, flush and restoring of costs |
| `KnowledgeBase` | the documents in directory, collection and catalogue |
| `KnowledgeBase_proofs` | five theorems about it |
| `MCOrderService`, `MCHumanHandoff`, `MCConsoleAgent`, `MCConversationSync`, `MCTicketWorkflow`, `MCTicketDesk`, `MCTicketThread`, `MCKnowledgeBase` | instances for TLC (`CostSync` needs none) |

Operators named "Fault seeded for P" are plausible bugs (a dropped guard, a
statement out of its transaction, a write that forgets its row). No action uses
them; each is meant to replace the operator it stands beside, and breaks P.

## 3. The order tool API: `OrderService`

Each element of `Clients` is one HTTP request; a retry is another client with the
same content. The order of the actions of a request is that of the statements:

| code (`OrderServiceImpl`) | action |
|---|---|
| entry, length check of the reason | `Receive` |
| `findOrderByIdempotency`: Redis, event, legacy branch, entry of somebody else | `FindCached`, `FindEvent`, `FindLegacy`, `FindOther` |
| `loadOrder`: cache, SELECT, filling the cache | `LoadCached`, `LoadDb`, `Fill` |
| `checkAccess` and status checks | `Check` (`Verdict` is their order) |
| `applyRefund` / `applyCancel`: guarded UPDATE, cache, event, idempotency entry | `Update`, `PutOrder`, `Insert`, `Remember` |
| return and commit | `Commit` |
| `catch (DuplicateKeyException)` inside the transaction | `Insert` going back to `find` in mode `recover` |

*InnoDB.* A read view is what a request's SELECTs can observe of it: its order's row
and the events under its key, taken by its first SELECT (REPEATABLE READ). The
UPDATE is a current read; it takes the row lock, which `write[c] # Absent` stands
for, and the INSERT locks its event (`inserted[c]`). Another insert under that key asks for
a shared lock on the event (`AwaitKey`) and is granted it when the transaction ends
(`Granted`): after a commit it fails on the duplicate, after a rollback the lock is on the
gap, and two waiters that hold one deadlock (`Deadlock`; a third order under the key is
needed, since the row lock keeps two requests on one order apart). A failed statement rolls
back.
`queryOrder` is read-only without a transaction and reads the latest commit.
*Redis.* Both caches fail silently, expire, and take no part in the transaction; a
ticket created under the same key replaces the order's entry. *Data.* Amounts,
payload JSON and times are left out; a fingerprint is the record of what it hashes,
with `kind` "legacy" for those written before the operation was added.

`lost` is a history variable: a keyed transaction failed at its commit, after its
idempotency entry reached Redis. Four properties hold only without that, and the
run `orders_false_success` shows what happens otherwise.

*Bounds.* Three requests (a race of two and the retry that sees the outcome, or two that
wait for a third), three orders, one key, seven request shapes (a refund, the cancellation
and the refunds of the other orders under its key, an unkeyed cancellation, an over-long
reason, a query by somebody who is not the owner) and four starting ledgers (fresh, shipped,
refunded before the upgrade with and without the Redis entry). Three requests are
enough for every pair of statements to interleave around a third; the theorems
remove the bounds.

## 4. The hand-off queue: `HumanHandoff`

The rows of one conversation. `create` is `CreateCheck` (SELECT) and `CreateInsert`,
`transfer` is `TransferCheck` and `TransferWrite`, `claim` and `close` are the one
guarded UPDATE each of them is. A refused call is the absence of a step. A row is
known by its `created_at`, taken when its creator read the clock (`CreateCheck`): two
rows of one millisecond are not modelled. `claimed` and `owners` are history:
whose claim was answered OK, and everyone a row was ever assigned to.

*Bounds.* Two creators (two rows, which is all `Newest` can tell from more), three
members of staff, one a supervisor, so that a transfer can race a transfer and a close.

## 5. The console agent: `ConsoleAgent`

One conversation. `Requests` are the calls of its endpoints, and a step is one access
to something they share: the checkpoint (`pending`, `orderFailed`, `emotional`), the
confirmations of the MCP server (`confirmed`), the queue
(`Queue == INSTANCE HumanHandoff WITH Creators <- Requests`).

| code (`ConsoleAgentService`) | actions |
|---|---|
| `reply`: pending check, hand-off lookup, graph | `CheckPending`, `Lookup`, `RunBegin`, `RunEnd` |
| `stream_reply`: hand-off lookup, pending check, graph | the same, in its order (`First`, `AfterPending`, `AfterLookup`) |
| `request_human_handoff` | `CheckPending`, `CheckEligible`, `RunBegin`, `RunEnd` |
| `decide_ticket_confirmation` | `Recognise`, `Register`, `ResumeBegin`, `ResumeEnd`, `Execute` |
| `correct_ticket_confirmation` | `Recognise`, `ResumeBegin`, `ResumeEnd` |
| `human_reply` | `LookupAssigned`, `Append` |
| `_record_exchange` -> `create_handoff` | `QueueMoves` for the calls in `escalated` |
| TTL of a confirmation | `Expire` |

Choices worth knowing. What a run of the graph answers depends on a language model
and is a nondeterministic outcome: an answer, a draft at its interrupt, or an
exception, with any order status. A run resumed from an interrupt works on the state
it started from (`held`) and writes that over the checkpoint; a resumption that finds
no interrupt does nothing. That two runs of one thread may be resumed into one another's
intermediate checkpoints is not modelled: a run saves when it begins and when it ends. `create_handoff` may
be lost, or be cut off by its timeout while Java goes on, so the creation takes place
at any time after the answer, or never. The history variables `within`, `blind` and
`shadowed` record which messages arrived in a take-over that still lasts, and what
their lookup was shown. The graph is the single-agent one (the default).

*Bounds.* Three concurrent calls of any kind, two drafts, two members of staff: two calls
open two rows and one message, reply or decision meets them, or a message drafts and a
correction and a decision race. The view leaves out what an answered call had read.
`console_yields` and `console_direct` are smaller instances that reach their
counterexample sooner; `console_direct` needs a fourth call.

## 6. The transcript: `ConversationSync`

One Redis value, `transcript`. Every call (`Kind`: an exchange, a question in a take-over, a
reply of the staff, a rating) and the flusher read it whole and write it back later:

| code | actions |
|---|---|
| `get`, `_backfill_conversation` | `GetHit`, `GetMiss`, `Fill`, `FillFails`, `Restore` |
| `append_exchange`, `append_human_reply`, `set_assistant_feedback` | `AppendCall` (a save with `Trim`) |
| `mark_pending` | `MarkPending` |
| `sync_once`, `_sync_one` | `SyncStart`, `WriteOk`, `WriteFails`, `Unmark`, `SyncFails` |
| TTL, eviction; end of the process | `Loss`, `Restart` |

`filed` is Java's `INSERT IGNORE` with the number of the batch, because a batch has one
time stamp and the listing is ordered by it. `gone` and `skipped` are history, the two
ways an entry may be lost: it was written over, trimmed or lost in Redis, or the flusher
removed the marker that stood for it. That they happen is how the code is; the properties
say that nothing else does. *Bounds.* Two exchanges, a reply, a rating, a transcript of two
entries, so that trimming, overwriting and each position of the flush occur.

## 7. Tickets: `TicketService`, `TicketWorkflow`, `TicketDesk`

`TicketService` is `createTicket` for the requests that carry one key: a read view opened by
the first SELECT, the unique key (an insert waits for an uncommitted one and fails after
its commit), Redis as in the orders. `TicketWorkflow` puts before it what the AI service
does: `Plan`, `Confirm`, `TimePasses` (a confirmation expires), `RequireConfirmed`, and
`run_idempotent_tool`, whose lock is held while Java is asked (`Replay`, `Call`,
`Answered`, `Timeout`); `Restart` empties its memory while Java goes on.
`TicketDesk` is `TicketQueryServiceImpl`: every operation reads the ticket with its
assignment in a REPEATABLE READ transaction (`Read`), checks (`Permitted`), and writes
without naming what it read (`WriteStatus`, `UpdateAssignment`, or, where there was no
row, the gap lock of `MissAssignment` and `InsertAssignment`; InnoDB ends a standoff of two
of them, `Deadlock`). *Bounds.* Three executions of one plan and a stranger with the same
key, with another fingerprint; on the desk six calls, one of each kind, on a ticket
in any state.

## 8. The thread of the agent: `TicketThread`

A message is `Admit` and `Start`, then one action per node of `build_ticket_agent_graph`,
whose route is the code's conditional edge, up to the interrupt (`Interrupt`), where
`Decide`, `Correct`, `Abandon` or a new message go on. `saved` is the checkpoint,
`state` what the running graph works on: in the single graph each node saves, under the
supervisor (`supervised`) a worker's updates reach the thread when it ends, as far as
the supervisor's state has the field, and are lost in a crash. Data is reduced to what a
route asks: intents, issues, an order or none, the flags of the flows, and in a draft the
turn it was begun in. What a language model makes of a text is a choice, the same for one
text. Runs of one thread overlap in `ConsoleAgent`, not here.
History: `shown`, `grant`, `ran` (the contract's state), `asked` and `wanted` (the flow of
the open question or of the message; all flows asked for since the last decision), `named`,
`settled`, `felt`, `disturbed` (since the last decision a run was given up, or a message
came in over an offer of the supervised graph). `message` holds the text only until the run
waits at the interrupt or is given up: nothing reads it afterwards. *Bounds.* Three messages
(one to leave flags behind, one to disturb, one to suffer) and two orders.
An abandoned run leaves a thread whose pending check refuses every message although
nothing was shown (`console_agent_service.py:262`); the model has these states.

## 9. Costs: `CostSync`

`Record`, `Flush`, `Deliver`, `Refuse`, `Restore` of one process: the sums in memory, the batch
under way and Java's table, with the number of calls recorded as history. One model with
one intent and two calls are enough for finding 4.

## 10. Documents: `KnowledgeBase`

A request takes one step per access to something shared: the files (`files`), the default
collection (`points`, under ids that leave the suffix out and turn punctuation into `_`:
`Slot`), the `kb_` collections, from which the endpoints only delete (`shelf`), and Java's
rows (`catalog`).

| code | actions |
|---|---|
| the endpoints up to their first write | `Create`, `CheckUpload`, `WriteUpload`, `Parse`, `ParseFails`, `CheckUpdate`, `WriteUpdate`, `CheckIngest`, `CheckDelete`, `LoadDirectory` |
| `_delete_source_from_all_collections` | `Remove`, `RemoveKb`, `RemoveFails` |
| `update_single_document`, `refresh_directory_in_vector_store` | `Purge`, `Load`, `LoadFails`, `Upsert`, `UpsertRefused`, `QdrantFails` |
| `upsert_document`, `delete_document` of Java | `Register`, `Unregister`, `JavaFails`, `JavaLands` |
| `unlink`; the end of the process | `Unlink`, `Crash` |

`Indexable` is `validate_document_metadata`: the collection takes chunks of `.md` and `.txt`
files with a type, domain and group in the text, and one chunk it does not take stops the
request. A text is known by its writer; the number of its chunks is the request's choice.
The labels (type, domain, group, taken together) are those of the last label lines among the
first twenty (`Loaded`): the header an endpoint writes comes first, so label lines in the body
win. Such lines have a colon of half or of full width (`lines`), or both kinds are absent;
`_strip_document_boilerplate` takes only those of half width out of the body when an update
keeps it (`Stripped`). Chunks get the labels of the text, Java's row those of the form, or of
the file for an ingestion, and `RowAgrees` says when the two are the same. Blank labels, titles
and texts with both widths are left out.

A call to Java that is given up has not been done, or is done later, after any calls that were
answered in the meantime (`late`, then `landed` if it ever comes, also when the service has died
since); it takes the calls it overwrites out of `fresh`. Qdrant applies updates in the order of
its log and a call waits for its own, so a lost answer there takes effect at once or never.
History: `mixed` (calls that overlapped on the same chunk ids), `lapses` (removals that
failed, or seemed to, and were passed over) and `fresh` (answered OK, and nothing has touched its chunk
ids since). The properties speak of what calls leave that met no other, whatever earlier
ones, overlapping or failed, left behind. *Bounds.* Three requests out of eight, two at
once; two documents whose chunk ids are the same; at most two failures, one fewer while
two requests run. The default collection exists.

## 11. Runs

| run | checks | shows |
|---|---|---|
| `orders` | `TypeOK`, `SettledOnce`, `LedgerComplete`, `NoFalseSuccess`, `KeyBindsOneRequest`, `NoStandoff`, `AtomicSettlement` | the API keeps its promises with every Redis failure, expiry and MySQL fault; the tables implement `SettlementLedger` |
| `handoff` | `TypeOK`, `OneClaimant`, `TransferredByOwner`, `Lifecycle` | one claim wins, rows change hands by someone entitled, each row implements `HandoffLifecycle` |
| `console` | `TypeOK`, `YieldsDuringTakeover`, `RepliesFromHolder`, `NothingUnapproved` | the AI answers in a take-over only when the lookup failed or was shown a newer unclaimed row; replies come from holders or supervisors; with the MCP gate, races of decisions and corrections execute nothing unapproved |
| `sync` | `TypeOK`, `NothingForgotten`, `JavaKeepsOrder`, `AppendOnly`, `Flushed` | what was marked is filed or still marked, in order, once, and in the end, unless it was lost in a named way |
| `tickets` | `TypeOK`, `AnswersTrue`, `RetryFinds`, `ToldTrue`, `EveryExecutionEnds` | every answer names the one committed ticket, a retry finds it, no execution waits for ever |
| `desk` | `TypeOK`, `OneRow`, `LawfulUnlessOvertaken`, `EveryCallAnswered` | a ticket moves unlawfully only through a call overtaken between its check and its write |
| `thread` | `TypeOK`, `DraftIsCurrent`, `HandoffIsOfThisTurn`, `DraftIsAsAsked`, `ShownThenApprovedThenRun` | no decided draft and no emotion of an earlier turn surfaces later, an offer is an operation asked for since the last decision (the one asked for last, if nothing was given up and no message came in over a supervised offer since), and only what was shown and approved is executed, once |
| `knowledge` | `TypeOK`, `SavedIsServed`, `DeletedIsGone`, `NothingOrphaned`, `RowHasFile` | one request that meets no other brings file, chunks and row together whatever went before, the row's labels as far as the body has no label lines of its own; chunks outlive a file only after a removal that failed, a row only after a delete that ended early or a save whose row came late |
| `orders_false_success` | `SuccessIsExecuted` (violated) | finding 1 |
| `console_yields` | `AiYields` (violated) | finding 2 |
| `console_direct` | `NothingUnapproved` (violated) | finding 3 |
| `cost_counted` | `CountedOnce` (violated) | finding 4 |

*Symmetry* is over clients, calls, staff (when none is a supervisor), drafts and orders, none
of which an action or an invariant tells apart, and only in runs without a liveness property.
*Deadlock* is checked in `orders`, `handoff` and the console runs, where `Finished` and `Idle`
let a behaviour stutter only when every call has been answered. In the others a behaviour
may end, when the calls of the instance are over or its bound is reached; in `tickets`,
`desk` and `sync` the liveness properties say that no call is left behind.

*Fairness.* `sync`: the calls are not fair (a client may wait, a process may end); the flusher is a
thread that sleeps and goes round again whatever a cycle raised (`run_forever` catches
everything), so its steps are weakly fair, and what it tries again and
again succeeds in the end (strong fairness of `SyncStart`, its `GetHit` and `WriteOk`: Redis and
Java are not down at every attempt). `tickets`: an execution goes on, because httpx has a timeout, so the lock it holds is
released. `desk`: a transaction goes on, because InnoDB resolves its deadlocks.
The other properties are safety properties and need none.

### Findings

1. `src/docs/java-business-database-design.md:487` says the Redis idempotency entries only
   accelerate and MySQL's unique key decides. The entry is written before the commit
   and stays when the commit fails: the retry of a refund that was rolled back is
   answered OK.
2. `src/README.md:276` says the AI yields while a hand-off is in progress. Two answers
   that escalate at once open two rows; the lookup returns the newer one, still
   pending, and hides the older one that somebody has claimed.
3. `src/README.md:99` says a draft is stored after the user approves it. The decision is
   checked against the checkpoint and resumes it later with a bare `approved=True`; on
   the direct Java path (the default) a correction in between has its own fields
   executed. With the MCP tools on, the gate stops it (`console`, `OnlyTheApproved`).
4. `cost_sync.py:18-20` says records are merged idempotently in Java and a failed batch is
   retried without loss. The window of a record is the time of its flush, so a batch whose
   answer was lost is added twice; and restoring goes through `record`, which makes one call
   of a bucket of several.

Seen while modelling, without a run: a query that read an order before a refund may fill
the cache after it, and a replay returns the old order (`OrderServiceImpl.java:307`).
Replies of the staff and questions in a take-over are stored without `mark_pending`, so
they reach Java only if a later exchange with the AI marks the conversation
(`src/README.md:279` says everything is written to both). An uploaded PDF, or a text
without the lines for type, domain and group, is refused by `build_qdrant_payload`
after its file was written (`src/README.md:273` offers PDFs): it is never indexed, it
makes the ingestion of the directory fail, after a refresh has removed every chunk, and its id
can be neither uploaded again nor deleted, since `delete` looks for the `.md` file only. The
documents of the repository have their label lines with colons of full width, which the
loaders read (`loaders.py:32`) and an update does not strip (`knowledge_base.py:249`): new labels
for such a document reach Java's row, while its file and its chunks keep the old domain and
permission group; so do labels of a creation whose content has label lines. While
the default collection does not exist yet, saving a single document fails, because its
old chunks are removed before `ensure_collection`; ingesting the directory creates it.

## 12. Proofs

Everything listed here is proved by `tlapm` with no step left open, for all values of the
constants that satisfy the named assumptions: `RequestsAssumption`, `SeedsAssumption`
(the ledger the service starts on is consistent), `NamesAssumption` (orders);
`StaffAssumption`, `CreatorsAssumption` (queue); `RequestsAssumption` (finitely many calls),
`StaffAssumption`, `DraftsAssumption`, `ModesAssumption`, `AsksAssumption` (console);
`CallsAssumption` (finitely many calls), `KindAssumption`, `FlusherAssumption`,
`MaxMessagesAssumption` (transcript);
`RequestsAssumption`, `WithOrderAssumption`, `ExecutionsAssumption` (tickets);
`ManagersAssumption`, `OpAssumption` (workbench); `OrdersAssumption`, `ModesAssumption`
(thread); `SlotAssumption`, `SeededAssumption`, `AsksAssumption` (documents; no bound on the
requests or on what shares chunk ids). TLC evaluates them on every run of their module.

**Orders** (`OrderService_proofs`). The inductive invariant `IInv` is the conjunction of
`TypeOK`; `Control`, what each program point implies of a request's mode, write, insert
and read view; `Tables`, what the stored events say of their rows; `Locks`, that an
uncommitted write was made on a row it may still settle, by the only writer of that row,
and an inserted event is the only one, stored or not, under its key; `Places`, that only
inserts have shared locks, left by a stored event or a lost one; and `Faithful`, that
without `lost` an entry in Redis is backed by an event stored or inserted (`Backed`), and
so is a request that replays or has succeeded (`Evidence`), and that a replay commits no
row. No property is inductive alone: `SettledOnce` needs the row lock between UPDATE and
commit, `NoFalseSuccess` needs that what Redis and the read views say of a key is true.
From it follow `TypeCorrect`, `SettlementIsExclusive`, `RowsMatchEvents`, `SuccessIsReal`,
`KeysAreBound`, `LocksNeverTangle` and `TablesImplementLedger`. `LocksNeverTangle` rests on
`Places` too: whoever has inserted waits for nothing, so whoever waits for a row is behind an
insert or somebody who can go on, and an insert waits for good only behind a shared lock,
which without an event under its key is what a `lost` transaction left.

**Queue** (`HumanHandoff_proofs`). The invariant adds to the types: `Counted`/`Stamped`
(the clock counts the creators that have inserted or will, so a stamp names a row and no
two creators share one), `Claims`/`OneClaimant` (an unclaimed row has no claimant),
`Owned` (the agent of a row is among its owners) and `Entitled` (a checked transfer was
made by an owner or a supervisor). Theorems: `TypeCorrect`, `OneWinner`,
`HandsChangeByOwners`, `QueueImplementsLifecycle`.

**Console** (`ConsoleAgent_proofs`). `OnlyTheApproved` (under `McpTools`): what is
confirmed was approved, because only `Register` of an approved decision confirms;
`Execute` asks for a confirmed draft. `YieldsUnlessMisled`: a message past its lookup in a
take-over that still lasts is `blind` or `shadowed`, and the take-over that begins later
does not put it into `within`. `ConsoleDrivesQueue`: every behaviour of the console is
one of `HumanHandoff`, so the four theorems above hold in the composition.
Its second half instantiates `HumanHandoff_proofs` with the calls as creators: the row
a lookup was shown (`Newest`, which exists because a bounded set of numbers has a greatest
element) has an agent among its owners, and owners are never forgotten. `Carried` adds what
a call has in hand at each step: an approval names a draft, a reply under way was signed
by somebody entitled. From `StaffInv` follow `CompositionTyped` and `RepliesAreEntitled`.

**Transcript** (`ConversationSync_proofs`). `NothingForgotten` is not inductive: that `Unmark`
forgets nothing needs `FiledBeforeUnmarked` (what the flusher's copy holds is filed by then),
that `MarkPending` vouches for something real needs `StoredBeforeMarked`. `HeldIsWritten`
(a copy in somebody's hands holds only what was stored) makes a restored or rewritten
transcript write nothing new for Java, and `Batches` (there are at most as many batches as
filed entries) bounds the batch numbers. `JavaKeepsOrder` is not inductive either: an entry
comes back from a copy that somebody still holds, and a batch files what the flusher has
read, not what the transcript holds by then. `OrderInv` therefore says of every copy, and of
the transcript, that of two entries the earlier one is `gone`, or (`Good`) it is filed no
later than the other and, where the flusher holds the other, it holds the earlier one too or
has filed it; and that a call's entry is new when it appends it (`Unwritten`). Theorems:
`TypeCorrect`, `RecordedIsNotForgotten`, `OrderSurvivesJava` and `TranscriptIsDurable`, the
refinement of `DurableTranscript`: a save is its `Write` or a stutter, a batch that files
anything its `FileBatch`. `Flushed` stays with TLC.

**Tickets** (`TicketWorkflow_proofs`). `ServiceInv` holds of `createTicket` by itself:
`SnapshotsAreTrue` (a read view shows the key's committed ticket or nothing), `KeyIsHeld`
(the uncommitted row of the key has one owner, and nothing is committed beside it),
`InsertersSawNothing` and `AnswersEnd`, with `AnswersTrue` and `RetryFinds`. Since the ticket
of a key never changes (`TicketStays`), what the Python service keeps and tells stays
true through timeouts and restarts (`ToldTrue`). Theorems: `TypeCorrect`,
`OneKeyOneTicket`, `RetriesFind`, `OneTicketTold`; `EveryExecutionEnds` stays with TLC.

**Workbench** (`TicketDesk_proofs`). The invariant adds to the types `GapIsFree` (while an
insert waits, nobody has the ticket, so the first insert found the table empty and later
ones find its row) and `Current` (what a call under way has read, and what it asked of it,
still holds unless somebody wrote meanwhile). Theorems: `TypeCorrect`, `OneInsert`,
`CurrentCallsAreLawful`; that every call is answered (`EveryCallAnswered`) needs fairness
and stays with TLC.

**Thread** (`TicketThread_proofs`). `Inv` says of each node what holds when the run arrives
there: which graph or worker has it, and that outside a worker the checkpoint is the state
(`Placed`); that an offer stands only at the interrupt and a grant only before its execution,
both as the state says (`Offered`); that the emotion is this turn's from the first node on
(`Felt`); that an open draft was begun after the last decision, with an order named since
(`Current`, which has to follow the thread's own copy while a worker executes, and after a
crash there); what the routes have looked at (`Ways`); and, while nothing is `disturbed`, that
the flow in the state is the one asked for (`Followed`, where `AsAsked` ties the flags of a
collected draft to the question that is open). `Sought`, inductive on top of it, says without
that condition that the flow of every open, asked or offered draft and what the message and
the state's intent lead to are in `wanted`. `DraftIsAsAsked` needs all of them: a flag an
earlier flow left in the checkpoint is harmless only because every way to a node has looked
at it, or because a decision has closed the draft it belongs to. It does not say more of a
disturbed thread because the code does not do more: a refund left collecting in the
checkpoint takes a later complaint over an overtaken offer (`supervisor_graph.py:104`) and
is offered, as a refund the customer had asked for. Theorems: `TypeCorrect`, `DraftsAreCurrent`, `HandoffsOfThisTurn`, `DraftsAreAsAsked`
and `ApprovedThenRun`, the refinement of `ApprovedExecution`.

**Documents** (`KnowledgeBase_proofs`). `Stored`, `Asked` and `Control` are types and what a
request's step says of its kind and its memory. `Apart` says that two calls under way on one
chunk id are both `mixed`, and that nothing under way meets a `fresh` one. `Own` says of each
step of a call that is not `mixed` what it has done so far: the old chunks are gone before
any is written (`Saving`), a refresh has emptied every file it has passed (`Refreshing`).
`Kept` says what an answered call left; on labels it says `RowAgrees`, which the texts an update
or a creation writes satisfy (`LoadedTypes`, `SaidTypes`). `RowSound` and `ChunksSound` are `RowHasFile` and
`NothingOrphaned`, one document and one file at a time. The proof rests on a frame: a step
touches the files, points and row of its own documents only (`Foot`, `Step`), so the other
calls keep what `Own` and `Kept` say of them (`StepKeeps`); each action then has its own
lemma for the call that takes it. What Java does late for a call that has ended (`JavaLandsInv`)
is outside that frame: it changes one row, for which the call itself is the excuse, and nothing
of the files or chunks that `Own` speaks of. Theorems: `TypeCorrect`, `SavedAreServed`,
`DeletedAreGone`, `NoneOrphaned`, `RowsHaveFiles`.

*Only model-checked:* the liveness properties `Flushed`, `EveryExecutionEnds` and
`EveryCallAnswered`, and the properties that are refuted (the four findings).
*Out of the prover's reach:* liveness under fairness and `ENABLED`; induction over data;
`RECURSIVE` operators. None of the modules above uses one.

## 13. Not modelled

Inside the modelled parts:

* *Java*: amounts, refund payloads, time stamps, tenants (one), lists and searches; two hand-off
  rows of one millisecond; messages and events of the workbench; the rows of
  `ai_conversations` and their clean-up; the order Java lists the messages of one batch in;
  the lookup of `createTicket`'s catch block is in the read view, as REPEATABLE READ has it.
* *Transcript*: the index of a user's conversations and its rebuilding
  (`console_agent_conversation_store.py:251` runs outside the request context, so Java answers
  for the default user).
* *Thread*: wording, keyword rules, language models that fail or change their mind about one
  text, the variant without interrupt, the fields `created_ticket` and `rag_citations`. The order
  status that stays in the checkpoint and asks for a hand-off again is in `ConsoleAgent`
  (`orderFailed`), without a property: nothing says it should not.
* *Confirmations*: the load and store of the Redis store; `ConsoleAgent` confirms in one step.
* *Costs*: prices, windows, what an ending process has not delivered.
* *Documents*: reading, chunk texts and vectors, a file half written in a crash, ids with dots
  (the `glob` of an upload takes `x.*` for `x`), headings of the first level in a body, which
  an update without a body drops; labels one by one, blank ones, and label lines after the
  twentieth line.

The other components are in `PROJECT.json` with the reason: calls to external models,
numeric and textual algorithms of RAG, reports, presentation and single-row CRUD.
Hazards without a property have a note in `PROJECT.json`: the order status above, replies that
are never marked, and the thread that an abandoned run locks.

## 14. Plan

1. The LLM call service (`llm_service.py`): retries within a time budget, fallback between models,
   cost control, as one call in steps, with fairness of the timeout.
2. Rate limiters of both services (INCR and EXPIRE as two commands) against a reference count.
3. The Redis confirmation store by load and store; retry, timeout and resilience strategies,
   thread life cycle, release control and model fallback as operators checked against
   reference definitions (most of them are not called by the running service).
