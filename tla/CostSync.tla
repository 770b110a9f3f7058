------------------------------ MODULE CostSync ------------------------------
(***************************************************************************)
(* The cost of the LLM calls: CostRecorder adds them up in memory by model and *)
(* intent, and the thread of PendingCostSync takes the sums away, sends them to *)
(* Java, which adds them to its table, and puts them back when that failed.     *)
(* One process; what it has not delivered when it ends is lost and not counted  *)
(* here.                                                                     *)
(***************************************************************************)
EXTENDS Naturals

CONSTANTS
  Keys,       \* (model, intent)
  MaxCalls    \* bound: recorded calls of a key

VARIABLES
  buckets,    \* CostRecorder._buckets
  batch,      \* the records a flush took away
  phase,      \* of sync_once: idle, sending, or failed with an exception
  stored,     \* ai_cost_records, summed over the windows
  recorded    \* history: what the callers recorded

vars == <<buckets, batch, phase, stored, recorded>>

\* A bucket: its number of calls, and their tokens, one a call.
Nothing == [calls |-> 0, tokens |-> 0]
Plus(b, c) == [calls |-> b.calls + c.calls, tokens |-> b.tokens + c.tokens]
Added(table, records) == [k \in Keys |-> Plus(table[k], records[k])]
None == [k \in Keys |-> Nothing]

Init ==
  /\ buckets = None /\ batch = None /\ phase = "idle"
  /\ stored = None /\ recorded = None

\* CostRecorder.record, at the end of an LLM call.
Record(k) ==
  /\ recorded[k].calls < MaxCalls
  /\ buckets' = [buckets EXCEPT ![k] = Plus(@, [calls |-> 1, tokens |-> 1])]
  /\ recorded' = [recorded EXCEPT ![k] = Plus(@, [calls |-> 1, tokens |-> 1])]
  /\ UNCHANGED <<batch, phase, stored>>

\* CostRecorder.flush; an empty batch is not sent.
Flush ==
  /\ phase = "idle" /\ buckets # None
  /\ batch' = buckets /\ buckets' = None /\ phase' = "sending"
  /\ UNCHANGED <<stored, recorded>>

\* batchUpsert: every flush is a window of its own, so the rows are new; the
\* client may never see the answer.
Deliver ==
  /\ phase = "sending"
  /\ stored' = Added(stored, batch)
  /\ \/ batch' = None /\ phase' = "idle"
     \/ phase' = "failed" /\ UNCHANGED batch
  /\ UNCHANGED <<buckets, recorded>>

\* Java does not take the batch.
Refuse ==
  /\ phase = "sending" /\ phase' = "failed"
  /\ UNCHANGED <<buckets, batch, stored, recorded>>

\* _restore records every item of the batch as one call.
Restored(b) == [calls |-> IF b = Nothing THEN 0 ELSE 1, tokens |-> b.tokens]

Restore ==
  /\ phase = "failed"
  /\ buckets' = Added(buckets, [k \in Keys |-> Restored(batch[k])])
  /\ batch' = None /\ phase' = "idle"
  /\ UNCHANGED <<stored, recorded>>

Next == (\E k \in Keys : Record(k)) \/ Flush \/ Deliver \/ Refuse \/ Restore

Spec == Init /\ [][Next]_vars

-----------------------------------------------------------------------------
(* Properties.                                                             *)

(* Between two deliveries, what Java has and what waits for it is what was       *)
(* recorded, call for call and token for token: PendingCostSync says that       *)
(* records are merged idempotently and that a failed batch is retried without    *)
(* data loss (cost_sync.py:15-20).                                            *)
CountedOnce == phase = "idle" => Added(stored, buckets) = recorded
=============================================================================
