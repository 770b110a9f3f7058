-------------------------- MODULE SettlementLedger --------------------------
(***************************************************************************)
(* What the order tool API promises of its two MySQL tables, with no       *)
(* caches, no locks and no requests: an open order is settled once, by one *)
(* operation, and the row and the event that records it (with the caller's *)
(* idempotency key, if any) appear together.                               *)
(***************************************************************************)
CONSTANTS Orders, Keys, NoKey

VARIABLES rows, events

Ops == {"refund", "cancel"}

\* Not refunded and not canceled.
Open(o) == rows[o].pay \notin {"refunded", "absent"} /\ rows[o].status # "canceled"

\* No event has the key; requests without one do not clash.
Fresh(k) == k = NoKey \/ \A e \in events : e.key # k

\* What the operation does to the row.
Outcome(op, row) ==
  IF op = "refund" THEN [row EXCEPT !.pay = "refunded"]
                   ELSE [row EXCEPT !.status = "canceled"]

Settle(op, o, k) ==
  /\ Open(o)
  /\ op = "cancel" => rows[o].status = "waiting_shipment"
  /\ Fresh(k)
  /\ rows' = [rows EXCEPT ![o] = Outcome(op, rows[o])]
  /\ \E e \in events' :
       /\ e.order = o /\ e.op = op /\ e.key = k
       /\ e \notin events
       /\ events' = events \cup {e}

Next == \E op \in Ops, o \in Orders, k \in Keys \cup {NoKey} : Settle(op, o, k)
=============================================================================
