--------------------------- MODULE MCOrderService ---------------------------
(* Small instances of OrderService for TLC. *)
EXTENDS OrderService, TLC

CONSTANTS o1, o2, o3, k1, alice, bob, n1

\* Requests are alike, and so are o2 and o3 below.
Symmetry == Permutations(Clients) \cup Permutations({o2, o3})

MCOwner == [o \in Orders |-> alice]

Ask(op, o, k, note, u) ==
  [op |-> op, order |-> o, key |-> k, note |-> note, user |-> u]

\* Retries and clashes on one key: a refund, the cancellation and the refunds of
\* two other orders under its key, an unkeyed cancellation, a refused
\* reason and a query of a caller who does not own the order (it fills the
\* order cache like any other).
MCRequests ==
  { Ask("refund", o1, k1, n1, alice),
    Ask("cancel", o1, k1, n1, alice),
    Ask("refund", o2, k1, n1, alice),
    Ask("refund", o3, k1, n1, alice),
    Ask("cancel", o1, NoKey, n1, alice),
    Ask("cancel", o1, k1, TooLong, alice),
    Ask("query", o1, NoKey, n1, bob) }

Paid == [status |-> "waiting_shipment", pay |-> "paid"]
NoEntries == [k \in Keys |-> {}]

FreshSeed ==
  [rows |-> [o \in Orders |-> Paid], events |-> {}, idem |-> NoEntries]

LegacyPrint == [order |-> o1, note |-> n1, user |-> alice, kind |-> "legacy"]

\* o1 was refunded before the upgrade; the others have no row.
LegacySeed(idem) ==
  [rows |-> [o \in Orders |-> IF o = o1 THEN [Paid EXCEPT !.pay = "refunded"] ELSE Absent],
   events |-> {[key |-> k1, order |-> o1, op |-> "refund", print |-> LegacyPrint]},
   idem |-> idem]

ShippedSeed ==
  [FreshSeed EXCEPT !.rows = [o \in Orders |-> [Paid EXCEPT !.status = "shipped"]]]

MCSeeds ==
  { FreshSeed, ShippedSeed, LegacySeed(NoEntries),
    LegacySeed([k \in Keys |-> {LegacyPrint}]) }
=============================================================================
