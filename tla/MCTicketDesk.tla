---------------------------- MODULE MCTicketDesk ----------------------------
(* Small instances of TicketDesk for TLC. *)
EXTENDS TicketDesk

CONSTANTS amy, sue, c1, c2, c3, c4, c5, c6

claim(s) == [kind |-> "claim", by |-> s, to |-> Nobody]
assign(s, t) == [kind |-> "assign", by |-> s, to |-> t]
set(s, t) == [kind |-> "status", by |-> s, to |-> t]
resolve(s) == [kind |-> "resolve", by |-> s, to |-> "resolved"]
customer(k) == [kind |-> k, by |-> Nobody, to |-> "in_progress"]

MCOp == [c \in Calls |->
  CASE c = c1 -> claim(amy) [] c = c2 -> assign(sue, amy) [] c = c3 -> set(sue, "closed")
    [] c = c4 -> resolve(amy) [] c = c5 -> customer("reopen") [] c = c6 -> customer("reply")]
=============================================================================
