-------------------------- MODULE HandoffLifecycle --------------------------
(***************************************************************************)
(* What the hand-off queue promises of each of its rows: it is opened once, *)
(* taken by one agent, passed on while it is being worked on, and finished  *)
(* for good.  Nothing is said of how many rows a conversation may have.     *)
(***************************************************************************)
CONSTANTS Stamps, Staff, Nobody

VARIABLES rows

Missing == [status |-> "none", agent |-> Nobody]

Init == rows = [i \in Stamps |-> Missing]

Becomes(i, status, agent) ==
  rows' = [rows EXCEPT ![i] = [status |-> status, agent |-> agent]]

Open(i) == rows[i] = Missing /\ Becomes(i, "pending", Nobody)

Take(i, a) == rows[i].status = "pending" /\ Becomes(i, "in_progress", a)

Pass(i, a) == rows[i].status = "in_progress" /\ Becomes(i, "in_progress", a)

Finish(i, a) == rows[i].status = "in_progress" /\ Becomes(i, "closed", a)

Next ==
  \E i \in Stamps : Open(i) \/ \E a \in Staff : Take(i, a) \/ Pass(i, a) \/ Finish(i, a)

Spec == Init /\ [][Next]_rows
=============================================================================
