--------------------------- MODULE MCTicketThread ---------------------------
(* A thread of the ticket agent under both graphs, for TLC.                  *)
EXTENDS TicketThread, TLC

OrderSymmetry == Permutations(Orders)
=============================================================================
