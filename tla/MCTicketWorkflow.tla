-------------------------- MODULE MCTicketWorkflow --------------------------
(* Small instances of TicketWorkflow for TLC. *)
EXTENDS TicketWorkflow

CONSTANTS x1, x2, x3, o

\* The same plan three times, and the key in the hands of another customer.
MCFingerprint == [r \in Requests |-> IF r = o THEN "other" ELSE "plan"]
=============================================================================
