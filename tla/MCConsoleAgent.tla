--------------------------- MODULE MCConsoleAgent ---------------------------
(* Small instances of ConsoleAgent for TLC. *)
EXTENDS ConsoleAgent, TLC

StaffSymmetry == Permutations(Requests) \cup Permutations(Staff)
DraftSymmetry == Permutations(Requests) \cup Permutations(Drafts)
AllSymmetry == Permutations(Requests) \cup Permutations(Staff) \cup Permutations(Drafts)

\* What an answered call had asked and read bears on no later step and on no property.
Live == <<queueVars, threadVars, toolVars, sightVars, replies, escalated, pc, out,
          [q \in Requests |-> IF pc[q] = "done" THEN <<>> ELSE <<job[q], held[q]>>]>>
=============================================================================
