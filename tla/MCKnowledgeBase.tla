--------------------------- MODULE MCKnowledgeBase ---------------------------
(* Requests on two documents whose chunk ids are the same.                 *)
EXTENDS KnowledgeBase, TLC

CONSTANTS a, b, MaxRunning, MaxLapses, MaxTrouble

MCSlot == [d \in Docs |-> "slot"]

Asked(k, d, n) == [kind |-> k, doc |-> d, suffix |-> "md", gives |-> {}, lines |-> "none", size |-> n]
Created(d, l) == [Asked("create", d, 1) EXCEPT !.lines = l]
Uploaded(d, s, l) == [Asked("upload", d, 1) EXCEPT !.suffix = s, !.lines = l]
Changed(g, n) == [Asked("update", a, n) EXCEPT !.gives = g]

MCAsks ==
  {Created(a, "half"), Uploaded(b, "txt", "full"), Uploaded(b, "pdf", "full"),
   Changed({"labels"}, 1), Asked("ingest", a, 2), Asked("delete", a, 1),
   Asked("refresh", a, 2), Asked("load", a, 1)}

\* Bounds: requests under way at one time; what goes wrong, requests that failed
\* and removals passed over; and the two together.
Under == Cardinality({c \in Calls : Running(c)})
Wrong ==
  Cardinality({c \in Calls : pc[c] \in {"failed", "late", "landed"}})
    + Cardinality({l \in Calls \X {"remove", "removeKb"} : l[2] \in lapses[l[1]]})
Bounds == Under <= MaxRunning /\ Wrong <= MaxLapses /\ Under + Wrong <= MaxTrouble

Symmetry == Permutations(Calls)
=============================================================================
