------------------------- MODULE DurableTranscript -------------------------
(***************************************************************************)
(* What Java promises of the messages of a conversation: a message is filed *)
(* after it was written, once and for good, in the batch that brought it,   *)
(* and a later batch never carries an earlier number.                       *)
(***************************************************************************)
EXTENDS Naturals, FiniteSets

CONSTANTS Entries

VARIABLES written, filed

Init == written = {} /\ filed = [e \in Entries |-> 0]

Write(e) == written' = written \cup {e} /\ UNCHANGED filed

FileBatch(S, n) ==
  /\ S \subseteq written
  /\ \A e \in S : filed[e] = 0
  /\ \A e \in Entries : filed[e] < n
  /\ filed' = [e \in Entries |-> IF e \in S THEN n ELSE filed[e]]
  /\ UNCHANGED written

Next ==
  \/ \E e \in Entries : Write(e)
  \/ \E S \in SUBSET Entries, n \in 1..Cardinality(Entries) : FileBatch(S, n)

Spec == Init /\ [][Next]_<<written, filed>>
=============================================================================
