------------------------- MODULE MCConversationSync -------------------------
(* Small instances of ConversationSync for TLC. *)
EXTENDS ConversationSync

CONSTANTS e1, e2, r1, f1

MCKind == [c \in Calls |->
  CASE c \in {e1, e2} -> "exchange" [] c = r1 -> "reply" [] OTHER -> "feedback"]
=============================================================================
