-------------------------- MODULE ApprovedExecution --------------------------
(***************************************************************************)
(* What the confirmation of a draft promises, whatever the conversation      *)
(* around it does: a draft is shown, an approval is of the draft that is      *)
(* shown, and what the business service is asked to do is what was approved,  *)
(* once.  An offer or an approval may come to nothing (the customer rejects   *)
(* it or writes something else, the service fails), but an approval is never  *)
(* answered by the question again.                                           *)
(***************************************************************************)
CONSTANTS Offers, NoOffer
VARIABLES shown, grant, ran

Init == shown = NoOffer /\ grant = NoOffer /\ ran = NoOffer

Show == grant = NoOffer /\ shown' \in Offers /\ UNCHANGED <<grant, ran>>

Approve == shown # NoOffer /\ grant' = shown /\ shown' = NoOffer /\ UNCHANGED ran

Run == grant # NoOffer /\ ran' = grant /\ grant' = NoOffer /\ UNCHANGED shown

Drop == shown' = NoOffer /\ grant' = NoOffer /\ UNCHANGED ran

\* A new message forgets what an earlier one had executed.
Forget == shown' = NoOffer /\ grant' = NoOffer /\ ran' = NoOffer

Next == Show \/ Approve \/ Run \/ Drop \/ Forget

Spec == Init /\ [][Next]_<<shown, grant, ran>>
=============================================================================
