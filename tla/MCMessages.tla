----------------------------- MODULE MCMessages -----------------------------
(***************************************************************************)
(* Two instances of Delivery in one run, chosen by part at the start:      *)
(* handbacks and tasks under every event of the broker, and messages of    *)
(* each kind, a question among them, whose consumers are replaced, closed  *)
(* and bound anew. Each leaves out what the questions put to the other     *)
(* need, so that the product of both is not visited.                       *)
(***************************************************************************)
EXTENDS MCDelivery

VARIABLE part

PartInit == Init /\ part \in {"messages", "hosts"}

Messages == /\ part = "messages" /\ Next
            /\ UNCHANGED <<part, threads, drafts>>
Hosts    == /\ part = "hosts"
            /\ \/ Consume \/ RetryNotification \/ Reclaim \/ Handover \/ Discuss \/ Bind
               \/ BrokerStops \/ RecoverDescriptor \/ RecoverDiscussion
            /\ UNCHANGED part

PartNext == Messages \/ Hosts
PartSpec == PartInit /\ [][PartNext]_<<part, vars>>

(* In part "hosts" a receipt is compared with what was reported before.       *)
PartView == <<part, View, IF part = "hosts" THEN reported ELSE {}>>
=============================================================================
