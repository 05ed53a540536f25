-------------------------- MODULE PostOfficeClient --------------------------
(***************************************************************************)
(* The most general clients of the post offices: each sends any of the     *)
(* messages that have not been sent yet, or receives from any mailbox that *)
(* clients use.                                                            *)
(***************************************************************************)
EXTENDS PostOffice

CONSTANT ClientBoxes  \* the mailboxes that clients use

ASSUME ClientAssumption == ClientBoxes \subseteq Boxes

VARIABLE unsent  \* the payloads that have not been sent; bounds the model

Calls(c) ==
  \/ \E d \in unsent, to \in Hosts, b \in ClientBoxes :
       /\ Send(c, to, b, b, d)
       /\ unsent' = unsent \ {d}
  \/ \E b \in ClientBoxes : Receive(c, b) /\ UNCHANGED unsent
=============================================================================
