------------------------------ MODULE Webhooks ------------------------------
(***************************************************************************)
(* Deliveries of the webhooks of GitHub.  A delivery may be sent more than *)
(* once; the ids of those that were answered are kept in memory, and are   *)
(* looked up before its evidence is stored and kept after.                 *)
(***************************************************************************)
EXTENDS Naturals

CONSTANTS Attempts,    \* to deliver
          DeliveryOf,  \* the delivery of an attempt
          Signed,      \* the attempts whose signature verifies
          Recording    \* the deliveries of an event that becomes evidence

ASSUME DeliveryAssumption == DOMAIN DeliveryOf = Attempts

VARIABLES progress,   \* of each attempt
          atVersion,  \* the version of the stream of its evidence that it read
          seen,       \* seenDeliveryIds
          attached    \* the events in the stream of the evidence of each delivery

webhookVars == <<progress, atVersion, seen, attached>>

Deliveries == {DeliveryOf[a] : a \in Attempts}

WebhooksTypeOK ==
  /\ progress \in [Attempts -> {"sent", "reading", "storing", "answering", "acknowledged",
                                "refused", "failed"}]
  /\ atVersion \in [Attempts -> Nat] /\ attached \in [Deliveries -> Nat]
  /\ seen \subseteq Deliveries

WebhooksInit ==
  /\ progress = [a \in Attempts |-> "sent"] /\ atVersion = [a \in Attempts |-> 0]
  /\ seen = {} /\ attached = [d \in Deliveries |-> 0]
-----------------------------------------------------------------------------
Advance(a, from, to) == progress[a] = from /\ progress' = [progress EXCEPT ![a] = to]

\* Mutant: a delivery counts as seen as soon as it is taken.
TakeDeliveryAtOnce(a) ==
  /\ \/ a \notin Signed /\ Advance(a, "sent", "refused") /\ UNCHANGED seen
     \/ /\ a \in Signed /\ seen' = seen \cup {DeliveryOf[a]}
        /\ IF DeliveryOf[a] \in seen \/ DeliveryOf[a] \notin Recording
           THEN Advance(a, "sent", "answering") ELSE Advance(a, "sent", "reading")
  /\ UNCHANGED <<atVersion, attached>>

\* ingestWebhookDelivery, from the verification of the signature to the first read.  A
\* delivery that was seen, or says nothing that is recorded, is only acknowledged.
TakeDelivery(a) ==
  /\ \/ a \notin Signed /\ Advance(a, "sent", "refused")
     \/ /\ a \in Signed /\ (DeliveryOf[a] \in seen \/ DeliveryOf[a] \notin Recording)
        /\ Advance(a, "sent", "answering")
     \/ /\ a \in Signed /\ DeliveryOf[a] \notin seen /\ DeliveryOf[a] \in Recording
        /\ Advance(a, "sent", "reading")
  /\ UNCHANGED <<atVersion, seen, attached>>

\* attachEvidence, to the stream of an evidence id made of that of the delivery.  The
\* payload may not parse before, and the read may fail.
ReadEvidence(a) ==
  /\ \/ /\ Advance(a, "reading", "storing")
        /\ atVersion' = [atVersion EXCEPT ![a] = attached[DeliveryOf[a]]]
     \/ Advance(a, "reading", "failed") /\ UNCHANGED atVersion
  /\ UNCHANGED <<seen, attached>>

\* The append fails when another attempt was quicker, or for reasons of its own; and
\* it may seem to have failed.
StoreEvidence(a) ==
  /\ \/ /\ atVersion[a] = attached[DeliveryOf[a]]
        /\ attached' = [attached EXCEPT ![DeliveryOf[a]] = @ + 1]
        /\ Advance(a, "storing", "answering") \/ Advance(a, "storing", "failed")
     \/ UNCHANGED attached /\ Advance(a, "storing", "failed")
  /\ UNCHANGED <<atVersion, seen>>

Acknowledge(a) ==
  /\ Advance(a, "answering", "acknowledged")
  /\ seen' = seen \cup {DeliveryOf[a]}
  /\ UNCHANGED <<atVersion, attached>>

WebhooksNext ==
  \E a \in Attempts : TakeDelivery(a) \/ ReadEvidence(a) \/ StoreEvidence(a) \/ Acknowledge(a)
-----------------------------------------------------------------------------
\* INV-034: an attempt that is acknowledged, as a duplicate too, left its evidence in
\* the ledger, or another attempt of the delivery did.  Those that failed, or that a
\* restart cut off, may be made again.
AcknowledgedIsAttached ==
  \A a \in Attempts :
    progress[a] = "acknowledged" /\ DeliveryOf[a] \in Recording => attached[DeliveryOf[a]] > 0
-----------------------------------------------------------------------------
(* What makes it inductive. *)

\* A delivery is taken for a duplicate, and an attempt is about to be answered, when its
\* evidence is there.
SeenIsAttached ==
  /\ \A d \in seen \cap Recording : attached[d] > 0
  /\ \A a \in Attempts :
       progress[a] = "answering" /\ DeliveryOf[a] \in Recording => attached[DeliveryOf[a]] > 0

WebhooksIInv == WebhooksTypeOK /\ SeenIsAttached /\ AcknowledgedIsAttached
=============================================================================
