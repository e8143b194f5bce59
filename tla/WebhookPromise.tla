--------------------------- MODULE WebhookPromise ---------------------------
(***************************************************************************)
(* What webhook deliveries promise the owner of an endpoint, without lists,*)
(* locks, batches or processes.  A delivery is sent at most Budget times,  *)
(* and never again once the endpoint has taken it or it was turned away    *)
(* for a webhook that is not active; what its row says in the end is true, *)
(* and only deleting the webhook changes it after that.                    *)
(*                                                                         *)
(* Nothing is promised of a delivery whose id a Redis client has pushed    *)
(* twice.  WebhookDelivery implements this specification.                  *)
(***************************************************************************)
EXTENDS Naturals

CONSTANTS Deliveries, Budget

VARIABLES fate,      \* fate[d]: what the row of d says
          sent,      \* sent[d]: requests made
          taken,     \* deliveries the endpoint has accepted
          rejected   \* deliveries that were turned away

promise == <<fate, sent, taken, rejected>>

Init ==
  /\ fate = [d \in Deliveries |-> "none"]
  /\ sent = [d \in Deliveries |-> 0]
  /\ taken = {}
  /\ rejected = {}

Enqueue(d) ==
  /\ fate[d] = "none"
  /\ fate' = [fate EXCEPT ![d] = "pending"]
  /\ UNCHANGED <<sent, taken, rejected>>

\* It may still be on its way when its webhook is deleted.
Open(d) == fate[d] \in {"pending", "deleted"} /\ d \notin taken \cup rejected

Send(d) ==
  /\ Open(d)
  /\ sent[d] < Budget
  /\ sent' = [sent EXCEPT ![d] = @ + 1]
  /\ taken' \in {taken, taken \cup {d}}
  /\ UNCHANGED <<fate, rejected>>

TurnAway(d) ==
  /\ Open(d)
  /\ rejected' = rejected \cup {d}
  /\ UNCHANGED <<fate, sent, taken>>

Succeed(d) ==
  /\ fate[d] = "pending" /\ d \in taken
  /\ fate' = [fate EXCEPT ![d] = "success"]
  /\ UNCHANGED <<sent, taken, rejected>>

Fail(d) ==
  /\ fate[d] = "pending" /\ d \notin taken
  /\ d \in rejected \/ sent[d] = Budget
  /\ fate' = [fate EXCEPT ![d] = "failed"]
  /\ UNCHANGED <<sent, taken, rejected>>

Delete(D) ==
  /\ \A d \in D : fate[d] \notin {"none", "doubled"}
  /\ fate' = [d \in Deliveries |-> IF d \in D THEN "deleted" ELSE fate[d]]
  /\ UNCHANGED <<sent, taken, rejected>>

\* The promise ends for d.
Double(d) ==
  /\ Open(d)
  /\ fate' = [fate EXCEPT ![d] = "doubled"]
  /\ sent' = [sent EXCEPT ![d] = 0]
  /\ UNCHANGED <<taken, rejected>>

Next ==
  \/ \E d \in Deliveries :
       Enqueue(d) \/ Send(d) \/ TurnAway(d) \/ Succeed(d) \/ Fail(d) \/ Double(d)
  \/ \E D \in SUBSET Deliveries : Delete(D)

Spec == Init /\ [][Next]_promise
=============================================================================
