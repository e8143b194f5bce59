-------------------------- MODULE WebhookDelivery --------------------------
(***************************************************************************)
(* Webhook deliveries (apps/api/src/services/webhookDeliveryService.ts).   *)
(*                                                                         *)
(* A delivery is a row of webhook_delivery_logs and an id in a Redis list. *)
(* Every five seconds a timer tries to take a lock with an expiry, which   *)
(* nobody ever gives back, and works through up to ten ids: pop, read the  *)
(* row, read the webhook, POST, write the row, and push the id again if    *)
(* the POST has failed and attempts are left.  A POST may take as long as  *)
(* the lock lives, so batches overlap, in one API process or in several.   *)
(*                                                                         *)
(* Each await is a step of its own.  posts, accepted, refused, resent and  *)
(* dropped are history variables.                                          *)
(***************************************************************************)
EXTENDS Integers, Sequences

CONSTANTS Deliveries,   \* the events that are to be delivered
          Webhooks,     \* the webhooks of the organisation
          WebhookOf,    \* WebhookOf[d]: the webhook of delivery d
          Batches,      \* BOUND on the batches that run at the same time
          BatchSize,    \* deliveries per batch
          MaxAttempts,  \* MAX_ATTEMPTS
          NoDelivery,   \* nothing in hand
          MaxFaults     \* BOUND on crashes, failed calls and lost replies

ASSUME WebhookAssumption ==
  /\ WebhookOf \in [Deliveries -> Webhooks]
  /\ BatchSize \in Nat \ {0}
  /\ MaxAttempts \in Nat \ {0}
  /\ NoDelivery \notin Deliveries
  /\ MaxFaults \in Nat

VARIABLES row,          \* row[d]: the status of the row
          attempts,     \* attempts[d]: the column of that name
          webhook,      \* webhook[w]: the row of webhook w
          list,         \* the Redis list jobs:webhook_delivery
          entering,     \* deliveries with a row whose id is not pushed yet
          lock,         \* webhook:delivery:lock is set
          pc,           \* pc[b]: where batch b is
          held,         \* held[b]: the delivery it is at
          copy,         \* copy[b]: delivery.attempts, as it has read it
          turn,         \* turn[b]: deliveries it has dealt with
          posts,        \* history: posts[d]: requests sent
          accepted,     \* history: accepted[d]: answers 2xx that arrived
          refused,      \* history: deliveries whose webhook was not active
          resent,       \* history: ids a client has pushed twice
          dropped,      \* history: deliveries a fault has met on their way
          faults        \* history: faults so far

table == <<row, attempts, webhook>>
redis == <<list, entering, lock>>
batch == <<pc, held, copy, turn>>
history == <<posts, accepted, refused, resent, dropped, faults>>
vars == <<table, redis, batch, history>>

Steps == {"idle", "popping", "fetching", "looking", "refusing", "posting",
          "recording", "counting", "requeueing"}

TypeOK ==
  /\ row \in [Deliveries -> {"none", "pending", "success", "failed", "deleted"}]
  /\ attempts \in [Deliveries -> 0 .. MaxAttempts]
  /\ webhook \in [Webhooks -> {"active", "inactive", "deleted"}]
  /\ list \in Seq(Deliveries)
  /\ entering \in SUBSET Deliveries
  /\ lock \in BOOLEAN
  /\ pc \in [Batches -> Steps]
  /\ held \in [Batches -> Deliveries \cup {NoDelivery}]
  /\ copy \in [Batches -> 0 .. MaxAttempts]
  /\ turn \in [Batches -> 0 .. BatchSize]
  /\ posts \in [Deliveries -> Nat]
  /\ accepted \in [Deliveries -> Nat]
  /\ refused \in SUBSET Deliveries
  /\ resent \in SUBSET Deliveries
  /\ dropped \in SUBSET Deliveries
  /\ faults \in 0 .. MaxFaults

Init ==
  /\ row = [d \in Deliveries |-> "none"]
  /\ attempts = [d \in Deliveries |-> 0]
  /\ webhook = [w \in Webhooks |-> "active"]
  /\ list = <<>>
  /\ entering = {}
  /\ lock = FALSE
  /\ pc = [b \in Batches |-> "idle"]
  /\ held = [b \in Batches |-> NoDelivery]
  /\ copy = [b \in Batches |-> 0]
  /\ turn = [b \in Batches |-> 0]
  /\ posts = [d \in Deliveries |-> 0]
  /\ accepted = [d \in Deliveries |-> 0]
  /\ refused = {}
  /\ resent = {}
  /\ dropped = {}
  /\ faults = 0

CanFault == faults < MaxFaults
Fault == CanFault /\ faults' = faults + 1

\* UPDATE ... WHERE id = d: nothing happens to a row that is gone.
SetRow(d, status) ==
  row' = [row EXCEPT ![d] = IF @ = "deleted" THEN @ ELSE status]

-----------------------------------------------------------------------------
(* enqueueDelivery, and the webhook's owner.                               *)

\* The row; its webhook was active when the dispatcher looked, and exists.
Insert(d) ==
  /\ row[d] = "none"
  /\ webhook[WebhookOf[d]] # "deleted"
  /\ row' = [row EXCEPT ![d] = "pending"]
  /\ entering' = entering \cup {d}
  /\ UNCHANGED <<attempts, webhook, list, lock, batch, history>>

\* The id.
Push(d) ==
  /\ d \in entering
  /\ entering' = entering \ {d}
  /\ list' = Append(list, d)
  /\ UNCHANGED <<table, lock, batch, history>>

\* The push fails, or its reply is lost and the client sends it again.
PushFails(d) ==
  /\ d \in entering
  /\ entering' = entering \ {d}
  /\ Fault
  /\ \/ dropped' = dropped \cup {d} /\ UNCHANGED <<list, resent>>
     \/ list' = list \o <<d, d>> /\ resent' = resent \cup {d} /\ UNCHANGED dropped
  /\ UNCHANGED <<table, lock, batch, posts, accepted, refused>>

\* updateWebhook with isActive.
SetActive(w) ==
  /\ webhook[w] # "deleted"
  /\ \E s \in {"active", "inactive"} : webhook' = [webhook EXCEPT ![w] = s]
  /\ UNCHANGED <<row, attempts, redis, batch, history>>

\* deleteWebhook; the rows of its deliveries go with it.
DeleteWebhook(w) ==
  /\ webhook[w] # "deleted"
  /\ webhook' = [webhook EXCEPT ![w] = "deleted"]
  /\ row' = [d \in Deliveries |->
               IF WebhookOf[d] = w /\ row[d] # "none" THEN "deleted" ELSE row[d]]
  /\ UNCHANGED <<attempts, redis, batch, history>>

-----------------------------------------------------------------------------
(* startDeliveryWorker and processOne.                                     *)

Goto(b, from, to) ==
  /\ pc[b] = from
  /\ pc' = [pc EXCEPT ![b] = to]

\* The timer fires and gets the lock.
Tick(b) ==
  /\ Goto(b, "idle", "popping")
  /\ ~lock
  /\ lock' = TRUE
  /\ UNCHANGED <<table, list, entering, held, copy, turn, history>>

\* Mutant: SET without EX.
LockStays == FALSE /\ UNCHANGED vars

\* EX: the lock expires, whatever the batch that took it is doing.
LockExpires ==
  /\ lock
  /\ lock' = FALSE
  /\ UNCHANGED <<table, list, entering, batch, history>>

\* Mutant: the id stays in the list while it is worked on.
PopPeeks(b) ==
  /\ Goto(b, "popping", "fetching")
  /\ turn[b] < BatchSize
  /\ list # <<>>
  /\ held' = [held EXCEPT ![b] = Head(list)]
  /\ UNCHANGED <<table, redis, copy, turn, history>>

\* LPOP.
Pop(b) ==
  /\ Goto(b, "popping", "fetching")
  /\ turn[b] < BatchSize
  /\ list # <<>>
  /\ held' = [held EXCEPT ![b] = Head(list)]
  /\ list' = Tail(list)
  /\ UNCHANGED <<table, entering, lock, copy, turn, history>>

\* The list is empty, or the batch is full.
EndBatch(b) ==
  /\ Goto(b, "popping", "idle")
  /\ list = <<>> \/ turn[b] = BatchSize
  /\ turn' = [turn EXCEPT ![b] = 0]
  /\ UNCHANGED <<table, redis, held, copy, history>>

\* processOne is over, and its variables with it.
PutDown(b) ==
  /\ held' = [held EXCEPT ![b] = NoDelivery]
  /\ copy' = [copy EXCEPT ![b] = 0]

\* The next turn of the loop.
NextTurn(b, from) ==
  /\ Goto(b, from, "popping")
  /\ PutDown(b)
  /\ turn' = [turn EXCEPT ![b] = @ + 1]

\* A call throws: the loop is left.
Abort(b) ==
  /\ pc' = [pc EXCEPT ![b] = "idle"]
  /\ PutDown(b)
  /\ turn' = [turn EXCEPT ![b] = 0]

-----------------------------------------------------------------------------
(* deliverWebhook.                                                         *)

\* The row is pending, and its attempts are read.
Fetch(b) ==
  /\ Goto(b, "fetching", "looking")
  /\ row[held[b]] = "pending"
  /\ copy' = [copy EXCEPT ![b] = attempts[held[b]]]
  /\ UNCHANGED <<table, redis, held, turn, history>>

\* The row is gone, or settled.
Drop(b) ==
  /\ NextTurn(b, "fetching")
  /\ row[held[b]] # "pending"
  /\ UNCHANGED <<table, redis, history>>

\* The webhook is read.
Look(b) ==
  /\ pc[b] = "looking"
  /\ LET active == webhook[WebhookOf[held[b]]] = "active"
     IN /\ Goto(b, "looking", IF active THEN "posting" ELSE "refusing")
        /\ refused' = IF active THEN refused ELSE refused \cup {held[b]}
  /\ UNCHANGED <<table, redis, held, copy, turn, posts, accepted, resent, dropped, faults>>

\* It is gone or inactive.
Refuse(b) ==
  /\ NextTurn(b, "refusing")
  /\ SetRow(held[b], "failed")
  /\ UNCHANGED <<attempts, webhook, redis, history>>

\* POST: 2xx, or another answer, an error, or none within the timeout.
Post(b) ==
  /\ pc[b] = "posting"
  /\ posts' = [posts EXCEPT ![held[b]] = @ + 1]
  /\ \/ /\ Goto(b, "posting", "recording")
        /\ accepted' = [accepted EXCEPT ![held[b]] = @ + 1]
     \/ /\ Goto(b, "posting", "counting")
        /\ UNCHANGED accepted
  /\ UNCHANGED <<table, redis, held, copy, turn, refused, resent, dropped, faults>>

\* Mutant: no return after a success.
SuccessFallsThrough(b) ==
  /\ Goto(b, "recording", "counting")
  /\ SetRow(held[b], "success")
  /\ UNCHANGED <<attempts, webhook, redis, held, copy, turn, history>>

RecordSuccess(b) ==
  /\ NextTurn(b, "recording")
  /\ SetRow(held[b], "success")
  /\ UNCHANGED <<attempts, webhook, redis, history>>

\* One attempt more than was read; the last one ends the delivery.
CountFailure(b) ==
  LET newAttempts == copy[b] + 1
  IN /\ pc[b] = "counting"
     /\ attempts' = [attempts EXCEPT ![held[b]] = newAttempts]
     /\ IF newAttempts >= MaxAttempts
          THEN NextTurn(b, "counting") /\ SetRow(held[b], "failed")
          ELSE Goto(b, "counting", "requeueing") /\ UNCHANGED <<row, held, copy, turn>>
     /\ UNCHANGED <<webhook, redis, history>>

\* Mutant: the id is not pushed again.
RequeueForgotten(b) ==
  /\ NextTurn(b, "requeueing")
  /\ UNCHANGED <<table, redis, history>>

\* The id is pushed again, at once; next_retry_at is not looked at.
Requeue(b) ==
  /\ NextTurn(b, "requeueing")
  /\ list' = Append(list, held[b])
  /\ UNCHANGED <<table, entering, lock, history>>

-----------------------------------------------------------------------------
(* Faults.                                                                 *)

\* A call throws, in the database, in Redis, or in decrypting the secret: the
\* batch ends, with the id in nobody's hands.
Throw(b) ==
  /\ pc[b] # "idle"
  /\ Fault
  /\ Abort(b)
  /\ dropped' = dropped \cup ({held[b]} \cap Deliveries)
  /\ UNCHANGED <<table, redis, posts, accepted, refused, resent>>

\* The id is out of the list and the reply to LPOP lost: the call throws, or the
\* client sends it again, and it pops another one.
PopUnanswered(b) ==
  /\ pc[b] = "popping"
  /\ turn[b] < BatchSize
  /\ list # <<>>
  /\ Fault
  /\ list' = Tail(list)
  /\ dropped' = dropped \cup {Head(list)}
  /\ Abort(b) \/ UNCHANGED batch
  /\ UNCHANGED <<table, entering, lock, posts, accepted, refused, resent>>

\* The reply to the push is lost: the call throws, or is sent again.
RequeueUnanswered(b) ==
  /\ Fault
  /\ \/ /\ pc[b] = "requeueing"
        /\ Abort(b)
        /\ list' = Append(list, held[b])
        /\ UNCHANGED resent
     \/ /\ NextTurn(b, "requeueing")
        /\ list' = list \o <<held[b], held[b]>>
        /\ resent' = resent \cup {held[b]}
  /\ UNCHANGED <<table, entering, lock, posts, accepted, refused, dropped>>

\* The API process ends, by a signal, a crash, or the lock's own call that
\* throws (unhandled), and all its batches and pushes with it.
Crash ==
  /\ Fault
  /\ pc' = [b \in Batches |-> "idle"]
  /\ held' = [b \in Batches |-> NoDelivery]
  /\ copy' = [b \in Batches |-> 0]
  /\ turn' = [b \in Batches |-> 0]
  /\ entering' = {}
  /\ dropped' = dropped \cup entering \cup ({held[b] : b \in Batches} \cap Deliveries)
  /\ UNCHANGED <<table, list, lock, posts, accepted, refused, resent>>

-----------------------------------------------------------------------------
Deliver(b) ==
  \/ Fetch(b) \/ Drop(b) \/ Look(b) \/ Refuse(b) \/ Post(b)
  \/ RecordSuccess(b) \/ CountFailure(b) \/ Requeue(b)

Next ==
  \/ \E d \in Deliveries : Insert(d) \/ Push(d) \/ PushFails(d)
  \/ \E w \in Webhooks : SetActive(w) \/ DeleteWebhook(w)
  \/ LockExpires
  \/ \E b \in Batches :
       \/ Tick(b) \/ Pop(b) \/ EndBatch(b) \/ Deliver(b)
       \/ Throw(b) \/ PopUnanswered(b) \/ RequeueUnanswered(b)
  \/ Crash

Spec == Init /\ [][Next]_vars

(* The timer fires every five seconds, the lock expires after ten, and     *)
(* every await ends, a POST with its timeout.                              *)
FairSpec ==
  /\ Spec
  /\ WF_vars(LockExpires)
  /\ WF_vars(\E b \in Batches : Tick(b))
  /\ \A b \in Batches : WF_vars(Pop(b) \/ EndBatch(b) \/ Deliver(b))
  /\ \A d \in Deliveries : WF_vars(Push(d))

-----------------------------------------------------------------------------
(* Properties.                                                             *)

\* Where the id of d is.
Waiting(d) == {i \in DOMAIN list : list[i] = d}
Carriers(d) == {b \in Batches : held[b] = d}

\* No delivery is worked on twice at a time, although the lock expires in the
\* middle of a batch: an id is pushed once and popped once, so it is in one
\* place.  The lock is not needed for that (webhookDeliveryService.ts 11-12,
\* 53-57, 195-208).
OneCarrier ==
  \A d \in Deliveries \ resent :
    /\ \A i, j \in Waiting(d) : i = j
    /\ \A b, c \in Carriers(d) : b = c
    /\ Waiting(d) = {} \/ Carriers(d) = {}
    /\ d \in entering => Waiting(d) = {} /\ Carriers(d) = {}

\* An endpoint gets a delivery at most MAX_ATTEMPTS times, however often calls
\* throw between a POST and the row that counts it (141-178).
PostsBounded == \A d \in Deliveries \ resent : posts[d] <= MaxAttempts

\* The row tells what the endpoint has done: success only if it has accepted,
\* and it never accepts twice; failed only if it never has, and was asked
\* MAX_ATTEMPTS times or its webhook was not active (130-163).
OutcomeIsTrue ==
  \A d \in Deliveries \ resent :
    /\ accepted[d] <= 1
    /\ row[d] = "success" => accepted[d] = 1
    /\ row[d] = "failed" =>
         accepted[d] = 0 /\ (posts[d] = MaxAttempts \/ d \in refused)

\* A pending delivery is being pushed, in the list or worked on, unless a fault met
\* this very delivery: between the row and its id, in the reply to LPOP or in the
\* hands of a batch.  None is forgotten because of what happened to another one
\* (30-47, 53-57, 165-181).
PendingIsCarried ==
  \A d \in Deliveries \ dropped : row[d] = "pending" =>
    d \in entering \/ Waiting(d) # {} \/ Carriers(d) # {}

\* What a delivery has come to, for its owner.  Nothing is said of an id that was
\* pushed twice.
Tells(f, otherwise) ==
  [d \in Deliveries |-> IF d \in resent THEN otherwise ELSE f[d]]
Promise == INSTANCE WebhookPromise WITH
  Budget <- MaxAttempts,
  fate <- Tells(row, "doubled"),
  sent <- Tells(posts, 0),
  taken <- {d \in Deliveries \ resent : accepted[d] > 0},
  rejected <- refused \ resent

\* An endpoint is asked at most MAX_ATTEMPTS times, and never again after it has
\* accepted or its webhook was found inactive; the row tells what has happened, and
\* only a deletion changes it once it has settled (65-189).
ImplementsPromise == Promise!Spec

\* Without faults every delivery ends: retries are finite, and neither a full
\* batch nor the lock of one that is over holds up the rest (195-208).
EverySettles ==
  \A d \in Deliveries : row[d] = "pending" ~> row[d] # "pending" \/ faults > 0
=============================================================================
