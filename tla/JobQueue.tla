------------------------------ MODULE JobQueue ------------------------------
(***************************************************************************)
(* The Redis job queue of the workers (workers/internal/queue/redis.go).   *)
(*                                                                         *)
(* One Redis list per job type.  Producers push at the tail (RPUSH: the    *)
(* scanner and the recovery runner through Enqueue, the API for analyses)  *)
(* or at the head (LPUSH: the API for scans).  A consumer blocks on        *)
(* several lists (BLPOP takes from the first non-empty one, in the order   *)
(* given), runs the handler, and on an error pushes the job back with a    *)
(* retry count one higher, or calls the dead-letter handler when the count *)
(* has reached maxRetries.                                                 *)
(*                                                                         *)
(* BLPOP removes the entry before the handler runs, so between the pop and *)
(* the end of the handler the consumer's memory is the only copy.          *)
(*                                                                         *)
(* fate and calls are history variables: they record what became of each   *)
(* entry and how often a handler saw it.  No guard reads them except the   *)
(* producers' (an entry is pushed once).                                   *)
(***************************************************************************)
EXTENDS Integers, Sequences, FiniteSets

CONSTANTS Messages,     \* the entries that producers push
          Consumers,    \* the processes that call Consume
          JobTypes,     \* one Redis list each
          TypeOf,       \* TypeOf[m]: the job type of m, the list it goes to
          Keys,         \* Keys[c]: the job types c passes to Consume, in order
          maxRetries,   \* the constant of that name
          NoJob,        \* no job in hand
          MaxFaults     \* BOUND on crashes, shutdowns and failed writes

ASSUME QueueAssumption ==
  /\ TypeOf \in [Messages -> JobTypes]
  /\ Keys \in [Consumers -> Seq(JobTypes)]
  /\ maxRetries \in Nat
  /\ MaxFaults \in Nat
  /\ NoJob \notin [msg : Messages, retry : 0 .. maxRetries]

VARIABLES lists,        \* lists[t]: the Redis list of job type t
          phase,        \* phase[c]: where c is in the loop of Consume
          job,          \* job[c]: the job in the hands of c
          cancelled,    \* cancelled[c]: the context of c is cancelled
          fate,         \* history: what became of each entry
          calls,        \* history: handler calls per entry
          faults        \* history: crashes, shutdowns, failed writes so far

vars == <<lists, phase, job, cancelled, fate, calls, faults>>

D == INSTANCE JobDelivery WITH Budget <- maxRetries + 1

-----------------------------------------------------------------------------
(* The entries of a list: an envelope with its retry count, or the plain   *)
(* JSON the API pushes, which carries none.                                *)

Envelope(m, r) == [msg |-> m, plain |-> FALSE, retry |-> r]
PlainJSON(m) == [msg |-> m, plain |-> TRUE, retry |-> 0]

Entries == [msg : Messages, plain : BOOLEAN, retry : 0 .. maxRetries]
Jobs == [msg : Messages, retry : 0 .. maxRetries]

\* The job a popped entry decodes to: plain JSON is a first attempt.
Decode(e) == [msg |-> e.msg, retry |-> IF e.plain THEN 0 ELSE e.retry]

\* enqueueWithRetry: RPUSH of an envelope on the list of the job's type.
EnqueueWithRetry(m, r) ==
  lists' = [lists EXCEPT ![TypeOf[m]] = Append(@, Envelope(m, r))]

\* Mutant: the last key is never looked at.
IgnoresLastKey(c, k) ==
  /\ k \in 1 .. (Len(Keys[c]) - 1)
  /\ lists[Keys[c][k]] # <<>>
  /\ \A i \in 1 .. (k - 1) : lists[Keys[c][i]] = <<>>

\* The key BLPOP takes from: no earlier key of the consumer has an entry.
IsFirstNonEmpty(c, k) ==
  /\ k \in 1 .. Len(Keys[c])
  /\ lists[Keys[c][k]] # <<>>
  /\ \A i \in 1 .. (k - 1) : lists[Keys[c][i]] = <<>>

CanFault == faults < MaxFaults
Fault == CanFault /\ faults' = faults + 1

TypeOK ==
  /\ lists \in [JobTypes -> Seq(Entries)]
  /\ phase \in [Consumers -> {"polling", "handling", "exited"}]
  /\ job \in [Consumers -> Jobs \cup {NoJob}]
  /\ cancelled \in [Consumers -> BOOLEAN]
  /\ fate \in [Messages -> D!Fates]
  /\ calls \in [Messages -> Nat]
  /\ faults \in 0 .. MaxFaults

Init ==
  /\ lists = [t \in JobTypes |-> <<>>]
  /\ phase = [c \in Consumers |-> "polling"]
  /\ job = [c \in Consumers |-> NoJob]
  /\ cancelled = [c \in Consumers |-> FALSE]
  /\ fate = [m \in Messages |-> "absent"]
  /\ calls = [m \in Messages |-> 0]
  /\ faults = 0

-----------------------------------------------------------------------------
(* Producers.  A push that fails leaves the queue as it was.               *)

Enqueue(m) ==
  /\ fate[m] = "absent"
  /\ EnqueueWithRetry(m, 0)
  /\ fate' = [fate EXCEPT ![m] = "pending"]
  /\ UNCHANGED <<phase, job, cancelled, calls, faults>>

\* The API pushes plain JSON: analyses at the tail, scans at the head.
PushFromAPI(m) ==
  /\ fate[m] = "absent"
  /\ \/ lists' = [lists EXCEPT ![TypeOf[m]] = Append(@, PlainJSON(m))]
     \/ lists' = [lists EXCEPT ![TypeOf[m]] = <<PlainJSON(m)>> \o @]
  /\ fate' = [fate EXCEPT ![m] = "pending"]
  /\ UNCHANGED <<phase, job, cancelled, calls, faults>>

-----------------------------------------------------------------------------
(* The loop of Consume.                                                    *)

\* BLPOP returns an entry: it is off the list before the handler starts.
BLPop(c) ==
  /\ phase[c] = "polling"
  /\ ~cancelled[c]
  /\ \E k \in 1 .. Len(Keys[c]) :
       LET t == Keys[c][k]
           next == Decode(Head(lists[t]))
       IN /\ IsFirstNonEmpty(c, k)
          /\ lists' = [lists EXCEPT ![t] = Tail(@)]
          /\ job' = [job EXCEPT ![c] = next]
          /\ calls' = [calls EXCEPT ![next.msg] = @ + 1]
  /\ phase' = [phase EXCEPT ![c] = "handling"]
  /\ UNCHANGED <<cancelled, fate, faults>>

\* The end of a turn of the loop: what the job's fate is now.
EndTurn(c, f) ==
  /\ phase[c] = "handling"
  /\ phase' = [phase EXCEPT ![c] = "polling"]
  /\ job' = [job EXCEPT ![c] = NoJob]
  /\ fate' = [fate EXCEPT ![job[c].msg] = f]

HandlerSucceeds(c) ==
  /\ EndTurn(c, "ok")
  /\ UNCHANGED <<lists, cancelled, calls, faults>>

\* Mutant: a failed job is logged and not pushed again.
RetryForgotten(c) ==
  /\ phase[c] = "handling"
  /\ phase' = [phase EXCEPT ![c] = "polling"]
  /\ job' = [job EXCEPT ![c] = NoJob]
  /\ job[c].retry < maxRetries
  /\ ~cancelled[c]
  /\ UNCHANGED <<lists, cancelled, fate, calls, faults>>

\* The handler fails with retries left: back on the list, one higher.
Retry(c) ==
  /\ EndTurn(c, "pending")
  /\ job[c].retry < maxRetries
  /\ ~cancelled[c]
  /\ EnqueueWithRetry(job[c].msg, job[c].retry + 1)
  /\ UNCHANGED <<cancelled, calls, faults>>

\* The RPUSH of a retry fails, or the context it uses is cancelled: logged only.
RetryLost(c) ==
  /\ EndTurn(c, "lost")
  /\ job[c].retry < maxRetries
  /\ \/ cancelled[c] /\ UNCHANGED faults
     \/ Fault
  /\ UNCHANGED <<lists, cancelled, calls>>

\* Mutant: a job whose last retry is still due is dead-lettered.
DeadLetterEarly(c) ==
  /\ EndTurn(c, "dead")
  /\ job[c].retry >= maxRetries - 1
  /\ ~cancelled[c]
  /\ UNCHANGED <<lists, cancelled, calls, faults>>

\* The handler fails with no retry left: the dead-letter handler stores the job.
DeadLetter(c) ==
  /\ EndTurn(c, "dead")
  /\ job[c].retry >= maxRetries
  /\ ~cancelled[c]
  /\ UNCHANGED <<lists, cancelled, calls, faults>>

\* The dead-letter handler cannot write to the database: logged only.
DeadLetterLost(c) ==
  /\ EndTurn(c, "lost")
  /\ job[c].retry >= maxRetries
  /\ \/ cancelled[c] /\ UNCHANGED faults
     \/ Fault
  /\ UNCHANGED <<lists, cancelled, calls>>

\* SIGTERM cancels the context that Consume and the handler run under.
Cancel(c) ==
  /\ phase[c] # "exited"
  /\ ~cancelled[c]
  /\ cancelled' = [cancelled EXCEPT ![c] = TRUE]
  /\ Fault
  /\ UNCHANGED <<lists, phase, job, fate, calls>>

\* Consume returns once its context is done.
Return(c) ==
  /\ phase[c] = "polling"
  /\ cancelled[c]
  /\ phase' = [phase EXCEPT ![c] = "exited"]
  /\ UNCHANGED <<lists, job, cancelled, fate, calls, faults>>

-----------------------------------------------------------------------------
(* What the environment does to a consumer.                                *)

\* The process dies, and with it the job it holds.
Crash(c) ==
  /\ phase[c] # "exited"
  /\ Fault
  /\ phase' = [phase EXCEPT ![c] = "exited"]
  /\ job' = [job EXCEPT ![c] = NoJob]
  /\ fate' = [m \in Messages |->
                IF job[c] # NoJob /\ job[c].msg = m THEN "lost" ELSE fate[m]]
  /\ UNCHANGED <<lists, cancelled, calls>>

\* Redis pops the entry for the BLPOP, but the reply never arrives.
ReplyLost(c) ==
  /\ phase[c] = "polling"
  /\ Fault
  /\ \E k \in 1 .. Len(Keys[c]) :
       LET t == Keys[c][k]
       IN /\ IsFirstNonEmpty(c, k)
          /\ lists' = [lists EXCEPT ![t] = Tail(@)]
          /\ fate' = [fate EXCEPT ![Head(lists[t]).msg] = "lost"]
  /\ UNCHANGED <<phase, job, cancelled, calls>>

\* The supervisor starts the process again.
Restart(c) ==
  /\ phase[c] = "exited"
  /\ phase' = [phase EXCEPT ![c] = "polling"]
  /\ cancelled' = [cancelled EXCEPT ![c] = FALSE]
  /\ UNCHANGED <<lists, job, fate, calls, faults>>

-----------------------------------------------------------------------------
HandlerFails(c) ==
  Retry(c) \/ RetryLost(c) \/ DeadLetter(c) \/ DeadLetterLost(c)

Next ==
  \/ \E m \in Messages : Enqueue(m) \/ PushFromAPI(m)
  \/ \E c \in Consumers :
       \/ BLPop(c) \/ HandlerSucceeds(c) \/ HandlerFails(c)
       \/ Cancel(c) \/ Return(c)
       \/ Crash(c) \/ ReplyLost(c) \/ Restart(c)

Spec == Init /\ [][Next]_vars

(* The loop turns, every handler returns (a scan has a deadline), and the  *)
(* supervisor restarts what has exited.  Nothing obliges a handler to      *)
(* succeed.                                                                *)
FairSpec ==
  /\ Spec
  /\ \A c \in Consumers :
       /\ WF_vars(BLPop(c))
       /\ WF_vars(HandlerSucceeds(c) \/ HandlerFails(c))
       /\ WF_vars(Return(c))
       /\ WF_vars(Restart(c))

-----------------------------------------------------------------------------
(* Properties.                                                             *)

\* Where the copies of m are.
Waiting(m) == {i \in DOMAIN lists[TypeOf[m]] : lists[TypeOf[m]][i].msg = m}
Holders(m) == {c \in Consumers : job[c] # NoJob /\ job[c].msg = m}

\* The retry count a job carries is the number of handler calls it has used
\* up, through requeueing, plain JSON and restarts: nothing resets it and
\* nothing counts a call twice (redis.go 165-208).
RetryCountIsExact ==
  /\ \A t \in JobTypes : \A i \in DOMAIN lists[t] :
       calls[lists[t][i].msg] = Decode(lists[t][i]).retry
  /\ \A c \in Consumers :
       job[c] # NoJob => calls[job[c].msg] = job[c].retry + 1

\* A pending entry exists once: in one position of its own list, or in the
\* hands of one consumer.  A settled one exists nowhere.  So no two handlers
\* run on one entry, and a retry never leaves the original behind.
SingleCopy ==
  /\ \A t \in JobTypes : \A i \in DOMAIN lists[t] :
       TypeOf[lists[t][i].msg] = t
  /\ \A m \in Messages :
       /\ fate[m] = "pending" <=> Waiting(m) # {} \/ Holders(m) # {}
       /\ Waiting(m) = {} \/ Holders(m) = {}
       /\ \A i, j \in Waiting(m) : i = j
       /\ \A c, d \in Holders(m) : c = d

\* The entries that were pushed, have no ending that a handler gave them, and
\* are in no list and nobody's hands.
Gone ==
  {m \in Messages : /\ fate[m] \notin {"absent", "ok", "dead"}
                    /\ Waiting(m) = {} /\ Holders(m) = {}}

\* A crash, a shutdown or a failed call costs one entry at most, and nothing
\* else costs any: the pop takes one entry off the lists, a consumer that is
\* shut down takes no other, and what a handler returns loses nothing
\* (redis.go 125-210).
OneLossPerFault == Cardinality(Gone) <= faults

\* The queue implements the abstract delivery service with a budget of
\* maxRetries + 1 handler calls ("Initial attempt + 3 retries = 4 total
\* handler calls", queue_integration_test.go:168).
ImplementsDelivery == D!Spec

\* Every entry that is pushed gets its ending, whatever handlers return: the
\* retry loop is finite and a busy key does not starve a later one for ever.
EverySettles ==
  \A m \in Messages : fate[m] = "pending" ~> fate[m] \in D!Settled
=============================================================================
