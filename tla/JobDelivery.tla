---------------------------- MODULE JobDelivery ----------------------------
(***************************************************************************)
(* What the job queue of the workers promises its users, without lists,    *)
(* consumers or processes: a submitted message is handed to a handler at   *)
(* most Budget times, and its story ends in exactly one way.  It is        *)
(* handled, or given up after the whole budget was spent, or lost.         *)
(*                                                                         *)
(* JobQueue (queue/redis.go) implements this specification.                *)
(***************************************************************************)
EXTENDS Naturals

CONSTANTS Messages,   \* the entries producers push
          Budget      \* handler calls a message may use up

VARIABLES fate,       \* fate[m]: what has become of m
          calls       \* calls[m]: handler calls spent on m

delivery == <<fate, calls>>

Settled == {"ok", "dead", "lost"}
Fates == {"absent", "pending"} \cup Settled

Init ==
  /\ fate = [m \in Messages |-> "absent"]
  /\ calls = [m \in Messages |-> 0]

Submit(m) ==
  /\ fate[m] = "absent"
  /\ fate' = [fate EXCEPT ![m] = "pending"]
  /\ UNCHANGED calls

Attempt(m) ==
  /\ fate[m] = "pending"
  /\ calls[m] < Budget
  /\ calls' = [calls EXCEPT ![m] = @ + 1]
  /\ UNCHANGED fate

Succeed(m) ==
  /\ fate[m] = "pending"
  /\ calls[m] > 0
  /\ fate' = [fate EXCEPT ![m] = "ok"]
  /\ UNCHANGED calls

\* Giving up before the budget is spent is not allowed.
GiveUp(m) ==
  /\ fate[m] = "pending"
  /\ calls[m] = Budget
  /\ fate' = [fate EXCEPT ![m] = "dead"]
  /\ UNCHANGED calls

Lose(m) ==
  /\ fate[m] = "pending"
  /\ fate' = [fate EXCEPT ![m] = "lost"]
  /\ UNCHANGED calls

Next == \E m \in Messages :
  Submit(m) \/ Attempt(m) \/ Succeed(m) \/ GiveUp(m) \/ Lose(m)

Spec == Init /\ [][Next]_delivery
=============================================================================
