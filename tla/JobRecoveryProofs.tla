------------------------- MODULE JobRecoveryProofs -------------------------
(***************************************************************************)
(* Proofs about JobRecovery, for every set of jobs and processes, every    *)
(* limit, and any number of crashes and failed writes.                     *)
(***************************************************************************)
EXTENDS JobRecovery, FiniteSetTheorems, TLAPS

(* The actions that leave the runners, the counts and the messages they    *)
(* have pushed alone, and those of the runners and the API that do not.    *)

LeavesRecoveryAlone == UNCHANGED <<count, runner, reposts>>

ProducerOrConsumer ==
  \/ \E j \in Jobs : InsertRow(j) \/ EndsCreation(j)
  \/ \E p \in Processes : Take(p) \/ PopLost(p) \/ EndsHandler(p)

LEMMA OthersLeaveRecoveryAlone ==
  ProducerOrConsumer => LeavesRecoveryAlone
BY DEF ProducerOrConsumer, LeavesRecoveryAlone, InsertRow, EndsCreation,
       PushMessage, Abandon, PushFails, Take, PopLost, EndsHandler, EndHandler,
       Succeed, FailAndRetry, RetryLost, FailForGood, rows

-----------------------------------------------------------------------------
(* Types.  A runner is between two writes for a row exactly while it has a *)
(* current one, and that row is still on its list.                         *)

CurrentIsToDo ==
  \A p \in Processes :
    IF step[p] \in {"orphan_sent", "stuck_reset", "stuck_sent"}
      THEN current[p] \in todo[p]
      ELSE current[p] = None

Typed == TypeOK /\ CurrentIsToDo

LEMMA TypedInit == Init => Typed
BY RecoveryAssumption
DEF Init, Typed, TypeOK, CurrentIsToDo, Statuses, Steps, Messages

LEMMA MessageType ==
  ASSUME NEW j \in Jobs, NEW id \in BOOLEAN
  PROVE  Message(j, id, 0) \in Messages
BY RecoveryAssumption DEF Message, Messages

LEMMA PushType ==
  ASSUME waiting \in [Messages -> Nat], NEW m \in Messages, Push(m)
  PROVE  waiting' \in [Messages -> Nat]
BY DEF Push

LEMMA TypedNext == Typed /\ [Next]_vars => Typed'
<1> SUFFICES ASSUME Typed, [Next]_vars PROVE Typed'
  OBVIOUS
<1> USE RecoveryAssumption DEF Typed, TypeOK, CurrentIsToDo
<1>1. ASSUME NEW j \in Jobs, InsertRow(j) PROVE Typed'
  BY <1>1 DEF InsertRow, SetStatus, Statuses, runner
<1>2. ASSUME NEW j \in Jobs, EndsCreation(j) PROVE Typed'
  <2>1. CASE PushMessage(j)
    <3>1. Message(j, TRUE, 0) \in Messages
      BY MessageType
    <3>2. waiting' \in [Messages -> Nat]
      BY <2>1, <3>1, PushType DEF PushMessage
    <3> QED
      BY <2>1, <3>2 DEF PushMessage, rows, runner
  <2>2. CASE Abandon(j)
    BY <2>2 DEF Abandon, Fault, rows, runner
  <2>3. CASE PushFails(j)
    BY <2>3 DEF PushFails, Fault, SetStatus, Statuses, rows, runner
  <2> QED
    BY <1>2, <2>1, <2>2, <2>3 DEF EndsCreation
<1>3. ASSUME NEW p \in Processes, Take(p) PROVE Typed'
  <2>1. PICK m \in Messages :
          /\ waiting[m] > 0
          /\ waiting' = [waiting EXCEPT ![m] = @ - 1]
          /\ hand' = [hand EXCEPT ![p] = m]
          /\ Report(m, "running")
    BY <1>3 DEF Take
  <2>2. m.job \in Jobs
    BY DEF Messages
  <2>3. status' \in [Jobs -> Statuses] /\ faults' \in Nat
    BY <2>1, <2>2 DEF Report, SetStatus, Fault, Statuses
  <2> QED
    BY <1>3, <2>1, <2>2, <2>3 DEF Take, runner
<1>4. ASSUME NEW p \in Processes, PopLost(p) PROVE Typed'
  <2>1. PICK m \in Messages :
          /\ waiting[m] > 0
          /\ waiting' = [waiting EXCEPT ![m] = @ - 1]
    BY <1>4 DEF PopLost
  <2> QED
    BY <1>4, <2>1 DEF PopLost, Fault, rows, runner
<1>5. ASSUME NEW p \in Processes, EndsHandler(p) PROVE Typed'
  <2>1. hand[p] \in Messages /\ hand[p].job \in Jobs
    BY <1>5 DEF EndsHandler, Succeed, FailAndRetry, RetryLost, FailForGood,
                EndHandler, Messages
  <2>2. /\ status' \in [Jobs -> Statuses]
        /\ faults' \in Nat
        /\ hand' \in [Processes -> Messages \cup {None}]
        /\ ended' \in SUBSET Jobs
        /\ ended \subseteq ended'
        /\ hand[p].job \in ended'
        /\ UNCHANGED <<count, producer, runner, reposts>>
    BY <1>5, <2>1 DEF EndsHandler, Succeed, FailAndRetry, RetryLost, FailForGood,
                EndHandler, Report, SetStatus, Fault, Statuses
  <2>4. waiting' \in [Messages -> Nat]
    BY <1>5, <2>1 DEF EndsHandler, Succeed, FailAndRetry, RetryLost, FailForGood,
                Push
  <2> QED
    BY <2>2, <2>4 DEF runner
<1>6. ASSUME NEW p \in Processes, Crash(p) PROVE Typed'
  BY <1>6 DEF Crash, Fault, Steps, rows
<1>7. ASSUME NEW p \in Processes, NEW S \in SUBSET Jobs, FindOrphanedJobs(p, S)
      PROVE Typed'
  BY <1>7 DEF FindOrphanedJobs, Goto, Steps, rows
<1>8. ASSUME NEW p \in Processes, NEW S \in SUBSET Jobs, FindStuckRunningJobs(p, S)
      PROVE Typed'
  BY <1>8 DEF FindStuckRunningJobs, Goto, Steps, rows
<1>9. ASSUME NEW p \in Processes, EnqueueOrphan(p) PROVE Typed'
  <2>1. PICK j \in todo[p] :
          /\ Repost(p, j, "orphan_sent")
          /\ current' = [current EXCEPT ![p] = j]
    BY <1>9 DEF EnqueueOrphan
  <2>2. j \in Jobs /\ Message(j, FALSE, 0) \in Messages
    BY MessageType
  <2>3. waiting' \in [Messages -> Nat]
    BY <2>1, <2>2, PushType DEF Repost
  <2> QED
    BY <1>9, <2>1, <2>2, <2>3
    DEF EnqueueOrphan, Repost, Goto, Steps, rows
<1>10. ASSUME NEW p \in Processes, ResetJobToQueued(p) PROVE Typed'
  BY <1>10 DEF ResetJobToQueued, SetStatus, Goto, Steps, Statuses
<1>11. ASSUME NEW p \in Processes, EnqueueStuck(p) PROVE Typed'
  <2>1. current[p] \in todo[p] /\ current[p] \in Jobs
    BY <1>11 DEF EnqueueStuck
  <2>2. Message(current[p], FALSE, 0) \in Messages
    BY <2>1, MessageType
  <2>3. waiting' \in [Messages -> Nat]
    BY <1>11, <2>2, PushType DEF EnqueueStuck, Repost
  <2> QED
    BY <1>11, <2>1, <2>3 DEF EnqueueStuck, Repost, Goto, Steps, rows
<1>12. ASSUME NEW p \in Processes, Mark(p) PROVE Typed'
  <2>1. current[p] \in todo[p] /\ current[p] \in Jobs
    BY <1>12 DEF Mark
  <2> QED
    BY <1>12, <2>1
    DEF Mark, MarkJobRecovered, Done, SetStatus, Goto, Steps, Statuses
<1>13. ASSUME NEW p \in Processes, RowFails(p) PROVE Typed'
  BY <1>13 DEF RowFails, Done, Fault, Goto, Steps, rows
<1>14. ASSUME NEW p \in Processes, EndPass(p) PROVE Typed'
  BY <1>14 DEF EndPass, Fault, Goto, Steps, rows
<1>15. ASSUME NEW S \in SUBSET Jobs, RecoverStuckJobs(S) PROVE Typed'
  <2>1. status' \in [Jobs -> Statuses] /\ count' \in [Jobs -> Nat]
    BY <1>15 DEF RecoverStuckJobs, Statuses
  <2> QED
    BY <1>15, <2>1 DEF RecoverStuckJobs, runner
<1>16. CASE UNCHANGED vars
  BY <1>16 DEF vars, rows, runner
<1> QED
  BY <1>1, <1>2, <1>3, <1>4, <1>5, <1>6, <1>7, <1>8, <1>9, <1>10, <1>11, <1>12,
     <1>13, <1>14, <1>15, <1>16 DEF Next, RunnerWorks

\* The model is type-correct: no waiting message is counted below zero, and a
\* runner never acts on a row it has not read.
THEOREM TypeCorrect == Spec => []TypeOK
<1>1. Spec => []Typed
  BY TypedInit, TypedNext, PTL DEF Spec
<1> QED
  BY <1>1, PTL DEF Typed

-----------------------------------------------------------------------------
(* The bounds.  A runner that has a row on its list may still spend one    *)
(* attempt on it, and one that has pushed a message without counting it    *)
(* holds that message as a debt, which the count, or a fault, will pay.    *)

Pending(j) == {p \in Processes : j \in todo[p]}
Uncounted(j) ==
  {p \in Processes : step[p] \in {"orphan_sent", "stuck_sent"} /\ current[p] = j}

AttemptsCovered(j) ==
  count[j] + Cardinality(Pending(j)) <= MaxRecoveryAttempts + Cardinality(Processes)
RepostsCovered(j) ==
  reposts[j] <= count[j] + Cardinality(Uncounted(j)) + faults

Covered == \A j \in Jobs : AttemptsCovered(j) /\ RepostsCovered(j)

(* Cardinalities of sets of processes: smaller, one more, one fewer. *)

LEMMA SubsetCard ==
  ASSUME NEW S \in SUBSET Processes, NEW T \in SUBSET S
  PROVE  /\ Cardinality(S) \in Nat /\ Cardinality(T) \in Nat
         /\ Cardinality(T) <= Cardinality(S)
BY RecoveryAssumption, FS_Subset, FS_CardinalityType

LEMMA ProcessesCard ==
  ASSUME NEW S \in SUBSET Processes
  PROVE  /\ Cardinality(S) \in Nat /\ Cardinality(Processes) \in Nat
         /\ Cardinality(S) <= Cardinality(Processes)
BY SubsetCard

LEMMA AddOneCard ==
  ASSUME NEW S \in SUBSET Processes, NEW p \in Processes
  PROVE  Cardinality(S \cup {p}) = IF p \in S THEN Cardinality(S)
                                              ELSE Cardinality(S) + 1
BY RecoveryAssumption, FS_Subset, FS_AddElement

LEMMA DropOneCard ==
  ASSUME NEW S \in SUBSET Processes, NEW p \in S, NEW T \in SUBSET (S \ {p})
  PROVE  Cardinality(T) + 1 <= Cardinality(S)
<1>1. IsFiniteSet(S) /\ Cardinality(S) \in Nat
  BY RecoveryAssumption, FS_Subset, FS_CardinalityType
<1>2. IsFiniteSet(S \ {p}) /\ Cardinality(S \ {p}) = Cardinality(S) - 1
  BY <1>1, FS_RemoveElement
<1>3. Cardinality(T) \in Nat /\ Cardinality(T) <= Cardinality(S \ {p})
  BY SubsetCard
<1> QED
  BY <1>1, <1>2, <1>3

LEMMA CoveredInit == Init => Covered
<1> SUFFICES ASSUME Init, NEW j \in Jobs
             PROVE  AttemptsCovered(j) /\ RepostsCovered(j)
  BY DEF Covered
<1>1. Pending(j) = {} /\ Uncounted(j) = {}
  BY DEF Init, Pending, Uncounted
<1>2. Cardinality({}) = 0 /\ Cardinality(Processes) \in Nat
  BY RecoveryAssumption, FS_EmptySet, FS_CardinalityType
<1> QED
  BY <1>1, <1>2, RecoveryAssumption DEF Init, AttemptsCovered, RepostsCovered

(* An action can only help the bounds of j when it pushes and counts       *)
(* nothing, adds no runner to those with j on their list, and pays for     *)
(* every runner it takes off the debtors of j with a fault.                *)

LEMMA Harmless ==
  ASSUME Typed, Typed', NEW j \in Jobs,
         AttemptsCovered(j), RepostsCovered(j),
         count'[j] = count[j], reposts'[j] = reposts[j],
         Pending(j)' \subseteq Pending(j),
         \/ Uncounted(j)' = Uncounted(j) /\ faults' >= faults
         \/ /\ faults' = faults + 1
            /\ \E p \in Processes :
                 Uncounted(j)' = Uncounted(j) \/ Uncounted(j)' \cup {p} = Uncounted(j)
  PROVE  AttemptsCovered(j)' /\ RepostsCovered(j)'
<1> DEFINE A == Pending(j)  B == Pending(j)'  U == Uncounted(j)  V == Uncounted(j)'
<1>1. /\ A \in SUBSET Processes /\ B \in SUBSET A
      /\ U \in SUBSET Processes /\ V \in SUBSET Processes
  BY DEF Pending, Uncounted
<1>2. /\ Cardinality(A) \in Nat /\ Cardinality(B) \in Nat
      /\ Cardinality(B) <= Cardinality(A)
      /\ Cardinality(U) \in Nat /\ Cardinality(V) \in Nat
      /\ Cardinality(Processes) \in Nat
  BY <1>1, SubsetCard, ProcessesCard
<1>3. /\ count[j] \in Nat /\ count'[j] \in Nat /\ faults \in Nat /\ faults' \in Nat
      /\ reposts[j] \in Nat
  BY DEF Typed, TypeOK
<1>4. Cardinality(U) + faults <= Cardinality(V) + faults'
  <2>1. ASSUME NEW p \in Processes, V \cup {p} = U
        PROVE  Cardinality(U) <= Cardinality(V) + 1
    <3> HIDE DEF U, V
    <3>1. \/ Cardinality(V \cup {p}) = Cardinality(V)
          \/ Cardinality(V \cup {p}) = Cardinality(V) + 1
      BY <1>1, AddOneCard
    <3>2. Cardinality(U) = Cardinality(V \cup {p})
      BY <2>1
    <3>3. Cardinality(U) \in Nat /\ Cardinality(V) \in Nat
      BY <1>2
    <3> QED
      BY <3>1, <3>2, <3>3
  <2> QED
    BY <1>2, <1>3, <2>1
<1>5. AttemptsCovered(j)'
  BY <1>2, <1>3, RecoveryAssumption DEF AttemptsCovered
<1>6. RepostsCovered(j)'
  BY <1>2, <1>3, <1>4 DEF RepostsCovered
<1> QED
  BY <1>5, <1>6

LEMMA CoveredNext == Typed /\ Typed' /\ Covered /\ [Next]_vars => Covered'
<1> SUFFICES ASSUME Typed, Typed', Covered, [Next]_vars, NEW j \in Jobs
             PROVE  AttemptsCovered(j)' /\ RepostsCovered(j)'
  BY DEF Covered
<1> DEFINE Goal == AttemptsCovered(j)' /\ RepostsCovered(j)'
<1>1. AttemptsCovered(j) /\ RepostsCovered(j)
  BY DEF Covered
<1>2. /\ count \in [Jobs -> Nat] /\ count' \in [Jobs -> Nat]
      /\ reposts \in [Jobs -> Nat] /\ reposts' \in [Jobs -> Nat]
      /\ todo \in [Processes -> SUBSET Jobs] /\ current \in [Processes -> Jobs \cup {None}]
      /\ step \in [Processes -> Steps]
      /\ faults \in Nat /\ faults' \in Nat
  BY DEF Typed, TypeOK
<1>3. /\ Pending(j) \in SUBSET Processes /\ Pending(j)' \in SUBSET Processes
      /\ Uncounted(j) \in SUBSET Processes /\ Uncounted(j)' \in SUBSET Processes
  BY DEF Pending, Uncounted
<1>4. /\ Cardinality(Pending(j)) \in Nat /\ Cardinality(Pending(j)') \in Nat
      /\ Cardinality(Uncounted(j)) \in Nat /\ Cardinality(Uncounted(j)') \in Nat
      /\ Cardinality(Processes) \in Nat
      /\ Cardinality(Pending(j)') <= Cardinality(Processes)
  BY <1>3, ProcessesCard
<1>5. ASSUME ProducerOrConsumer PROVE Goal
  <2>1. faults' >= faults
    <3>1. faults' = faults \/ Fault
      BY <1>5 DEF ProducerOrConsumer, InsertRow, EndsCreation, PushMessage,
         Abandon, PushFails, Take, PopLost, EndsHandler, Report,
         Succeed, FailAndRetry, RetryLost, FailForGood
    <3> QED
      BY <1>2, <3>1 DEF Fault
  <2>2. UNCHANGED <<count, step, todo, current, reposts>>
    BY <1>5, OthersLeaveRecoveryAlone DEF LeavesRecoveryAlone, runner
  <2> QED
    BY <1>1, <2>1, <2>2, Harmless DEF Pending, Uncounted
<1>6. ASSUME NEW p \in Processes, Crash(p) PROVE Goal
  <2>1. faults' = faults + 1 /\ UNCHANGED <<count, reposts>>
    BY <1>6 DEF Crash, Fault, rows
  <2>2. /\ Pending(j)' \subseteq Pending(j)
        /\ Uncounted(j)' = Uncounted(j) \/ Uncounted(j)' \cup {p} = Uncounted(j)
    BY <1>2, <1>6 DEF Crash, Pending, Uncounted, Steps
  <2> QED
    BY <1>1, <2>1, <2>2, Harmless
<1>7. ASSUME NEW p \in Processes, NEW S \in SUBSET Jobs,
             FindOrphanedJobs(p, S) \/ FindStuckRunningJobs(p, S)
      PROVE  Goal
  <2>1. UNCHANGED <<count, current, reposts, faults>>
    BY <1>7 DEF FindOrphanedJobs, FindStuckRunningJobs, rows
  <2>2. Uncounted(j)' = Uncounted(j)
    BY <1>2, <1>7 DEF FindOrphanedJobs, FindStuckRunningJobs, Goto, Uncounted
  <2>3. CASE j \in S
    <3>1. count[j] < MaxRecoveryAttempts
      BY <1>7, <2>3 DEF FindOrphanedJobs, FindStuckRunningJobs, Recoverable
    <3>2. AttemptsCovered(j)'
      BY <1>2, <1>4, <2>1, <3>1, RecoveryAssumption DEF AttemptsCovered
    <3>3. RepostsCovered(j)'
      BY <1>1, <2>1, <2>2 DEF RepostsCovered
    <3> QED
      BY <3>2, <3>3
  <2>4. CASE j \notin S
    <3>1. Pending(j)' \subseteq Pending(j)
      BY <1>2, <1>7, <2>4 DEF FindOrphanedJobs, FindStuckRunningJobs, Pending
    <3> QED
      BY <1>1, <1>2, <2>1, <2>2, <3>1, Harmless
  <2> QED
    BY <2>3, <2>4
<1>8. ASSUME NEW p \in Processes, EnqueueOrphan(p) \/ EnqueueStuck(p) PROVE Goal
  <2>1. PICK k \in Jobs :
          /\ reposts' = [reposts EXCEPT ![k] = @ + 1]
          /\ current'[p] = k
          /\ step'[p] \in {"orphan_sent", "stuck_sent"}
    BY <1>2, <1>8 DEF EnqueueOrphan, EnqueueStuck, Repost, Goto, Typed, CurrentIsToDo
  <2>2. /\ UNCHANGED <<count, todo, faults>>
        /\ step[p] \notin {"orphan_sent", "stuck_sent"}
        /\ \A q \in Processes \ {p} : step'[q] = step[q] /\ current'[q] = current[q]
    BY <1>2, <1>8 DEF EnqueueOrphan, EnqueueStuck, Repost, Goto, rows
  <2>3. Pending(j)' = Pending(j)
    BY <2>2 DEF Pending
  <2>4. CASE k = j
    <3>1. Uncounted(j)' = Uncounted(j) \cup {p} /\ p \notin Uncounted(j)
      BY <2>1, <2>2, <2>4 DEF Uncounted
    <3>2. Cardinality(Uncounted(j)') = Cardinality(Uncounted(j)) + 1
      BY <1>3, <3>1, AddOneCard
    <3>3. reposts'[j] = reposts[j] + 1
      BY <1>2, <2>1, <2>4
    <3>4. AttemptsCovered(j)'
      BY <1>1, <2>2, <2>3 DEF AttemptsCovered
    <3>5. RepostsCovered(j)'
      BY <1>1, <1>2, <1>4, <2>2, <3>2, <3>3 DEF RepostsCovered
    <3> QED
      BY <3>4, <3>5
  <2>5. CASE k # j
    <3>1. Uncounted(j)' = Uncounted(j)
      BY <2>1, <2>2, <2>5 DEF Uncounted
    <3> QED
      BY <1>1, <1>2, <2>1, <2>2, <2>3, <2>5, <3>1, Harmless
  <2> QED
    BY <2>4, <2>5
<1>9. ASSUME NEW p \in Processes, ResetJobToQueued(p) PROVE Goal
  <2>1. UNCHANGED <<count, todo, reposts, faults>>
    BY <1>9 DEF ResetJobToQueued
  <2>2. Pending(j)' = Pending(j) /\ Uncounted(j)' = Uncounted(j)
    BY <1>2, <1>9 DEF ResetJobToQueued, Goto, Pending, Uncounted
  <2> QED
    BY <1>1, <1>2, <2>1, <2>2, Harmless
<1>10. ASSUME NEW p \in Processes, Mark(p) PROVE Goal
  <2>1. /\ step[p] \in {"orphan_sent", "stuck_sent"}
        /\ current[p] \in todo[p] /\ current[p] \in Jobs
    BY <1>2, <1>10 DEF Mark, Typed, CurrentIsToDo
  <2>2. /\ count' = [count EXCEPT ![current[p]] = @ + 1]
        /\ UNCHANGED <<reposts, faults>>
        /\ todo' = [todo EXCEPT ![p] = @ \ {current[p]}]
        /\ current' = [current EXCEPT ![p] = None]
        /\ step'[p] \notin {"orphan_sent", "stuck_sent"}
        /\ \A q \in Processes \ {p} : step'[q] = step[q]
    BY <1>2, <1>10 DEF Mark, MarkJobRecovered, Done, Goto
  <2>3. CASE current[p] = j
    <3>1. /\ p \in Pending(j) /\ Pending(j)' \subseteq Pending(j) \ {p}
          /\ p \in Uncounted(j) /\ Uncounted(j)' = Uncounted(j) \ {p}
      BY <1>2, <2>1, <2>2, <2>3 DEF Pending, Uncounted
    <3>2. Cardinality(Pending(j)') + 1 <= Cardinality(Pending(j))
      BY <1>3, <3>1, DropOneCard
    <3>3. Cardinality(Uncounted(j)) = Cardinality(Uncounted(j)') + 1
      <4> DEFINE V == Uncounted(j)'
      <4>1. V \in SUBSET Processes /\ p \notin V /\ V \cup {p} = Uncounted(j)
        BY <1>3, <3>1
      <4> HIDE DEF V
      <4>2. Cardinality(V \cup {p}) = Cardinality(V) + 1
        BY <4>1, AddOneCard
      <4> QED
        BY <4>1, <4>2 DEF V
    <3>4. count'[j] = count[j] + 1
      BY <1>2, <2>2, <2>3
    <3>5. AttemptsCovered(j)'
      BY <1>1, <1>2, <1>4, <3>2, <3>4, RecoveryAssumption DEF AttemptsCovered
    <3>6. RepostsCovered(j)'
      BY <1>1, <1>2, <1>4, <2>2, <3>3, <3>4 DEF RepostsCovered
    <3> QED
      BY <3>5, <3>6
  <2>4. CASE current[p] # j
    <3>1. /\ Pending(j)' \subseteq Pending(j)
          /\ Uncounted(j)' = Uncounted(j)
          /\ count'[j] = count[j]
      BY <1>2, <2>1, <2>2, <2>4, RecoveryAssumption DEF Pending, Uncounted
    <3> QED
      BY <1>1, <1>2, <2>2, <3>1, Harmless
  <2> QED
    BY <2>3, <2>4
<1>11. ASSUME NEW p \in Processes, RowFails(p) PROVE Goal
  <2>1. faults' = faults + 1 /\ UNCHANGED <<count, reposts>>
    BY <1>11 DEF RowFails, Fault, rows
  <2>2. PICK k : Done(p, k)
    BY <1>11 DEF RowFails
  <2>3. /\ Pending(j)' \subseteq Pending(j)
        /\ Uncounted(j)' = Uncounted(j) \/ Uncounted(j)' \cup {p} = Uncounted(j)
    BY <1>2, <2>2 DEF Done, Goto, Pending, Uncounted, Steps
  <2> QED
    BY <1>1, <2>1, <2>3, Harmless
<1>12. ASSUME NEW p \in Processes, EndPass(p) PROVE Goal
  <2>1. UNCHANGED <<count, todo, current, reposts>> /\ faults' >= faults
    BY <1>2, <1>12 DEF EndPass, Fault, rows
  <2>2. Pending(j)' = Pending(j) /\ Uncounted(j)' = Uncounted(j)
    BY <1>2, <1>12 DEF EndPass, Goto, Pending, Uncounted
  <2> QED
    BY <1>1, <2>1, <2>2, Harmless
<1>13. ASSUME NEW S \in SUBSET Jobs, RecoverStuckJobs(S) PROVE Goal
  <2>1. UNCHANGED <<step, todo, current, reposts, faults>>
    BY <1>13 DEF RecoverStuckJobs, runner
  <2>2. Pending(j)' = Pending(j) /\ Uncounted(j)' = Uncounted(j)
    BY <2>1 DEF Pending, Uncounted
  <2>3. CASE j \in S /\ count[j] < MaxRecoveryAttempts
    <3>1. count'[j] = count[j] + 1
      BY <1>13, <2>3 DEF RecoverStuckJobs
    <3>2. AttemptsCovered(j)'
      BY <1>2, <1>4, <2>3, <3>1, RecoveryAssumption DEF AttemptsCovered
    <3>3. RepostsCovered(j)'
      BY <1>1, <1>2, <1>4, <2>1, <2>2, <3>1 DEF RepostsCovered
    <3> QED
      BY <3>2, <3>3
  <2>4. CASE ~(j \in S /\ count[j] < MaxRecoveryAttempts)
    <3>1. count'[j] = count[j]
      BY <1>13, <2>4 DEF RecoverStuckJobs
    <3> QED
      BY <1>1, <1>2, <2>1, <2>2, <3>1, Harmless
  <2> QED
    BY <2>3, <2>4
<1>14. CASE UNCHANGED vars
  BY <1>1, <1>14
  DEF vars, rows, runner, AttemptsCovered, RepostsCovered, Pending, Uncounted
<1> QED
  BY <1>5, <1>6, <1>7, <1>8, <1>9, <1>10, <1>11, <1>12, <1>13, <1>14
  DEF Next, RunnerWorks, ProducerOrConsumer

LEMMA CoveredImpliesBounds ==
  Typed /\ Covered => RecoveryBounded /\ RepostsBounded
<1> SUFFICES ASSUME Typed, Covered, NEW j \in Jobs
             PROVE  /\ count[j] <= MaxRecoveryAttempts + Cardinality(Processes)
                    /\ reposts[j] <= MaxRecoveryAttempts + Cardinality(Processes) + faults
  BY DEF RecoveryBounded, RepostsBounded
<1>1. AttemptsCovered(j) /\ RepostsCovered(j)
  BY DEF Covered
<1>2. Pending(j) \in SUBSET Processes /\ Uncounted(j) \in SUBSET Pending(j)
  BY DEF Typed, CurrentIsToDo, Pending, Uncounted
<1>3. /\ Cardinality(Pending(j)) \in Nat /\ Cardinality(Uncounted(j)) \in Nat
      /\ Cardinality(Uncounted(j)) <= Cardinality(Pending(j))
      /\ Cardinality(Processes) \in Nat
  BY <1>2, SubsetCard, ProcessesCard
<1>4. count[j] \in Nat /\ reposts[j] \in Nat /\ faults \in Nat
  BY DEF Typed, TypeOK
<1> QED
  BY <1>1, <1>3, <1>4, RecoveryAssumption DEF AttemptsCovered, RepostsCovered

\* However many runners and API passes interleave, recovery_count exceeds the
\* limit by at most one per runner.
THEOREM AttemptsBounded == Spec => []RecoveryBounded
<1>1. Spec => [](Typed /\ Covered)
  BY TypedInit, TypedNext, CoveredInit, CoveredNext, PTL DEF Spec
<1> QED
  BY <1>1, CoveredImpliesBounds, PTL

\* And the messages recovery adds for a job are bounded by the limit, the number
\* of runners and the number of faults.
THEOREM MessagesBounded == Spec => []RepostsBounded
<1>1. Spec => [](Typed /\ Covered)
  BY TypedInit, TypedNext, CoveredInit, CoveredNext, PTL DEF Spec
<1> QED
  BY <1>1, CoveredImpliesBounds, PTL

-----------------------------------------------------------------------------
(* Reporters.  Of the messages that name the row of j there is none, or    *)
(* one that waits, or one in the hand of one process; none before the      *)
(* producer is done with j, and none once j is complete.                   *)

Names(m, j) == m \in Messages /\ m.job = j /\ m.id

NoneWaits(j) == \A m \in Messages : Names(m, j) => waiting[m] = 0
NoneHeld(j) == \A p \in Processes : ~Names(hand[p], j)

Silent(j) == NoneWaits(j) /\ NoneHeld(j)
Waits(j) ==
  /\ NoneHeld(j)
  /\ \E m \in Messages :
       /\ Names(m, j) /\ waiting[m] = 1
       /\ \A n \in Messages \ {m} : Names(n, j) => waiting[n] = 0
Held(j) ==
  /\ NoneWaits(j)
  /\ \E p \in Processes :
       Names(hand[p], j) /\ \A q \in Processes \ {p} : ~Names(hand[q], j)

OneReporter(j) ==
  /\ Silent(j) \/ Waits(j) \/ Held(j)
  /\ producer[j] # "done" => Silent(j)
  /\ status[j] = "complete" => Silent(j) /\ producer[j] = "done"

Reporting == \A j \in Jobs : OneReporter(j)

LEMMA ReportingInit == Init => Reporting
BY RecoveryAssumption
DEF Init, Reporting, OneReporter, Silent, NoneWaits, NoneHeld, Names, Messages

(* The step of a message between a list and a hand. *)

LEMMA NothingMoves ==
  ASSUME NEW j \in Jobs, OneReporter(j),
         \A m \in Messages : Names(m, j) => waiting'[m] = waiting[m],
         \A p \in Processes : Names(hand'[p], j) <=> Names(hand[p], j),
         producer'[j] = producer[j] \/ Silent(j),
         status'[j] = status[j] \/ status'[j] # "complete",
         status[j] = "complete" => producer'[j] = "done"
  PROVE  OneReporter(j)'
<1>1. /\ Silent(j)' <=> Silent(j)
      /\ Waits(j)' <=> Waits(j)
      /\ Held(j)' <=> Held(j)
  BY DEF Silent, Waits, Held, NoneWaits, NoneHeld
<1> QED
  BY <1>1 DEF OneReporter

LEMMA ReporterTaken ==
  ASSUME Typed, NEW j \in Jobs, OneReporter(j),
         NEW m \in Messages, Names(m, j), waiting[m] > 0,
         waiting' = [waiting EXCEPT ![m] = @ - 1]
  PROVE  NoneHeld(j) /\ NoneWaits(j)' /\ producer[j] = "done" /\ status[j] # "complete"
<1>1. ~NoneWaits(j)
  BY DEF NoneWaits
<1>2. Waits(j) /\ producer[j] = "done" /\ status[j] # "complete"
  BY <1>1 DEF OneReporter, Silent, Held
<1>3. PICK n \in Messages :
        /\ waiting[n] = 1
        /\ \A k \in Messages \ {n} : Names(k, j) => waiting[k] = 0
  BY <1>2 DEF Waits
<1>4. n = m
  BY <1>3
<1>5. NoneWaits(j)'
  BY <1>3, <1>4 DEF NoneWaits, Typed, TypeOK
<1> QED
  BY <1>2, <1>5 DEF Waits

LEMMA ReporterDropped ==
  ASSUME Typed, NEW j \in Jobs, OneReporter(j),
         NEW p \in Processes, Names(hand[p], j),
         hand' = [hand EXCEPT ![p] = None]
  PROVE  NoneWaits(j) /\ NoneHeld(j)' /\ producer[j] = "done" /\ status[j] # "complete"
<1>1. ~NoneHeld(j)
  BY DEF NoneHeld
<1>2. Held(j) /\ producer[j] = "done" /\ status[j] # "complete"
  BY <1>1 DEF OneReporter, Silent, Waits
<1>3. NoneHeld(j)'
  BY <1>2, RecoveryAssumption DEF Held, NoneHeld, Names, Messages, Typed, TypeOK
<1> QED
  BY <1>2, <1>3 DEF Held

LEMMA ReporterPushed ==
  ASSUME Typed, NEW j \in Jobs, NoneWaits(j), NoneHeld(j)',
         NEW m \in Messages, Names(m, j), Push(m)
  PROVE  Waits(j)'
<1>1. /\ waiting'[m] = 1
      /\ \A n \in Messages \ {m} : Names(n, j) => waiting'[n] = 0
  BY DEF NoneWaits, Push, Typed, TypeOK
<1> QED
  BY <1>1 DEF Waits

LEMMA SilentPush ==
  ASSUME Typed, NEW j \in Jobs, NEW m \in Messages, ~Names(m, j), Push(m)
  PROVE  \A n \in Messages : Names(n, j) => waiting'[n] = waiting[n]
BY DEF Push, Typed, TypeOK

LEMMA ReportingNext == Typed /\ Typed' /\ Reporting /\ [Next]_vars => Reporting'
<1> SUFFICES ASSUME Typed, Typed', Reporting, [Next]_vars, NEW j \in Jobs
             PROVE  OneReporter(j)'
  BY DEF Reporting
<1>1. /\ OneReporter(j)
      /\ status \in [Jobs -> Statuses] /\ producer \in [Jobs -> {"none", "inserted", "done"}]
      /\ waiting \in [Messages -> Nat] /\ hand \in [Processes -> Messages \cup {None}]
      /\ todo \in [Processes -> SUBSET Jobs] /\ current \in [Processes -> Jobs \cup {None}]
  BY DEF Reporting, Typed, TypeOK
<1>2. ~Names(None, j)
  BY RecoveryAssumption DEF Names, Messages
<1>3. ASSUME NEW k \in Jobs, InsertRow(k) PROVE OneReporter(j)'
  <2>1. /\ UNCHANGED <<waiting, hand>>
        /\ producer'[j] = producer[j] \/ producer[j] = "none"
        /\ status'[j] = status[j] \/ status'[j] # "complete"
        /\ producer[j] = "done" => producer'[j] = "done"
    BY <1>1, <1>3 DEF InsertRow, SetStatus
  <2> QED
    BY <1>1, <2>1, NothingMoves DEF OneReporter
<1>4. ASSUME NEW k \in Jobs, EndsCreation(k) PROVE OneReporter(j)'
  <2>1. CASE PushMessage(k)
    <3>1. Message(k, TRUE, 0) \in Messages /\ UNCHANGED <<hand, status>>
      BY <2>1, MessageType DEF PushMessage, rows
    <3>2. CASE k = j
      <4>1. Silent(j) /\ status[j] # "complete" /\ producer'[j] = "done"
        BY <1>1, <2>1, <3>2 DEF PushMessage, OneReporter
      <4>2. Names(Message(k, TRUE, 0), j)
        BY <3>1, <3>2 DEF Names, Message
      <4>3. Waits(j)'
        BY <2>1, <3>1, <4>1, <4>2, ReporterPushed
        DEF PushMessage, Silent, NoneHeld
      <4> QED
        BY <3>1, <4>1, <4>3 DEF OneReporter
    <3>3. CASE k # j
      <4>1. ~Names(Message(k, TRUE, 0), j)
        BY <3>3 DEF Names, Message
      <4>2. \A n \in Messages : Names(n, j) => waiting'[n] = waiting[n]
        BY <2>1, <3>1, <4>1, SilentPush DEF PushMessage
      <4>3. producer'[j] = producer[j]
        BY <1>1, <2>1, <3>3 DEF PushMessage
      <4> QED
        BY <1>1, <3>1, <4>2, <4>3, NothingMoves DEF OneReporter
    <3> QED
      BY <3>2, <3>3
  <2>2. CASE Abandon(k) \/ PushFails(k)
    <3>1. /\ UNCHANGED <<waiting, hand>>
          /\ producer'[j] = producer[j] \/ producer[j] = "inserted"
          /\ status'[j] = status[j] \/ status'[j] # "complete"
          /\ producer[j] = "done" => producer'[j] = "done"
      BY <1>1, <2>2 DEF Abandon, PushFails, SetStatus, rows
    <3> QED
      BY <1>1, <3>1, NothingMoves DEF OneReporter
  <2> QED
    BY <1>4, <2>1, <2>2 DEF EndsCreation
<1>5. ASSUME NEW p \in Processes, Take(p) PROVE OneReporter(j)'
  <2>1. PICK m \in Messages :
          /\ waiting[m] > 0
          /\ waiting' = [waiting EXCEPT ![m] = @ - 1]
          /\ hand' = [hand EXCEPT ![p] = m]
          /\ Report(m, "running")
    BY <1>5 DEF Take
  <2>2. /\ hand[p] = None /\ UNCHANGED producer
        /\ status'[j] = status[j] \/ status'[j] # "complete"
    BY <1>1, <1>5, <2>1 DEF Take, Report, SetStatus
  <2>3. CASE Names(m, j)
    <3>1. NoneHeld(j) /\ NoneWaits(j)' /\ producer[j] = "done" /\ status[j] # "complete"
      BY <1>1, <2>1, <2>3, ReporterTaken
    <3>2. Held(j)'
      BY <1>1, <2>1, <2>3, <3>1 DEF Held, NoneHeld
    <3> QED
      BY <2>2, <3>1, <3>2 DEF OneReporter
  <2>4. CASE ~Names(m, j)
    <3>1. /\ \A n \in Messages : Names(n, j) => waiting'[n] = waiting[n]
          /\ \A q \in Processes : Names(hand'[q], j) <=> Names(hand[q], j)
      BY <1>1, <1>2, <2>1, <2>2, <2>4
    <3> QED
      BY <1>1, <2>2, <3>1, NothingMoves DEF OneReporter
  <2> QED
    BY <2>3, <2>4
<1>6. ASSUME NEW p \in Processes, PopLost(p) PROVE OneReporter(j)'
  <2>1. PICK m \in Messages :
          /\ waiting[m] > 0
          /\ waiting' = [waiting EXCEPT ![m] = @ - 1]
    BY <1>6 DEF PopLost
  <2>2. UNCHANGED <<hand, producer, status>>
    BY <1>6 DEF PopLost, rows
  <2>3. CASE Names(m, j)
    <3>1. NoneHeld(j) /\ NoneWaits(j)' /\ producer[j] = "done" /\ status[j] # "complete"
      BY <1>1, <2>1, <2>3, ReporterTaken
    <3> QED
      BY <2>2, <3>1 DEF OneReporter, Silent, NoneHeld
  <2>4. CASE ~Names(m, j)
    <3>1. \A n \in Messages : Names(n, j) => waiting'[n] = waiting[n]
      BY <1>1, <2>1, <2>4
    <3> QED
      BY <1>1, <2>2, <3>1, NothingMoves DEF OneReporter
  <2> QED
    BY <2>3, <2>4
<1>7. ASSUME NEW p \in Processes, EndsHandler(p) PROVE OneReporter(j)'
  <2>1. /\ hand[p] \in Messages
        /\ hand' = [hand EXCEPT ![p] = None]
        /\ UNCHANGED producer
    BY <1>1, <1>7
    DEF EndsHandler, Succeed, FailAndRetry, RetryLost, FailForGood, EndHandler
  <2>2. \/ UNCHANGED waiting
        \/ /\ FailAndRetry(p)
           /\ Push([hand[p] EXCEPT !.retry = @ + 1])
    BY <1>7 DEF EndsHandler, Succeed, FailAndRetry, RetryLost, FailForGood
  <2> DEFINE next == [hand[p] EXCEPT !.retry = @ + 1]
  <2>3. FailAndRetry(p) => next \in Messages
    BY <2>1, RecoveryAssumption DEF FailAndRetry, Messages
  <2>4. Names(next, j) /\ next \in Messages => Names(hand[p], j)
    BY <2>1 DEF Names, Messages
  <2>5. Names(hand[p], j) /\ next \in Messages => Names(next, j)
    BY <2>1 DEF Names, Messages
  <2> HIDE DEF next
  <2>6. CASE Names(hand[p], j)
    <3>1. NoneWaits(j) /\ NoneHeld(j)' /\ producer[j] = "done" /\ status[j] # "complete"
      BY <1>1, <2>1, <2>6, ReporterDropped
    <3>2. CASE UNCHANGED waiting
      <4>1. Silent(j)'
        BY <3>1, <3>2 DEF Silent, NoneWaits
      <4> QED
        BY <2>1, <3>1, <4>1 DEF OneReporter
    <3>3. CASE FailAndRetry(p) /\ Push(next)
      <4>1. Waits(j)'
        BY <2>3, <2>5, <2>6, <3>1, <3>3, ReporterPushed
      <4>2. status'[j] # "complete"
        BY <1>1, <3>1, <3>3 DEF FailAndRetry, Report, SetStatus
      <4> QED
        BY <2>1, <3>1, <4>1, <4>2 DEF OneReporter
    <3> QED
      BY <2>2, <3>2, <3>3 DEF next
  <2>7. CASE ~Names(hand[p], j)
    <3>1. status'[j] = status[j]
      BY <1>1, <1>7, <2>1, <2>7
      DEF EndsHandler, Succeed, FailAndRetry, RetryLost, FailForGood, Report,
          SetStatus, Names
    <3>2. \A q \in Processes : Names(hand'[q], j) <=> Names(hand[q], j)
      BY <1>1, <1>2, <2>1, <2>7
    <3>3. \A n \in Messages : Names(n, j) => waiting'[n] = waiting[n]
      BY <2>2, <2>3, <2>4, <2>7, SilentPush DEF next
    <3> QED
      BY <1>1, <2>1, <3>1, <3>2, <3>3, NothingMoves DEF OneReporter
  <2> QED
    BY <2>6, <2>7
<1>8. ASSUME NEW p \in Processes, Crash(p) PROVE OneReporter(j)'
  <2>1. /\ hand' = [hand EXCEPT ![p] = None]
        /\ UNCHANGED <<waiting, producer, status>>
    BY <1>8 DEF Crash, rows
  <2>2. CASE Names(hand[p], j)
    <3>1. NoneWaits(j) /\ NoneHeld(j)' /\ producer[j] = "done" /\ status[j] # "complete"
      BY <1>1, <2>1, <2>2, ReporterDropped
    <3> QED
      BY <2>1, <3>1 DEF OneReporter, Silent, NoneWaits
  <2>3. CASE ~Names(hand[p], j)
    <3>1. \A q \in Processes : Names(hand'[q], j) <=> Names(hand[q], j)
      BY <1>1, <1>2, <2>1, <2>3
    <3> QED
      BY <1>1, <2>1, <3>1, NothingMoves DEF OneReporter
  <2> QED
    BY <2>2, <2>3
<1>9. ASSUME NEW p \in Processes, NEW S \in SUBSET Jobs,
             FindOrphanedJobs(p, S) \/ FindStuckRunningJobs(p, S)
      PROVE  OneReporter(j)'
  <2>1. UNCHANGED <<waiting, hand, producer, status>>
    BY <1>9 DEF FindOrphanedJobs, FindStuckRunningJobs, rows
  <2> QED
    BY <1>1, <2>1, NothingMoves DEF OneReporter
<1>10. ASSUME NEW p \in Processes, EnqueueOrphan(p) \/ EnqueueStuck(p)
       PROVE  OneReporter(j)'
  <2>1. PICK k \in Jobs : Push(Message(k, FALSE, 0))
    BY <1>1, <1>10 DEF EnqueueOrphan, EnqueueStuck, Repost, Typed, CurrentIsToDo
  <2>2. UNCHANGED <<hand, producer, status>>
    BY <1>10 DEF EnqueueOrphan, EnqueueStuck, rows
  <2>3. Message(k, FALSE, 0) \in Messages /\ ~Names(Message(k, FALSE, 0), j)
    BY MessageType DEF Names, Message
  <2>4. \A n \in Messages : Names(n, j) => waiting'[n] = waiting[n]
    BY <2>1, <2>3, SilentPush
  <2> QED
    BY <1>1, <2>2, <2>4, NothingMoves DEF OneReporter
<1>11. ASSUME NEW p \in Processes,
              ResetJobToQueued(p) \/ Mark(p) \/ RowFails(p) \/ EndPass(p)
       PROVE  OneReporter(j)'
  <2>1. /\ UNCHANGED <<waiting, hand, producer>>
        /\ status'[j] = status[j] \/ status'[j] # "complete"
    BY <1>1, <1>11
    DEF ResetJobToQueued, Mark, MarkJobRecovered, RowFails, EndPass, SetStatus, rows
  <2> QED
    BY <1>1, <2>1, NothingMoves DEF OneReporter
<1>12. ASSUME NEW S \in SUBSET Jobs, RecoverStuckJobs(S) PROVE OneReporter(j)'
  <2>1. /\ UNCHANGED <<waiting, hand, producer>>
        /\ status'[j] = status[j] \/ status'[j] # "complete"
    BY <1>1, <1>12 DEF RecoverStuckJobs
  <2> QED
    BY <1>1, <2>1, NothingMoves DEF OneReporter
<1>13. CASE UNCHANGED vars
  BY <1>1, <1>13, NothingMoves DEF vars, rows, OneReporter
<1> QED
  BY <1>3, <1>4, <1>5, <1>6, <1>7, <1>8, <1>9, <1>10, <1>11, <1>12, <1>13
  DEF Next, RunnerWorks

LEMMA ReportingImpliesSingle == Typed /\ Reporting => SingleReporter
<1> SUFFICES ASSUME Typed, Reporting PROVE SingleReporter
  OBVIOUS
<1> DEFINE Holders(m) == {p \in Processes : hand[p] = m}
           Copies(m) == waiting[m] + Cardinality(Holders(m))
           Naming(j) == {m \in Messages : m.job = j /\ m.id /\ Copies(m) > 0}
<1>1. ASSUME NEW j \in Jobs
      PROVE  \/ Naming(j) = {}
             \/ \E m : Naming(j) = {m} /\ Copies(m) = 1 /\ producer[j] = "done"
  <2>1. /\ Silent(j) \/ Waits(j) \/ Held(j)
        /\ producer[j] # "done" => Silent(j)
    BY DEF Reporting, OneReporter
  <2>2. ASSUME NoneHeld(j), NEW m \in Messages, Names(m, j)
        PROVE  Cardinality(Holders(m)) = 0
    <3>1. Holders(m) = {}
      BY <2>2 DEF NoneHeld
    <3> QED
      BY <3>1, FS_EmptySet
  <2>3. CASE Silent(j)
    <3>1. \A m \in Messages : Names(m, j) => Copies(m) = 0
      BY <2>2, <2>3 DEF Silent, NoneWaits
    <3> QED
      BY <3>1 DEF Names
  <2>4. CASE Waits(j)
    <3>1. PICK m \in Messages :
            /\ Names(m, j) /\ waiting[m] = 1
            /\ \A n \in Messages \ {m} : Names(n, j) => waiting[n] = 0
      BY <2>4 DEF Waits
    <3>2. Copies(m) = 1 /\ \A n \in Messages \ {m} : Names(n, j) => Copies(n) = 0
      BY <2>2, <2>4, <3>1 DEF Waits
    <3>3. Naming(j) = {m}
      BY <3>1, <3>2 DEF Names
    <3>4. producer[j] = "done"
      BY <2>1, <3>1 DEF Silent, NoneWaits
    <3> QED
      BY <3>2, <3>3, <3>4
  <2>5. CASE Held(j)
    <3>1. PICK p \in Processes :
            Names(hand[p], j) /\ \A q \in Processes \ {p} : ~Names(hand[q], j)
      BY <2>5 DEF Held
    <3>2. PICK m \in Messages : m = hand[p]
      BY <3>1 DEF Names
    <3>3. Holders(m) = {p} /\ \A n \in Messages \ {m} : Names(n, j) => Holders(n) = {}
      BY <3>1, <3>2
    <3>4. m \in Messages /\ \A n \in Messages : Names(n, j) => waiting[n] = 0
      BY <2>5 DEF Held, NoneWaits
    <3>5. Cardinality({p}) = 1 /\ Cardinality({}) = 0
      BY FS_Singleton, FS_EmptySet
    <3>6. Names(m, j) /\ Copies(m) = 1
      BY <3>1, <3>2, <3>3, <3>4, <3>5
    <3>7. ASSUME NEW n \in Messages \ {m}, Names(n, j) PROVE Copies(n) = 0
      BY <3>3, <3>4, <3>5, <3>7
    <3>8. Naming(j) = {m}
      BY <3>6, <3>7 DEF Names
    <3>9. producer[j] = "done"
      BY <2>1, <3>1 DEF Silent, NoneHeld
    <3> QED
      BY <3>6, <3>8, <3>9
  <2> QED
    BY <2>1, <2>3, <2>4, <2>5
<1>2. ASSUME NEW j \in Jobs
      PROVE  /\ \A m \in Naming(j) : Copies(m) = 1 /\ producer[j] = "done"
             /\ Cardinality(Naming(j)) <= 1
  <2> HIDE DEF Naming, Copies
  <2>1. CASE Naming(j) = {}
    BY <2>1, FS_EmptySet
  <2>2. ASSUME NEW m, Naming(j) = {m}, Copies(m) = 1, producer[j] = "done"
        PROVE  /\ \A n \in Naming(j) : Copies(n) = 1 /\ producer[j] = "done"
               /\ Cardinality(Naming(j)) <= 1
    <3>1. Cardinality({m}) = 1
      BY FS_Singleton
    <3> QED
      BY <2>2, <3>1
  <2> QED
    BY <1>1, <2>1, <2>2
<1> QED
  BY <1>2 DEF SingleReporter

\* However recovery duplicates messages, at most one of them reports to the row.
THEOREM OneReporterPerJob == Spec => []SingleReporter
<1>1. Spec => [](Typed /\ Reporting)
  BY TypedInit, TypedNext, ReportingInit, ReportingNext, PTL DEF Spec
<1> QED
  BY <1>1, ReportingImpliesSingle, PTL

LEMMA CompleteStays ==
  ASSUME Typed, Reporting, [Next]_vars, NEW j \in Jobs, status[j] = "complete"
  PROVE  status'[j] # "error"
<1>1. /\ NoneHeld(j) /\ producer[j] = "done"
      /\ status \in [Jobs -> Statuses]
      /\ hand \in [Processes -> Messages \cup {None}]
  BY DEF Reporting, OneReporter, Silent, Typed, TypeOK
<1>2. CASE \E k \in Jobs : InsertRow(k) \/ EndsCreation(k)
  BY <1>1, <1>2 DEF InsertRow, EndsCreation, PushMessage, Abandon, PushFails,
     SetStatus, rows
<1>3. ASSUME NEW p \in Processes, EndsHandler(p) PROVE status'[j] # "error"
  <2>1. hand[p] \in Messages
    BY <1>1, <1>3
    DEF EndsHandler, Succeed, FailAndRetry, RetryLost, FailForGood, EndHandler
  <2>2. ~(hand[p].job = j /\ hand[p].id)
    BY <1>1, <2>1 DEF NoneHeld, Names
  <2> QED
    BY <1>1, <1>3, <2>2
    DEF EndsHandler, Succeed, FailAndRetry, RetryLost, FailForGood, Report, SetStatus
<1>4. CASE \E p \in Processes : Take(p) \/ PopLost(p) \/ Crash(p)
  BY <1>1, <1>4 DEF Take, PopLost, Crash, Report, SetStatus, rows
<1>5. CASE \E p \in Processes : RunnerWorks(p) \/ RowFails(p)
  BY <1>1, <1>5 DEF RunnerWorks, RowFails, EnqueueOrphan, ResetJobToQueued,
     EnqueueStuck, Mark, MarkJobRecovered, EndPass, SetStatus, rows
<1>6. CASE \E p \in Processes, S \in SUBSET Jobs :
             FindOrphanedJobs(p, S) \/ FindStuckRunningJobs(p, S)
  BY <1>6 DEF FindOrphanedJobs, FindStuckRunningJobs, rows
<1>7. CASE \E S \in SUBSET Jobs : RecoverStuckJobs(S)
  BY <1>1, <1>7 DEF RecoverStuckJobs
<1>8. CASE UNCHANGED vars
  BY <1>8 DEF vars, rows
<1> QED
  BY <1>2, <1>3, <1>4, <1>5, <1>6, <1>7, <1>8 DEF Next

\* No late report, and no pass over the table, turns a complete job into a
\* failed one.
THEOREM CompletionStands == Spec => CompleteNotOverturned
<1>1. Spec => [](Typed /\ Reporting)
  BY TypedInit, TypedNext, ReportingInit, ReportingNext, PTL DEF Spec
<1>2. Typed /\ Reporting /\ [Next]_vars
        => [\A j \in Jobs : status[j] = "complete" => status'[j] # "error"]_vars
  BY CompleteStays
<1> QED
  BY <1>1, <1>2, PTL DEF Spec, CompleteNotOverturned
=============================================================================
