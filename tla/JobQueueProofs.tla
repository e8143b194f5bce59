--------------------------- MODULE JobQueueProofs ---------------------------
(***************************************************************************)
(* Proofs about JobQueue, for every set of messages, consumers and job     *)
(* types, every key order and every maxRetries.                            *)
(***************************************************************************)
EXTENDS JobQueue, FiniteSetTheorems, TLAPS

(* What a pop and a push do to the elements of a list. *)

LEMMA AppendElements ==
  ASSUME NEW S, NEW s \in Seq(S), NEW e \in S
  PROVE  /\ Append(s, e) \in Seq(S)
         /\ Len(Append(s, e)) = Len(s) + 1
         /\ \A i \in 1 .. Len(s) : Append(s, e)[i] = s[i]
         /\ Append(s, e)[Len(s) + 1] = e
OBVIOUS

LEMMA ConsElements ==
  ASSUME NEW S, NEW s \in Seq(S), NEW e \in S
  PROVE  /\ <<e>> \o s \in Seq(S)
         /\ Len(<<e>> \o s) = Len(s) + 1
         /\ (<<e>> \o s)[1] = e
         /\ \A i \in 1 .. Len(s) : (<<e>> \o s)[i + 1] = s[i]
OBVIOUS

LEMMA TailElements ==
  ASSUME NEW S, NEW s \in Seq(S), s # <<>>
  PROVE  /\ Tail(s) \in Seq(S)
         /\ Head(s) = s[1]
         /\ Head(s) \in S
         /\ Len(s) > 0
         /\ Len(Tail(s)) = Len(s) - 1
         /\ \A i \in 1 .. Len(Tail(s)) : Tail(s)[i] = s[i + 1]
OBVIOUS

(* TypeOK alone is not inductive: a handler's turn ends with a job only    *)
(* because a consumer that handles has one.                                *)
HandlingHasJob ==
  \A c \in Consumers : phase[c] = "handling" <=> job[c] # NoJob

Typed == TypeOK /\ HandlingHasJob

LEMMA TypedInit == Init => Typed
<1> SUFFICES ASSUME Init PROVE Typed
  OBVIOUS
<1> USE QueueAssumption DEF Init
<1>1. lists \in [JobTypes -> Seq(Entries)]
  OBVIOUS
<1>2. fate \in [Messages -> D!Fates]
  BY DEF D!Fates
<1> QED
  BY <1>1, <1>2 DEF Typed, TypeOK, HandlingHasJob

(* What an action does to the lists: push at either end, or pop. *)

LEMMA EntriesAreEntries ==
  ASSUME NEW m \in Messages, NEW r \in 0 .. maxRetries
  PROVE  /\ Envelope(m, r) \in Entries
         /\ PlainJSON(m) \in Entries
BY QueueAssumption DEF Envelope, PlainJSON, Entries

LEMMA DecodedIsJob ==
  ASSUME NEW e \in Entries
  PROVE  /\ Decode(e) \in Jobs
         /\ Decode(e).msg = e.msg
         /\ e.msg \in Messages
BY QueueAssumption DEF Decode, Entries, Jobs

LEMMA TypedNext == Typed /\ [Next]_vars => Typed'
<1> SUFFICES ASSUME Typed, [Next]_vars PROVE Typed'
  OBVIOUS
<1> USE QueueAssumption DEF Typed, TypeOK, HandlingHasJob, D!Fates, D!Settled
<1>2. ASSUME NEW m \in Messages, Enqueue(m) PROVE Typed'
  <2>1. Append(lists[TypeOf[m]], Envelope(m, 0)) \in Seq(Entries)
    BY EntriesAreEntries
  <2>2. lists' \in [JobTypes -> Seq(Entries)]
    BY <1>2, <2>1 DEF Enqueue, EnqueueWithRetry
  <2> QED
    BY <1>2, <2>2 DEF Enqueue
<1>3. ASSUME NEW m \in Messages, PushFromAPI(m) PROVE Typed'
  <2>1. PlainJSON(m) \in Entries /\ lists[TypeOf[m]] \in Seq(Entries)
    BY EntriesAreEntries
  <2>2. /\ <<PlainJSON(m)>> \o lists[TypeOf[m]] \in Seq(Entries)
        /\ Append(lists[TypeOf[m]], PlainJSON(m)) \in Seq(Entries)
    BY <2>1, AppendElements, ConsElements
  <2>3. lists' \in [JobTypes -> Seq(Entries)]
    BY <1>3, <2>2 DEF PushFromAPI
  <2> QED
    BY <1>3, <2>3 DEF PushFromAPI
<1>4. ASSUME NEW c \in Consumers, BLPop(c) PROVE Typed'
  <2>1. PICK k \in 1 .. Len(Keys[c]) :
          LET t == Keys[c][k]
              next == Decode(Head(lists[t]))
          IN /\ IsFirstNonEmpty(c, k)
             /\ lists' = [lists EXCEPT ![t] = Tail(@)]
             /\ job' = [job EXCEPT ![c] = next]
             /\ calls' = [calls EXCEPT ![next.msg] = @ + 1]
    BY <1>4 DEF BLPop
  <2> DEFINE t == Keys[c][k]
  <2>2. t \in JobTypes /\ lists[t] # <<>>
    BY <2>1 DEF IsFirstNonEmpty
  <2>3. Head(lists[t]) \in Entries /\ Tail(lists[t]) \in Seq(Entries)
    BY <2>2
  <2>4. lists' \in [JobTypes -> Seq(Entries)]
    BY <2>1, <2>2, <2>3
  <2>5. Decode(Head(lists[t])) \in Jobs /\ Decode(Head(lists[t])).msg \in Messages
    BY <2>3, DecodedIsJob DEF Jobs
  <2>6. job' \in [Consumers -> Jobs \cup {NoJob}] /\ job'[c] # NoJob
    BY <2>1, <2>5 DEF Jobs
  <2>7. calls' \in [Messages -> Nat]
    BY <2>1, <2>5
  <2> HIDE DEF t
  <2>8. HandlingHasJob'
    BY <1>4, <2>1, <2>6 DEF BLPop
  <2> QED
    BY <1>4, <2>4, <2>6, <2>7, <2>8 DEF BLPop
<1>5. ASSUME NEW c \in Consumers, HandlerSucceeds(c) PROVE Typed'
  BY <1>5 DEF HandlerSucceeds, EndTurn
<1>6. ASSUME NEW c \in Consumers, Retry(c) PROVE Typed'
  <2>1. /\ job[c].msg \in Messages
        /\ job[c].retry + 1 \in 0 .. maxRetries
    BY <1>6 DEF Retry, EndTurn, Jobs
  <2>2. Append(lists[TypeOf[job[c].msg]], Envelope(job[c].msg, job[c].retry + 1))
          \in Seq(Entries)
    BY <2>1, EntriesAreEntries
  <2>3. lists' \in [JobTypes -> Seq(Entries)]
    BY <1>6, <2>1, <2>2 DEF Retry, EnqueueWithRetry
  <2> QED
    BY <1>6, <2>3 DEF Retry, EndTurn
<1>7. ASSUME NEW c \in Consumers, RetryLost(c) PROVE Typed'
  <2>1. faults' \in 0 .. MaxFaults
    BY <1>7 DEF RetryLost, Fault, CanFault
  <2> QED
    BY <1>7, <2>1 DEF RetryLost, EndTurn
<1>8. ASSUME NEW c \in Consumers, DeadLetter(c) PROVE Typed'
  BY <1>8 DEF DeadLetter, EndTurn
<1>9. ASSUME NEW c \in Consumers, DeadLetterLost(c) PROVE Typed'
  <2>1. faults' \in 0 .. MaxFaults
    BY <1>9 DEF DeadLetterLost, Fault, CanFault
  <2> QED
    BY <1>9, <2>1 DEF DeadLetterLost, EndTurn
<1>10. ASSUME NEW c \in Consumers, Cancel(c) PROVE Typed'
  BY <1>10 DEF Cancel, Fault, CanFault
<1>11. ASSUME NEW c \in Consumers, Return(c) PROVE Typed'
  BY <1>11 DEF Return
<1>12. ASSUME NEW c \in Consumers, Crash(c) PROVE Typed'
  <2>1. fate' \in [Messages -> D!Fates]
    BY <1>12 DEF Crash
  <2> QED
    BY <1>12, <2>1 DEF Crash, Fault, CanFault
<1>13. ASSUME NEW c \in Consumers, ReplyLost(c) PROVE Typed'
  <2>1. PICK k \in 1 .. Len(Keys[c]) :
          LET t == Keys[c][k]
          IN /\ IsFirstNonEmpty(c, k)
             /\ lists' = [lists EXCEPT ![t] = Tail(@)]
             /\ fate' = [fate EXCEPT ![Head(lists[t]).msg] = "lost"]
    BY <1>13 DEF ReplyLost
  <2> DEFINE t == Keys[c][k]
  <2>2. t \in JobTypes /\ lists[t] # <<>>
    BY <2>1 DEF IsFirstNonEmpty
  <2>3. Tail(lists[t]) \in Seq(Entries)
    BY <2>2
  <2>4. lists' \in [JobTypes -> Seq(Entries)]
    BY <2>1, <2>2, <2>3
  <2>5. fate' \in [Messages -> D!Fates]
    BY <2>1
  <2> QED
    BY <1>13, <2>4, <2>5 DEF ReplyLost, Fault, CanFault
<1>14. ASSUME NEW c \in Consumers, Restart(c) PROVE Typed'
  BY <1>14 DEF Restart
<1>15. CASE UNCHANGED vars
  BY <1>15 DEF vars
<1> QED
  BY <1>2, <1>3, <1>4, <1>5, <1>6, <1>7, <1>8, <1>9, <1>10, <1>11, <1>12,
     <1>13, <1>14, <1>15 DEF Next, HandlerFails

\* Every state of the queue is well typed: in particular no retry count ever
\* exceeds maxRetries (redis.go 185-207).
THEOREM TypeCorrect == Spec => []TypeOK
<1>1. Typed => TypeOK
  BY DEF Typed
<1> QED
  BY TypedInit, TypedNext, <1>1, PTL DEF Spec

-----------------------------------------------------------------------------
(***************************************************************************)
(* One copy of each entry.  Placed is SingleCopy in the form the induction *)
(* needs: what is in the lists is summed up by the set Listed, and every   *)
(* step either inserts one message into it or removes one.                 *)
(***************************************************************************)

Listed(ls) == {m \in Messages : \E t \in JobTypes :
                 \E i \in 1 .. Len(ls[t]) : ls[t][i].msg = m}

\* Each message is on its own list, and on it once.
Unique(ls) ==
  \A t \in JobTypes : \A i, j \in 1 .. Len(ls[t]) :
    /\ TypeOf[ls[t][i].msg] = t
    /\ ls[t][i].msg = ls[t][j].msg => i = j

\* The entries of ls carry the retry counts that cs asks for.
Exact(ls, cs) ==
  \A t \in JobTypes : \A i \in 1 .. Len(ls[t]) :
    cs[ls[t][i].msg] = Decode(ls[t][i]).retry

\* The new lists nl are ol with e inserted at position p of the list of m.
Inserted(ol, nl, m, e, p) ==
  LET t == TypeOf[m] IN
  /\ p \in 1 .. Len(ol[t]) + 1
  /\ Len(nl[t]) = Len(ol[t]) + 1
  /\ nl[t][p] = e
  /\ \A i \in 1 .. Len(ol[t]) + 1 :
       /\ i < p => nl[t][i] = ol[t][i]
       /\ i > p => nl[t][i] = ol[t][i - 1]
  /\ \A u \in JobTypes : u # t => nl[u] = ol[u]

\* The new lists nl are ol without the head of the list t.
Popped(ol, nl, t) == nl = [ol EXCEPT ![t] = Tail(@)]

LEMMA AppendInserts ==
  ASSUME NEW ol \in [JobTypes -> Seq(Entries)], NEW m \in Messages,
         NEW e \in Entries,
         NEW nl, nl = [ol EXCEPT ![TypeOf[m]] = Append(@, e)]
  PROVE  Inserted(ol, nl, m, e, Len(ol[TypeOf[m]]) + 1)
<1> DEFINE t == TypeOf[m]
<1>1. t \in JobTypes
  BY QueueAssumption
<1>2. ol[t] \in Seq(Entries) /\ nl[t] = Append(ol[t], e)
  BY <1>1
<1>3. \A u \in JobTypes : u # t => nl[u] = ol[u]
  BY <1>1
<1>4. /\ Len(nl[t]) = Len(ol[t]) + 1
      /\ nl[t][Len(ol[t]) + 1] = e
      /\ \A i \in 1 .. Len(ol[t]) : nl[t][i] = ol[t][i]
      /\ Len(ol[t]) \in Nat
  BY <1>2, AppendElements
<1> HIDE DEF t
<1> QED
  BY <1>3, <1>4 DEF Inserted, t

LEMMA ConsInserts ==
  ASSUME NEW ol \in [JobTypes -> Seq(Entries)], NEW m \in Messages,
         NEW e \in Entries,
         NEW nl, nl = [ol EXCEPT ![TypeOf[m]] = <<e>> \o @]
  PROVE  Inserted(ol, nl, m, e, 1)
<1> DEFINE t == TypeOf[m]
<1>1. t \in JobTypes
  BY QueueAssumption
<1>2. ol[t] \in Seq(Entries) /\ nl[t] = <<e>> \o ol[t]
  BY <1>1
<1>3. \A u \in JobTypes : u # t => nl[u] = ol[u]
  BY <1>1
<1>4. /\ Len(nl[t]) = Len(ol[t]) + 1
      /\ nl[t][1] = e
      /\ \A i \in 1 .. Len(ol[t]) : nl[t][i + 1] = ol[t][i]
      /\ Len(ol[t]) \in Nat
  BY <1>2, ConsElements
<1>5. \A i \in 1 .. Len(ol[t]) + 1 : i > 1 => nl[t][i] = ol[t][i - 1]
  BY <1>4
<1> HIDE DEF t
<1> QED
  BY <1>3, <1>4, <1>5 DEF Inserted, t

LEMMA InsertKeepsUnique ==
  ASSUME NEW ol \in [JobTypes -> Seq(Entries)],
         NEW nl \in [JobTypes -> Seq(Entries)],
         NEW m \in Messages, NEW e \in Entries, e.msg = m, NEW p,
         Inserted(ol, nl, m, e, p), Unique(ol), m \notin Listed(ol)
  PROVE  /\ Unique(nl)
         /\ Listed(nl) = Listed(ol) \cup {m}
         /\ \A cs : Exact(ol, cs) /\ cs[m] = Decode(e).retry => Exact(nl, cs)
<1> DEFINE t == TypeOf[m]
           old(i) == IF i < p THEN i ELSE i - 1
<1>1. /\ t \in JobTypes
      /\ Len(ol[t]) \in Nat
      /\ p \in 1 .. Len(ol[t]) + 1
      /\ Len(nl[t]) = Len(ol[t]) + 1
  BY QueueAssumption DEF Inserted
<1>2. nl[t][p] = e /\ \A u \in JobTypes : u # t => nl[u] = ol[u]
  BY DEF Inserted
<1>3. \A i \in 1 .. Len(nl[t]) :
        i # p => /\ old(i) \in 1 .. Len(ol[t])
                 /\ nl[t][i] = ol[t][old(i)]
  BY <1>1 DEF Inserted
<1>4. \A i \in 1 .. Len(ol[t]) :
        \E j \in 1 .. Len(nl[t]) : nl[t][j] = ol[t][i]
  <2> TAKE i \in 1 .. Len(ol[t])
  <2> DEFINE j == IF i < p THEN i ELSE i + 1
  <2>1. j \in 1 .. Len(nl[t]) /\ j # p /\ old(j) = i
    BY <1>1
  <2> QED
    BY <2>1, <1>3
<1>5. \A u \in JobTypes : \A i \in 1 .. Len(ol[u]) : ol[u][i].msg # m
  BY DEF Listed
<1> HIDE DEF t
<1>6. Unique(nl)
  <2> SUFFICES ASSUME NEW u \in JobTypes,
                      NEW i \in 1 .. Len(nl[u]), NEW j \in 1 .. Len(nl[u])
               PROVE  /\ TypeOf[nl[u][i].msg] = u
                      /\ nl[u][i].msg = nl[u][j].msg => i = j
    BY DEF Unique
  <2>1. CASE u # t
    BY <2>1, <1>2 DEF Unique
  <2>2. CASE u = t
    <3> DEFINE oi == old(i)
               oj == old(j)
    <3>1. i # p => /\ oi \in 1 .. Len(ol[u]) /\ nl[u][i] = ol[u][oi]
                   /\ nl[u][i].msg # m
      BY <2>2, <1>3, <1>5
    <3>2. j # p => /\ oj \in 1 .. Len(ol[u]) /\ nl[u][j] = ol[u][oj]
                   /\ nl[u][j].msg # m
      BY <2>2, <1>3, <1>5
    <3>3. oi = oj /\ i # p /\ j # p => i = j
      BY <2>2, <1>1
    <3>4. nl[u][p].msg = m /\ TypeOf[m] = u
      BY <2>2, <1>2 DEF t
    <3> HIDE DEF oi, oj
    <3>5. CASE i = p
      BY <3>2, <3>4, <3>5
    <3>6. CASE i # p
      BY <3>1, <3>2, <3>3, <3>4, <3>6 DEF Unique
    <3> QED
      BY <3>5, <3>6
  <2> QED
    BY <2>1, <2>2
<1>7. Listed(nl) \subseteq Listed(ol) \cup {m}
  <2> SUFFICES ASSUME NEW x \in Listed(nl), x # m
               PROVE  x \in Listed(ol)
    OBVIOUS
  <2>1. PICK u \in JobTypes : \E i \in 1 .. Len(nl[u]) : nl[u][i].msg = x
    BY DEF Listed
  <2>2. PICK i \in 1 .. Len(nl[u]) : nl[u][i].msg = x
    BY <2>1
  <2>3. \E j \in 1 .. Len(ol[u]) : ol[u][j] = nl[u][i]
    BY <2>2, <1>2, <1>3
  <2> QED
    BY <2>2, <2>3 DEF Listed
<1>8. Listed(ol) \cup {m} \subseteq Listed(nl)
  <2>1. m \in Listed(nl)
    BY <1>1, <1>2 DEF Listed
  <2> SUFFICES ASSUME NEW x \in Listed(ol) PROVE x \in Listed(nl)
    BY <2>1
  <2>2. PICK u \in JobTypes : \E i \in 1 .. Len(ol[u]) : ol[u][i].msg = x
    BY DEF Listed
  <2>3. PICK i \in 1 .. Len(ol[u]) : ol[u][i].msg = x
    BY <2>2
  <2>4. \E j \in 1 .. Len(nl[u]) : nl[u][j] = ol[u][i]
    BY <1>2, <1>4
  <2> QED
    BY <2>3, <2>4 DEF Listed
<1>9. ASSUME NEW cs, Exact(ol, cs), cs[m] = Decode(e).retry
      PROVE  Exact(nl, cs)
  <2> SUFFICES ASSUME NEW u \in JobTypes, NEW i \in 1 .. Len(nl[u])
               PROVE  cs[nl[u][i].msg] = Decode(nl[u][i]).retry
    BY DEF Exact
  <2>1. CASE u # t
    BY <2>1, <1>2, <1>9 DEF Exact
  <2>2. CASE u = t /\ i = p
    BY <2>2, <1>2, <1>9
  <2>3. CASE u = t /\ i # p
    BY <2>3, <1>1, <1>3, <1>9 DEF Exact
  <2> QED
    BY <2>1, <2>2, <2>3
<1> QED
  BY <1>6, <1>7, <1>8, <1>9

LEMMA PopKeepsUnique ==
  ASSUME NEW ol \in [JobTypes -> Seq(Entries)], NEW t \in JobTypes,
         ol[t] # <<>>, Unique(ol),
         NEW nl, Popped(ol, nl, t)
  PROVE  /\ Unique(nl)
         /\ Head(ol[t]).msg \in Listed(ol)
         /\ Listed(nl) = Listed(ol) \ {Head(ol[t]).msg}
         /\ \A cs : Exact(ol, cs) => Exact(nl, cs)
<1>1. /\ Head(ol[t]) = ol[t][1] /\ Head(ol[t]).msg \in Messages
      /\ Len(ol[t]) \in Nat /\ Len(ol[t]) > 0
      /\ Len(nl[t]) = Len(ol[t]) - 1
      /\ \A i \in 1 .. Len(nl[t]) : nl[t][i] = ol[t][i + 1]
  BY TailElements, DecodedIsJob DEF Popped
<1>2. \A u \in JobTypes : u # t => nl[u] = ol[u]
  BY DEF Popped
<1>3. Unique(nl)
  <2> SUFFICES ASSUME NEW u \in JobTypes,
                      NEW i \in 1 .. Len(nl[u]), NEW j \in 1 .. Len(nl[u])
               PROVE  /\ TypeOf[nl[u][i].msg] = u
                      /\ nl[u][i].msg = nl[u][j].msg => i = j
    BY DEF Unique
  <2>1. CASE u # t
    BY <2>1, <1>2 DEF Unique
  <2>2. CASE u = t
    <3>1. /\ i + 1 \in 1 .. Len(ol[u]) /\ j + 1 \in 1 .. Len(ol[u])
          /\ nl[u][i] = ol[u][i + 1] /\ nl[u][j] = ol[u][j + 1]
      BY <2>2, <1>1
    <3>2. /\ TypeOf[nl[u][i].msg] = u
          /\ nl[u][i].msg = nl[u][j].msg => i + 1 = j + 1
      BY <3>1 DEF Unique
    <3> QED
      BY <3>2
  <2> QED
    BY <2>1, <2>2
<1>4. Head(ol[t]).msg \in Listed(ol)
  BY <1>1 DEF Listed
<1>5. Listed(nl) \subseteq Listed(ol) \ {Head(ol[t]).msg}
  <2> SUFFICES ASSUME NEW x \in Listed(nl)
               PROVE  x \in Listed(ol) /\ x # ol[t][1].msg
    BY <1>1
  <2>0. PICK u \in JobTypes : \E i \in 1 .. Len(nl[u]) : nl[u][i].msg = x
    BY DEF Listed
  <2> PICK i \in 1 .. Len(nl[u]) : nl[u][i].msg = x
    BY <2>0
  <2>1. CASE u # t
    <3>1. TypeOf[nl[u][i].msg] = u /\ TypeOf[ol[t][1].msg] = t
      BY <2>1, <1>1, <1>2 DEF Unique
    <3> QED
      BY <3>1, <2>1, <1>2 DEF Listed
  <2>2. CASE u = t
    <3>1. i + 1 \in 1 .. Len(ol[u]) /\ nl[u][i] = ol[u][i + 1] /\ i + 1 # 1
          /\ 1 \in 1 .. Len(ol[u])
      BY <2>2, <1>1
    <3>2. nl[u][i].msg # ol[t][1].msg
      BY <3>1, <2>2 DEF Unique
    <3> QED
      BY <3>1, <3>2 DEF Listed
  <2> QED
    BY <2>1, <2>2
<1>6. Listed(ol) \ {Head(ol[t]).msg} \subseteq Listed(nl)
  <2> SUFFICES ASSUME NEW x \in Listed(ol), x # ol[t][1].msg
               PROVE  x \in Listed(nl)
    BY <1>1
  <2>0. PICK u \in JobTypes : \E i \in 1 .. Len(ol[u]) : ol[u][i].msg = x
    BY DEF Listed
  <2> PICK i \in 1 .. Len(ol[u]) : ol[u][i].msg = x
    BY <2>0
  <2>1. CASE u # t
    BY <2>1, <1>2 DEF Listed
  <2>2. CASE u = t
    <3>1. i - 1 \in 1 .. Len(nl[u]) /\ nl[u][i - 1] = ol[u][i]
      BY <2>2, <1>1
    <3> QED
      BY <3>1 DEF Listed
  <2> QED
    BY <2>1, <2>2
<1>7. ASSUME NEW cs, Exact(ol, cs) PROVE Exact(nl, cs)
  <2> SUFFICES ASSUME NEW u \in JobTypes, NEW i \in 1 .. Len(nl[u])
               PROVE  cs[nl[u][i].msg] = Decode(nl[u][i]).retry
    BY DEF Exact
  <2>1. CASE u # t
    BY <2>1, <1>2, <1>7 DEF Exact
  <2>2. CASE u = t
    <3>1. i + 1 \in 1 .. Len(ol[u]) /\ nl[u][i] = ol[u][i + 1]
      BY <2>2, <1>1
    <3> QED
      BY <3>1, <1>7 DEF Exact
  <2> QED
    BY <2>1, <2>2
<1> QED
  BY <1>3, <1>4, <1>5, <1>6, <1>7

-----------------------------------------------------------------------------
(***************************************************************************)
(* The inductive invariant.                                                *)
(***************************************************************************)

InHand(m) == \E c \in Consumers : job[c] # NoJob /\ job[c].msg = m

Placed ==
  /\ Unique(lists)
  /\ Exact(lists, calls)
  /\ \A c \in Consumers : job[c] # NoJob =>
       /\ fate[job[c].msg] = "pending"
       /\ job[c].msg \notin Listed(lists)
       /\ calls[job[c].msg] = job[c].retry + 1
  /\ \A c, d \in Consumers :
       job[c] # NoJob /\ job[d] # NoJob /\ job[c].msg = job[d].msg => c = d
  /\ \A m \in Listed(lists) : fate[m] = "pending"
  /\ \A m \in Messages : fate[m] = "pending" => m \in Listed(lists) \/ InHand(m)
  /\ \A m \in Messages : fate[m] = "absent" => calls[m] = 0

(* Each fault pays for one loss: one that has happened, or that of the job *)
(* a consumer holds when it is shut down, which can no longer be pushed.   *)
Lost == {m \in Messages : fate[m] = "lost"}
Doomed == {c \in Consumers : cancelled[c] /\ job[c] # NoJob}

LossesCounted ==
  /\ IsFiniteSet(Lost) /\ IsFiniteSet(Doomed)
  /\ Cardinality(Lost) + Cardinality(Doomed) <= faults

IInv == Typed /\ Placed /\ LossesCounted

LEMMA IInvInit == Init => IInv
<1> SUFFICES ASSUME Init PROVE IInv
  OBVIOUS
<1>1. Typed
  BY TypedInit
<1>2. Listed(lists) = {}
  BY DEF Init, Listed
<1>3. Unique(lists) /\ Exact(lists, calls)
  BY DEF Init, Unique, Exact
<1>4. Placed
  BY <1>2, <1>3 DEF Init, Placed, InHand
<1>5. LossesCounted
  <2>1. Lost = {} /\ Doomed = {} /\ faults = 0
    BY DEF Init, Lost, Doomed
  <2> QED
    BY <2>1, FS_EmptySet DEF LossesCounted
<1> QED
  BY <1>1, <1>4, <1>5 DEF IInv

LEMMA JobInHand ==
  ASSUME Typed, NEW c \in Consumers, job[c] # NoJob
  PROVE  /\ job[c].msg \in Messages
         /\ job[c].retry \in 0 .. maxRetries
BY DEF Typed, TypeOK, Jobs

\* A producer's push: the message is new, and lands in the lists.
LEMMA PushPlaced ==
  ASSUME Typed, Placed, Typed',
         NEW m \in Messages, fate[m] = "absent",
         fate' = [fate EXCEPT ![m] = "pending"],
         NEW e \in Entries, e.msg = m, Decode(e).retry = 0,
         NEW p, Inserted(lists, lists', m, e, p),
         UNCHANGED <<job, calls>>
  PROVE  Placed'
<1>1. m \notin Listed(lists) /\ ~InHand(m)
  BY DEF Placed, InHand
<1>2. calls[m] = 0
  BY DEF Placed
<1>0. /\ lists \in [JobTypes -> Seq(Entries)]
      /\ lists' \in [JobTypes -> Seq(Entries)]
  BY DEF Typed, TypeOK
<1>3. /\ Unique(lists') /\ Exact(lists', calls)
      /\ Listed(lists') = Listed(lists) \cup {m}
  <2>1. Unique(lists) /\ Exact(lists, calls)
    BY DEF Placed
  <2>2. calls[m] = Decode(e).retry
    BY <1>2
  <2> QED
    BY <1>0, <1>1, <2>1, <2>2, InsertKeepsUnique
<1>4. \A n \in Messages : fate'[n] = IF n = m THEN "pending" ELSE fate[n]
  BY DEF Typed, TypeOK
<1>5. \A n \in Listed(lists) : n \in Messages
  BY DEF Listed
<1>6. \A c \in Consumers : job[c] # NoJob =>
        job[c].msg \in Messages /\ job[c].msg # m
  BY <1>1, JobInHand DEF InHand
<1> QED
  BY <1>1, <1>3, <1>4, <1>5, <1>6 DEF Placed, InHand

\* The end of a turn that leaves the lists alone.
LEMMA SettlePlaced ==
  ASSUME Typed, Placed, NEW c \in Consumers,
         NEW f \in D!Settled, EndTurn(c, f),
         UNCHANGED <<lists, calls>>
  PROVE  Placed'
<1>1. job[c] # NoJob /\ job[c].msg \in Messages
  BY JobInHand DEF EndTurn, Typed, HandlingHasJob
<1> DEFINE m == job[c].msg
<1>2. \A n \in Messages : fate'[n] = IF n = m THEN f ELSE fate[n]
  BY DEF EndTurn, Typed, TypeOK
<1>3. f # "pending" /\ f # "absent"
  BY DEF D!Settled
<1>4. \A d \in Consumers : job'[d] = IF d = c THEN NoJob ELSE job[d]
  BY DEF EndTurn, Typed, TypeOK
<1>5. \A d \in Consumers : job[d] # NoJob => job[d].msg \in Messages
  BY JobInHand
<1>6. \A n \in Listed(lists) : n \in Messages
  BY DEF Listed
<1>7. m \notin Listed(lists)
  BY <1>1 DEF Placed
<1> HIDE DEF m
<1>8. \A d \in Consumers : d # c /\ job[d] # NoJob => job[d].msg # m
  BY <1>1 DEF Placed, m
<1>9. \A n \in Messages : fate'[n] = "pending" =>
        n \in Listed(lists) \/ InHand(n)'
  BY <1>1, <1>2, <1>3, <1>4 DEF Placed, InHand, m
<1> QED
  BY <1>1, <1>2, <1>3, <1>4, <1>5, <1>6, <1>7, <1>8, <1>9 DEF Placed

\* BLPOP moves the head of a list into the hands of the consumer.
LEMMA BLPopPlaced ==
  ASSUME Typed, Placed, NEW c \in Consumers, BLPop(c)
  PROVE  Placed'
<1>1. PICK k \in 1 .. Len(Keys[c]) :
        LET t == Keys[c][k]
            next == Decode(Head(lists[t]))
        IN /\ IsFirstNonEmpty(c, k)
           /\ lists' = [lists EXCEPT ![t] = Tail(@)]
           /\ job' = [job EXCEPT ![c] = next]
           /\ calls' = [calls EXCEPT ![next.msg] = @ + 1]
  BY DEF BLPop
<1> DEFINE t == Keys[c][k]
           m == Head(lists[t]).msg
           next == Decode(Head(lists[t]))
<1>2. t \in JobTypes /\ lists[t] # <<>> /\ lists \in [JobTypes -> Seq(Entries)]
  <2>1. Keys[c] \in Seq(JobTypes)
    BY QueueAssumption
  <2>2. t \in JobTypes
    BY <2>1
  <2>3. lists[t] # <<>>
    BY <1>1 DEF IsFirstNonEmpty
  <2> QED
    BY <2>2, <2>3 DEF Typed, TypeOK
<1>3. /\ Head(lists[t]) \in Entries /\ Head(lists[t]) = lists[t][1]
      /\ Len(lists[t]) > 0 /\ Len(lists[t]) \in Nat
  BY <1>2, TailElements
<1>4. next \in Jobs /\ next.msg = m /\ m \in Messages /\ next # NoJob
  BY <1>3, DecodedIsJob, QueueAssumption DEF Jobs
<1>5. /\ Unique(lists')
      /\ m \in Listed(lists)
      /\ Listed(lists') = Listed(lists) \ {m}
      /\ Exact(lists', calls)
  <2>1. Unique(lists) /\ Exact(lists, calls)
    BY DEF Placed
  <2>2. Popped(lists, lists', t)
    BY <1>1 DEF Popped
  <2> HIDE DEF t
  <2>3. /\ Unique(lists')
        /\ Head(lists[t]).msg \in Listed(lists)
        /\ Listed(lists') = Listed(lists) \ {Head(lists[t]).msg}
        /\ \A cs : Exact(lists, cs) => Exact(lists', cs)
    BY <1>2, <2>1, <2>2, PopKeepsUnique
  <2>4. Exact(lists', calls)
    BY <2>1, <2>3
  <2> QED
    BY <2>3, <2>4 DEF m
<1>6. calls[m] = next.retry
  BY <1>2, <1>3 DEF Placed, Exact
<1>7. fate[m] = "pending" /\ ~InHand(m) /\ fate' = fate
  BY <1>5 DEF Placed, InHand, BLPop
<1>8. \A n \in Messages : calls'[n] = IF n = m THEN calls[n] + 1 ELSE calls[n]
  BY <1>1, <1>4 DEF Typed, TypeOK
<1>9. \A d \in Consumers : job'[d] = IF d = c THEN next ELSE job[d]
  BY <1>1 DEF Typed, TypeOK
<1>10. \A d \in Consumers : job[d] # NoJob =>
         job[d].msg \in Messages /\ job[d].msg # m
  BY <1>7, JobInHand DEF InHand
<1>11. \A u \in JobTypes : \A i \in 1 .. Len(lists'[u]) :
         lists'[u][i].msg \in Listed(lists')
  <2>1. lists' \in [JobTypes -> Seq(Entries)]
    BY <1>1, <1>2, TailElements
  <2> QED
    BY <2>1, DecodedIsJob DEF Listed
<1>12. job[c] = NoJob
  BY DEF BLPop, Typed, HandlingHasJob
<1> HIDE DEF t, m, next
<1>13. \A n \in Listed(lists) : n \in Messages
  BY DEF Listed
<1>14. Exact(lists', calls')
  BY <1>5, <1>8, <1>11, <1>13 DEF Exact
<1>15. \A n \in Messages : fate'[n] = "pending" =>
         n \in Listed(lists') \/ InHand(n)'
  BY <1>4, <1>5, <1>7, <1>9, <1>12 DEF Placed, InHand
<1>16. \A d \in Consumers : job'[d] # NoJob =>
         /\ fate'[job'[d].msg] = "pending"
         /\ job'[d].msg \notin Listed(lists')
         /\ calls'[job'[d].msg] = job'[d].retry + 1
  BY <1>4, <1>5, <1>6, <1>7, <1>8, <1>9, <1>10 DEF Placed
<1>17. \A n \in Messages : fate'[n] = "absent" => calls'[n] = 0
  BY <1>7, <1>8 DEF Placed
<1>18. \A d, b \in Consumers :
         job'[d] # NoJob /\ job'[b] # NoJob /\ job'[d].msg = job'[b].msg => d = b
  BY <1>4, <1>9, <1>10 DEF Placed
<1>19. \A n \in Listed(lists') : fate'[n] = "pending"
  BY <1>5, <1>7 DEF Placed
<1> QED
  BY <1>5, <1>14, <1>15, <1>16, <1>17, <1>18, <1>19 DEF Placed

\* A failed job goes back to its list: out of the hands, into the lists.
LEMMA RetryPlaced ==
  ASSUME Typed, Placed, Typed', NEW c \in Consumers, Retry(c)
  PROVE  Placed'
<1> DEFINE m == job[c].msg
           e == Envelope(m, job[c].retry + 1)
<1>1. job[c] # NoJob /\ m \in Messages /\ job[c].retry + 1 \in 0 .. maxRetries
  <2>1. job[c] # NoJob /\ job[c].retry < maxRetries
    BY DEF Retry, EndTurn, Typed, HandlingHasJob
  <2>2. m \in Messages /\ job[c].retry \in 0 .. maxRetries
    BY <2>1, JobInHand
  <2> QED
    BY <2>1, <2>2, QueueAssumption
<1>2. e \in Entries /\ e.msg = m /\ Decode(e).retry = job[c].retry + 1
  BY <1>1, EntriesAreEntries DEF Envelope, Decode
<1>3. /\ lists \in [JobTypes -> Seq(Entries)]
      /\ lists' \in [JobTypes -> Seq(Entries)]
  BY DEF Typed, TypeOK
<1>4. Inserted(lists, lists', m, e, Len(lists[TypeOf[m]]) + 1)
  BY <1>1, <1>2, <1>3, AppendInserts DEF Retry, EnqueueWithRetry
<1>5. m \notin Listed(lists) /\ calls[m] = job[c].retry + 1
  BY <1>1 DEF Placed
<1>6. /\ Unique(lists') /\ Exact(lists', calls)
      /\ Listed(lists') = Listed(lists) \cup {m}
  <2>1. Unique(lists) /\ Exact(lists, calls)
    BY DEF Placed
  <2>2. m \in Messages /\ e \in Entries /\ e.msg = m /\ calls[m] = Decode(e).retry
    BY <1>1, <1>2, <1>5
  <2>3. m \notin Listed(lists)
    BY <1>5
  <2>4. \E p : Inserted(lists, lists', m, e, p)
    BY <1>4
  <2> HIDE DEF m, e
  <2> QED
    BY <1>3, <2>1, <2>2, <2>3, <2>4, InsertKeepsUnique
<1>7. fate' = fate /\ calls' = calls
  <2>1. fate[m] = "pending"
    BY <1>1 DEF Placed
  <2> QED
    BY <1>1, <2>1 DEF Retry, EndTurn, Typed, TypeOK
<1>8. \A d \in Consumers : job'[d] = IF d = c THEN NoJob ELSE job[d]
  BY DEF Retry, EndTurn, Typed, TypeOK
<1>9. \A d \in Consumers : d # c /\ job[d] # NoJob => job[d].msg # m
  BY <1>1 DEF Placed
<1>10. fate[m] = "pending"
  BY <1>1 DEF Placed
<1>11. \A n \in Messages : fate'[n] = "pending" =>
         n \in Listed(lists') \/ InHand(n)'
  BY <1>6, <1>7, <1>8 DEF Placed, InHand
<1> HIDE DEF m, e
<1> QED
  BY <1>6, <1>7, <1>8, <1>9, <1>10, <1>11 DEF Placed

\* A crash takes the job in hand, if there is one, out of the story.
LEMMA CrashPlaced ==
  ASSUME Typed, Placed, NEW c \in Consumers, Crash(c)
  PROVE  Placed'
<1>1. \A n \in Messages :
        fate'[n] = IF job[c] # NoJob /\ job[c].msg = n THEN "lost" ELSE fate[n]
  BY DEF Crash
<1>2. \A d \in Consumers : job'[d] = IF d = c THEN NoJob ELSE job[d]
  BY DEF Crash, Typed, TypeOK
<1>3. \A d \in Consumers : job[d] # NoJob => job[d].msg \in Messages
  BY JobInHand
<1>4. \A n \in Listed(lists) : n \in Messages
  BY DEF Listed
<1>5. lists' = lists /\ calls' = calls
  BY DEF Crash
<1>6. \A d \in Consumers : d # c /\ job[c] # NoJob /\ job[d] # NoJob =>
        job[d].msg # job[c].msg
  BY DEF Placed
<1>7. \A n \in Messages : fate'[n] = "pending" =>
        n \in Listed(lists') \/ InHand(n)'
  BY <1>1, <1>2, <1>5 DEF Placed, InHand
<1>8. \A n \in Listed(lists') : fate'[n] = "pending"
  BY <1>1, <1>4, <1>5 DEF Placed
<1>9. \A d \in Consumers : job'[d] # NoJob =>
        /\ fate'[job'[d].msg] = "pending"
        /\ job'[d].msg \notin Listed(lists')
        /\ calls'[job'[d].msg] = job'[d].retry + 1
  BY <1>1, <1>2, <1>3, <1>5, <1>6 DEF Placed
<1> QED
  BY <1>1, <1>2, <1>5, <1>7, <1>8, <1>9 DEF Placed

\* A lost reply takes the head of a list out of the story.
LEMMA ReplyLostPlaced ==
  ASSUME Typed, Placed, NEW c \in Consumers, ReplyLost(c)
  PROVE  Placed'
<1>1. PICK k \in 1 .. Len(Keys[c]) :
        LET t == Keys[c][k]
        IN /\ IsFirstNonEmpty(c, k)
           /\ lists' = [lists EXCEPT ![t] = Tail(@)]
           /\ fate' = [fate EXCEPT ![Head(lists[t]).msg] = "lost"]
  BY DEF ReplyLost
<1> DEFINE t == Keys[c][k]
           m == Head(lists[t]).msg
<1>2. t \in JobTypes /\ lists[t] # <<>> /\ lists \in [JobTypes -> Seq(Entries)]
  <2>1. Keys[c] \in Seq(JobTypes)
    BY QueueAssumption
  <2>2. t \in JobTypes
    BY <2>1
  <2>3. lists[t] # <<>>
    BY <1>1 DEF IsFirstNonEmpty
  <2> QED
    BY <2>2, <2>3 DEF Typed, TypeOK
<1>3. Popped(lists, lists', t) /\ UNCHANGED <<job, calls>>
  BY <1>1 DEF Popped, ReplyLost
<1>4. \A n \in Messages : fate'[n] = IF n = m THEN "lost" ELSE fate[n]
  BY <1>1 DEF Typed, TypeOK
<1> HIDE DEF t
<1>5. /\ Unique(lists')
      /\ m \in Listed(lists)
      /\ Listed(lists') = Listed(lists) \ {m}
      /\ Exact(lists', calls)
  <2>1. Unique(lists) /\ Exact(lists, calls)
    BY DEF Placed
  <2>2. /\ Unique(lists')
        /\ Head(lists[t]).msg \in Listed(lists)
        /\ Listed(lists') = Listed(lists) \ {Head(lists[t]).msg}
        /\ \A cs : Exact(lists, cs) => Exact(lists', cs)
    BY <1>2, <1>3, <2>1, PopKeepsUnique
  <2>3. Exact(lists', calls)
    BY <2>1, <2>2
  <2> QED
    BY <2>2, <2>3 DEF m
<1> HIDE DEF m
<1>6. \A d \in Consumers : job[d] # NoJob =>
        job[d].msg \in Messages /\ job[d].msg # m
  BY <1>5, JobInHand DEF Placed
<1>7. \A n \in Listed(lists) : n \in Messages
  BY DEF Listed
<1>8. \A n \in Messages : fate'[n] = "pending" =>
        n \in Listed(lists') \/ InHand(n)'
  BY <1>3, <1>4, <1>5 DEF Placed, InHand
<1> QED
  BY <1>3, <1>4, <1>5, <1>6, <1>7, <1>8 DEF Placed

\* OneLossPerFault is inductive once what is doomed counts as lost.
\* What a step may do to losses S and doomed jobs T: it is free to keep them or
\* to let go of a doomed job, which may be lost; anything else costs a fault.
PaidStep(S, T, n, m, c, S2, T2, n2) ==
  \/ n2 = n /\ S2 = S /\ T2 \in {T, T \ {c}}
  \/ n2 = n /\ S2 = S \cup {m} /\ c \in T /\ T2 = T \ {c}
  \/ n2 = n + 1 /\ S2 \in {S, S \cup {m}} /\ T2 \in {T, T \ {c}}
  \/ n2 = n + 1 /\ S2 = S /\ T2 = T \cup {c}

LEMMA PaidFor ==
  ASSUME NEW S, NEW T, NEW n \in Nat, IsFiniteSet(S), IsFiniteSet(T),
         Cardinality(S) + Cardinality(T) <= n,
         NEW m, NEW c, NEW S2, NEW T2, NEW n2,
         PaidStep(S, T, n, m, c, S2, T2, n2)
  PROVE  /\ IsFiniteSet(S2) /\ IsFiniteSet(T2)
         /\ Cardinality(S2) + Cardinality(T2) <= n2
<1>1. Cardinality(S) \in Nat /\ Cardinality(T) \in Nat
  BY FS_CardinalityType
<1>2. /\ IsFiniteSet(S \cup {m})
      /\ Cardinality(S \cup {m}) \in {Cardinality(S), Cardinality(S) + 1}
  BY FS_AddElement
<1>3. /\ IsFiniteSet(T \cup {c})
      /\ Cardinality(T \cup {c}) \in {Cardinality(T), Cardinality(T) + 1}
  BY FS_AddElement
<1>4. /\ IsFiniteSet(T \ {c})
      /\ Cardinality(T \ {c}) = IF c \in T THEN Cardinality(T) - 1 ELSE Cardinality(T)
  BY FS_RemoveElement
<1>5. Cardinality(T2) \in Nat /\ IsFiniteSet(T2)
  BY <1>3, <1>4, FS_CardinalityType DEF PaidStep
<1>6. CASE T2 = T \ {c}
  <2>1. Cardinality(T2) = IF c \in T THEN Cardinality(T) - 1 ELSE Cardinality(T)
    BY <1>4, <1>6
  <2> QED
    BY <1>1, <1>2, <1>4, <1>5, <1>6, <2>1 DEF PaidStep
<1>7. CASE T2 # T \ {c}
  <2>1. CASE T2 = T
    BY <1>1, <1>2, <1>7, <2>1 DEF PaidStep
  <2>2. CASE T2 # T
    <3>1. n2 = n + 1 /\ S2 = S /\ T2 = T \cup {c}
      BY <1>7, <2>2 DEF PaidStep
    <3> QED
      BY <1>1, <1>3, <3>1
  <2> QED
    BY <2>1, <2>2
<1> QED
  BY <1>6, <1>7

LEMMA LossesPaidFor ==
  ASSUME LossesCounted, faults \in Nat, NEW m, NEW c,
         \/ /\ faults' = faults /\ Lost' = Lost
            /\ Doomed' \in {Doomed, Doomed \ {c}}
         \/ /\ faults' = faults /\ Lost' = Lost \cup {m}
            /\ c \in Doomed /\ Doomed' = Doomed \ {c}
         \/ /\ faults' = faults + 1 /\ Lost' \in {Lost, Lost \cup {m}}
            /\ Doomed' \in {Doomed, Doomed \ {c}}
         \/ /\ faults' = faults + 1 /\ Lost' = Lost /\ Doomed' = Doomed \cup {c}
  PROVE  LossesCounted'
<1>1. PICK S, T, n : S = Lost /\ T = Doomed /\ n = faults
  OBVIOUS
<1>2. PICK S2, T2, n2 : S2 = Lost' /\ T2 = Doomed' /\ n2 = faults'
  OBVIOUS
<1>3. IsFiniteSet(S) /\ IsFiniteSet(T) /\ Cardinality(S) + Cardinality(T) <= n
  BY <1>1 DEF LossesCounted
<1>4. /\ IsFiniteSet(S2) /\ IsFiniteSet(T2)
      /\ Cardinality(S2) + Cardinality(T2) <= n2
  <2>1. PaidStep(S, T, n, m, c, S2, T2, n2)
    BY <1>1, <1>2 DEF PaidStep
  <2>2. n \in Nat
    BY <1>1
  <2> QED
    BY <1>3, <2>1, <2>2, PaidFor
<1> QED
  BY <1>2, <1>4 DEF LossesCounted

\* The end of a turn: the job is no longer in hand, and is lost if it says so.
LEMMA TurnLosses ==
  ASSUME Typed, Placed, NEW c \in Consumers, NEW f \in D!Fates, EndTurn(c, f),
         UNCHANGED cancelled
  PROVE  /\ Lost' = IF f = "lost" THEN Lost \cup {job[c].msg} ELSE Lost
         /\ Doomed' = Doomed \ {c}
         /\ cancelled[c] => c \in Doomed
<1>1. job[c] # NoJob /\ job[c].msg \in Messages /\ fate[job[c].msg] = "pending"
  BY JobInHand DEF EndTurn, Typed, HandlingHasJob, Placed
<1>2. fate' = [fate EXCEPT ![job[c].msg] = f] /\ job' = [job EXCEPT ![c] = NoJob]
  BY DEF EndTurn
<1>3. Lost' = IF f = "lost" THEN Lost \cup {job[c].msg} ELSE Lost
  BY <1>1, <1>2 DEF Lost, Typed, TypeOK
<1>4. Doomed' = Doomed \ {c}
  BY <1>2 DEF Doomed, Typed, TypeOK
<1> QED
  BY <1>1, <1>3, <1>4 DEF Doomed

LEMMA LossesCountedNext ==
  ASSUME Typed, Placed, LossesCounted, [Next]_vars
  PROVE  LossesCounted'
<1>0. faults \in Nat
  BY QueueAssumption DEF Typed, TypeOK
<1>1. ASSUME NEW m \in Messages, Enqueue(m) \/ PushFromAPI(m)
      PROVE  LossesCounted'
  <2>1. Lost' = Lost
    BY <1>1 DEF Enqueue, PushFromAPI, Lost, Typed, TypeOK
  <2>2. Doomed' = Doomed /\ faults' = faults
    BY <1>1 DEF Enqueue, PushFromAPI, Doomed
  <2> QED
    BY <1>0, <2>1, <2>2, LossesPaidFor
<1>2. ASSUME NEW c \in Consumers, BLPop(c) PROVE LossesCounted'
  <2>1. Lost' = Lost /\ faults' = faults
    BY <1>2 DEF BLPop, Lost
  <2>2. Doomed' = Doomed
    <3>1. \A d \in Consumers : d # c => job'[d] = job[d]
      BY <1>2 DEF BLPop, Typed, TypeOK
    <3>2. ~cancelled[c] /\ cancelled' = cancelled
      BY <1>2 DEF BLPop
    <3> QED
      BY <3>1, <3>2 DEF Doomed
  <2> QED
    BY <1>0, <2>1, <2>2, LossesPaidFor
<1>3. ASSUME NEW c \in Consumers, HandlerSucceeds(c) \/ DeadLetter(c) \/ Retry(c)
      PROVE  LossesCounted'
  <2>1. PICK f \in {"ok", "dead", "pending"} : EndTurn(c, f)
    BY <1>3 DEF HandlerSucceeds, DeadLetter, Retry
  <2>2. UNCHANGED <<cancelled, faults>>
    BY <1>3 DEF HandlerSucceeds, DeadLetter, Retry
  <2>3. Lost' = Lost /\ Doomed' = Doomed \ {c}
    BY <2>1, <2>2, TurnLosses DEF D!Fates, D!Settled
  <2> QED
    BY <1>0, <2>2, <2>3, LossesPaidFor
<1>4. ASSUME NEW c \in Consumers, RetryLost(c) \/ DeadLetterLost(c)
      PROVE  LossesCounted'
  <2>1. EndTurn(c, "lost") /\ cancelled' = cancelled
    BY <1>4 DEF RetryLost, DeadLetterLost
  <2>2. \/ faults' = faults + 1
        \/ cancelled[c] /\ faults' = faults
    <3>1. CASE RetryLost(c)
      BY <3>1 DEF RetryLost, Fault
    <3>2. CASE DeadLetterLost(c)
      BY <3>2 DEF DeadLetterLost, Fault
    <3> QED
      BY <1>4, <3>1, <3>2
  <2>3. /\ Lost' = Lost \cup {job[c].msg} /\ Doomed' = Doomed \ {c}
        /\ cancelled[c] => c \in Doomed
    BY <2>1, TurnLosses DEF D!Fates, D!Settled
  <2> QED
    BY <1>0, <2>2, <2>3, LossesPaidFor
<1>5. ASSUME NEW c \in Consumers, Cancel(c) PROVE LossesCounted'
  <2>1. Lost' = Lost /\ faults' = faults + 1
    BY <1>5 DEF Cancel, Fault, Lost
  <2>2. Doomed' = Doomed \/ Doomed' = Doomed \cup {c}
    BY <1>5 DEF Cancel, Doomed, Typed, TypeOK
  <2> QED
    BY <1>0, <2>1, <2>2, LossesPaidFor
<1>6. ASSUME NEW c \in Consumers, Crash(c) PROVE LossesCounted'
  <2>1. faults' = faults + 1 /\ job' = [job EXCEPT ![c] = NoJob] /\ cancelled' = cancelled
    BY <1>6 DEF Crash, Fault
  <2>2. Doomed' = Doomed \ {c}
    BY <2>1 DEF Doomed, Typed, TypeOK
  <2>3. Lost' = Lost \/ Lost' = Lost \cup {job[c].msg}
    <3>1. CASE job[c] = NoJob
      BY <1>6, <3>1 DEF Crash, Lost
    <3>2. CASE job[c] # NoJob
      BY <1>6, <3>2, JobInHand DEF Crash, Lost
    <3> QED
      BY <3>1, <3>2
  <2> QED
    BY <1>0, <2>1, <2>2, <2>3, LossesPaidFor
<1>7. ASSUME NEW c \in Consumers, ReplyLost(c) PROVE LossesCounted'
  <2>1. faults' = faults + 1 /\ Doomed' = Doomed
    BY <1>7 DEF ReplyLost, Fault, Doomed
  <2>2. PICK m : fate' = [fate EXCEPT ![m] = "lost"]
    BY <1>7 DEF ReplyLost
  <2>3. Lost' = Lost \/ Lost' = Lost \cup {m}
    BY <2>2 DEF Lost, Typed, TypeOK
  <2> QED
    BY <1>0, <2>1, <2>3, LossesPaidFor
<1>8. ASSUME NEW c \in Consumers, Return(c) \/ Restart(c) PROVE LossesCounted'
  <2>1. Lost' = Lost /\ faults' = faults
    BY <1>8 DEF Return, Restart, Lost
  <2>2. Doomed' = Doomed
    BY <1>8 DEF Return, Restart, Doomed, Typed, TypeOK, HandlingHasJob
  <2> QED
    BY <1>0, <2>1, <2>2, LossesPaidFor
<1>9. CASE UNCHANGED vars
  BY <1>9 DEF vars, LossesCounted, Lost, Doomed
<1> QED
  BY <1>1, <1>2, <1>3, <1>4, <1>5, <1>6, <1>7, <1>8, <1>9 DEF Next, HandlerFails

LEMMA PlacedNext == Typed /\ Placed /\ [Next]_vars => Placed'
<1> SUFFICES ASSUME Typed, Placed, [Next]_vars PROVE Placed'
  OBVIOUS
<1>0. Typed'
  BY TypedNext
<1>1. lists \in [JobTypes -> Seq(Entries)]
  BY DEF Typed, TypeOK
<1>2. ASSUME NEW m \in Messages, Enqueue(m) PROVE Placed'
  <2>1. /\ Envelope(m, 0) \in Entries
        /\ Envelope(m, 0).msg = m
        /\ Decode(Envelope(m, 0)).retry = 0
    BY EntriesAreEntries, QueueAssumption DEF Envelope, Decode
  <2>2. Inserted(lists, lists', m, Envelope(m, 0), Len(lists[TypeOf[m]]) + 1)
    BY <1>1, <1>2, <2>1, AppendInserts DEF Enqueue, EnqueueWithRetry
  <2>3. /\ fate[m] = "absent" /\ UNCHANGED <<job, calls>>
        /\ fate' = [fate EXCEPT ![m] = "pending"]
    BY <1>2 DEF Enqueue
  <2> QED
    BY <1>0, <2>1, <2>2, <2>3, PushPlaced
<1>3. ASSUME NEW m \in Messages, PushFromAPI(m) PROVE Placed'
  <2>1. /\ PlainJSON(m) \in Entries
        /\ PlainJSON(m).msg = m
        /\ Decode(PlainJSON(m)).retry = 0
    BY EntriesAreEntries, QueueAssumption DEF PlainJSON, Decode
  <2>2. \E p : Inserted(lists, lists', m, PlainJSON(m), p)
    BY <1>1, <1>3, <2>1, AppendInserts, ConsInserts DEF PushFromAPI
  <2>3. /\ fate[m] = "absent" /\ UNCHANGED <<job, calls>>
        /\ fate' = [fate EXCEPT ![m] = "pending"]
    BY <1>3 DEF PushFromAPI
  <2> QED
    BY <1>0, <2>1, <2>2, <2>3, PushPlaced
<1>4. ASSUME NEW c \in Consumers, BLPop(c) PROVE Placed'
  BY <1>4, BLPopPlaced
<1>5. ASSUME NEW c \in Consumers,
             HandlerSucceeds(c) \/ RetryLost(c) \/ DeadLetter(c) \/ DeadLetterLost(c)
      PROVE  Placed'
  <2>1. \E f \in D!Settled : EndTurn(c, f)
    BY <1>5 DEF HandlerSucceeds, RetryLost, DeadLetter, DeadLetterLost, D!Settled
  <2>2. UNCHANGED <<lists, calls>>
    BY <1>5 DEF HandlerSucceeds, RetryLost, DeadLetter, DeadLetterLost
  <2> QED
    BY <2>1, <2>2, SettlePlaced
<1>6. ASSUME NEW c \in Consumers, Retry(c) PROVE Placed'
  BY <1>0, <1>6, RetryPlaced
<1>7. ASSUME NEW c \in Consumers, Crash(c) PROVE Placed'
  BY <1>7, CrashPlaced
<1>8. ASSUME NEW c \in Consumers, ReplyLost(c) PROVE Placed'
  BY <1>8, ReplyLostPlaced
<1>9. ASSUME UNCHANGED <<lists, job, fate, calls>> PROVE Placed'
  BY <1>9 DEF Placed, InHand
<1>10. ASSUME NEW c \in Consumers, Cancel(c) \/ Return(c) \/ Restart(c)
       PROVE  Placed'
  BY <1>9, <1>10 DEF Cancel, Return, Restart
<1>11. CASE UNCHANGED vars
  BY <1>9, <1>11 DEF vars
<1> QED
  BY <1>2, <1>3, <1>4, <1>5, <1>6, <1>7, <1>8, <1>10, <1>11 DEF Next, HandlerFails

LEMMA IInvNext == IInv /\ [Next]_vars => IInv'
BY TypedNext, PlacedNext, LossesCountedNext DEF IInv

LEMMA IInvHolds == Spec => []IInv
BY IInvInit, IInvNext, PTL DEF Spec

-----------------------------------------------------------------------------
(* What the inductive invariant implies.                                   *)

\* A retry count is the number of handler calls used up, so no job is handled
\* more than maxRetries + 1 times (redis.go 165-208).
THEOREM RetryCounts == Spec => []RetryCountIsExact
<1>1. IInv => RetryCountIsExact
  <2> SUFFICES ASSUME IInv PROVE RetryCountIsExact
    OBVIOUS
  <2>1. \A t \in JobTypes : DOMAIN lists[t] = 1 .. Len(lists[t])
    BY DEF IInv, Typed, TypeOK
  <2> QED
    BY <2>1 DEF IInv, Placed, Exact, RetryCountIsExact
<1> QED
  BY <1>1, IInvHolds, PTL

LEMMA PlacedIsSingle == IInv => SingleCopy
<1> SUFFICES ASSUME IInv PROVE SingleCopy
  OBVIOUS
<1>1. \A t \in JobTypes : DOMAIN lists[t] = 1 .. Len(lists[t])
  BY DEF IInv, Typed, TypeOK
<1>2. \A t \in JobTypes : \A i \in DOMAIN lists[t] :
        TypeOf[lists[t][i].msg] = t
  BY <1>1 DEF IInv, Placed, Unique
<1> SUFFICES ASSUME NEW m \in Messages
             PROVE  /\ fate[m] = "pending" <=> Waiting(m) # {} \/ Holders(m) # {}
                    /\ Waiting(m) = {} \/ Holders(m) = {}
                    /\ \A i, j \in Waiting(m) : i = j
                    /\ \A c, d \in Holders(m) : c = d
  BY <1>2 DEF SingleCopy
<1>3. TypeOf[m] \in JobTypes
  BY QueueAssumption
<1>4. Waiting(m) # {} <=> m \in Listed(lists)
  <2>1. ASSUME m \in Listed(lists) PROVE Waiting(m) # {}
    <3>1. PICK t \in JobTypes : \E i \in 1 .. Len(lists[t]) : lists[t][i].msg = m
      BY <2>1 DEF Listed
    <3>2. t = TypeOf[m]
      BY <3>1, <1>1, <1>2
    <3> QED
      BY <3>1, <3>2, <1>1 DEF Waiting
  <2>2. ASSUME Waiting(m) # {} PROVE m \in Listed(lists)
    BY <2>2, <1>1, <1>3 DEF Waiting, Listed
  <2> QED
    BY <2>1, <2>2
<1>5. Holders(m) # {} <=> InHand(m)
  BY DEF Holders, InHand
<1>6. \A i, j \in Waiting(m) : i = j
  BY <1>1, <1>3 DEF Waiting, IInv, Placed, Unique
<1>7. \A c, d \in Holders(m) : c = d
  BY DEF Holders, IInv, Placed
<1>8. m \in Listed(lists) => fate[m] = "pending" /\ ~InHand(m)
  BY DEF IInv, Placed, InHand
<1>9. InHand(m) => fate[m] = "pending"
  BY DEF IInv, Placed, InHand
<1>10. fate[m] = "pending" => m \in Listed(lists) \/ InHand(m)
  BY DEF IInv, Placed
<1> QED
  BY <1>4, <1>5, <1>6, <1>7, <1>8, <1>9, <1>10

\* An entry exists once while it is pending and nowhere when it is settled:
\* neither a requeue nor a restart duplicates it (redis.go 141-208).
THEOREM OneCopy == Spec => []SingleCopy
BY PlacedIsSingle, IInvHolds, PTL

\* Whatever has left the lists and everybody's hands without an ending was
\* taken by a fault, and each fault takes one entry at most (redis.go 125-210).
THEOREM LossesBounded == Spec => []OneLossPerFault
<1>1. IInv => OneLossPerFault
  <2> SUFFICES ASSUME IInv PROVE OneLossPerFault
    OBVIOUS
  <2>1. Gone \subseteq Lost
    <3> SUFFICES ASSUME NEW m \in Messages, fate[m] = "pending"
                 PROVE  Waiting(m) # {} \/ Holders(m) # {}
      BY DEF Gone, Lost, IInv, Typed, TypeOK, D!Fates, D!Settled
    <3> QED
      BY PlacedIsSingle DEF IInv, SingleCopy
  <2>2. /\ IsFiniteSet(Lost) /\ Cardinality(Lost) \in Nat
        /\ Cardinality(Doomed) \in Nat
        /\ Cardinality(Lost) + Cardinality(Doomed) <= faults
    BY FS_CardinalityType DEF IInv, LossesCounted
  <2>3. Cardinality(Gone) \in Nat /\ Cardinality(Gone) <= Cardinality(Lost)
    BY <2>1, <2>2, FS_Subset, FS_CardinalityType
  <2>4. faults \in Nat
    BY QueueAssumption DEF IInv, Typed, TypeOK
  <2> QED
    BY <2>2, <2>3, <2>4 DEF OneLossPerFault
<1> QED
  BY <1>1, IInvHolds, PTL

-----------------------------------------------------------------------------
(***************************************************************************)
(* The queue implements JobDelivery.  RetryCountIsExact is what makes the  *)
(* guards of the abstract actions true: a popped job has calls left, and a *)
(* dead-lettered one has none.                                             *)
(***************************************************************************)

LEMMA StepRefines == IInv /\ [Next]_vars => [D!Next]_(D!delivery)
<1> SUFFICES ASSUME IInv, [Next]_vars PROVE [D!Next]_(D!delivery)
  OBVIOUS
<1> USE DEF D!delivery
<1>0. /\ Typed /\ Placed
      /\ fate \in [Messages -> D!Fates] /\ calls \in [Messages -> Nat]
  BY DEF IInv, Typed, TypeOK
<1>1. ASSUME NEW c \in Consumers, phase[c] = "handling"
      PROVE  /\ job[c].msg \in Messages
             /\ job[c].retry \in 0 .. maxRetries
             /\ fate[job[c].msg] = "pending"
             /\ calls[job[c].msg] = job[c].retry + 1
  <2>1. job[c] # NoJob
    BY <1>0, <1>1 DEF Typed, HandlingHasJob
  <2> QED
    BY <1>0, <2>1, JobInHand DEF Placed
<1>2. ASSUME NEW m \in Messages, Enqueue(m) \/ PushFromAPI(m) PROVE D!Next
  <2>1. D!Submit(m)
    BY <1>2 DEF Enqueue, PushFromAPI, D!Submit
  <2> QED
    BY <2>1 DEF D!Next
<1>3. ASSUME NEW c \in Consumers, BLPop(c) PROVE D!Next
  <2>1. PICK k \in 1 .. Len(Keys[c]) :
          LET t == Keys[c][k]
              next == Decode(Head(lists[t]))
          IN /\ IsFirstNonEmpty(c, k)
             /\ lists' = [lists EXCEPT ![t] = Tail(@)]
             /\ job' = [job EXCEPT ![c] = next]
             /\ calls' = [calls EXCEPT ![next.msg] = @ + 1]
    BY <1>3 DEF BLPop
  <2> DEFINE t == Keys[c][k]
             next == Decode(Head(lists[t]))
  <2>2. t \in JobTypes /\ lists[t] # <<>> /\ lists[t] \in Seq(Entries)
    <3>1. Keys[c] \in Seq(JobTypes)
      BY QueueAssumption
    <3>2. t \in JobTypes
      BY <3>1
    <3> QED
      BY <2>1, <3>2, <1>0 DEF IsFirstNonEmpty, Typed, TypeOK
  <2>3. /\ Head(lists[t]) \in Entries /\ Head(lists[t]) = lists[t][1]
        /\ 1 \in 1 .. Len(lists[t])
    BY <2>2, TailElements
  <2>4. /\ next.msg \in Messages /\ next.retry \in 0 .. maxRetries
        /\ next.msg = Head(lists[t]).msg
    BY <2>3, DecodedIsJob DEF Jobs
  <2>5. calls[next.msg] = next.retry
    BY <2>2, <2>3, <2>4, <1>0 DEF Placed, Exact
  <2>6. fate[next.msg] = "pending"
    <3>1. next.msg \in Listed(lists)
      BY <2>2, <2>3, <2>4 DEF Listed
    <3> QED
      BY <3>1, <1>0 DEF Placed
  <2>7. calls' = [calls EXCEPT ![next.msg] = @ + 1] /\ fate' = fate
    BY <1>3, <2>1 DEF BLPop
  <2> HIDE DEF next, t
  <2>8. calls[next.msg] < maxRetries + 1
    BY <2>4, <2>5, QueueAssumption
  <2>9. D!Attempt(next.msg)
    BY <2>6, <2>7, <2>8 DEF D!Attempt
  <2> QED
    BY <2>4, <2>9 DEF D!Next
<1>4. ASSUME NEW c \in Consumers, HandlerSucceeds(c) PROVE D!Next
  <2>1. D!Succeed(job[c].msg)
    BY <1>1, <1>4 DEF HandlerSucceeds, EndTurn, D!Succeed
  <2> QED
    BY <1>1, <1>4, <2>1 DEF D!Next, HandlerSucceeds, EndTurn
<1>5. ASSUME NEW c \in Consumers, Retry(c) PROVE UNCHANGED <<fate, calls>>
  BY <1>0, <1>1, <1>5 DEF Retry, EndTurn
<1>6. ASSUME NEW c \in Consumers, DeadLetter(c) PROVE D!Next
  <2>1. calls[job[c].msg] = maxRetries + 1
    BY <1>1, <1>6, QueueAssumption DEF DeadLetter, EndTurn
  <2>2. D!GiveUp(job[c].msg)
    BY <1>1, <1>6, <2>1 DEF DeadLetter, EndTurn, D!GiveUp
  <2> QED
    BY <1>1, <1>6, <2>2 DEF D!Next, DeadLetter, EndTurn
<1>7. ASSUME NEW c \in Consumers, RetryLost(c) \/ DeadLetterLost(c) PROVE D!Next
  <2>1. phase[c] = "handling"
    BY <1>7 DEF RetryLost, DeadLetterLost, EndTurn
  <2>2. D!Lose(job[c].msg)
    BY <1>1, <1>7, <2>1 DEF RetryLost, DeadLetterLost, EndTurn, D!Lose
  <2> QED
    BY <1>1, <2>1, <2>2 DEF D!Next
<1>8. ASSUME NEW c \in Consumers, Crash(c)
      PROVE  D!Next \/ UNCHANGED <<fate, calls>>
  <2>1. CASE job[c] = NoJob
    <3>1. fate' = fate
      BY <1>0, <1>8, <2>1 DEF Crash
    <3> QED
      BY <3>1, <1>8 DEF Crash
  <2>2. CASE job[c] # NoJob
    <3>1. job[c].msg \in Messages /\ fate[job[c].msg] = "pending"
      BY <1>0, <2>2, JobInHand DEF Placed
    <3>2. fate' = [fate EXCEPT ![job[c].msg] = "lost"]
      BY <1>0, <1>8, <2>2, <3>1 DEF Crash
    <3>3. D!Lose(job[c].msg)
      BY <1>8, <3>1, <3>2 DEF Crash, D!Lose
    <3> QED
      BY <3>1, <3>3 DEF D!Next
  <2> QED
    BY <2>1, <2>2
<1>9. ASSUME NEW c \in Consumers, ReplyLost(c) PROVE D!Next
  <2>1. PICK k \in 1 .. Len(Keys[c]) :
          /\ IsFirstNonEmpty(c, k)
          /\ fate' = [fate EXCEPT ![Head(lists[Keys[c][k]]).msg] = "lost"]
    BY <1>9 DEF ReplyLost
  <2> DEFINE t == Keys[c][k]
             m == Head(lists[t]).msg
  <2>2. t \in JobTypes /\ lists[t] # <<>> /\ lists[t] \in Seq(Entries)
    <3>1. Keys[c] \in Seq(JobTypes)
      BY QueueAssumption
    <3>2. t \in JobTypes
      BY <3>1
    <3> QED
      BY <2>1, <3>2, <1>0 DEF IsFirstNonEmpty, Typed, TypeOK
  <2>3. Head(lists[t]) = lists[t][1] /\ 1 \in 1 .. Len(lists[t]) /\ m \in Messages
    BY <2>2, TailElements, DecodedIsJob
  <2>4. m \in Listed(lists)
    BY <2>2, <2>3 DEF Listed
  <2>5. fate[m] = "pending"
    BY <2>4, <1>0 DEF Placed
  <2>6. fate' = [fate EXCEPT ![m] = "lost"] /\ calls' = calls
    BY <1>9, <2>1 DEF ReplyLost
  <2> HIDE DEF m, t
  <2>7. D!Lose(m)
    BY <2>5, <2>6 DEF D!Lose
  <2> QED
    BY <2>3, <2>7 DEF D!Next
<1>10. ASSUME NEW c \in Consumers, Cancel(c) \/ Return(c) \/ Restart(c)
       PROVE  UNCHANGED <<fate, calls>>
  BY <1>10 DEF Cancel, Return, Restart
<1>11. CASE UNCHANGED vars
  BY <1>11 DEF vars
<1> QED
  BY <1>2, <1>3, <1>4, <1>5, <1>6, <1>7, <1>8, <1>9, <1>10, <1>11
  DEF Next, HandlerFails

\* The queue implements the delivery service with a budget of maxRetries + 1
\* calls: given up only when spent, settled once and for all (redis.go 124-210).
THEOREM QueueImplementsDelivery == Spec => ImplementsDelivery
<1>1. Init => D!Init
  BY DEF Init, D!Init
<1> QED
  BY <1>1, StepRefines, IInvHolds, PTL DEF Spec, ImplementsDelivery, D!Spec
=============================================================================
