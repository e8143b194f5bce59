------------------------ MODULE OrganisationProofs ------------------------
(***************************************************************************)
(* Proofs about what the API keeps for an organisation: Organisation, for  *)
(* every set of users and requests and every limit on the keys, and        *)
(* WebhookDelivery, for every set of deliveries, webhooks and batches,     *)
(* every batch size and every limit on the attempts.                       *)
(***************************************************************************)
EXTENDS Organisation, WebhookDelivery, FiniteSetTheorems, TLAPS

(***************************************************************************)
(*                  Members, invitations and API keys                      *)
(***************************************************************************)
-----------------------------------------------------------------------------
(* Types.  What a request has read is a role from the statement that reads *)
(* it to the one that writes.                                              *)

Knows ==
  \A r \in Requests :
    (Deciding(r) \/ At(r, {"accept"}, "member") \/ At(r, {"accept"}, "write"))
      => request[r].read \in Roles

Shaped == request \in [Requests -> RequestRecords] /\ Knows

OrgTyped == OrgTypeOK /\ Knows

LEMMA OrgTypedInit == OrgInit => OrgTyped
<1> SUFFICES ASSUME OrgInit PROVE OrgTyped
  OBVIOUS
<1>1. Idle \in RequestRecords
  BY OrganisationAssumption DEF Idle, RequestRecords, Roles, Ops, RequestSteps
<1>2. NoInvitation \in [status : Statuses, role : Roles, lapsed : BOOLEAN]
  BY DEF NoInvitation, Statuses, Roles
<1>3. OrgTypeOK
  BY <1>1, <1>2 DEF OrgInit, OrgTypeOK, Roles
<1>4. Idle.op = "none"
  BY DEF Idle
<1>5. Knows
  BY <1>4 DEF OrgInit, Knows, Deciding, At
<1> QED
  BY <1>3, <1>5 DEF OrgTyped

\* The shape of a request, and what it knows, are its own.
LEMMA TypedRequest ==
  ASSUME OrgTyped, NEW r \in Requests, NEW q,
         request' = [request EXCEPT ![r] = q],
         q \in RequestRecords,
         (/\ q.op \in {"remove", "role"} /\ q.step \in {"count", "write"})
           => q.read \in Roles,
         (/\ q.op = "accept" /\ q.step \in {"member", "write"})
           => q.read \in Roles
  PROVE  Shaped'
  BY DEF OrgTyped, OrgTypeOK, Shaped, Knows, Deciding, At, RequestRecords

LEMMA TypedIdle ==
  ASSUME OrgTyped, NEW r \in Requests, Answer(r)
  PROVE  Shaped'
<1>1. Idle \in RequestRecords
  BY OrganisationAssumption DEF Idle, RequestRecords, Roles, Ops, RequestSteps
<1>2. Idle.op = "none"
  BY DEF Idle
<1>3. request' = [request EXCEPT ![r] = Idle]
  BY DEF Answer
<1> QED
  BY <1>1, <1>2, <1>3, TypedRequest

\* A request that goes on, knowing what it knew or what it has just read.
LEMMA TypedGo ==
  ASSUME OrgTyped, NEW r \in Requests, NEW step \in RequestSteps, NEW ro \in Roles \union {"none"},
         request[r].op \in Ops,
         request' = [request EXCEPT ![r].step = step, ![r].read = ro],
         (/\ request[r].op \in {"remove", "role"} /\ step \in {"count", "write"})
           => ro \in Roles,
         (/\ request[r].op = "accept" /\ step \in {"member", "write"})
           => ro \in Roles
  PROVE  Shaped'
<1> DEFINE q == [request[r] EXCEPT !.step = step, !.read = ro]
<1>1. q \in RequestRecords
  BY DEF OrgTyped, OrgTypeOK, RequestRecords
<1>2. request' = [request EXCEPT ![r] = q]
  BY DEF OrgTyped, OrgTypeOK, RequestRecords
<1>3. q.op = request[r].op /\ q.step = step /\ q.read = ro
  BY DEF OrgTyped, OrgTypeOK, RequestRecords
<1> HIDE DEF q
<1> QED
  BY <1>1, <1>2, <1>3, TypedRequest

LEMMA TypedGoOn ==
  ASSUME OrgTyped, NEW r \in Requests, NEW step \in RequestSteps, request[r].op \in Ops,
         Go(r, step),
         (/\ request[r].op \in {"remove", "role"} /\ step \in {"count", "write"})
           => request[r].read \in Roles,
         (/\ request[r].op = "accept" /\ step \in {"member", "write"})
           => request[r].read \in Roles
  PROVE  Shaped'
<1>1. request[r].read \in Roles \union {"none"}
  BY DEF OrgTyped, OrgTypeOK, RequestRecords
<1>2. request' = [request EXCEPT ![r].step = step, ![r].read = request[r].read]
  BY DEF Go, OrgTyped, OrgTypeOK, RequestRecords
<1> QED
  BY <1>1, <1>2, TypedGo

\* What is sent knows nothing and has nothing to know yet.
LEMMA TypedSend ==
  ASSUME OrgTyped, NEW r \in Requests, NEW op \in Ops, NEW u \in Users,
         NEW v \in Users, NEW ro \in Roles, NEW step \in {"verify", "find"},
         Send(r, op, u, v, ro, step)
  PROVE  OrgTyped'
<1> DEFINE q == [op |-> op, by |-> u, of |-> v, role |-> ro, read |-> "none",
                 step |-> step]
<1>1. q \in RequestRecords
  BY DEF RequestRecords, Roles, Ops, RequestSteps
<1>2. q.step \in {"verify", "find"}
  OBVIOUS
<1>3. request' = [request EXCEPT ![r] = q]
  BY DEF Send
<1> HIDE DEF q
<1>4. Shaped'
  BY <1>1, <1>2, <1>3, TypedRequest
<1> QED
  BY <1>4 DEF Send, OrgTyped, OrgTypeOK, Shaped

LEMMA TypedAsks == ASSUME OrgTyped, NEW r \in Requests, Asks(r) PROVE OrgTyped'
<1> USE DEF Roles, Ops
<1>1. ASSUME HandleInvite(r) PROVE OrgTyped'
  BY <1>1, TypedSend DEF HandleInvite
<1>2. ASSUME HandleCancel(r) PROVE OrgTyped'
  BY <1>2, TypedSend DEF HandleCancel
<1>3. ASSUME HandleResend(r) PROVE OrgTyped'
  BY <1>3, TypedSend DEF HandleResend
<1>4. ASSUME ConfirmRemove(r) PROVE OrgTyped'
  BY <1>4, TypedSend DEF ConfirmRemove
<1>5. ASSUME ConfirmRoleChange(r) PROVE OrgTyped'
  BY <1>5, TypedSend DEF ConfirmRoleChange
<1>6. ASSUME HandleAccept(r) PROVE OrgTyped'
  BY <1>6, TypedSend DEF HandleAccept
<1>7. ASSUME HandleDecline(r) PROVE OrgTyped'
  BY <1>7, TypedSend DEF HandleDecline
<1>8. ASSUME HandleCreateKey(r) PROVE OrgTyped'
  BY <1>8, TypedSend DEF HandleCreateKey
<1>9. ASSUME HandleRevokeKey(r) PROVE OrgTyped'
  BY <1>9, TypedSend DEF HandleRevokeKey
<1> QED
  BY <1>1, <1>2, <1>3, <1>4, <1>5, <1>6, <1>7, <1>8, <1>9 DEF Asks

LEMMA TypedInvites == ASSUME OrgTyped, NEW r \in Requests, Invites(r) PROVE OrgTyped'
<1> USE DEF OrgTyped, OrgTypeOK, Shaped
<1>0. request[r] \in RequestRecords /\ request[r].of \in Users
  BY DEF RequestRecords
<1>1. ASSUME CheckMember(r) PROVE OrgTyped'
  <2>1. Shaped'
    BY <1>1, TypedGoOn, TypedIdle DEF CheckMember, At, Ops, RequestSteps
  <2> QED
    BY <2>1, <1>1 DEF CheckMember
<1>2. ASSUME CheckPending(r) PROVE OrgTyped'
  <2>1. Shaped'
    BY <1>2, TypedGoOn, TypedIdle DEF CheckPending, At, Ops, RequestSteps
  <2> QED
    BY <2>1, <1>2 DEF CheckPending
<1>3. ASSUME InsertInvitation(r) PROVE OrgTyped'
  <2>1. Shaped'
    BY <1>3, TypedIdle DEF InsertInvitation
  <2>2. [status |-> "pending", role |-> request[r].role, lapsed |-> FALSE]
          \in [status : Statuses, role : Roles, lapsed : BOOLEAN]
    BY <1>0 DEF RequestRecords, Statuses
  <2>3. invitation' \in [Users -> [status : Statuses, role : Roles,
                                  lapsed : BOOLEAN]]
    <3> HIDE DEF Shaped
    <3>1. CASE UniqueIndexAdmits(request[r].of)
      BY <3>1, <2>2, <1>3 DEF InsertInvitation
    <3>2. CASE ~UniqueIndexAdmits(request[r].of)
      BY <3>2, <1>3 DEF InsertInvitation
    <3> QED
      BY <3>1, <3>2
  <2>4. UNCHANGED <<role, apiKeys, raced>>
    BY <1>3 DEF InsertInvitation
  <2> QED
    BY <2>1, <2>3, <2>4
<1>4. ASSUME ReadInvitation(r) PROVE OrgTyped'
  <2>1. Shaped'
    BY <1>4, TypedGoOn, TypedIdle DEF ReadInvitation, At, Ops, RequestSteps
  <2> QED
    BY <2>1, <1>4 DEF ReadInvitation
<1>5. ASSUME CancelInvitation(r) PROVE OrgTyped'
  <2>1. Shaped'
    BY <1>5, TypedIdle DEF CancelInvitation
  <2> QED
    BY <2>1, <1>5, <1>0
    DEF CancelInvitation, SetStatus, NoInvitation, Statuses, Roles
<1>6. ASSUME ExtendInvitation(r) PROVE OrgTyped'
  <2>1. Shaped'
    BY <1>6, TypedIdle DEF ExtendInvitation
  <2> QED
    BY <2>1, <1>6, <1>0 DEF ExtendInvitation
<1> QED
  BY <1>1, <1>2, <1>3, <1>4, <1>5, <1>6 DEF Invites

LEMMA TypedAnswers ==
  ASSUME OrgTyped, NEW r \in Requests, AnswersInvitation(r) PROVE OrgTyped'
<1> USE DEF OrgTyped, OrgTypeOK, Shaped
<1>0. /\ request[r] \in RequestRecords
      /\ request[r].of \in Users /\ request[r].by \in Users
  BY DEF RequestRecords
<1>1. ASSUME FindInvitation(r) PROVE OrgTyped'
  <2>1. invitation[request[r].of].role \in Roles
    BY <1>0
  <2>2. CASE invitation[request[r].of].status # "pending"
    <3>1. Shaped'
      BY <2>2, <1>1, TypedIdle DEF FindInvitation
    <3> QED
      BY <3>1, <1>1 DEF FindInvitation
  <2>3. CASE invitation[request[r].of].status = "pending"
    <3> DEFINE step == CASE request[r].op = "decline" -> "mark"
                         [] invitation[request[r].of].lapsed -> "expire"
                         [] OTHER -> "member"
    <3>1. step \in RequestSteps
      BY DEF RequestSteps
    <3>2. /\ request' = [request EXCEPT ![r].step = step,
                                       ![r].read = invitation[request[r].of].role]
          /\ request[r].op \in Ops
      BY <2>3, <1>1 DEF FindInvitation, GoKnowing, At, Ops
    <3> HIDE DEF step
    <3>3. Shaped'
      BY <2>1, <3>1, <3>2, TypedGo
    <3> QED
      BY <3>3, <1>1 DEF FindInvitation
  <2> QED
    BY <2>2, <2>3
<1>2. ASSUME ExpireInvitation(r) PROVE OrgTyped'
  <2>1. Shaped'
    BY <1>2, TypedIdle DEF ExpireInvitation
  <2> QED
    BY <2>1, <1>2, <1>0
    DEF ExpireInvitation, SetStatus, NoInvitation, Statuses, Roles
<1>3. ASSUME CheckJoined(r) PROVE OrgTyped'
  <2>1. request[r].read \in Roles
    BY <1>3 DEF CheckJoined, Knows
  <2>2. Shaped'
    BY <2>1, <1>3, TypedGoOn DEF CheckJoined, At, Ops, RequestSteps
  <2> QED
    BY <2>2, <1>3 DEF CheckJoined
<1>4. ASSUME MarkInvitation(r) PROVE OrgTyped'
  <2>1. Shaped'
    BY <1>4, TypedIdle DEF MarkInvitation
  <2>2. PICK s \in Statuses : SetStatus(request[r].of, s)
    BY <1>4 DEF MarkInvitation, Statuses
  <2>3. [NoInvitation EXCEPT !.status = s]
          \in [status : Statuses, role : Roles, lapsed : BOOLEAN]
    BY DEF NoInvitation, Roles
  <2>4. invitation' \in [Users -> [status : Statuses, role : Roles,
                                  lapsed : BOOLEAN]]
    BY <2>2, <2>3 DEF SetStatus
  <2>5. UNCHANGED <<role, apiKeys, raced>>
    BY <1>4 DEF MarkInvitation
  <2> QED
    BY <2>1, <2>4, <2>5
<1>5. ASSUME Join(r) PROVE OrgTyped'
  <2>1. Shaped'
    BY <1>5, TypedIdle DEF Join
  <2>2. request[r].read \in Roles
    BY <1>5 DEF Join, Knows
  <2>3. [NoInvitation EXCEPT !.status = "accepted"]
          \in [status : Statuses, role : Roles, lapsed : BOOLEAN]
    BY DEF NoInvitation, Roles, Statuses
  <2>4. /\ invitation' \in [Users -> [status : Statuses, role : Roles,
                                     lapsed : BOOLEAN]]
        /\ role' \in [Users -> Roles \union {"none"}]
    <3> HIDE DEF Shaped
    <3>1. CASE role[request[r].by] = "none"
      BY <3>1, <2>2, <2>3, <1>5 DEF Join, SetStatus
    <3>2. CASE role[request[r].by] # "none"
      BY <3>2, <1>5 DEF Join
    <3> QED
      BY <3>1, <3>2
  <2>5. UNCHANGED <<apiKeys, raced>>
    BY <1>5 DEF Join
  <2> QED
    BY <2>1, <2>4, <2>5
<1> QED
  BY <1>1, <1>2, <1>3, <1>4, <1>5 DEF AnswersInvitation

LEMMA TypedChanges ==
  ASSUME OrgTyped, NEW r \in Requests,
         VerifyOrgAdmin(r) \/ ChangesMember(r) \/ ChangesKeys(r)
  PROVE  OrgTyped'
<1> USE DEF OrgTyped, OrgTypeOK, Shaped
<1>0. /\ request[r] \in RequestRecords
      /\ request[r].of \in Users /\ request[r].by \in Users
      /\ request[r].role \in Roles
  BY DEF RequestRecords
<1>1. ASSUME VerifyOrgAdmin(r) PROVE OrgTyped'
  <2>1. CASE role[request[r].by] = "admin"
    <3>1. /\ request[r].op \in Ops
          /\ Go(r, AfterVerify[request[r].op])
      BY <1>1, <2>1 DEF VerifyOrgAdmin, At
    <3>2. PICK step \in RequestSteps : step = AfterVerify[request[r].op]
      BY <3>1 DEF AfterVerify, RequestSteps
    <3>3. step \in {"member", "count", "write", "read"}
      BY <3>1, <3>2 DEF AfterVerify
    <3>4. /\ request[r].op \in {"remove", "role"} => step = "read"
          /\ request[r].op = "accept" => step = "read"
      BY <3>2 DEF AfterVerify, Ops
    <3>5. Shaped'
      BY <3>1, <3>2, <3>4, TypedGoOn
    <3> QED
      BY <3>5, <1>1 DEF VerifyOrgAdmin
  <2>2. CASE role[request[r].by] # "admin"
    <3>1. Shaped'
      BY <2>2, <1>1, TypedIdle DEF VerifyOrgAdmin
    <3> QED
      BY <3>1, <1>1 DEF VerifyOrgAdmin
  <2> QED
    BY <2>1, <2>2
<1>2. ASSUME ReadMember(r) PROVE OrgTyped'
  <2> DEFINE ro == role[request[r].of]
  <2>1. CASE ro = "none"
    <3>1. Shaped'
      BY <2>1, <1>2, TypedIdle DEF ReadMember
    <3> QED
      BY <3>1, <1>2 DEF ReadMember
  <2>2. CASE ro # "none"
    <3>1. PICK step \in {"count", "write"} : GoKnowing(r, step, ro)
      BY <2>2, <1>2 DEF ReadMember
    <3>2. step \in RequestSteps /\ ro \in Roles /\ request[r].op \in {"remove", "role"}
      BY <2>2, <1>0, <1>2 DEF ReadMember, At, RequestSteps
    <3> HIDE DEF ro
    <3>3. Shaped'
      BY <3>1, <3>2, TypedGo DEF GoKnowing, Ops
    <3> QED
      BY <3>3, <1>2 DEF ReadMember
  <2> QED
    BY <2>1, <2>2
<1>3. ASSUME CountAdmins(r) PROVE OrgTyped'
  <2>1. request[r].read \in Roles
    BY <1>3 DEF CountAdmins, Knows, Deciding
  <2>2. Shaped'
    BY <2>1, <1>3, TypedGoOn, TypedIdle DEF CountAdmins, At, Ops, RequestSteps
  <2> QED
    BY <2>2, <1>3 DEF CountAdmins
<1>4. ASSUME WriteMember(r) PROVE OrgTyped'
  <2>1. Shaped'
    BY <1>4, TypedIdle DEF WriteMember
  <2>2. PICK ro \in Roles \union {"none"} :
          role' = [role EXCEPT ![request[r].of] = ro]
    BY <1>4, <1>0 DEF WriteMember
  <2> QED
    BY <2>1, <2>2, <1>4 DEF WriteMember
<1>5. ASSUME CountKeys(r) PROVE OrgTyped'
  <2>1. Shaped'
    BY <1>5, TypedGoOn, TypedIdle DEF CountKeys, At, Ops, RequestSteps
  <2> QED
    BY <2>1, <1>5 DEF CountKeys
<1>6. ASSUME InsertKey(r) PROVE OrgTyped'
  <2>1. Shaped'
    BY <1>6, TypedIdle DEF InsertKey
  <2> QED
    BY <2>1, <1>6 DEF InsertKey
<1>7. ASSUME DeleteKey(r) PROVE OrgTyped'
  <2>1. Shaped'
    BY <1>7, TypedIdle DEF DeleteKey
  <2> QED
    BY <2>1, <1>7 DEF DeleteKey
<1> QED
  BY <1>1, <1>2, <1>3, <1>4, <1>5, <1>6, <1>7 DEF ChangesMember, ChangesKeys

LEMMA OrgTypedNext == OrgTyped /\ [OrgNext]_orgVars => OrgTyped'
<1> SUFFICES ASSUME OrgTyped, [OrgNext]_orgVars PROVE OrgTyped'
  OBVIOUS
<1>1. ASSUME NEW r \in Requests,
             \/ Asks(r) \/ VerifyOrgAdmin(r) \/ Invites(r)
             \/ AnswersInvitation(r) \/ ChangesMember(r) \/ ChangesKeys(r)
      PROVE  OrgTyped'
  BY <1>1, TypedAsks, TypedInvites, TypedAnswers, TypedChanges
<1>2. ASSUME NEW u \in Users, Lapse(u) PROVE OrgTyped'
  BY <1>2 DEF Lapse, OrgTyped, OrgTypeOK, Knows, Deciding, At
<1>3. CASE UNCHANGED orgVars
  BY <1>3 DEF orgVars, OrgTyped, OrgTypeOK, Knows, Deciding, At
<1> QED
  BY <1>1, <1>2, <1>3 DEF OrgNext

\* Every reachable state has the types of the tables and the requests.
THEOREM OrganisationTyped == OrgSpec => []OrgTypeOK
<1>1. OrgSpec => []OrgTyped
  BY OrgTypedInit, OrgTypedNext, PTL DEF OrgSpec
<1> QED
  BY <1>1, PTL DEF OrgTyped

-----------------------------------------------------------------------------
(* The last admin.  As long as no two requests have decided about members  *)
(* at a time, what a request has read is still so when it writes, and one  *)
(* that takes an admin away leaves another.                                *)

LeavesAdmin(r) ==
  (At(r, {"remove", "role"}, "write") /\ LosesAdmin(r, request[r].read))
    => \E u \in Admins : u # request[r].of

Settled ==
  ~raced => /\ Admins # {}
            /\ \A r \in Requests :
                 Deciding(r) => /\ role[request[r].of] = request[r].read
                                /\ LeavesAdmin(r)

OthersAs(r) == \A s \in Requests \ {r} : request'[s] = request[s]

LEMMA SettledElsewhere ==
  ASSUME OrgTyped, Settled, NEW r \in Requests, OthersAs(r), ~Deciding(r)',
         UNCHANGED <<role, raced>>
  PROVE  Settled'
<1> SUFFICES ASSUME ~raced' PROVE Settled'
  BY DEF Settled
<1>1. Admins' = Admins /\ ~raced
  BY DEF Admins
<1>2. ASSUME NEW s \in Requests, Deciding(s)'
      PROVE  role'[request'[s].of] = request'[s].read /\ LeavesAdmin(s)'
  <2>1. s # r /\ request'[s] = request[s]
    BY <1>2 DEF OthersAs
  <2>2. Deciding(s)
    BY <1>2, <2>1 DEF Deciding, At
  <2> QED
    BY <1>1, <2>1, <2>2 DEF Settled, LeavesAdmin, At, LosesAdmin
<1> QED
  BY <1>1, <1>2 DEF Settled

LEMMA IdleDecidesNothing ==
  ASSUME OrgTyped, NEW r \in Requests, Answer(r)
  PROVE  OthersAs(r) /\ ~Deciding(r)'
  BY DEF Answer, OthersAs, Deciding, At, Idle, OrgTyped, OrgTypeOK

LEMMA GoDecidesNothing ==
  ASSUME OrgTyped, NEW r \in Requests, NEW step, Go(r, step),
         request[r].op \notin {"remove", "role"} \/ step \notin {"count", "write"}
  PROVE  OthersAs(r) /\ ~Deciding(r)'
  BY DEF Go, OthersAs, Deciding, At, OrgTyped, OrgTypeOK, RequestRecords

LEMMA SettledAsks ==
  ASSUME OrgTyped, Settled, NEW r \in Requests, Asks(r) PROVE Settled'
<1>1. ASSUME NEW op, NEW u, NEW v, NEW ro, NEW step \in {"verify", "find"},
             Send(r, op, u, v, ro, step)
      PROVE  Settled'
  <2>1. OthersAs(r) /\ ~Deciding(r)'
    BY <1>1 DEF Send, OthersAs, Deciding, At, OrgTyped, OrgTypeOK
  <2> QED
    BY <2>1, <1>1, SettledElsewhere DEF Send
<1> QED
  BY <1>1
  DEF Asks, HandleInvite, HandleCancel, HandleResend, ConfirmRemove,
      ConfirmRoleChange, HandleAccept, HandleDecline, HandleCreateKey,
      HandleRevokeKey

LEMMA SettledInvites ==
  ASSUME OrgTyped, Settled, NEW r \in Requests,
         Invites(r) \/ ChangesKeys(r) \/ VerifyOrgAdmin(r)
  PROVE  Settled'
<1>1. UNCHANGED <<role, raced>>
  BY DEF Invites, CheckMember, CheckPending, InsertInvitation, ReadInvitation,
         CancelInvitation, ExtendInvitation, ChangesKeys, CountKeys, InsertKey,
         DeleteKey, VerifyOrgAdmin
<1>2. CASE Answer(r)
  BY <1>1, <1>2, IdleDecidesNothing, SettledElsewhere
<1>3. CASE ~Answer(r) /\ (Invites(r) \/ ChangesKeys(r))
  <2>1. \E step : Go(r, step) /\ request[r].op \notin {"remove", "role"}
    BY <1>3 DEF Invites, CheckMember, CheckPending, InsertInvitation,
         ReadInvitation, CancelInvitation, ExtendInvitation, ChangesKeys,
         CountKeys, InsertKey, DeleteKey, At
  <2> QED
    BY <1>1, <2>1, GoDecidesNothing, SettledElsewhere
<1>4. CASE ~Answer(r) /\ VerifyOrgAdmin(r)
  <2>1. Go(r, AfterVerify[request[r].op]) /\ request[r].op \in Ops
    BY <1>4 DEF VerifyOrgAdmin, At
  <2>2. request[r].op \in {"remove", "role"} => AfterVerify[request[r].op] = "read"
    BY <2>1 DEF AfterVerify, Ops
  <2> QED
    BY <1>1, <2>1, <2>2, GoDecidesNothing, SettledElsewhere
<1> QED
  BY <1>2, <1>3, <1>4

LEMMA SettledAnswers ==
  ASSUME OrgTyped, Settled, NEW r \in Requests, AnswersInvitation(r)
  PROVE  Settled'
<1>1. CASE Answer(r) /\ ~Join(r)
  <2>1. UNCHANGED <<role, raced>>
    BY <1>1 DEF AnswersInvitation, FindInvitation, ExpireInvitation,
                CheckJoined, MarkInvitation
  <2> QED
    BY <1>1, <2>1, IdleDecidesNothing, SettledElsewhere
<1>2. CASE ~Answer(r)
  <2>1. /\ request[r].op \in {"accept", "decline"}
        /\ UNCHANGED <<role, raced>>
        /\ \E step, ro : Go(r, step) \/ GoKnowing(r, step, ro)
    BY <1>2 DEF AnswersInvitation, FindInvitation, ExpireInvitation,
                CheckJoined, MarkInvitation, Join, At
  <2>2. OthersAs(r) /\ ~Deciding(r)'
    BY <2>1 DEF Go, GoKnowing, OthersAs, Deciding, At, OrgTyped, OrgTypeOK,
                RequestRecords
  <2> QED
    BY <2>1, <2>2, SettledElsewhere
<1>3. CASE Join(r)
  <2> DEFINE u == request[r].by
  <2>1. OthersAs(r) /\ ~Deciding(r)'
    BY <1>3, IdleDecidesNothing DEF Join
  <2>2. CASE role[u] # "none"
    BY <2>1, <2>2, <1>3, SettledElsewhere DEF Join
  <2>3. CASE role[u] = "none"
    <3>0. /\ role' = [role EXCEPT ![u] = request[r].read]
          /\ UNCHANGED raced /\ u \in Users
      BY <1>3, <2>3 DEF Join, OrgTyped, OrgTypeOK, RequestRecords
    <3>1. \A v \in Users : role[v] # "none" => role'[v] = role[v]
      BY <2>3, <3>0 DEF OrgTyped, OrgTypeOK
    <3>2. \A v \in Admins : v \in Admins'
      BY <3>1 DEF Admins
    <3> SUFFICES ASSUME ~raced PROVE Settled'
      BY <3>0 DEF Settled
    <3>3. ASSUME NEW s \in Requests, Deciding(s)'
          PROVE  role'[request'[s].of] = request'[s].read /\ LeavesAdmin(s)'
      <4>1. s # r /\ request'[s] = request[s]
        BY <2>1, <3>3 DEF OthersAs
      <4>2. Deciding(s)
        BY <3>3, <4>1 DEF Deciding, At
      <4>3. role[request[s].of] = request[s].read /\ LeavesAdmin(s)
        BY <4>2 DEF Settled
      <4>4. request[s].read \in Roles /\ request[s].of \in Users
        BY <4>2 DEF OrgTyped, OrgTypeOK, Knows, RequestRecords
      <4>5. role'[request'[s].of] = request'[s].read
        BY <3>1, <4>1, <4>3, <4>4 DEF Roles
      <4>6. LeavesAdmin(s)'
        BY <3>2, <4>1, <4>3 DEF LeavesAdmin, At, LosesAdmin
      <4> QED
        BY <4>5, <4>6
    <3> QED
      BY <3>2, <3>3 DEF Settled
  <2> QED
    BY <2>2, <2>3
<1> QED
  BY <1>1, <1>2, <1>3

LEMMA SettledReads ==
  ASSUME OrgTyped, Settled, NEW r \in Requests, ReadMember(r) \/ CountAdmins(r)
  PROVE  Settled'
<1>1. UNCHANGED <<role, raced>>
  BY DEF ReadMember, CountAdmins
<1>2. CASE Answer(r)
  BY <1>1, <1>2, IdleDecidesNothing, SettledElsewhere
<1>3. CASE ~Answer(r)
  <2> SUFFICES ASSUME ~raced PROVE Settled'
    BY <1>1 DEF Settled
  <2>1. Admins' = Admins /\ OthersAs(r)
    BY <1>1, <1>3
    DEF ReadMember, CountAdmins, Admins, Go, GoKnowing, OthersAs, OrgTyped, OrgTypeOK
  <2>2. /\ request'[r].of = request[r].of /\ request'[r].op = request[r].op
        /\ request'[r].role = request[r].role
    BY <1>3 DEF ReadMember, CountAdmins, Go, GoKnowing, OrgTyped, OrgTypeOK,
                RequestRecords
  <2>3. role[request[r].of] = request'[r].read
    <3>1. CASE ReadMember(r)
      BY <3>1, <1>3 DEF ReadMember, GoKnowing, OrgTyped, OrgTypeOK, RequestRecords
    <3>2. CASE CountAdmins(r)
      <4>1. role[request[r].of] = request[r].read
        BY <3>2 DEF CountAdmins, Deciding, Settled
      <4> QED
        BY <4>1, <3>2, <1>3 DEF CountAdmins, Go, OrgTyped, OrgTypeOK, RequestRecords
    <3> QED
      BY <3>1, <3>2
  <2>4. LeavesAdmin(r)'
    <3>1. CASE ReadMember(r)
      BY <3>1, <2>1, <2>2, <2>3, <1>3
      DEF ReadMember, GoKnowing, LeavesAdmin, LosesAdmin, At, OrgTyped, OrgTypeOK,
          RequestRecords
    <3>2. CASE CountAdmins(r)
      <4>1. \E u, v \in Admins : u # v
        BY <3>2, <1>3 DEF CountAdmins
      <4> QED
        BY <4>1, <2>1, <2>2 DEF LeavesAdmin
    <3> QED
      BY <3>1, <3>2
  <2>5. ASSUME NEW s \in Requests \ {r}, Deciding(s)'
        PROVE  role'[request'[s].of] = request'[s].read /\ LeavesAdmin(s)'
    <3>1. request'[s] = request[s]
      BY <2>1 DEF OthersAs
    <3> QED
      BY <3>1, <2>1, <2>5, <1>1 DEF Settled, LeavesAdmin, At, LosesAdmin, Deciding
  <2> QED
    BY <1>1, <2>1, <2>2, <2>3, <2>4, <2>5 DEF Settled
<1> QED
  BY <1>2, <1>3

LEMMA SettledWrites ==
  ASSUME OrgTyped, Settled, NEW r \in Requests, WriteMember(r)
  PROVE  Settled'
<1> SUFFICES ASSUME ~raced' PROVE Settled'
  BY DEF Settled
<1> DEFINE u == request[r].of
<1>1. ~raced /\ \A s \in Requests \ {r} : ~Deciding(s)
  BY DEF WriteMember
<1>2. OthersAs(r) /\ ~Deciding(r)'
  BY IdleDecidesNothing DEF WriteMember
<1>3. \A s \in Requests : ~Deciding(s)'
  BY <1>1, <1>2 DEF OthersAs, Deciding, At
<1>4. /\ Admins # {} /\ role[u] = request[r].read /\ LeavesAdmin(r)
  BY <1>1 DEF Settled, WriteMember, Deciding
<1>5. /\ u \in Users /\ request[r].op \in {"remove", "role"}
      /\ request[r].step = "write" /\ request[r].role \in Roles
  BY DEF WriteMember, At, OrgTyped, OrgTypeOK, RequestRecords
<1>6. \A v \in Users \ {u} : role'[v] = role[v]
  BY <1>5 DEF WriteMember, OrgTyped, OrgTypeOK
<1>7. Admins' # {}
  <2>1. CASE LosesAdmin(r, request[r].read)
    BY <2>1, <1>4, <1>5, <1>6 DEF LeavesAdmin, At, Admins
  <2>2. CASE ~LosesAdmin(r, request[r].read) /\ role[u] = "admin"
    <3>1. request[r].op = "role" /\ request[r].role = "admin"
      BY <2>2, <1>4, <1>5 DEF LosesAdmin, Roles
    <3>2. role'[u] = "admin"
      BY <3>1, <2>2, <1>5 DEF WriteMember, OrgTyped, OrgTypeOK
    <3> QED
      BY <3>2, <1>5 DEF Admins
  <2>3. CASE role[u] # "admin"
    BY <2>3, <1>4, <1>6 DEF Admins
  <2> QED
    BY <2>1, <2>2, <2>3
<1> QED
  BY <1>3, <1>7 DEF Settled

\* The organisation has an admin, unless two requests raced about members.
THEOREM AdminRemains == OrgSpec => []AdminStays
<1>1. OrgInit => Settled
  BY OrganisationAssumption
  DEF OrgInit, Settled, Admins, Deciding, At, Idle
<1>2. ASSUME OrgTyped, Settled, [OrgNext]_orgVars PROVE Settled'
  <2>1. ASSUME NEW r \in Requests,
               \/ Asks(r) \/ VerifyOrgAdmin(r) \/ Invites(r)
               \/ AnswersInvitation(r) \/ ChangesMember(r) \/ ChangesKeys(r)
        PROVE  Settled'
    BY <1>2, <2>1, SettledAsks, SettledInvites, SettledAnswers, SettledReads,
       SettledWrites DEF ChangesMember
  <2>2. ASSUME NEW v \in Users, Lapse(v) PROVE Settled'
    BY <1>2, <2>2
    DEF Lapse, Settled, Admins, Deciding, At, LeavesAdmin, LosesAdmin
  <2>3. CASE UNCHANGED orgVars
    BY <1>2, <2>3
    DEF orgVars, Settled, Admins, Deciding, At, LeavesAdmin, LosesAdmin
  <2> QED
    BY <1>2, <2>1, <2>2, <2>3 DEF OrgNext
<1>3. Settled => AdminStays
  BY DEF Settled, AdminStays
<1> QED
  BY <1>1, <1>2, <1>3, OrgTypedInit, OrgTypedNext, PTL DEF OrgSpec

-----------------------------------------------------------------------------
(* Members and pending invitations.  An invitation that is about to be     *)
(* written for the first time is written for somebody who is not a member: *)
(* joining takes an invitation, which would be the first.                  *)

NotJoined ==
  \A r \in Requests :
    (\/ At(r, {"invite"}, "pending") \/ At(r, {"invite"}, "write"))
      /\ invitation[request[r].of].status = "none"
      => role[request[r].of] = "none"

Apart == NoMemberPending /\ NotJoined

\* Nothing about the other requests, the rows or the members changes but
\* this: nobody joins without closing the row, and no row opens.
LEMMA ApartKept ==
  ASSUME OrgTyped, Apart, NEW r \in Requests, OthersAs(r),
         ~(At(r, {"invite"}, "pending") \/ At(r, {"invite"}, "write"))',
         \A u \in Users :
           /\ invitation'[u].status = "pending" => invitation[u].status = "pending"
           /\ invitation'[u].status = "none" => invitation[u].status = "none"
           /\ role'[u] # "none"
                => role[u] # "none" \/ invitation'[u].status = "accepted"
  PROVE  Apart'
<1>1. NoMemberPending'
  BY DEF Apart, NoMemberPending
<1>2. ASSUME NEW s \in Requests,
             (At(s, {"invite"}, "pending") \/ At(s, {"invite"}, "write"))',
             invitation'[request'[s].of].status = "none"
      PROVE  role'[request'[s].of] = "none"
  <2>1. s # r /\ request'[s] = request[s]
    BY <1>2 DEF OthersAs
  <2>2. request[s].of \in Users
    BY DEF OrgTyped, OrgTypeOK, RequestRecords
  <2>3. At(s, {"invite"}, "pending") \/ At(s, {"invite"}, "write")
    BY <1>2, <2>1 DEF At
  <2> QED
    BY <1>2, <2>1, <2>2, <2>3 DEF Apart, NotJoined
<1> QED
  BY <1>1, <1>2 DEF Apart, NotJoined

LEMMA IdleInvitesNobody ==
  ASSUME OrgTyped, NEW r \in Requests, Answer(r)
  PROVE  /\ OthersAs(r)
         /\ ~(At(r, {"invite"}, "pending") \/ At(r, {"invite"}, "write"))'
  BY DEF Answer, OthersAs, At, Idle, OrgTyped, OrgTypeOK

LEMMA StatusCloses ==
  ASSUME OrgTyped, NEW u \in Users, NEW s \in Statuses \ {"none", "pending"},
         SetStatus(u, s)
  PROVE  /\ invitation'[u].status = s
         /\ \A v \in Users :
              /\ invitation'[v].status = "pending" => invitation[v].status = "pending"
              /\ invitation'[v].status = "none" => invitation[v].status = "none"
  BY DEF SetStatus, NoInvitation, OrgTyped, OrgTypeOK

LEMMA ApartAsks ==
  ASSUME OrgTyped, Apart, NEW r \in Requests, Asks(r) PROVE Apart'
<1>1. ASSUME NEW op, NEW u, NEW v, NEW ro, NEW step \in {"verify", "find"},
             Send(r, op, u, v, ro, step)
      PROVE  Apart'
  <2>1. /\ OthersAs(r)
        /\ ~(At(r, {"invite"}, "pending") \/ At(r, {"invite"}, "write"))'
    BY <1>1 DEF Send, OthersAs, At, OrgTyped, OrgTypeOK
  <2> QED
    BY <2>1, <1>1, ApartKept DEF Send
<1> QED
  BY <1>1
  DEF Asks, HandleInvite, HandleCancel, HandleResend, ConfirmRemove,
      ConfirmRoleChange, HandleAccept, HandleDecline, HandleCreateKey,
      HandleRevokeKey

LEMMA ApartInvites ==
  ASSUME OrgTyped, Apart, NEW r \in Requests,
         CheckMember(r) \/ CheckPending(r) \/ InsertInvitation(r)
  PROVE  Apart'
<1>0. request[r].of \in Users
  BY DEF OrgTyped, OrgTypeOK, RequestRecords
<1>1. CASE Answer(r) /\ UNCHANGED invitation
  <2>1. UNCHANGED role
    BY DEF CheckMember, CheckPending, InsertInvitation
  <2> QED
    BY <1>1, <2>1, IdleInvitesNobody, ApartKept
<1>2. CASE \E step \in {"pending", "write"} : Go(r, step)
  <2>1. /\ UNCHANGED <<role, invitation>>
        /\ invitation[request[r].of].status = "none" => role[request[r].of] = "none"
    <3>1. CASE CheckMember(r)
      BY <3>1, <1>2 DEF CheckMember, Go, Answer, Idle, OrgTyped, OrgTypeOK
    <3>2. CASE CheckPending(r)
      BY <3>2 DEF CheckPending, Apart, NotJoined
    <3>3. CASE InsertInvitation(r)
      BY <3>3, <1>2 DEF InsertInvitation, Go, Answer, Idle, OrgTyped, OrgTypeOK
    <3> QED
      BY <3>1, <3>2, <3>3
  <2>2. /\ OthersAs(r) /\ request'[r].of = request[r].of
    BY <1>2 DEF Go, OthersAs, OrgTyped, OrgTypeOK, RequestRecords
  <2>3. ASSUME NEW s \in Requests,
               (At(s, {"invite"}, "pending") \/ At(s, {"invite"}, "write"))',
               invitation'[request'[s].of].status = "none"
        PROVE  role'[request'[s].of] = "none"
    <3>1. CASE s = r
      BY <3>1, <2>1, <2>2, <2>3
    <3>2. CASE s # r
      BY <3>2, <2>1, <2>2, <2>3 DEF OthersAs, At, Apart, NotJoined
    <3> QED
      BY <3>1, <3>2
  <2> QED
    BY <2>1, <2>3 DEF Apart, NoMemberPending, NotJoined
<1>3. CASE InsertInvitation(r) /\ UniqueIndexAdmits(request[r].of)
  <2> DEFINE u == request[r].of
  <2>1. /\ invitation[u].status = "none" /\ role[u] = "none" /\ UNCHANGED role
        /\ invitation' = [invitation EXCEPT ![u] =
             [status |-> "pending", role |-> request[r].role, lapsed |-> FALSE]]
    BY <1>3 DEF InsertInvitation, UniqueIndexAdmits, Apart, NotJoined
  <2>2. /\ OthersAs(r)
        /\ ~(At(r, {"invite"}, "pending") \/ At(r, {"invite"}, "write"))'
    BY <1>3, IdleInvitesNobody DEF InsertInvitation
  <2>3. /\ invitation'[u].status = "pending"
        /\ \A v \in Users \ {u} : invitation'[v] = invitation[v]
    BY <1>0, <2>1 DEF OrgTyped, OrgTypeOK
  <2> HIDE DEF u
  <2>4. NoMemberPending'
    BY <2>1, <2>3 DEF Apart, NoMemberPending
  <2>5. ASSUME NEW s \in Requests,
               (At(s, {"invite"}, "pending") \/ At(s, {"invite"}, "write"))',
               invitation'[request'[s].of].status = "none"
        PROVE  role'[request'[s].of] = "none"
    <3>1. s # r /\ request'[s] = request[s] /\ request[s].of \in Users
      BY <2>2, <2>5 DEF OthersAs, OrgTyped, OrgTypeOK, RequestRecords
    <3>2. request[s].of # u
      BY <2>3, <2>5, <3>1
    <3> QED
      BY <2>1, <2>3, <2>5, <3>1, <3>2 DEF At, Apart, NotJoined
  <2> QED
    BY <2>4, <2>5 DEF Apart, NotJoined
<1> QED
  BY <1>1, <1>2, <1>3 DEF CheckMember, CheckPending, InsertInvitation

LEMMA ApartAnswers ==
  ASSUME OrgTyped, Apart, NEW r \in Requests, AnswersInvitation(r) PROVE Apart'
<1>0. request[r].of \in Users /\ request[r].by \in Users
  BY DEF OrgTyped, OrgTypeOK, RequestRecords
<1>1. /\ OthersAs(r)
      /\ ~(At(r, {"invite"}, "pending") \/ At(r, {"invite"}, "write"))'
  <2>1. CASE Answer(r)
    BY <2>1, IdleInvitesNobody
  <2>2. CASE ~Answer(r)
    <3>1. /\ request[r].op \in {"accept", "decline"}
          /\ \E step, ro : Go(r, step) \/ GoKnowing(r, step, ro)
      BY <2>2 DEF AnswersInvitation, FindInvitation, ExpireInvitation,
                  CheckJoined, MarkInvitation, Join, At
    <3> QED
      BY <3>1 DEF Go, GoKnowing, OthersAs, At, OrgTyped, OrgTypeOK, RequestRecords
  <2> QED
    BY <2>1, <2>2
<1>2. CASE UNCHANGED <<role, invitation>>
  BY <1>1, <1>2, ApartKept
<1>3. CASE ExpireInvitation(r) \/ MarkInvitation(r)
  <2>1. /\ UNCHANGED role
        /\ \E s \in Statuses \ {"none", "pending"} : SetStatus(request[r].of, s)
    BY <1>3 DEF ExpireInvitation, MarkInvitation, Statuses
  <2> QED
    BY <1>0, <1>1, <2>1, StatusCloses, ApartKept
<1>4. CASE Join(r) /\ ~UNCHANGED <<role, invitation>>
  <2>1. /\ role' = [role EXCEPT ![request[r].by] = request[r].read]
        /\ SetStatus(request[r].by, "accepted")
    BY <1>4 DEF Join
  <2>2. \A v \in Users : v # request[r].by => role'[v] = role[v]
    BY <1>0, <2>1 DEF OrgTyped, OrgTypeOK
  <2>3. "accepted" \in Statuses \ {"none", "pending"}
    BY DEF Statuses
  <2> QED
    BY <1>0, <1>1, <2>1, <2>2, <2>3, StatusCloses, ApartKept
<1> QED
  BY <1>2, <1>3, <1>4 DEF AnswersInvitation, FindInvitation, CheckJoined

LEMMA ApartOthers ==
  ASSUME OrgTyped, Apart, NEW r \in Requests,
         \/ VerifyOrgAdmin(r) \/ ReadInvitation(r) \/ CancelInvitation(r)
         \/ ExtendInvitation(r) \/ ChangesMember(r) \/ ChangesKeys(r)
  PROVE  Apart'
<1>0. request[r].of \in Users
  BY DEF OrgTyped, OrgTypeOK, RequestRecords
<1>1. /\ OthersAs(r)
      /\ ~(At(r, {"invite"}, "pending") \/ At(r, {"invite"}, "write"))'
  <2>1. CASE Answer(r)
    BY <2>1, IdleInvitesNobody
  <2>2. CASE ~Answer(r) /\ ~VerifyOrgAdmin(r)
    <3>1. /\ request[r].op # "invite"
          /\ \E step, ro : Go(r, step) \/ GoKnowing(r, step, ro)
      BY <2>2 DEF ReadInvitation, CancelInvitation, ExtendInvitation,
                  ChangesMember, ReadMember, CountAdmins, WriteMember,
                  ChangesKeys, CountKeys, InsertKey, DeleteKey, At
    <3> QED
      BY <3>1 DEF Go, GoKnowing, OthersAs, At, OrgTyped, OrgTypeOK, RequestRecords
  <2>3. CASE ~Answer(r) /\ VerifyOrgAdmin(r)
    <3>1. Go(r, AfterVerify[request[r].op]) /\ request[r].op \in Ops
      BY <2>3 DEF VerifyOrgAdmin, At
    <3>2. request[r].op = "invite" => AfterVerify[request[r].op] = "member"
      BY <3>1 DEF AfterVerify
    <3> QED
      BY <3>1, <3>2 DEF Go, OthersAs, At, OrgTyped, OrgTypeOK, RequestRecords
  <2> QED
    BY <2>1, <2>2, <2>3
<1>2. \A u \in Users :
           /\ invitation'[u].status = "pending" => invitation[u].status = "pending"
           /\ invitation'[u].status = "none" => invitation[u].status = "none"
  <2>1. CASE CancelInvitation(r)
    BY <1>0, <2>1, StatusCloses DEF CancelInvitation, Statuses
  <2>2. CASE ExtendInvitation(r)
    BY <1>0, <2>2 DEF ExtendInvitation, OrgTyped, OrgTypeOK
  <2>3. CASE UNCHANGED invitation
    BY <2>3
  <2> QED
    BY <2>1, <2>2, <2>3 DEF VerifyOrgAdmin, ReadInvitation, ChangesMember,
       ReadMember, CountAdmins, WriteMember, ChangesKeys, CountKeys, InsertKey,
       DeleteKey
<1>3. \A u \in Users : role'[u] # "none" => role[u] # "none"
  <2>1. CASE WriteMember(r)
    BY <1>0, <2>1 DEF WriteMember, OrgTyped, OrgTypeOK
  <2>2. CASE UNCHANGED role
    BY <2>2
  <2> QED
    BY <2>1, <2>2 DEF VerifyOrgAdmin, ReadInvitation, CancelInvitation,
       ExtendInvitation, ChangesMember, ReadMember, CountAdmins, ChangesKeys,
       CountKeys, InsertKey, DeleteKey
<1> QED
  BY <1>1, <1>2, <1>3, ApartKept

\* No member has an invitation pending, whatever requests overlap.
THEOREM MembersAreSettled == OrgSpec => []NoMemberPending
<1>1. OrgInit => Apart
  BY OrganisationAssumption
  DEF OrgInit, Apart, NoMemberPending, NotJoined, NoInvitation, At, Idle
<1>2. ASSUME OrgTyped, Apart, [OrgNext]_orgVars PROVE Apart'
  <2>1. ASSUME NEW r \in Requests,
               \/ Asks(r) \/ VerifyOrgAdmin(r) \/ Invites(r)
               \/ AnswersInvitation(r) \/ ChangesMember(r) \/ ChangesKeys(r)
        PROVE  Apart'
    BY <1>2, <2>1, ApartAsks, ApartInvites, ApartAnswers, ApartOthers
    DEF Invites
  <2>2. ASSUME NEW v \in Users, Lapse(v) PROVE Apart'
    <3>1. \A u \in Users : invitation'[u].status = invitation[u].status
      BY <1>2, <2>2 DEF Lapse, OrgTyped, OrgTypeOK
    <3>2. UNCHANGED <<role, request>>
      BY <2>2 DEF Lapse
    <3>3. \A r \in Requests : request[r].of \in Users
      BY <1>2 DEF OrgTyped, OrgTypeOK, RequestRecords
    <3> QED
      BY <1>2, <3>1, <3>2, <3>3 DEF Apart, NoMemberPending, NotJoined, At
  <2>3. CASE UNCHANGED orgVars
    BY <1>2, <2>3 DEF orgVars, Apart, NoMemberPending, NotJoined, At
  <2> QED
    BY <1>2, <2>1, <2>2, <2>3 DEF OrgNext
<1> QED
  BY <1>1, <1>2, OrgTypedInit, OrgTypedNext, PTL DEF OrgSpec, Apart

-----------------------------------------------------------------------------
(* Keys.  Every key that is about to be inserted was counted when there    *)
(* was room, with the others that are about to be.                         *)

Inserting == {r \in Requests : At(r, {"createKey"}, "write")}

KeysCounted ==
  apiKeys + Cardinality(Inserting) < MaxApiKeys + Cardinality(Requests)

LEMMA FewInserting ==
  ASSUME NEW S \in SUBSET Requests
  PROVE  /\ IsFiniteSet(S) /\ Cardinality(S) \in Nat
         /\ Cardinality(S) <= Cardinality(Requests)
         /\ Cardinality(Requests) \in Nat
  BY FS_Subset, FS_CardinalityType, OrganisationAssumption

LEMMA KeysCountedKept ==
  ASSUME OrgTyped, OrgTyped', KeysCounted, apiKeys' <= apiKeys,
         Inserting' \subseteq Inserting
  PROVE  KeysCounted'
<1>1. Inserting \in SUBSET Requests /\ Inserting' \in SUBSET Requests
  BY DEF Inserting
<1>2. Cardinality(Inserting') <= Cardinality(Inserting)
  BY <1>1, FewInserting, FS_Subset
<1>3. /\ Cardinality(Inserting') \in Nat /\ Cardinality(Inserting) \in Nat
      /\ Cardinality(Requests) \in Nat
  BY <1>1, FewInserting
<1> QED
  BY <1>2, <1>3, OrganisationAssumption DEF KeysCounted, OrgTyped, OrgTypeOK

LEMMA KeysStep ==
  ASSUME OrgTyped, OrgTyped', KeysCounted, NEW r \in Requests, ChangesKeys(r)
  PROVE  KeysCounted'
<1>1. CASE Answer(r) /\ ~InsertKey(r)
  <2>1. Inserting' \subseteq Inserting
    BY <1>1 DEF Answer, Inserting, At, Idle, OrgTyped, OrgTypeOK
  <2>2. apiKeys' <= apiKeys
    BY <1>1 DEF ChangesKeys, CountKeys, DeleteKey, OrgTyped, OrgTypeOK
  <2> QED
    BY <2>1, <2>2, KeysCountedKept
<1>2. CASE InsertKey(r)
  <2>1. r \in Inserting /\ Answer(r) /\ apiKeys' = apiKeys + 1
    BY <1>2 DEF InsertKey, Inserting
  <2>2. Inserting' = Inserting \ {r}
    BY <2>1 DEF Answer, Inserting, At, Idle, OrgTyped, OrgTypeOK
  <2>3. Inserting \in SUBSET Requests
    BY DEF Inserting
  <2>4. /\ Cardinality(Inserting') = Cardinality(Inserting) - 1
        /\ Cardinality(Inserting) \in Nat /\ Cardinality(Requests) \in Nat
    BY <2>1, <2>2, <2>3, FewInserting, FS_RemoveElement
  <2> QED
    BY <2>1, <2>4, OrganisationAssumption DEF KeysCounted, OrgTyped, OrgTypeOK
<1>3. CASE CountKeys(r) /\ ~Answer(r)
  <2>1. apiKeys < MaxApiKeys /\ UNCHANGED apiKeys
    BY <1>3, OrganisationAssumption DEF CountKeys, OrgTyped, OrgTypeOK
  <2>2. Inserting' \in SUBSET Requests
    BY DEF Inserting
  <2> QED
    BY <2>1, <2>2, FewInserting, OrganisationAssumption
    DEF KeysCounted, OrgTyped, OrgTypeOK
<1> QED
  BY <1>1, <1>2, <1>3 DEF ChangesKeys, DeleteKey, CountKeys

LEMMA KeysElsewhere ==
  ASSUME OrgTyped, OrgTyped', KeysCounted, NEW r \in Requests,
         \/ Asks(r) \/ VerifyOrgAdmin(r) \/ Invites(r)
         \/ AnswersInvitation(r) \/ ChangesMember(r)
  PROVE  KeysCounted'
<1>1. UNCHANGED apiKeys
  BY DEF Asks, HandleInvite, HandleCancel, HandleResend, ConfirmRemove,
      ConfirmRoleChange, HandleAccept, HandleDecline, HandleCreateKey,
      HandleRevokeKey, Send, VerifyOrgAdmin, Invites, CheckMember, CheckPending,
      InsertInvitation, ReadInvitation, CancelInvitation, ExtendInvitation,
      AnswersInvitation, FindInvitation, ExpireInvitation, CheckJoined,
      MarkInvitation, Join, ChangesMember, ReadMember, CountAdmins, WriteMember
<1>2. OthersAs(r) /\ r \notin Inserting'
  <2>1. CASE Answer(r)
    BY <2>1 DEF Answer, OthersAs, Inserting, At, Idle, OrgTyped, OrgTypeOK
  <2>2. CASE ~Answer(r) /\ ~VerifyOrgAdmin(r) /\ ~Asks(r)
    <3>1. /\ request[r].op # "createKey"
          /\ \E step, ro : Go(r, step) \/ GoKnowing(r, step, ro)
      BY <2>2 DEF Invites, CheckMember, CheckPending,
        InsertInvitation, ReadInvitation, CancelInvitation, ExtendInvitation,
        AnswersInvitation, FindInvitation, ExpireInvitation, CheckJoined,
        MarkInvitation, Join, ChangesMember, ReadMember, CountAdmins,
        WriteMember, At
    <3> QED
      BY <3>1 DEF Go, GoKnowing, OthersAs, Inserting, At, OrgTyped, OrgTypeOK,
                  RequestRecords
  <2>3. CASE ~Answer(r) /\ VerifyOrgAdmin(r)
    <3>1. Go(r, AfterVerify[request[r].op]) /\ request[r].op \in Ops
      BY <2>3 DEF VerifyOrgAdmin, At
    <3>2. request[r].op = "createKey" => AfterVerify[request[r].op] = "count"
      BY <3>1 DEF AfterVerify
    <3> QED
      BY <3>1, <3>2 DEF Go, OthersAs, Inserting, At, OrgTyped, OrgTypeOK,
                        RequestRecords
  <2>4. CASE Asks(r)
    <3>1. \E op, u, v, ro : \E step \in {"verify", "find"} :
            Send(r, op, u, v, ro, step)
      BY <2>4
      DEF Asks, HandleInvite, HandleCancel, HandleResend, ConfirmRemove,
          ConfirmRoleChange, HandleAccept, HandleDecline, HandleCreateKey,
          HandleRevokeKey
    <3> QED
      BY <3>1 DEF Send, OthersAs, Inserting, At, OrgTyped, OrgTypeOK
  <2> QED
    BY <2>1, <2>2, <2>3, <2>4
<1>3. Inserting' \subseteq Inserting
  BY <1>2 DEF OthersAs, Inserting, At
<1>4. apiKeys' <= apiKeys
  BY <1>1 DEF OrgTyped, OrgTypeOK
<1> QED
  BY <1>3, <1>4, KeysCountedKept

\* The limit on the keys is exceeded by the requests that overlap, at most.
THEOREM KeysStayBounded == OrgSpec => []KeysBounded
<1>1. OrgInit => KeysCounted
  <2> SUFFICES ASSUME OrgInit PROVE KeysCounted
    OBVIOUS
  <2>1. Inserting = {} /\ apiKeys = 0
    BY DEF OrgInit, Inserting, At, Idle
  <2>2. Cardinality(Inserting) = 0 /\ Cardinality(Requests) \in Nat
    BY <2>1, FS_EmptySet, FewInserting
  <2> QED
    BY <2>1, <2>2, OrganisationAssumption DEF KeysCounted
<1>2. ASSUME OrgTyped, KeysCounted, [OrgNext]_orgVars PROVE KeysCounted'
  <2>0. OrgTyped'
    BY <1>2, OrgTypedNext
  <2>1. ASSUME NEW r \in Requests,
               \/ Asks(r) \/ VerifyOrgAdmin(r) \/ Invites(r)
               \/ AnswersInvitation(r) \/ ChangesMember(r) \/ ChangesKeys(r)
        PROVE  KeysCounted'
    BY <1>2, <2>0, <2>1, KeysStep, KeysElsewhere
  <2>2. ASSUME NEW v \in Users, Lapse(v) PROVE KeysCounted'
    BY <1>2, <2>2 DEF Lapse, KeysCounted, Inserting, At
  <2>3. CASE UNCHANGED orgVars
    BY <1>2, <2>3 DEF orgVars, KeysCounted, Inserting, At
  <2> QED
    BY <1>2, <2>1, <2>2, <2>3 DEF OrgNext
<1>3. OrgTyped /\ KeysCounted => KeysBounded
  <2>1. Inserting \in SUBSET Requests
    BY DEF Inserting
  <2> QED
    BY <2>1, FewInserting, OrganisationAssumption
    DEF KeysCounted, KeysBounded, OrgTyped, OrgTypeOK
<1> QED
  BY <1>1, <1>2, <1>3, OrgTypedInit, OrgTypedNext, PTL DEF OrgSpec

(***************************************************************************)
(*                               Webhooks                                  *)
(***************************************************************************)
-----------------------------------------------------------------------------
(* Types.  A batch that works has a delivery, room for it, and an attempt  *)
(* left; a row that is not settled has attempts left.                      *)

Working == Steps \ {"idle", "popping"}

InHand ==
  \A b \in Batches :
    /\ pc[b] \in Working => held[b] \in Deliveries /\ turn[b] < BatchSize
    /\ pc[b] \notin Working => held[b] = NoDelivery
    /\ copy[b] < MaxAttempts
AttemptsLeft ==
  \A d \in Deliveries : row[d] \in {"none", "pending"} => attempts[d] < MaxAttempts

Typed == TypeOK /\ InHand /\ AttemptsLeft

LEMMA TypedInit == Init => Typed
<1> SUFFICES ASSUME Init PROVE Typed
  OBVIOUS
<1> USE WebhookAssumption DEF Init
<1>1. list \in Seq(Deliveries)
  OBVIOUS
<1>2. /\ 0 \in 0 .. MaxAttempts /\ 0 \in 0 .. BatchSize /\ 0 \in 0 .. MaxFaults
      /\ 0 < MaxAttempts
  OBVIOUS
<1>3. TypeOK
  BY <1>1, <1>2 DEF TypeOK, Steps
<1>4. InHand /\ AttemptsLeft
  BY <1>2 DEF InHand, AttemptsLeft, Working, Steps
<1> QED
  BY <1>3, <1>4 DEF Typed

\* A push that is made twice.
LEMMA TwoPushes ==
  ASSUME NEW S, NEW l \in Seq(S), NEW e \in S
  PROVE  /\ l \o <<e, e>> \in Seq(S)
         /\ l \o <<e, e>> = Append(Append(l, e), e)
<1>1. /\ <<e, e>> \in Seq(S) /\ Len(<<e, e>>) = 2
      /\ <<e, e>>[1] = e /\ <<e, e>>[2] = e
  OBVIOUS
<1>2. l \o <<e, e>> \in Seq(S) /\ Len(l \o <<e, e>>) = Len(l) + 2
  BY <1>1
<1>3. Append(Append(l, e), e) \in Seq(S) /\ Len(Append(Append(l, e), e)) = Len(l) + 2
  OBVIOUS
<1>4. ASSUME NEW i \in 1 .. Len(l) + 2
      PROVE  (l \o <<e, e>>)[i] = Append(Append(l, e), e)[i]
  <2>1. CASE i \in 1 .. Len(l)
    BY <2>1, <1>1
  <2>2. CASE i = Len(l) + 1
    BY <2>2, <1>1
  <2>3. CASE i = Len(l) + 2
    BY <2>3, <1>1
  <2> QED
    BY <2>1, <2>2, <2>3
<1> QED
  BY <1>2, <1>3, <1>4

LEMMA TypedTable ==
  ASSUME Typed,
         \/ \E d \in Deliveries : Insert(d) \/ Push(d) \/ PushFails(d)
         \/ \E w \in Webhooks : SetActive(w) \/ DeleteWebhook(w)
         \/ LockExpires
  PROVE  Typed'
<1> USE WebhookAssumption DEF Typed, TypeOK, InHand, AttemptsLeft, table, redis, batch, history
<1>1. ASSUME NEW d \in Deliveries, Insert(d) PROVE Typed'
  BY <1>1 DEF Insert
<1>2. ASSUME NEW d \in Deliveries, Push(d) PROVE Typed'
  BY <1>2 DEF Push
<1>3. ASSUME NEW d \in Deliveries, PushFails(d) PROVE Typed'
  <2>1. faults' \in 0 .. MaxFaults
    BY <1>3 DEF PushFails, Fault, CanFault
  <2>0. list \o <<d, d>> \in Seq(Deliveries)
    BY TwoPushes
  <2>2. /\ list' \in Seq(Deliveries)
        /\ resent' \in SUBSET Deliveries /\ dropped' \in SUBSET Deliveries
    BY <1>3, <2>0 DEF PushFails
  <2>3. entering' \in SUBSET Deliveries
    BY <1>3 DEF PushFails
  <2>4. UNCHANGED <<row, attempts, webhook, lock, pc, held, copy, turn, posts, accepted, refused>>
    BY <1>3 DEF PushFails
  <2> HIDE WebhookAssumption DEF table, redis, batch, history
  <2> QED
    BY <2>1, <2>2, <2>3, <2>4
<1>4. ASSUME NEW w \in Webhooks, SetActive(w) PROVE Typed'
  BY <1>4 DEF SetActive
<1>5. ASSUME NEW w \in Webhooks, DeleteWebhook(w) PROVE Typed'
  BY <1>5 DEF DeleteWebhook
<1>6. ASSUME LockExpires PROVE Typed'
  BY <1>6 DEF LockExpires
<1> QED
  BY <1>1, <1>2, <1>3, <1>4, <1>5, <1>6

\* processOne is over: the batch is between two deliveries again.
LEMMA TypedNextTurn ==
  ASSUME Typed, NEW b \in Batches, NEW from \in Working, NextTurn(b, from)
  PROVE  /\ pc' \in [Batches -> Steps]
         /\ held' \in [Batches -> Deliveries \cup {NoDelivery}]
         /\ copy' \in [Batches -> 0 .. MaxAttempts]
         /\ turn' \in [Batches -> 0 .. BatchSize]
         /\ InHand'
         /\ held[b] \in Deliveries
<1> USE WebhookAssumption DEF Typed, TypeOK, InHand
<1>1. pc[b] \in Working /\ "popping" \in Steps \ Working
  BY DEF NextTurn, Goto, Working, Steps
<1>2. /\ pc' = [pc EXCEPT ![b] = "popping"]
      /\ held' = [held EXCEPT ![b] = NoDelivery]
      /\ copy' = [copy EXCEPT ![b] = 0]
      /\ turn' = [turn EXCEPT ![b] = turn[b] + 1]
  BY DEF NextTurn, Goto, PutDown
<1>3. turn[b] + 1 \in 0 .. BatchSize /\ held[b] \in Deliveries
  BY <1>1
<1>4. 0 \in 0 .. MaxAttempts /\ 0 < MaxAttempts
  OBVIOUS
<1>5. InHand'
  BY <1>1, <1>2, <1>4
<1> QED
  BY <1>1, <1>2, <1>3, <1>4, <1>5

LEMMA TypedAbort ==
  ASSUME Typed, NEW b \in Batches, Abort(b)
  PROVE  /\ pc' \in [Batches -> Steps]
         /\ held' \in [Batches -> Deliveries \cup {NoDelivery}]
         /\ copy' \in [Batches -> 0 .. MaxAttempts]
         /\ turn' \in [Batches -> 0 .. BatchSize]
         /\ InHand'
BY WebhookAssumption
DEF Typed, TypeOK, InHand, Abort, PutDown, Working, Steps

LEMMA TypedBatch ==
  ASSUME Typed, NEW b \in Batches, Tick(b) \/ Pop(b) \/ EndBatch(b) \/ Deliver(b)
  PROVE  Typed'
<1> USE WebhookAssumption DEF Typed, TypeOK, table, redis, history
<1>1. CASE Tick(b)
  BY <1>1 DEF Tick, Goto, InHand, AttemptsLeft, Working, Steps
<1>2. CASE Pop(b)
  <2>1. Head(list) \in Deliveries /\ Tail(list) \in Seq(Deliveries)
    BY <1>2 DEF Pop
  <2> QED
    BY <1>2, <2>1 DEF Pop, Goto, InHand, AttemptsLeft, Working, Steps
<1>3. CASE EndBatch(b)
  BY <1>3 DEF EndBatch, Goto, InHand, AttemptsLeft, Working, Steps
<1>4. CASE Fetch(b)
  <2>1. held[b] \in Deliveries
    BY <1>4 DEF Fetch, Goto, InHand, Working, Steps
  <2> QED
    BY <1>4, <2>1 DEF Fetch, Goto, InHand, AttemptsLeft, Working, Steps
<1>5. CASE Drop(b)
  <2>1. NextTurn(b, "fetching") /\ "fetching" \in Working
    BY <1>5 DEF Drop, Working, Steps
  <2> QED
    BY <1>5, <2>1, TypedNextTurn DEF Drop, AttemptsLeft
<1>6. CASE Look(b)
  <2>1. held[b] \in Deliveries
    BY <1>6 DEF Look, InHand, Working, Steps
  <2>2. \E to \in {"posting", "refusing"} : Goto(b, "looking", to)
    BY <1>6 DEF Look
  <2>3. refused' \in SUBSET Deliveries
    BY <1>6, <2>1 DEF Look
  <2> QED
    BY <1>6, <2>1, <2>2, <2>3 DEF Look, Goto, InHand, AttemptsLeft, Working, Steps
<1>7. CASE Refuse(b)
  <2>1. NextTurn(b, "refusing") /\ "refusing" \in Working
    BY <1>7 DEF Refuse, Working, Steps
  <2>2. held[b] \in Deliveries
    BY <2>1, TypedNextTurn
  <2>3. row' \in [Deliveries -> {"none", "pending", "success", "failed", "deleted"}]
    BY <1>7, <2>2 DEF Refuse, SetRow
  <2>4. AttemptsLeft'
    BY <1>7, <2>2 DEF Refuse, SetRow, AttemptsLeft
  <2> QED
    BY <1>7, <2>1, <2>3, <2>4, TypedNextTurn DEF Refuse
<1>8. CASE Post(b)
  <2>1. held[b] \in Deliveries
    BY <1>8 DEF Post, InHand, Working, Steps
  <2>2. posts' \in [Deliveries -> Nat] /\ accepted' \in [Deliveries -> Nat]
    <3>1. /\ posts' = [posts EXCEPT ![held[b]] = posts[held[b]] + 1]
          /\ \/ accepted' = [accepted EXCEPT ![held[b]] = accepted[held[b]] + 1]
             \/ accepted' = accepted
      BY <1>8 DEF Post
    <3>2. posts \in [Deliveries -> Nat] /\ accepted \in [Deliveries -> Nat]
      OBVIOUS
    <3> HIDE DEF Typed, TypeOK
    <3> QED
      BY <2>1, <3>1, <3>2
  <2>3. \E to \in {"recording", "counting"} : Goto(b, "posting", to)
    BY <1>8 DEF Post
  <2> QED
    BY <1>8, <2>1, <2>2, <2>3 DEF Post, Goto, InHand, AttemptsLeft, Working, Steps
<1>9. CASE RecordSuccess(b)
  <2>1. NextTurn(b, "recording") /\ "recording" \in Working
    BY <1>9 DEF RecordSuccess, Working, Steps
  <2>2. held[b] \in Deliveries
    BY <2>1, TypedNextTurn
  <2>3. row' \in [Deliveries -> {"none", "pending", "success", "failed", "deleted"}]
    BY <1>9, <2>2 DEF RecordSuccess, SetRow
  <2>4. AttemptsLeft'
    BY <1>9, <2>2 DEF RecordSuccess, SetRow, AttemptsLeft
  <2> QED
    BY <1>9, <2>1, <2>3, <2>4, TypedNextTurn DEF RecordSuccess
<1>10. CASE CountFailure(b)
  <2>0. pc[b] \in Working
    BY <1>10 DEF CountFailure, Working, Steps
  <2>1. held[b] \in Deliveries /\ copy[b] + 1 \in 0 .. MaxAttempts
    BY <2>0 DEF InHand
  <2>2. attempts' = [attempts EXCEPT ![held[b]] = copy[b] + 1]
    BY <1>10 DEF CountFailure
  <2>3. attempts' \in [Deliveries -> 0 .. MaxAttempts]
    BY <2>1, <2>2
  <2>4. CASE copy[b] + 1 >= MaxAttempts
    <3>1. NextTurn(b, "counting") /\ SetRow(held[b], "failed") /\ "counting" \in Working
      BY <1>10, <2>4 DEF CountFailure, Working, Steps
    <3>2. row' \in [Deliveries -> {"none", "pending", "success", "failed", "deleted"}]
      BY <2>1, <3>1 DEF SetRow
    <3>3. AttemptsLeft'
      BY <2>1, <2>2, <3>1 DEF SetRow, AttemptsLeft
    <3> QED
      BY <1>10, <2>3, <3>1, <3>2, <3>3, TypedNextTurn DEF CountFailure
  <2>5. CASE copy[b] + 1 < MaxAttempts
    <3>1. Goto(b, "counting", "requeueing") /\ UNCHANGED <<row, held, copy, turn>>
      BY <1>10, <2>1, <2>5 DEF CountFailure
    <3>2. AttemptsLeft'
      BY <2>1, <2>2, <2>5, <3>1 DEF AttemptsLeft
    <3> QED
      BY <1>10, <2>3, <3>1, <3>2 DEF CountFailure, Goto, InHand, Working, Steps
  <2>6. copy[b] + 1 >= MaxAttempts \/ copy[b] + 1 < MaxAttempts
    BY <2>1
  <2> QED
    BY <2>4, <2>5, <2>6
<1>11. CASE Requeue(b)
  <2>1. NextTurn(b, "requeueing") /\ "requeueing" \in Working
    BY <1>11 DEF Requeue, Working, Steps
  <2>2. held[b] \in Deliveries
    BY <2>1, TypedNextTurn
  <2>3. list' \in Seq(Deliveries)
    BY <1>11, <2>2 DEF Requeue
  <2> QED
    BY <1>11, <2>1, <2>3, TypedNextTurn DEF Requeue, AttemptsLeft
<1> QED
  BY <1>1, <1>2, <1>3, <1>4, <1>5, <1>6, <1>7, <1>8, <1>9, <1>10, <1>11 DEF Deliver

\* What a fault does to one batch.
Mishap(b) == Throw(b) \/ PopUnanswered(b) \/ RequeueUnanswered(b)

LEMMA TypedFault ==
  ASSUME Typed, Crash \/ \E b \in Batches : Mishap(b)
  PROVE  Typed'
<1> USE WebhookAssumption DEF Typed, TypeOK, table, redis
<1>1. CASE Crash
  BY <1>1 DEF Crash, Fault, CanFault, InHand, AttemptsLeft, Working, Steps
<1>2. ASSUME NEW b \in Batches, Throw(b) PROVE Typed'
  <2>1. Abort(b) /\ faults' \in 0 .. MaxFaults
    BY <1>2 DEF Throw, Fault, CanFault
  <2> QED
    BY <1>2, <2>1, TypedAbort DEF Throw, AttemptsLeft
<1>3. ASSUME NEW b \in Batches, RequeueUnanswered(b) PROVE Typed'
  <2>1. faults' \in 0 .. MaxFaults
    BY <1>3 DEF RequeueUnanswered, Fault, CanFault
  <2>2. held[b] \in Deliveries /\ "requeueing" \in Working
    BY <1>3 DEF RequeueUnanswered, NextTurn, Goto, InHand, Working, Steps
  <2>3. /\ list \o <<held[b], held[b]>> \in Seq(Deliveries)
        /\ Append(list, held[b]) \in Seq(Deliveries)
    BY <2>2, TwoPushes
  <2>4. list' \in Seq(Deliveries) /\ resent' \in SUBSET Deliveries
    BY <1>3, <2>2, <2>3 DEF RequeueUnanswered
  <2>5. Abort(b) \/ NextTurn(b, "requeueing")
    BY <1>3 DEF RequeueUnanswered
  <2>6. /\ pc' \in [Batches -> Steps]
        /\ held' \in [Batches -> Deliveries \cup {NoDelivery}]
        /\ copy' \in [Batches -> 0 .. MaxAttempts]
        /\ turn' \in [Batches -> 0 .. BatchSize]
        /\ InHand'
    BY <2>2, <2>5, TypedAbort, TypedNextTurn
  <2>7. UNCHANGED <<row, attempts, webhook, entering, lock, posts, accepted, refused, dropped>>
    BY <1>3 DEF RequeueUnanswered
  <2> QED
    BY <2>1, <2>4, <2>6, <2>7 DEF AttemptsLeft
<1>4. ASSUME NEW b \in Batches, PopUnanswered(b) PROVE Typed'
  <2>1. Head(list) \in Deliveries /\ Tail(list) \in Seq(Deliveries)
    BY <1>4 DEF PopUnanswered
  <2>2. /\ faults' \in 0 .. MaxFaults
        /\ list' \in Seq(Deliveries) /\ dropped' \in SUBSET Deliveries
    BY <1>4, <2>1 DEF PopUnanswered, Fault, CanFault
  <2>3. UNCHANGED <<row, attempts, webhook, entering, lock, posts, accepted, refused, resent>>
    BY <1>4 DEF PopUnanswered
  <2>4. /\ pc' \in [Batches -> Steps]
        /\ held' \in [Batches -> Deliveries \cup {NoDelivery}]
        /\ copy' \in [Batches -> 0 .. MaxAttempts]
        /\ turn' \in [Batches -> 0 .. BatchSize]
        /\ InHand'
    <3>1. CASE Abort(b)
      BY <3>1, TypedAbort
    <3>2. CASE UNCHANGED batch
      BY <3>2 DEF batch, InHand
    <3> QED
      BY <1>4, <3>1, <3>2 DEF PopUnanswered
  <2> QED
    BY <2>2, <2>3, <2>4 DEF AttemptsLeft
<1> QED
  BY <1>1, <1>2, <1>3, <1>4 DEF Mishap

LEMMA TypedNext == Typed /\ [Next]_vars => Typed'
<1> SUFFICES ASSUME Typed, [Next]_vars PROVE Typed'
  OBVIOUS
<1>1. CASE UNCHANGED vars
  BY <1>1 DEF vars, Typed, TypeOK, InHand, AttemptsLeft, table, redis, batch, history
<1>2. CASE Next
  BY <1>2, TypedTable, TypedBatch, TypedFault DEF Next, Mishap
<1> QED
  BY <1>1, <1>2

\* The type invariant: in particular the column attempts never exceeds MAX_ATTEMPTS,
\* ids that were pushed twice included (141-178).
THEOREM TypeCorrect == Spec => []TypeOK
<1>1. Typed => TypeOK
  BY DEF Typed
<1> QED
  BY <1>1, TypedInit, TypedNext, PTL DEF Spec

-----------------------------------------------------------------------------
(* Where an id is, and what its row and its endpoint know of each other    *)
(* meanwhile.                                                              *)

In(l, d) == \E i \in DOMAIN l : l[i] = d
Once(l, d) == \A i, j \in DOMAIN l : l[i] = d /\ l[j] = d => i = j

Alone(d) ==
  /\ Once(list, d)
  /\ \A b, c \in Batches : held[b] = d /\ held[c] = d => b = c
  /\ \A b \in Batches : held[b] = d => ~In(list, d) /\ d \notin entering
  /\ d \in entering => ~In(list, d)
  /\ row[d] = "none" =>
       d \notin entering /\ ~In(list, d) /\ \A b \in Batches : held[b] # d

\* Every POST so far has been counted, none was accepted, and another is allowed.
Ready(d) ==
  /\ row[d] \in {"pending", "deleted"}
  /\ accepted[d] = 0
  /\ posts[d] = attempts[d]
  /\ posts[d] < MaxAttempts

\* What batch b, which has d in hand, stands for.
InStep(b, d) ==
  /\ pc[b] \in {"fetching", "looking", "refusing", "posting", "requeueing"} => Ready(d)
  /\ pc[b] \in {"looking", "refusing", "posting"} => copy[b] = attempts[d]
  /\ pc[b] = "refusing" => d \in refused
  /\ pc[b] \in {"recording", "counting"} =>
       /\ row[d] \in {"pending", "deleted"}
       /\ posts[d] = copy[b] + 1
  /\ pc[b] = "recording" => accepted[d] = 1
  /\ pc[b] = "counting" => accepted[d] = 0

Told(d) ==
  /\ accepted[d] <= 1
  /\ posts[d] <= MaxAttempts
  /\ row[d] = "success" => accepted[d] = 1
  /\ row[d] = "failed" => accepted[d] = 0 /\ (posts[d] = MaxAttempts \/ d \in refused)

Story(d) ==
  /\ row[d] = "none" => posts[d] = 0 /\ accepted[d] = 0 /\ attempts[d] = 0
  /\ d \in entering \/ In(list, d) => Ready(d)
  /\ \A b \in Batches : held[b] = d => InStep(b, d)
  /\ Told(d)

Tracked == \A d \in Deliveries \ resent : Alone(d) /\ Story(d)

LEMMA AppendId ==
  ASSUME NEW S, NEW l \in Seq(S), NEW e \in S, NEW d
  PROVE  /\ d # e => (In(Append(l, e), d) <=> In(l, d))
         /\ d # e => (Once(Append(l, e), d) <=> Once(l, d))
         /\ ~In(l, e) => Once(Append(l, e), e)
<1>1. /\ DOMAIN l = 1 .. Len(l) /\ Len(l) \in Nat
      /\ DOMAIN Append(l, e) = 1 .. Len(l) + 1
      /\ \A i \in 1 .. Len(l) : Append(l, e)[i] = l[i]
      /\ Append(l, e)[Len(l) + 1] = e
  OBVIOUS
<1> QED
  BY <1>1 DEF In, Once

LEMMA TailId ==
  ASSUME NEW S, NEW l \in Seq(S), l # <<>>, NEW d
  PROVE  /\ d # Head(l) => (In(Tail(l), d) <=> In(l, d))
         /\ Once(l, d) => Once(Tail(l), d)
         /\ Once(l, Head(l)) => ~In(Tail(l), Head(l))
         /\ In(l, Head(l))
<1>1. /\ DOMAIN l = 1 .. Len(l) /\ Len(l) \in Nat \ {0}
      /\ DOMAIN Tail(l) = 1 .. Len(l) - 1
      /\ \A i \in 1 .. Len(l) - 1 : Tail(l)[i] = l[i + 1]
      /\ Head(l) = l[1]
  OBVIOUS
<1>2. In(l, Head(l))
  BY <1>1 DEF In
<1>3. ASSUME d # Head(l) PROVE In(Tail(l), d) <=> In(l, d)
  <2>1. ASSUME NEW i \in 1 .. Len(l), l[i] = d PROVE In(Tail(l), d)
    <3>1. i # 1
      BY <1>1, <1>3, <2>1
    <3>2. i - 1 \in 1 .. Len(l) - 1 /\ (i - 1) + 1 = i
      BY <1>1, <3>1
    <3>3. Tail(l)[i - 1] = d
      BY <1>1, <2>1, <3>2
    <3> QED
      BY <1>1, <3>2, <3>3 DEF In
  <2>2. ASSUME NEW i \in 1 .. Len(l) - 1, Tail(l)[i] = d PROVE In(l, d)
    BY <1>1, <2>2 DEF In
  <2> QED
    BY <1>1, <2>1, <2>2 DEF In
<1>4. ASSUME Once(l, d) PROVE Once(Tail(l), d)
  <2>1. ASSUME NEW i \in 1 .. Len(l) - 1, NEW j \in 1 .. Len(l) - 1,
               Tail(l)[i] = d, Tail(l)[j] = d
        PROVE  i = j
    <3>1. i + 1 \in 1 .. Len(l) /\ j + 1 \in 1 .. Len(l) /\ l[i + 1] = d /\ l[j + 1] = d
      BY <1>1, <2>1
    <3>2. i + 1 = j + 1
      BY <1>1, <1>4, <3>1 DEF Once
    <3> QED
      BY <3>2
  <2> QED
    BY <1>1, <2>1 DEF Once
<1>5. ASSUME Once(l, Head(l)) PROVE ~In(Tail(l), Head(l))
  <2> SUFFICES ASSUME NEW i \in 1 .. Len(l) - 1, Tail(l)[i] = Head(l) PROVE FALSE
    BY <1>1 DEF In
  <2>1. i + 1 \in 1 .. Len(l) /\ 1 \in 1 .. Len(l) /\ l[i + 1] = l[1]
    BY <1>1
  <2>2. i + 1 = 1
    BY <1>1, <1>5, <2>1 DEF Once
  <2> QED
    BY <2>2
<1> QED
  BY <1>2, <1>3, <1>4, <1>5

\* A step that moves d nowhere but out of sight, and changes nothing about it but
\* that its row may be deleted.
Untouched(d) ==
  /\ row'[d] = row[d] \/ (row[d] # "none" /\ row'[d] = "deleted")
  /\ attempts'[d] = attempts[d]
  /\ posts'[d] = posts[d]
  /\ accepted'[d] = accepted[d]
  /\ d \in refused => d \in refused'
  /\ Once(list, d) => Once(list', d)
  /\ In(list', d) => In(list, d)
  /\ d \in entering' => d \in entering
  /\ \A b \in Batches : held'[b] = d => held[b] = d /\ pc'[b] = pc[b] /\ copy'[b] = copy[b]

LEMMA UntouchedKept ==
  ASSUME NEW d \in Deliveries, Alone(d), Story(d), Untouched(d)
  PROVE  Alone(d)' /\ Story(d)'
<1>1. Alone(d)'
  BY DEF Alone, Untouched
<1>2. Ready(d) => Ready(d)'
  BY DEF Ready, Untouched
<1>3. ASSUME NEW b \in Batches, held'[b] = d PROVE InStep(b, d)'
  <2>1. InStep(b, d) /\ pc'[b] = pc[b] /\ copy'[b] = copy[b]
    BY <1>3 DEF Untouched, Story
  <2> QED
    BY <1>2, <2>1 DEF InStep, Untouched
<1>4. Told(d)'
  BY DEF Untouched, Story, Told
<1>5. row'[d] = "none" => posts'[d] = 0 /\ accepted'[d] = 0 /\ attempts'[d] = 0
  BY DEF Untouched, Story
<1>6. d \in entering' \/ In(list', d) => Ready(d)'
  BY <1>2 DEF Untouched, Story
<1> QED
  BY <1>1, <1>3, <1>4, <1>5, <1>6 DEF Story

-----------------------------------------------------------------------------
(* The steps outside the batches.                                          *)

LEMMA TrackedInsert ==
  ASSUME Typed, NEW d \in Deliveries, Alone(d), Story(d), NEW e \in Deliveries, Insert(e)
  PROVE  Alone(d)' /\ Story(d)'
<1> USE WebhookAssumption DEF Insert, Typed, TypeOK, batch, history
<1>1. CASE d # e
  <2>1. Untouched(d)
    BY <1>1 DEF Untouched
  <2> QED
    BY <2>1, UntouchedKept
<1>2. CASE d = e
  <2>1. ~In(list, d) /\ \A b \in Batches : held[b] # d
    BY <1>2 DEF Alone
  <2>2. row'[d] = "pending" /\ d \in entering'
    BY <1>2
  <2>3. posts[d] = 0 /\ accepted[d] = 0 /\ attempts[d] = 0
    BY <1>2 DEF Story
  <2>4. Alone(d)'
    BY <1>2, <2>1, <2>2 DEF Alone
  <2>5. Ready(d)' /\ Told(d)'
    BY <2>2, <2>3 DEF Ready, Told
  <2> QED
    BY <2>1, <2>2, <2>4, <2>5 DEF Story
<1> QED
  BY <1>1, <1>2

LEMMA TrackedPush ==
  ASSUME Typed, NEW d \in Deliveries, Alone(d), Story(d), NEW e \in Deliveries, Push(e)
  PROVE  Alone(d)' /\ Story(d)'
<1>1. /\ list \in Seq(Deliveries) /\ list' = Append(list, e)
      /\ e \in entering /\ entering' = entering \ {e}
      /\ UNCHANGED <<row, attempts, posts, accepted, refused, pc, held, copy>>
  BY DEF Push, Typed, TypeOK, table, batch, history
<1>2. CASE d # e
  <2>1. Untouched(d)
    BY <1>1, <1>2, AppendId DEF Untouched
  <2> QED
    BY <2>1, UntouchedKept
<1>3. CASE d = e
  <2>1. ~In(list, d) /\ \A b \in Batches : held[b] # d
    BY <1>1, <1>3 DEF Alone
  <2>2. Once(list', d)
    BY <1>1, <1>3, <2>1, AppendId
  <2>3. Ready(d) /\ Ready(d)' /\ Told(d)'
    BY <1>1, <1>3 DEF Story, Ready, Told
  <2>4. row'[d] # "none"
    BY <2>3 DEF Ready
  <2>5. Alone(d)'
    BY <1>1, <1>3, <2>1, <2>2, <2>4 DEF Alone
  <2> QED
    BY <1>1, <2>1, <2>3, <2>4, <2>5 DEF Story
<1> QED
  BY <1>2, <1>3

\* A client that pushes e twice leaves every other id where it is.
LEMMA PushedTwice ==
  ASSUME Typed, NEW e \in Deliveries, NEW d, d # e
  PROVE  /\ In(list \o <<e, e>>, d) <=> In(list, d)
         /\ Once(list \o <<e, e>>, d) <=> Once(list, d)
<1>1. list \in Seq(Deliveries) /\ Append(list, e) \in Seq(Deliveries)
  BY DEF Typed, TypeOK
<1>2. list \o <<e, e>> = Append(Append(list, e), e)
  BY <1>1, TwoPushes
<1>3. (In(Append(list, e), d) <=> In(list, d)) /\ (Once(Append(list, e), d) <=> Once(list, d))
  BY <1>1, AppendId
<1>4. /\ In(Append(Append(list, e), e), d) <=> In(Append(list, e), d)
      /\ Once(Append(Append(list, e), e), d) <=> Once(Append(list, e), d)
  BY <1>1, AppendId
<1> QED
  BY <1>2, <1>3, <1>4

LEMMA TrackedPushFails ==
  ASSUME Typed, NEW d \in Deliveries \ resent', Alone(d), Story(d),
         NEW e \in Deliveries, PushFails(e)
  PROVE  Alone(d)' /\ Story(d)'
<1>1. /\ entering' = entering \ {e}
      /\ UNCHANGED <<row, attempts, posts, accepted, refused, pc, held, copy>>
  BY DEF PushFails, table, batch
<1>2. list' = list \/ (d # e /\ list' = list \o <<e, e>>)
  BY DEF PushFails
<1>3. (Once(list, d) => Once(list', d)) /\ (In(list', d) => In(list, d))
  BY <1>2, PushedTwice
<1> QED
  BY <1>1, <1>3, UntouchedKept DEF Untouched

LEMMA TrackedOwner ==
  ASSUME Typed, NEW d \in Deliveries, Alone(d), Story(d),
         LockExpires \/ \E w \in Webhooks : SetActive(w) \/ DeleteWebhook(w)
  PROVE  Alone(d)' /\ Story(d)'
<1>1. CASE LockExpires
  BY <1>1, UntouchedKept DEF LockExpires, Untouched, table, batch, history
<1>2. ASSUME NEW w \in Webhooks, SetActive(w) PROVE Alone(d)' /\ Story(d)'
  BY <1>2, UntouchedKept DEF SetActive, Untouched, redis, batch, history
<1>3. ASSUME NEW w \in Webhooks, DeleteWebhook(w) PROVE Alone(d)' /\ Story(d)'
  BY <1>3, UntouchedKept DEF DeleteWebhook, Untouched, redis, batch, history
<1> QED
  BY <1>1, <1>2, <1>3

-----------------------------------------------------------------------------
(* The steps of a batch.                                                   *)

\* d is put down, and is in nobody's hands from then on.
LEMMA PutAway ==
  ASSUME Typed, NEW d \in Deliveries, Alone(d), NEW b \in Batches, held[b] = d,
         held' = [held EXCEPT ![b] = NoDelivery], UNCHANGED <<list, entering>>,
         Told(d)', row'[d] # "none"
  PROVE  Alone(d)' /\ Story(d)'
<1>1. NoDelivery # d /\ held \in [Batches -> Deliveries \cup {NoDelivery}]
  BY WebhookAssumption DEF Typed, TypeOK
<1>2. ~In(list, d) /\ d \notin entering /\ \A c \in Batches : held'[c] # d
  BY <1>1 DEF Alone
<1>3. Alone(d)'
  BY <1>2 DEF Alone
<1> QED
  BY <1>2, <1>3 DEF Story

\* d is put down, and back into the list.
LEMMA PutBack ==
  ASSUME Typed, NEW d \in Deliveries, Alone(d), NEW b \in Batches, held[b] = d,
         held' = [held EXCEPT ![b] = NoDelivery], list' = Append(list, d),
         UNCHANGED entering, Told(d)', Ready(d)'
  PROVE  Alone(d)' /\ Story(d)'
<1>1. /\ NoDelivery # d /\ held \in [Batches -> Deliveries \cup {NoDelivery}]
      /\ list \in Seq(Deliveries)
  BY WebhookAssumption DEF Typed, TypeOK
<1>2. ~In(list, d) /\ d \notin entering /\ \A c \in Batches : held'[c] # d
  BY <1>1 DEF Alone
<1>3. Once(list', d)
  BY <1>1, <1>2, AppendId
<1>4. row'[d] # "none"
  BY DEF Ready
<1>5. Alone(d)'
  BY <1>2, <1>3, <1>4 DEF Alone
<1> QED
  BY <1>2, <1>4, <1>5 DEF Story

\* d stays in the hands of b, which is one step further.
LEMMA Carried ==
  ASSUME Typed, NEW d \in Deliveries, Alone(d), NEW b \in Batches, held[b] = d,
         UNCHANGED <<held, list, entering>>, InStep(b, d)', Told(d)', row'[d] # "none"
  PROVE  Alone(d)' /\ Story(d)'
<1>1. ~In(list, d) /\ d \notin entering /\ \A c \in Batches : held[c] = d => c = b
  BY DEF Alone
<1>2. Alone(d)'
  BY DEF Alone
<1> QED
  BY <1>1, <1>2 DEF Story

LEMMA TrackedPop ==
  ASSUME Typed, NEW d \in Deliveries, Alone(d), Story(d), NEW b \in Batches, Pop(b)
  PROVE  Alone(d)' /\ Story(d)'
<1>1. /\ list \in Seq(Deliveries) /\ list # <<>> /\ list' = Tail(list)
      /\ pc \in [Batches -> Steps] /\ pc[b] = "popping"
      /\ pc' = [pc EXCEPT ![b] = "fetching"]
      /\ held \in [Batches -> Deliveries \cup {NoDelivery}]
      /\ held' = [held EXCEPT ![b] = Head(list)]
      /\ UNCHANGED <<row, attempts, posts, accepted, refused, entering, copy>>
  BY DEF Pop, Goto, Typed, TypeOK, table, history
<1>2. held[b] # d
  BY <1>1, WebhookAssumption DEF Typed, InHand, Working, Steps
<1>3. CASE Head(list) # d
  <2>1. (In(list', d) => In(list, d)) /\ (Once(list, d) => Once(list', d))
    BY <1>1, <1>3, TailId
  <2>2. Untouched(d)
    BY <1>1, <1>2, <1>3, <2>1 DEF Untouched
  <2> QED
    BY <2>2, UntouchedKept
<1>4. CASE Head(list) = d
  <2>1. In(list, d) /\ ~In(list', d) /\ Once(list', d)
    BY <1>1, <1>4, TailId DEF Alone
  <2>2. /\ d \notin entering
        /\ \A c \in Batches : held'[c] = d => c = b
    BY <1>1, <2>1 DEF Alone
  <2>3. Ready(d) /\ Ready(d)' /\ Told(d)'
    BY <1>1, <2>1 DEF Story, Ready, Told
  <2>4. InStep(b, d)' /\ row'[d] # "none"
    BY <1>1, <2>3 DEF InStep, Ready
  <2>5. Alone(d)'
    BY <1>1, <2>1, <2>2, <2>4 DEF Alone
  <2> QED
    BY <1>1, <2>1, <2>2, <2>3, <2>4, <2>5 DEF Story
<1> QED
  BY <1>3, <1>4

\* What a batch does leaves the ids alone that it does not have in hand.
LEMMA Elsewhere ==
  ASSUME Typed, NEW d \in Deliveries, Alone(d), NEW b \in Batches, held[b] # d,
         Tick(b) \/ EndBatch(b) \/ Deliver(b)
  PROVE  Untouched(d)
<1> USE WebhookAssumption DEF Typed, TypeOK, table, redis, history, NextTurn, Goto, PutDown
<1>1. CASE Tick(b)
  BY <1>1 DEF Tick, Untouched
<1>2. CASE EndBatch(b)
  BY <1>2 DEF EndBatch, Untouched
<1>3. CASE Fetch(b) \/ Drop(b)
  BY <1>3 DEF Fetch, Drop, Untouched
<1>4. CASE Look(b)
  BY <1>4 DEF Look, Untouched
<1>5. CASE Refuse(b) \/ RecordSuccess(b)
  BY <1>5 DEF Refuse, RecordSuccess, SetRow, Untouched
<1>6. CASE Post(b)
  BY <1>6 DEF Post, Untouched
<1>7. CASE CountFailure(b)
  BY <1>7 DEF CountFailure, SetRow, Untouched
<1>8. CASE Requeue(b)
  <2>1. held[b] \in Deliveries
    BY <1>8 DEF Requeue, InHand, Working, Steps
  <2>2. (Once(list, d) => Once(list', d)) /\ (In(list', d) => In(list, d))
    BY <1>8, <2>1, AppendId DEF Requeue
  <2> QED
    BY <1>8, <2>2 DEF Requeue, Untouched
<1> QED
  BY <1>1, <1>2, <1>3, <1>4, <1>5, <1>6, <1>7, <1>8 DEF Deliver

\* deliverWebhook with d, one step after the other.
LEMMA TrackedDeliver ==
  ASSUME Typed, NEW d \in Deliveries, Alone(d), Story(d), NEW b \in Batches,
         held[b] = d, Deliver(b)
  PROVE  Alone(d)' /\ Story(d)'
<1>1. /\ row \in [Deliveries -> {"none", "pending", "success", "failed", "deleted"}]
      /\ attempts \in [Deliveries -> 0 .. MaxAttempts]
      /\ posts \in [Deliveries -> Nat] /\ accepted \in [Deliveries -> Nat]
      /\ pc \in [Batches -> Steps] /\ copy \in [Batches -> 0 .. MaxAttempts]
      /\ copy[b] < MaxAttempts /\ MaxAttempts \in Nat
  BY WebhookAssumption DEF Typed, TypeOK, InHand
<1>2. InStep(b, d) /\ Told(d)
  BY DEF Story
<1>3. CASE Fetch(b)
  <2>1. /\ pc[b] = "fetching" /\ pc' = [pc EXCEPT ![b] = "looking"]
        /\ copy' = [copy EXCEPT ![b] = attempts[d]]
        /\ UNCHANGED <<row, attempts, posts, accepted, refused, list, entering, held>>
    BY <1>3 DEF Fetch, Goto, table, redis, history
  <2>2. InStep(b, d)' /\ Told(d)' /\ row'[d] # "none"
    BY <1>1, <1>2, <2>1 DEF InStep, Ready, Told
  <2> QED
    BY <2>1, <2>2, Carried
<1>4. CASE Drop(b)
  <2>1. /\ held' = [held EXCEPT ![b] = NoDelivery]
        /\ UNCHANGED <<row, attempts, posts, accepted, refused, list, entering>>
    BY <1>4 DEF Drop, NextTurn, PutDown, table, redis, history
  <2>2. Told(d)' /\ row'[d] # "none"
    BY <1>2, <1>4, <2>1 DEF Drop, NextTurn, Goto, InStep, Ready, Told
  <2> QED
    BY <2>1, <2>2, PutAway
<1>5. CASE Look(b)
  <2>1. /\ pc[b] = "looking"
        /\ UNCHANGED <<row, attempts, posts, accepted, list, entering, held, copy>>
        /\ \/ pc' = [pc EXCEPT ![b] = "posting"] /\ refused' = refused
           \/ pc' = [pc EXCEPT ![b] = "refusing"] /\ refused' = refused \cup {d}
    BY <1>5 DEF Look, Goto, table, redis
  <2>2. InStep(b, d)' /\ Told(d)' /\ row'[d] # "none"
    BY <1>1, <1>2, <2>1 DEF InStep, Ready, Told
  <2> QED
    BY <2>1, <2>2, Carried
<1>6. CASE Refuse(b)
  <2>1. /\ pc[b] = "refusing" /\ held' = [held EXCEPT ![b] = NoDelivery]
        /\ row'[d] = IF row[d] = "deleted" THEN "deleted" ELSE "failed"
        /\ UNCHANGED <<attempts, posts, accepted, refused, list, entering>>
    BY <1>1, <1>6 DEF Refuse, NextTurn, Goto, PutDown, SetRow, redis, history
  <2>2. Told(d)' /\ row'[d] # "none"
    BY <1>2, <2>1 DEF InStep, Ready, Told
  <2> QED
    BY <2>1, <2>2, PutAway
<1>7. CASE Post(b)
  <2>1. /\ pc[b] = "posting" /\ posts' = [posts EXCEPT ![d] = posts[d] + 1]
        /\ UNCHANGED <<row, attempts, refused, list, entering, held, copy>>
        /\ \/ /\ pc' = [pc EXCEPT ![b] = "recording"]
              /\ accepted' = [accepted EXCEPT ![d] = accepted[d] + 1]
           \/ pc' = [pc EXCEPT ![b] = "counting"] /\ accepted' = accepted
    BY <1>7 DEF Post, Goto, table, redis
  <2>2. Ready(d) /\ copy[b] = attempts[d]
    BY <1>2, <2>1 DEF InStep
  <2>3. InStep(b, d)' /\ Told(d)' /\ row'[d] # "none"
    BY <1>1, <2>1, <2>2 DEF InStep, Ready, Told
  <2> QED
    BY <2>1, <2>3, Carried
<1>8. CASE RecordSuccess(b)
  <2>1. /\ pc[b] = "recording" /\ held' = [held EXCEPT ![b] = NoDelivery]
        /\ row'[d] = IF row[d] = "deleted" THEN "deleted" ELSE "success"
        /\ UNCHANGED <<attempts, posts, accepted, refused, list, entering>>
    BY <1>1, <1>8 DEF RecordSuccess, NextTurn, Goto, PutDown, SetRow, redis, history
  <2>2. Told(d)' /\ row'[d] # "none"
    BY <1>2, <2>1 DEF InStep, Told
  <2> QED
    BY <2>1, <2>2, PutAway
<1>9. CASE CountFailure(b)
  <2>1. /\ pc[b] = "counting" /\ attempts' = [attempts EXCEPT ![d] = copy[b] + 1]
        /\ UNCHANGED <<posts, accepted, refused, list, entering>>
    BY <1>9 DEF CountFailure, redis, history
  <2>2. /\ row[d] \in {"pending", "deleted"} /\ accepted[d] = 0
        /\ posts[d] = copy[b] + 1
    BY <1>2, <2>1 DEF InStep
  <2>3. CASE copy[b] + 1 >= MaxAttempts
    <3>1. /\ held' = [held EXCEPT ![b] = NoDelivery]
          /\ row'[d] = IF row[d] = "deleted" THEN "deleted" ELSE "failed"
      BY <1>1, <1>9, <2>3 DEF CountFailure, NextTurn, PutDown, SetRow
    <3>2. Told(d)' /\ row'[d] # "none"
      BY <1>1, <2>1, <2>2, <2>3, <3>1 DEF Told
    <3> QED
      BY <2>1, <3>1, <3>2, PutAway
  <2>4. CASE copy[b] + 1 < MaxAttempts
    <3>1. pc' = [pc EXCEPT ![b] = "requeueing"] /\ UNCHANGED <<row, held, copy>>
      BY <1>1, <1>9, <2>4 DEF CountFailure, Goto
    <3>2. InStep(b, d)' /\ Told(d)' /\ row'[d] # "none"
      BY <1>1, <2>1, <2>2, <2>4, <3>1 DEF InStep, Ready, Told
    <3> QED
      BY <2>1, <3>1, <3>2, Carried
  <2>5. copy[b] + 1 >= MaxAttempts \/ copy[b] + 1 < MaxAttempts
    BY <1>1
  <2> QED
    BY <2>3, <2>4, <2>5
<1>10. CASE Requeue(b)
  <2>1. /\ pc[b] = "requeueing" /\ held' = [held EXCEPT ![b] = NoDelivery]
        /\ list' = Append(list, d)
        /\ UNCHANGED <<row, attempts, posts, accepted, refused, entering>>
    BY <1>10 DEF Requeue, NextTurn, Goto, PutDown, table, history
  <2>2. Told(d)' /\ Ready(d)'
    BY <1>2, <2>1 DEF InStep, Ready, Told
  <2> QED
    BY <2>1, <2>2, PutBack
<1> QED
  BY <1>3, <1>4, <1>5, <1>6, <1>7, <1>8, <1>9, <1>10 DEF Deliver

\* Calls that throw, or are sent twice, and the end of a process.
LEMMA TrackedFault ==
  ASSUME Typed, NEW d \in Deliveries \ resent', Alone(d), Story(d),
         Crash \/ \E b \in Batches : Mishap(b)
  PROVE  Alone(d)' /\ Story(d)'
<1>1. NoDelivery # d /\ list \in Seq(Deliveries)
      /\ held \in [Batches -> Deliveries \cup {NoDelivery}]
      /\ pc \in [Batches -> Steps] /\ copy \in [Batches -> 0 .. MaxAttempts]
  BY WebhookAssumption DEF Typed, TypeOK
<1>2. CASE Crash
  <2>1. Untouched(d)
    BY <1>1, <1>2 DEF Crash, Untouched, table
  <2> QED
    BY <2>1, UntouchedKept
<1>3. ASSUME NEW b \in Batches, Throw(b) PROVE Alone(d)' /\ Story(d)'
  <2>1. Untouched(d)
    BY <1>1, <1>3 DEF Throw, Abort, PutDown, Untouched, table, redis
  <2> QED
    BY <2>1, UntouchedKept
<1>4. ASSUME NEW b \in Batches, RequeueUnanswered(b) PROVE Alone(d)' /\ Story(d)'
  <2>1. /\ pc[b] = "requeueing" /\ held[b] \in Deliveries
        /\ held' = [held EXCEPT ![b] = NoDelivery]
        /\ copy' = [copy EXCEPT ![b] = 0]
        /\ \A c \in Batches \ {b} : pc'[c] = pc[c]
        /\ UNCHANGED <<row, attempts, posts, accepted, refused, entering>>
    BY <1>1, <1>4
    DEF RequeueUnanswered, NextTurn, Abort, Goto, PutDown, table, Typed, InHand, Working, Steps
  <2>2. \/ list' = Append(list, held[b])
        \/ held[b] # d /\ list' = list \o <<held[b], held[b]>>
    BY <1>4 DEF RequeueUnanswered
  <2>3. CASE held[b] # d
    <3>1. /\ In(Append(list, held[b]), d) <=> In(list, d)
          /\ Once(Append(list, held[b]), d) <=> Once(list, d)
      BY <1>1, <2>1, <2>3, AppendId
    <3>2. /\ In(list \o <<held[b], held[b]>>, d) <=> In(list, d)
          /\ Once(list \o <<held[b], held[b]>>, d) <=> Once(list, d)
      BY <2>1, <2>3, PushedTwice
    <3>3. (Once(list, d) => Once(list', d)) /\ (In(list', d) => In(list, d))
      BY <2>2, <3>1, <3>2
    <3>4. Untouched(d)
      BY <1>1, <2>1, <2>3, <3>3 DEF Untouched
    <3> QED
      BY <3>4, UntouchedKept
  <2>4. CASE held[b] = d
    <3>1. Told(d)' /\ Ready(d)'
      BY <2>1, <2>4 DEF Story, InStep, Ready, Told
    <3> QED
      BY <2>1, <2>2, <2>4, <3>1, PutBack
  <2> QED
    BY <2>3, <2>4
<1>5. ASSUME NEW b \in Batches, PopUnanswered(b) PROVE Alone(d)' /\ Story(d)'
  <2>1. /\ list # <<>> /\ list' = Tail(list)
        /\ UNCHANGED <<row, attempts, posts, accepted, refused, entering>>
        /\ Abort(b) \/ UNCHANGED batch
    BY <1>5 DEF PopUnanswered, table
  <2>2. (In(list', d) => In(list, d)) /\ (Once(list, d) => Once(list', d))
    <3>1. CASE Head(list) # d
      BY <1>1, <2>1, <3>1, TailId
    <3>2. CASE Head(list) = d
      BY <1>1, <2>1, <3>2, TailId
    <3> QED
      BY <3>1, <3>2
  <2>3. \A c \in Batches : held'[c] = d => held[c] = d /\ pc'[c] = pc[c] /\ copy'[c] = copy[c]
    BY <1>1, <2>1 DEF Abort, PutDown, batch
  <2>4. Untouched(d)
    BY <2>1, <2>2, <2>3 DEF Untouched
  <2> QED
    BY <2>4, UntouchedKept
<1> QED
  BY <1>2, <1>3, <1>4, <1>5 DEF Mishap

-----------------------------------------------------------------------------
(* The invariant, and the theorems.                                        *)

LEMMA TrackedInit == Init => Tracked
<1> SUFFICES ASSUME Init, NEW d \in Deliveries PROVE Alone(d) /\ Story(d)
  BY DEF Tracked
<1>1. /\ row[d] = "none" /\ posts[d] = 0 /\ accepted[d] = 0 /\ attempts[d] = 0
      /\ list = <<>> /\ entering = {} /\ \A b \in Batches : held[b] = NoDelivery
  BY DEF Init
<1>2. NoDelivery # d /\ MaxAttempts \in Nat
  BY WebhookAssumption
<1>3. ~In(list, d) /\ Once(list, d)
  BY <1>1 DEF In, Once
<1> QED
  BY <1>1, <1>2, <1>3 DEF Alone, Story, Told

LEMMA ResentStays == [Next]_vars => resent \subseteq resent'
<1> SUFFICES ASSUME [Next]_vars PROVE resent \subseteq resent'
  OBVIOUS
<1>1. CASE UNCHANGED vars
  BY <1>1 DEF vars, history
<1>2. ASSUME NEW e \in Deliveries, Insert(e) \/ Push(e) \/ PushFails(e)
      PROVE  resent \subseteq resent'
  BY <1>2 DEF Insert, Push, PushFails, history
<1>3. ASSUME NEW w \in Webhooks, SetActive(w) \/ DeleteWebhook(w)
      PROVE  resent \subseteq resent'
  BY <1>3 DEF SetActive, DeleteWebhook, history
<1>4. CASE LockExpires \/ Crash
  BY <1>4 DEF LockExpires, Crash, history
<1>5. ASSUME NEW b \in Batches,
             Tick(b) \/ Pop(b) \/ EndBatch(b) \/ Mishap(b)
      PROVE  resent \subseteq resent'
  BY <1>5 DEF Tick, Pop, EndBatch, Mishap, Throw, PopUnanswered, RequeueUnanswered, history
<1>6. ASSUME NEW b \in Batches, Deliver(b) PROVE resent \subseteq resent'
  BY <1>6
  DEF Deliver, Fetch, Drop, Look, Refuse, Post, RecordSuccess, CountFailure, Requeue, history
<1> QED
  BY <1>1, <1>2, <1>3, <1>4, <1>5, <1>6 DEF Next, Mishap

LEMMA TrackedNext == Typed /\ Tracked /\ [Next]_vars => Tracked'
<1> SUFFICES ASSUME Typed, Tracked, [Next]_vars, NEW d \in Deliveries \ resent'
             PROVE  Alone(d)' /\ Story(d)'
  BY DEF Tracked
<1>1. resent \subseteq resent'
  BY ResentStays
<1>2. Alone(d) /\ Story(d)
  BY <1>1 DEF Tracked
<1>3. CASE UNCHANGED vars
  BY <1>2, <1>3, UntouchedKept DEF Untouched, vars, table, redis, batch, history
<1>4. ASSUME NEW e \in Deliveries, Insert(e) \/ Push(e) \/ PushFails(e)
      PROVE  Alone(d)' /\ Story(d)'
  BY <1>2, <1>4, TrackedInsert, TrackedPush, TrackedPushFails
<1>5. CASE LockExpires \/ \E w \in Webhooks : SetActive(w) \/ DeleteWebhook(w)
  BY <1>2, <1>5, TrackedOwner
<1>6. ASSUME NEW b \in Batches, Tick(b) \/ EndBatch(b) \/ Deliver(b)
      PROVE  Alone(d)' /\ Story(d)'
  <2>1. CASE held[b] # d
    BY <1>2, <1>6, <2>1, Elsewhere, UntouchedKept
  <2>2. CASE held[b] = d
    <3>1. pc[b] \in Working
      BY <2>2, WebhookAssumption DEF Typed, InHand
    <3>2. Deliver(b)
      BY <1>6, <3>1 DEF Tick, EndBatch, Goto, Working
    <3> QED
      BY <1>2, <2>2, <3>2, TrackedDeliver
  <2> QED
    BY <2>1, <2>2
<1>7. ASSUME NEW b \in Batches, Pop(b) PROVE Alone(d)' /\ Story(d)'
  BY <1>2, <1>7, TrackedPop
<1>8. CASE Crash \/ \E b \in Batches : Mishap(b)
  BY <1>2, <1>8, TrackedFault
<1> QED
  BY <1>3, <1>4, <1>5, <1>6, <1>7, <1>8 DEF Next, Mishap

LEMMA Followed == Spec => [](Typed /\ Tracked)
<1>1. Typed /\ Tracked /\ [Next]_vars => (Typed /\ Tracked)'
  BY TypedNext, TrackedNext
<1> QED
  BY <1>1, TypedInit, TrackedInit, PTL DEF Spec

\* However often the lock expires under a batch, no two batches work on the same
\* delivery, and none that is worked on is in the list (11-12, 53-57, 195-208).
THEOREM CarriedOnce == Spec => []OneCarrier
<1>1. Tracked => OneCarrier
  BY DEF Tracked, Alone, OneCarrier, Waiting, Carriers, In, Once
<1> QED
  BY <1>1, Followed, PTL

\* Whatever is thrown between a POST and the write that counts it, an endpoint
\* gets a delivery at most MAX_ATTEMPTS times (141-178).
THEOREM AttemptsKept == Spec => []PostsBounded
<1>1. Tracked => PostsBounded
  BY DEF Tracked, Story, Told, PostsBounded
<1> QED
  BY <1>1, Followed, PTL

\* success is written only if the endpoint has accepted, which it does once; failed
\* only after MAX_ATTEMPTS refusals or if the webhook was not active (130-163).
THEOREM OutcomeKept == Spec => []OutcomeIsTrue
<1>1. Tracked => OutcomeIsTrue
  BY DEF Tracked, Story, Told, OutcomeIsTrue
<1> QED
  BY <1>1, Followed, PTL

-----------------------------------------------------------------------------
(* What is pending is somewhere.  A fault that takes a delivery out of the *)
(* list, or out of the hands of a process, says so in dropped.             *)

Found(d) == d \in entering \/ In(list, d) \/ \E b \in Batches : held[b] = d
Kept == \A d \in Deliveries \ dropped : row[d] = "pending" => Found(d)

LEMMA AppendFinds ==
  ASSUME NEW S, NEW l \in Seq(S), NEW e \in S, NEW d, In(l, d) \/ d = e
  PROVE  In(Append(l, e), d)
<1>1. /\ DOMAIN l = 1 .. Len(l) /\ Len(l) \in Nat
      /\ DOMAIN Append(l, e) = 1 .. Len(l) + 1
      /\ \A i \in 1 .. Len(l) : Append(l, e)[i] = l[i]
      /\ Append(l, e)[Len(l) + 1] = e
  OBVIOUS
<1> QED
  BY <1>1 DEF In

LEMMA AppendTwiceFinds ==
  ASSUME NEW S, NEW l \in Seq(S), NEW e \in S, NEW d, In(l, d) \/ d = e
  PROVE  In(l \o <<e, e>>, d)
<1>1. Append(l, e) \in Seq(S) /\ l \o <<e, e>> = Append(Append(l, e), e)
  BY TwoPushes
<1>2. In(Append(l, e), d)
  BY AppendFinds
<1> QED
  BY <1>1, <1>2, AppendFinds

LEMMA KeptTable ==
  ASSUME Typed, NEW d \in Deliveries \ dropped', row'[d] = "pending",
         d \notin dropped /\ row[d] = "pending" => Found(d),
         \/ \E e \in Deliveries : Insert(e) \/ Push(e) \/ PushFails(e)
         \/ \E w \in Webhooks : SetActive(w) \/ DeleteWebhook(w)
         \/ LockExpires
  PROVE  Found(d)'
<1>0. list \in Seq(Deliveries) /\ row \in [Deliveries -> {"none", "pending", "success", "failed", "deleted"}]
  BY DEF Typed, TypeOK
<1>1. ASSUME NEW e \in Deliveries, Insert(e) PROVE Found(d)'
  BY <1>0, <1>1 DEF Insert, Found, batch, history
<1>2. ASSUME NEW e \in Deliveries, Push(e) PROVE Found(d)'
  <2>1. list' = Append(list, e) /\ entering' = entering \ {e}
        /\ UNCHANGED <<row, held, dropped>>
    BY <1>2 DEF Push, table, batch, history
  <2> QED
    BY <1>0, <2>1, AppendFinds DEF Found
<1>3. ASSUME NEW e \in Deliveries, PushFails(e) PROVE Found(d)'
  <2>1. entering' = entering \ {e} /\ UNCHANGED <<row, held>>
    BY <1>3 DEF PushFails, table, batch
  <2>2. \/ dropped' = dropped \cup {e} /\ list' = list
        \/ dropped' = dropped /\ list' = list \o <<e, e>>
    BY <1>3 DEF PushFails
  <2>3. d # e \/ list' = list \o <<e, e>>
    BY <2>2
  <2>4. Found(d)
    BY <2>1, <2>2
  <2> QED
    <3>1. CASE list' = list /\ d # e
      BY <2>1, <2>4, <3>1 DEF Found
    <3>2. CASE list' = list \o <<e, e>>
      <4>1. In(list, d) \/ d = e => In(list', d)
        BY <1>0, <3>2, AppendTwiceFinds
      <4> QED
        BY <2>1, <2>4, <4>1 DEF Found
    <3> QED
      BY <2>2, <2>3, <3>1, <3>2
<1>4. ASSUME NEW w \in Webhooks, SetActive(w) \/ DeleteWebhook(w) PROVE Found(d)'
  BY <1>0, <1>4 DEF SetActive, DeleteWebhook, Found, redis, batch, history
<1>5. CASE LockExpires
  BY <1>5 DEF LockExpires, Found, table, batch, history
<1> QED
  BY <1>1, <1>2, <1>3, <1>4, <1>5

LEMMA KeptPop ==
  ASSUME Typed, NEW d \in Deliveries, Found(d), NEW b \in Batches, Pop(b)
  PROVE  Found(d)'
<1>1. /\ list \in Seq(Deliveries) /\ list # <<>> /\ list' = Tail(list)
      /\ held \in [Batches -> Deliveries \cup {NoDelivery}]
      /\ held' = [held EXCEPT ![b] = Head(list)]
      /\ entering' = entering /\ held[b] = NoDelivery
  BY DEF Pop, Goto, Typed, TypeOK, InHand, Working, Steps
<1>2. d # NoDelivery
  BY WebhookAssumption
<1>3. CASE Head(list) = d
  BY <1>1, <1>3 DEF Found
<1>4. CASE Head(list) # d
  BY <1>1, <1>2, <1>4, TailId DEF Found
<1> QED
  BY <1>3, <1>4

\* Whoever has put a delivery down has settled it or pushed its id again.
LEMMA KeptDeliver ==
  ASSUME Typed, NEW d \in Deliveries, row'[d] = "pending",
         row[d] = "pending" => Found(d), NEW b \in Batches, Deliver(b)
  PROVE  Found(d)'
<1>1. /\ row \in [Deliveries -> {"none", "pending", "success", "failed", "deleted"}]
      /\ held \in [Batches -> Deliveries \cup {NoDelivery}] /\ NoDelivery # d
      /\ list \in Seq(Deliveries) /\ held[b] \in Deliveries
  BY WebhookAssumption
  DEF Typed, TypeOK, InHand, Deliver, Fetch, Drop, Look, Refuse, Post, RecordSuccess,
      CountFailure, Requeue, NextTurn, Goto, Working, Steps
<1>2. CASE Fetch(b) \/ Look(b) \/ Post(b)
  <2>1. UNCHANGED <<row, list, entering, held>>
    BY <1>2 DEF Fetch, Look, Post, table, redis
  <2> QED
    BY <2>1 DEF Found
<1>3. CASE Drop(b)
  <2>1. /\ row[held[b]] # "pending" /\ UNCHANGED <<row, list, entering>>
        /\ held' = [held EXCEPT ![b] = NoDelivery]
    BY <1>3 DEF Drop, NextTurn, PutDown, table, redis
  <2> QED
    BY <1>1, <2>1 DEF Found
<1>4. CASE Refuse(b) \/ RecordSuccess(b)
  <2>1. /\ \E s \in {"failed", "success"} : SetRow(held[b], s)
        /\ UNCHANGED <<list, entering>>
        /\ held' = [held EXCEPT ![b] = NoDelivery]
    BY <1>4 DEF Refuse, RecordSuccess, NextTurn, PutDown, redis
  <2>2. held[b] # d /\ row[d] = "pending"
    BY <1>1, <2>1 DEF SetRow
  <2> QED
    BY <1>1, <2>1, <2>2 DEF Found
<1>5. CASE CountFailure(b)
  <2>1. UNCHANGED <<list, entering>>
    BY <1>5 DEF CountFailure, redis
  <2>2. \/ /\ SetRow(held[b], "failed")
           /\ held' = [held EXCEPT ![b] = NoDelivery]
        \/ UNCHANGED <<row, held>>
    BY <1>5 DEF CountFailure, NextTurn, PutDown
  <2>3. row[d] = "pending" /\ (held[b] # d \/ held' = held)
    BY <1>1, <2>2 DEF SetRow
  <2> QED
    BY <1>1, <2>1, <2>2, <2>3 DEF Found
<1>6. CASE Requeue(b)
  <2>1. /\ list' = Append(list, held[b]) /\ UNCHANGED <<row, entering>>
        /\ held' = [held EXCEPT ![b] = NoDelivery]
    BY <1>6 DEF Requeue, NextTurn, PutDown, table
  <2>2. \/ In(list', d)
        \/ d \in entering \/ \E c \in Batches \ {b} : held[c] = d
    BY <1>1, <2>1, AppendFinds DEF Found
  <2> QED
    BY <1>1, <2>1, <2>2 DEF Found
<1> QED
  BY <1>2, <1>3, <1>4, <1>5, <1>6 DEF Deliver

LEMMA KeptFault ==
  ASSUME Typed, NEW d \in Deliveries \ dropped', Found(d),
         Crash \/ \E b \in Batches : Mishap(b)
  PROVE  Found(d)'
<1>1. /\ held \in [Batches -> Deliveries \cup {NoDelivery}] /\ NoDelivery # d
      /\ list \in Seq(Deliveries)
  BY WebhookAssumption DEF Typed, TypeOK
<1>2. CASE Crash
  BY <1>2 DEF Crash, Found
<1>3. ASSUME NEW b \in Batches, Throw(b) PROVE Found(d)'
  <2>1. /\ held[b] # d /\ UNCHANGED <<list, entering>>
        /\ held' = [held EXCEPT ![b] = NoDelivery]
    BY <1>3 DEF Throw, Abort, PutDown, redis
  <2> QED
    BY <1>1, <2>1 DEF Found
<1>4. ASSUME NEW b \in Batches, RequeueUnanswered(b) PROVE Found(d)'
  <2>1. held[b] \in Deliveries
    BY <1>4 DEF RequeueUnanswered, NextTurn, Goto, Typed, InHand, Working, Steps
  <2>2. /\ list' = Append(list, held[b]) \/ list' = list \o <<held[b], held[b]>>
        /\ entering' = entering /\ held' = [held EXCEPT ![b] = NoDelivery]
    BY <1>4 DEF RequeueUnanswered, NextTurn, Abort, PutDown
  <2>3. In(list, d) \/ d = held[b] => In(list', d)
    <3> SUFFICES ASSUME In(list, d) \/ d = held[b] PROVE In(list', d)
      OBVIOUS
    <3>1. In(Append(list, held[b]), d)
      BY <1>1, <2>1, AppendFinds
    <3>2. In(list \o <<held[b], held[b]>>, d)
      BY <1>1, <2>1, AppendTwiceFinds
    <3> QED
      BY <2>2, <3>1, <3>2
  <2> QED
    BY <1>1, <2>2, <2>3 DEF Found
<1>5. ASSUME NEW b \in Batches, PopUnanswered(b) PROVE Found(d)'
  <2>1. /\ list # <<>> /\ list' = Tail(list) /\ Head(list) # d
        /\ entering' = entering
        /\ Abort(b) \/ UNCHANGED batch
    BY <1>5 DEF PopUnanswered
  <2>2. In(list, d) => In(list', d)
    BY <1>1, <2>1, TailId
  <2>3. \A c \in Batches : held[c] = d => held'[c] = d
    <3>1. CASE UNCHANGED batch
      BY <3>1 DEF batch
    <3>2. CASE Abort(b)
      <4>1. held[b] = NoDelivery
        BY <1>5 DEF PopUnanswered, Typed, InHand, Working
      <4> QED
        BY <1>1, <3>2, <4>1 DEF Abort, PutDown
    <3> QED
      BY <2>1, <3>1, <3>2
  <2>4. entering' = entering
    BY <2>1
  <2> QED
    BY <2>2, <2>3, <2>4 DEF Found
<1> QED
  BY <1>2, <1>3, <1>4, <1>5 DEF Mishap

LEMMA KeptNext == Typed /\ Kept /\ [Next]_vars => Kept'
<1> SUFFICES ASSUME Typed, Kept, [Next]_vars, NEW d \in Deliveries \ dropped',
                    row'[d] = "pending"
             PROVE  Found(d)'
  BY DEF Kept
<1>1. CASE UNCHANGED vars
  BY <1>1 DEF Kept, Found, vars, table, redis, batch, history
<1>2. CASE \/ \E e \in Deliveries : Insert(e) \/ Push(e) \/ PushFails(e)
           \/ \E w \in Webhooks : SetActive(w) \/ DeleteWebhook(w)
           \/ LockExpires
  BY <1>2, KeptTable DEF Kept
<1>3. ASSUME NEW b \in Batches, Tick(b) \/ EndBatch(b) PROVE Found(d)'
  BY <1>3 DEF Tick, EndBatch, Kept, Found, table, redis, history
<1>4. ASSUME NEW b \in Batches, Pop(b) PROVE Found(d)'
  <2>1. UNCHANGED <<row, dropped>>
    BY <1>4 DEF Pop, table, history
  <2> QED
    BY <1>4, <2>1, KeptPop DEF Kept
<1>5. ASSUME NEW b \in Batches, Deliver(b) PROVE Found(d)'
  <2>1. UNCHANGED dropped
    BY <1>5 DEF Deliver, Fetch, Drop, Look, Refuse, Post, RecordSuccess, CountFailure,
                Requeue, history
  <2> QED
    BY <1>5, <2>1, KeptDeliver DEF Kept
<1>6. CASE Crash \/ \E b \in Batches : Mishap(b)
  <2>1. row' = row /\ dropped \subseteq dropped'
    BY <1>6 DEF Crash, Mishap, Throw, PopUnanswered, RequeueUnanswered, table
  <2> QED
    BY <1>6, <2>1, KeptFault DEF Kept
<1> QED
  BY <1>1, <1>2, <1>3, <1>4, <1>5, <1>6 DEF Next, Mishap

\* A pending delivery is on its way to the list, in it, or in the hands of a batch,
\* unless a fault met this very one, be it in the reply to LPOP: no delivery is
\* forgotten because another one failed, because batches overlap or because a
\* batch was full (30-47, 53-57, 165-181).
THEOREM NoneForgotten == Spec => []PendingIsCarried
<1>1. Init => Kept
  BY DEF Init, Kept
<1>2. Kept => PendingIsCarried
  BY DEF Kept, Found, In, PendingIsCarried, Waiting, Carriers
<1> QED
  BY <1>1, <1>2, TypedInit, TypedNext, KeptNext, PTL DEF Spec

-----------------------------------------------------------------------------
(* What was turned away is never sent: its id is nowhere but with the      *)
(* batch that is about to write so.                                        *)

Gone(d) ==
  /\ row[d] # "none"
  /\ d \notin entering /\ ~In(list, d)
  /\ \A b \in Batches : held[b] = d => pc[b] = "refusing"

Rejected == \A d \in Deliveries \ resent : d \in refused => Gone(d)

LEMMA GoneBatch ==
  ASSUME Typed, NEW d \in Deliveries, Gone(d), NEW b \in Batches,
         Tick(b) \/ Pop(b) \/ EndBatch(b) \/ Deliver(b)
  PROVE  Gone(d)'
<1>1. /\ row \in [Deliveries -> {"none", "pending", "success", "failed", "deleted"}]
      /\ held \in [Batches -> Deliveries \cup {NoDelivery}] /\ NoDelivery # d
      /\ pc \in [Batches -> Steps] /\ list \in Seq(Deliveries)
  BY WebhookAssumption DEF Typed, TypeOK
<1>2. CASE Tick(b) \/ EndBatch(b)
  BY <1>1, <1>2, WebhookAssumption
  DEF Tick, EndBatch, Goto, Gone, Typed, InHand, Working, Steps, table, redis
<1>3. CASE Pop(b)
  <2>1. /\ list # <<>> /\ list' = Tail(list) /\ UNCHANGED <<row, entering>>
        /\ pc' = [pc EXCEPT ![b] = "fetching"]
        /\ held' = [held EXCEPT ![b] = Head(list)]
    BY <1>3 DEF Pop, Goto, table
  <2>2. Head(list) # d /\ ~In(list', d)
    BY <1>1, <2>1, TailId DEF Gone
  <2> QED
    BY <1>1, <2>1, <2>2 DEF Gone
<1>4. CASE Fetch(b) \/ Look(b) \/ Post(b)
  BY <1>1, <1>4 DEF Fetch, Look, Post, Goto, Gone, table, redis
<1>5. CASE Drop(b)
  BY <1>1, <1>5 DEF Drop, NextTurn, Goto, PutDown, Gone, table, redis
<1>6. CASE Refuse(b) \/ RecordSuccess(b)
  BY <1>1, <1>6 DEF Refuse, RecordSuccess, NextTurn, Goto, PutDown, SetRow, Gone, redis
<1>7. CASE CountFailure(b)
  BY <1>1, <1>7 DEF CountFailure, NextTurn, Goto, PutDown, SetRow, Gone, redis
<1>8. CASE Requeue(b)
  <2>1. /\ pc[b] = "requeueing" /\ list' = Append(list, held[b])
        /\ UNCHANGED <<row, entering>>
        /\ pc' = [pc EXCEPT ![b] = "popping"]
        /\ held' = [held EXCEPT ![b] = NoDelivery]
    BY <1>8 DEF Requeue, NextTurn, Goto, PutDown, table
  <2>2. held[b] # d /\ held[b] \in Deliveries
    BY <2>1 DEF Gone, Typed, InHand, Working, Steps
  <2>3. ~In(list', d)
    BY <1>1, <2>1, <2>2, AppendId DEF Gone
  <2> QED
    BY <1>1, <2>1, <2>3 DEF Gone
<1> QED
  BY <1>2, <1>3, <1>4, <1>5, <1>6, <1>7, <1>8 DEF Deliver

LEMMA GoneNext ==
  ASSUME Typed, [Next]_vars, NEW d \in Deliveries \ resent', Gone(d)
  PROVE  Gone(d)'
<1>1. /\ row \in [Deliveries -> {"none", "pending", "success", "failed", "deleted"}]
      /\ held \in [Batches -> Deliveries \cup {NoDelivery}] /\ NoDelivery # d
      /\ pc \in [Batches -> Steps] /\ list \in Seq(Deliveries)
  BY WebhookAssumption DEF Typed, TypeOK
<1>2. CASE UNCHANGED vars
  BY <1>2 DEF Gone, vars, table, redis, batch
<1>3. ASSUME NEW e \in Deliveries, Insert(e) PROVE Gone(d)'
  BY <1>1, <1>3 DEF Insert, Gone, batch
<1>4. ASSUME NEW e \in Deliveries, Push(e) PROVE Gone(d)'
  <2>1. e # d /\ list' = Append(list, e)
    BY <1>4 DEF Push, Gone
  <2>2. ~In(list', d)
    BY <1>1, <2>1, AppendId DEF Gone
  <2> QED
    BY <1>4, <2>2 DEF Push, Gone, table, batch
<1>5. ASSUME NEW e \in Deliveries, PushFails(e) PROVE Gone(d)'
  <2>1. e # d /\ (list' = list \/ list' = list \o <<e, e>>)
    BY <1>5 DEF PushFails, Gone
  <2>2. ~In(list', d)
    BY <2>1, PushedTwice DEF Gone
  <2> QED
    BY <1>5, <2>2 DEF PushFails, Gone, table, batch
<1>6. CASE LockExpires \/ \E w \in Webhooks : SetActive(w) \/ DeleteWebhook(w)
  BY <1>1, <1>6 DEF LockExpires, SetActive, DeleteWebhook, Gone, table, redis, batch
<1>7. ASSUME NEW b \in Batches, Tick(b) \/ Pop(b) \/ EndBatch(b) \/ Deliver(b)
      PROVE  Gone(d)'
  BY <1>7, GoneBatch
<1>8. CASE Crash \/ \E b \in Batches : Throw(b)
  BY <1>1, <1>8 DEF Crash, Throw, Abort, PutDown, Gone, table, redis
<1>9. ASSUME NEW b \in Batches, RequeueUnanswered(b) PROVE Gone(d)'
  <2>1. /\ pc[b] = "requeueing" /\ UNCHANGED <<row, entering>>
        /\ held' = [held EXCEPT ![b] = NoDelivery]
        /\ \A c \in Batches \ {b} : pc'[c] = pc[c]
        /\ list' = Append(list, held[b]) \/ list' = list \o <<held[b], held[b]>>
    BY <1>1, <1>9 DEF RequeueUnanswered, NextTurn, Goto, Abort, PutDown, table
  <2>2. held[b] # d /\ held[b] \in Deliveries
    BY <2>1 DEF Gone, Typed, InHand, Working, Steps
  <2>3. ~In(list', d)
    <3>1. In(Append(list, held[b]), d) <=> In(list, d)
      BY <1>1, <2>2, AppendId
    <3>2. In(list \o <<held[b], held[b]>>, d) <=> In(list, d)
      BY <2>2, PushedTwice
    <3> QED
      BY <2>1, <3>1, <3>2 DEF Gone
  <2> QED
    BY <1>1, <2>1, <2>3 DEF Gone
<1>10. ASSUME NEW b \in Batches, PopUnanswered(b) PROVE Gone(d)'
  <2>1. /\ list # <<>> /\ list' = Tail(list) /\ UNCHANGED <<row, entering>>
        /\ Abort(b) \/ UNCHANGED batch
    BY <1>10 DEF PopUnanswered, table
  <2>2. ~In(list', d)
    BY <1>1, <2>1, TailId DEF Gone
  <2>3. \A c \in Batches : held'[c] = d => held[c] = d /\ pc'[c] = pc[c]
    BY <1>1, <2>1 DEF Abort, PutDown, batch
  <2> QED
    BY <2>1, <2>2, <2>3 DEF Gone
<1> QED
  BY <1>2, <1>3, <1>4, <1>5, <1>6, <1>7, <1>8, <1>9, <1>10 DEF Next

LEMMA RejectedNext == Typed /\ Tracked /\ Rejected /\ [Next]_vars => Rejected'
<1> SUFFICES ASSUME Typed, Tracked, Rejected, [Next]_vars,
                    NEW d \in Deliveries \ resent', d \in refused'
             PROVE  Gone(d)'
  BY DEF Rejected
<1>1. d \notin resent
  BY ResentStays
<1>2. CASE d \in refused
  BY <1>1, <1>2, GoneNext DEF Rejected
<1>3. CASE d \notin refused
  <2>1. PICK b \in Batches : Look(b) /\ d = held[b]
    BY <1>3 DEF Next, vars, history, Insert, Push, PushFails, SetActive, DeleteWebhook,
      LockExpires, Tick, Pop, EndBatch, Deliver, Fetch, Drop, Look, Refuse, Post,
      RecordSuccess, CountFailure, Requeue, Throw, PopUnanswered, RequeueUnanswered, Crash
  <2>2. /\ pc' = [pc EXCEPT ![b] = "refusing"] /\ pc \in [Batches -> Steps]
        /\ pc[b] = "looking" /\ UNCHANGED <<row, entering, list, held>>
    BY <1>3, <2>1 DEF Look, Goto, table, redis, Typed, TypeOK
  <2>3. /\ \A c \in Batches : held[c] = d => c = b
        /\ ~In(list, d) /\ d \notin entering /\ row[d] # "none"
    BY <1>1, <2>1 DEF Tracked, Alone
  <2> QED
    BY <2>2, <2>3 DEF Gone
<1> QED
  BY <1>2, <1>3

-----------------------------------------------------------------------------
(* The deliveries implement WebhookPromise.                                *)

\* A step that shows the owner of the endpoint nothing new.
LEMMA Unseen ==
  ASSUME resent' = resent, refused' \ resent = refused \ resent,
         \A d \in Deliveries \ resent :
           row'[d] = row[d] /\ posts'[d] = posts[d] /\ accepted'[d] = accepted[d]
  PROVE  UNCHANGED Promise!promise
BY DEF Promise!promise, Tells

\* A step of a batch, about the delivery it has in hand.
LEMMA Shows ==
  ASSUME NEW d \in Deliveries,
         \/ Promise!Enqueue(d) \/ Promise!Send(d) \/ Promise!TurnAway(d)
         \/ Promise!Succeed(d) \/ Promise!Fail(d) \/ Promise!Double(d)
  PROVE  Promise!Next
BY DEF Promise!Next

LEMMA DeliverShows ==
  ASSUME Typed, Tracked, Rejected, NEW b \in Batches, Deliver(b), held[b] \notin resent
  PROVE  [Promise!Next]_(Promise!promise)
<1>0. PICK h : h = held[b]
  OBVIOUS
<1>1. /\ row \in [Deliveries -> {"none", "pending", "success", "failed", "deleted"}]
      /\ posts \in [Deliveries -> Nat] /\ accepted \in [Deliveries -> Nat]
      /\ refused \in SUBSET Deliveries /\ MaxAttempts \in Nat /\ copy[b] \in Nat
      /\ copy[b] < MaxAttempts
  BY WebhookAssumption DEF Typed, TypeOK, InHand
<1>2. h \in Deliveries
  BY <1>0 DEF Typed, InHand, Working, Steps, Deliver, Fetch, Drop, Look, Refuse, Post,
    RecordSuccess, CountFailure, Requeue, NextTurn, Goto
<1>3. InStep(b, h) /\ Told(h) /\ h \notin resent
  BY <1>0, <1>2 DEF Tracked, Story
<1>4. h \in refused => pc[b] = "refusing"
  BY <1>0, <1>2, <1>3 DEF Rejected, Gone
<1> USE <1>0
<1>5. CASE Fetch(b) \/ Drop(b) \/ Requeue(b)
  BY <1>5, Unseen DEF Fetch, Drop, Requeue, table, history
<1>6. CASE Look(b)
  <2>1. /\ pc[b] = "looking" /\ UNCHANGED <<row, posts, accepted, resent>>
        /\ refused' = refused \/ refused' = refused \cup {h}
    BY <1>6 DEF Look, Goto, table
  <2>2. CASE refused' = refused
    BY <2>1, <2>2, Unseen
  <2>3. CASE refused' = refused \cup {h}
    <3>1. Promise!Open(h)
      BY <1>1, <1>2, <1>3, <1>4, <2>1 DEF InStep, Ready, Promise!Open, Tells
    <3>2. Promise!TurnAway(h)
      BY <1>1, <1>2, <1>3, <2>1, <2>3, <3>1 DEF Promise!TurnAway, Tells
    <3> QED
      BY <1>2, <3>2, Shows
  <2> QED
    BY <2>1, <2>2, <2>3
<1>7. CASE Refuse(b)
  <2>1. /\ pc[b] = "refusing" /\ UNCHANGED <<posts, accepted, refused, resent>>
        /\ row' = [row EXCEPT ![h] = IF @ = "deleted" THEN @ ELSE "failed"]
    BY <1>7 DEF Refuse, NextTurn, Goto, SetRow, history
  <2>2. row[h] \in {"pending", "deleted"} /\ accepted[h] = 0 /\ h \in refused
    BY <1>3, <2>1 DEF InStep, Ready
  <2>3. CASE row[h] = "deleted"
    BY <1>1, <2>1, <2>3, Unseen
  <2>4. CASE row[h] = "pending"
    <3>1. Promise!Fail(h)
      BY <1>1, <1>2, <1>3, <2>1, <2>2, <2>4 DEF Promise!Fail, Tells
    <3> QED
      BY <1>2, <3>1, Shows
  <2> QED
    BY <2>2, <2>3, <2>4
<1>8. CASE Post(b)
  <2>1. /\ pc[b] = "posting" /\ UNCHANGED <<row, refused, resent>>
        /\ posts' = [posts EXCEPT ![h] = @ + 1]
        /\ accepted' = accepted \/ accepted' = [accepted EXCEPT ![h] = @ + 1]
    BY <1>8 DEF Post, table
  <2>2. Ready(h) /\ h \notin refused
    BY <1>3, <1>4, <2>1 DEF InStep
  <2>3. Promise!Open(h)
    BY <1>1, <1>2, <1>3, <2>2 DEF Ready, Promise!Open, Tells
  <2>4. Promise!Send(h)
    BY <1>1, <1>2, <1>3, <2>1, <2>2, <2>3 DEF Ready, Promise!Send, Tells
  <2> QED
    BY <1>2, <2>4, Shows
<1>9. CASE RecordSuccess(b)
  <2>1. /\ pc[b] = "recording" /\ UNCHANGED <<posts, accepted, refused, resent>>
        /\ row' = [row EXCEPT ![h] = IF @ = "deleted" THEN @ ELSE "success"]
    BY <1>9 DEF RecordSuccess, NextTurn, Goto, SetRow, history
  <2>2. row[h] \in {"pending", "deleted"} /\ accepted[h] = 1
    BY <1>3, <2>1 DEF InStep
  <2>3. CASE row[h] = "deleted"
    BY <1>1, <2>1, <2>3, Unseen
  <2>4. CASE row[h] = "pending"
    <3>1. Promise!Succeed(h)
      BY <1>1, <1>2, <1>3, <2>1, <2>2, <2>4 DEF Promise!Succeed, Tells
    <3> QED
      BY <1>2, <3>1, Shows
  <2> QED
    BY <2>2, <2>3, <2>4
<1>10. CASE CountFailure(b)
  <2>1. /\ pc[b] = "counting" /\ UNCHANGED <<posts, accepted, refused, resent>>
        /\ \/ row' = row
           \/ /\ copy[b] + 1 >= MaxAttempts
              /\ row' = [row EXCEPT ![h] = IF @ = "deleted" THEN @ ELSE "failed"]
    BY <1>10 DEF CountFailure, NextTurn, Goto, SetRow, history
  <2>2. /\ row[h] \in {"pending", "deleted"} /\ accepted[h] = 0
        /\ posts[h] = copy[b] + 1
    BY <1>3, <2>1 DEF InStep
  <2>3. CASE row' = row \/ row[h] = "deleted"
    BY <1>1, <2>1, <2>3, Unseen
  <2>4. CASE row[h] = "pending" /\ row' # row
    <3>1. posts[h] = MaxAttempts
      BY <1>1, <2>1, <2>2, <2>4
    <3>2. Promise!Fail(h)
      BY <1>1, <1>2, <1>3, <2>1, <2>2, <2>4, <3>1 DEF Promise!Fail, Tells
    <3> QED
      BY <1>2, <3>2, Shows
  <2> QED
    BY <2>2, <2>3, <2>4
<1> QED
  BY <1>5, <1>6, <1>7, <1>8, <1>9, <1>10 DEF Deliver

\* A client that pushes an id twice ends the promise for it.
LEMMA DoublePushShows ==
  ASSUME Typed, Tracked, Rejected, NEW h \in Deliveries,
         row[h] \in {"pending", "deleted"}, h \notin resent => Ready(h) /\ h \notin refused,
         resent' = resent \cup {h}, UNCHANGED <<row, posts, accepted, refused>>
  PROVE  [Promise!Next]_(Promise!promise)
<1>1. /\ posts \in [Deliveries -> Nat] /\ accepted \in [Deliveries -> Nat]
      /\ refused \in SUBSET Deliveries
  BY DEF Typed, TypeOK
<1>2. CASE h \in resent
  <2>1. resent' = resent
    BY <1>2
  <2> QED
    BY <2>1, Unseen
<1>3. CASE h \notin resent
  <2>1. Ready(h) /\ h \notin refused
    BY <1>3
  <2>2. Promise!Open(h)
    BY <1>1, <1>3, <2>1 DEF Ready, Promise!Open, Tells
  <2>3. /\ Tells(row, "doubled")' = [Tells(row, "doubled") EXCEPT ![h] = "doubled"]
        /\ Tells(posts, 0)' = [Tells(posts, 0) EXCEPT ![h] = 0]
    BY <1>1 DEF Tells
  <2>4. UNCHANGED <<{d \in Deliveries \ resent : accepted[d] > 0}, refused \ resent>>
    BY <1>1, <1>3, <2>1 DEF Ready
  <2>5. Promise!Double(h)
    BY <2>2, <2>3, <2>4 DEF Promise!Double
  <2> QED
    BY <2>5, Shows
<1> QED
  BY <1>2, <1>3

LEMMA ShowsNext ==
  Typed /\ Tracked /\ Rejected /\ [Next]_vars => [Promise!Next]_(Promise!promise)
<1> SUFFICES ASSUME Typed, Tracked, Rejected, [Next]_vars
             PROVE  [Promise!Next]_(Promise!promise)
  OBVIOUS
<1>1. /\ row \in [Deliveries -> {"none", "pending", "success", "failed", "deleted"}]
      /\ posts \in [Deliveries -> Nat] /\ accepted \in [Deliveries -> Nat]
      /\ refused \in SUBSET Deliveries
  BY DEF Typed, TypeOK
<1>2. CASE UNCHANGED vars
  BY <1>2, Unseen DEF vars, table, history
<1>3. ASSUME NEW e \in Deliveries, Insert(e) PROVE [Promise!Next]_(Promise!promise)
  <2>1. /\ row[e] = "none" /\ row' = [row EXCEPT ![e] = "pending"]
        /\ UNCHANGED <<posts, accepted, refused, resent>>
    BY <1>3 DEF Insert, history
  <2>2. CASE e \in resent
    BY <1>1, <2>1, <2>2, Unseen
  <2>3. CASE e \notin resent
    <3>1. Promise!Enqueue(e)
      BY <1>1, <2>1, <2>3 DEF Promise!Enqueue, Tells
    <3> QED
      BY <3>1, Shows
  <2> QED
    BY <2>2, <2>3
<1>4. ASSUME NEW e \in Deliveries, Push(e) PROVE [Promise!Next]_(Promise!promise)
  BY <1>4, Unseen DEF Push, table, history
<1>5. ASSUME NEW e \in Deliveries, PushFails(e) PROVE [Promise!Next]_(Promise!promise)
  <2>1. /\ e \in entering /\ UNCHANGED <<row, posts, accepted, refused>>
        /\ resent' = resent \/ resent' = resent \cup {e}
    BY <1>5 DEF PushFails, table
  <2>2. CASE resent' = resent
    BY <2>1, <2>2, Unseen
  <2>3. CASE e \notin resent /\ resent' = resent \cup {e}
    <3>1. Ready(e) /\ e \notin refused
      BY <2>1, <2>3 DEF Tracked, Story, Rejected, Gone
    <3> QED
      BY <2>1, <2>3, <3>1, DoublePushShows DEF Ready
  <2>4. e \in resent => resent \cup {e} = resent
    OBVIOUS
  <2> QED
    BY <2>1, <2>2, <2>3, <2>4
<1>6. ASSUME NEW w \in Webhooks, SetActive(w) PROVE [Promise!Next]_(Promise!promise)
  BY <1>6, Unseen DEF SetActive, history
<1>7. ASSUME NEW w \in Webhooks, DeleteWebhook(w) PROVE [Promise!Next]_(Promise!promise)
  <2> DEFINE D == {d \in Deliveries \ resent : WebhookOf[d] = w /\ row[d] # "none"}
  <2>1. /\ UNCHANGED <<posts, accepted, refused, resent>>
        /\ row' = [d \in Deliveries |->
                    IF WebhookOf[d] = w /\ row[d] # "none" THEN "deleted" ELSE row[d]]
    BY <1>7 DEF DeleteWebhook, history
  <2>2. Promise!Delete(D)
    BY <1>1, <2>1 DEF Promise!Delete, Tells
  <2> HIDE DEF D
  <2>3. D \in SUBSET Deliveries
    BY DEF D
  <2> QED
    BY <2>2, <2>3 DEF Promise!Next
<1>8. CASE LockExpires \/ Crash
  BY <1>8, Unseen DEF LockExpires, Crash, table, history
<1>9. ASSUME NEW b \in Batches,
             Tick(b) \/ Pop(b) \/ EndBatch(b) \/ Throw(b) \/ PopUnanswered(b)
      PROVE  [Promise!Next]_(Promise!promise)
  BY <1>9, Unseen DEF Tick, Pop, EndBatch, Throw, PopUnanswered, table, history
<1>10. ASSUME NEW b \in Batches, Deliver(b) PROVE [Promise!Next]_(Promise!promise)
  <2>1. CASE held[b] \in resent
    <3>1. /\ resent' = resent
          /\ \A d \in Deliveries \ {held[b]} :
               row'[d] = row[d] /\ posts'[d] = posts[d] /\ accepted'[d] = accepted[d]
          /\ refused' = refused \/ refused' = refused \cup {held[b]}
      BY <1>1, <1>10 DEF Deliver, Fetch, Drop, Look, Refuse, Post, RecordSuccess,
        CountFailure, Requeue, NextTurn, SetRow, table, history
    <3> QED
      BY <2>1, <3>1, Unseen
  <2>2. CASE held[b] \notin resent
    BY <1>10, <2>2, DeliverShows
  <2> QED
    BY <2>1, <2>2
<1>11. ASSUME NEW b \in Batches, RequeueUnanswered(b)
       PROVE  [Promise!Next]_(Promise!promise)
  <2>1. /\ pc[b] = "requeueing" /\ UNCHANGED <<row, posts, accepted, refused>>
        /\ resent' = resent \/ resent' = resent \cup {held[b]}
    BY <1>11 DEF RequeueUnanswered, NextTurn, Goto, table
  <2>2. held[b] \in Deliveries
    BY <2>1 DEF Typed, InHand, Working, Steps
  <2>3. CASE resent' = resent
    BY <2>1, <2>3, Unseen
  <2>4. CASE held[b] \notin resent /\ resent' = resent \cup {held[b]}
    <3>1. Ready(held[b]) /\ held[b] \notin refused
      BY <2>1, <2>2, <2>4 DEF Tracked, Story, InStep, Rejected, Gone
    <3> QED
      BY <2>1, <2>2, <2>4, <3>1, DoublePushShows DEF Ready
  <2>5. held[b] \in resent => resent \cup {held[b]} = resent
    OBVIOUS
  <2> QED
    BY <2>1, <2>3, <2>4, <2>5
<1> QED
  BY <1>2, <1>3, <1>4, <1>5, <1>6, <1>7, <1>8, <1>9, <1>10, <1>11 DEF Next

\* What the owner of an endpoint sees is a delivery that is sent at most MAX_ATTEMPTS
\* times, never again after it was accepted or turned away, and whose row, once it
\* has settled, is true and changed by nothing but a deletion, whatever the lock,
\* batches that overlap and faults do (65-189).
THEOREM DeliveryKeepsPromise == Spec => ImplementsPromise
<1>1. Init => Rejected
  BY DEF Init, Rejected
<1>2. Init => Promise!Init
  BY DEF Init, Promise!Init, Tells
<1> QED
  BY <1>1, <1>2, Followed, RejectedNext, ShowsNext, PTL
  DEF Spec, ImplementsPromise, Promise!Spec
=============================================================================
