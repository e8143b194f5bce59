---------------------------- MODULE Organisation ----------------------------
(***************************************************************************)
(* One organisation: its members and their roles, its invitations and its  *)
(* API keys (apps/api/src/services/invitationService.ts, orgService.ts,    *)
(* apiKeyService.ts), and the pages that ask for changes.                  *)
(*                                                                         *)
(* Every request is a sequence of SQL statements outside a transaction,    *)
(* so two requests interleave between any two statements.  A step of the   *)
(* model is a statement; a transaction is read and write of its own: under *)
(* READ COMMITTED what it counts may have changed when it inserts.  An     *)
(* invitation is known by the address it was sent to, which is a user's:   *)
(* the unique index of 0000_init.sql:389 admits one row per organisation   *)
(* and address, whatever its status.                                       *)
(***************************************************************************)
EXTENDS Naturals, FiniteSets

CONSTANTS Users,        \* the accounts, and the addresses they have
          Founder,      \* the user that created the organisation
          Requests,     \* the requests the API works on at a time
          MaxApiKeys    \* MAX_API_KEYS_PER_ORG

ASSUME OrganisationAssumption ==
  /\ Founder \in Users
  /\ IsFiniteSet(Requests)
  /\ MaxApiKeys \in Nat \ {0}

VARIABLES role,         \* role[u]: of the row of user_org_members, or "none"
          invitation,   \* invitation[u]: the row of org_invitations for u
          apiKeys,      \* how many rows api_keys has
          request,      \* what every request asks, where it is, what it read
          raced         \* history: a role was written between the reading
                        \*   and the writing of another request
orgVars == <<role, invitation, apiKeys, request, raced>>

Roles == {"admin", "member"}
Statuses == {"none", "pending", "accepted", "declined", "canceled", "expired"}
Ops == {"invite", "accept", "decline", "cancel", "resend", "remove", "role",
        "createKey", "revokeKey"}
RequestSteps == {"idle", "verify", "find", "member", "pending", "read", "count",
                 "expire", "mark", "write"}

\* What the code keeps of a request: of the rows it read, the role of the
\* member or of the invitation.
Idle == [op |-> "none", by |-> Founder, of |-> Founder, role |-> "member",
         read |-> "none", step |-> "idle"]

NoInvitation == [status |-> "none", role |-> "member", lapsed |-> FALSE]

RequestRecords == [op : Ops \union {"none"}, by : Users, of : Users, role : Roles,
                   read : Roles \union {"none"}, step : RequestSteps]

OrgTypeOK ==
  /\ role \in [Users -> Roles \union {"none"}]
  /\ invitation \in [Users -> [status : Statuses, role : Roles,
                               lapsed : BOOLEAN]]
  /\ apiKeys \in Nat
  /\ request \in [Requests -> RequestRecords]
  /\ raced \in BOOLEAN

\* createOrg: the organisation and its first admin, in one transaction.
OrgInit ==
  /\ role = [u \in Users |-> IF u = Founder THEN "admin" ELSE "none"]
  /\ invitation = [u \in Users |-> NoInvitation]
  /\ apiKeys = 0
  /\ request = [r \in Requests |-> Idle]
  /\ raced = FALSE

Admins == {u \in Users : role[u] = "admin"}

-----------------------------------------------------------------------------
(* The pages: TeamSettings offers an admin everything about the others;    *)
(* its lists may be old, so whom it offers may have changed since.         *)

Send(r, op, u, v, ro, step) ==
  /\ request[r].step = "idle"
  /\ request' = [request EXCEPT ![r] =
       [op |-> op, by |-> u, of |-> v, role |-> ro, read |-> "none",
        step |-> step]]
  /\ UNCHANGED <<role, invitation, apiKeys, raced>>

HandleInvite(r) ==
  \E u, v \in Users, ro \in Roles : Send(r, "invite", u, v, ro, "verify")

HandleCancel(r) ==
  \E u, v \in Users : /\ invitation[v].status # "none"
                      /\ Send(r, "cancel", u, v, "member", "verify")

HandleResend(r) ==
  \E u, v \in Users : /\ invitation[v].status # "none"
                      /\ Send(r, "resend", u, v, "member", "verify")

\* No button removes or demotes the user that is signed in.
ConfirmRemove(r) ==
  \E u, v \in Users : /\ u # v
                      /\ Send(r, "remove", u, v, "member", "verify")

ConfirmRoleChange(r) ==
  \E u, v \in Users, ro \in Roles : /\ u # v
                                    /\ Send(r, "role", u, v, ro, "verify")

\* The link of the mail, and the list of the user's pending invitations: the
\* pages let a user answer the invitations sent to the user's own address.
HandleAccept(r) ==
  \E u \in Users : /\ invitation[u].status # "none"
                   /\ Send(r, "accept", u, u, "member", "find")

HandleDecline(r) ==
  \E u \in Users : /\ invitation[u].status # "none"
                   /\ Send(r, "decline", u, u, "member", "find")

HandleCreateKey(r) ==
  \E u \in Users : Send(r, "createKey", u, u, "member", "verify")

HandleRevokeKey(r) ==
  \E u \in Users : Send(r, "revokeKey", u, u, "member", "verify")

-----------------------------------------------------------------------------
(* The statements of a request.                                            *)

At(r, ops, step) == request[r].op \in ops /\ request[r].step = step

Go(r, step) == request' = [request EXCEPT ![r].step = step]

GoKnowing(r, step, ro) ==
  request' = [request EXCEPT ![r].step = step, ![r].read = ro]

Answer(r) == request' = [request EXCEPT ![r] = Idle]

AfterVerify ==
  [op \in Ops |-> CASE op = "invite" -> "member"
                    [] op = "createKey" -> "count"
                    [] op = "revokeKey" -> "write"
                    [] OTHER -> "read"]

VerifyOrgAdmin(r) ==
  /\ At(r, Ops, "verify")
  /\ IF role[request[r].by] = "admin"
     THEN Go(r, AfterVerify[request[r].op])
     ELSE Answer(r)
  /\ UNCHANGED <<role, invitation, apiKeys, raced>>

\* createInvitation
CheckMember(r) ==
  /\ At(r, {"invite"}, "member")
  /\ IF role[request[r].of] = "none" THEN Go(r, "pending")
                                     ELSE Answer(r)
  /\ UNCHANGED <<role, invitation, apiKeys, raced>>

CheckPending(r) ==
  /\ At(r, {"invite"}, "pending")
  /\ IF invitation[request[r].of].status = "pending"
     THEN Answer(r)
     ELSE Go(r, "write")
  /\ UNCHANGED <<role, invitation, apiKeys, raced>>

\* Mutant: the index is the one schema.ts speaks of, of pending rows only.
PartialIndexAdmits(u) == invitation[u].status # "pending"

\* The index admits no second row for the address; the violation (23505) is
\* answered as if the first one were pending.
UniqueIndexAdmits(u) == invitation[u].status = "none"

InsertInvitation(r) ==
  LET u == request[r].of IN
  /\ At(r, {"invite"}, "write")
  /\ \/ /\ UniqueIndexAdmits(u)
        /\ invitation' = [invitation EXCEPT ![u] =
             [status |-> "pending", role |-> request[r].role,
              lapsed |-> FALSE]]
        /\ Answer(r)
     \/ /\ ~UniqueIndexAdmits(u)
        /\ Answer(r)
        /\ UNCHANGED invitation
  /\ UNCHANGED <<role, apiKeys, raced>>

\* acceptInvitation and declineInvitation: the pending row of the token.
FindInvitation(r) ==
  LET row == invitation[request[r].of] IN
  /\ At(r, {"accept", "decline"}, "find")
  /\ \/ row.status # "pending" /\ Answer(r)
     \/ /\ row.status = "pending"
        /\ GoKnowing(r, CASE request[r].op = "decline" -> "mark"
                          [] row.lapsed -> "expire"
                          [] OTHER -> "member", row.role)
  /\ UNCHANGED <<role, invitation, apiKeys, raced>>

\* The role and the expiry of a row that is not pending are not read again.
SetStatus(u, s) ==
  invitation' = [invitation EXCEPT ![u] = [NoInvitation EXCEPT !.status = s]]

ExpireInvitation(r) ==
  /\ At(r, {"accept"}, "expire")
  /\ SetStatus(request[r].of, "expired")
  /\ Answer(r)
  /\ UNCHANGED <<role, apiKeys, raced>>

CheckJoined(r) ==
  /\ At(r, {"accept"}, "member")
  /\ Go(r, IF role[request[r].by] = "none" THEN "write" ELSE "mark")
  /\ UNCHANGED <<role, invitation, apiKeys, raced>>

\* The row is written by its id: whatever its status has become.
MarkInvitation(r) ==
  /\ At(r, {"accept", "decline"}, "mark")
  /\ SetStatus(request[r].of, IF request[r].op = "accept" THEN "accepted"
                                                         ELSE "declined")
  /\ Answer(r)
  /\ UNCHANGED <<role, apiKeys, raced>>

\* The transaction: member and status together; the second of two that join
\* at once violates the index of user_org_members and is rolled back.
Join(r) ==
  LET u == request[r].by IN
  /\ At(r, {"accept"}, "write")
  /\ \/ /\ role[u] = "none"
        /\ role' = [role EXCEPT ![u] = request[r].read]
        /\ SetStatus(u, "accepted")
        /\ Answer(r)
     \/ /\ role[u] # "none"
        /\ Answer(r)
        /\ UNCHANGED <<role, invitation>>
  /\ UNCHANGED <<apiKeys, raced>>

\* cancelInvitation and resendInvitation
ReadInvitation(r) ==
  LET row == invitation[request[r].of] IN
  /\ At(r, {"cancel", "resend"}, "read")
  /\ IF row.status = "pending" /\ (request[r].op = "resend" => ~row.lapsed)
     THEN Go(r, "write")
     ELSE Answer(r)
  /\ UNCHANGED <<role, invitation, apiKeys, raced>>

CancelInvitation(r) ==
  /\ At(r, {"cancel"}, "write")
  /\ SetStatus(request[r].of, "canceled")
  /\ Answer(r)
  /\ UNCHANGED <<role, apiKeys, raced>>

ExtendInvitation(r) ==
  /\ At(r, {"resend"}, "write")
  /\ invitation' = [invitation EXCEPT ![request[r].of].lapsed = FALSE]
  /\ Answer(r)
  /\ UNCHANGED <<role, apiKeys, raced>>

\* Mutant: only a removal is checked, a demotion is not.
LosesAdminByRemoval(r, ro) == ro = "admin" /\ request[r].op = "remove"

\* removeMember and changeMemberRole
LosesAdmin(r, ro) ==
  ro = "admin" /\ (request[r].op = "role" => request[r].role = "member")

ReadMember(r) ==
  LET ro == role[request[r].of] IN
  /\ At(r, {"remove", "role"}, "read")
  /\ \/ ro = "none" /\ Answer(r)
     \/ /\ ro # "none"
        /\ GoKnowing(r, IF LosesAdmin(r, ro) THEN "count" ELSE "write", ro)
  /\ UNCHANGED <<role, invitation, apiKeys, raced>>

CountAdmins(r) ==
  /\ At(r, {"remove", "role"}, "count")
  /\ IF \A u, v \in Admins : u = v THEN Answer(r)
                                   ELSE Go(r, "write")
  /\ UNCHANGED <<role, invitation, apiKeys, raced>>

\* A request that has read a role and not yet written.
Deciding(r) == \E step \in {"count", "write"} : At(r, {"remove", "role"}, step)

WriteMember(r) ==
  LET u == request[r].of IN
  /\ At(r, {"remove", "role"}, "write")
  /\ role' = [role EXCEPT ![u] =
       CASE request[r].op = "remove" -> "none"
         [] role[u] = "none" -> "none"
         [] OTHER -> request[r].role]
  /\ raced' = (raced \/ \E s \in Requests \ {r} : Deciding(s))
  /\ Answer(r)
  /\ UNCHANGED <<invitation, apiKeys>>

\* createApiKey: the count and the insert of one transaction.
CountKeys(r) ==
  /\ At(r, {"createKey"}, "count")
  /\ IF apiKeys >= MaxApiKeys THEN Answer(r) ELSE Go(r, "write")
  /\ UNCHANGED <<role, invitation, apiKeys, raced>>

InsertKey(r) ==
  /\ At(r, {"createKey"}, "write")
  /\ apiKeys' = apiKeys + 1
  /\ Answer(r)
  /\ UNCHANGED <<role, invitation, raced>>

\* revokeApiKey: the key of the list may be gone already.
DeleteKey(r) ==
  /\ At(r, {"revokeKey"}, "write")
  /\ \/ apiKeys > 0 /\ apiKeys' = apiKeys - 1 /\ Answer(r)
     \/ UNCHANGED apiKeys /\ Answer(r)
  /\ UNCHANGED <<role, invitation, raced>>

\* Seven days pass.
Lapse(u) ==
  /\ invitation[u].status = "pending" /\ ~invitation[u].lapsed
  /\ invitation' = [invitation EXCEPT ![u].lapsed = TRUE]
  /\ UNCHANGED <<role, apiKeys, request, raced>>

-----------------------------------------------------------------------------
Asks(r) ==
  \/ HandleInvite(r) \/ HandleCancel(r) \/ HandleResend(r)
  \/ ConfirmRemove(r) \/ ConfirmRoleChange(r)
  \/ HandleAccept(r) \/ HandleDecline(r)
  \/ HandleCreateKey(r) \/ HandleRevokeKey(r)

Invites(r) ==
  \/ CheckMember(r) \/ CheckPending(r) \/ InsertInvitation(r)
  \/ ReadInvitation(r) \/ CancelInvitation(r) \/ ExtendInvitation(r)

AnswersInvitation(r) ==
  \/ FindInvitation(r) \/ ExpireInvitation(r) \/ CheckJoined(r)
  \/ MarkInvitation(r) \/ Join(r)

ChangesMember(r) == ReadMember(r) \/ CountAdmins(r) \/ WriteMember(r)

ChangesKeys(r) == CountKeys(r) \/ InsertKey(r) \/ DeleteKey(r)

OrgNext ==
  \/ \E r \in Requests :
       \/ Asks(r) \/ VerifyOrgAdmin(r) \/ Invites(r) \/ AnswersInvitation(r)
       \/ ChangesMember(r) \/ ChangesKeys(r)
  \/ \E u \in Users : Lapse(u)

OrgSpec == OrgInit /\ [][OrgNext]_orgVars

-----------------------------------------------------------------------------
(* Properties.                                                             *)

\* The organisation has an admin, unless a role was written between the
\* reading and the writing of another request: the count of admins
\* (invitationService.ts:350) decides rightly as long as nobody interferes.
AdminStays == raced \/ Admins # {}

\* Nobody is a member and still has an invitation pending: one that joins
\* spends it, and no second one is written for an address whose owner joined
\* after the checks of createInvitation.
NoMemberPending ==
  \A u \in Users : role[u] # "none" => invitation[u].status # "pending"

\* What createApiKey says of its transaction, "Atomic count check + insert to
\* prevent race condition" (apiKeyService.ts:30): there are never more keys than
\* MAX_API_KEYS_PER_ORG.  Two creations that count before either inserts break it.
KeysWithinLimit == apiKeys <= MaxApiKeys

\* What holds instead: the keys exceed MAX_API_KEYS_PER_ORG by no more than the
\* creations that can be under way besides the last one to be counted rightly.
KeysBounded == apiKeys < MaxApiKeys + Cardinality(Requests)
=============================================================================
