--------------------------- MODULE SessionClient ---------------------------
(***************************************************************************)
(* The session of the web application: the access token in memory, the one *)
(* refresh that all calls share (apps/app/src/lib/api.ts), the actions of  *)
(* the auth store (apps/app/src/stores/auth-store.ts), and as much of the  *)
(* server's /auth routes as the answers depend on.                         *)
(*                                                                         *)
(* JavaScript runs each piece of code up to its next await without being   *)
(* interrupted: an action is such a piece.  The promises a refresh resolves*)
(* are continued before any other event, so that is one action too.        *)
(*                                                                         *)
(* A token is fresh up to 80% of its life, then old: the server may or may *)
(* not take it.  What is sent with a fresh token is answered before that   *)
(* has expired.                                                            *)
(***************************************************************************)
EXTENDS FiniteSets, Naturals

CONSTANTS Calls,       \* promises that may be under way at a time
          Orgs,
          Home,        \* the organisation the user belongs to at first
          NoOrg,
          NoCall,
          MaxFaults    \* bound: answers that get lost

ASSUME SessionAssumption ==
  Home \in Orgs /\ NoOrg \notin Orgs /\ NoCall \notin Calls /\ MaxFaults \in Nat

VARIABLES
  call,             \* what each promise does
  accessToken,      \* [org, age]; age "none" without a token
  currentOrgId,     \* what refresh requests ask for
  isRefreshing,
  owner,            \* the call whose doRefreshToken sent the request
  subscribers,      \* the calls in refreshSubscribers
  refresh,          \* the request or its answer, under way
  isAuthenticated,  \* the auth store
  org,
  checked,          \* the page has asked the server who the user is
  cookie,           \* the refresh token in the browser
  member,           \* the organisations of the user, in the database
  faults

refreshing == <<isRefreshing, owner, subscribers, refresh>>
client == <<accessToken, currentOrgId>>
store == <<isAuthenticated, org, checked>>
server == <<cookie, member, faults>>
sessionVars == <<call, client, refreshing, store, server>>

Ages == {"fresh", "old", "none"}
NoToken == [org |-> NoOrg, age |-> "none"]
FreshToken(o) == [org |-> o, age |-> "fresh"]
CallKinds == {"data", "switch", "accept", "check", "me", "login", "logout"}
Waits == {"ensure", "before", "after"}
NoRefresh == [at |-> "none", org |-> NoOrg]

(* A promise: its kind, the organisation it is about, where it waits, the  *)
(* age of the token it was sent with, and _retry.                          *)
Idle == [kind |-> "data", org |-> NoOrg, at |-> "idle", sent |-> "none",
         retry |-> FALSE]
New(kind, o) == [Idle EXCEPT !.kind = kind, !.org = o]
Busy(c) == call[c].at # "idle"
Waiting(c) == call[c].at \in Waits

SessionInit ==
  /\ call = [c \in Calls |-> Idle]
  /\ accessToken = NoToken
  /\ currentOrgId = NoOrg
  /\ isRefreshing = FALSE /\ owner = NoCall /\ subscribers = {}
  /\ refresh = NoRefresh
  /\ member = {Home}
  /\ \/ isAuthenticated = TRUE /\ org = Home /\ cookie \in {"valid", "revoked", "none"}
     \/ isAuthenticated = FALSE /\ org = NoOrg /\ cookie = "none"
  /\ checked = FALSE
  /\ faults = 0

---------------------------------------------------------------------------
(* The pieces of api.ts.                                                   *)

ShouldRefreshToken == accessToken.age # "fresh"

(* Several calls may find that they need a token; one sends the request.   *)
DoRefreshToken(c, o) ==
  IF isRefreshing
  THEN /\ subscribers' = subscribers \cup {c}
       /\ UNCHANGED <<isRefreshing, owner, refresh>>
  ELSE /\ isRefreshing' = TRUE
       /\ owner' = c
       /\ refresh' = [at |-> "asked", org |-> o]
       /\ UNCHANGED subscribers

Sent(p, token) == [p EXCEPT !.at = "sent", !.sent = token.age]
Settle(c) == call' = [call EXCEPT ![c] = Idle]
Put(c, p) == call' = [call EXCEPT ![c] = p]

(* The request interceptor refreshes first, except for /auth/ endpoints.   *)
Request(c, p) ==
  IF p.kind = "data" /\ ShouldRefreshToken
  THEN /\ DoRefreshToken(c, currentOrgId)
       /\ Put(c, [p EXCEPT !.at = "before"])
  ELSE Put(c, Sent(p, accessToken)) /\ UNCHANGED refreshing

(* A mutated Ensure: any token will do.                                    *)
EnsureAny(c, p, o) ==
  IF accessToken.age # "none"
  THEN Put(c, Sent(p, accessToken)) /\ UNCHANGED refreshing
  ELSE /\ DoRefreshToken(c, o)
       /\ Put(c, [p EXCEPT !.at = "ensure"])

(* ensureAccessToken, then getMe.                                          *)
Ensure(c, p, o) ==
  IF ShouldRefreshToken
  THEN /\ DoRefreshToken(c, o)
       /\ Put(c, [p EXCEPT !.at = "ensure"])
  ELSE Put(c, Sent(p, accessToken)) /\ UNCHANGED refreshing

---------------------------------------------------------------------------
(* Calls.                                                                  *)

(* From a protected page, which is shown once the user is known.           *)
CallApi(c) ==
  /\ ~Busy(c) /\ isAuthenticated /\ checked
  /\ Request(c, New("data", NoOrg))
  /\ UNCHANGED <<client, store, server>>

SwitchOrg(c, o) ==
  /\ ~Busy(c) /\ isAuthenticated /\ checked
  /\ o \in member \ {org}
  /\ Request(c, New("switch", o))
  /\ UNCHANGED <<client, store, server>>

(* The page of an invitation does not wait for the check.                  *)
AcceptInvitation(c, o) ==
  /\ ~Busy(c) /\ isAuthenticated
  /\ o \notin member
  /\ Request(c, New("accept", o))
  /\ UNCHANGED <<client, store, server>>

(* One check at a time; it sets the organisation the refresh asks for.     *)
CheckAuth(c) ==
  /\ ~Busy(c)
  /\ \A d \in Calls : Busy(d) => call[d].kind # "check"
  /\ currentOrgId' = org
  /\ Ensure(c, New("check", NoOrg), org)
  /\ UNCHANGED <<accessToken, store, server>>

RefreshAuth(c) ==
  /\ ~Busy(c) /\ isAuthenticated /\ checked
  /\ Ensure(c, New("me", NoOrg), currentOrgId)
  /\ UNCHANGED <<client, store, server>>

(* The form is shown when the check on its page has failed.                *)
Login(c) ==
  /\ ~Busy(c) /\ ~isAuthenticated
  /\ \A d \in Calls : Busy(d) => call[d].kind \notin {"check", "login"}
  /\ Request(c, New("login", NoOrg))
  /\ UNCHANGED <<client, store, server>>

(* Offered on the page of an invitation, which asks for no data.           *)
Logout(c) ==
  /\ ~Busy(c) /\ isAuthenticated
  /\ \A d \in Calls : Busy(d) => call[d].kind \in {"check", "me"}
  /\ Request(c, New("logout", NoOrg))
  /\ UNCHANGED <<client, store, server>>

---------------------------------------------------------------------------
(* The refresh.                                                            *)

(* POST /auth/refresh: the organisation asked for, or the user's first.    *)
ServerRefreshes ==
  /\ refresh.at = "asked"
  /\ \/ /\ cookie = "valid"
        /\ \E o \in IF refresh.org \in member THEN {refresh.org} ELSE member :
             refresh' = [at |-> "granted", org |-> o]
     \/ /\ cookie # "valid"
        /\ refresh' = [refresh EXCEPT !.at = IF cookie = "none" THEN "absent"
                                             ELSE "refused"]
  /\ UNCHANGED <<call, client, isRefreshing, owner, subscribers, store, server>>

Resumes == subscribers \cup {owner}

(* A call that waited sends its request with the new token.  Without one   *)
(* only the request interceptor goes on.                                   *)
WithoutToken(p) == IF p.at = "before" THEN Sent(p, NoToken) ELSE Idle

(* A mutated EndRefresh: the flag outlives the refresh.                    *)
EndRefreshStillBusy ==
  /\ owner' = NoCall
  /\ subscribers' = {}
  /\ refresh' = NoRefresh
  /\ UNCHANGED isRefreshing

EndRefresh ==
  /\ isRefreshing' = FALSE
  /\ owner' = NoCall
  /\ subscribers' = {}
  /\ refresh' = NoRefresh

RefreshSucceeds ==
  /\ refresh.at = "granted"
  /\ accessToken' = FreshToken(refresh.org)
  /\ call' = [c \in Calls |-> IF c \in Resumes THEN Sent(call[c], accessToken')
                              ELSE call[c]]
  /\ EndRefresh
  /\ UNCHANGED <<currentOrgId, store, server>>

(* checkAuth's catch, or the handler of a 401 that cannot be helped.       *)
GiveUpSession ==
  /\ isAuthenticated' = FALSE
  /\ org' = NoOrg
  /\ UNCHANGED checked

RefreshFails(newCookie) ==
  /\ accessToken' = NoToken
  /\ call' = [c \in Calls |-> IF c \in Resumes THEN WithoutToken(call[c])
                              ELSE call[c]]
  /\ EndRefresh
  /\ IF \E c \in Resumes : call[c].at = "after" \/ call[c].kind = "check"
     THEN GiveUpSession ELSE UNCHANGED store
  /\ cookie' = newCookie
  /\ UNCHANGED <<currentOrgId, member>>

(* A refusal clears the cookie, which may be another one by then.          *)
RefreshRefused ==
  /\ refresh.at \in {"refused", "absent"}
  /\ RefreshFails(IF refresh.at = "refused" THEN "none" ELSE cookie)
  /\ UNCHANGED faults

RefreshLost ==
  /\ refresh.at # "none" /\ faults < MaxFaults
  /\ RefreshFails(cookie)
  /\ faults' = faults + 1

---------------------------------------------------------------------------
(* Answers.                                                                *)

Admitted(c) == /\ call[c].at = "sent"
               /\ call[c].kind = "login" \/ call[c].sent \in {"fresh", "old"}
Unauthorized(c) == call[c].at = "sent" /\ call[c].sent # "fresh"

DataAnswered(c) ==
  /\ Admitted(c) /\ call[c].kind = "data"
  /\ Settle(c)
  /\ UNCHANGED <<client, refreshing, store, server>>

Switched(c) ==
  /\ Admitted(c) /\ call[c].kind = "switch"
  /\ accessToken' = FreshToken(call[c].org)
  /\ currentOrgId' = call[c].org
  /\ org' = call[c].org
  /\ Settle(c)
  /\ UNCHANGED <<refreshing, isAuthenticated, checked, server>>

(* The answer brings a token and a cookie; refreshAuth is called next.     *)
Joined(c) ==
  /\ Admitted(c) /\ call[c].kind = "accept"
  /\ member' = member \cup {call[c].org}
  /\ cookie' = "valid"
  /\ accessToken' = FreshToken(call[c].org)
  /\ Put(c, Sent(New("me", NoOrg), accessToken'))
  /\ UNCHANGED <<currentOrgId, refreshing, store, faults>>

(* The organisation shown is kept if the user still belongs to it.         *)
KnowsMe(c) ==
  /\ Admitted(c) /\ call[c].kind \in {"check", "me"}
  /\ \E o \in IF org \in member THEN {org} ELSE member : org' = o
  /\ isAuthenticated' = (isAuthenticated \/ call[c].kind = "check")
  /\ checked' = (checked \/ call[c].kind = "check")
  /\ Settle(c)
  /\ UNCHANGED <<client, refreshing, server>>

LoggedIn(c) ==
  /\ Admitted(c) /\ call[c].kind = "login"
  /\ \E o \in member :
       /\ accessToken' = FreshToken(o)
       /\ currentOrgId' = o
       /\ org' = o
  /\ cookie' = "valid"
  /\ isAuthenticated' = TRUE
  /\ checked' = FALSE
  /\ Settle(c)
  /\ UNCHANGED <<refreshing, member, faults>>

LoggedOut(c) ==
  /\ call[c].at = "sent" /\ call[c].kind = "logout"
  /\ cookie' = "none"
  /\ accessToken' = NoToken
  /\ currentOrgId' = NoOrg
  /\ GiveUpSession
  /\ Settle(c)
  /\ UNCHANGED <<refreshing, member, faults>>

(* 401: refresh and retry, unless it is a retry or such an endpoint.       *)
RetryAfterRefresh(c) ==
  /\ Unauthorized(c) /\ call[c].kind \in {"data", "switch", "accept"}
  /\ ~call[c].retry
  /\ DoRefreshToken(c, currentOrgId)
  /\ Put(c, [call[c] EXCEPT !.at = "after", !.retry = TRUE])
  /\ UNCHANGED <<client, store, server>>

(* The error reaches the caller; only checkAuth and logout make of it that *)
(* the user is gone.                                                       *)
Fails(c) ==
  /\ IF call[c].kind \in {"check", "logout"} THEN GiveUpSession ELSE UNCHANGED store
  /\ IF call[c].kind = "logout"
     THEN accessToken' = NoToken /\ currentOrgId' = NoOrg
     ELSE UNCHANGED client
  /\ Settle(c)
  /\ UNCHANGED refreshing

Rejected(c) ==
  /\ \/ /\ Unauthorized(c) /\ call[c].kind \notin {"login", "logout"}
        /\ call[c].retry \/ call[c].kind \in {"check", "me"}
     \/ call[c].at = "sent" /\ call[c].kind = "login"  \* wrong password
  /\ Fails(c)
  /\ UNCHANGED server

(* The server may have done what was asked, but no cookie has arrived.     *)
AnswerLost(c) ==
  /\ call[c].at = "sent" /\ faults < MaxFaults
  /\ Fails(c)
  /\ faults' = faults + 1
  /\ \/ UNCHANGED <<cookie, member>>
     \/ /\ call[c].kind = "accept" /\ Admitted(c)
        /\ member' = member \cup {call[c].org}
        /\ UNCHANGED cookie
     \/ /\ call[c].kind = "logout" /\ cookie = "valid"
        /\ cookie' = "revoked"
        /\ UNCHANGED member

---------------------------------------------------------------------------
(* Around it.                                                              *)

TokenAges ==
  /\ accessToken.age = "fresh"
  /\ accessToken' = [accessToken EXCEPT !.age = "old"]
  /\ UNCHANGED <<call, currentOrgId, refreshing, store, server>>

(* The refresh token expires, or is revoked from another device.           *)
SessionRevoked ==
  /\ cookie = "valid"
  /\ cookie' = "revoked"
  /\ UNCHANGED <<call, client, refreshing, store, member, faults>>

(* The page is loaded anew: memory is lost, the stored part of the store   *)
(* is not.  The header's logout removes that and the cookie as well.       *)
Reload(logout) ==
  /\ call' = [c \in Calls |-> Idle]
  /\ accessToken' = NoToken
  /\ currentOrgId' = NoOrg
  /\ EndRefresh
  /\ checked' = FALSE
  /\ IF logout
     THEN isAuthenticated' = FALSE /\ org' = NoOrg /\ cookie' = "none"
     ELSE UNCHANGED <<isAuthenticated, org, cookie>>
  /\ UNCHANGED <<member, faults>>

Start(c) ==
  \/ CallApi(c) \/ CheckAuth(c) \/ RefreshAuth(c) \/ Login(c) \/ Logout(c)
  \/ \E o \in Orgs : SwitchOrg(c, o) \/ AcceptInvitation(c, o)

Answer(c) ==
  \/ DataAnswered(c) \/ Switched(c) \/ Joined(c) \/ KnowsMe(c)
  \/ LoggedIn(c) \/ LoggedOut(c)
  \/ RetryAfterRefresh(c) \/ Rejected(c) \/ AnswerLost(c)

AnswerRefresh == RefreshSucceeds \/ RefreshRefused \/ RefreshLost

SessionNext ==
  \/ \E c \in Calls : Start(c) \/ Answer(c)
  \/ ServerRefreshes \/ AnswerRefresh
  \/ TokenAges \/ SessionRevoked
  \/ \E logout \in BOOLEAN : Reload(logout)

(* Every request is answered in the end, or fails.                         *)
Fairness ==
  /\ \A c \in Calls : WF_sessionVars(Answer(c))
  /\ WF_sessionVars(ServerRefreshes)
  /\ WF_sessionVars(AnswerRefresh)

SessionSpec == SessionInit /\ [][SessionNext]_sessionVars
FairSpec == SessionSpec /\ Fairness

---------------------------------------------------------------------------
(* Properties.                                                             *)

(* There is one refresh at a time, and it knows everybody who waits: a call*)
(* waits for a token exactly if it sent the refresh that is under way or   *)
(* has subscribed to it.                                                   *)
RefreshKnowsWaiters ==
  /\ isRefreshing <=> refresh.at # "none"
  /\ {c \in Calls : Waiting(c)} = subscribers \cup ({owner} \ {NoCall})
  /\ isRefreshing <=> owner # NoCall
  /\ owner \notin subscribers

(* While the browser holds a valid refresh token and no answer gets lost,  *)
(* expired tokens, retries and switches of any kind never log the user out;*)
(* unless by a refusal that was sent before the cookie was there.          *)
SessionKept ==
  [][ cookie = "valid" /\ cookie' = "valid" /\ faults' = 0
        /\ isAuthenticated /\ refresh.at # "absent"
        => isAuthenticated' ]_sessionVars

(* No call hangs: whatever is lost or refused, its promise settles.        *)
EveryCallSettles == \A c \in Calls : Busy(c) ~> ~Busy(c)
=============================================================================
