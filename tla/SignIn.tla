------------------------------- MODULE SignIn -------------------------------
(***************************************************************************)
(* Signing in with a password or with Google or GitHub, signing out, and   *)
(* everything that sets a password (services/auth/core.ts, password.ts,    *)
(* googleOAuth.ts, githubOAuth.ts, oauthShared.ts, routes/auth.ts), with   *)
(* the pages that ask for it.  The two identity providers are alike and    *)
(* one of them is modelled.                                                *)
(***************************************************************************)
EXTENDS AuthStores

Exists == user # None

-----------------------------------------------------------------------------
(* The pages.  A person types the password that is in force, or another.   *)

Typed == {Wrong} \union IF Exists THEN {user.password} \ {None} ELSE {}

HandleLogin(r) == \E password \in Typed : Ask(r, "login", password, "lockout")
HandleLogout(r) == \E s \in Sessions : Ask(r, "logout", s, "get")
HandleOAuth(r) == Ask(r, "oauth", None, "lookup")

\* The form shows one of two dialogs by what the page knows of the user.
HandlePasswordSubmit(r) ==
  /\ Exists
  /\ \/ \E password \in Typed : Ask(r, "changePassword", password, "read")
     \/ Ask(r, "setPassword", None, "read")

HandleForgot(r) == Ask(r, "forgotPassword", None, "read")

\* The links that were mailed.
Links == redis.resets \intersect
           ({Original} \union {q \in Requests : At(q, {"forgotPassword"}, "done")})
HandleReset(r) == \E link \in Links : Ask(r, "resetPassword", link, "consume")

-----------------------------------------------------------------------------
(* login.                                                                  *)

CheckLockout(r) ==
  /\ At(r, {"login"}, "lockout")
  /\ Go(r, IF redis.failures >= LockoutThreshold THEN "refused" ELSE "read")
  /\ Reads

CheckPassword(r) ==
  /\ At(r, {"login"}, "read")
  /\ \/ ~Exists /\ Go(r, "fail")
     \/ Exists /\ user.password = None /\ Go(r, "refused")
     \/ Exists /\ user.password \notin {None, Arg(r)} /\ Go(r, "fail")
     \/ Exists /\ user.password = Arg(r) /\ GoWith(r, "clear", user.secret)
  /\ Reads

RecordFailedAttempt(r) ==
  /\ At(r, {"login"}, "fail")
  /\ redis' = [redis EXCEPT !.failures = @ + 1]
  /\ Go(r, "refused")
  /\ WritesRedis

ClearLockout(r) ==
  /\ At(r, {"login"}, "clear")
  /\ redis' = [redis EXCEPT !.failures = 0]
  /\ Go(r, IF Got(r) = None THEN "key" ELSE "challenge")
  /\ WritesRedis

CreateChallenge(r) ==
  /\ At(r, {"login", "oauth"}, "challenge")
  /\ redis' = [redis EXCEPT !.challenges = @ \union {r}]
  /\ Go(r, "done")
  /\ WritesRedis

-----------------------------------------------------------------------------
(* The callback of an identity provider: log in, link, or make an account. *)

LookUpLinked(r) ==
  /\ At(r, {"oauth"}, "lookup")
  /\ Go(r, IF Exists /\ user.linked THEN "complete" ELSE "byEmail")
  /\ Reads

LookUpByEmail(r) ==
  /\ At(r, {"oauth"}, "byEmail")
  /\ \/ ~Exists /\ Go(r, "create")
     \/ Exists /\ Go(r, "link")
     \/ Exists /\ ~user.verified /\ Go(r, "linkUnverified")
  /\ Reads

\* One that is there already is not an error; its foreign key waits for a
\* transaction that holds the row of users.
LinkAccount(r) ==
  /\ \/ At(r, {"oauth"}, "link") /\ Go(r, "complete")
     \/ At(r, {"oauth"}, "linkUnverified") /\ Go(r, "verify")
  /\ WritesUser([user EXCEPT !.linked = TRUE])
  /\ UNCHANGED before

VerifiedByProvider(r) ==
  /\ At(r, {"oauth"}, "verify")
  /\ WritesUser([user EXCEPT !.verified = TRUE])
  /\ Go(r, "complete")
  /\ UNCHANGED before

\* A new user is let in without asking whether two factors are enabled.
CreateOAuthUser(r) ==
  /\ At(r, {"oauth"}, "create")
  /\ IF Exists THEN Go(r, "refused") /\ Reads
     ELSE /\ \E trusted \in BOOLEAN :
               user' = [by |-> r, password |-> None, verified |-> trusted,
                        mailCode |-> None, linked |-> TRUE, secret |-> None,
                        codes |-> None, left |-> {}]
          /\ Go(r, "key")
          /\ UNCHANGED <<redis, keys, tokens, lock, history, page>>

CompleteOAuthLogin(r) ==
  /\ At(r, {"oauth"}, "complete")
  /\ Go(r, IF user.secret = None THEN "key" ELSE "challenge")
  /\ Reads

-----------------------------------------------------------------------------
(* logout: whose token it is, then the token and its place in the set.     *)

GetToken(r) ==
  /\ At(r, {"logout"}, "get")
  /\ GoWith(r, "drop", IF Arg(r) \in keys THEN Arg(r) ELSE None)
  /\ Reads

DropToken(r) ==
  /\ At(r, {"logout"}, "drop")
  /\ keys' = keys \ {Arg(r)}
  /\ tokens' = tokens \ {Got(r)}
  /\ Go(r, "done")
  /\ UNCHANGED <<user, redis, lock, history, page>>

-----------------------------------------------------------------------------
(* change-password, reset-password, set-password, forgot-password.         *)

ReadPassword(r) ==
  /\ At(r, {"changePassword"}, "read")
  /\ Go(r, IF Exists /\ user.password = Arg(r) THEN "update" ELSE "refused")
  /\ Reads

ReadNoPassword(r) ==
  /\ At(r, {"setPassword"}, "read")
  /\ Go(r, IF Exists /\ user.password = None THEN "update" ELSE "refused")
  /\ Reads

ConsumeLink(r) ==
  /\ At(r, {"resetPassword"}, "consume")
  /\ redis' = [redis EXCEPT !.resets = @ \ {Arg(r)}]
  /\ Go(r, IF Arg(r) \in redis.resets THEN "lookup" ELSE "refused")
  /\ WritesRedis

LookUpForReset(r) ==
  /\ At(r, {"resetPassword"}, "lookup")
  /\ Go(r, IF Exists THEN "update" ELSE "refused")
  /\ Reads

NewPassword(r) ==
  /\ At(r, {"changePassword", "resetPassword"}, "update")
  /\ WritesUser([user EXCEPT !.password = r])
  /\ ThenRevoke(r)

FirstPassword(r) ==
  /\ At(r, {"setPassword"}, "update")
  /\ WritesUser([user EXCEPT !.password = r])
  /\ Go(r, "done")
  /\ UNCHANGED before

LookUpForLink(r) ==
  /\ At(r, {"forgotPassword"}, "read")
  /\ Go(r, IF Exists THEN "setCode" ELSE "refused")
  /\ Reads

SetLink(r) ==
  /\ At(r, {"forgotPassword"}, "setCode")
  /\ redis' = [redis EXCEPT !.resets = @ \union {r}]
  /\ Go(r, "mail")
  /\ WritesRedis

MailLink(r) ==
  /\ At(r, {"forgotPassword"}, "mail")
  /\ \/ Go(r, "done") \/ Go(r, "unset")
  /\ Reads

\* The answer is the same, but nothing was mailed.
UnsetLink(r) ==
  /\ At(r, {"forgotPassword"}, "unset")
  /\ redis' = [redis EXCEPT !.resets = @ \ {r}]
  /\ Go(r, "refused")
  /\ WritesRedis

SignInSteps(r) ==
  \/ HandleLogin(r) \/ HandleLogout(r) \/ HandleOAuth(r) \/ HandlePasswordSubmit(r)
  \/ HandleForgot(r) \/ HandleReset(r)
  \/ CheckLockout(r) \/ CheckPassword(r) \/ RecordFailedAttempt(r)
  \/ ClearLockout(r) \/ CreateChallenge(r)
  \/ LookUpLinked(r) \/ LookUpByEmail(r) \/ LinkAccount(r) \/ VerifiedByProvider(r)
  \/ CreateOAuthUser(r) \/ CompleteOAuthLogin(r)
  \/ GetToken(r) \/ DropToken(r)
  \/ ReadPassword(r) \/ ReadNoPassword(r) \/ ConsumeLink(r) \/ LookUpForReset(r)
  \/ NewPassword(r) \/ FirstPassword(r)
  \/ LookUpForLink(r) \/ SetLink(r) \/ MailLink(r) \/ UnsetLink(r)
=============================================================================
