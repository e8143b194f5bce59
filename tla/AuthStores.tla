----------------------------- MODULE AuthStores -----------------------------
(***************************************************************************)
(* What the authentication of one e-mail address is kept in: its row of    *)
(* users with that of user_oauth_accounts, the keys of Redis               *)
(* (apps/api/src/lib/redis.ts), and the requests that work on them; and    *)
(* the commands every way of signing in or changing a password ends with:  *)
(* storing a refresh token, and revoking them all.                         *)
(*                                                                         *)
(* A request is a sequence of SQL statements and Redis commands, and a     *)
(* step of the model is one of them.  Everything random is named by the    *)
(* request that makes it: the password it sets, the code it mails, the     *)
(* challenge, the reset link, the TOTP secret, the set of recovery codes   *)
(* and the session.  Original names what the account had before.           *)
(***************************************************************************)
EXTENDS Naturals, FiniteSets

CONSTANTS Requests,            \* requests to the API, each made once
          Original, None, Wrong,
          RecoveryCodes,       \* the codes of one set
          Scenarios,           \* the accounts to start from, and what is asked
          MaxSignupAttempts,   \* MAX_SIGNUP_ATTEMPTS
          LockoutThreshold,    \* ACCOUNT_LOCKOUT_THRESHOLD
          MaxVerifyAttempts    \* MAX_TWO_FACTOR_VERIFY_ATTEMPTS

Makers == Requests \union {Original}
Maybe(S) == S \union {None}

Operations == {"sendCode", "verifyCode", "completeSignup", "signup", "verifyEmail",
  "resendVerification", "login", "oauth", "logout", "changePassword", "setPassword",
  "forgotPassword", "resetPassword", "initSetup", "enable", "disable", "regenerate",
  "totp", "recovery"}

Ended == {"done", "refused"}
Steps == Ended \union {"new", "lookup", "cooldown", "setCode", "setCooldown", "mail",
  "unset", "getCode", "attempts", "deleteCode", "resetAttempts", "insert", "cleanup",
  "read", "update", "key", "member", "check", "members", "del", "lockout", "fail",
  "clear", "challenge", "byEmail", "create", "link", "linkUnverified", "verify",
  "complete", "get", "drop", "consume", "getSetup", "tries", "deleteSetup",
  "resetTries", "getChallenge", "checkTries", "incTries", "isUsed", "markUsed",
  "lock", "remove", "deleteChallenge"}

Rows == [by : Makers, password : Maybe(Makers), verified : BOOLEAN,
         mailCode : Maybe(Makers), linked : BOOLEAN, secret : Maybe(Makers),
         codes : Maybe(Makers), left : SUBSET RecoveryCodes]

Counters == {"login", "recovery", "setup", "disable", "regen"}
Caches == [code : Maybe(Makers), attempts : Nat, cooldown : BOOLEAN, failures : Nat,
           setup : Maybe(Makers), challenges : SUBSET Makers, resets : SUBSET Makers,
           tries : [Counters -> Nat], used : BOOLEAN]

Values == Makers \union {None, Wrong} \union RecoveryCodes

ASSUME AuthAssumption ==
  /\ IsFiniteSet(Requests)
  /\ Original \notin Requests
  /\ None \notin Makers \union {Wrong}
  /\ None \notin Rows
  /\ Wrong \notin Makers
  /\ Scenarios \subseteq [ops : SUBSET Operations, user : Maybe(Rows),
                          session : BOOLEAN, pending : BOOLEAN]
  /\ \A s \in Scenarios : s.user # None =>
       s.user.codes = Original \/ (s.user.codes = None /\ s.user.left = {})

VARIABLES user,      \* the row of users, or None
          redis,     \* the keys that expire by themselves
          keys,      \* refresh:<id>: the sessions that can be refreshed
          tokens,    \* refresh:user:<id>: the ids to revoke with the user's others
          lock,      \* who holds the row of users FOR UPDATE
          request,   \* what every request asks, where it is, what it read
          offered,   \* the operations asked for in this behaviour
          wizard,    \* the page Signup: its step, its token, what it waits for
          newest,    \* history: the sign-up code that was mailed last
          crossed,   \* history: requests about the code ran into each other
          late,      \* history: who may escape a revocation that overlaps with it
          before,    \* history: who was signed in when a request changed the row
          opened     \* history: which request was let in by which recovery code
vars == <<user, redis, keys, tokens, lock, request, offered, wizard, newest,
          crossed, late, before, opened>>
stores == <<user, redis, keys, tokens, lock>>
history == <<newest, crossed, late, before, opened>>
page == <<offered, wizard>>

New == [op |-> "login", at |-> "new", arg |-> None, got |-> None, ids |-> {}]

TypeOK ==
  /\ user \in Maybe(Rows)
  /\ redis \in Caches
  /\ keys \subseteq Makers
  /\ tokens \subseteq Makers
  /\ lock \in Maybe(Requests)
  /\ request \in [Requests -> [op : Operations, at : Steps, arg : Values,
                               got : Values, ids : SUBSET Makers]]
  /\ offered \subseteq Operations
  /\ wizard \in [step : 1..4, token : Maybe(Makers), asked : SUBSET Requests]
  /\ newest \in Maybe(Makers)
  /\ crossed \in BOOLEAN
  /\ late \subseteq Makers
  /\ before \in [Requests -> SUBSET Makers]
  /\ opened \subseteq Requests \X Makers \X RecoveryCodes

\* Before: nothing, or an account, perhaps with a session, and perhaps with
\* something unfinished: a sign-up code for an address that is not verified,
\* a link to reset the password, a challenge or a TOTP secret to confirm.
Init ==
  \E s \in Scenarios :
    LET Pending(condition) == s.pending /\ condition
        session == IF s.session THEN {Original} ELSE {}
        code == IF Pending(s.user = None \/ ~s.user.verified) THEN Original ELSE None
    IN  /\ user = s.user
        /\ offered = s.ops
        /\ keys = session
        /\ tokens = session
        /\ redis =
             [code |-> code, attempts |-> 0, cooldown |-> FALSE, failures |-> 0,
              setup |-> IF Pending(s.user # None /\ s.user.secret = None)
                        THEN Original ELSE None,
              challenges |-> IF Pending(s.user # None /\ s.user.secret # None)
                             THEN {Original} ELSE {},
              resets |-> IF Pending(s.user # None) THEN {Original} ELSE {},
              tries |-> [k \in Counters |-> 0], used |-> FALSE]
        /\ newest = code
        /\ lock = None
        /\ request = [r \in Requests |-> New]
        /\ wizard = [step |-> IF code = None THEN 1 ELSE 2, token |-> None, asked |-> {}]
        /\ crossed = FALSE
        /\ late = {}
        /\ before = [r \in Requests |-> {}]
        /\ opened = {}

-----------------------------------------------------------------------------
(* Requests.                                                               *)

Begin(r, op, arg, at) ==
  /\ op \in offered
  /\ request[r].at = "new"
  /\ request' = [request EXCEPT ![r] = [op |-> op, at |-> at, arg |-> arg,
                                        got |-> None, ids |-> {}]]
Ask(r, op, arg, at) ==
  /\ Begin(r, op, arg, at)
  /\ UNCHANGED <<stores, history, page>>

At(r, ops, at) == request[r].op \in ops /\ request[r].at = at
Go(r, at) == request' = [request EXCEPT ![r].at = at]
GoWith(r, at, v) == request' = [request EXCEPT ![r].at = at, ![r].got = v]
Arg(r) == request[r].arg
Got(r) == request[r].got

Reads == UNCHANGED <<stores, history, page>>
WritesRedis == UNCHANGED <<user, keys, tokens, lock, history, page>>

\* An UPDATE of the row waits for a transaction that holds it.
WritesUser(row) ==
  /\ lock = None
  /\ user' = row
  /\ UNCHANGED <<redis, keys, tokens, lock, newest, crossed, late, opened, page>>

\* Those that are let in: past the check of the password or the code, or of
\* the identity provider, and not yet stored under the user's tokens.
Admitted == {r \in Requests : request[r].at \in {"clear", "key", "member"}}

\* The sessions whose cookie was set: a token whose request failed while it
\* was being stored is in no cookie, and nobody can refresh with it.
Sessions == {s \in keys : s = Original \/ request[s].at = "done"}

\* Those that have stored a sign-up code, and have not mailed it or given up.
Sending ==
  {r \in Requests : request[r].op = "sendCode"
                     /\ request[r].at \in {"setCooldown", "mail", "unset"}}

\* A statement throws: the request ends with an error, a transaction of its
\* own is rolled back, and what it has written stays.
Throws(r) ==
  /\ request[r].at \notin Ended \union {"new"}
  /\ Go(r, "refused")
  /\ lock' = IF lock = r THEN None ELSE lock
  /\ crossed' = (crossed \/ r \in Sending)
  /\ UNCHANGED <<user, redis, keys, tokens, newest, late, before, opened, page>>

-----------------------------------------------------------------------------
(* setAuthTokens: the refresh token r is stored by a pipeline of three     *)
(* commands (the third prolongs the set), between which those of other     *)
(* connections may run, and looked up before the cookie is set.            *)

Revoking == {r \in Requests : request[r].at = "del"}

StoreKey(r) ==
  /\ request[r].at = "key"
  /\ keys' = keys \union {r}
  /\ Go(r, "member")
  /\ UNCHANGED <<user, redis, tokens, lock, history, page>>

\* Mutant: the id is not added to those of the user.
StoreAlone(r) ==
  /\ request[r].at = "member"
  /\ Go(r, "check")
  /\ Reads

StoreMember(r) ==
  /\ request[r].at = "member"
  /\ tokens' = tokens \union {r}
  /\ late' = IF Revoking = {} THEN late ELSE late \union {r}
  /\ Go(r, "check")
  /\ UNCHANGED <<user, redis, keys, lock, newest, crossed, before, opened, page>>

CheckStored(r) ==
  /\ request[r].at = "check"
  /\ Go(r, IF r \in keys THEN "done" ELSE "refused")
  /\ Reads

(* revokeAllForUser: the ids are read, then their keys and the set are     *)
(* deleted by one command.                                                 *)

RevokeMembers(r) ==
  /\ request[r].at = "members"
  /\ late' = late \union Admitted
  /\ request' = [request EXCEPT ![r].ids = tokens,
                                ![r].at = IF tokens = {} THEN "done" ELSE "del"]
  /\ UNCHANGED <<stores, newest, crossed, before, opened, page>>

RevokeKeys(r) ==
  /\ request[r].at = "del"
  /\ keys' = keys \ request[r].ids
  /\ tokens' = {}
  /\ Go(r, "done")
  /\ UNCHANGED <<user, redis, lock, history, page>>

\* The write of a request that then revokes everybody who is signed in.
ThenRevoke(r) ==
  /\ before' = [before EXCEPT ![r] = keys \union Admitted]
  /\ Go(r, "members")
=============================================================================
