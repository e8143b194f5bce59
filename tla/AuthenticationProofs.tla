----------------------- MODULE AuthenticationProofs -----------------------
(***************************************************************************)
(* Proofs about Authentication, for any requests, recovery codes, limits   *)
(* and accounts to start from.                                             *)
(***************************************************************************)
EXTENDS Authentication, TLAPS

Asked == [op : Operations, at : Steps, arg : Values, got : Values, ids : SUBSET Makers]
Wizards == [step : 1 .. 4, token : Maybe(Makers), asked : SUBSET Requests]

-----------------------------------------------------------------------------
(* The invariant.                                                          *)

\* Who writes the row has found it there, and rows are never deleted; a
\* secret that is enabled was shown; who logs out drops the token it has.
NeedsUser == {"update", "tries", "link", "linkUnverified", "verify", "complete", "remove"}
UserStays ==
  /\ \A r \in Requests : request[r].at \in NeedsUser => user # None
  /\ user # None /\ user.codes = None => user.left = {}
  /\ \A r \in Requests :
       request[r].op = "enable" /\ request[r].at \in {"tries", "update"} =>
         Got(r) \in Makers
  /\ \A r \in Requests : request[r].at = "drop" => Got(r) \in {Arg(r), None}

\* Where the one who made something is.
Reached(s, S) == s = Original \/ (s \in Requests /\ request[s].at \in S)

\* From being let in to being answered; and those that will never have a
\* session that can be refreshed.
Admitting == {"clear", "key", "member", "check", "challenge", "done", "refused"}
Stored == {"check", "done", "refused"}
Gone(s) ==
  \/ s \notin keys /\ Reached(s, {"check", "challenge", "done"})
  \/ s \in Requests /\ request[s].at = "refused"

\* Every session is among the tokens to revoke, but for those that overlapped
\* with a revocation, and those of which no cookie was set yet or ever will.
KeysKnown ==
  \A s \in keys :
    /\ Reached(s, {"member"} \cup Stored)
    /\ s \in tokens \/ s \in late
       \/ (s \in Requests /\ request[s].at \in {"member", "refused"})

\* A request between the two halves of the revocation has read all tokens but
\* those that were stored since.
RevocationsKnow ==
  /\ \A s \in tokens : Reached(s, Stored)
  /\ \A r \in Requests :
       request[r].at = "del" =>
         /\ \A s \in request[r].ids : Reached(s, Stored)
         /\ \A s \in tokens : s \in request[r].ids \/ s \in late

\* What becomes of those who were let in when the row was written.
BeforeKnown ==
  \A r \in Requests :
    /\ \A s \in before[r] : Reached(s, Admitting)
    /\ before[r] # {} => request[r].at \in {"members", "del", "done", "refused"}
    /\ request[r].at = "del" =>
         \A s \in before[r] : s \in request[r].ids \/ s \in late \/ Gone(s)
    /\ request[r].at = "done" => \A s \in before[r] : s \in late \/ Gone(s)

SessionsKnown == KeysKnown /\ RevocationsKnow /\ BeforeKnown

\* A set of recovery codes is in the row only after its maker wrote it, who
\* writes it once; a code that was used is not left in its set; and who is
\* about to remove one holds the row, in which it still is.
Wrote(m) ==
  \/ m = Original
  \/ /\ m \in Requests /\ request[m].op \in {"enable", "regenerate"}
     /\ request[m].at \in {"deleteSetup", "resetTries", "done", "refused"}
LockHeld ==
  \A r \in Requests :
    request[r].at = "remove" =>
      lock = r /\ user # None /\ user.codes # None /\ Got(r) \in user.left
UsedCodesGone ==
  /\ user # None /\ user.codes # None => Wrote(user.codes)
  /\ \A x \in opened :
       Wrote(x[2]) /\ (user # None /\ user.codes = x[2] => x[3] \notin user.left)
CodesKnown == LockHeld /\ UsedCodesGone /\ RecoveryCodeOnce

\* While nothing has crossed, who is between storing a code and having mailed
\* it is the only one, and its code is in force.
Between == {"setCooldown", "mail", "unset"}
Storing(r) == request[r].op = "sendCode" /\ request[r].at \in Between
NewestKnown ==
  ~crossed =>
    /\ redis.code # None =>
         redis.code = newest \/ (redis.code \in Requests /\ Storing(redis.code))
    /\ \A r \in Requests : Storing(r) => redis.code = r

WellTyped == TypeOK /\ UserStays
IInv == WellTyped /\ SessionsKnown /\ CodesKnown /\ NewestKnown

-----------------------------------------------------------------------------
(* What a step does to the requests.                                       *)

StepOf(r) ==
  /\ request' \in [Requests -> Asked]
  /\ \A q \in Requests : q # r => request'[q] = request[q]
  /\ request[r].at = "new" \/ request'[r].op = request[r].op

LEMMA GoIsStep ==
  ASSUME TypeOK, NEW r \in Requests, NEW at \in Steps, Go(r, at)
  PROVE  /\ StepOf(r)
         /\ request'[r].at = at /\ request'[r].op = request[r].op
         /\ request'[r].arg = request[r].arg /\ request'[r].got = request[r].got
BY DEF TypeOK, Go, StepOf, Asked

LEMMA GoWithIsStep ==
  ASSUME TypeOK, NEW r \in Requests, NEW at \in Steps, NEW v \in Values, GoWith(r, at, v)
  PROVE  /\ StepOf(r)
         /\ request'[r].at = at /\ request'[r].op = request[r].op
         /\ request'[r].arg = request[r].arg /\ request'[r].got = v
BY DEF TypeOK, GoWith, StepOf, Asked

LEMMA BeginIsStep ==
  ASSUME TypeOK, NEW r \in Requests, NEW op \in Operations, NEW at \in Steps,
         NEW arg \in Values, Begin(r, op, arg, at)
  PROVE  /\ StepOf(r)
         /\ request[r].at = "new" /\ request'[r].at = at /\ request'[r].op = op
BY DEF TypeOK, Begin, StepOf, Asked, Values

\* Steps that those who look at sessions, at recovery codes, and at mailed
\* codes need not know of.
Special == Admitting \cup {"members", "del"}
SessionsQuiet(r) ==
  /\ request[r].at \notin Special /\ request'[r].at # "del"
  /\ UNCHANGED <<keys, tokens, late, before>>
CodesQuiet(r) ==
  /\ request'[r].at # "remove"
  /\ Wrote(r) => Wrote(r)'
  /\ UNCHANGED <<user, lock, opened>>
NewestQuiet(r) ==
  /\ Storing(r)' <=> Storing(r)
  /\ redis'.code = redis.code
  /\ UNCHANGED <<newest, crossed>>

LEMMA SessionsKept ==
  ASSUME IInv, NEW r \in Requests, StepOf(r), SessionsQuiet(r)
  PROVE  SessionsKnown'
<1>1. \A s, S : s # r => (Reached(s, S)' <=> Reached(s, S))
  BY DEF Reached, StepOf
<1>2. \A s : s # r => (Gone(s)' <=> Gone(s))
  BY <1>1 DEF Gone, StepOf, SessionsQuiet
<1>3. /\ r \notin tokens /\ r \notin keys
      /\ \A q \in Requests :
           r \notin before[q] /\ (request[q].at = "del" => r \notin request[q].ids)
  BY AuthAssumption DEF IInv, SessionsKnown, KeysKnown, RevocationsKnow, BeforeKnown, Reached,
    SessionsQuiet, Special, Admitting, Stored
<1>4. before[r] = {}
  BY DEF IInv, SessionsKnown, BeforeKnown, SessionsQuiet, Special, Admitting
<1>5. KeysKnown'
  BY <1>1, <1>3 DEF IInv, SessionsKnown, KeysKnown, SessionsQuiet, StepOf
<1>6. RevocationsKnow'
  BY <1>1, <1>3 DEF IInv, SessionsKnown, RevocationsKnow, SessionsQuiet, StepOf
<1>7. BeforeKnown'
  BY <1>1, <1>2, <1>3, <1>4 DEF IInv, SessionsKnown, BeforeKnown, SessionsQuiet, StepOf
<1> QED
  BY <1>5, <1>6, <1>7 DEF SessionsKnown

LEMMA CodesKept ==
  ASSUME IInv, NEW r \in Requests, StepOf(r), CodesQuiet(r)
  PROVE  CodesKnown'
<1>1. \A m : Wrote(m) => Wrote(m)'
  BY DEF Wrote, CodesQuiet, StepOf
<1>2. LockHeld'
  BY DEF IInv, CodesKnown, LockHeld, CodesQuiet, StepOf, Got
<1>3. UsedCodesGone'
  BY <1>1 DEF IInv, CodesKnown, UsedCodesGone, CodesQuiet
<1>4. RecoveryCodeOnce'
  BY DEF IInv, CodesKnown, RecoveryCodeOnce, CodesQuiet
<1> QED
  BY <1>2, <1>3, <1>4 DEF CodesKnown

LEMMA NewestKept ==
  ASSUME IInv, NEW r \in Requests, StepOf(r), NewestQuiet(r)
  PROVE  NewestKnown'
<1>1. \A q \in Requests : Storing(q)' <=> Storing(q)
  BY DEF NewestQuiet, StepOf, Storing
<1> QED
  BY <1>1 DEF IInv, NewestKnown, NewestQuiet

-----------------------------------------------------------------------------
(* Steps that leave row, tokens and mailed codes alone.                    *)

UserFits(r) ==
  /\ request'[r].at \in NeedsUser => user # None
  /\ request'[r].op = "enable" /\ request'[r].at \in {"tries", "update"} =>
       request'[r].got \in Makers
  /\ request'[r].at = "drop" => request'[r].got \in {request'[r].arg, None}
Quiet(r) ==
  /\ StepOf(r) /\ UserFits(r)
  /\ SessionsQuiet(r) /\ CodesQuiet(r) /\ NewestQuiet(r)
  /\ redis' \in Caches /\ wizard' \in Wizards /\ UNCHANGED offered

LEMMA QuietKeeps ==
  ASSUME IInv, NEW r \in Requests, Quiet(r)
  PROVE  IInv'
<1>1. SessionsKnown' /\ CodesKnown' /\ NewestKnown'
  BY SessionsKept, CodesKept, NewestKept DEF Quiet
<1>2. TypeOK'
  BY DEF IInv, WellTyped, TypeOK, Quiet, StepOf, SessionsQuiet, CodesQuiet, NewestQuiet,
    Asked, Wizards
<1>3. UserStays'
  BY DEF IInv, WellTyped, UserStays, Quiet, StepOf, CodesQuiet, UserFits, Got, Arg
<1> QED
  BY <1>1, <1>2, <1>3 DEF IInv, WellTyped

\* A step from one place to the next that only reads, or writes keys of Redis
\* other than the mailed code.
Leads(r, op, from, to) ==
  /\ At(r, {op}, from)
  /\ from \notin Special /\ to \in Steps \ {"del", "remove"}
  /\ to \in NeedsUser => user # None
  /\ op \in {"enable", "regenerate"} /\ from \in {"deleteSetup", "resetTries"} =>
       to \in {"deleteSetup", "resetTries", "done", "refused"}
  /\ op = "sendCode" => (to \in Between <=> from \in Between)

LEMMA LeadsIsQuiet ==
  ASSUME IInv, NEW r \in Requests, NEW op, NEW from, NEW to, Leads(r, op, from, to),
         StepOf(r), request'[r].at = to, request'[r].op = op,
         op = "enable" /\ to \in {"tries", "update"} => request'[r].got \in Makers,
         to = "drop" => request'[r].got \in {request'[r].arg, None},
         UNCHANGED <<user, keys, tokens, lock, history, page>>,
         redis' \in Caches, redis'.code = redis.code
  PROVE  IInv'
<1>1. Wrote(r) => Wrote(r)'
  BY AuthAssumption DEF Wrote, Leads, At, Special, Admitting
<1>2. Quiet(r)
  BY <1>1 DEF Leads, At, Quiet, IInv, WellTyped, TypeOK, history, page, SessionsQuiet,
    CodesQuiet, NewestQuiet, Storing, UserFits, Wizards
<1> QED
  BY <1>2, QuietKeeps

LEMMA ReadKeeps ==
  ASSUME IInv, NEW r \in Requests, NEW op, NEW from, NEW to, Leads(r, op, from, to),
         Go(r, to), Reads, op # "enable" \/ to \notin {"tries", "update"}, to # "drop"
  PROVE  IInv'
<1>1. /\ StepOf(r)
      /\ request'[r].at = to /\ request'[r].op = op
  BY GoIsStep DEF IInv, WellTyped, Leads, At
<1>2. /\ UNCHANGED <<user, keys, tokens, lock, history, page>>
      /\ redis' \in Caches /\ redis'.code = redis.code
  BY DEF Reads, stores, IInv, WellTyped, TypeOK
<1> QED
  BY <1>1, <1>2, LeadsIsQuiet

LEMMA RedisKeeps ==
  ASSUME IInv, NEW r \in Requests, NEW op, NEW from, NEW to, Leads(r, op, from, to),
         Go(r, to), WritesRedis, redis' \in Caches, redis'.code = redis.code,
         op = "enable" /\ to = "update" => Got(r) \in Makers, to \notin {"tries", "drop"}
  PROVE  IInv'
<1>1. /\ StepOf(r)
      /\ request'[r].at = to /\ request'[r].op = op /\ request'[r].got = Got(r)
  BY GoIsStep DEF IInv, WellTyped, Leads, At, Got
<1>2. UNCHANGED <<user, keys, tokens, lock, history, page>>
  BY DEF WritesRedis
<1> QED
  BY <1>1, <1>2, LeadsIsQuiet

LEMMA ReadKeepsWith ==
  ASSUME IInv, NEW r \in Requests, NEW op, NEW from, NEW to, Leads(r, op, from, to),
         NEW v \in Values, GoWith(r, to, v), Reads,
         op = "enable" /\ to \in {"tries", "update"} => v \in Makers,
         to = "drop" => v \in {Arg(r), None}
  PROVE  IInv'
<1>1. /\ StepOf(r)
      /\ request'[r].at = to /\ request'[r].op = op
      /\ request'[r].arg = Arg(r) /\ request'[r].got = v
  BY GoWithIsStep DEF IInv, WellTyped, Leads, At, Arg
<1>2. /\ UNCHANGED <<user, keys, tokens, lock, history, page>>
      /\ redis' \in Caches /\ redis'.code = redis.code
  BY DEF Reads, stores, IInv, WellTyped, TypeOK
<1> QED
  BY <1>1, <1>2, LeadsIsQuiet

-----------------------------------------------------------------------------
(* Asking.                                                                 *)

Entries == {"lookup", "getCode", "read", "lockout", "get", "consume", "getSetup",
            "getChallenge"}

LEMMA BeginIsQuiet ==
  ASSUME IInv, NEW r \in Requests, NEW op \in Operations, NEW arg \in Values,
         NEW at \in Entries, Begin(r, op, arg, at),
         wizard' \in Wizards, UNCHANGED <<stores, history, offered>>
  PROVE  IInv'
<1>0. at \in Steps \ (NeedsUser \cup Between \cup {"del", "drop"})
  BY DEF Entries, Steps, Ended, NeedsUser, Between
<1>1. /\ StepOf(r)
      /\ request[r].at = "new" /\ request'[r].at = at /\ request'[r].op = op
  BY <1>0, BeginIsStep DEF IInv, WellTyped
<1>3. ~Wrote(r)
  BY <1>1, AuthAssumption DEF Wrote
<1>4. Quiet(r)
  BY <1>0, <1>1, <1>3 DEF Quiet, IInv, WellTyped, TypeOK, stores, history, SessionsQuiet, UserFits,
    CodesQuiet, NewestQuiet, Storing, Wizards, Special, Admitting, NeedsUser, Between, At
<1> QED
  BY <1>4, QuietKeeps

LEMMA AskKeeps ==
  ASSUME IInv, NEW r \in Requests, NEW op \in Operations, NEW arg \in Values,
         NEW at \in Entries, Ask(r, op, arg, at)
  PROVE  IInv'
<1>1. wizard' \in Wizards /\ UNCHANGED <<stores, history, offered>>
  BY DEF Ask, page, IInv, WellTyped, TypeOK, Wizards
<1> QED
  BY <1>1, BeginIsQuiet DEF Ask

LEMMA SubmitKeeps ==
  ASSUME IInv, NEW r \in Requests, NEW op \in Operations, NEW arg \in Values,
         NEW at \in Entries, Submit(r, op, arg, at)
  PROVE  IInv'
<1>1. wizard' \in Wizards /\ UNCHANGED <<stores, history, offered>>
  BY DEF Submit, IInv, WellTyped, TypeOK, Wizards
<1> QED
  BY <1>1, BeginIsQuiet DEF Submit

LEMMA PagesKeep ==
  ASSUME IInv, NEW r \in Requests,
         \/ HandleEmail(r) \/ HandleResend(r) \/ HandleCode(r) \/ HandlePassword(r)
         \/ Ask(r, "signup", None, "lookup")
         \/ Ask(r, "verifyEmail", None, "read")
         \/ Ask(r, "resendVerification", None, "read")
         \/ HandleLogin(r) \/ HandleLogout(r) \/ HandleOAuth(r) \/ HandlePasswordSubmit(r)
         \/ HandleForgot(r) \/ HandleReset(r)
         \/ HandleInitSetup(r) \/ HandleVerify(r) \/ HandleDisable(r) \/ HandleRegenerate(r)
         \/ HandleTotp(r) \/ HandleRecovery(r)
  PROVE  IInv'
<1> USE DEF Entries, Operations
<1>1. None \in Values /\ Wrong \in Values /\ Makers \subseteq Values
  BY DEF Values
<1>2. /\ wizard.token \in Values /\ newest \in Values
      /\ user # None => user.password \in Values /\ user.secret \in Values
      /\ redis.resets \subseteq Makers /\ redis.challenges \subseteq Makers
      /\ keys \subseteq Makers
  BY DEF IInv, WellTyped, TypeOK, Caches, Rows, Values, Maybe
<1>3. CASE HandleEmail(r) \/ HandleResend(r)
  BY <1>1, <1>3, SubmitKeeps DEF HandleEmail, HandleResend
<1>4. CASE HandleCode(r)
  BY <1>1, <1>2, <1>4, SubmitKeeps DEF HandleCode
<1>5. CASE HandlePassword(r)
  BY <1>2, <1>5, SubmitKeeps DEF HandlePassword
<1>6. CASE \/ Ask(r, "signup", None, "lookup")
           \/ Ask(r, "verifyEmail", None, "read")
           \/ Ask(r, "resendVerification", None, "read")
  BY <1>1, <1>6, AskKeeps
<1>7. Typed \subseteq Values
  BY <1>1, <1>2 DEF Typed, Exists
<1>8. CASE HandleLogin(r) \/ HandlePasswordSubmit(r)
  BY <1>1, <1>7, <1>8, AskKeeps DEF HandleLogin, HandlePasswordSubmit
<1>9. CASE HandleLogout(r)
  <2>1. Sessions \subseteq Values
    BY <1>1, <1>2 DEF Sessions
  <2> QED
    BY <1>9, <2>1, AskKeeps DEF HandleLogout
<1>10. CASE HandleOAuth(r) \/ HandleForgot(r) \/ HandleInitSetup(r)
  BY <1>1, <1>10, AskKeeps DEF HandleOAuth, HandleForgot, HandleInitSetup
<1>11. CASE HandleReset(r) \/ HandleTotp(r) \/ HandleRecovery(r)
  BY <1>1, <1>2, <1>11, AskKeeps DEF HandleReset, Links, HandleTotp, HandleRecovery
<1>12. CASE HandleVerify(r)
  <2>1. Shown \subseteq Values
    BY <1>1 DEF Shown, Makers
  <2> QED
    BY <1>1, <1>12, <2>1, AskKeeps DEF HandleVerify
<1>13. CASE HandleDisable(r) \/ HandleRegenerate(r)
  <2>1. Authenticator \subseteq Values
    BY <1>1, <1>2 DEF Authenticator, Enabled2FA
  <2> QED
    BY <1>13, <2>1, AskKeeps DEF HandleDisable, HandleRegenerate
<1> QED
  BY <1>3, <1>4, <1>5, <1>6, <1>8, <1>9, <1>10, <1>11, <1>12, <1>13

LEMMA SignUpReads ==
  ASSUME IInv, NEW r \in Requests,
         \/ LookUpForCode(r) \/ CheckResendCooldown(r) \/ LookUpAccount(r)
         \/ ReadForVerifying(r) \/ ReadForResending(r)
  PROVE  IInv'
<1> USE DEF Leads, Special, Admitting, NeedsUser, Between, Steps, Ended
<1>1. CASE LookUpForCode(r)
  BY <1>1, ReadKeeps DEF LookUpForCode
<1>2. CASE CheckResendCooldown(r)
  BY <1>2, ReadKeeps DEF CheckResendCooldown
<1>3. CASE LookUpAccount(r)
  BY <1>3, ReadKeeps DEF LookUpAccount, At
<1>4. CASE ReadForVerifying(r)
  BY <1>4, ReadKeeps DEF ReadForVerifying, Registered
<1>5. CASE ReadForResending(r)
  BY <1>5, ReadKeeps DEF ReadForResending, Registered
<1> QED
  BY <1>1, <1>2, <1>3, <1>4, <1>5

LEMMA SignUpRedis ==
  ASSUME IInv, NEW r \in Requests,
         SetResendCooldown(r) \/ GetCode(r) \/ CountAttempt(r) \/ ResetAttempts(r)
  PROVE  IInv'
<1> USE DEF Leads, Special, Admitting, NeedsUser, Between, Steps, Ended
<1>0. redis \in Caches
  BY DEF IInv, WellTyped, TypeOK
<1>1. CASE SetResendCooldown(r)
  <2>1. redis' \in Caches /\ redis'.code = redis.code
    BY <1>0, <1>1 DEF SetResendCooldown, Caches
  <2> QED
    BY <1>1, <2>1, RedisKeeps DEF SetResendCooldown
<1>2. CASE GetCode(r)
  <2>1. redis.code \in Values
    BY <1>0 DEF Caches, Values, Maybe
  <2>2. CASE redis.code = None
    BY <1>2, <2>2, ReadKeeps DEF GetCode
  <2>3. CASE redis.code # None
    <3>1. At(r, {"verifyCode"}, "getCode") /\ GoWith(r, "attempts", redis.code) /\ Reads
      BY <1>2, <2>3 DEF GetCode
    <3>2. Leads(r, "verifyCode", "getCode", "attempts")
      BY <3>1
    <3> HIDE DEF Leads
    <3> QED
      BY <2>1, <3>1, <3>2, ReadKeepsWith
  <2> QED
    BY <2>2, <2>3
<1>3. CASE CountAttempt(r)
  <2>1. redis' \in Caches /\ redis'.code = redis.code
    BY <1>0, <1>3 DEF CountAttempt, Caches
  <2> QED
    BY <1>3, <2>1, RedisKeeps DEF CountAttempt
<1>4. CASE ResetAttempts(r)
  <2>1. redis' \in Caches /\ redis'.code = redis.code
    BY <1>0, <1>4 DEF ResetAttempts, Caches
  <2> QED
    BY <1>4, <2>1, RedisKeeps DEF ResetAttempts
<1> QED
  BY <1>1, <1>2, <1>3, <1>4

LEMMA SignInReads ==
  ASSUME IInv, NEW r \in Requests,
         \/ CheckLockout(r) \/ CheckPassword(r) \/ LookUpLinked(r) \/ LookUpByEmail(r)
         \/ CompleteOAuthLogin(r) \/ GetToken(r) \/ ReadPassword(r) \/ ReadNoPassword(r)
         \/ LookUpForReset(r) \/ LookUpForLink(r) \/ MailLink(r)
  PROVE  IInv'
<1> USE DEF Leads, Special, Admitting, NeedsUser, Between, Steps, Ended, Exists
<1>1. CASE CheckLockout(r)
  BY <1>1, ReadKeeps DEF CheckLockout
<1>2. CASE CheckPassword(r)
  <2>1. CASE Exists /\ GoWith(r, "clear", user.secret)
    <3>1. user.secret \in Values
      BY <2>1 DEF IInv, WellTyped, TypeOK, Maybe, Rows, Values
    <3>2. Leads(r, "login", "read", "clear") /\ Reads
      BY <1>2 DEF CheckPassword
    <3> HIDE DEF Leads
    <3> QED
      BY <2>1, <3>1, <3>2, ReadKeepsWith
  <2>2. CASE Go(r, "fail")
    BY <1>2, <2>2, ReadKeeps DEF CheckPassword
  <2>3. CASE Go(r, "refused")
    BY <1>2, <2>3, ReadKeeps DEF CheckPassword
  <2> QED
    BY <1>2, <2>1, <2>2, <2>3 DEF CheckPassword
<1>3. CASE LookUpLinked(r)
  BY <1>3, ReadKeeps DEF LookUpLinked
<1>4. CASE LookUpByEmail(r)
  BY <1>4, ReadKeeps DEF LookUpByEmail
<1>5. CASE CompleteOAuthLogin(r)
  BY <1>5, ReadKeeps DEF CompleteOAuthLogin
<1>6. CASE GetToken(r)
  <2>1. (IF Arg(r) \in keys THEN Arg(r) ELSE None) \in Values
    BY DEF IInv, WellTyped, TypeOK, Values, Arg
  <2>2. /\ Leads(r, "logout", "get", "drop") /\ Reads
        /\ GoWith(r, "drop", IF Arg(r) \in keys THEN Arg(r) ELSE None)
    BY <1>6 DEF GetToken
  <2> HIDE DEF Leads
  <2> QED
    BY <2>1, <2>2, ReadKeepsWith
<1>7. CASE ReadPassword(r)
  BY <1>7, ReadKeeps DEF ReadPassword
<1>8. CASE ReadNoPassword(r)
  BY <1>8, ReadKeeps DEF ReadNoPassword
<1>9. CASE LookUpForReset(r)
  BY <1>9, ReadKeeps DEF LookUpForReset
<1>10. CASE LookUpForLink(r)
  BY <1>10, ReadKeeps DEF LookUpForLink
<1>11. CASE MailLink(r)
  BY <1>11, ReadKeeps DEF MailLink
<1> QED
  BY <1>1, <1>2, <1>3, <1>4, <1>5, <1>6, <1>7, <1>8, <1>9, <1>10, <1>11

LEMMA SignInRedis ==
  ASSUME IInv, NEW r \in Requests,
         RecordFailedAttempt(r) \/ ConsumeLink(r) \/ SetLink(r) \/ UnsetLink(r)
  PROVE  IInv'
<1> USE DEF Leads, Special, Admitting, NeedsUser, Between, Steps, Ended
<1>0. redis \in Caches /\ r \in Makers
  BY DEF IInv, WellTyped, TypeOK, Makers
<1>1. CASE RecordFailedAttempt(r)
  <2>1. redis' \in Caches /\ redis'.code = redis.code
    BY <1>0, <1>1 DEF RecordFailedAttempt, Caches
  <2> QED
    BY <1>1, <2>1, RedisKeeps DEF RecordFailedAttempt
<1>2. CASE ConsumeLink(r)
  <2>1. redis' \in Caches /\ redis'.code = redis.code
    BY <1>0, <1>2 DEF ConsumeLink, Caches
  <2> QED
    BY <1>2, <2>1, RedisKeeps DEF ConsumeLink
<1>3. CASE SetLink(r)
  <2>1. redis' \in Caches /\ redis'.code = redis.code
    BY <1>0, <1>3 DEF SetLink, Caches
  <2> QED
    BY <1>3, <2>1, RedisKeeps DEF SetLink
<1>4. CASE UnsetLink(r)
  <2>1. redis' \in Caches /\ redis'.code = redis.code
    BY <1>0, <1>4 DEF UnsetLink, Caches
  <2> QED
    BY <1>4, <2>1, RedisKeeps DEF UnsetLink
<1> QED
  BY <1>1, <1>2, <1>3, <1>4

LEMMA TwoFactorReads ==
  ASSUME IInv, NEW r \in Requests,
         \/ InitSetup(r) \/ GetSetupSecret(r) \/ ReadSecret(r) \/ GetChallenge(r)
         \/ CheckTries(r, "totp", "login") \/ CheckTries(r, "recovery", "recovery")
         \/ ReadTotpSecret(r) \/ IsCodeUsed(r)
  PROVE  IInv'
<1> USE DEF Leads, Special, Admitting, NeedsUser, Between, Steps, Ended
<1>1. CASE InitSetup(r)
  BY <1>1, ReadKeeps DEF InitSetup
<1>2. CASE GetSetupSecret(r)
  <2>1. CASE redis.setup = None \/ user = None
    BY <1>2, <2>1, ReadKeeps DEF GetSetupSecret
  <2>2. CASE ~(redis.setup = None \/ user = None)
    <3>1. redis.setup \in Makers /\ redis.setup \in Values
      BY <2>2 DEF IInv, WellTyped, TypeOK, Caches, Values, Maybe
    <3> QED
      BY <1>2, <2>2, <3>1, ReadKeepsWith DEF GetSetupSecret
  <2> QED
    BY <2>1, <2>2
<1>3. CASE ReadSecret(r)
  <2>1. PICK op \in {"disable", "regenerate"} : At(r, {op}, "read")
    BY <1>3 DEF ReadSecret, At
  <2>2. CASE Enabled2FA
    <3>1. user.secret \in Values
      BY <2>2 DEF Enabled2FA, IInv, WellTyped, TypeOK, Maybe, Rows, Values
    <3>2. Leads(r, op, "read", "tries") /\ GoWith(r, "tries", user.secret) /\ Reads
      BY <1>3, <2>1, <2>2 DEF ReadSecret, Enabled2FA
    <3> HIDE DEF Leads
    <3> QED
      BY <3>1, <3>2, ReadKeepsWith
  <2>3. CASE ~Enabled2FA
    BY <1>3, <2>1, <2>3, ReadKeeps DEF ReadSecret
  <2> QED
    BY <2>2, <2>3
<1>4. CASE GetChallenge(r)
  <2>1. PICK op \in {"totp", "recovery"} : At(r, {op}, "getChallenge")
    BY <1>4 DEF GetChallenge, At
  <2> QED
    BY <1>4, <2>1, ReadKeeps DEF GetChallenge
<1>5. CASE CheckTries(r, "totp", "login")
  BY <1>5, ReadKeeps DEF CheckTries
<1>6. CASE CheckTries(r, "recovery", "recovery")
  BY <1>6, ReadKeeps DEF CheckTries
<1>7. CASE ReadTotpSecret(r)
  BY <1>7, ReadKeeps DEF ReadTotpSecret
<1>8. CASE IsCodeUsed(r)
  BY <1>8, ReadKeeps DEF IsCodeUsed
<1> QED
  BY <1>1, <1>2, <1>3, <1>4, <1>5, <1>6, <1>7, <1>8

\* Counters of tries.
LEMMA TriesTyped ==
  ASSUME IInv, NEW k \in Counters, NEW n \in Nat,
         redis' = [redis EXCEPT !.tries[k] = n] \/ CountTry(k)
  PROVE  redis' \in Caches /\ redis'.code = redis.code
<1>1. redis \in Caches /\ redis.tries[k] + 1 \in Nat
  BY DEF IInv, WellTyped, TypeOK, Caches
<1> QED
  BY <1>1 DEF CountTry, Caches

LEMMA TwoFactorRedis ==
  ASSUME IInv, NEW r \in Requests,
         \/ SetSetupSecret(r) \/ VerifySetup(r) \/ DeleteSetupSecret(r)
         \/ VerifyChange(r, "disable", "disable") \/ VerifyChange(r, "regenerate", "regen")
         \/ IncrementTries(r, "totp", "login", "read")
         \/ IncrementTries(r, "recovery", "recovery", "lock")
         \/ MarkCodeUsed(r) \/ DeleteChallenge(r)
         \/ ResetTries(r, "enable", "setup") /\ Go(r, "done")
         \/ ResetTries(r, "disable", "disable") /\ Go(r, "done")
         \/ ResetTries(r, "regenerate", "regen") /\ Go(r, "done")
         \/ ResetTries(r, "totp", "login") /\ Go(r, "key")
         \/ ResetTries(r, "recovery", "recovery") /\ Go(r, "key")
  PROVE  IInv'
<1> USE DEF Leads, Special, Admitting, NeedsUser, Between, Steps, Ended, Counters
<1>0. redis \in Caches /\ r \in Makers /\ 0 \in Nat
  BY DEF IInv, WellTyped, TypeOK, Makers
<1>1. CASE SetSetupSecret(r)
  <2>1. redis' \in Caches /\ redis'.code = redis.code
    BY <1>0, <1>1 DEF SetSetupSecret, Caches, Maybe
  <2> QED
    BY <1>1, <2>1, RedisKeeps DEF SetSetupSecret
<1>2. CASE VerifySetup(r)
  <2>1. Got(r) \in Makers /\ user # None
    BY <1>2 DEF VerifySetup, IInv, WellTyped, UserStays, At
  <2>2. redis' \in Caches /\ redis'.code = redis.code
    BY <1>2, TriesTyped DEF VerifySetup
  <2> QED
    BY <1>2, <2>1, <2>2, RedisKeeps DEF VerifySetup
<1>3. CASE DeleteSetupSecret(r)
  <2>1. redis' \in Caches /\ redis'.code = redis.code
    BY <1>0, <1>3 DEF DeleteSetupSecret, Caches, Maybe
  <2> QED
    BY <1>3, <2>1, RedisKeeps DEF DeleteSetupSecret
<1>4. CASE VerifyChange(r, "disable", "disable")
  <2>1. user # None
    BY <1>4 DEF VerifyChange, IInv, WellTyped, UserStays, At
  <2>2. redis' \in Caches /\ redis'.code = redis.code
    BY <1>4, TriesTyped DEF VerifyChange
  <2> QED
    BY <1>4, <2>1, <2>2, RedisKeeps DEF VerifyChange
<1>5. CASE VerifyChange(r, "regenerate", "regen")
  <2>1. user # None
    BY <1>5 DEF VerifyChange, IInv, WellTyped, UserStays, At
  <2>2. redis' \in Caches /\ redis'.code = redis.code
    BY <1>5, TriesTyped DEF VerifyChange
  <2> QED
    BY <1>5, <2>1, <2>2, RedisKeeps DEF VerifyChange
<1>6. CASE IncrementTries(r, "totp", "login", "read")
  <2>1. redis' \in Caches /\ redis'.code = redis.code
    BY <1>6, TriesTyped DEF IncrementTries
  <2> QED
    BY <1>6, <2>1, RedisKeeps DEF IncrementTries
<1>7. CASE IncrementTries(r, "recovery", "recovery", "lock")
  <2>1. redis' \in Caches /\ redis'.code = redis.code
    BY <1>7, TriesTyped DEF IncrementTries
  <2> QED
    BY <1>7, <2>1, RedisKeeps DEF IncrementTries
<1>8. CASE MarkCodeUsed(r)
  <2>1. redis' \in Caches /\ redis'.code = redis.code
    BY <1>0, <1>8 DEF MarkCodeUsed, Caches
  <2> QED
    BY <1>8, <2>1, RedisKeeps DEF MarkCodeUsed
<1>9. CASE DeleteChallenge(r)
  <2>1. redis' \in Caches /\ redis'.code = redis.code
    BY <1>0, <1>9 DEF DeleteChallenge, Caches
  <2>2. PICK op \in {"totp", "recovery"} : At(r, {op}, "deleteChallenge")
    BY <1>9 DEF DeleteChallenge, At
  <2> QED
    BY <1>9, <2>1, <2>2, RedisKeeps DEF DeleteChallenge
<1>10. ASSUME NEW op \in {"enable", "disable", "regenerate"}, NEW k \in Counters,
              ResetTries(r, op, k), Go(r, "done")
       PROVE  IInv'
  <2>1. redis' \in Caches /\ redis'.code = redis.code
    BY <1>0, <1>10, TriesTyped DEF ResetTries
  <2> QED
    BY <1>10, <2>1, RedisKeeps DEF ResetTries
<1>11. ASSUME NEW op \in {"totp", "recovery"}, NEW k \in Counters,
              ResetTries(r, op, k), Go(r, "key")
       PROVE  IInv'
  <2>1. redis' \in Caches /\ redis'.code = redis.code
    BY <1>0, <1>11, TriesTyped DEF ResetTries
  <2> QED
    BY <1>11, <2>1, RedisKeeps DEF ResetTries
<1> HIDE DEF Leads, Special, Admitting, NeedsUser, Between, Steps, Ended
<1> QED
  BY <1>1, <1>2, <1>3, <1>4, <1>5, <1>6, <1>7, <1>8, <1>9, <1>10, <1>11

-----------------------------------------------------------------------------
(* The sign-up code.                                                       *)

LEMMA CodeWriteKeeps ==
  ASSUME IInv, NEW r \in Requests, StepOf(r), UserFits(r), SessionsQuiet(r), CodesQuiet(r),
         redis' \in Caches, newest' \in Maybe(Makers), crossed' \in BOOLEAN,
         UNCHANGED page, NewestKnown'
  PROVE  IInv'
<1>1. SessionsKnown' /\ CodesKnown'
  BY SessionsKept, CodesKept
<1>2. TypeOK'
  BY DEF IInv, WellTyped, TypeOK, StepOf, SessionsQuiet, CodesQuiet, Asked, page
<1>3. UserStays'
  BY DEF IInv, WellTyped, UserStays, StepOf, CodesQuiet, UserFits, Got, Arg
<1> QED
  BY <1>1, <1>2, <1>3 DEF IInv, WellTyped

\* Of the requests about the code, one that crosses nobody is the only one
\* between two statements.
LEMMA Uncrossed ==
  ASSUME NEW r \in Requests, StepOf(r), Midway = {r}, request'[r].at \notin Between
  PROVE  \A q \in Requests : ~Storing(q)'
<1>1. \A q \in Requests : q # r => ~Storing(q)
  BY DEF Midway, Sending, Storing, Between
<1> QED
  BY <1>1 DEF StepOf, Storing

LEMMA SignUpCode ==
  ASSUME IInv, NEW r \in Requests,
         SetCode(r) \/ MailCode(r) \/ UnsetCode(r) \/ DeleteCode(r) \/ Cleanup(r)
  PROVE  IInv'
<1> USE DEF Special, Admitting, NeedsUser, Between, Steps, Ended
<1>0. /\ redis \in Caches /\ r \in Maybe(Makers) /\ None \in Maybe(Makers)
      /\ newest \in Maybe(Makers) /\ crossed \in BOOLEAN /\ r # None
  BY AuthAssumption DEF IInv, WellTyped, TypeOK, Makers, Maybe
<1>1. CASE SetCode(r)
  <2>1. /\ StepOf(r) /\ request[r].op = "sendCode" /\ request[r].at = "setCode"
        /\ request'[r].at = "setCooldown" /\ request'[r].op = "sendCode"
    BY <1>1, GoIsStep DEF SetCode, At, IInv, WellTyped
  <2>2. UserFits(r) /\ SessionsQuiet(r) /\ CodesQuiet(r)
    BY <1>1, <2>1, AuthAssumption DEF SetCode, UserFits, SessionsQuiet, CodesQuiet, Wrote
  <2>3. redis' \in Caches /\ redis'.code = r /\ newest' = newest
    BY <1>0, <1>1 DEF SetCode, Caches
  <2>4. crossed' \in BOOLEAN /\ (~crossed' => Midway = {r})
    BY <1>0, <1>1 DEF SetCode
  <2>5. Midway = {r} => \A q \in Requests : q # r => ~Storing(q)
    BY DEF Midway, Sending, Storing
  <2>6. Storing(r)' /\ \A q \in Requests : q # r => (Storing(q)' <=> Storing(q))
    BY <2>1 DEF StepOf, Storing
  <2>7. NewestKnown'
    BY <2>3, <2>4, <2>5, <2>6 DEF NewestKnown
  <2> QED
    BY <1>0, <1>1, <2>1, <2>2, <2>3, <2>4, <2>7, CodeWriteKeeps DEF SetCode
<1>2. CASE MailCode(r)
  <2>1. PICK to \in {"done", "unset"} :
          /\ Go(r, to) /\ request[r].op = "sendCode" /\ request[r].at = "mail"
          /\ newest' = IF to = "done" THEN r ELSE newest
    BY <1>2 DEF MailCode, At
  <2>2. StepOf(r) /\ request'[r].at = to /\ request'[r].op = "sendCode"
    BY <2>1, GoIsStep DEF IInv, WellTyped
  <2>3. UserFits(r) /\ SessionsQuiet(r) /\ CodesQuiet(r)
    BY <1>2, <2>1, <2>2, AuthAssumption DEF MailCode, stores, UserFits, SessionsQuiet,
      CodesQuiet, Wrote
  <2>4. redis' = redis /\ crossed' = crossed
    BY <1>2 DEF MailCode, stores
  <2>5. Storing(r) /\ (Storing(r)' <=> to = "unset")
        /\ \A q \in Requests : q # r => (Storing(q)' <=> Storing(q))
    BY <2>1, <2>2 DEF StepOf, Storing
  <2>6. NewestKnown'
    BY <1>0, <2>1, <2>4, <2>5 DEF IInv, NewestKnown
  <2> QED
    BY <1>0, <1>2, <2>1, <2>2, <2>3, <2>4, <2>6, CodeWriteKeeps DEF MailCode
<1>3. CASE UnsetCode(r)
  <2>1. /\ StepOf(r) /\ request[r].op = "sendCode" /\ request[r].at = "unset"
        /\ request'[r].at = "refused" /\ request'[r].op = "sendCode"
    BY <1>3, GoIsStep DEF UnsetCode, At, IInv, WellTyped
  <2>2. UserFits(r) /\ SessionsQuiet(r) /\ CodesQuiet(r)
    BY <1>3, <2>1, AuthAssumption DEF UnsetCode, WritesRedis, history, UserFits,
      SessionsQuiet, CodesQuiet, Wrote
  <2>3. redis' \in Caches /\ redis'.code = None /\ newest' = newest /\ crossed' = crossed
    BY <1>0, <1>3 DEF UnsetCode, WritesRedis, history, Caches
  <2>4. Storing(r) /\ ~Storing(r)'
        /\ \A q \in Requests : q # r => (Storing(q)' <=> Storing(q))
    BY <2>1 DEF StepOf, Storing
  <2>5. NewestKnown'
    BY <1>0, <2>3, <2>4 DEF IInv, NewestKnown
  <2> QED
    BY <1>0, <1>3, <2>1, <2>2, <2>3, <2>5, CodeWriteKeeps DEF UnsetCode, WritesRedis
<1>4. CASE DeleteCode(r)
  <2>1. /\ StepOf(r) /\ request[r].op = "verifyCode" /\ request[r].at = "deleteCode"
        /\ request'[r].at = "resetAttempts" /\ request'[r].op = "verifyCode"
    BY <1>4, GoIsStep DEF DeleteCode, At, IInv, WellTyped
  <2>2. UserFits(r) /\ SessionsQuiet(r) /\ CodesQuiet(r)
    BY <1>4, <2>1, AuthAssumption DEF DeleteCode, UserFits, SessionsQuiet, CodesQuiet, Wrote
  <2>3. /\ redis' \in Caches /\ redis'.code = None /\ newest' = newest
        /\ crossed' \in BOOLEAN /\ (~crossed' => Midway = {r})
    BY <1>0, <1>4 DEF DeleteCode, Caches
  <2>4. NewestKnown'
    BY <2>1, <2>3, Uncrossed DEF NewestKnown
  <2> QED
    BY <1>0, <1>4, <2>1, <2>2, <2>3, <2>4, CodeWriteKeeps DEF DeleteCode
<1>5. CASE Cleanup(r)
  <2>1. /\ StepOf(r) /\ request[r].op = "completeSignup" /\ request[r].at = "cleanup"
        /\ request'[r].at = "key" /\ request'[r].op = "completeSignup"
    BY <1>5, GoIsStep DEF Cleanup, At, IInv, WellTyped
  <2>2. UserFits(r) /\ SessionsQuiet(r) /\ CodesQuiet(r)
    BY <1>5, <2>1, AuthAssumption DEF Cleanup, UserFits, SessionsQuiet, CodesQuiet, Wrote
  <2>3. /\ redis' \in Caches /\ redis'.code = None /\ newest' = newest
        /\ crossed' \in BOOLEAN /\ (~crossed' => Midway = {r})
    BY <1>0, <1>5 DEF Cleanup, Caches
  <2>4. NewestKnown'
    BY <2>1, <2>3, Uncrossed DEF NewestKnown
  <2> QED
    BY <1>0, <1>5, <2>1, <2>2, <2>3, <2>4, CodeWriteKeeps DEF Cleanup
<1> QED
  BY <1>1, <1>2, <1>3, <1>4, <1>5

-----------------------------------------------------------------------------
(* Sessions: stored, dropped, revoked.                                     *)

LEMMA SessionWriteKeeps ==
  ASSUME IInv, NEW r \in Requests, StepOf(r), UserFits(r), CodesQuiet(r), NewestQuiet(r),
         redis' \in Caches, keys' \subseteq Makers, tokens' \subseteq Makers,
         late' \subseteq Makers, UNCHANGED <<before, page>>, SessionsKnown'
  PROVE  IInv'
<1>1. CodesKnown' /\ NewestKnown'
  BY CodesKept, NewestKept
<1>2. TypeOK'
  BY DEF IInv, WellTyped, TypeOK, StepOf, NewestQuiet, CodesQuiet, Asked, page
<1>3. UserStays'
  BY DEF IInv, WellTyped, UserStays, StepOf, CodesQuiet, UserFits, Got, Arg
<1> QED
  BY <1>1, <1>2, <1>3 DEF IInv, WellTyped

\* What a step tells of everybody else.
LEMMA OthersStay ==
  ASSUME NEW r \in Requests, StepOf(r)
  PROVE  /\ \A s, S : s # r => (Reached(s, S)' <=> Reached(s, S))
         /\ \A s : s # r /\ Gone(s) /\ keys' \subseteq keys \cup {r} => Gone(s)'
<1>1. \A s, S : s # r => (Reached(s, S)' <=> Reached(s, S))
  BY DEF Reached, StepOf
<1> QED
  BY <1>1 DEF Gone, StepOf

\* Who is let in goes on.
LEMMA AdmittedGoesOn ==
  ASSUME IInv, NEW r \in Requests, StepOf(r),
         \/ request[r].at = "clear" /\ request'[r].at \in {"key", "challenge"}
         \/ request[r].at = "challenge" /\ request'[r].at = "done"
         \/ request[r].at = "check" /\ request'[r].at = IF r \in keys THEN "done" ELSE "refused",
         UNCHANGED <<keys, tokens, late, before>>
  PROVE  SessionsKnown'
<1> USE OthersStay
<1>1. before[r] = {}
  BY DEF IInv, SessionsKnown, BeforeKnown
<1>2. /\ Reached(r, Admitting)' /\ (Reached(r, Stored) => Reached(r, Stored)')
      /\ (Gone(r) => Gone(r)')
      /\ (Reached(r, {"member"} \cup Stored) => Reached(r, {"member"} \cup Stored)')
  BY AuthAssumption DEF Reached, Admitting, Stored, Gone
<1>3. KeysKnown'
  BY <1>2 DEF IInv, SessionsKnown, KeysKnown, StepOf
<1>4. RevocationsKnow'
  BY <1>2 DEF IInv, SessionsKnown, RevocationsKnow, StepOf
<1>5. BeforeKnown'
  BY <1>1, <1>2 DEF IInv, SessionsKnown, BeforeKnown, StepOf
<1> QED
  BY <1>3, <1>4, <1>5 DEF SessionsKnown

LEMMA AdmittedSteps ==
  ASSUME IInv, NEW r \in Requests, ClearLockout(r) \/ CreateChallenge(r) \/ CheckStored(r)
  PROVE  IInv'
<1> USE DEF NeedsUser, Between, Steps, Ended
<1>0. redis \in Caches /\ r \in Makers
  BY DEF IInv, WellTyped, TypeOK, Makers
<1>1. CASE ClearLockout(r)
  <2>1. PICK to \in {"key", "challenge"} : Go(r, to) /\ At(r, {"login"}, "clear")
    BY <1>1 DEF ClearLockout
  <2>2. /\ StepOf(r) /\ request[r].op = "login" /\ request[r].at = "clear"
        /\ request'[r].at = to /\ request'[r].op = "login"
    BY <2>1, GoIsStep DEF At, IInv, WellTyped
  <2>3. /\ redis' \in Caches /\ redis'.code = redis.code
        /\ UNCHANGED <<user, keys, tokens, lock, history, page>>
    BY <1>0, <1>1 DEF ClearLockout, Caches, WritesRedis
  <2>4. UserFits(r) /\ CodesQuiet(r) /\ NewestQuiet(r)
    BY <2>2, <2>3, AuthAssumption DEF history, UserFits, CodesQuiet, NewestQuiet, Storing, Wrote, At
  <2>5. SessionsKnown'
    BY <2>2, <2>3, AdmittedGoesOn DEF history
  <2> QED
    BY <2>2, <2>3, <2>4, <2>5, SessionWriteKeeps DEF history, IInv, WellTyped, TypeOK
<1>2. CASE CreateChallenge(r)
  <2>1. PICK op \in {"login", "oauth"} : At(r, {op}, "challenge")
    BY <1>2 DEF CreateChallenge, At
  <2>2. /\ StepOf(r) /\ request[r].op = op /\ request[r].at = "challenge"
        /\ request'[r].at = "done" /\ request'[r].op = op
    BY <1>2, <2>1, GoIsStep DEF CreateChallenge, At, IInv, WellTyped
  <2>3. /\ redis' \in Caches /\ redis'.code = redis.code
        /\ UNCHANGED <<user, keys, tokens, lock, history, page>>
    BY <1>0, <1>2 DEF CreateChallenge, Caches, WritesRedis
  <2>4. UserFits(r) /\ CodesQuiet(r) /\ NewestQuiet(r)
    BY <2>2, <2>3, AuthAssumption DEF history, UserFits, CodesQuiet, NewestQuiet, Storing, Wrote, At
  <2>5. SessionsKnown'
    BY <2>2, <2>3, AdmittedGoesOn DEF history
  <2> QED
    BY <2>2, <2>3, <2>4, <2>5, SessionWriteKeeps DEF history, IInv, WellTyped, TypeOK
<1>3. CASE CheckStored(r)
  <2>1. PICK to \in {"done", "refused"} :
          Go(r, to) /\ request[r].at = "check" /\ to = IF r \in keys THEN "done" ELSE "refused"
    BY <1>3 DEF CheckStored
  <2>2. StepOf(r) /\ request'[r].at = to /\ request'[r].op = request[r].op
    BY <2>1, GoIsStep DEF IInv, WellTyped
  <2>3. /\ redis' = redis
        /\ UNCHANGED <<user, keys, tokens, lock, history, page>>
    BY <1>3 DEF CheckStored, Reads, stores
  <2>4. UserFits(r) /\ CodesQuiet(r) /\ NewestQuiet(r)
    BY <2>1, <2>2, <2>3, AuthAssumption DEF history, UserFits, CodesQuiet, NewestQuiet, Storing, Wrote, At
  <2>5. SessionsKnown'
    BY <2>1, <2>2, <2>3, AdmittedGoesOn DEF history
  <2> QED
    BY <1>0, <2>2, <2>3, <2>4, <2>5, SessionWriteKeeps DEF history, IInv, WellTyped, TypeOK
<1> QED
  BY <1>1, <1>2, <1>3

LEMMA StoreKeyKeeps ==
  ASSUME IInv, NEW r \in Requests, StoreKey(r)
  PROVE  IInv'
<1> USE OthersStay
<1>1. /\ StepOf(r) /\ request[r].at = "key"
      /\ request'[r].at = "member" /\ request'[r].op = request[r].op
  BY GoIsStep DEF StoreKey, Steps, Ended, IInv, WellTyped
<1>2. /\ keys' = keys \cup {r} /\ redis' = redis
      /\ UNCHANGED <<user, tokens, lock, newest, crossed, late, before, opened, page>>
  BY DEF StoreKey, history
<1>3. UserFits(r) /\ CodesQuiet(r) /\ NewestQuiet(r)
  BY <1>1, <1>2, AuthAssumption DEF UserFits, NeedsUser, CodesQuiet, NewestQuiet, Storing, Wrote, At,
    Between
<1>4. /\ before[r] = {} /\ ~Gone(r) /\ ~Reached(r, Stored)
      /\ Reached(r, Admitting)' /\ Reached(r, {"member"} \cup Stored)'
  BY <1>1, AuthAssumption DEF IInv, SessionsKnown, BeforeKnown, Reached, Stored, Admitting, Gone
<1>5. KeysKnown'
  BY <1>1, <1>2, <1>4 DEF IInv, SessionsKnown, KeysKnown, StepOf
<1>6. RevocationsKnow'
  BY <1>1, <1>2, <1>4 DEF IInv, SessionsKnown, RevocationsKnow, StepOf
<1>7. BeforeKnown'
  BY <1>1, <1>2, <1>4 DEF IInv, SessionsKnown, BeforeKnown, StepOf
<1>8. /\ keys' \subseteq Makers /\ tokens' \subseteq Makers /\ late' \subseteq Makers
      /\ redis' \in Caches
  BY <1>2 DEF IInv, WellTyped, TypeOK, Makers
<1> QED
  BY <1>1, <1>2, <1>3, <1>5, <1>6, <1>7, <1>8, SessionWriteKeeps DEF SessionsKnown

\* The id of a token that is stored during a revocation may escape it.
LEMMA StoreMemberKeeps ==
  ASSUME IInv, NEW r \in Requests, StoreMember(r)
  PROVE  IInv'
<1> USE OthersStay
<1>1. /\ StepOf(r) /\ request[r].at = "member"
      /\ request'[r].at = "check" /\ request'[r].op = request[r].op
  BY GoIsStep DEF StoreMember, Steps, Ended, IInv, WellTyped
<1>2. /\ tokens' = tokens \cup {r} /\ redis' = redis
      /\ late' = IF Revoking = {} THEN late ELSE late \cup {r}
      /\ UNCHANGED <<user, keys, lock, newest, crossed, before, opened, page>>
  BY DEF StoreMember
<1>3. UserFits(r) /\ CodesQuiet(r) /\ NewestQuiet(r)
  BY <1>1, <1>2, AuthAssumption DEF UserFits, NeedsUser, CodesQuiet, NewestQuiet, Storing, Wrote, At,
    Between
<1>4. /\ before[r] = {} /\ ~Gone(r) /\ ~Reached(r, Stored)
      /\ Reached(r, Admitting)' /\ Reached(r, Stored)' /\ Reached(r, {"member"} \cup Stored)'
  BY <1>1, AuthAssumption DEF IInv, SessionsKnown, BeforeKnown, Reached, Stored, Admitting, Gone
<1>5. KeysKnown'
  BY <1>1, <1>2, <1>4 DEF IInv, SessionsKnown, KeysKnown, StepOf
<1>6. RevocationsKnow'
  <2>1. \A q \in Requests : request[q].at = "del" => r \in late'
    BY <1>2 DEF Revoking
  <2> QED
    BY <1>1, <1>2, <1>4, <2>1 DEF IInv, SessionsKnown, RevocationsKnow, StepOf
<1>7. BeforeKnown'
  BY <1>1, <1>2, <1>4 DEF IInv, SessionsKnown, BeforeKnown, StepOf
<1>8. /\ keys' \subseteq Makers /\ tokens' \subseteq Makers /\ late' \subseteq Makers
      /\ redis' \in Caches
  BY <1>2 DEF IInv, WellTyped, TypeOK, Makers
<1> QED
  BY <1>1, <1>2, <1>3, <1>5, <1>6, <1>7, <1>8, SessionWriteKeeps DEF SessionsKnown

LEMMA DropTokenKeeps ==
  ASSUME IInv, NEW r \in Requests, DropToken(r)
  PROVE  IInv'
<1> USE OthersStay
<1>1. /\ StepOf(r) /\ request[r].at = "drop" /\ request[r].op = "logout"
      /\ request'[r].at = "done" /\ request'[r].op = request[r].op
  BY GoIsStep DEF DropToken, Steps, Ended, IInv, WellTyped, At
<1>2. /\ keys' = keys \ {Arg(r)} /\ tokens' = tokens \ {Got(r)} /\ redis' = redis
      /\ UNCHANGED <<user, lock, newest, crossed, late, before, opened, page>>
  BY DEF DropToken, history
<1>3. UserFits(r) /\ CodesQuiet(r) /\ NewestQuiet(r)
  BY <1>1, <1>2, AuthAssumption DEF UserFits, NeedsUser, CodesQuiet, NewestQuiet, Storing, Wrote, At,
    Between
<1>4. Got(r) = Arg(r) \/ Got(r) \notin tokens
  BY <1>1, AuthAssumption DEF IInv, WellTyped, TypeOK, UserStays, Makers
<1>5. /\ before[r] = {} /\ r \notin tokens /\ r \notin keys
      /\ \A q \in Requests :
           r \notin before[q] /\ (request[q].at = "del" => r \notin request[q].ids)
  BY <1>1, AuthAssumption DEF IInv, SessionsKnown, KeysKnown, RevocationsKnow, BeforeKnown,
    Reached, Stored, Admitting
<1>6. KeysKnown'
  BY <1>1, <1>2, <1>4, <1>5 DEF IInv, SessionsKnown, KeysKnown, StepOf
<1>7. RevocationsKnow'
  BY <1>1, <1>2, <1>5 DEF IInv, SessionsKnown, RevocationsKnow, StepOf
<1>8. BeforeKnown'
  <2>1. keys' \subseteq keys \cup {r}
    BY <1>2
  <2> QED
    BY <1>1, <1>2, <1>5, <2>1 DEF IInv, SessionsKnown, BeforeKnown, StepOf
<1>9. /\ keys' \subseteq Makers /\ tokens' \subseteq Makers /\ late' \subseteq Makers
      /\ redis' \in Caches
  BY <1>2 DEF IInv, WellTyped, TypeOK, Makers
<1> QED
  BY <1>1, <1>2, <1>3, <1>6, <1>7, <1>8, <1>9, SessionWriteKeeps DEF SessionsKnown

\* The ids are read: whoever was let in before the row was written is among
\* them, is being let in now, or will never have a session.
LEMMA RevokeMembersKeeps ==
  ASSUME IInv, NEW r \in Requests, RevokeMembers(r)
  PROVE  IInv'
<1> USE OthersStay
<1>1. /\ StepOf(r) /\ request[r].at = "members" /\ request'[r].op = request[r].op
      /\ request'[r].at = (IF tokens = {} THEN "done" ELSE "del") /\ request'[r].ids = tokens
  <2>1. PICK to \in {"done", "del"} :
          /\ request' = [request EXCEPT ![r].ids = tokens, ![r].at = to]
          /\ request[r].at = "members" /\ to = IF tokens = {} THEN "done" ELSE "del"
    BY DEF RevokeMembers
  <2>2. to \in Steps /\ tokens \in SUBSET Makers /\ request \in [Requests -> Asked]
    BY DEF Steps, Ended, IInv, WellTyped, TypeOK, Asked
  <2>3. /\ request' = [request EXCEPT ![r] = request'[r]]
        /\ request'[r] = [request[r] EXCEPT !.ids = tokens, !.at = to]
    BY <2>1, <2>2
  <2>4. request'[r] \in Asked /\ request'[r].op = request[r].op
    <3>1. PICK x \in Asked : x = request[r]
      BY <2>2
    <3>2. request'[r] = [op |-> x.op, at |-> to, arg |-> x.arg, got |-> x.got, ids |-> tokens]
      BY <2>3, <3>1 DEF Asked
    <3> QED
      BY <2>2, <3>1, <3>2 DEF Asked
  <2>5. request'[r].at = to /\ request'[r].ids = tokens
    BY <2>2, <2>3 DEF Asked
  <2> QED
    BY <2>1, <2>2, <2>3, <2>4, <2>5 DEF StepOf
<1>2. /\ late' = late \cup Admitted
      /\ UNCHANGED <<user, redis, keys, tokens, lock, newest, crossed, before, opened, page>>
  BY DEF RevokeMembers, stores
<1>3. UserFits(r) /\ CodesQuiet(r) /\ NewestQuiet(r)
  BY <1>1, <1>2, AuthAssumption DEF UserFits, NeedsUser, CodesQuiet, NewestQuiet, Storing, Wrote, At,
    Between
<1>4. /\ r \notin tokens /\ r \notin keys
      /\ \A q \in Requests :
           r \notin before[q] /\ (request[q].at = "del" => r \notin request[q].ids)
  BY <1>1, AuthAssumption DEF IInv, SessionsKnown, KeysKnown, RevocationsKnow, BeforeKnown,
    Reached, Stored, Admitting
<1>5. KeysKnown'
  BY <1>1, <1>2, <1>4 DEF IInv, SessionsKnown, KeysKnown, StepOf
<1>6. RevocationsKnow'
  BY <1>1, <1>2, <1>4 DEF IInv, SessionsKnown, RevocationsKnow, StepOf
<1>7. \A s \in before[r] : s \in tokens \/ s \in late' \/ Gone(s)
  BY <1>2 DEF IInv, SessionsKnown, KeysKnown, BeforeKnown, Admitted, Reached, Gone, Admitting
<1>8. BeforeKnown'
  BY <1>1, <1>2, <1>4, <1>7 DEF IInv, SessionsKnown, BeforeKnown, StepOf
<1>9. /\ keys' \subseteq Makers /\ tokens' \subseteq Makers /\ late' \subseteq Makers
      /\ redis' \in Caches
  BY <1>2 DEF IInv, WellTyped, TypeOK, Makers, Admitted
<1> QED
  BY <1>1, <1>2, <1>3, <1>5, <1>6, <1>8, <1>9, SessionWriteKeeps DEF SessionsKnown

LEMMA RevokeKeysKeeps ==
  ASSUME IInv, NEW r \in Requests, RevokeKeys(r)
  PROVE  IInv'
<1> USE OthersStay
<1>1. /\ StepOf(r) /\ request[r].at = "del" /\ request'[r].op = request[r].op
      /\ request'[r].at = "done"
  BY GoIsStep DEF RevokeKeys, Steps, Ended, IInv, WellTyped
<1>2. /\ keys' = keys \ request[r].ids /\ tokens' = {}
      /\ UNCHANGED <<user, redis, lock, newest, crossed, late, before, opened, page>>
  BY DEF RevokeKeys, history
<1>3. UserFits(r) /\ CodesQuiet(r) /\ NewestQuiet(r)
  BY <1>1, <1>2, AuthAssumption DEF UserFits, NeedsUser, CodesQuiet, NewestQuiet, Storing, Wrote, At,
    Between
<1>4. /\ r \notin tokens /\ r \notin keys
      /\ \A q \in Requests :
           r \notin before[q] /\ (request[q].at = "del" => r \notin request[q].ids)
  BY <1>1, AuthAssumption DEF IInv, SessionsKnown, KeysKnown, RevocationsKnow, BeforeKnown,
    Reached, Stored, Admitting
<1>5. KeysKnown'
  BY <1>1, <1>2, <1>4 DEF IInv, SessionsKnown, KeysKnown, RevocationsKnow, StepOf
<1>6. RevocationsKnow'
  BY <1>1, <1>2, <1>4 DEF IInv, SessionsKnown, RevocationsKnow, StepOf
<1>7. \A s \in request[r].ids : s # r /\ s \notin keys' /\ (Gone(s) \/ Reached(s, Stored))
  BY <1>1, <1>2, <1>4 DEF IInv, SessionsKnown, RevocationsKnow
<1>8. \A s \in request[r].ids : Gone(s)'
  BY <1>1, <1>7 DEF Gone, Reached, Stored, StepOf
<1>9. BeforeKnown'
  <2>1. keys' \subseteq keys \cup {r}
    BY <1>2
  <2> QED
    BY <1>1, <1>2, <1>4, <1>8, <2>1 DEF IInv, SessionsKnown, BeforeKnown, StepOf
<1>10. /\ keys' \subseteq Makers /\ tokens' \subseteq Makers /\ late' \subseteq Makers
      /\ redis' \in Caches
  BY <1>2 DEF IInv, WellTyped, TypeOK
<1> QED
  BY <1>1, <1>2, <1>3, <1>5, <1>6, <1>9, <1>10, SessionWriteKeeps DEF SessionsKnown

\* A request that throws is answered with an error wherever it was; a
\* transaction of its own is over.
LEMMA ThrowsKeeps ==
  ASSUME IInv, NEW r \in Requests, Throws(r)
  PROVE  IInv'
<1> USE OthersStay
<1>1. /\ StepOf(r) /\ request[r].at \notin Ended \cup {"new"}
      /\ request'[r].at = "refused" /\ request'[r].op = request[r].op
  BY GoIsStep DEF Throws, Steps, Ended, IInv, WellTyped
<1>2. /\ lock' = IF lock = r THEN None ELSE lock
      /\ crossed' = (crossed \/ r \in Sending)
      /\ UNCHANGED <<user, redis, keys, tokens, newest, late, before, opened, page>>
  BY DEF Throws
<1>3. /\ \A S : Reached(r, S) => r \in Requests
      /\ Reached(r, Stored)' /\ Reached(r, Admitting)' /\ Gone(r)'
      /\ Reached(r, {"member"} \cup Stored)'
  BY <1>1 DEF Reached, Stored, Admitting, Gone
<1>4. KeysKnown'
  BY <1>1, <1>2, <1>3 DEF IInv, SessionsKnown, KeysKnown, StepOf
<1>5. RevocationsKnow'
  BY <1>1, <1>2, <1>3 DEF IInv, SessionsKnown, RevocationsKnow, StepOf
<1>6. BeforeKnown'
  BY <1>1, <1>2, <1>3 DEF IInv, SessionsKnown, BeforeKnown, StepOf
<1>7. LockHeld'
  BY <1>1, <1>2 DEF IInv, CodesKnown, LockHeld, StepOf, Got
<1>8. UsedCodesGone'
  <2>1. \A m : Wrote(m) => Wrote(m)'
    BY <1>1 DEF Wrote, StepOf
  <2> QED
    BY <1>2, <2>1 DEF IInv, CodesKnown, UsedCodesGone
<1>9. RecoveryCodeOnce'
  BY <1>2 DEF IInv, CodesKnown, RecoveryCodeOnce
<1>10. NewestKnown'
  <2>1. r \in Sending <=> Storing(r)
    BY DEF Sending, Storing, Between
  <2>2. ~Storing(r)' /\ \A q \in Requests : q # r => (Storing(q)' <=> Storing(q))
    BY <1>1 DEF StepOf, Storing, Between
  <2> QED
    BY <1>2, <2>1, <2>2 DEF IInv, NewestKnown
<1>11. TypeOK'
  BY <1>1, <1>2 DEF IInv, WellTyped, TypeOK, StepOf, Asked, page, Maybe
<1>12. UserStays'
  BY <1>1, <1>2 DEF IInv, WellTyped, UserStays, StepOf, NeedsUser, Got, Arg
<1> QED
  BY <1>4, <1>5, <1>6, <1>7, <1>8, <1>9, <1>10, <1>11, <1>12 DEF IInv, WellTyped, SessionsKnown,
    CodesKnown

-----------------------------------------------------------------------------
(* The row.                                                                *)

\* A write waits for who holds the row.  It leaves the recovery codes alone,
\* drops them, or puts in a set that its maker has not written before.
LEMMA CodesAfterWrite ==
  ASSUME IInv, NEW r \in Requests, StepOf(r), request'[r].at # "remove",
         lock = None \/ user = None, user' \in Rows, Wrote(r) => Wrote(r)',
         \/ user # None /\ user'.codes = user.codes /\ user'.left = user.left
         \/ user'.codes = None
         \/ user'.codes = r /\ Wrote(r)' /\ ~Wrote(r),
         UNCHANGED <<lock, opened>>
  PROVE  CodesKnown'
<1>1. \A m : Wrote(m) => Wrote(m)'
  BY DEF Wrote, StepOf
<1>2. LockHeld'
  BY AuthAssumption DEF IInv, CodesKnown, LockHeld, StepOf, Makers
<1>3. \A x \in opened : x[2] # None
  BY AuthAssumption DEF IInv, WellTyped, TypeOK
<1>4. UsedCodesGone'
  <2>1. CASE user # None /\ user'.codes = user.codes /\ user'.left = user.left
    BY <1>1, <2>1 DEF IInv, CodesKnown, UsedCodesGone
  <2>2. CASE user'.codes = None
    BY <1>1, <1>3, <2>2 DEF IInv, CodesKnown, UsedCodesGone
  <2>3. CASE user'.codes = r /\ Wrote(r)' /\ ~Wrote(r)
    BY <1>1, <2>3 DEF IInv, CodesKnown, UsedCodesGone
  <2> QED
    BY <2>1, <2>2, <2>3
<1>5. RecoveryCodeOnce'
  BY DEF IInv, CodesKnown, RecoveryCodeOnce
<1> QED
  BY <1>2, <1>4, <1>5 DEF CodesKnown

\* After a write there is a row.
LEMMA RowWriteKeeps ==
  ASSUME IInv, NEW r \in Requests, StepOf(r), user' \in Rows,
         user'.codes = None => user'.left = {},
         request'[r].at \notin {"tries", "update", "drop"}, NewestQuiet(r),
         UNCHANGED <<redis, keys, tokens, lock, late, opened, page>>,
         before' \in [Requests -> SUBSET Makers], SessionsKnown', CodesKnown'
  PROVE  IInv'
<1>1. user' # None
  BY AuthAssumption
<1>2. TypeOK'
  BY DEF IInv, WellTyped, TypeOK, StepOf, NewestQuiet, Asked, page, Maybe
<1>3. UserStays'
  BY <1>1 DEF IInv, WellTyped, UserStays, StepOf, NeedsUser, Got, Arg
<1> QED
  BY <1>2, <1>3, NewestKept DEF IInv, WellTyped

\* A request that writes the row and then revokes.
LEMMA ThenRevokeKeeps ==
  ASSUME IInv, NEW r \in Requests, NEW row \in Rows, request[r].at = "update",
         request[r].op \notin {"enable", "regenerate", "sendCode"},
         user # None, row.codes = user.codes, row.left = user.left,
         WritesUser(row), ThenRevoke(r)
  PROVE  IInv'
<1> USE OthersStay
<1>1. /\ StepOf(r) /\ request'[r].at = "members" /\ request'[r].op = request[r].op
  BY GoIsStep DEF ThenRevoke, Steps, Ended, IInv, WellTyped
<1>2. /\ lock = None /\ user' = row /\ before' = [before EXCEPT ![r] = keys \cup Admitted]
      /\ UNCHANGED <<redis, keys, tokens, lock, newest, crossed, late, opened, page>>
  BY DEF WritesUser, ThenRevoke
<1>3. before' \in [Requests -> SUBSET Makers]
  BY <1>2 DEF IInv, WellTyped, TypeOK, Admitted, Makers
<1>4. NewestQuiet(r) /\ ~Wrote(r)
  BY <1>1, <1>2, AuthAssumption DEF NewestQuiet, Storing, Wrote, At, Between
<1>5. CodesKnown'
  BY <1>1, <1>2, <1>4, CodesAfterWrite
<1>6. /\ r \notin tokens /\ r \notin keys
      /\ \A q \in Requests :
           r \notin before[q] /\ (request[q].at = "del" => r \notin request[q].ids)
  BY AuthAssumption DEF IInv, SessionsKnown, KeysKnown, RevocationsKnow, BeforeKnown,
    Reached, Stored, Admitting
<1>7. \A s \in keys \cup Admitted : s # r /\ Reached(s, Admitting)
  BY <1>6 DEF IInv, SessionsKnown, KeysKnown, Admitted, Reached, Admitting, Stored
<1>8. KeysKnown'
  BY <1>1, <1>2, <1>6 DEF IInv, SessionsKnown, KeysKnown, StepOf
<1>9. RevocationsKnow'
  BY <1>1, <1>2, <1>6 DEF IInv, SessionsKnown, RevocationsKnow, StepOf
<1>10. BeforeKnown'
  <2>1. /\ before'[r] = keys \cup Admitted
        /\ \A q \in Requests : q # r => before'[q] = before[q]
    BY <1>2 DEF IInv, WellTyped, TypeOK
  <2>2. keys' \subseteq keys \cup {r}
    BY <1>2
  <2> QED
    BY <1>1, <1>2, <1>6, <1>7, <2>1, <2>2 DEF IInv, SessionsKnown, BeforeKnown, StepOf
<1>11. row.codes = None => row.left = {}
  BY DEF IInv, WellTyped, UserStays
<1> QED
  BY <1>1, <1>2, <1>3, <1>4, <1>5, <1>8, <1>9, <1>10, <1>11, RowWriteKeeps DEF SessionsKnown

\* One that does not.
LEMMA PlainWriteKeeps ==
  ASSUME IInv, NEW r \in Requests, NEW op, NEW from, NEW to \in Steps, NEW row \in Rows,
         At(r, {op}, from), Go(r, to), from \notin Special, op # "sendCode",
         to \notin {"tries", "update", "drop", "remove", "del"},
         user # None => lock = None,
         user' = row, row.codes = None => row.left = {},
         \/ user # None /\ row.codes = user.codes /\ row.left = user.left
         \/ row.codes = None
         \/ row.codes = r /\ op \in {"enable", "regenerate"} /\ from = "update",
         op \in {"enable", "regenerate"} => from = "update" /\ to \in {"deleteSetup", "resetTries"},
         UNCHANGED <<redis, keys, tokens, lock, history, page>>
  PROVE  IInv'
<1>1. /\ StepOf(r) /\ request[r].op = op /\ request[r].at = from
      /\ request'[r].at = to /\ request'[r].op = op
  BY GoIsStep DEF At, IInv, WellTyped
<1>2. UNCHANGED <<redis, keys, tokens, lock, newest, crossed, late, before, opened, page>>
  BY DEF history
<1>3. NewestQuiet(r) /\ SessionsQuiet(r)
  BY <1>1, <1>2 DEF NewestQuiet, Storing, SessionsQuiet, At
<1>4. ~Wrote(r) /\ (op \in {"enable", "regenerate"} => Wrote(r)')
  BY <1>1, AuthAssumption DEF Wrote
<1>5. CodesKnown'
  BY <1>1, <1>2, <1>4, CodesAfterWrite
<1>6. SessionsKnown'
  BY <1>1, <1>3, SessionsKept
<1>7. before' \in [Requests -> SUBSET Makers]
  BY <1>2 DEF IInv, WellTyped, TypeOK
<1> QED
  BY <1>1, <1>2, <1>3, <1>5, <1>6, <1>7, RowWriteKeeps

LEMMA RowFacts ==
  ASSUME IInv, user # None
  PROVE  /\ user \in Rows /\ (user.codes = None => user.left = {})
         /\ \A b \in BOOLEAN, m \in Makers :
              /\ [user EXCEPT !.linked = TRUE] \in Rows
              /\ [user EXCEPT !.verified = TRUE] \in Rows
              /\ [user EXCEPT !.verified = TRUE, !.mailCode = None] \in Rows
              /\ [user EXCEPT !.mailCode = m] \in Rows
              /\ [user EXCEPT !.password = m] \in Rows
BY DEF IInv, WellTyped, TypeOK, UserStays, Rows, Maybe

LEMMA RevokersKeep ==
  ASSUME IInv, NEW r \in Requests, MarkVerified(r) \/ NewPassword(r)
  PROVE  IInv'
<1>1. r \in Makers
  BY DEF Makers
<1>2. request[r].at = "update" /\ request[r].op \notin {"enable", "regenerate", "sendCode"}
  BY DEF MarkVerified, NewPassword, At
<1>3. user # None
  BY <1>2 DEF IInv, WellTyped, UserStays, NeedsUser
<1>4. CASE MarkVerified(r)
  <2>1. [user EXCEPT !.verified = TRUE, !.mailCode = None] \in Rows
    BY <1>1, <1>3, RowFacts
  <2>2. /\ [user EXCEPT !.verified = TRUE, !.mailCode = None].codes = user.codes
        /\ [user EXCEPT !.verified = TRUE, !.mailCode = None].left = user.left
    BY <1>3, RowFacts DEF Rows
  <2> QED
    BY <1>2, <1>3, <1>4, <2>1, <2>2, ThenRevokeKeeps DEF MarkVerified
<1>5. CASE NewPassword(r)
  <2>1. [user EXCEPT !.password = r] \in Rows
    BY <1>1, <1>3, RowFacts
  <2>2. /\ [user EXCEPT !.password = r].codes = user.codes
        /\ [user EXCEPT !.password = r].left = user.left
    BY <1>3, RowFacts DEF Rows
  <2> QED
    BY <1>2, <1>3, <1>5, <2>1, <2>2, ThenRevokeKeeps DEF NewPassword
<1> QED
  BY <1>4, <1>5

LEMMA WritersKeep ==
  ASSUME IInv, NEW r \in Requests,
         LinkAccount(r) \/ VerifiedByProvider(r) \/ FirstPassword(r) \/ NewMailCode(r)
  PROVE  IInv'
<1> USE DEF Special, Admitting, Steps, Ended
<1>1. r \in Makers
  BY DEF Makers
<1>2. user # None
  BY DEF LinkAccount, VerifiedByProvider, FirstPassword, NewMailCode, At, IInv, WellTyped,
    UserStays, NeedsUser
<1>3. user \in Rows /\ (user.codes = None => user.left = {})
  BY <1>2, RowFacts
<1>4. CASE LinkAccount(r)
  <2>1. PICK from \in {"link", "linkUnverified"}, to \in {"complete", "verify"} :
          At(r, {"oauth"}, from) /\ Go(r, to)
    BY <1>4 DEF LinkAccount
  <2>2. /\ [user EXCEPT !.linked = TRUE] \in Rows
        /\ [user EXCEPT !.linked = TRUE].codes = user.codes
        /\ [user EXCEPT !.linked = TRUE].left = user.left
    BY <1>1, <1>2, RowFacts DEF Rows
  <2>3. /\ lock = None /\ user' = [user EXCEPT !.linked = TRUE]
        /\ UNCHANGED <<redis, keys, tokens, lock, history, page>>
    BY <1>4 DEF LinkAccount, WritesUser, history
  <2> QED
    BY <1>2, <1>3, <2>1, <2>2, <2>3, PlainWriteKeeps
<1>5. CASE VerifiedByProvider(r)
  <2>1. At(r, {"oauth"}, "verify") /\ Go(r, "complete")
    BY <1>5 DEF VerifiedByProvider
  <2>2. /\ [user EXCEPT !.verified = TRUE] \in Rows
        /\ [user EXCEPT !.verified = TRUE].codes = user.codes
        /\ [user EXCEPT !.verified = TRUE].left = user.left
    BY <1>1, <1>2, RowFacts DEF Rows
  <2>3. /\ lock = None /\ user' = [user EXCEPT !.verified = TRUE]
        /\ UNCHANGED <<redis, keys, tokens, lock, history, page>>
    BY <1>5 DEF VerifiedByProvider, WritesUser, history
  <2> QED
    BY <1>2, <1>3, <2>1, <2>2, <2>3, PlainWriteKeeps
<1>6. CASE FirstPassword(r)
  <2>1. At(r, {"setPassword"}, "update") /\ Go(r, "done")
    BY <1>6 DEF FirstPassword
  <2>2. /\ [user EXCEPT !.password = r] \in Rows
        /\ [user EXCEPT !.password = r].codes = user.codes
        /\ [user EXCEPT !.password = r].left = user.left
    BY <1>1, <1>2, RowFacts DEF Rows
  <2>3. /\ lock = None /\ user' = [user EXCEPT !.password = r]
        /\ UNCHANGED <<redis, keys, tokens, lock, history, page>>
    BY <1>6 DEF FirstPassword, WritesUser, history
  <2> QED
    BY <1>2, <1>3, <2>1, <2>2, <2>3, PlainWriteKeeps
<1>7. CASE NewMailCode(r)
  <2>1. At(r, {"resendVerification"}, "update") /\ Go(r, "done")
    BY <1>7 DEF NewMailCode
  <2>2. /\ [user EXCEPT !.mailCode = r] \in Rows
        /\ [user EXCEPT !.mailCode = r].codes = user.codes
        /\ [user EXCEPT !.mailCode = r].left = user.left
    BY <1>1, <1>2, RowFacts DEF Rows
  <2>3. /\ lock = None /\ user' = [user EXCEPT !.mailCode = r]
        /\ UNCHANGED <<redis, keys, tokens, lock, history, page>>
    BY <1>7 DEF NewMailCode, WritesUser, history
  <2> QED
    BY <1>2, <1>3, <2>1, <2>2, <2>3, PlainWriteKeeps
<1> QED
  BY <1>4, <1>5, <1>6, <1>7

\* The index on users.email admits one row.
LEMMA InsertsKeep ==
  ASSUME IInv, NEW r \in Requests, InsertUser(r) \/ InsertUnverified(r) \/ CreateOAuthUser(r)
  PROVE  IInv'
<1> USE DEF Special, Admitting, Steps, Ended
<1>1. /\ r \in Makers /\ r \in Maybe(Makers) /\ None \in Maybe(Makers)
      /\ TRUE \in BOOLEAN /\ FALSE \in BOOLEAN
  BY DEF Makers, Maybe
<1>2. CASE user # None
  <2>1. CASE InsertUser(r)
    <3>1. Leads(r, "completeSignup", "insert", "refused") /\ Go(r, "refused") /\ Reads
      BY <1>2, <2>1 DEF InsertUser, Registered, Leads, NeedsUser, Between
    <3> QED
      BY <3>1, ReadKeeps
  <2>2. CASE InsertUnverified(r)
    <3>1. Leads(r, "signup", "insert", "refused") /\ Go(r, "refused") /\ Reads
      BY <1>2, <2>2 DEF InsertUnverified, Registered, Leads, NeedsUser, Between
    <3> QED
      BY <3>1, ReadKeeps
  <2>3. CASE CreateOAuthUser(r)
    <3>1. Leads(r, "oauth", "create", "refused") /\ Go(r, "refused") /\ Reads
      BY <1>2, <2>3 DEF CreateOAuthUser, Exists, Leads, NeedsUser, Between
    <3> QED
      BY <3>1, ReadKeeps
  <2> QED
    BY <2>1, <2>2, <2>3
<1>3. CASE user = None
  <2>1. CASE InsertUser(r)
    <3>1. /\ At(r, {"completeSignup"}, "insert") /\ Go(r, "cleanup")
          /\ user' = NewUser(r, r, TRUE)
          /\ UNCHANGED <<redis, keys, tokens, lock, history, page>>
      BY <1>3, <2>1 DEF InsertUser, Registered, Insert
    <3>2. /\ NewUser(r, r, TRUE) \in Rows
          /\ NewUser(r, r, TRUE).codes = None /\ NewUser(r, r, TRUE).left = {}
      BY <1>1 DEF NewUser, Rows
    <3> QED
      BY <1>3, <3>1, <3>2, PlainWriteKeeps
  <2>2. CASE InsertUnverified(r)
    <3> DEFINE row == [NewUser(r, r, FALSE) EXCEPT !.mailCode = r]
    <3>1. /\ At(r, {"signup"}, "insert") /\ Go(r, "key") /\ user' = row
          /\ UNCHANGED <<redis, keys, tokens, lock, history, page>>
      BY <1>3, <2>2 DEF InsertUnverified, Registered, Insert
    <3>2. row \in Rows /\ row.codes = None /\ row.left = {}
      BY <1>1 DEF NewUser, Rows
    <3> HIDE DEF row
    <3> QED
      BY <1>3, <3>1, <3>2, PlainWriteKeeps
  <2>3. CASE CreateOAuthUser(r)
    <3>1. PICK trusted \in BOOLEAN :
            user' = [by |-> r, password |-> None, verified |-> trusted,
                     mailCode |-> None, linked |-> TRUE, secret |-> None,
                     codes |-> None, left |-> {}]
      BY <1>3, <2>3 DEF CreateOAuthUser, Exists
    <3> DEFINE row == [by |-> r, password |-> None, verified |-> trusted,
                       mailCode |-> None, linked |-> TRUE, secret |-> None,
                       codes |-> None, left |-> {}]
    <3>2. /\ At(r, {"oauth"}, "create") /\ Go(r, "key") /\ user' = row
          /\ UNCHANGED <<redis, keys, tokens, lock, history, page>>
      BY <1>3, <2>3, <3>1 DEF CreateOAuthUser, Exists
    <3>3. row \in Rows /\ row.codes = None /\ row.left = {}
      BY <1>1 DEF Rows
    <3> HIDE DEF row
    <3> QED
      BY <1>3, <3>2, <3>3, PlainWriteKeeps
  <2> QED
    BY <2>1, <2>2, <2>3
<1> QED
  BY <1>2, <1>3

LEMMA TwoFactorWritersKeep ==
  ASSUME IInv, NEW r \in Requests, Enable(r) \/ Disable(r) \/ Regenerate(r)
  PROVE  IInv'
<1> USE DEF Special, Admitting, Steps, Ended
<1>1. r \in Makers /\ r \in Maybe(Makers) /\ None \in Maybe(Makers) /\ r # None
  BY AuthAssumption DEF Makers, Maybe
<1>2. user # None
  BY DEF Enable, Disable, Regenerate, At, IInv, WellTyped, UserStays, NeedsUser
<1>3. user \in Rows
  BY <1>2, RowFacts
<1>4. CASE Enable(r)
  <2> DEFINE row == [user EXCEPT !.secret = Got(r), !.codes = r, !.left = RecoveryCodes]
  <2>1. Got(r) \in Maybe(Makers)
    BY <1>4 DEF Enable, At, IInv, WellTyped, UserStays, Maybe
  <2>2. row \in Rows /\ row.codes = r
    BY <1>1, <1>3, <2>1 DEF Rows
  <2>3. /\ At(r, {"enable"}, "update") /\ Go(r, "deleteSetup")
        /\ lock = None /\ user' = row
        /\ UNCHANGED <<redis, keys, tokens, lock, history, page>>
    BY <1>4 DEF Enable, WritesUser, history
  <2> HIDE DEF row
  <2> QED
    BY <1>1, <1>2, <2>2, <2>3, PlainWriteKeeps
<1>5. CASE Regenerate(r)
  <2> DEFINE row == [user EXCEPT !.codes = r, !.left = RecoveryCodes]
  <2>1. row \in Rows /\ row.codes = r
    BY <1>1, <1>3 DEF Rows
  <2>2. /\ At(r, {"regenerate"}, "update") /\ Go(r, "resetTries")
        /\ lock = None /\ user' = row
        /\ UNCHANGED <<redis, keys, tokens, lock, history, page>>
    BY <1>5 DEF Regenerate, WritesUser, history
  <2> HIDE DEF row
  <2> QED
    BY <1>1, <1>2, <2>1, <2>2, PlainWriteKeeps
<1>6. CASE Disable(r)
  <2> DEFINE row == [user EXCEPT !.secret = None, !.codes = None, !.left = {}]
  <2>1. row \in Rows /\ row.codes = None /\ row.left = {}
    BY <1>1, <1>3 DEF Rows
  <2>2. /\ At(r, {"disable"}, "update") /\ Go(r, "resetTries")
        /\ lock = None /\ user' = row
        /\ UNCHANGED <<redis, keys, tokens, lock, history, page>>
    BY <1>6 DEF Disable, WritesUser, history
  <2> HIDE DEF row
  <2> QED
    BY <1>1, <1>2, <2>1, <2>2, PlainWriteKeeps
<1> QED
  BY <1>4, <1>5, <1>6

-----------------------------------------------------------------------------
(* A recovery code, found and removed while the row is held.               *)

LEMMA LockAndFindKeeps ==
  ASSUME IInv, NEW r \in Requests, LockAndFind(r)
  PROVE  IInv'
<1>1. At(r, {"recovery"}, "lock") /\ UNCHANGED <<user, redis, keys, tokens, history, page>>
  BY DEF LockAndFind
<1>2. CASE UNCHANGED lock /\ Go(r, "refused")
  <2>1. Leads(r, "recovery", "lock", "refused") /\ Reads
    BY <1>1, <1>2 DEF Leads, Special, Admitting, Steps, Ended, NeedsUser, Between, Reads, stores
  <2> QED
    BY <1>2, <2>1, ReadKeeps
<1>3. ASSUME Enabled2FA, Locks(r), NEW c \in user.left, GoWith(r, "remove", c)
      PROVE  IInv'
  <2>1. c \in Values /\ "remove" \in Steps
    BY <1>3 DEF Enabled2FA, IInv, WellTyped, TypeOK, Maybe, Rows, Values, Steps
  <2>2. /\ StepOf(r) /\ request[r].op = "recovery" /\ request[r].at = "lock"
        /\ request'[r].at = "remove" /\ request'[r].op = "recovery" /\ request'[r].got = c
    BY <1>1, <1>3, <2>1, GoWithIsStep DEF At, IInv, WellTyped
  <2>3. SessionsQuiet(r) /\ NewestQuiet(r)
    BY <1>1, <2>2 DEF SessionsQuiet, NewestQuiet, Storing, history, Special, Admitting, At
  <2>4. user.codes # None
    BY <1>3 DEF Enabled2FA, IInv, WellTyped, UserStays
  <2>5. LockHeld'
    BY <1>1, <1>3, <2>2, <2>4, AuthAssumption
    DEF Locks, Enabled2FA, IInv, CodesKnown, LockHeld, StepOf, Got, Makers
  <2>6. UsedCodesGone' /\ RecoveryCodeOnce'
    <3>1. \A m : Wrote(m) => Wrote(m)'
      BY <2>2, AuthAssumption DEF Wrote, StepOf
    <3> QED
      BY <1>1, <3>1 DEF IInv, CodesKnown, UsedCodesGone, RecoveryCodeOnce, history
  <2>7. TypeOK'
    BY <1>1, <1>3, <2>2 DEF Locks, IInv, WellTyped, TypeOK, StepOf, Asked, Maybe, history, page
  <2>8. UserStays'
    BY <1>1, <1>3, <2>2 DEF Enabled2FA, IInv, WellTyped, UserStays, StepOf, Got, Arg
  <2> QED
    BY <2>2, <2>3, <2>5, <2>6, <2>7, <2>8, SessionsKept, NewestKept
    DEF IInv, WellTyped, CodesKnown
<1> QED
  BY <1>2, <1>3 DEF LockAndFind

LEMMA RemoveRecoveryCodeKeeps ==
  ASSUME IInv, NEW r \in Requests, RemoveRecoveryCode(r)
  PROVE  IInv'
<1>1. /\ StepOf(r) /\ request[r].op = "recovery" /\ request[r].at = "remove"
      /\ request'[r].at = "deleteChallenge" /\ request'[r].op = "recovery"
  BY GoIsStep DEF RemoveRecoveryCode, At, Steps, IInv, WellTyped
<1>2. /\ user' = [user EXCEPT !.left = @ \ {Got(r)}] /\ lock' = None
      /\ opened' = opened \cup {<<r, user.codes, Got(r)>>}
      /\ UNCHANGED <<redis, keys, tokens, newest, crossed, late, before, page>>
  BY DEF RemoveRecoveryCode
<1>3. /\ lock = r /\ user # None /\ user.codes # None /\ Got(r) \in user.left
      /\ user \in Rows
  BY <1>1 DEF IInv, WellTyped, TypeOK, Maybe, CodesKnown, LockHeld
<1>4. /\ user' \in Rows /\ user'.codes = user.codes /\ user'.left = user.left \ {Got(r)}
      /\ user' # None
  <2>1. user' \in Rows /\ user'.codes = user.codes /\ user'.left = user.left \ {Got(r)}
    BY <1>2, <1>3 DEF Rows
  <2> QED
    BY <2>1, AuthAssumption
<1>5. <<r, user.codes, Got(r)>> \in Requests \X Makers \X RecoveryCodes
  BY <1>3 DEF Rows, Maybe
<1>6. SessionsQuiet(r) /\ NewestQuiet(r)
  BY <1>1, <1>2 DEF SessionsQuiet, NewestQuiet, Storing, Special, Admitting, At
<1>7. \A q \in Requests : q # r => request[q].at # "remove"
  BY <1>3 DEF IInv, CodesKnown, LockHeld
<1>8. LockHeld'
  BY <1>1, <1>7 DEF LockHeld, StepOf
<1>9. \A m : Wrote(m) => Wrote(m)'
  BY <1>1, AuthAssumption DEF Wrote, StepOf
<1>10. UsedCodesGone'
  <2>1. Wrote(user.codes)
    BY <1>3 DEF IInv, CodesKnown, UsedCodesGone
  <2>2. \A x \in opened' : x = <<r, user.codes, Got(r)>> \/ x \in opened
    BY <1>2
  <2> QED
    BY <1>3, <1>4, <1>9, <2>1, <2>2 DEF IInv, CodesKnown, UsedCodesGone
<1>11. RecoveryCodeOnce'
  <2>1. \A x \in opened : ~(x[2] = user.codes /\ x[3] = Got(r))
    BY <1>3 DEF IInv, CodesKnown, UsedCodesGone
  <2> QED
    BY <1>2, <2>1 DEF IInv, CodesKnown, RecoveryCodeOnce
<1>12. TypeOK'
  BY <1>1, <1>2, <1>4, <1>5 DEF IInv, WellTyped, TypeOK, StepOf, Asked, Maybe, page
<1>13. UserStays'
  BY <1>1, <1>3, <1>4 DEF IInv, WellTyped, UserStays, StepOf, Got, Arg
<1> QED
  BY <1>1, <1>6, <1>8, <1>10, <1>11, <1>12, <1>13, SessionsKept, NewestKept
  DEF IInv, WellTyped, CodesKnown

-----------------------------------------------------------------------------
(* Steps of no request.                                                    *)

\* A step of the page, or none at all.
LEMMA IdleKeeps ==
  ASSUME IInv, wizard' \in Wizards, UNCHANGED <<stores, history, request, offered>>
  PROVE  IInv'
<1>1. TypeOK'
  BY DEF IInv, WellTyped, TypeOK, Wizards, stores, history
<1>2. UserStays'
  BY DEF IInv, WellTyped, UserStays, stores, Got, Arg
<1>3. SessionsKnown'
  BY DEF IInv, SessionsKnown, KeysKnown, RevocationsKnow, BeforeKnown, Gone, Reached, stores,
    history
<1>4. CodesKnown'
  BY DEF IInv, CodesKnown, LockHeld, UsedCodesGone, RecoveryCodeOnce, Wrote, Got, stores, history
<1>5. NewestKnown'
  BY DEF IInv, NewestKnown, Storing, stores, history
<1> QED
  BY <1>1, <1>2, <1>3, <1>4, <1>5 DEF IInv, WellTyped

LEMMA PageKeeps ==
  ASSUME IInv, TakeAnswer \/ Reload \/ BackToEmail
  PROVE  IInv'
<1>1. wizard \in Wizards /\ Start \in Wizards
  BY DEF IInv, WellTyped, TypeOK, Wizards, Start, Maybe
<1>2. CASE TakeAnswer
  <2>1. PICK r \in wizard.asked :
          \/ wizard' = [wizard EXCEPT !.asked = @ \ {r}]
          \/ wizard' = Start
          \/ wizard' = [[wizard EXCEPT !.asked = @ \ {r}] EXCEPT !.step = 3, !.token = r]
          \/ wizard' = [[wizard EXCEPT !.asked = @ \ {r}] EXCEPT !.step = 4]
          \/ wizard' = [[wizard EXCEPT !.asked = @ \ {r}] EXCEPT !.step = 2]
    BY <1>2 DEF TakeAnswer
  <2>2. r \in Makers
    BY <1>1 DEF Wizards, Makers
  <2>3. wizard' \in Wizards
    <3>1. PICK w \in Wizards : w = wizard
      BY <1>1
    <3>2. w.asked \ {r} \in SUBSET Requests /\ {2, 3, 4} \subseteq 1 .. 4
      BY DEF Wizards
    <3>3. \/ wizard' = [step |-> w.step, token |-> w.token, asked |-> w.asked \ {r}]
          \/ wizard' = Start
          \/ wizard' = [step |-> 3, token |-> r, asked |-> w.asked \ {r}]
          \/ wizard' = [step |-> 4, token |-> w.token, asked |-> w.asked \ {r}]
          \/ wizard' = [step |-> 2, token |-> w.token, asked |-> w.asked \ {r}]
      BY <2>1, <3>1 DEF Wizards
    <3> QED
      BY <1>1, <2>2, <3>1, <3>2, <3>3 DEF Wizards, Maybe
  <2> QED
    BY <1>2, <2>3, IdleKeeps DEF TakeAnswer
<1>3. CASE Reload
  <2>1. wizard' \in Wizards
    BY <1>1, <1>3 DEF Reload, Wizards, Start
  <2> QED
    BY <1>3, <2>1, IdleKeeps DEF Reload
<1>4. CASE BackToEmail
  BY <1>1, <1>4, IdleKeeps DEF BackToEmail
<1> QED
  BY <1>2, <1>3, <1>4

LEMMA ExpireKeeps ==
  ASSUME IInv, Expire
  PROVE  IInv'
<1>1. redis \in Caches /\ None \in Maybe(Makers)
  BY DEF IInv, WellTyped, TypeOK, Maybe
<1>2. redis' \in Caches
  <2>1. CASE redis' \in {[redis EXCEPT !.code = None], [redis EXCEPT !.attempts = 0],
                 [redis EXCEPT !.cooldown = FALSE], [redis EXCEPT !.failures = 0],
                 [redis EXCEPT !.setup = None], [redis EXCEPT !.used = FALSE]}
    <3>1. [redis EXCEPT !.code = None] \in Caches
      BY <1>1 DEF Caches
    <3>2. [redis EXCEPT !.attempts = 0] \in Caches /\ [redis EXCEPT !.failures = 0] \in Caches
      BY <1>1 DEF Caches
    <3>3. [redis EXCEPT !.cooldown = FALSE] \in Caches /\ [redis EXCEPT !.used = FALSE] \in Caches
      BY <1>1 DEF Caches
    <3>4. [redis EXCEPT !.setup = None] \in Caches
      BY <1>1 DEF Caches
    <3> QED
      BY <2>1, <3>1, <3>2, <3>3, <3>4
  <2>2. ASSUME NEW q \in redis.challenges, redis' = [redis EXCEPT !.challenges = @ \ {q}]
        PROVE  redis' \in Caches
    BY <1>1, <2>2 DEF Caches
  <2>3. ASSUME NEW q \in redis.resets, redis' = [redis EXCEPT !.resets = @ \ {q}]
        PROVE  redis' \in Caches
    BY <1>1, <2>3 DEF Caches
  <2>4. ASSUME NEW k \in Counters, redis' = [redis EXCEPT !.tries[k] = 0]
        PROVE  redis' \in Caches
    BY <1>1, <2>4 DEF Caches
  <2> QED
    BY <2>1, <2>2, <2>3, <2>4 DEF Expire
<1>3. /\ redis'.code \in {redis.code, None}
      /\ crossed' = (crossed \/ (redis'.code # redis.code /\ Midway # {}))
      /\ UNCHANGED <<user, keys, tokens, lock, request, newest, late, before, opened, page>>
  BY <1>1 DEF Expire, Caches
<1>4. TypeOK'
  BY <1>1, <1>2, <1>3 DEF IInv, WellTyped, TypeOK, page
<1>5. UserStays'
  BY <1>3 DEF IInv, WellTyped, UserStays, Got, Arg
<1>6. SessionsKnown'
  BY <1>3 DEF IInv, SessionsKnown, KeysKnown, RevocationsKnow, BeforeKnown, Gone, Reached
<1>7. CodesKnown'
  BY <1>3 DEF IInv, CodesKnown, LockHeld, UsedCodesGone, RecoveryCodeOnce, Wrote, Got
<1>8. NewestKnown'
  <2>1. Midway = {} => \A q \in Requests : ~Storing(q)
    BY DEF Midway, Sending, Storing, Between
  <2>2. \A q \in Requests : Storing(q)' <=> Storing(q)
    BY <1>3 DEF Storing
  <2> QED
    BY <1>3, <2>1, <2>2 DEF IInv, NewestKnown
<1> QED
  BY <1>4, <1>5, <1>6, <1>7, <1>8 DEF IInv, WellTyped

-----------------------------------------------------------------------------
(* The whole.                                                              *)

LEMMA InitHolds == Init => IInv
<1> SUFFICES ASSUME Init
             PROVE  IInv
  OBVIOUS
<1>1. PICK s \in Scenarios :
        /\ user = s.user /\ offered = s.ops
        /\ keys \in {{}, {Original}} /\ tokens = keys
        /\ request = [r \in Requests |-> New]
        /\ redis.code = newest
        /\ late = {} /\ before = [r \in Requests |-> {}] /\ opened = {}
  BY DEF Init
<1>2. /\ s.user \in Maybe(Rows) /\ s.ops \in SUBSET Operations
      /\ s.user # None => s.user.codes = Original \/ (s.user.codes = None /\ s.user.left = {})
  BY AuthAssumption
<1>3. \A r \in Requests : request[r].at = "new" /\ request[r].op = "login"
  BY <1>1 DEF New
<1>4. redis \in Caches
  BY DEF Init, Caches, Maybe, Makers, Counters
<1>5. TypeOK
  <2>1. New \in [op : Operations, at : Steps, arg : Values, got : Values, ids : SUBSET Makers]
    BY DEF New, Operations, Steps, Ended, Values
  <2>2. /\ lock \in Maybe(Requests) /\ newest \in Maybe(Makers) /\ crossed \in BOOLEAN
        /\ wizard \in [step : 1..4, token : Maybe(Makers), asked : SUBSET Requests]
    <3>1. PICK m \in {Original, None}, n \in {1, 2} :
            newest = m /\ wizard = [step |-> n, token |-> None, asked |-> {}]
      BY DEF Init
    <3>2. lock = None /\ crossed = FALSE
      BY DEF Init
    <3>3. m \in Maybe(Makers) /\ None \in Maybe(Makers) /\ None \in Maybe(Requests) /\ n \in 1 .. 4
      BY DEF Maybe, Makers
    <3> QED
      BY <3>1, <3>2, <3>3
  <2>3. keys \subseteq Makers /\ tokens \subseteq Makers
    BY <1>1 DEF Makers
  <2> QED
    BY <1>1, <1>2, <1>4, <2>1, <2>2, <2>3 DEF TypeOK
<1>6. UserStays
  <2>1. Original # None
    BY AuthAssumption DEF Makers
  <2> QED
    BY <1>1, <1>2, <1>3, <2>1 DEF UserStays, NeedsUser
<1>7. SessionsKnown
  BY <1>1, <1>3 DEF SessionsKnown, KeysKnown, RevocationsKnow, BeforeKnown, Reached
<1>8. CodesKnown
  BY <1>1, <1>2, <1>3 DEF CodesKnown, LockHeld, UsedCodesGone, RecoveryCodeOnce, Wrote
<1>9. NewestKnown
  BY <1>1, <1>3 DEF NewestKnown, Storing
<1> QED
  BY <1>5, <1>6, <1>7, <1>8, <1>9 DEF IInv, WellTyped

LEMMA NextKeeps == IInv /\ [Next]_vars => IInv'
<1> SUFFICES ASSUME IInv, [Next]_vars
             PROVE  IInv'
  OBVIOUS
<1>1. ASSUME NEW r \in Requests, SignUpSteps(r)
      PROVE  IInv'
  BY <1>1, PagesKeep, SignUpReads, SignUpRedis, SignUpCode, InsertsKeep, RevokersKeep, WritersKeep
  DEF SignUpSteps
<1>2. ASSUME NEW r \in Requests, SignInSteps(r)
      PROVE  IInv'
  BY <1>2, PagesKeep, SignInReads, SignInRedis, AdmittedSteps, DropTokenKeeps, InsertsKeep,
    RevokersKeep, WritersKeep
  DEF SignInSteps
<1>3. ASSUME NEW r \in Requests, TwoFactorSteps(r)
      PROVE  IInv'
  BY <1>3, PagesKeep, TwoFactorReads, TwoFactorRedis, TwoFactorWritersKeep, LockAndFindKeeps,
    RemoveRecoveryCodeKeeps
  DEF TwoFactorSteps
<1>4. ASSUME NEW r \in Requests,
             StoreKey(r) \/ StoreMember(r) \/ CheckStored(r) \/ RevokeMembers(r)
             \/ RevokeKeys(r) \/ Throws(r)
      PROVE  IInv'
  BY <1>4, StoreKeyKeeps, StoreMemberKeeps, AdmittedSteps, RevokeMembersKeeps, RevokeKeysKeeps,
    ThrowsKeeps
<1>5. CASE TakeAnswer \/ Reload \/ BackToEmail
  BY <1>5, PageKeeps
<1>6. CASE Expire
  BY <1>6, ExpireKeeps
<1>7. CASE UNCHANGED vars
  <2>1. wizard' \in Wizards /\ UNCHANGED <<stores, history, request, offered>>
    BY <1>7 DEF vars, stores, history, IInv, WellTyped, TypeOK, Wizards
  <2> QED
    BY <2>1, IdleKeeps
<1> QED
  BY <1>1, <1>2, <1>3, <1>4, <1>5, <1>6, <1>7 DEF Next

LEMMA AuthenticationInvariant == Spec => []IInv
BY InitHolds, NextKeeps, PTL DEF Spec

\* Every row, key of Redis and request stays one of those that are described.
THEOREM AuthenticationTyped == Spec => []TypeOK
<1>1. IInv => TypeOK
  BY DEF IInv, WellTyped
<1> QED
  BY <1>1, AuthenticationInvariant, PTL

\* "Logout from all devices" (password.ts, verification.ts): whatever else
\* runs, who was signed in or let in when a password was changed, or the
\* address verified, is signed out once the request is answered, but for
\* those whose token was being stored during the revocation.
THEOREM RevocationHolds == Spec => []SessionsEnd
<1>1. IInv => SessionsEnd
  <2> SUFFICES ASSUME IInv, NEW r \in Requests, request[r].at = "done",
                      NEW s \in before[r], s \in Sessions
               PROVE  s \in late
    BY DEF SessionsEnd
  <2>1. s \in late \/ Gone(s)
    BY DEF IInv, SessionsKnown, BeforeKnown
  <2>2. s \in keys /\ (s = Original \/ request[s].at = "done")
    BY DEF Sessions
  <2>3. ~Gone(s)
    BY <2>2, AuthAssumption DEF Gone
  <2> QED
    BY <2>1, <2>3
<1> QED
  BY <1>1, AuthenticationInvariant, PTL

\* A recovery code lets one request in (twoFactorService.ts): the row is held
\* from the comparison of the hashes to the removal, and a set of codes is
\* written once, so what was removed never comes back.
THEOREM CodesOpenOnce == Spec => []RecoveryCodeOnce
<1>1. IInv => RecoveryCodeOnce
  BY DEF IInv, CodesKnown
<1> QED
  BY <1>1, AuthenticationInvariant, PTL

\* A code that is in force is that of the newest mail, or its mail is being
\* sent; after a resend whose mail fails no code is (verification.ts), as long
\* as requests about the code do not run into each other.
THEOREM NewestCodeStands == Spec => []NewestInForce
<1>1. IInv => NewestInForce
  BY DEF IInv, NewestKnown, NewestInForce, Storing, Sending, Between
<1> QED
  BY <1>1, AuthenticationInvariant, PTL
=============================================================================
