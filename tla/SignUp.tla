------------------------------- MODULE SignUp -------------------------------
(***************************************************************************)
(* How an account is made: the code that is mailed, entered and exchanged  *)
(* for a sign-up token (services/auth/verification.ts, core.ts), the page  *)
(* Signup that leads through it (pages/Signup.tsx), and the older routes   *)
(* without a page, which make the account first and verify it afterwards.  *)
(***************************************************************************)
EXTENDS AuthStores

Registered == user # None
Insert(row) ==
  /\ user' = row
  /\ UNCHANGED <<redis, keys, tokens, lock, history, page>>

NewUser(r, password, verified) ==
  [by |-> r, password |-> password, verified |-> verified, mailCode |-> None,
   linked |-> FALSE, secret |-> None, codes |-> None, left |-> {}]

-----------------------------------------------------------------------------
(* The page: the step is kept in the sessionStorage, the token is not.     *)

Waits(op) == \E r \in wizard.asked : request[r].op = op /\ request[r].at \notin Ended

Submit(r, op, arg, at) ==
  /\ ~Waits(op)
  /\ Begin(r, op, arg, at)
  /\ wizard' = [wizard EXCEPT !.asked = @ \union {r}]
  /\ UNCHANGED <<stores, history, offered>>

HandleEmail(r) == wizard.step = 1 /\ Submit(r, "sendCode", None, "lookup")
HandleResend(r) == wizard.step = 2 /\ Submit(r, "sendCode", None, "lookup")

\* The code of the newest mail, in force or not, or a slip.
HandleCode(r) ==
  /\ wizard.step = 2
  /\ \E code \in {newest, Wrong} \ {None} : Submit(r, "verifyCode", code, "getCode")

HandlePassword(r) ==
  wizard.step = 3 /\ Submit(r, "completeSignup", wizard.token, "lookup")

\* An answer moves the page on; an error is shown where it is, and one about
\* the token leads back to the start.
Start == [step |-> 1, token |-> None, asked |-> {}]
TakeAnswer ==
  \E r \in wizard.asked :
    LET rest == [wizard EXCEPT !.asked = @ \ {r}]
        op == request[r].op
    IN  /\ \/ request[r].at = "refused" /\ wizard' = rest
           \/ request[r].at = "refused" /\ op = "completeSignup" /\ wizard' = Start
           \/ /\ request[r].at = "done"
              /\ wizard' = CASE op = "verifyCode" -> [rest EXCEPT !.step = 3, !.token = r]
                             [] op = "completeSignup" -> [rest EXCEPT !.step = 4]
                             [] wizard.step = 1 -> [rest EXCEPT !.step = 2]
                             [] OTHER -> rest
        /\ UNCHANGED <<stores, history, request, offered>>

\* A page that is loaded again waits for nothing any more, and has no token.
Reload ==
  /\ wizard.step < 4
  /\ wizard' = [Start EXCEPT !.step = IF wizard.step = 3 THEN 2 ELSE wizard.step]
  /\ UNCHANGED <<stores, history, request, offered>>

\* Not while a code is being verified; a resend is left behind.
BackToEmail ==
  /\ wizard.step = 2
  /\ ~Waits("verifyCode")
  /\ wizard' = Start
  /\ UNCHANGED <<stores, history, request, offered>>

-----------------------------------------------------------------------------
(* send-code and resend-code.                                              *)

RefusesCode == Registered /\ user.verified
LookUpForCode(r) ==
  /\ At(r, {"sendCode"}, "lookup")
  /\ Go(r, IF RefusesCode THEN "refused" ELSE "cooldown")
  /\ Reads

\* Mutant: the code is stored before the cooldown is looked at.
SetsBeforeCooldown(r) ==
  /\ At(r, {"sendCode"}, "cooldown")
  /\ redis' = [redis EXCEPT !.code = r]
  /\ Go(r, IF redis.cooldown THEN "refused" ELSE "setCode")
  /\ WritesRedis

CheckResendCooldown(r) ==
  /\ At(r, {"sendCode"}, "cooldown")
  /\ Go(r, IF redis.cooldown THEN "refused" ELSE "setCode")
  /\ Reads

\* The requests about the code that are between two of their statements.
Midway ==
  {q \in Requests :
     \/ q \in Sending \/ At(q, {"sendCode"}, "setCode")
     \/ \E at \in {"attempts", "deleteCode"} : At(q, {"verifyCode"}, at)
     \/ At(q, {"completeSignup"}, "cleanup")}

SetCode(r) ==
  /\ At(r, {"sendCode"}, "setCode")
  /\ redis' = [redis EXCEPT !.code = r]
  /\ crossed' = (crossed \/ Midway # {r})
  /\ Go(r, "setCooldown")
  /\ UNCHANGED <<user, keys, tokens, lock, newest, late, before, opened, page>>

SetResendCooldown(r) ==
  /\ At(r, {"sendCode"}, "setCooldown")
  /\ redis' = [redis EXCEPT !.cooldown = TRUE]
  /\ Go(r, "mail")
  /\ WritesRedis

MailCode(r) ==
  /\ At(r, {"sendCode"}, "mail")
  /\ \/ newest' = r /\ Go(r, "done")
     \/ newest' = newest /\ Go(r, "unset")
  /\ UNCHANGED <<stores, crossed, late, before, opened, page>>

\* Mutant: the code stays when its mail could not be sent.
UnsetNothing(r) ==
  /\ At(r, {"sendCode"}, "unset")
  /\ Go(r, "refused")
  /\ Reads

\* deleteCode when the mail could not be sent; the cooldown stays.
UnsetCode(r) ==
  /\ At(r, {"sendCode"}, "unset")
  /\ redis' = [redis EXCEPT !.code = None]
  /\ Go(r, "refused")
  /\ WritesRedis

-----------------------------------------------------------------------------
(* verify-code.                                                            *)

GetCode(r) ==
  /\ At(r, {"verifyCode"}, "getCode")
  /\ IF redis.code = None THEN Go(r, "refused") ELSE GoWith(r, "attempts", redis.code)
  /\ Reads

CountAttempt(r) ==
  /\ At(r, {"verifyCode"}, "attempts")
  /\ redis' = [redis EXCEPT !.attempts = @ + 1]
  /\ Go(r, IF redis.attempts + 1 <= MaxSignupAttempts /\ Got(r) = Arg(r)
           THEN "deleteCode" ELSE "refused")
  /\ WritesRedis

DeleteCode(r) ==
  /\ At(r, {"verifyCode"}, "deleteCode")
  /\ redis' = [redis EXCEPT !.code = None]
  /\ crossed' = (crossed \/ Midway # {r})
  /\ Go(r, "resetAttempts")
  /\ UNCHANGED <<user, keys, tokens, lock, newest, late, before, opened, page>>

ResetAttempts(r) ==
  /\ At(r, {"verifyCode"}, "resetAttempts")
  /\ redis' = [redis EXCEPT !.attempts = 0]
  /\ Go(r, "done")
  /\ WritesRedis

-----------------------------------------------------------------------------
(* complete-signup, and signup: the account, then a session.  The index on *)
(* users.email admits one row; a signed token may have expired.            *)

LookUpAccount(r) ==
  /\ At(r, {"completeSignup", "signup"}, "lookup")
  /\ \/ Go(r, IF Registered THEN "refused" ELSE "insert")
     \/ request[r].op = "completeSignup" /\ Go(r, "refused")
  /\ Reads

InsertUser(r) ==
  /\ At(r, {"completeSignup"}, "insert")
  /\ IF Registered THEN Go(r, "refused") /\ Reads
     ELSE Go(r, "cleanup") /\ Insert(NewUser(r, r, TRUE))

Cleanup(r) ==
  /\ At(r, {"completeSignup"}, "cleanup")
  /\ redis' = [redis EXCEPT !.code = None, !.attempts = 0, !.cooldown = FALSE]
  /\ crossed' = (crossed \/ Midway # {r})
  /\ Go(r, "key")
  /\ UNCHANGED <<user, keys, tokens, lock, newest, late, before, opened, page>>

\* signup: a mail that cannot be sent is logged.
InsertUnverified(r) ==
  /\ At(r, {"signup"}, "insert")
  /\ IF Registered THEN Go(r, "refused") /\ Reads
     ELSE Go(r, "key") /\ Insert([NewUser(r, r, FALSE) EXCEPT !.mailCode = r])

-----------------------------------------------------------------------------
(* verify-email and resend-verification.                                   *)

\* The code of the row, entered rightly, before it expires.
ReadForVerifying(r) ==
  /\ At(r, {"verifyEmail"}, "read")
  /\ \/ Go(r, "refused")
     \/ Registered /\ user.verified /\ Go(r, "done")
     \/ Registered /\ ~user.verified /\ user.mailCode # None /\ Go(r, "update")
  /\ Reads

MarkVerified(r) ==
  /\ At(r, {"verifyEmail"}, "update")
  /\ WritesUser([user EXCEPT !.verified = TRUE, !.mailCode = None])
  /\ ThenRevoke(r)

ReadForResending(r) ==
  /\ At(r, {"resendVerification"}, "read")
  /\ Go(r, IF Registered /\ ~user.verified THEN "update" ELSE "done")
  /\ Reads

\* Then the mail: whether it was sent is not looked at.
NewMailCode(r) ==
  /\ At(r, {"resendVerification"}, "update")
  /\ WritesUser([user EXCEPT !.mailCode = r])
  /\ Go(r, "done")
  /\ UNCHANGED before

SignUpSteps(r) ==
  \/ HandleEmail(r) \/ HandleResend(r) \/ HandleCode(r) \/ HandlePassword(r)
  \/ Ask(r, "signup", None, "lookup")
  \/ Ask(r, "verifyEmail", None, "read")
  \/ Ask(r, "resendVerification", None, "read")
  \/ LookUpForCode(r) \/ CheckResendCooldown(r) \/ SetCode(r)
  \/ SetResendCooldown(r) \/ MailCode(r) \/ UnsetCode(r)
  \/ GetCode(r) \/ CountAttempt(r) \/ DeleteCode(r) \/ ResetAttempts(r)
  \/ LookUpAccount(r) \/ InsertUser(r) \/ Cleanup(r) \/ InsertUnverified(r)
  \/ ReadForVerifying(r) \/ MarkVerified(r)
  \/ ReadForResending(r) \/ NewMailCode(r)
=============================================================================
