------------------------------ MODULE TwoFactor ------------------------------
(***************************************************************************)
(* Two-factor authentication: setting it up, disabling it, new recovery    *)
(* codes, and the second half of a sign-in, by the code of the             *)
(* authenticator or by a recovery code (services/twoFactorService.ts,      *)
(* routes/auth.ts), with the dialogs that ask for it.                      *)
(***************************************************************************)
EXTENDS AuthStores

Enabled2FA == user # None /\ user.secret # None

\* checkAndIncrementVerifyAttempts: one script counts, then compares.
CountTry(k) == redis' = [redis EXCEPT !.tries[k] = @ + 1]
Allowed(k) == redis.tries[k] + 1 <= MaxVerifyAttempts
ResetTries(r, op, k) ==
  /\ At(r, {op}, "resetTries")
  /\ redis' = [redis EXCEPT !.tries[k] = 0]
  /\ WritesRedis

-----------------------------------------------------------------------------
(* The dialogs.  The authenticator knows the secret that is enabled, or    *)
(* the one that was just shown.                                            *)

HandleInitSetup(r) == user # None /\ Ask(r, "initSetup", None, "read")

Shown == {Original} \union {q \in Requests : At(q, {"initSetup"}, "done")}
HandleVerify(r) == \E secret \in Shown \union {Wrong} : Ask(r, "enable", secret, "getSetup")

Authenticator == {Wrong} \union IF Enabled2FA THEN {user.secret} ELSE {}
HandleDisable(r) ==
  /\ user # None
  /\ \E secret \in Authenticator : Ask(r, "disable", secret, "read")
HandleRegenerate(r) ==
  /\ user # None
  /\ \E secret \in Authenticator : Ask(r, "regenerate", secret, "read")

HandleTotp(r) == \E token \in redis.challenges : Ask(r, "totp", token, "getChallenge")
HandleRecovery(r) == \E token \in redis.challenges : Ask(r, "recovery", token, "getChallenge")

-----------------------------------------------------------------------------
(* setup/init and setup/verify.                                            *)

InitSetup(r) ==
  /\ At(r, {"initSetup"}, "read")
  /\ Go(r, IF Enabled2FA THEN "refused" ELSE "setCode")
  /\ Reads

SetSetupSecret(r) ==
  /\ At(r, {"initSetup"}, "setCode")
  /\ redis' = [redis EXCEPT !.setup = r]
  /\ Go(r, "done")
  /\ WritesRedis

GetSetupSecret(r) ==
  /\ At(r, {"enable"}, "getSetup")
  /\ IF redis.setup = None \/ user = None THEN Go(r, "refused")
     ELSE GoWith(r, "tries", redis.setup)
  /\ Reads

VerifySetup(r) ==
  /\ At(r, {"enable"}, "tries")
  /\ CountTry("setup")
  /\ Go(r, IF Allowed("setup") /\ Got(r) = Arg(r) THEN "update" ELSE "refused")
  /\ WritesRedis

Enable(r) ==
  /\ At(r, {"enable"}, "update")
  /\ WritesUser([user EXCEPT !.secret = Got(r), !.codes = r, !.left = RecoveryCodes])
  /\ Go(r, "deleteSetup")
  /\ UNCHANGED before

DeleteSetupSecret(r) ==
  /\ At(r, {"enable"}, "deleteSetup")
  /\ redis' = [redis EXCEPT !.setup = None]
  /\ Go(r, "resetTries")
  /\ WritesRedis

-----------------------------------------------------------------------------
(* disable and recovery-codes/regenerate: password and code are compared   *)
(* with what was read before the try was counted.                          *)

ReadSecret(r) ==
  /\ At(r, {"disable", "regenerate"}, "read")
  /\ IF Enabled2FA THEN GoWith(r, "tries", user.secret) ELSE Go(r, "refused")
  /\ Reads

VerifyChange(r, op, k) ==
  /\ At(r, {op}, "tries")
  /\ CountTry(k)
  /\ \/ Go(r, IF Allowed(k) /\ Got(r) = Arg(r) THEN "update" ELSE "refused")
     \/ Go(r, "refused")
  /\ WritesRedis

Disable(r) ==
  /\ At(r, {"disable"}, "update")
  /\ WritesUser([user EXCEPT !.secret = None, !.codes = None, !.left = {}])
  /\ Go(r, "resetTries")
  /\ UNCHANGED before

Regenerate(r) ==
  /\ At(r, {"regenerate"}, "update")
  /\ WritesUser([user EXCEPT !.codes = r, !.left = RecoveryCodes])
  /\ Go(r, "resetTries")
  /\ UNCHANGED before

-----------------------------------------------------------------------------
(* 2fa/verify and 2fa/verify-recovery: challenge, tries, the code, then    *)
(* the session.  Here the tries are read and counted by two commands.      *)

GetChallenge(r) ==
  /\ At(r, {"totp", "recovery"}, "getChallenge")
  /\ Go(r, IF Arg(r) \in redis.challenges THEN "checkTries" ELSE "refused")
  /\ Reads

CheckTries(r, op, k) ==
  /\ At(r, {op}, "checkTries")
  /\ Go(r, IF redis.tries[k] < MaxVerifyAttempts THEN "incTries" ELSE "refused")
  /\ Reads

IncrementTries(r, op, k, then) ==
  /\ At(r, {op}, "incTries")
  /\ CountTry(k)
  /\ Go(r, then)
  /\ WritesRedis

ReadTotpSecret(r) ==
  /\ At(r, {"totp"}, "read")
  /\ Go(r, IF Enabled2FA THEN "isUsed" ELSE "refused")
  /\ Reads

\* The code of the moment, unless it was used, or a wrong one.
IsCodeUsed(r) ==
  /\ At(r, {"totp"}, "isUsed")
  /\ \/ Go(r, IF redis.used THEN "refused" ELSE "markUsed")
     \/ Go(r, "refused")
  /\ Reads

MarkCodeUsed(r) ==
  /\ At(r, {"totp"}, "markUsed")
  /\ redis' = [redis EXCEPT !.used = TRUE]
  /\ Go(r, "deleteChallenge")
  /\ WritesRedis

\* Mutant: a SELECT without FOR UPDATE.
LocksNothing(r) == lock' = lock

\* SELECT ... FOR UPDATE waits for the row, and the codes are compared
\* while it is held; a code that does not match ends the transaction.
Locks(r) == lock = None /\ lock' = r
LockAndFind(r) ==
  /\ At(r, {"recovery"}, "lock")
  /\ \/ /\ Enabled2FA
        /\ Locks(r)
        /\ \E c \in user.left : GoWith(r, "remove", c)
     \/ /\ lock = None
        /\ Go(r, "refused")
        /\ UNCHANGED lock
  /\ UNCHANGED <<user, redis, keys, tokens, history, page>>

RemoveRecoveryCode(r) ==
  /\ At(r, {"recovery"}, "remove")
  /\ user' = [user EXCEPT !.left = @ \ {Got(r)}]
  /\ lock' = None
  /\ opened' = opened \union {<<r, user.codes, Got(r)>>}
  /\ Go(r, "deleteChallenge")
  /\ UNCHANGED <<redis, keys, tokens, newest, crossed, late, before, page>>

DeleteChallenge(r) ==
  /\ At(r, {"totp", "recovery"}, "deleteChallenge")
  /\ redis' = [redis EXCEPT !.challenges = @ \ {Arg(r)}]
  /\ Go(r, "resetTries")
  /\ WritesRedis

TwoFactorSteps(r) ==
  \/ HandleInitSetup(r) \/ HandleVerify(r) \/ HandleDisable(r) \/ HandleRegenerate(r)
  \/ HandleTotp(r) \/ HandleRecovery(r)
  \/ InitSetup(r) \/ SetSetupSecret(r)
  \/ GetSetupSecret(r) \/ VerifySetup(r) \/ Enable(r) \/ DeleteSetupSecret(r)
  \/ ReadSecret(r) \/ Disable(r) \/ Regenerate(r)
  \/ VerifyChange(r, "disable", "disable") \/ VerifyChange(r, "regenerate", "regen")
  \/ GetChallenge(r)
  \/ CheckTries(r, "totp", "login") \/ CheckTries(r, "recovery", "recovery")
  \/ IncrementTries(r, "totp", "login", "read")
  \/ IncrementTries(r, "recovery", "recovery", "lock")
  \/ ReadTotpSecret(r) \/ IsCodeUsed(r) \/ MarkCodeUsed(r)
  \/ LockAndFind(r) \/ RemoveRecoveryCode(r) \/ DeleteChallenge(r)
  \/ ResetTries(r, "enable", "setup") /\ Go(r, "done")
  \/ ResetTries(r, "disable", "disable") /\ Go(r, "done")
  \/ ResetTries(r, "regenerate", "regen") /\ Go(r, "done")
  \/ ResetTries(r, "totp", "login") /\ Go(r, "key")
  \/ ResetTries(r, "recovery", "recovery") /\ Go(r, "key")
=============================================================================
