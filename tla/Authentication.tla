--------------------------- MODULE Authentication ---------------------------
(***************************************************************************)
(* Sign-up, sign-in and two-factor authentication of one account together: *)
(* requests of all three run at the same time on the same row and keys,    *)
(* statements throw, and what Redis keeps for a while expires.             *)
(***************************************************************************)
EXTENDS SignUp, SignIn, TwoFactor

\* The time to live of a key is over.  Sessions live for a week and stay.
Expire ==
  /\ redis' \in {[redis EXCEPT !.code = None], [redis EXCEPT !.attempts = 0],
                 [redis EXCEPT !.cooldown = FALSE], [redis EXCEPT !.failures = 0],
                 [redis EXCEPT !.setup = None], [redis EXCEPT !.used = FALSE]}
                \union {[redis EXCEPT !.challenges = @ \ {q}] : q \in redis.challenges}
                \union {[redis EXCEPT !.resets = @ \ {q}] : q \in redis.resets}
                \union {[redis EXCEPT !.tries[k] = 0] : k \in Counters}
  /\ redis' # redis
  /\ crossed' = (crossed \/ (redis'.code # redis.code /\ Midway # {}))
  /\ UNCHANGED <<user, keys, tokens, lock, request, newest, late, before, opened, page>>

Next ==
  \/ \E r \in Requests :
       \/ SignUpSteps(r) \/ SignInSteps(r) \/ TwoFactorSteps(r)
       \/ StoreKey(r) \/ StoreMember(r) \/ CheckStored(r)
       \/ RevokeMembers(r) \/ RevokeKeys(r)
       \/ Throws(r)
  \/ TakeAnswer \/ Reload \/ BackToEmail
  \/ Expire

Spec == Init /\ [][Next]_vars

-----------------------------------------------------------------------------
\* "Logout from all devices" (password.ts, verification.ts): once a request
\* that changed the password or verified the address is answered, nobody who
\* was signed in, or let in, when the row was written still is; but for those
\* whose token was being stored while the revocation ran, which read the ids
\* first and deleted the whole set after (redis.ts).
SessionsEnd ==
  \A r \in Requests :
    request[r].at = "done" => before[r] \intersect Sessions \subseteq late

\* A recovery code lets one request in, however many enter it at a time, and
\* whatever else writes the row while its hashes are compared
\* (twoFactorService.ts, "prevent concurrent double-use").
RecoveryCodeOnce ==
  \A x, y \in opened : (x[2] = y[2] /\ x[3] = y[3]) => x[1] = y[1]

\* The code that is in force is that of the mail that came last, or of one
\* that is being sent.  A resend that is refused leaves the mailed code in
\* force; one that goes on takes it out of force before its own mail is sent,
\* and when that fails, leaves none: never a code that nobody was sent, or
\* that of an older mail (verification.ts).  Not so once a code was set, used,
\* or expired while another request about it was between two statements, or a
\* statement threw between storing a code and mailing it.
NewestInForce ==
  (~crossed /\ redis.code # None) => redis.code \in {newest} \union Sending
=============================================================================
