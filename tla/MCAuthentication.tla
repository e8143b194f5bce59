-------------------------- MODULE MCAuthentication --------------------------
(* Instances of Authentication for TLC.  All operations at once are too many *)
(* for three requests, so every behaviour offers those that meet each other. *)
EXTENDS Authentication, TLC

CONSTANTS r1, r2, r3, c1, c2

Row(password, verified, linked, secret) ==
  [by |-> Original, password |-> password, verified |-> verified,
   mailCode |-> IF verified THEN None ELSE Original, linked |-> linked,
   secret |-> secret, codes |-> secret,
   left |-> IF secret = None THEN {} ELSE RecoveryCodes]

Scenario(ops, row, session, pending) ==
  [ops |-> ops, user |-> row, session |-> session, pending |-> pending]

MCScenarios ==
  {Scenario({"sendCode", "verifyCode", "completeSignup", "oauth"}, None, FALSE, FALSE),
   Scenario({"sendCode", "verifyCode", "completeSignup"}, None, FALSE, TRUE),
   Scenario({"signup", "verifyEmail", "resendVerification", "login", "oauth"},
            None, FALSE, FALSE),
   Scenario({"verifyEmail", "resendVerification", "login", "logout", "oauth"},
            Row(Original, FALSE, FALSE, None), TRUE, FALSE),
   Scenario({"sendCode", "verifyEmail"}, Row(Original, FALSE, FALSE, None), FALSE, FALSE),
   Scenario({"login", "changePassword", "resetPassword"},
            Row(Original, TRUE, FALSE, None), TRUE, TRUE),
   Scenario({"setPassword", "changePassword", "resetPassword", "forgotPassword", "oauth"},
            Row(None, TRUE, TRUE, None), TRUE, TRUE),
   Scenario({"login", "totp", "changePassword"},
            Row(Original, TRUE, FALSE, Original), TRUE, FALSE),
   Scenario({"recovery", "regenerate", "disable"},
            Row(Original, TRUE, TRUE, Original), TRUE, TRUE),
   Scenario({"initSetup", "enable", "disable", "oauth"},
            Row(Original, TRUE, TRUE, None), TRUE, TRUE)}

Symmetry == Permutations(Requests) \union Permutations(RecoveryCodes)
=============================================================================
