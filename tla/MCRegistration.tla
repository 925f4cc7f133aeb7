--------------------------- MODULE MCRegistration ---------------------------
(* Instances of Registration for TLC, and what the code does not live up to. *)
EXTENDS Registration, TLC

CONSTANTS n1, n2, e1, e2  \* usernames and emails

Form(n, e, ok) ==
  [username |-> [id |-> n, len |-> 4, chars |-> "word"],
   email |-> [id |-> e, wellFormed |-> ok],
   password |-> 8, name |-> "text", token |-> "none"]

(* Every way two calls can meet: same both, same name, same email, neither; *)
(* and one form both mutations refuse.                                      *)
RivalForms == {Form(n1, e1, TRUE), Form(n1, e2, TRUE), Form(n2, e1, TRUE),
               Form(n1, e1, FALSE)}

(* Two that clash, for the runs with liveness. *)
ClashingForms == {Form(n1, e1, TRUE), Form(n1, e2, TRUE)}

AllCodes == SignupGrants
NoSignInCode == SignupGrants \ {"SIGN_IN"}

CallSymmetry == Permutations(SignUps)

-----------------------------------------------------------------------------
(* "should throw `UserWasNotCreatedAuthError` when there are problems while  *)
(* creating the user" (auth.service.spec.ts:162): once complete() has run to *)
(* its end, its promise is settled.                                          *)
ProblemsAreReported ==
  \A r \in SignUps : phase[r] = "closed" => promise[r] # "pending"

(* "an email should be sent when user was registered with success"           *)
(* (auth.service.spec.ts:331).                                               *)
SuccessMeansMail == \A r \in SignUps : outcome[r] = "ok" => mail[r] # "lost"
=============================================================================
