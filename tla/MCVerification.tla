--------------------------- MODULE MCVerification ---------------------------
(* Instances of Verification for TLC, and what the code does not live up to. *)
EXTENDS Verification, TLC

CONSTANTS n1, e1, e2  \* usernames and emails

(* Two that want one username. *)
RivalForms == {[username |-> n1, email |-> e1], [username |-> n1, email |-> e2]}

OneForm == {[username |-> n1, email |-> e1]}

(* An invitation for a user, signed with the same secret, and a forgery. *)
OtherTokens ==
  {[user |-> n1, to |-> e1, exp |-> MaxClock + Lifetime,
    verification |-> signed = FALSE, signed |-> signed] : signed \in BOOLEAN}

CallSymmetry == Permutations(SignUps) \cup Permutations(Verifies)

-----------------------------------------------------------------------------
(* "this url will be saved on redis awaiting for its confirmation"           *)
(* (auth.service.ts:293-294): a mailed url of an account that still has to be *)
(* confirmed is not refused.                                                 *)
UrlAwaitsConfirmation ==
  \A v \in Verifies :
    outcome[v] = "InvalidVerificationToken" /\ input[v].token \in tokens =>
      OwnerOf(User(v)) \in verified
=============================================================================
