---------------------------- MODULE Verification ----------------------------
(***************************************************************************)
(* What becomes of an account once it is open: the link mailed to its      *)
(* owner, AuthService.verify (the verifyEmail mutation) and                *)
(* AuthService.authenticate (the signIn mutation), called concurrently.    *)
(* Accounts open as AtomicSignup says, which Registration implements, and  *)
(* go on opening meanwhile.  Every await is a step boundary.  The queries   *)
(* here are single statements that take and return a connection each, so   *)
(* the pool is left out.                                                   *)
(***************************************************************************)
EXTENDS Naturals

CONSTANTS SignUps, Creates, Forms, NoForm,  \* as in Registration
          Verifies, SignIns,  \* the calls of verify and of authenticate
          Foreign,            \* tokens that no mail of this program carried
          NoInput, Lifetime,  \* ticks a token lives: expiresIn '60s'
          MaxClock, MaxFaults

ASSUME CallsAssumption ==
  SignUps \cap Creates = {} /\ Verifies \cap SignIns = {} /\ NoForm \notin Forms
ASSUME BoundsAssumption == Lifetime \in Nat /\ MaxClock \in Nat /\ MaxFaults \in Nat

VARIABLES claim, accounts, reply,  \* AtomicSignup's
          clock,     \* what jsonwebtoken compares exp with
          tokens,    \* those mailed
          verified,  \* the calls whose account has verified_email set
          banned,    \* those whose account is not active
          pc,        \* where each call of this module stands
          input,     \* what it was called with, and what was so at that time
          seen,      \* the row authenticate() read
          outcome,   \* what the caller was told
          faults

avars == <<claim, accounts, reply>>
vars  == <<claim, accounts, reply, clock, tokens, verified, banned,
           pc, input, seen, outcome, faults>>

A == INSTANCE AtomicSignup WITH
  Calls <- SignUps \cup Creates, Unsure <- Creates,
  Grants <- [c \in SignUps \cup Creates |-> {}]

Calls     == Verifies \cup SignIns
Usernames == {f.username : f \in Forms}

PCs == {"idle", "find", "update", "reread", "read", "compare", "done", "dead"}

Outcomes == {"none", "verified", "InvalidVerificationToken", "UserAlreadyVerified",
             "ok", "UserNotFound", "InvalidCredentials", "UserNotVerified",
             "UserIsBanned", "QueryFailed"}

Tokens == [user : Usernames, to : {f.email : f \in Forms}, exp : 0..MaxClock + Lifetime,
           verification : BOOLEAN, signed : BOOLEAN]

ASSUME ForeignAssumption ==
  Foreign \subseteq Tokens /\ \A t \in Foreign : ~(t.signed /\ t.verification)
ASSUME InputAssumption == NoInput \notin [token : Tokens, at : 0..MaxClock]

TypeOK ==
  /\ clock \in 0..MaxClock /\ faults \in 0..MaxFaults
  /\ tokens \subseteq Tokens
  /\ verified \subseteq SignUps \cup Creates
  /\ banned \subseteq SignUps \cup Creates
  /\ pc \in [Calls -> PCs]
  /\ \A v \in Verifies :
       input[v] = NoInput \/ input[v] \in [token : Tokens, at : 0..MaxClock]
  /\ \A s \in SignIns :
       input[s] = NoInput \/ input[s] \in [user : Usernames, right : BOOLEAN,
                                           told : BOOLEAN, barred : BOOLEAN]
  /\ seen \in [SignIns -> [verified : BOOLEAN, active : BOOLEAN]]
  /\ outcome \in [Calls -> Outcomes]

Init ==
  /\ A!Init
  /\ clock = 0 /\ faults = 0
  /\ tokens = {} /\ verified = {} /\ banned = {}
  /\ pc = [c \in Calls |-> "idle"]
  /\ input = [c \in Calls |-> NoInput]
  /\ seen = [s \in SignIns |-> [verified |-> FALSE, active |-> TRUE]]
  /\ outcome = [c \in Calls |-> "none"]

Goto(c, step) == pc' = [pc EXCEPT ![c] = step]

Tell(c, what) == Goto(c, "done") /\ outcome' = [outcome EXCEPT ![c] = what]

Fault == faults < MaxFaults /\ faults' = faults + 1

HasAccount(user) == \E a \in accounts : a.username = user

(* The call that opened the account of that username: there is only one. *)
OwnerOf(user) == (CHOOSE a \in accounts : a.username = user).owner

-----------------------------------------------------------------------------
(* Accounts open, and their mails leave. *)

OpenAccounts ==
  /\ A!Next
  /\ UNCHANGED <<clock, tokens, verified, banned, pc, input, seen, outcome, faults>>

Link(r) == [user |-> claim[r].username, to |-> claim[r].email,
            exp |-> clock + Lifetime, verification |-> TRUE, signed |-> TRUE]

Mailed(r) == \E t \in tokens : t.to = claim[r].email /\ t.user = claim[r].username

(* Mistake: the mail leaves before the account is decided. *)
SendMail_Eager(r) ==
  /\ claim[r] # NoForm /\ reply[r] = "none" /\ ~Mailed(r)
  /\ tokens' = tokens \cup {Link(r)}
  /\ UNCHANGED <<avars, clock, verified, banned, pc, input, seen, outcome, faults>>

(* createConfirmationUrl() and the mail, before register() answers.  A mail *)
(* that is lost, or never sent, is one whose token nobody presents.         *)
SendMail(r) ==
  /\ A!Opened(r) /\ reply[r] = "none" /\ ~Mailed(r)
  /\ tokens' = tokens \cup {Link(r)}
  /\ UNCHANGED <<avars, clock, verified, banned, pc, input, seen, outcome, faults>>

-----------------------------------------------------------------------------
(* verify(): the token is checked at once, then the user is looked up. *)

(* Mistake: exp is compared the wrong way round. *)
Valid_Reversed(t) == t.signed /\ clock >= t.exp

Valid(t) == t.signed /\ clock < t.exp

VerifyCalled(v) ==
  /\ pc[v] = "idle"
  /\ \E t \in tokens \cup Foreign :
       /\ input' = [input EXCEPT ![v] = [token |-> t, at |-> clock]]
       /\ \/ Valid(t) /\ Goto(v, "find") /\ UNCHANGED outcome
          \/ ~Valid(t) /\ Tell(v, "InvalidVerificationToken")
  /\ UNCHANGED <<avars, clock, tokens, verified, banned, seen, faults>>

User(v) == input[v].token.user

(* Mistake: verify() does not check that the user exists. *)
VerifyFinds_NoNullCheck(v) ==
  /\ pc[v] = "find"
  /\ \/ ~HasAccount(User(v)) /\ Tell(v, "TypeError")
     \/ HasAccount(User(v)) /\ ~input[v].token.verification /\ Tell(v, "InvalidVerificationToken")
     \/ HasAccount(User(v)) /\ input[v].token.verification
        /\ IF OwnerOf(User(v)) \in verified
           THEN Tell(v, "UserAlreadyVerified")
           ELSE Goto(v, "update") /\ UNCHANGED outcome
  /\ UNCHANGED <<avars, clock, tokens, verified, banned, input, seen, faults>>

VerifyFinds(v) ==
  /\ pc[v] = "find"
  /\ LET good == HasAccount(User(v)) /\ input[v].token.verification
     IN  \/ ~good /\ Tell(v, "InvalidVerificationToken")
         \/ /\ good /\ OwnerOf(User(v)) \in verified
            /\ Tell(v, "UserAlreadyVerified")
         \/ /\ good /\ OwnerOf(User(v)) \notin verified
            /\ Goto(v, "update") /\ UNCHANGED outcome
  /\ UNCHANGED <<avars, clock, tokens, verified, banned, input, seen, faults>>

(* Mistake: the update is not awaited, and the answer overtakes it. *)
VerifyUpdates_NotAwaited(v) ==
  /\ pc[v] = "update" /\ Goto(v, "reread")
  /\ UNCHANGED <<avars, clock, tokens, verified, banned, input, seen, outcome, faults>>

(* UsersService.update: the UPDATE, then the row is read again. *)
VerifyUpdates(v) ==
  /\ pc[v] = "update"
  /\ verified' = verified \cup {OwnerOf(User(v))}
  /\ Goto(v, "reread")
  /\ UNCHANGED <<avars, clock, tokens, banned, input, seen, outcome, faults>>

VerifyReturns(v) ==
  /\ pc[v] = "reread" /\ Tell(v, "verified")
  /\ UNCHANGED <<avars, clock, tokens, verified, banned, input, seen, faults>>

-----------------------------------------------------------------------------
(* authenticate(): the row is read, the password compared, the row judged. *)

(* Some call was already answered that this user is verified. *)
ToldVerified(user) ==
  \E v \in Verifies : /\ outcome[v] \in {"verified", "UserAlreadyVerified"}
                      /\ User(v) = user

SignInCalled(s) ==
  /\ pc[s] = "idle"
  /\ \E user \in Usernames, right \in BOOLEAN :
       input' = [input EXCEPT ![s] =
         [user |-> user, right |-> right, told |-> ToldVerified(user),
          barred |-> HasAccount(user) /\ OwnerOf(user) \in banned]]
  /\ Goto(s, "read")
  /\ UNCHANGED <<avars, clock, tokens, verified, banned, seen, outcome, faults>>

SignInReads(s) ==
  /\ pc[s] = "read"
  /\ LET user == input[s].user
     IN  \/ /\ ~HasAccount(user)
            /\ Tell(s, "UserNotFound") /\ UNCHANGED seen
         \/ /\ HasAccount(user)
            /\ seen' = [seen EXCEPT ![s] = [verified |-> OwnerOf(user) \in verified,
                                            active   |-> OwnerOf(user) \notin banned]]
            /\ Goto(s, "compare") /\ UNCHANGED outcome
  /\ UNCHANGED <<avars, clock, tokens, verified, banned, input, faults>>

(* Mistake: the ban is looked at only when the user is not verified. *)
Judged_BanMissed(right, user) ==
  CASE ~right                          -> "InvalidCredentials"
    [] right /\ user.verified          -> "ok"
    [] right /\ ~user.verified         -> IF user.active THEN "UserNotVerified" ELSE "UserIsBanned"

Judged(right, user) ==
  CASE ~right                                     -> "InvalidCredentials"
    [] right /\ ~user.verified                    -> "UserNotVerified"
    [] right /\ user.verified /\ ~user.active     -> "UserIsBanned"
    [] right /\ user.verified /\ user.active      -> "ok"

SignInCompares(s) ==
  /\ pc[s] = "compare" /\ Tell(s, Judged(input[s].right, seen[s]))
  /\ UNCHANGED <<avars, clock, tokens, verified, banned, input, seen, faults>>

-----------------------------------------------------------------------------
(* The environment. *)

Tick ==
  /\ clock < MaxClock /\ clock' = clock + 1
  /\ UNCHANGED <<avars, tokens, verified, banned, pc, input, seen, outcome, faults>>

(* An operator clears the active flag; nothing in the program sets it again. *)
Ban(c) ==
  /\ A!Opened(c) /\ c \notin banned
  /\ banned' = banned \cup {c}
  /\ UNCHANGED <<avars, clock, tokens, verified, pc, input, seen, outcome, faults>>

(* A query fails.  An UPDATE whose answer is lost has taken effect. *)
QueryFails(c) ==
  /\ pc[c] \in {"find", "update", "reread", "read"} /\ Fault
  /\ Tell(c, "QueryFailed")
  /\ UNCHANGED <<avars, clock, tokens, verified, banned, input, seen>>

(* The process dies: the calls under way are never answered. *)
Crash ==
  /\ Fault
  /\ pc' = [c \in Calls |-> IF pc[c] \in {"idle", "done"} THEN pc[c] ELSE "dead"]
  /\ UNCHANGED <<avars, clock, tokens, verified, banned, input, seen, outcome>>

-----------------------------------------------------------------------------
VerifyStep(v) == VerifyFinds(v) \/ VerifyUpdates(v) \/ VerifyReturns(v)
SignInStep(s) == SignInReads(s) \/ SignInCompares(s)

Next ==
  \/ OpenAccounts \/ Tick \/ Crash
  \/ \E r \in SignUps : SendMail(r)
  \/ \E c \in SignUps \cup Creates : Ban(c)
  \/ \E v \in Verifies : VerifyCalled(v) \/ VerifyStep(v) \/ QueryFails(v)
  \/ \E s \in SignIns : SignInCalled(s) \/ SignInStep(s) \/ QueryFails(s)

SafeSpec == Init /\ [][Next]_vars

(* Every await of a call ends; nobody has to call, and no mail to arrive. *)
Fairness ==
  /\ \A v \in Verifies : WF_vars(VerifyStep(v))
  /\ \A s \in SignIns : WF_vars(SignInStep(s))

Spec == SafeSpec /\ Fairness

-----------------------------------------------------------------------------
(* Properties. *)

(* The call presented, in time, a link that was mailed. *)
InTime(v) == /\ input[v] # NoInput
             /\ input[v].token \in tokens /\ input[v].at < input[v].token.exp

(* An account is verified only if somebody presented, in time, a link that   *)
(* was mailed to the email of that very account: not to a rival's who asked  *)
(* for the same username (auth.service.ts:255-290).  So accounts of the      *)
(* create mutation, which sends no mail, are never verified.                 *)
VerifiedByOwner ==
  \A c \in verified : \E v \in Verifies :
    InTime(v) /\ User(v) = claim[c].username /\ input[v].token.to = claim[c].email

(* Whoever signs in has an open account, verified through its own email,     *)
(* and was not banned when the call was made, though a ban may come after    *)
(* the row was read (auth.service.ts:67-99).                                 *)
OnlyTheRightSignIn ==
  \A s \in SignIns : outcome[s] = "ok" =>
    /\ input[s].right /\ ~input[s].barred
    /\ HasAccount(input[s].user) /\ OwnerOf(input[s].user) \in verified

(* Once a caller was told that a user is verified, no sign-in made later     *)
(* says that he is not, or that he does not exist, whatever fails or is      *)
(* verified twice in between (auth.service.ts:285-289, users.service.ts:52). *)
ToldMeansVerified ==
  \A s \in SignIns : input[s] # NoInput /\ input[s].told =>
    outcome[s] \notin {"UserNotVerified", "UserNotFound"}

(* Whoever presents a mailed link in time gets his account verified, however *)
(* many calls do so at once, unless there is a fault (auth.service.ts:255).   *)
InTimeVerifies ==
  \A v \in Verifies :
    InTime(v) ~> \/ faults > 0
                 \/ InTime(v) /\ \E c \in verified : claim[c].username = User(v)
=============================================================================
