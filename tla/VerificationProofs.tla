-------------------------- MODULE VerificationProofs --------------------------
(***************************************************************************)
(* What Verification says of links and sign-ins, proved for any number of  *)
(* sign-ups, verifications, sign-ins, usernames, ticks and faults.         *)
(*                                                                         *)
(* The argument: an account, a mailed link, a verification and a ban stay  *)
(* (Grows), and a username has one owner for ever (OwnersStay).  So what a *)
(* call found at one of its awaits is still so when it answers, whatever   *)
(* the others did in between; LinkInv, VerifyInv and SignInInv say what    *)
(* each has found where it stands.                                         *)
(***************************************************************************)
EXTENDS Verification, TLAPS

Signers == SignUps \cup Creates

VerifyInputs == [token : Tokens, at : 0..MaxClock]
SignInInputs == [user : Usernames, right : BOOLEAN, told : BOOLEAN, barred : BOOLEAN]

Typed ==
  /\ TypeOK
  /\ input \in [Calls -> {NoInput} \cup VerifyInputs \cup SignInInputs]

(* An account is under the username its owner claimed, and alone there. *)
AccountsInv ==
  /\ claim \in [Signers -> Forms \cup {NoForm}]
  /\ \A a \in accounts : /\ a.owner \in Signers /\ claim[a.owner] # NoForm
                         /\ a.username = claim[a.owner].username
  /\ \A a, b \in accounts : a.username = b.username => a = b

(* The user of that name has an account, in the set of calls given. *)
Owned(user, set) == HasAccount(user) /\ OwnerOf(user) \in set

(* A mailed link is for an account, and went to the email of its owner. *)
LinkInv(t) == Owned(t.user, Signers) /\ t.to = claim[OwnerOf(t.user)].email

(* Somebody presented in time a link that was mailed to c about his account. *)
Justified(c) ==
  \E v \in Verifies :
    InTime(v) /\ User(v) = claim[c].username /\ input[v].token.to = claim[c].email

VerifyInv(v) ==
  /\ pc[v] = "idle" => input[v] = NoInput
  /\ pc[v] # "done" => outcome[v] = "none"
  /\ pc[v] # "idle" => input[v] \in VerifyInputs
  /\ pc[v] \in {"find", "update"} =>
       /\ input[v].token \in tokens \cup Foreign
       /\ input[v].token.signed /\ input[v].at < input[v].token.exp
  /\ pc[v] = "update" => input[v].token.verification /\ HasAccount(User(v))
  /\ pc[v] = "reread" \/ outcome[v] \in {"verified", "UserAlreadyVerified"} =>
       Owned(User(v), verified)

SignInInv(s) ==
  /\ pc[s] = "idle" => input[s] = NoInput
  /\ pc[s] # "done" => outcome[s] = "none"
  /\ pc[s] # "idle" =>
       /\ input[s] \in SignInInputs
       /\ input[s].told => Owned(input[s].user, verified)
       /\ input[s].barred => Owned(input[s].user, banned)
  /\ pc[s] = "compare" =>
       /\ HasAccount(input[s].user)
       /\ seen[s].verified => Owned(input[s].user, verified)
       /\ input[s].told => seen[s].verified
       /\ input[s].barred => ~seen[s].active
  /\ outcome[s] = "ok" => /\ input[s].right /\ ~input[s].barred
                          /\ Owned(input[s].user, verified)
  /\ outcome[s] \in {"UserNotVerified", "UserNotFound"} => ~input[s].told

LinksInv == /\ \A t \in tokens : LinkInv(t)
            /\ \A c \in verified : claim[c] # NoForm /\ Justified(c)

CallsInv == /\ \A v \in Verifies : VerifyInv(v)
            /\ \A s \in SignIns : SignInInv(s)

IInv == Typed /\ AccountsInv /\ LinksInv /\ CallsInv
-----------------------------------------------------------------------------
(* Who owns a username. *)

LEMMA TheOne ==
  ASSUME NEW S, NEW a \in S, NEW user, a.username = user,
         \A x, y \in S : x.username = y.username => x = y
  PROVE  (CHOOSE x \in S : x.username = user) = a
  OBVIOUS

LEMMA OwnerIs ==
  ASSUME AccountsInv, NEW a \in accounts
  PROVE  OwnerOf(a.username) = a.owner
<1>1. (CHOOSE x \in accounts : x.username = a.username) = a
  BY TheOne DEF AccountsInv
<1> QED
  BY <1>1 DEF OwnerOf

LEMMA OwnerClaims ==
  ASSUME AccountsInv, NEW user, HasAccount(user)
  PROVE  /\ OwnerOf(user) \in Signers /\ claim[OwnerOf(user)] # NoForm
         /\ claim[OwnerOf(user)].username = user
<1>1. PICK a \in accounts : a.username = user
  BY DEF HasAccount
<1>2. OwnerOf(user) = a.owner
  BY <1>1, OwnerIs
<1> QED
  BY <1>1, <1>2 DEF AccountsInv

LEMMA OpenedOwns ==
  ASSUME AccountsInv, NEW c \in Signers, A!Opened(c)
  PROVE  /\ HasAccount(claim[c].username) /\ OwnerOf(claim[c].username) = c
         /\ claim[c] \in Forms
<1>1. PICK a \in accounts : a.owner = c
  BY DEF A!Opened
<1>2. a.username = claim[c].username /\ claim[c] # NoForm
  BY <1>1 DEF AccountsInv
<1> QED
  BY <1>1, <1>2, OwnerIs DEF HasAccount, AccountsInv

(* What is never undone. *)
Grows ==
  /\ \A c \in Signers : claim[c] # NoForm => claim'[c] = claim[c]
  /\ accounts \subseteq accounts'
  /\ tokens \subseteq tokens' /\ verified \subseteq verified' /\ banned \subseteq banned'

(* A name that has an owner keeps that one. *)
OwnersStay ==
  \A user : HasAccount(user) => HasAccount(user)' /\ OwnerOf(user)' = OwnerOf(user)

LEMMA OwnersEndure ==
  ASSUME AccountsInv, AccountsInv', accounts \subseteq accounts'
  PROVE  OwnersStay
<1> SUFFICES ASSUME NEW user, HasAccount(user)
             PROVE  HasAccount(user)' /\ OwnerOf(user)' = OwnerOf(user)
  BY DEF OwnersStay
<1>1. PICK a \in accounts : a.username = user
  BY DEF HasAccount
<1>2. OwnerOf(user) = a.owner
  BY <1>1, OwnerIs
<1>3. a \in accounts'
  OBVIOUS
<1>4. (CHOOSE x \in accounts' : x.username = user) = a
  BY <1>1, <1>3, TheOne DEF AccountsInv
<1>5. OwnerOf(user)' = a.owner
  BY <1>4 DEF OwnerOf
<1> QED
  BY <1>1, <1>2, <1>3, <1>5 DEF HasAccount

-----------------------------------------------------------------------------
(* Accounts open. *)

LEMMA OpeningGrows ==
  ASSUME AccountsInv, A!Next, UNCHANGED <<tokens, verified, banned>>
  PROVE  Grows /\ AccountsInv'
<1>0. /\ claim \in [Signers -> Forms \cup {NoForm}]
      /\ \A a \in accounts : /\ a.owner \in Signers /\ claim[a.owner] # NoForm
                             /\ a.username = claim[a.owner].username
      /\ \A a, b \in accounts : a.username = b.username => a = b
  BY DEF AccountsInv
<1>1. PICK c \in Signers : A!Ask(c) \/ A!Turn(c) \/ A!Open(c) \/ A!Answer(c)
  BY DEF A!Next, Signers
<1>2. CASE A!Ask(c) \/ A!Turn(c)
  <2>1. PICK f \in Forms : claim' = [claim EXCEPT ![c] = f]
    BY <1>2 DEF A!Ask, A!Turn
  <2>2. claim[c] = NoForm /\ accounts' = accounts
    BY <1>2 DEF A!Ask, A!Turn
  <2>3. \A d \in Signers : claim[d] # NoForm => claim'[d] = claim[d]
    BY <1>0, <2>1, <2>2
  <2>4. claim' \in [Signers -> Forms \cup {NoForm}]
    BY <1>0, <2>1
  <2>5. \A a \in accounts' : claim'[a.owner] = claim[a.owner]
    BY <1>0, <2>2, <2>3
  <2> QED
    BY <1>0, <2>2, <2>3, <2>4, <2>5 DEF Grows, AccountsInv
<1>3. CASE A!Open(c)
  <2>1. /\ claim[c] # NoForm /\ claim' = claim
        /\ accounts' = accounts \cup {A!Account(c)}
        /\ \A a \in accounts : a.username # claim[c].username
    BY <1>3 DEF A!Open
  <2>2. A!Account(c).owner = c /\ A!Account(c).username = claim[c].username
    BY DEF A!Account
  <2>3. \A a, b \in accounts' : a.username = b.username => a = b
    BY <1>0, <2>1, <2>2
  <2> QED
    BY <1>0, <2>1, <2>2, <2>3 DEF Grows, AccountsInv
<1>4. CASE A!Answer(c)
  BY <1>0, <1>4 DEF A!Answer, Grows, AccountsInv
<1> QED
  BY <1>1, <1>2, <1>3, <1>4

(* Every step is of one of these kinds. *)
Environment ==
  \/ OpenAccounts \/ Tick \/ UNCHANGED vars
  \/ \E r \in SignUps : SendMail(r)
  \/ \E c \in Signers : Ban(c)

LEMMA Steps ==
  ASSUME [Next]_vars
  PROVE  \/ Environment \/ Crash
         \/ \E v \in Verifies : VerifyCalled(v) \/ VerifyStep(v) \/ QueryFails(v)
         \/ \E s \in SignIns : SignInCalled(s) \/ SignInStep(s) \/ QueryFails(s)
  BY DEF Next, Environment, Signers

LEMMA EnvironmentGrows ==
  ASSUME AccountsInv, Environment
  PROVE  Grows /\ AccountsInv'
<1>1. CASE OpenAccounts
  BY <1>1, OpeningGrows DEF OpenAccounts
<1>2. CASE Tick \/ UNCHANGED vars \/ (\E r \in SignUps : SendMail(r)) \/ (\E c \in Signers : Ban(c))
  BY <1>2 DEF Tick, vars, avars, SendMail, Ban, Grows, AccountsInv
<1> QED
  BY <1>1, <1>2 DEF Environment

LEMMA StepGrows ==
  ASSUME AccountsInv, [Next]_vars
  PROVE  Grows /\ AccountsInv' /\ OwnersStay
<1>1. ASSUME Crash PROVE Grows /\ AccountsInv'
  <2>1. UNCHANGED <<claim, accounts, tokens, verified, banned>>
    BY <1>1 DEF Crash, avars
  <2> QED
    BY <2>1 DEF Grows, AccountsInv
<1>2. ASSUME NEW v \in Verifies, VerifyCalled(v) \/ VerifyStep(v) \/ QueryFails(v)
      PROVE  Grows /\ AccountsInv'
  BY <1>2 DEF VerifyCalled, VerifyStep, VerifyFinds, VerifyUpdates, VerifyReturns, QueryFails,
              avars, Grows, AccountsInv
<1>3. ASSUME NEW s \in SignIns, SignInCalled(s) \/ SignInStep(s) \/ QueryFails(s)
      PROVE  Grows /\ AccountsInv'
  BY <1>3 DEF SignInCalled, SignInStep, SignInReads, SignInCompares, QueryFails,
              avars, Grows, AccountsInv
<1>4. Grows /\ AccountsInv'
  BY <1>1, <1>2, <1>3, EnvironmentGrows, Steps
<1> QED
  BY <1>4, OwnersEndure DEF Grows

-----------------------------------------------------------------------------
(* What a call does to itself, and the others leave alone. *)

Untouched(c) ==
  /\ input'[c] = input[c] /\ outcome'[c] = outcome[c]
  /\ \/ pc'[c] = pc[c]
     \/ pc[c] \notin {"idle", "done"} /\ pc'[c] = "dead"

(* One call moves, and the others do not. *)
Moves(c) ==
  /\ \E step \in PCs : pc' = [pc EXCEPT ![c] = step]
  /\ input' = input \/ \E i \in VerifyInputs \cup SignInInputs : input' = [input EXCEPT ![c] = i]
  /\ outcome' = outcome \/ \E what \in Outcomes : outcome' = [outcome EXCEPT ![c] = what]

LEMMA MovesAlone ==
  ASSUME Typed, NEW c \in Calls, Moves(c)
  PROVE  /\ pc' \in [Calls -> PCs] /\ outcome' \in [Calls -> Outcomes]
         /\ input' \in [Calls -> {NoInput} \cup VerifyInputs \cup SignInInputs]
         /\ \A d \in Calls \ {c} : Untouched(d)
<1>0. /\ pc \in [Calls -> PCs] /\ outcome \in [Calls -> Outcomes]
      /\ input \in [Calls -> {NoInput} \cup VerifyInputs \cup SignInInputs]
  BY DEF Typed, TypeOK
<1>1. pc' \in [Calls -> PCs] /\ \A d \in Calls \ {c} : pc'[d] = pc[d]
  BY <1>0 DEF Moves
<1>2. outcome' \in [Calls -> Outcomes] /\ \A d \in Calls \ {c} : outcome'[d] = outcome[d]
  BY <1>0 DEF Moves
<1>3. /\ input' \in [Calls -> {NoInput} \cup VerifyInputs \cup SignInInputs]
      /\ \A d \in Calls \ {c} : input'[d] = input[d]
  BY <1>0 DEF Moves
<1> QED
  BY <1>1, <1>2, <1>3 DEF Untouched

LEMMA TellMoves ==
  ASSUME NEW c, NEW what \in Outcomes, Tell(c, what), UNCHANGED input
  PROVE  Moves(c)
  BY DEF Tell, Goto, Moves, PCs

LEMMA GotoMoves ==
  ASSUME NEW c, NEW step \in PCs, Goto(c, step), UNCHANGED <<input, outcome>>
  PROVE  Moves(c)
  BY DEF Goto, Moves

LEMMA VerifyMoves ==
  ASSUME Typed, NEW v \in Verifies, VerifyCalled(v) \/ VerifyStep(v) \/ QueryFails(v)
  PROVE  Moves(v)
<1>0. {"find", "update", "reread", "done"} \subseteq PCs /\ {"verified", "InvalidVerificationToken",
       "UserAlreadyVerified", "QueryFailed"} \subseteq Outcomes
  BY DEF PCs, Outcomes
<1>1. CASE VerifyCalled(v)
  <2>1. PICK t \in tokens \cup Foreign :
          /\ input' = [input EXCEPT ![v] = [token |-> t, at |-> clock]]
          /\ \/ Goto(v, "find") /\ UNCHANGED outcome
             \/ Tell(v, "InvalidVerificationToken")
    BY <1>1 DEF VerifyCalled
  <2>2. [token |-> t, at |-> clock] \in VerifyInputs
    BY ForeignAssumption DEF VerifyInputs, Typed, TypeOK
  <2> QED
    BY <1>0, <2>1, <2>2 DEF Moves, Goto, Tell
<1>2. CASE VerifyFinds(v)
  <2>1. /\ UNCHANGED input
        /\ \/ Tell(v, "InvalidVerificationToken") \/ Tell(v, "UserAlreadyVerified")
           \/ Goto(v, "update") /\ UNCHANGED outcome
    BY <1>2 DEF VerifyFinds
  <2> QED
    BY <1>0, <2>1, TellMoves, GotoMoves
<1>3. CASE VerifyUpdates(v) \/ VerifyReturns(v) \/ QueryFails(v)
  BY <1>0, <1>3, TellMoves, GotoMoves DEF VerifyUpdates, VerifyReturns, QueryFails
<1> QED
  BY <1>1, <1>2, <1>3 DEF VerifyStep

LEMMA JudgedOutcomes ==
  ASSUME NEW right \in BOOLEAN, NEW user \in [verified : BOOLEAN, active : BOOLEAN]
  PROVE  /\ Judged(right, user) \in Outcomes
         /\ Judged(right, user) = "ok" => right /\ user.verified /\ user.active
         /\ Judged(right, user) = "UserNotVerified" => ~user.verified
         /\ Judged(right, user) \notin {"verified", "UserAlreadyVerified", "UserNotFound"}
<1>1. CASE ~right
  BY <1>1 DEF Judged, Outcomes
<1>2. CASE right /\ ~user.verified
  BY <1>2 DEF Judged, Outcomes
<1>3. CASE right /\ user.verified /\ ~user.active
  BY <1>3 DEF Judged, Outcomes
<1>4. CASE right /\ user.verified /\ user.active
  BY <1>4 DEF Judged, Outcomes
<1> QED
  BY <1>1, <1>2, <1>3, <1>4

LEMMA SignInMoves ==
  ASSUME Typed, NEW s \in SignIns, SignInInv(s),
         SignInCalled(s) \/ SignInStep(s) \/ QueryFails(s)
  PROVE  Moves(s)
<1>0. {"read", "compare", "done"} \subseteq PCs /\ {"UserNotFound", "QueryFailed"} \subseteq Outcomes
  BY DEF PCs, Outcomes
<1>1. CASE SignInCalled(s)
  <2>1. PICK user \in Usernames, right \in BOOLEAN :
          input' = [input EXCEPT ![s] =
            [user |-> user, right |-> right, told |-> ToldVerified(user),
             barred |-> HasAccount(user) /\ OwnerOf(user) \in banned]]
    BY <1>1 DEF SignInCalled
  <2>2. ToldVerified(user) \in BOOLEAN /\ (HasAccount(user) /\ OwnerOf(user) \in banned) \in BOOLEAN
    BY DEF ToldVerified
  <2>3. [user |-> user, right |-> right, told |-> ToldVerified(user),
         barred |-> HasAccount(user) /\ OwnerOf(user) \in banned] \in SignInInputs
    BY <2>2 DEF SignInInputs
  <2> QED
    BY <1>0, <1>1, <2>1, <2>3 DEF SignInCalled, Moves, Goto
<1>2. CASE SignInReads(s)
  BY <1>0, <1>2, TellMoves, GotoMoves DEF SignInReads
<1>3. CASE SignInCompares(s)
  <2>1. input[s].right \in BOOLEAN /\ seen[s] \in [verified : BOOLEAN, active : BOOLEAN]
    BY <1>3 DEF SignInCompares, SignInInv, SignInInputs, Typed, TypeOK
  <2>2. Judged(input[s].right, seen[s]) \in Outcomes
    BY <2>1, JudgedOutcomes
  <2> QED
    BY <1>3, <2>2, TellMoves DEF SignInCompares
<1>4. CASE QueryFails(s)
  BY <1>0, <1>4, TellMoves DEF QueryFails
<1> QED
  BY <1>1, <1>2, <1>3, <1>4 DEF SignInStep

LEMMA EnvironmentLeaves ==
  ASSUME Typed, Environment \/ Crash
  PROVE  /\ input' = input /\ outcome' = outcome
         /\ pc' \in [Calls -> PCs]
         /\ \A c \in Calls : Untouched(c)
<1>1. CASE Environment
  BY <1>1 DEF Environment, OpenAccounts, Tick, vars, SendMail, Ban, Untouched, Typed, TypeOK
<1>2. CASE Crash
  <2>1. /\ pc' = [c \in Calls |-> IF pc[c] \in {"idle", "done"} THEN pc[c] ELSE "dead"]
        /\ UNCHANGED <<input, outcome>>
    BY <1>2 DEF Crash
  <2>2. pc' \in [Calls -> PCs]
    BY <2>1 DEF Typed, TypeOK, PCs
  <2> QED
    BY <2>1, <2>2 DEF Untouched
<1> QED
  BY <1>1, <1>2

-----------------------------------------------------------------------------
(* Types. *)

LEMMA TypedInit == Init => Typed /\ AccountsInv
<1> SUFFICES ASSUME Init PROVE Typed /\ AccountsInv
  OBVIOUS
<1>1. AccountsInv
  BY DEF Init, A!Init, AccountsInv, Signers
<1>2. Typed
  <2>1. /\ clock \in 0..MaxClock /\ faults \in 0..MaxFaults
        /\ tokens \subseteq Tokens /\ verified = {} /\ banned = {}
    BY BoundsAssumption DEF Init
  <2>2. pc \in [Calls -> PCs] /\ outcome \in [Calls -> Outcomes]
    BY DEF Init, PCs, Outcomes
  <2>3. /\ input \in [Calls -> {NoInput} \cup VerifyInputs \cup SignInInputs]
        /\ \A c \in Calls : input[c] = NoInput
    BY DEF Init
  <2>4. seen \in [SignIns -> [verified : BOOLEAN, active : BOOLEAN]]
    BY DEF Init
  <2> QED
    BY <2>1, <2>2, <2>3, <2>4 DEF Typed, TypeOK, Calls
<1> QED
  BY <1>1, <1>2

LEMMA LinkTypes ==
  ASSUME Typed, AccountsInv, NEW r \in SignUps, A!Opened(r)
  PROVE  Link(r) \in Tokens
<1>1. claim[r] \in Forms
  BY OpenedOwns DEF Signers
<1>2. clock + Lifetime \in 0..MaxClock + Lifetime
  BY BoundsAssumption DEF Typed, TypeOK
<1> QED
  BY <1>1, <1>2 DEF Link, Tokens, Usernames

LEMMA TypedNext ==
  ASSUME Typed, AccountsInv, CallsInv, [Next]_vars
  PROVE  Typed'
<1>0. /\ clock \in 0..MaxClock /\ faults \in 0..MaxFaults
      /\ tokens \subseteq Tokens /\ verified \subseteq Signers /\ banned \subseteq Signers
      /\ seen \in [SignIns -> [verified : BOOLEAN, active : BOOLEAN]]
  BY DEF Typed, TypeOK, Signers
<1> DEFINE Data == /\ clock \in 0..MaxClock /\ faults \in 0..MaxFaults
                   /\ tokens \subseteq Tokens /\ verified \subseteq Signers /\ banned \subseteq Signers
                   /\ seen \in [SignIns -> [verified : BOOLEAN, active : BOOLEAN]]
           Control == /\ pc \in [Calls -> PCs] /\ outcome \in [Calls -> Outcomes]
                      /\ input \in [Calls -> {NoInput} \cup VerifyInputs \cup SignInInputs]
           Inputs == /\ \A v \in Verifies : input[v] \in {NoInput} \cup VerifyInputs
                     /\ \A s \in SignIns : input[s] \in {NoInput} \cup SignInInputs
<1>1. Data' /\ Control' /\ Inputs' => Typed'
  BY DEF Typed, TypeOK, Signers, VerifyInputs, SignInInputs
<1>2. Control /\ Inputs
  BY DEF Typed, TypeOK, VerifyInputs, SignInInputs
<1>3. CASE Environment \/ Crash
  <2>1. Control' /\ Inputs'
    BY <1>2, <1>3, EnvironmentLeaves
  <2>2. CASE OpenAccounts \/ Tick \/ UNCHANGED vars \/ Crash
    BY <1>0, <1>1, <2>1, <2>2, BoundsAssumption DEF OpenAccounts, Tick, vars, Crash, Fault
  <2>3. ASSUME NEW r \in SignUps, SendMail(r) PROVE Data'
    BY <1>0, <2>3, LinkTypes DEF SendMail
  <2>4. ASSUME NEW c \in Signers, Ban(c) PROVE Data'
    BY <1>0, <2>4 DEF Ban
  <2> QED
    BY <1>1, <1>3, <2>1, <2>2, <2>3, <2>4 DEF Environment
<1>4. ASSUME NEW v \in Verifies, VerifyCalled(v) \/ VerifyStep(v) \/ QueryFails(v) PROVE Typed'
  <2>1. Moves(v) /\ Control' /\ \A d \in Calls \ {v} : Untouched(d)
    BY <1>4, VerifyMoves, MovesAlone DEF Calls
  <2>2. input' = input \/ input'[v] \in VerifyInputs
    <3>1. CASE VerifyCalled(v)
      <4>1. PICK t \in tokens \cup Foreign :
              input' = [input EXCEPT ![v] = [token |-> t, at |-> clock]]
        BY <3>1 DEF VerifyCalled
      <4>2. [token |-> t, at |-> clock] \in VerifyInputs
        BY <1>0, ForeignAssumption DEF VerifyInputs
      <4> QED
        BY <1>2, <4>1, <4>2 DEF Calls
    <3> QED
      BY <1>4, <3>1 DEF VerifyStep, VerifyFinds, VerifyUpdates, VerifyReturns, QueryFails
  <2>3. Inputs'
    BY <1>2, <2>1, <2>2, CallsAssumption DEF Untouched, Calls
  <2>4. CASE VerifyUpdates(v)
    <3>1. OwnerOf(User(v)) \in Signers
      BY <2>4, OwnerClaims DEF VerifyUpdates, CallsInv, VerifyInv
    <3> QED
      BY <1>0, <1>1, <2>1, <2>3, <2>4, <3>1 DEF VerifyUpdates
  <2>5. CASE VerifyCalled(v) \/ VerifyFinds(v) \/ VerifyReturns(v) \/ QueryFails(v)
    BY <1>0, <1>1, <2>1, <2>3, <2>5, BoundsAssumption
       DEF VerifyCalled, VerifyFinds, VerifyReturns, QueryFails, Fault
  <2> QED
    BY <1>4, <2>4, <2>5 DEF VerifyStep
<1>5. ASSUME NEW s \in SignIns, SignInCalled(s) \/ SignInStep(s) \/ QueryFails(s) PROVE Typed'
  <2>1. Moves(s) /\ Control' /\ \A d \in Calls \ {s} : Untouched(d)
    BY <1>5, SignInMoves, MovesAlone DEF Calls, CallsInv
  <2>2. input' = input \/ input'[s] \in SignInInputs
    <3>1. CASE SignInCalled(s)
      <4>1. PICK user \in Usernames, right \in BOOLEAN :
              input' = [input EXCEPT ![s] =
                [user |-> user, right |-> right, told |-> ToldVerified(user),
                 barred |-> HasAccount(user) /\ OwnerOf(user) \in banned]]
        BY <3>1 DEF SignInCalled
      <4>2. ToldVerified(user) \in BOOLEAN /\ (HasAccount(user) /\ OwnerOf(user) \in banned) \in BOOLEAN
        BY DEF ToldVerified
      <4>3. [user |-> user, right |-> right, told |-> ToldVerified(user),
             barred |-> HasAccount(user) /\ OwnerOf(user) \in banned] \in SignInInputs
        BY <4>2 DEF SignInInputs
      <4> QED
        BY <1>2, <4>1, <4>3 DEF Calls
    <3> QED
      BY <1>5, <3>1 DEF SignInStep, SignInReads, SignInCompares, QueryFails
  <2>3. Inputs'
    BY <1>2, <2>1, <2>2, CallsAssumption DEF Untouched, Calls
  <2>4. CASE SignInReads(s)
    <3> DEFINE owner == OwnerOf(input[s].user)
    <3>1. \/ seen' = seen
          \/ seen' = [seen EXCEPT ![s] = [verified |-> owner \in verified, active |-> owner \notin banned]]
      BY <2>4 DEF SignInReads
    <3>2. (owner \in verified) \in BOOLEAN /\ (owner \notin banned) \in BOOLEAN
      OBVIOUS
    <3>3. [verified |-> owner \in verified, active |-> owner \notin banned]
            \in [verified : BOOLEAN, active : BOOLEAN]
      BY <3>2
    <3>4. seen' \in [SignIns -> [verified : BOOLEAN, active : BOOLEAN]]
      BY <1>0, <3>1, <3>3
    <3> QED
      BY <1>0, <1>1, <2>1, <2>3, <2>4, <3>4 DEF SignInReads
  <2>5. CASE SignInCalled(s) \/ SignInCompares(s) \/ QueryFails(s)
    BY <1>0, <1>1, <2>1, <2>3, <2>5, BoundsAssumption
       DEF SignInCalled, SignInCompares, QueryFails, Fault
  <2> QED
    BY <1>5, <2>4, <2>5 DEF SignInStep
<1> QED
  BY <1>3, <1>4, <1>5, Steps

-----------------------------------------------------------------------------
(* Links. *)

LEMMA LinkStays ==
  ASSUME AccountsInv, Grows, OwnersStay, NEW t, LinkInv(t)
  PROVE  LinkInv(t)'
  BY OwnerClaims DEF LinkInv, Owned, Grows, OwnersStay

LEMMA LinkOfOwner ==
  ASSUME AccountsInv, NEW r \in SignUps, A!Opened(r)
  PROVE  LinkInv(Link(r))
  BY OpenedOwns DEF LinkInv, Owned, Link, Signers

LEMMA JustifiedStays ==
  ASSUME AccountsInv, Grows, NEW c \in Signers, claim[c] # NoForm, Justified(c),
         \A v \in Verifies : input[v] # NoInput => input'[v] = input[v]
  PROVE  Justified(c)'
  BY DEF Justified, InTime, User, Grows

(* A call that presented something goes on with that. *)
LEMMA InputsStay ==
  ASSUME Typed, CallsInv, [Next]_vars
  PROVE  \A c \in Calls : pc[c] # "idle" => input'[c] = input[c]
<1> SUFFICES ASSUME NEW c \in Calls, pc[c] # "idle" PROVE input'[c] = input[c]
  OBVIOUS
<1>1. CASE Environment \/ Crash
  BY <1>1, EnvironmentLeaves
<1>2. ASSUME NEW v \in Verifies, VerifyCalled(v) \/ VerifyStep(v) \/ QueryFails(v)
      PROVE  input'[c] = input[c]
  <2>1. CASE c = v
    BY <1>2, <2>1 DEF VerifyCalled, VerifyStep, VerifyFinds, VerifyUpdates, VerifyReturns, QueryFails
  <2>2. CASE c # v
    BY <1>2, <2>2, VerifyMoves, MovesAlone DEF Calls, Untouched
  <2> QED
    BY <2>1, <2>2
<1>3. ASSUME NEW s \in SignIns, SignInCalled(s) \/ SignInStep(s) \/ QueryFails(s)
      PROVE  input'[c] = input[c]
  <2>1. CASE c = s
    BY <1>3, <2>1 DEF SignInCalled, SignInStep, SignInReads, SignInCompares, QueryFails
  <2>2. CASE c # s
    BY <1>3, <2>2, SignInMoves, MovesAlone DEF Calls, Untouched, CallsInv
  <2> QED
    BY <2>1, <2>2
<1> QED
  BY <1>1, <1>2, <1>3, Steps

(* What a verification updates, the link it was called with asked for. *)
LEMMA UpdateIsJustified ==
  ASSUME Typed, AccountsInv, LinksInv, NEW v \in Verifies, VerifyInv(v), pc[v] = "update"
  PROVE  Justified(OwnerOf(User(v)))
<1>1. /\ input[v] \in VerifyInputs /\ input[v].token \in tokens
      /\ input[v].at < input[v].token.exp /\ HasAccount(User(v))
  BY ForeignAssumption DEF VerifyInv
<1>2. input[v] # NoInput
  BY <1>1, InputAssumption DEF VerifyInputs
<1>3. claim[OwnerOf(User(v))].username = User(v)
  BY <1>1, OwnerClaims
<1>4. input[v].token.to = claim[OwnerOf(User(v))].email
  BY <1>1 DEF LinksInv, LinkInv, User
<1> QED
  BY <1>1, <1>2, <1>3, <1>4 DEF Justified, InTime

LEMMA LinksNext ==
  ASSUME Typed, AccountsInv, LinksInv, CallsInv, [Next]_vars
  PROVE  LinksInv'
<1>1. Grows /\ AccountsInv' /\ OwnersStay
  BY StepGrows
<1>2. \A v \in Verifies : input[v] # NoInput => input'[v] = input[v]
  BY InputsStay DEF CallsInv, VerifyInv, Calls
<1>3. \A c \in verified : Justified(c)' /\ claim'[c] # NoForm
  BY <1>1, <1>2, JustifiedStays DEF LinksInv, Typed, TypeOK, Signers, Grows
<1>4. \A t \in tokens : LinkInv(t)'
  BY <1>1, LinkStays DEF LinksInv
<1>5. CASE tokens' = tokens /\ verified' = verified
  BY <1>3, <1>4, <1>5 DEF LinksInv
<1>6. ASSUME NEW r \in SignUps, SendMail(r) PROVE LinksInv'
  <2>1. PICK t : t = Link(r)
    OBVIOUS
  <2>2. tokens' = tokens \cup {t} /\ verified' = verified /\ LinkInv(t)
    BY <1>6, <2>1, LinkOfOwner DEF SendMail
  <2>3. LinkInv(t)'
    BY <1>1, <2>2, LinkStays
  <2> QED
    BY <1>3, <1>4, <2>2, <2>3 DEF LinksInv
<1>7. ASSUME NEW v \in Verifies, VerifyUpdates(v)
      PROVE  LinksInv'
  <2>0. PICK o : o = OwnerOf(User(v))
    OBVIOUS
  <2>1. tokens' = tokens /\ verified' = verified \cup {o} /\ pc[v] = "update"
    BY <1>7, <2>0 DEF VerifyUpdates
  <2>2. Justified(o) /\ o \in Signers /\ claim[o] # NoForm
    BY <2>0, <2>1, UpdateIsJustified, OwnerClaims DEF CallsInv, VerifyInv
  <2>3. Justified(o)' /\ claim'[o] # NoForm
    BY <1>1, <1>2, <2>2, JustifiedStays DEF Grows
  <2> QED
    BY <1>3, <1>4, <2>1, <2>3 DEF LinksInv
<1>8. ASSUME NEW v \in Verifies,
             VerifyCalled(v) \/ VerifyFinds(v) \/ VerifyReturns(v) \/ QueryFails(v)
      PROVE  tokens' = tokens /\ verified' = verified
  BY <1>8 DEF VerifyCalled, VerifyFinds, VerifyReturns, QueryFails
<1>9. ASSUME NEW s \in SignIns, SignInCalled(s) \/ SignInStep(s) \/ QueryFails(s)
      PROVE  tokens' = tokens /\ verified' = verified
  BY <1>9 DEF SignInCalled, SignInStep, SignInReads, SignInCompares, QueryFails
<1>10. CASE Crash \/ OpenAccounts \/ Tick \/ UNCHANGED vars \/ \E c \in Signers : Ban(c)
  BY <1>5, <1>10 DEF Crash, OpenAccounts, Tick, vars, Ban
<1> QED
  BY <1>5, <1>6, <1>7, <1>8, <1>9, <1>10, Steps DEF Environment, VerifyStep

-----------------------------------------------------------------------------
(* What a call found. *)

LEMMA VerifyStays ==
  ASSUME Grows, OwnersStay, NEW v \in Verifies, Untouched(v), VerifyInv(v)
  PROVE  VerifyInv(v)'
<1>1. User(v)' = User(v) /\ outcome'[v] = outcome[v] /\ input'[v] = input[v]
  BY DEF Untouched, User
<1>2. CASE pc'[v] = pc[v]
  BY <1>1, <1>2 DEF VerifyInv, Owned, Grows, OwnersStay
<1>3. CASE pc[v] \notin {"idle", "done"} /\ pc'[v] = "dead"
  BY <1>1, <1>3 DEF VerifyInv, Owned, Grows, OwnersStay
<1> QED
  BY <1>2, <1>3 DEF Untouched

LEMMA SignInStays ==
  ASSUME Grows, OwnersStay, NEW s \in SignIns, Untouched(s), SignInInv(s), seen'[s] = seen[s]
  PROVE  SignInInv(s)'
<1>1. outcome'[s] = outcome[s] /\ input'[s] = input[s]
  BY DEF Untouched
<1>2. CASE pc'[s] = pc[s]
  BY <1>1, <1>2 DEF SignInInv, Owned, Grows, OwnersStay
<1>3. CASE pc[s] \notin {"idle", "done"} /\ pc'[s] = "dead"
  BY <1>1, <1>3 DEF SignInInv, Owned, Grows, OwnersStay
<1> QED
  BY <1>2, <1>3 DEF Untouched

LEMMA Told ==
  ASSUME Typed, NEW c \in Calls, NEW what, Tell(c, what)
  PROVE  pc'[c] = "done" /\ outcome'[c] = what
  BY DEF Tell, Goto, Typed, TypeOK

LEMMA Gone ==
  ASSUME Typed, NEW c \in Calls, NEW step, Goto(c, step)
  PROVE  pc'[c] = step
  BY DEF Goto, Typed, TypeOK

LEMMA VerifyNext ==
  ASSUME Typed, Grows, OwnersStay, NEW v \in Verifies, VerifyInv(v),
         VerifyCalled(v) \/ VerifyStep(v) \/ QueryFails(v)
  PROVE  VerifyInv(v)'
<1>0. v \in Calls
  BY DEF Calls
<1>1. CASE VerifyCalled(v)
  <2>1. PICK t \in tokens \cup Foreign :
          /\ input' = [input EXCEPT ![v] = [token |-> t, at |-> clock]]
          /\ \/ Valid(t) /\ Goto(v, "find") /\ UNCHANGED outcome
             \/ ~Valid(t) /\ Tell(v, "InvalidVerificationToken")
    BY <1>1 DEF VerifyCalled
  <2>2. input'[v] = [token |-> t, at |-> clock] /\ input'[v] \in VerifyInputs
    BY <1>0, <2>1, ForeignAssumption DEF VerifyInputs, Typed, TypeOK
  <2>3. tokens' = tokens /\ outcome[v] = "none"
    BY <1>1 DEF VerifyCalled, VerifyInv
  <2>4. CASE Valid(t) /\ Goto(v, "find") /\ UNCHANGED outcome
    BY <1>0, <2>2, <2>3, <2>4, Gone DEF VerifyInv, Valid
  <2>5. CASE Tell(v, "InvalidVerificationToken")
    BY <1>0, <2>2, <2>3, <2>5, Told DEF VerifyInv
  <2> QED
    BY <2>1, <2>4, <2>5
<1>2. CASE VerifyFinds(v)
  <2>1. pc[v] = "find" /\ UNCHANGED <<tokens, verified, input>> /\ User(v)' = User(v)
    BY <1>2 DEF VerifyFinds, User
  <2>2. CASE Tell(v, "InvalidVerificationToken")
    BY <1>0, <2>1, <2>2, Told DEF VerifyInv
  <2>3. CASE HasAccount(User(v)) /\ OwnerOf(User(v)) \in verified /\ Tell(v, "UserAlreadyVerified")
    BY <1>0, <2>1, <2>3, Told DEF VerifyInv, Owned, OwnersStay
  <2>4. CASE /\ HasAccount(User(v)) /\ input[v].token.verification
             /\ Goto(v, "update") /\ UNCHANGED outcome
    BY <1>0, <2>1, <2>4, Gone DEF VerifyInv, Owned, OwnersStay
  <2> QED
    BY <1>2, <2>2, <2>3, <2>4 DEF VerifyFinds
<1>3. CASE VerifyUpdates(v)
  <2>1. /\ pc[v] = "update" /\ pc'[v] = "reread" /\ UNCHANGED <<tokens, input, outcome>>
        /\ verified' = verified \cup {OwnerOf(User(v))} /\ User(v)' = User(v)
    BY <1>0, <1>3, Gone DEF VerifyUpdates, User
  <2>2. Owned(User(v), verified)'
    BY <2>1 DEF VerifyInv, Owned, OwnersStay
  <2> QED
    BY <2>1, <2>2 DEF VerifyInv
<1>4. CASE VerifyReturns(v)
  <2>1. pc[v] = "reread" /\ UNCHANGED <<verified, input>> /\ User(v)' = User(v)
    BY <1>4 DEF VerifyReturns, User
  <2> QED
    BY <1>0, <1>4, <2>1, Told DEF VerifyReturns, VerifyInv, Owned, OwnersStay
<1>5. CASE QueryFails(v)
  BY <1>0, <1>5, Told DEF QueryFails, VerifyInv
<1> QED
  BY <1>1, <1>2, <1>3, <1>4, <1>5 DEF VerifyStep

LEMMA SignInNext ==
  ASSUME Typed, Grows, OwnersStay, \A v \in Verifies : VerifyInv(v),
         NEW s \in SignIns, SignInInv(s), SignInCalled(s) \/ SignInStep(s) \/ QueryFails(s)
  PROVE  SignInInv(s)'
<1>0. s \in Calls
  BY DEF Calls
<1>1. CASE SignInCalled(s)
  <2>1. PICK user \in Usernames, right \in BOOLEAN :
          input' = [input EXCEPT ![s] =
            [user |-> user, right |-> right, told |-> ToldVerified(user),
             barred |-> HasAccount(user) /\ OwnerOf(user) \in banned]]
    BY <1>1 DEF SignInCalled
  <2>2. ToldVerified(user) \in BOOLEAN /\ (HasAccount(user) /\ OwnerOf(user) \in banned) \in BOOLEAN
    BY DEF ToldVerified
  <2>3. /\ input'[s] \in SignInInputs /\ input'[s].user = user
        /\ input'[s].told <=> ToldVerified(user)
        /\ input'[s].barred <=> HasAccount(user) /\ OwnerOf(user) \in banned
    BY <1>0, <2>1, <2>2 DEF SignInInputs, Typed
  <2>4. ToldVerified(user) => Owned(user, verified)
    BY DEF ToldVerified, VerifyInv
  <2>5. pc'[s] = "read" /\ outcome'[s] = "none" /\ UNCHANGED <<verified, banned>>
    BY <1>0, <1>1, Gone DEF SignInCalled, SignInInv
  <2>6. /\ input'[s].told => Owned(input[s].user, verified)'
        /\ input'[s].barred => Owned(input[s].user, banned)'
    BY <2>3, <2>4, <2>5 DEF Owned, OwnersStay
  <2> QED
    BY <2>3, <2>5, <2>6 DEF SignInInv
<1>2. CASE SignInReads(s)
  <2> DEFINE user == input[s].user
  <2>1. /\ pc[s] = "read" /\ UNCHANGED <<verified, banned, input>>
        /\ input[s] \in SignInInputs
        /\ input[s].told => Owned(user, verified)
        /\ input[s].barred => Owned(user, banned)
    BY <1>2 DEF SignInReads, SignInInv
  <2>2. /\ input'[s].told => Owned(user, verified)'
        /\ input'[s].barred => Owned(user, banned)'
    BY <2>1 DEF Owned, OwnersStay
  <2>3. CASE ~HasAccount(user) /\ Tell(s, "UserNotFound")
    BY <1>0, <2>1, <2>2, <2>3, Told DEF SignInInv, Owned
  <2>4. CASE /\ HasAccount(user) /\ Goto(s, "compare") /\ UNCHANGED outcome
             /\ seen' = [seen EXCEPT ![s] = [verified |-> OwnerOf(user) \in verified,
                                             active   |-> OwnerOf(user) \notin banned]]
    <3>1. /\ seen'[s].verified <=> OwnerOf(user) \in verified
          /\ seen'[s].active <=> OwnerOf(user) \notin banned
      BY <2>4 DEF Typed, TypeOK
    <3>2. HasAccount(user)' /\ OwnerOf(user)' = OwnerOf(user)
      BY <2>1, <2>4 DEF OwnersStay
    <3>3. pc'[s] = "compare" /\ outcome'[s] = outcome[s]
      BY <1>0, <2>4, Gone
    <3>4. /\ seen'[s].verified => Owned(user, verified)'
          /\ input'[s].told => seen'[s].verified
          /\ input'[s].barred => ~seen'[s].active
      BY <2>1, <3>1, <3>2 DEF Owned
    <3>5. outcome[s] = "none"
      BY <2>1 DEF SignInInv
    <3> QED
      BY <2>1, <2>2, <3>2, <3>3, <3>4, <3>5 DEF SignInInv
  <2> QED
    BY <1>2, <2>3, <2>4 DEF SignInReads
<1>3. CASE SignInCompares(s)
  <2>1. pc[s] = "compare" /\ UNCHANGED <<verified, banned, input>>
    BY <1>3 DEF SignInCompares
  <2>2. /\ input[s].right \in BOOLEAN /\ input[s] \in SignInInputs
        /\ seen[s] \in [verified : BOOLEAN, active : BOOLEAN]
    BY <2>1 DEF SignInInv, SignInInputs, Typed, TypeOK
  <2>3. pc'[s] = "done" /\ outcome'[s] = Judged(input[s].right, seen[s])
    BY <1>0, <1>3, Told DEF SignInCompares
  <2>4. /\ outcome'[s] = "ok" => input[s].right /\ seen[s].verified /\ seen[s].active
        /\ outcome'[s] = "UserNotVerified" => ~seen[s].verified
        /\ outcome'[s] # "UserNotFound"
    BY <2>2, <2>3, JudgedOutcomes
  <2> QED
    BY <2>1, <2>2, <2>3, <2>4 DEF SignInInv, Owned, OwnersStay
<1>4. CASE QueryFails(s)
  BY <1>0, <1>4, Told DEF QueryFails, SignInInv, Owned, OwnersStay
<1> QED
  BY <1>1, <1>2, <1>3, <1>4 DEF SignInStep

LEMMA CallsNext ==
  ASSUME Typed, AccountsInv, CallsInv, [Next]_vars
  PROVE  CallsInv'
<1>1. Grows /\ OwnersStay
  BY StepGrows
<1>2. (\A v \in Verifies : VerifyInv(v)) /\ (\A s \in SignIns : SignInInv(s))
  BY DEF CallsInv
<1>3. CASE Environment \/ Crash
  <2>1. UNCHANGED seen /\ \A c \in Calls : Untouched(c)
    BY <1>3, EnvironmentLeaves
       DEF Environment, OpenAccounts, Tick, vars, SendMail, Ban, Crash
  <2> QED
    BY <1>1, <1>2, <2>1, VerifyStays, SignInStays DEF CallsInv, Calls
<1>4. ASSUME NEW v \in Verifies, VerifyCalled(v) \/ VerifyStep(v) \/ QueryFails(v)
      PROVE  CallsInv'
  <2>1. /\ UNCHANGED seen
        /\ \A c \in Calls \ {v} : Untouched(c)
    BY <1>4, VerifyMoves, MovesAlone
       DEF Calls, VerifyCalled, VerifyStep, VerifyFinds, VerifyUpdates, VerifyReturns, QueryFails
  <2>2. VerifyInv(v)'
    BY <1>1, <1>2, <1>4, VerifyNext
  <2>3. \A w \in Verifies : VerifyInv(w)'
    BY <1>1, <1>2, <2>1, <2>2, VerifyStays DEF Calls
  <2>4. \A s \in SignIns : SignInInv(s)'
    BY <1>1, <1>2, <2>1, SignInStays, CallsAssumption DEF Calls
  <2> QED
    BY <2>3, <2>4 DEF CallsInv
<1>5. ASSUME NEW s \in SignIns, SignInCalled(s) \/ SignInStep(s) \/ QueryFails(s)
      PROVE  CallsInv'
  <2>1. \A c \in Calls \ {s} : Untouched(c)
    BY <1>2, <1>5, SignInMoves, MovesAlone DEF Calls
  <2>2. \A u \in SignIns \ {s} : seen'[u] = seen[u]
    BY <1>5 DEF SignInCalled, SignInStep, SignInReads, SignInCompares, QueryFails, Typed, TypeOK
  <2>3. SignInInv(s)'
    BY <1>1, <1>2, <1>5, SignInNext
  <2>4. \A u \in SignIns : SignInInv(u)'
    BY <1>1, <1>2, <2>1, <2>2, <2>3, SignInStays DEF Calls
  <2>5. \A v \in Verifies : VerifyInv(v)'
    BY <1>1, <1>2, <2>1, VerifyStays, CallsAssumption DEF Calls
  <2> QED
    BY <2>4, <2>5 DEF CallsInv
<1> QED
  BY <1>3, <1>4, <1>5, Steps

-----------------------------------------------------------------------------
(* The theorems. *)

LEMMA IInvAlways == SafeSpec => []IInv
<1>1. Init => IInv
  <2> SUFFICES ASSUME Init PROVE IInv
    OBVIOUS
  <2>1. LinksInv
    BY DEF Init, LinksInv
  <2>2. \A c \in Calls : pc[c] = "idle" /\ input[c] = NoInput /\ outcome[c] = "none"
    BY DEF Init
  <2>3. CallsInv
    BY <2>2 DEF CallsInv, VerifyInv, SignInInv, Calls
  <2> QED
    BY <2>1, <2>3, TypedInit DEF IInv
<1>2. IInv /\ [Next]_vars => IInv'
  BY TypedNext, StepGrows, LinksNext, CallsNext DEF IInv
<1> QED
  BY <1>1, <1>2, PTL DEF SafeSpec

(* The variables keep their types: what a call was called with, where it    *)
(* stands and what it was told belong together (auth.service.ts).            *)
THEOREM VerificationTypeCorrect == SafeSpec => []TypeOK
<1>1. IInv => TypeOK
  BY DEF IInv, Typed
<1> QED
  BY <1>1, IInvAlways, PTL

(* An account is verified only by a link that was mailed to its own email   *)
(* and presented in time (auth.service.ts:255-290).                          *)
THEOREM OwnersVerify == SafeSpec => []VerifiedByOwner
<1>1. IInv => VerifiedByOwner
  BY DEF IInv, LinksInv, Justified, VerifiedByOwner
<1> QED
  BY <1>1, IInvAlways, PTL

(* Whoever signs in has a verified account, and was not banned when he      *)
(* called (auth.service.ts:67-99).                                           *)
THEOREM RightOnesSignIn == SafeSpec => []OnlyTheRightSignIn
<1>1. IInv => OnlyTheRightSignIn
  BY DEF IInv, CallsInv, SignInInv, Owned, OnlyTheRightSignIn
<1> QED
  BY <1>1, IInvAlways, PTL

(* Once told verified, a user is never again told that he is not            *)
(* (auth.service.ts:285-289, users.service.ts:52).                           *)
THEOREM ToldStaysTrue == SafeSpec => []ToldMeansVerified
<1>1. IInv => ToldMeansVerified
  BY DEF IInv, CallsInv, SignInInv, ToldMeansVerified
<1> QED
  BY <1>1, IInvAlways, PTL
=============================================================================
