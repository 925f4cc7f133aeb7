-------------------------- MODULE AuthSystemProofs --------------------------
(***************************************************************************)
(* Proofs about the composed system, for any number of servers, editors,   *)
(* sign-ups, codes and faults: its start behaves as Seeding says, so that  *)
(* module's theorems carry over, and opening an account implements         *)
(* AtomicSignup, since whoever listens has every code.                     *)
(***************************************************************************)
EXTENDS AuthSystem, SeedingProofs

(* Whatever the sign-ups do, the tables and processes go as in Seeding. *)
LEMMA StepsAreSeedingSteps == [SystemNext]_allvars => [Next]_vars
  BY DEF SystemNext, ServersStep, OpenAccount, Reply, SignUp, SignUpRefused, allvars

(* Servers that also serve start exactly as servers that only start         *)
(* (auth.module.ts:55-87).                                                   *)
THEOREM SystemImplementsSeeding == SystemSpec => SafeSpec
<1>1. SystemInit => Init
  BY DEF SystemInit
<1> QED
  BY <1>1, StepsAreSeedingSteps, PTL DEF SystemSpec, SafeSpec

(* What is proved of a start holds while accounts open: the tables keep      *)
(* every code once, who serves has them all, and every answer is true       *)
(* (auth.module.ts:58-85, auth_roles.service.ts:30-39).                      *)
THEOREM SystemIsSeeded ==
  SystemSpec => /\ [](EachCodeOnce /\ ServingIsSeeded /\ FailedBootHasRival /\ CreateIsHonest)
                /\ RowsStay
  BY SystemImplementsSeeding, CodesAreUnique, ServersAreSeeded, FailedStartsHaveRivals,
     EditorsAreToldTheTruth, StartsKeepRows, PTL

-----------------------------------------------------------------------------
(* Types, and what a call under way has: a form, and every code. *)

CallTypes ==
  /\ claim \in [SignUps -> Forms \cup {NoForm}]
  /\ reply \in [SignUps -> {"none", "opened", "refused"}]
  /\ host \in [SignUps -> Instances \cup {NoHost}]
  /\ found \in [SignUps -> SUBSET Codes]

Served == \A c \in SignUps : host[c] # NoHost => claim[c] # NoForm /\ found[c] = Codes

LEMMA CallsInit == SystemInit => CallTypes /\ Served
  BY DEF SystemInit, Whole!Init, CallTypes, Served

LEMMA CallTypesNext == CallTypes /\ [SystemNext]_allvars => CallTypes'
<1> SUFFICES ASSUME CallTypes, [SystemNext]_allvars PROVE CallTypes'
  OBVIOUS
<1> USE DEF CallTypes
<1>1. CASE ServersStep
  BY <1>1 DEF ServersStep
<1>2. ASSUME NEW c \in SignUps, OpenAccount(c) PROVE CallTypes'
  BY <1>2 DEF OpenAccount
<1>3. ASSUME NEW c \in SignUps, Reply(c) PROVE CallTypes'
  BY <1>3 DEF Reply, Whole!Answer
<1>4. ASSUME NEW c \in SignUps, NEW i \in Instances, SignUp(c, i) PROVE CallTypes'
  BY <1>4 DEF SignUp, Whole!Ask, Present
<1>5. ASSUME NEW c \in SignUps, NEW i \in Instances, SignUpRefused(c, i) PROVE CallTypes'
  BY <1>5 DEF SignUpRefused, Whole!Turn
<1>6. CASE UNCHANGED allvars
  BY <1>6 DEF allvars, svars
<1> QED
  BY <1>1, <1>2, <1>3, <1>4, <1>5, <1>6 DEF SystemNext

(* The state of the whole system always has its type (auth.service.ts:119,  *)
(* auth.module.ts:55-87).                                                    *)
THEOREM SystemTypeCorrect == SystemSpec => []SystemTypeOK
<1>1. TypeOK /\ CallTypes => SystemTypeOK
  BY DEF CallTypes, SystemTypeOK
<1> QED
  BY <1>1, CallsInit, CallTypesNext, SystemImplementsSeeding, SeedingTypeCorrect, PTL
     DEF SystemSpec

LEMMA ServedNext ==
  CallTypes /\ ServingIsSeeded /\ Served /\ [SystemNext]_allvars => Served'
<1> SUFFICES ASSUME CallTypes, ServingIsSeeded, Served, [SystemNext]_allvars PROVE Served'
  OBVIOUS
<1> USE DEF CallTypes, Served
<1>1. CASE ServersStep
  BY <1>1 DEF ServersStep
<1>2. ASSUME NEW c \in SignUps, OpenAccount(c) \/ Reply(c) PROVE Served'
  BY <1>2 DEF OpenAccount, Reply, Whole!Answer
<1>3. ASSUME NEW c \in SignUps, NEW i \in Instances, SignUp(c, i) PROVE Served'
  <2>1. Present = Codes
    BY <1>3 DEF SignUp, Present, ServingIsSeeded
  <2> QED
    BY <1>3, <2>1, NoHostAssumption DEF SignUp, Whole!Ask
<1>4. ASSUME NEW c \in SignUps, NEW i \in Instances, SignUpRefused(c, i) PROVE Served'
  BY <1>4, NoHostAssumption DEF SignUpRefused, Whole!Turn
<1>5. CASE UNCHANGED allvars
  BY <1>5 DEF allvars, svars
<1> QED
  BY <1>1, <1>2, <1>3, <1>4, <1>5 DEF SystemNext

-----------------------------------------------------------------------------
(* An account that opens here opens as the abstract one: it misses no code. *)
LEMMA OpensAbstractly ==
  ASSUME Served, NEW c \in SignUps, OpenAccount(c)
  PROVE  Whole!Open(c)
<1>1. claim[c] # NoForm /\ found[c] = Codes
  BY DEF Served, OpenAccount
<1>2. PICK codes \in SUBSET Present :
        /\ found[c] \subseteq codes
        /\ accounts' = accounts \cup
             {[owner |-> c, username |-> claim[c].username, email |-> claim[c].email,
               grants |-> SignupGrants \cap codes]}
  BY DEF OpenAccount
<1>3. SignupGrants \cap codes = SignupGrants
  BY <1>1, <1>2, SignupGrantsAssumption
<1>4. accounts' = accounts \cup {Whole!Account(c)}
  BY <1>2, <1>3 DEF Whole!Account
<1> QED
  BY <1>1, <1>4 DEF OpenAccount, Whole!Open

LEMMA StepsAreAbstract ==
  Served /\ [SystemNext]_allvars => [Whole!Next]_(Whole!vars)
<1> SUFFICES ASSUME Served, [SystemNext]_allvars PROVE Whole!Next \/ UNCHANGED Whole!vars
  OBVIOUS
<1>1. CASE ServersStep \/ UNCHANGED allvars
  BY <1>1 DEF ServersStep, allvars, svars, Whole!vars
<1>2. ASSUME NEW c \in SignUps, OpenAccount(c) \/ Reply(c) PROVE Whole!Next
  BY <1>2, OpensAbstractly DEF Reply, Whole!Next
<1>3. ASSUME NEW c \in SignUps, NEW i \in Instances, SignUp(c, i) \/ SignUpRefused(c, i)
      PROVE  Whole!Next
  BY <1>3 DEF SignUp, SignUpRefused, Whole!Next
<1> QED
  BY <1>1, <1>2, <1>3 DEF SystemNext

(* However servers start, fail, crash and start again while others serve    *)
(* and editors write the same tables, accounts open in one step and whole,  *)
(* and every answer is true (auth.service.ts:194-211 over                    *)
(* auth.module.ts:55-87).                                                    *)
THEOREM SystemOpensWholeAccounts == SystemSpec => OpensWholeAccounts
<1>1. SystemInit => Whole!Init
  BY DEF SystemInit
<1> QED
  BY <1>1, CallsInit, CallTypesNext, ServedNext, StepsAreAbstract, SystemIsSeeded, PTL
     DEF SystemSpec, OpensWholeAccounts, Whole!Spec
=============================================================================
