------------------------ MODULE SignupValidationProofs ------------------------
(***************************************************************************)
(* What register()'s chain of checks accepts and says, proved for forms    *)
(* whose fields have any length, where TLC checks the boundaries.          *)
(*                                                                         *)
(* The argument: the verdict is the error of the first broken check, so    *)
(* each error is said with all the checks before it met (ChecksAreRight).  *)
(***************************************************************************)
EXTENDS MCSignupValidation, TLAPS, WellFoundedInduction

LEMMA NatMin ==
  ASSUME NEW S \in SUBSET Nat, S # {}
  PROVE  \E n \in S : \A m \in S : n <= m
<1>1. PICK n \in S : \A m \in S : ~(<<m, n>> \in OpToRel(<, Nat))
  BY WFMin, NatLessThanWellFounded
<1>2. \A m \in S : ~(m < n)
  BY <1>1 DEF OpToRel
<1> QED
  BY <1>2

(* The first check that is broken decides. *)
LEMMA FirstDecides ==
  ASSUME NEW chain, DOMAIN chain = 1..9, NEW k \in 1..9, chain[k][1],
         \A j \in 1..9 : j < k => ~chain[j][1]
  PROVE  FirstBroken(chain) = chain[k][2]
<1> DEFINE broken == {n \in DOMAIN chain : chain[n][1]}
<1>1. k \in broken /\ \A m \in broken : k <= m /\ m \in 1..9
  OBVIOUS
<1>2. Least(broken) = k
  <2>1. \A n \in broken : (\A m \in broken : n <= m) => n = k
    BY <1>1
  <2> HIDE DEF broken
  <2> QED
    BY <1>1, <2>1 DEF Least
<1>3. FirstBroken(chain) = IF broken = {} THEN "ok" ELSE chain[Least(broken)][2]
  BY DEF FirstBroken
<1> HIDE DEF broken
<1> QED
  BY <1>1, <1>2, <1>3

LEMMA NothingBroken ==
  ASSUME NEW chain, DOMAIN chain = 1..9, \A j \in 1..9 : ~chain[j][1]
  PROVE  FirstBroken(chain) = "ok"
<1>1. {n \in DOMAIN chain : chain[n][1]} = {}
  OBVIOUS
<1> QED
  BY <1>1 DEF FirstBroken

(* Forms whose fields have any length, with one id for every field. *)
AnyForm == FormsOver({"any"}, Nat, Nat)

(* The verdict is right about every form, of whatever lengths: register()  *)
(* goes on for the forms its tests call valid, and tells each of the others *)
(* a fault that it has, as the words of the error say it, with the fields   *)
(* before that one in order (auth.service.ts:136-184).                      *)
THEOREM ChecksAreRight ==
  ASSUME NEW f \in AnyForm
  PROVE  (Verdict(f) = "ok" <=> Valid(f)) /\ FaultNamed(f)
<1> DEFINE chain == <<
  << ~f.email.wellFormed,                     "InvalidEmail" >>,
  << f.username.len = 0,                      "InvalidUsernameEmpty" >>,
  << IsNumeric(f.username),                   "InvalidNumericUsernameCharacters" >>,
  << ~IsWord(f.username),                     "InvalidUsernameCharacters" >>,
  << f.username.len \notin 4..10,             "InvalidUsernameLength" >>,
  << f.password = 0,                          "InvalidPasswordEmpty" >>,
  << f.password < 8,                          "InvalidPasswordLength" >>,
  << f.name \in {"empty", "spaces"},           "InvalidNameEmpty" >>,
  << f.token = "invalid",                     "InvalidRegistrationToken" >> >>
<1>1. Verdict(f) = FirstBroken(chain)
  BY DEF Verdict
<1>2. DOMAIN chain = 1..9
  OBVIOUS
<1>3. /\ chain[1][2] = "InvalidEmail"
      /\ chain[2][2] = "InvalidUsernameEmpty"
      /\ chain[3][2] = "InvalidNumericUsernameCharacters"
      /\ chain[4][2] = "InvalidUsernameCharacters"
      /\ chain[5][2] = "InvalidUsernameLength"
      /\ chain[6][2] = "InvalidPasswordEmpty"
      /\ chain[7][2] = "InvalidPasswordLength"
      /\ chain[8][2] = "InvalidNameEmpty"
      /\ chain[9][2] = "InvalidRegistrationToken"
  OBVIOUS
<1>4. /\ chain[1][1] <=> ~f.email.wellFormed
      /\ chain[2][1] <=> f.username.len = 0
      /\ chain[3][1] <=> IsNumeric(f.username)
      /\ chain[4][1] <=> ~IsWord(f.username)
      /\ chain[5][1] <=> f.username.len \notin 4..10
      /\ chain[6][1] <=> f.password = 0
      /\ chain[7][1] <=> f.password < 8
      /\ chain[8][1] <=> f.name \in {"empty", "spaces"}
      /\ chain[9][1] <=> f.token = "invalid"
  OBVIOUS
<1> HIDE DEF chain
<1>5. ASSUME \A j \in 1..9 : ~chain[j][1]
      PROVE  Verdict(f) = "ok"
  BY <1>1, <1>2, <1>5, NothingBroken
<1>6. ASSUME NEW k \in 1..9, chain[k][1], \A j \in 1..9 : j < k => ~chain[j][1]
      PROVE  Verdict(f) = chain[k][2]
  BY <1>1, <1>2, <1>6, FirstDecides
<1>7. /\ f.username.len \in Nat /\ f.password \in Nat /\ f.username.chars \in Characters
      /\ f.name \in {"empty", "spaces", "text", "long"}
  BY DEF AnyForm, FormsOver
<1>8. PICK k \in 1..10 : /\ \A j \in 1..9 : j < k => ~chain[j][1]
                         /\ k # 10 => chain[k][1]
  <2>1. CASE \A j \in 1..9 : ~chain[j][1]
    <3> WITNESS 10 \in 1..10
    <3> QED
      BY <2>1
  <2>2. CASE \E j \in 1..9 : chain[j][1]
    <3> DEFINE B == {j \in 1..9 : chain[j][1]}
    <3>1. PICK j \in B : \A m \in B : j <= m
      <4>1. B \in SUBSET Nat /\ B # {}
        BY <2>2
      <4> HIDE DEF B
      <4> QED
        BY <4>1, NatMin
    <3> WITNESS j \in 1..10
    <3> QED
      BY <3>1
  <2> QED
    BY <2>1, <2>2
<1>9. CASE k = 10
  <2>1. Verdict(f) = "ok" /\ \A j \in 1..9 : ~chain[j][1]
    BY <1>5, <1>8, <1>9
  <2> QED
    BY <1>4, <1>7, <2>1 DEF Valid, UsernameAllowed, FaultNamed, IsWord, IsNumeric, Characters
<1>10. ASSUME k \in 1..9
       PROVE  Verdict(f) = chain[k][2] /\ Verdict(f) # "ok"
  BY <1>3, <1>6, <1>8, <1>10
<1>11. CASE k \in 1..9
  <2>1. ~Valid(f)
    BY <1>4, <1>7, <1>8, <1>11 DEF Valid, UsernameAllowed, IsWord, IsNumeric, Characters
  <2>2. Wrong(f, chain[k][2])
    <3>1. CASE k \in 1..3
      BY <1>3, <1>4, <1>8, <1>11, <3>1 DEF Wrong, IsNumeric
    <3>2. CASE k \in {4, 5}
      BY <1>3, <1>4, <1>7, <1>8, <1>11, <3>2 DEF Wrong, IsWord, IsNumeric, Characters
    <3>3. CASE k \in 6..9
      BY <1>3, <1>4, <1>7, <1>8, <1>11, <3>3 DEF Wrong
    <3> QED
      BY <1>11, <3>1, <3>2, <3>3
  <2>3. GoodBefore(f, chain[k][2])
    <3>1. k >= 2 => f.email.wellFormed
      BY <1>4, <1>8, <1>11
    <3>2. k >= 6 => UsernameAllowed(f)
      BY <1>4, <1>7, <1>8, <1>11 DEF UsernameAllowed, IsWord, IsNumeric, Characters
    <3>3. k >= 8 => f.password >= 8
      BY <1>4, <1>7, <1>8, <1>11
    <3>4. k = 9 => f.name \in {"text", "long"}
      BY <1>4, <1>7, <1>8, <1>11
    <3> QED
      BY <1>3, <1>11, <3>1, <3>2, <3>3, <3>4 DEF GoodBefore
  <2> QED
    BY <1>10, <1>11, <2>1, <2>2, <2>3 DEF FaultNamed
<1> QED
  BY <1>9, <1>11

-----------------------------------------------------------------------------
(* Every form submitted is one of the run's. *)
LEMMA FormsSubmitted == Spec => [](form \in Forms)
<1>1. Init => form \in Forms
  BY DEF Init
<1>2. form \in Forms /\ [Resubmit]_form => (form \in Forms)'
  BY DEF Resubmit
<1> QED
  BY <1>1, <1>2, PTL DEF Spec

LEMMA FormsAreForms == Forms \subseteq AnyForm
  BY DEF Forms, AnyForm, FormsOver

(* A caller's form goes on to the database exactly when it is valid. *)
THEOREM ValidFormsGoOn == Spec => []AcceptsExactlyTheValid
<1>1. form \in Forms => AcceptsExactlyTheValid
  BY ChecksAreRight, FormsAreForms DEF AcceptsExactlyTheValid
<1> QED
  BY <1>1, FormsSubmitted, PTL

(* Each error is only shown to a form that has the fault it speaks of, and  *)
(* has none in the fields before it.                                        *)
THEOREM ErrorsNameFaults == Spec => []ErrorNamesTheFault
<1>1. form \in Forms => ErrorNamesTheFault
  BY ChecksAreRight, FormsAreForms DEF ErrorNamesTheFault
<1> QED
  BY <1>1, FormsSubmitted, PTL
===============================================================================
