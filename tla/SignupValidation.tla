-------------------------- MODULE SignupValidation --------------------------
(***************************************************************************)
(* What the two ways of opening an account accept.                         *)
(*   register()  (auth.service.ts:136-184) runs a chain of checks, the     *)
(*               first broken one names the error;                         *)
(*   create      (users/inputs/UserCreateInput.ts) has the class-validator *)
(*               decorators of its input type.                             *)
(* A form keeps of each field what the checks look at.  A null password is *)
(* one of length 0; a long name has over 255 characters, not all of them   *)
(* blank; the characters of a username are                                 *)
(*   "digits"   0-9 only          "word"   [a-zA-Z0-9_], not digits only   *)
(*   "decimal"  a number written with sign or point     "other"  the rest  *)
(***************************************************************************)
EXTENDS Naturals

Characters == {"digits", "word", "decimal", "other"}

(* The domain of forms whose lengths are in a set, with one id per field. *)
FormsOver(ids, lengths, passwordLengths) ==
  [username : [id : ids, len : lengths, chars : Characters],
   email    : [id : ids, wellFormed : BOOLEAN],
   password : passwordLengths,
   name     : {"empty", "spaces", "text", "long"},
   token    : {"none", "valid", "invalid"}]

-----------------------------------------------------------------------------
Least(S) == CHOOSE n \in S : \A m \in S : n <= m

(* The verdict of a chain of checks, a sequence of <<broken, error>> pairs. *)
FirstBroken(chain) ==
  LET broken == {k \in DOMAIN chain : chain[k][1]}
  IN  IF broken = {} THEN "ok" ELSE chain[Least(broken)][2]

(* validator.isNumeric: digits, possibly a sign and a decimal point. *)
IsNumeric(username) == username.len > 0 /\ username.chars \in {"digits", "decimal"}

(* /^[a-zA-Z\d_]+$/ needs one character at least. *)
IsWord(username) == username.len > 0 /\ username.chars \in {"digits", "word"}

(* The chain with the length test moved ahead of the character tests. *)
Verdict_LengthFirst(f) == FirstBroken(<<
  << ~f.email.wellFormed,                     "InvalidEmail" >>,
  << f.username.len \notin 4..10,             "InvalidUsernameLength" >>,
  << f.username.len = 0,                      "InvalidUsernameEmpty" >>,
  << IsNumeric(f.username),                   "InvalidNumericUsernameCharacters" >>,
  << ~IsWord(f.username),                     "InvalidUsernameCharacters" >>,
  << f.password = 0,                          "InvalidPasswordEmpty" >>,
  << f.password < 8,                          "InvalidPasswordLength" >>,
  << f.name \in {"empty", "spaces"},           "InvalidNameEmpty" >>,
  << f.token = "invalid",                     "InvalidRegistrationToken" >> >>)

(* The chain without isNumeric, which the word characters alone let pass. *)
Verdict_NumericAccepted(f) == FirstBroken(<<
  << ~f.email.wellFormed,                     "InvalidEmail" >>,
  << f.username.len = 0,                      "InvalidUsernameEmpty" >>,
  << ~IsWord(f.username),                     "InvalidUsernameCharacters" >>,
  << f.username.len \notin 4..10,             "InvalidUsernameLength" >>,
  << f.password = 0,                          "InvalidPasswordEmpty" >>,
  << f.password < 8,                          "InvalidPasswordLength" >>,
  << f.name \in {"empty", "spaces"},           "InvalidNameEmpty" >>,
  << f.token = "invalid",                     "InvalidRegistrationToken" >> >>)

(* register(): the checks in the order of the code. *)
Verdict(f) == FirstBroken(<<
  << ~f.email.wellFormed,                     "InvalidEmail" >>,
  << f.username.len = 0,                      "InvalidUsernameEmpty" >>,
  << IsNumeric(f.username),                   "InvalidNumericUsernameCharacters" >>,
  << ~IsWord(f.username),                     "InvalidUsernameCharacters" >>,
  << f.username.len \notin 4..10,             "InvalidUsernameLength" >>,
  << f.password = 0,                          "InvalidPasswordEmpty" >>,
  << f.password < 8,                          "InvalidPasswordLength" >>,
  << f.name \in {"empty", "spaces"},           "InvalidNameEmpty" >>,
  << f.token = "invalid",                     "InvalidRegistrationToken" >> >>)

(* The decorators of UserCreateInput: a name of spaces has a length and     *)
(* passes, a long one does not; no decorator looks at the password.         *)
CreateAccepts(f) ==
  f.name \notin {"empty", "long"} /\ f.username.len \in 4..255 /\ f.email.wellFormed

Errors == {"InvalidEmail", "InvalidUsernameEmpty", "InvalidNumericUsernameCharacters",
           "InvalidUsernameCharacters", "InvalidUsernameLength", "InvalidPasswordEmpty",
           "InvalidPasswordLength", "InvalidNameEmpty", "InvalidRegistrationToken"}
=============================================================================
