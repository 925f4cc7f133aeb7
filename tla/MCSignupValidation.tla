------------------------- MODULE MCSignupValidation -------------------------
(* register()'s checks over every form at and around their boundaries. *)
EXTENDS SignupValidation

VARIABLE form

(* Both sides of every length the checks compare with. *)
Forms == FormsOver({"any"}, {0, 1, 3, 4, 10, 11, 255, 256}, {0, 7, 8})

Init == form \in Forms

(* A caller that was told what is wrong submits another form. *)
Resubmit == \E f \in Forms : f.email = form.email /\ f.token = form.token /\ form' = f

Spec == Init /\ [][Resubmit]_form

(* The usernames the comment of auth.service.ts:145 and the tests allow:   *)
(* letters, digits and _, "like twitter", at least one of them no digit.   *)
UsernameAllowed(f) == f.username.len \in 4..10 /\ f.username.chars = "word"

Valid(f) ==
  /\ UsernameAllowed(f) /\ f.email.wellFormed /\ f.password >= 8
  /\ f.name \in {"text", "long"} /\ f.token # "invalid"

(* What is wrong with a form that is told e, in the words of the error:    *)
(* "numeric" and "characters" speak of what a username that is there is     *)
(* made of, "length" of one made of allowed characters.                     *)
Wrong(f, e) ==
  \/ e = "InvalidEmail" /\ ~f.email.wellFormed
  \/ e = "InvalidUsernameEmpty" /\ f.username.len = 0
  \/ e = "InvalidNumericUsernameCharacters"
       /\ f.username.len > 0 /\ f.username.chars \in {"digits", "decimal"}
  \/ e = "InvalidUsernameCharacters" /\ f.username.len > 0 /\ f.username.chars = "other"
  \/ e = "InvalidUsernameLength"
       /\ f.username.len \in Nat \ ({0} \cup 4..10) /\ f.username.chars = "word"
  \/ e = "InvalidPasswordEmpty" /\ f.password = 0
  \/ e = "InvalidPasswordLength" /\ f.password \in 1..7
  \/ e = "InvalidNameEmpty" /\ f.name \in {"empty", "spaces"}
  \/ e = "InvalidRegistrationToken" /\ f.token = "invalid"

(* The fields in the order a form is read: what comes before the field that *)
(* an error is about needs no correction.                                   *)
GoodBefore(f, e) ==
  /\ e # "InvalidEmail" => f.email.wellFormed
  /\ e \in {"InvalidPasswordEmpty", "InvalidPasswordLength", "InvalidNameEmpty",
            "InvalidRegistrationToken"} => UsernameAllowed(f)
  /\ e \in {"InvalidNameEmpty", "InvalidRegistrationToken"} => f.password >= 8
  /\ e = "InvalidRegistrationToken" => f.name \in {"text", "long"}

FaultNamed(f) ==
  Verdict(f) # "ok" => Wrong(f, Verdict(f)) /\ GoodBefore(f, Verdict(f))

(* Whatever order the checks run in, register() goes on to the database    *)
(* exactly for the forms its tests call valid (auth.service.spec.ts:180-319). *)
AcceptsExactlyTheValid == Verdict(form) = "ok" <=> Valid(form)

(* Each of the nine errors is only told to a form that has that very fault, *)
(* as its words say it and not merely by the check that raised it: a length *)
(* is never blamed on an empty username or one of forbidden characters, nor *)
(* "numeric" said of one with a letter; and whoever corrects the field he   *)
(* is told of need not come back to one before it (auth.service.ts:136-184). *)
ErrorNamesTheFault == FaultNamed(form)
=============================================================================
