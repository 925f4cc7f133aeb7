---------------------------- MODULE MCAuthSystem ----------------------------
(* Two servers and an editor over tables of one role and one permission. *)
EXTENDS AuthSystem, TLC

CONSTANTS n1, e1

TheRoles        == {"NORMAL"}
ThePermissions  == {"SIGN_IN"}
TheSignupGrants == TheRoles \cup ThePermissions

(* The codes, and one as an editor may write it. *)
TheSpellings == TheSignupGrants \cup {"normal"}
ToUpperCase  == [s \in TheSpellings |-> IF s = "normal" THEN "NORMAL" ELSE s]

(* All sign-ups want one account. *)
OneForm == {[username |-> n1, email |-> e1]}
=============================================================================
