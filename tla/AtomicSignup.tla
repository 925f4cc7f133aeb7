---------------------------- MODULE AtomicSignup ----------------------------
(***************************************************************************)
(* What opening an account promises, with no transaction, no connection    *)
(* and no query in sight: an account appears whole and at once, under a    *)
(* username and an email nobody else has, and a call is told "opened" or   *)
(* "refused" according to whether its account exists - for ever, since a   *)
(* call that was answered opens nothing any more.  Calls in Unsure may     *)
(* also be told that something went wrong and nothing more.                *)
(***************************************************************************)
CONSTANTS Calls, Forms, NoForm, Unsure,
          Grants  \* the roles and permissions an account of each call has

VARIABLES claim,    \* the form each call submitted
          accounts, \* the accounts there are
          reply     \* what each call was told

vars == <<claim, accounts, reply>>

Init ==
  /\ claim = [c \in Calls |-> NoForm]
  /\ accounts = {}
  /\ reply = [c \in Calls |-> "none"]

Account(c) == [owner |-> c, username |-> claim[c].username,
               email |-> claim[c].email, grants |-> Grants[c]]

Opened(c) == \E a \in accounts : a.owner = c

Ask(c) ==
  /\ claim[c] = NoForm
  /\ \E f \in Forms : claim' = [claim EXCEPT ![c] = f]
  /\ UNCHANGED <<accounts, reply>>

(* A form that fails the checks is refused as it is submitted. *)
Turn(c) ==
  /\ claim[c] = NoForm
  /\ \E f \in Forms : claim' = [claim EXCEPT ![c] = f]
  /\ reply' = [reply EXCEPT ![c] = "refused"]
  /\ UNCHANGED accounts

Open(c) ==
  /\ claim[c] # NoForm /\ reply[c] = "none" /\ ~Opened(c)
  /\ \A a \in accounts : a.username # claim[c].username /\ a.email # claim[c].email
  /\ accounts' = accounts \cup {Account(c)}
  /\ UNCHANGED <<claim, reply>>

Answer(c) ==
  /\ claim[c] # NoForm /\ reply[c] = "none"
  /\ \/ reply' = [reply EXCEPT ![c] = IF Opened(c) THEN "opened" ELSE "refused"]
     \/ c \in Unsure /\ reply' = [reply EXCEPT ![c] = "unsure"]
  /\ UNCHANGED <<claim, accounts>>

Next == \E c \in Calls : Ask(c) \/ Turn(c) \/ Open(c) \/ Answer(c)

Spec == Init /\ [][Next]_vars
=============================================================================
