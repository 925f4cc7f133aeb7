---------------------------- MODULE Registration ----------------------------
(***************************************************************************)
(* Opening accounts: concurrent calls of AuthService.register (the signUp  *)
(* mutation) and of UsersResolver.create over one PostgreSQL database.     *)
(* Every await of the code is a step boundary.  A register() call is the   *)
(* unit of work of UnitOfWork it runs in; a create call is a borrower of   *)
(* the same pool.  A call opens at most one account, so the row of the     *)
(* user table is indexed by the call that inserted it.                     *)
(*                                                                         *)
(* External: PostgreSQL at READ COMMITTED (a query sees committed rows and *)
(* its own; the unique indexes make an insert wait for a rival that is not *)
(* decided and fail on one that committed), TypeORM and the mail services. *)
(***************************************************************************)
EXTENDS SignupValidation, FiniteSets

CONSTANTS SignUps, Creates,    \* the calls of each mutation
          Forms, NoForm,       \* what they submit
          Seeded,              \* codes onModuleInit left in the role and permission tables
          Production,          \* NODE_ENV = 'production': mail.send is not awaited
          FlakyQueries,        \* a statement may fail though its connection is well
          PoolSize, MaxFaults

ASSUME SwitchesAssumption == Production \in BOOLEAN /\ FlakyQueries \in BOOLEAN
ASSUME NoFormAssumption   == NoForm \notin Forms
ASSUME CallsAssumption    == SignUps \cap Creates = {}
ASSUME BoundsAssumption   == PoolSize \in Nat \ {0} /\ MaxFaults \in Nat

VARIABLES phase, tx, promise, held, broken, faults,  \* UnitOfWork's
          pc,      \* where each call stands
          input,   \* the form it was called with
          row,     \* the user row it inserted
          grants,  \* the role and permissions of that row
          err,     \* the error its work threw
          mail,    \* its verification mail
          outcome  \* what its caller was told

U == INSTANCE UnitOfWork WITH Units <- SignUps, Borrowers <- Creates

uvars == <<phase, tx, promise, held, broken, faults>>
vars  == <<phase, tx, promise, held, broken, faults,
           pc, input, row, grants, err, mail, outcome>>

Calls == SignUps \cup Creates

(* What register() grants, and the permission of each of its two steps. *)
SignupGrants == {"NORMAL", "SIGN_IN", "SIGN_UP"}
PermissionOf == [signIn |-> "SIGN_IN", signUp |-> "SIGN_UP"]

(* The order of the awaits of the work. *)
After == [username |-> "email", email |-> "insert", insert |-> "role",
          role |-> "signIn", signIn |-> "signUp", signUp |-> "return"]

WorkSteps == DOMAIN After

PCs == {"idle", "unit"} \cup WorkSteps \cup
       {"return", "complete", "mail", "mailing", "save", "saving", "saved", "done", "dead"}

Refusals == Errors \cup {"ArgumentValidation", "UsernameAlreadyExists",
                         "EmailAlreadyExists", "UserWasNotCreated"}

Outcomes == Refusals \cup {"none", "ok", "EmailSending", "QueryFailed"}

TypeOK ==
  /\ U!TypeOK
  /\ pc \in [Calls -> PCs]
  /\ input \in [Calls -> Forms \cup {NoForm}]
  /\ row \in [Calls -> {"none", "pending", "committed"}]
  /\ grants \in [Calls -> SUBSET SignupGrants]
  /\ err \in [Calls -> {"none", "UsernameExists", "EmailExists", "QueryFailed"}]
  /\ mail \in [Calls -> {"none", "sending", "delivered", "lost"}]
  /\ outcome \in [Calls -> Outcomes]

Init ==
  /\ U!Init
  /\ pc = [c \in Calls |-> "idle"]
  /\ input = [c \in Calls |-> NoForm]
  /\ row = [c \in Calls |-> "none"]
  /\ grants = [c \in Calls |-> {}]
  /\ err = [c \in Calls |-> "none"]
  /\ mail = [c \in Calls |-> "none"]
  /\ outcome = [c \in Calls |-> "none"]

Goto(c, step) == pc' = [pc EXCEPT ![c] = step]

Tell(c, what) == Goto(c, "done") /\ outcome' = [outcome EXCEPT ![c] = what]

(* Another call's row of the given state with the same value in the field. *)
Rival(c, state, field) ==
  \E o \in Calls \ {c} : row[o] = state /\ input[o][field] = input[c][field]

Clash(c, state) == Rival(c, state, "username") \/ Rival(c, state, "email")

-----------------------------------------------------------------------------
(* register() up to its unit of work: the checks are synchronous, and so is *)
(* everything from the last of them to the connection being asked for.      *)

SignUpRejected(r) ==
  /\ pc[r] = "idle"
  /\ \E f \in Forms :
       /\ Verdict(f) # "ok"
       /\ input' = [input EXCEPT ![r] = f]
       /\ Tell(r, Verdict(f))
  /\ UNCHANGED <<uvars, row, grants, err, mail>>

SignUpAccepted(r) ==
  /\ pc[r] = "idle"
  /\ \E f \in Forms : Verdict(f) = "ok" /\ input' = [input EXCEPT ![r] = f]
  /\ U!Start(r) /\ Goto(r, "unit")
  /\ UNCHANGED <<row, grants, err, mail, outcome>>

Connect(r) ==
  /\ U!Connect(r)
  /\ UNCHANGED <<pc, input, row, grants, err, mail, outcome>>

(* uow.start() rejects: the catch of register() has no unit to close. *)
StartFails(r) ==
  /\ U!ConnectFails(r) \/ U!BeginFails(r)
  /\ Tell(r, "UserWasNotCreated")
  /\ UNCHANGED <<input, row, grants, err, mail>>

Begin(r) ==
  /\ U!Begin(r) /\ Goto(r, "username")
  /\ UNCHANGED <<input, row, grants, err, mail, outcome>>

-----------------------------------------------------------------------------
(* The work of the unit: every query goes through the unit's connection. *)

Working(r, step) == pc[r] = step /\ phase[r] = "working" /\ r \notin broken

Throw(r, e) ==
  /\ U!WorkThrows(r) /\ Goto(r, "complete")
  /\ err' = [err EXCEPT ![r] = e]
  /\ UNCHANGED <<input, row, grants, mail, outcome>>

(* UsersService.create: one look-up for the username, one for the email. *)
LookUp(r, field, e) ==
  /\ Working(r, field)
  /\ IF Rival(r, "committed", field)
     THEN Throw(r, e)
     ELSE /\ Goto(r, After[field])
          /\ UNCHANGED <<uvars, input, row, grants, err, mail, outcome>>

(* Mistake: the columns lose their unique constraint (user.entity.ts:37-42). *)
Insert_NotUnique(r) ==
  /\ Working(r, "insert")
  /\ row' = [row EXCEPT ![r] = "pending"]
  /\ Goto(r, After["insert"])
  /\ UNCHANGED <<uvars, input, grants, err, mail, outcome>>

(* repository.save: waits for every rival not decided yet. *)
Insert(r) ==
  /\ Working(r, "insert")
  /\ ~Clash(r, "pending") /\ ~Clash(r, "committed")
  /\ row' = [row EXCEPT ![r] = "pending"]
  /\ Goto(r, After["insert"])
  /\ UNCHANGED <<uvars, input, grants, err, mail, outcome>>

(* Mistake: the insert does not wait for a rival to be decided. *)
InsertViolates_NoWait(r) ==
  /\ Working(r, "insert") /\ (Clash(r, "committed") \/ Clash(r, "pending"))
  /\ Throw(r, "QueryFailed")

(* The unique index refuses the row; it is a plain error to register(). *)
InsertViolates(r) ==
  /\ Working(r, "insert") /\ Clash(r, "committed")
  /\ Throw(r, "QueryFailed")

(* addRole and addPermission: find the row of the code, push it, save the  *)
(* user.  A code that is not there pushes undefined, which save() skips.   *)
AddRole(r, code) == grants' = [grants EXCEPT ![r] = @ \cup ({code} \cap Seeded)]

(* Mistake: a permission is added without waiting for it, and the commit    *)
(* overtakes the last one.                                                  *)
AddPermission_NotAwaited(r, code) ==
  grants' = [grants EXCEPT ![r] = IF code = "SIGN_UP" THEN @ ELSE @ \cup ({code} \cap Seeded)]

(* Mistake: the unit is not passed on, so the queries need a connection of  *)
(* their own while the unit holds one.                                      *)
AddPermission_OutsideUnit(r, code) ==
  U!SlotFree /\ grants' = [grants EXCEPT ![r] = @ \cup ({code} \cap Seeded)]

AddPermission(r, code) == grants' = [grants EXCEPT ![r] = @ \cup ({code} \cap Seeded)]

GrantRole(r) ==
  /\ Working(r, "role")
  /\ AddRole(r, "NORMAL") /\ Goto(r, After["role"])
  /\ UNCHANGED <<uvars, input, row, err, mail, outcome>>

GrantPermission(r, step) ==
  /\ Working(r, step)
  /\ AddPermission(r, PermissionOf[step]) /\ Goto(r, After[step])
  /\ UNCHANGED <<uvars, input, row, err, mail, outcome>>

(* Mistake: the mail is sent at the end of the work, before the commit. *)
WorkReturns_Mails(r) ==
  /\ pc[r] = "return" /\ U!WorkReturns(r) /\ Goto(r, "complete")
  /\ mail' = [mail EXCEPT ![r] = "sending"]
  /\ UNCHANGED <<input, row, grants, err, outcome>>

WorkReturns(r) ==
  /\ pc[r] = "return" /\ U!WorkReturns(r) /\ Goto(r, "complete")
  /\ UNCHANGED <<input, row, grants, err, mail, outcome>>

(* Any query of the work fails: its connection is gone, or it just fails. *)
QueryFails(r) ==
  /\ pc[r] \in WorkSteps /\ (r \in broken \/ FlakyQueries)
  /\ Throw(r, "QueryFailed")

-----------------------------------------------------------------------------
(* complete() decides the unit, and register() goes on from its promise. *)

CommitExecutes(r) ==
  /\ U!CommitExecutes(r)
  /\ row' = [row EXCEPT ![r] = "committed"]
  /\ UNCHANGED <<pc, input, grants, err, mail, outcome>>

CommitReturns(r) ==
  /\ U!CommitReturns(r) /\ Goto(r, "mail")
  /\ UNCHANGED <<input, row, grants, err, mail, outcome>>

(* Mistake: an error of the commit is logged and register() goes on. *)
CommitFails_Ignored(r) ==
  /\ U!CommitFails(r) /\ Goto(r, "mail")
  /\ UNCHANGED <<input, row, grants, err, mail, outcome>>

CommitFails(r) ==
  /\ U!CommitFails(r)
  /\ err' = [err EXCEPT ![r] = "QueryFailed"]
  /\ UNCHANGED <<pc, input, row, grants, mail, outcome>>

(* Mistake: the error of UsersService is passed on as it is. *)
Translated_Raw(e) == e

(* Mistake: the second line of the catch is a copy of the first. *)
Translated_Copied(e) ==
  IF e \in {"UsernameExists", "EmailExists"} THEN "UsernameAlreadyExists" ELSE "UserWasNotCreated"

(* The catch of register(): two errors are translated, the rest is one. *)
Translated(e) == CASE e = "UsernameExists" -> "UsernameAlreadyExists"
                   [] e = "EmailExists"    -> "EmailAlreadyExists"
                   [] OTHER                -> "UserWasNotCreated"

(* Mistake: the connection goes back with its transaction still open. *)
Rollback_LeftOpen(r) ==
  /\ U!Rollback(r)
  /\ Tell(r, Translated(err[r]))
  /\ UNCHANGED <<input, row, grants, err, mail>>

Rollback(r) ==
  /\ U!Rollback(r)
  /\ row' = [row EXCEPT ![r] = "none"]
  /\ grants' = [grants EXCEPT ![r] = {}]
  /\ Tell(r, Translated(err[r]))
  /\ UNCHANGED <<input, err, mail>>

(* The promise is never settled: the call stays where it is. *)
RollbackFails(r) ==
  /\ U!RollbackFails(r)
  /\ UNCHANGED <<pc, input, row, grants, err, mail, outcome>>

-----------------------------------------------------------------------------
(* The verification mail, sent once the account is there. *)

SendMail(r) ==
  /\ pc[r] = "mail"
  /\ mail' = [mail EXCEPT ![r] = "sending"]
  /\ IF Production THEN Tell(r, "ok") ELSE Goto(r, "mailing") /\ UNCHANGED outcome
  /\ UNCHANGED <<uvars, input, row, grants, err>>

(* The mail service, at its own pace. *)
MailArrives(r) ==
  /\ mail[r] = "sending"
  /\ mail' = [mail EXCEPT ![r] = "delivered"]
  /\ UNCHANGED <<uvars, pc, input, row, grants, err, outcome>>

MailIsLost(r) ==
  /\ mail[r] = "sending"
  /\ mail' = [mail EXCEPT ![r] = "lost"]
  /\ UNCHANGED <<uvars, pc, input, row, grants, err, outcome>>

MailReturns(r) ==
  /\ pc[r] = "mailing" /\ mail[r] = "delivered"
  /\ Tell(r, "ok")
  /\ UNCHANGED <<uvars, input, row, grants, err, mail>>

(* An error: of the token, a template or the client's key before anything   *)
(* is sent, in production too; of the sending; or a good answer that is lost. *)
MailThrows(r) ==
  /\ pc[r] = "mail" \/ (pc[r] = "mailing" /\ mail[r] # "sending")
  /\ Tell(r, "EmailSending")
  /\ UNCHANGED <<uvars, input, row, grants, err, mail>>

-----------------------------------------------------------------------------
(* UsersResolver.create: the same UsersService.create without a unit, so    *)
(* each query takes a connection of its own, and save() its own transaction. *)

CreateRejected(d) ==
  /\ pc[d] = "idle"
  /\ \E f \in Forms : ~CreateAccepts(f) /\ input' = [input EXCEPT ![d] = f]
  /\ Tell(d, "ArgumentValidation")
  /\ UNCHANGED <<uvars, row, grants, err, mail>>

CreateAccepted(d) ==
  /\ pc[d] = "idle"
  /\ \E f \in Forms : CreateAccepts(f) /\ input' = [input EXCEPT ![d] = f]
  /\ Goto(d, "username")
  /\ UNCHANGED <<uvars, row, grants, err, mail, outcome>>

(* A look-up needs a connection for one query and is not seen to hold it. *)
CreateLooksUp(d, field, error, next) ==
  /\ pc[d] = field /\ U!SlotFree
  /\ IF Rival(d, "committed", field)
     THEN Tell(d, error)
     ELSE Goto(d, next) /\ UNCHANGED outcome
  /\ UNCHANGED <<uvars, input, row, grants, err, mail>>

CreateConnects(d) ==
  /\ pc[d] = "save" /\ U!Borrow(d) /\ Goto(d, "saving")
  /\ UNCHANGED <<input, row, grants, err, mail, outcome>>

CreateInserts(d) ==
  /\ pc[d] = "saving"
  /\ ~Clash(d, "pending") /\ ~Clash(d, "committed")
  /\ row' = [row EXCEPT ![d] = "pending"]
  /\ Goto(d, "saved")
  /\ UNCHANGED <<uvars, input, grants, err, mail, outcome>>

CreateCommits(d) ==
  /\ pc[d] = "saved" /\ row[d] = "pending"
  /\ row' = [row EXCEPT ![d] = "committed"]
  /\ UNCHANGED <<uvars, pc, input, grants, err, mail, outcome>>

CreateReturns(d) ==
  /\ pc[d] = "saved" /\ row[d] = "committed"
  /\ U!GiveBack(d) /\ Tell(d, "ok")
  /\ UNCHANGED <<input, row, grants, err, mail>>

CreateFails(d) ==
  /\ \/ pc[d] = "saving" /\ Clash(d, "committed") /\ U!GiveBack(d)
     \/ pc[d] \in {"saving", "saved"} /\ U!BorrowerBreaks(d)
  /\ row' = [row EXCEPT ![d] = IF @ = "pending" THEN "none" ELSE @]
  /\ Tell(d, "QueryFailed")
  /\ UNCHANGED <<input, grants, err, mail>>

-----------------------------------------------------------------------------
(* The environment. *)

Undone(c) == row[c] = "pending"

Break(r) ==
  /\ U!Break(r)
  /\ row' = [row EXCEPT ![r] = IF Undone(r) THEN "none" ELSE @]
  /\ grants' = [grants EXCEPT ![r] = IF Undone(r) THEN {} ELSE @]
  /\ UNCHANGED <<pc, input, err, mail, outcome>>

(* The process dies: no call under way is ever answered; the mail already   *)
(* handed over and the committed rows are out of its reach.                 *)
Crash ==
  /\ U!Crash
  /\ pc' = [c \in Calls |-> IF pc[c] \in {"idle", "done"} THEN pc[c] ELSE "dead"]
  /\ row' = [c \in Calls |-> IF Undone(c) THEN "none" ELSE row[c]]
  /\ grants' = [c \in Calls |-> IF Undone(c) THEN {} ELSE grants[c]]
  /\ UNCHANGED <<input, err, mail, outcome>>

-----------------------------------------------------------------------------
(* What a call does once it was made, faults aside. *)
SignUpStep(r) ==
  \/ Connect(r) \/ Begin(r)
  \/ LookUp(r, "username", "UsernameExists") \/ LookUp(r, "email", "EmailExists")
  \/ Insert(r) \/ InsertViolates(r) \/ QueryFails(r)
  \/ GrantRole(r) \/ GrantPermission(r, "signIn") \/ GrantPermission(r, "signUp")
  \/ WorkReturns(r)
  \/ CommitExecutes(r) \/ CommitReturns(r) \/ CommitFails(r)
  \/ Rollback(r) \/ RollbackFails(r)
  \/ SendMail(r) \/ MailReturns(r) \/ MailThrows(r)

MailStep(r) == MailArrives(r) \/ MailIsLost(r)

CreateStep(d) ==
  \/ CreateLooksUp(d, "username", "UsernameAlreadyExists", "email")
  \/ CreateLooksUp(d, "email", "EmailAlreadyExists", "save")
  \/ CreateConnects(d) \/ CreateInserts(d) \/ CreateCommits(d)
  \/ CreateReturns(d) \/ CreateFails(d)

Next ==
  \/ \E r \in SignUps : \/ SignUpRejected(r) \/ SignUpAccepted(r) \/ SignUpStep(r)
                        \/ MailStep(r) \/ StartFails(r) \/ Break(r)
  \/ \E d \in Creates : CreateRejected(d) \/ CreateAccepted(d) \/ CreateStep(d)
  \/ Crash

SafeSpec == Init /\ [][Next]_vars

(* Every await ends.  With finitely many calls a slot that comes back is in *)
(* the end free for whoever still waits, so weak fairness is enough.        *)
Fairness ==
  /\ \A r \in SignUps : WF_vars(SignUpStep(r)) /\ WF_vars(MailStep(r))
  /\ \A d \in Creates : WF_vars(CreateStep(d))

Spec == SafeSpec /\ Fairness

-----------------------------------------------------------------------------
(* Properties. *)

(* An account that sign-up opened has the role and both permissions: the    *)
(* transaction of auth.service.ts:194-211 is never seen half done.          *)
WholeAccounts ==
  \A r \in SignUps : row[r] = "committed" => grants[r] = SignupGrants \cap Seeded

(* The caller of register() is never told the opposite of what the database *)
(* keeps: success, or the mail error, comes with a committed account, and   *)
(* every other error with none, whenever the connection was lost.           *)
HonestReply ==
  \A r \in SignUps : /\ outcome[r] \in {"ok", "EmailSending"} => row[r] = "committed"
                     /\ outcome[r] \in Refusals => row[r] = "none"

(* "Already exists" is said of a value some committed account has: never of *)
(* one that a rival asked for and then did not get (users.service.ts:30-41). *)
ExistsErrorsAreTrue ==
  \A c \in Calls :
    /\ outcome[c] = "UsernameAlreadyExists" => Rival(c, "committed", "username")
    /\ outcome[c] = "EmailAlreadyExists" => Rival(c, "committed", "email")

(* Where nothing fails, the error without a reason still has one: the name   *)
(* or the email went to another call between look-up and insert.  A call is  *)
(* never refused because of a rival that is refused too (auth.service.ts:217). *)
RefusalHasCause ==
  faults = 0 /\ ~FlakyQueries =>
    \A r \in SignUps : outcome[r] = "UserWasNotCreated" => Clash(r, "committed")

(* A verification mail is only under way for an account that is there for   *)
(* good: never for one a rollback takes back (auth.service.ts:212-222).      *)
MailFollowsCommit == \A r \in SignUps : mail[r] # "none" => row[r] = "committed"

(* A row that makes other inserts wait has a call behind it that has a       *)
(* connection of its own and is on its way to commit or rollback: waiting    *)
(* for a row and waiting for a connection never close a circle.              *)
PendingRowsHaveAnOwner ==
  \A c \in Calls : row[c] = "pending" =>
    /\ c \in held
    /\ c \in SignUps => tx[c] = "open" /\ c \notin broken

(* Faults or not, nobody waits for ever behind an undecided row. *)
EveryRowIsDecided == \A c \in Calls : row[c] = "pending" ~> row[c] # "pending"

(* Every call is answered unless there is a fault, though some wait for the  *)
(* rows and some for the connections of others (auth.service.ts:194-211).    *)
EveryCallSettles == \A c \in Calls : pc[c] # "idle" ~> pc[c] = "done" \/ faults > 0

-----------------------------------------------------------------------------
(* The abstract account opening this implements. *)

Reply(what) == CASE what \in {"ok", "EmailSending"} -> "opened"
                 [] what \in Refusals               -> "refused"
                 [] what = "QueryFailed"            -> "unsure"
                 [] OTHER                           -> "none"

Accounts == {[owner |-> c, username |-> input[c].username, email |-> input[c].email,
              grants |-> grants[c]] : c \in {d \in Calls : row[d] = "committed"}}

Abstract == INSTANCE AtomicSignup WITH
  Unsure <- Creates,
  Grants <- [c \in Calls |-> IF c \in SignUps THEN SignupGrants \cap Seeded ELSE {}],
  claim <- input, accounts <- Accounts, reply <- [c \in Calls |-> Reply(outcome[c])]

(* Seen from outside, an account opens in one step or not at all, and every  *)
(* answer is true when given and stays true.                                 *)
OpensAtomically == Abstract!Spec
=============================================================================
