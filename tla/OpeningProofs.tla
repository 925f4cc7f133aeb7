---------------------------- MODULE OpeningProofs ----------------------------
(***************************************************************************)
(* What the callers of both mutations are told of their rivals, and that   *)
(* accounts open atomically, proved for any calls, forms, pool and faults. *)
(*                                                                         *)
(* The argument: whatever a step does, seen from the accounts it is hidden, *)
(* or the insert, the commit, the call or the answer of one call (Kinds).  *)
(* So committed rows and what was submitted stay, no two calls have a row  *)
(* of one username or email (UniqueInv), and a rival that once explained   *)
(* an error explains it for ever (CauseInv, SaidInv).                      *)
(***************************************************************************)
EXTENDS RegistrationProofs

(* A call has submitted something from the moment it is made. *)
InputInv(c) == pc[c] = "idle" <=> input[c] = NoForm

(* The unique indexes: nobody else has a row with that username or email. *)
UniqueInv ==
  \A c, d \in Calls : c # d /\ row[c] # "none" /\ row[d] # "none" =>
    input[c].username # input[d].username /\ input[c].email # input[d].email

Faultless == faults = 0 /\ ~FlakyQueries

(* The error the work threw has the cause it names. *)
CauseInv(r) ==
  /\ pc[r] = "idle" => err[r] = "none"
  /\ phase[r] = "rolling" => err[r] # "none"
  /\ err[r] = "UsernameExists" => Rival(r, "committed", "username")
  /\ err[r] = "EmailExists" => Rival(r, "committed", "email")
  /\ err[r] = "QueryFailed" /\ Faultless => Clash(r, "committed")

(* And so has what the caller was told. *)
SaidInv(c) ==
  /\ outcome[c] = "UsernameAlreadyExists" => Rival(c, "committed", "username")
  /\ outcome[c] = "EmailAlreadyExists" => Rival(c, "committed", "email")
  /\ c \in SignUps /\ outcome[c] = "UserWasNotCreated" /\ Faultless => Clash(c, "committed")

(* A connection is lost only by a fault. *)
BrokenInv == broken # {} => faults > 0

OpenInv ==
  /\ \A c \in Calls : InputInv(c) /\ SaidInv(c)
  /\ UniqueInv /\ BrokenInv
  /\ \A r \in SignUps : CauseInv(r)
-----------------------------------------------------------------------------
(* What a step does to the accounts. *)

Assumed == TypeOK /\ UP!Staged /\ CallInv

(* No call is made, no account opens or goes, no row appears. *)
Keeps ==
  /\ UNCHANGED input
  /\ \A c \in Calls : /\ pc'[c] = "idle" <=> pc[c] = "idle"
                      /\ row'[c] = "committed" <=> row[c] = "committed"
                      /\ row[c] = "committed" => grants'[c] = grants[c]
                      /\ row'[c] # "none" => row[c] # "none"

Hidden == Keeps /\ UNCHANGED outcome

(* The step takes call c from one place of its work to another. *)
Goes(c) == /\ pc[c] # "idle" /\ UNCHANGED <<input, outcome, grants>>
               /\ \A d \in Calls : pc'[d] = "idle" <=> pc[d] = "idle"

Inserting(c) ==
  /\ Goes(c) /\ row' = [row EXCEPT ![c] = "pending"]
  /\ row[c] = "none" /\ ~Clash(c, "pending") /\ ~Clash(c, "committed")

(* The role and permissions an account of the call has. *)
Granted(c) == IF c \in SignUps THEN SignupGrants \cap Seeded ELSE {}

Committing(c) ==
  /\ Goes(c) /\ row' = [row EXCEPT ![c] = "committed"]
  /\ row[c] = "pending" /\ outcome[c] = "none" /\ grants[c] = Granted(c)

Asking(c) ==
  /\ pc[c] = "idle" /\ row[c] = "none" /\ outcome[c] = "none"
  /\ \A d \in Calls : pc'[d] = "idle" <=> pc[d] = "idle" /\ d # c
  /\ \E f \in Forms : input' = [input EXCEPT ![c] = f]
  /\ \/ UNCHANGED outcome
     \/ \E e \in Errors \cup {"ArgumentValidation"} : outcome' = [outcome EXCEPT ![c] = e]
  /\ UNCHANGED <<row, grants>>

Telling(c) ==
  /\ Keeps /\ pc[c] # "idle" /\ outcome[c] = "none"
  /\ \E what \in Outcomes \ {"none"} : outcome' = [outcome EXCEPT ![c] = what]

Kind == Hidden \/ \E c \in Calls : Inserting(c) \/ Committing(c) \/ Asking(c) \/ Telling(c)

LEMMA IsHidden ==
  ASSUME Assumed, NEW c \in Calls, NEW step, step # "idle", pc[c] # "idle", Goto(c, step),
         UNCHANGED <<input, row, outcome>>,
         \/ grants' = grants
         \/ row[c] # "committed" /\ \A d \in Calls : d # c => grants'[d] = grants[d]
  PROVE  Hidden
  BY DEF Assumed, TypeOK, Goto, Hidden, Keeps

LEMMA StaysHidden ==
  ASSUME UNCHANGED <<pc, input, row, grants, outcome>>
  PROVE  Hidden
  BY DEF Hidden, Keeps

LEMMA IsTold ==
  ASSUME Assumed, NEW c \in Calls, NEW what \in Outcomes \ {"none"}, pc[c] # "idle", Tell(c, what),
         outcome[c] = "none", UNCHANGED input,
         \/ UNCHANGED <<row, grants>>
         \/ /\ row[c] # "committed" /\ row'[c] = "none"
            /\ \A d \in Calls : d # c => row'[d] = row[d] /\ grants'[d] = grants[d]
  PROVE  Telling(c)
  BY DEF Assumed, TypeOK, Goto, Tell, Telling, Keeps

(* Calls are made. *)
LEMMA CallKinds ==
  ASSUME Assumed,
         \/ \E r \in SignUps : SignUpRejected(r) \/ SignUpAccepted(r)
         \/ \E d \in Creates : CreateRejected(d) \/ CreateAccepted(d)
  PROVE  \E c \in Calls : Asking(c)
<1>0. /\ SignUps \subseteq Calls /\ Creates \subseteq Calls
      /\ pc \in [Calls -> PCs] /\ outcome \in [Calls -> Outcomes]
  BY DEF Assumed, TypeOK, Calls
<1>1. ASSUME NEW c \in Calls, pc[c] = "idle" PROVE row[c] = "none" /\ outcome[c] = "none"
  <2>1. CASE c \in SignUps
    <3>1. phase[c] = "new" /\ tx[c] = "none"
      BY <1>1, <2>1, StageOf DEF Assumed, CallInv, SignUpInv, Place
    <3>2. row[c] \in {"none", "pending", "committed"}
      BY DEF Assumed, TypeOK
    <3> QED
      BY <1>1, <2>1, <3>1, <3>2 DEF Assumed, CallInv, SignUpInv, RowFollows, AnswerFits
  <2>2. CASE c \in Creates
    BY <1>1, <2>2 DEF Assumed, CallInv, CreateInv
  <2> QED
    BY <2>1, <2>2 DEF Calls
<1>2. ASSUME NEW r \in SignUps, SignUpRejected(r) PROVE Asking(r)
  <2>1. PICK f \in Forms : /\ Verdict(f) # "ok" /\ input' = [input EXCEPT ![r] = f]
                           /\ Tell(r, Verdict(f))
    BY <1>2 DEF SignUpRejected
  <2>2. Verdict(f) \in Errors
    BY <2>1, VerdictType
  <2>3. pc[r] = "idle" /\ pc' = [pc EXCEPT ![r] = "done"] /\ UNCHANGED <<row, grants>>
        /\ outcome' = [outcome EXCEPT ![r] = Verdict(f)]
    BY <1>2, <2>1 DEF SignUpRejected, Tell, Goto
  <2> QED
    BY <1>0, <1>1, <2>1, <2>2, <2>3 DEF Asking
<1>3. ASSUME NEW r \in SignUps, SignUpAccepted(r) PROVE Asking(r)
  BY <1>0, <1>1, <1>3 DEF SignUpAccepted, Goto, Asking
<1>4. ASSUME NEW d \in Creates, CreateRejected(d) \/ CreateAccepted(d) PROVE Asking(d)
  BY <1>0, <1>1, <1>4 DEF CreateRejected, CreateAccepted, Goto, Tell, Asking
<1> QED
  BY <1>0, <1>2, <1>3, <1>4

(* The work of a unit, up to its end. *)
LEMMA WorkKinds ==
  ASSUME Assumed, NEW r \in SignUps,
         \/ Connect(r) \/ Begin(r) \/ InsertViolates(r) \/ QueryFails(r)
         \/ LookUp(r, "username", "UsernameExists") \/ LookUp(r, "email", "EmailExists")
         \/ Insert(r) \/ GrantRole(r) \/ GrantPermission(r, "signIn") \/ GrantPermission(r, "signUp")
         \/ WorkReturns(r)
  PROVE  Hidden \/ Inserting(r)
<1>0. /\ r \in Calls /\ pc \in [Calls -> PCs] /\ grants \in [Calls -> SUBSET SignupGrants]
      /\ row[r] \in {"none", "pending", "committed"}
  BY DEF Assumed, TypeOK, Calls
<1>1. /\ pc[r] \in WorkSteps \cup {"return"} => phase[r] = "working"
      /\ pc[r] = "idle" => phase[r] = "new"
      /\ row[r] = "pending" => pc[r] \in Inserted \cup {"complete"}
      /\ row[r] = "committed" <=> tx[r] = "committed"
  BY DEF Assumed, CallInv, SignUpInv, Place, RowFollows
<1>2. phase[r] = "working" /\ r \notin broken => row[r] # "committed"
  BY <1>1, StageOf DEF Assumed
<1>3. ASSUME NEW e, Throw(r, e), pc[r] # "idle" PROVE Hidden
  BY <1>0, <1>3, IsHidden DEF Throw
<1>4. ASSUME NEW field \in {"username", "email"}, NEW e, LookUp(r, field, e) PROVE Hidden
  <2>1. pc[r] = field
    BY <1>4 DEF LookUp, Working
  <2>2. CASE Throw(r, e)
    BY <1>3, <2>1, <2>2
  <2>3. CASE Goto(r, After[field]) /\ UNCHANGED <<uvars, input, row, grants, err, mail, outcome>>
    <3>1. After[field] # "idle"
      BY DEF After
    <3> QED
      BY <1>0, <2>1, <2>3, <3>1, IsHidden
  <2> QED
    BY <1>4, <2>2, <2>3 DEF LookUp
<1>5. CASE InsertViolates(r) \/ QueryFails(r)
  BY <1>3, <1>5 DEF InsertViolates, QueryFails, Working, WorkSteps, After
<1>6. CASE Connect(r)
  BY <1>6, StaysHidden DEF Connect
<1>7. CASE Begin(r)
  <2>1. pc[r] # "idle"
    BY <1>1, <1>7 DEF Begin, U!Begin
  <2> QED
    BY <1>0, <1>7, <2>1, IsHidden DEF Begin
<1>8. CASE Insert(r)
  <2>1. /\ pc[r] = "insert" /\ phase[r] = "working" /\ r \notin broken
        /\ ~Clash(r, "pending") /\ ~Clash(r, "committed")
        /\ row' = [row EXCEPT ![r] = "pending"]
        /\ pc' = [pc EXCEPT ![r] = "role"]
        /\ UNCHANGED <<input, grants, outcome>>
    BY <1>8 DEF Insert, Working, Goto, After
  <2>2. row[r] = "none"
    BY <1>0, <1>1, <1>2, <2>1 DEF Inserted
  <2> QED
    BY <1>0, <2>1, <2>2 DEF Inserting, Goes
<1>9. ASSUME NEW step \in {"role", "signIn", "signUp"}, NEW code,
             Working(r, step), Goto(r, After[step]), AddPermission(r, code),
             UNCHANGED <<input, row, outcome>>
      PROVE  Hidden
  <2>1. pc[r] = step /\ row[r] # "committed" /\ After[step] # "idle"
    BY <1>2, <1>9 DEF Working, After
  <2>2. \A d \in Calls : d # r => grants'[d] = grants[d]
    BY <1>0, <1>9 DEF AddPermission
  <2> QED
    BY <1>0, <1>9, <2>1, <2>2, IsHidden
<1>10. CASE GrantRole(r)
  BY <1>9, <1>10 DEF GrantRole, AddRole, AddPermission
<1>11. CASE GrantPermission(r, "signIn") \/ GrantPermission(r, "signUp")
  BY <1>9, <1>11 DEF GrantPermission
<1>12. CASE WorkReturns(r)
  BY <1>0, <1>12, IsHidden DEF WorkReturns
<1> QED
  BY <1>4, <1>5, <1>6, <1>7, <1>8, <1>10, <1>11, <1>12

(* Its end, and the mail. *)
LEMMA EndKinds ==
  ASSUME Assumed, NEW r \in SignUps,
         \/ CommitExecutes(r) \/ CommitReturns(r) \/ CommitFails(r) \/ Rollback(r)
         \/ RollbackFails(r) \/ SendMail(r) \/ MailReturns(r) \/ MailThrows(r) \/ MailStep(r)
         \/ StartFails(r) \/ Break(r)
  PROVE  Hidden \/ Committing(r) \/ Telling(r)
<1>0. /\ r \in Calls /\ pc \in [Calls -> PCs] /\ grants \in [Calls -> SUBSET SignupGrants]
      /\ row \in [Calls -> {"none", "pending", "committed"}]
      /\ {"ok", "EmailSending", "UserWasNotCreated"} \subseteq Outcomes \ {"none"}
  BY DEF Assumed, TypeOK, Calls, Outcomes, Refusals
<1>1. SignUpInv(r)
  BY DEF Assumed, CallInv
<1>2. /\ pc[r] # "done" => outcome[r] = "none"
      /\ phase[r] \in {"connecting", "beginning", "committing", "rolling"} => pc[r] \notin {"idle", "done"}
  BY <1>0, <1>1 DEF SignUpInv, Place, AnswerFits
<1>3. CASE CommitExecutes(r)
  <2>1. /\ phase[r] = "committing" /\ tx[r] = "open"
        /\ row' = [row EXCEPT ![r] = "committed"]
        /\ UNCHANGED <<pc, input, grants, outcome>>
    BY <1>3 DEF CommitExecutes, U!CommitExecutes
  <2>2. row[r] = "pending" /\ grants[r] = Granted(r)
    BY <1>1, <2>1 DEF SignUpInv, RowFollows, GrantsFollow, Granted
  <2> QED
    BY <1>2, <2>1, <2>2 DEF Committing, Goes
<1>4. CASE CommitReturns(r)
  BY <1>0, <1>2, <1>4, IsHidden DEF CommitReturns, U!CommitReturns
<1>5. CASE CommitFails(r) \/ RollbackFails(r) \/ MailStep(r)
  BY <1>5, StaysHidden DEF CommitFails, RollbackFails, MailStep, MailArrives, MailIsLost
<1>6. CASE Rollback(r)
  <2>1. /\ phase[r] = "rolling" /\ r \notin broken
        /\ row' = [row EXCEPT ![r] = "none"] /\ grants' = [grants EXCEPT ![r] = {}]
        /\ Tell(r, Translated(err[r])) /\ UNCHANGED input
    BY <1>6 DEF Rollback, U!Rollback
  <2>2. Translated(err[r]) \in Outcomes \ {"none"}
    BY DEF Translated, Outcomes, Refusals
  <2>3. row[r] # "committed"
    <3>1. tx[r] = "open"
      BY <2>1, StageOf DEF Assumed
    <3> QED
      BY <1>1, <3>1 DEF SignUpInv, RowFollows
  <2>4. /\ row'[r] = "none"
        /\ \A d \in Calls : d # r => row'[d] = row[d] /\ grants'[d] = grants[d]
    BY <1>0, <2>1
  <2> QED
    BY <1>0, <1>2, <2>1, <2>2, <2>3, <2>4, IsTold
<1>7. CASE SendMail(r)
  BY <1>0, <1>2, <1>7, IsTold, IsHidden DEF SendMail
<1>8. CASE MailReturns(r) \/ MailThrows(r)
  BY <1>0, <1>2, <1>8, IsTold DEF MailReturns, MailThrows
<1>9. CASE StartFails(r)
  <2>1. phase[r] \in {"connecting", "beginning"} /\ Tell(r, "UserWasNotCreated")
        /\ UNCHANGED <<input, row, grants>>
    BY <1>9 DEF StartFails, U!ConnectFails, U!BeginFails
  <2> QED
    BY <1>0, <1>2, <2>1, IsTold
<1>10. CASE Break(r)
  <2>1. /\ row' = [row EXCEPT ![r] = IF row[r] = "pending" THEN "none" ELSE row[r]]
        /\ grants' = [grants EXCEPT ![r] = IF row[r] = "pending" THEN {} ELSE grants[r]]
        /\ UNCHANGED <<pc, input, outcome>>
    BY <1>10 DEF Break, Undone
  <2> QED
    BY <1>0, <2>1 DEF Hidden, Keeps
<1> QED
  BY <1>3, <1>4, <1>5, <1>6, <1>7, <1>8, <1>9, <1>10

(* The create mutation. *)
LEMMA CreateKinds ==
  ASSUME Assumed, NEW d \in Creates, CreateStep(d)
  PROVE  Hidden \/ Inserting(d) \/ Committing(d) \/ Telling(d)
<1>0. /\ d \in Calls /\ pc \in [Calls -> PCs] /\ grants \in [Calls -> SUBSET SignupGrants]
      /\ row \in [Calls -> {"none", "pending", "committed"}]
      /\ {"ok", "QueryFailed", "UsernameAlreadyExists", "EmailAlreadyExists"}
            \subseteq Outcomes \ {"none"}
  BY DEF Assumed, TypeOK, Calls, Outcomes, Refusals
<1>1. CreateInv(d)
  BY DEF Assumed, CallInv
<1>2. ASSUME NEW field \in {"username", "email"}, NEW next \in {"email", "save"},
             NEW e \in {"UsernameAlreadyExists", "EmailAlreadyExists"},
             CreateLooksUp(d, field, e, next)
      PROVE  Hidden \/ Telling(d)
  <2>1. /\ pc[d] = field /\ outcome[d] = "none" /\ UNCHANGED <<input, row, grants>>
        /\ Tell(d, e) \/ (Goto(d, next) /\ UNCHANGED outcome)
    BY <1>1, <1>2 DEF CreateLooksUp, CreateInv
  <2>2. CASE Tell(d, e)
    BY <1>0, <2>1, <2>2, IsTold
  <2>3. CASE Goto(d, next) /\ UNCHANGED outcome
    BY <1>0, <2>1, <2>3, IsHidden
  <2> QED
    BY <2>1, <2>2, <2>3
<1>3. CASE CreateConnects(d)
  BY <1>0, <1>3, IsHidden DEF CreateConnects
<1>4. CASE CreateInserts(d)
  <2>1. row[d] = "none"
    BY <1>1, <1>4 DEF CreateInserts, CreateInv
  <2> QED
    BY <1>0, <1>4, <2>1 DEF CreateInserts, Goto, Inserting, Goes
<1>5. CASE CreateCommits(d)
  <2>1. outcome[d] = "none" /\ grants[d] = Granted(d) /\ pc[d] # "idle"
    BY <1>1, <1>5, CallsAssumption DEF CreateCommits, CreateInv, Granted
  <2> QED
    BY <1>5, <2>1 DEF CreateCommits, Committing, Goes
<1>6. CASE CreateReturns(d)
  BY <1>0, <1>1, <1>6, IsTold DEF CreateReturns, CreateInv
<1>7. CASE CreateFails(d)
  <2>1. /\ pc[d] \in {"saving", "saved"} /\ Tell(d, "QueryFailed") /\ outcome[d] = "none"
        /\ UNCHANGED <<input, grants>>
        /\ row' = [row EXCEPT ![d] = IF row[d] = "pending" THEN "none" ELSE row[d]]
    BY <1>1, <1>7 DEF CreateFails, CreateInv
  <2>2. CASE row[d] = "pending"
    BY <1>0, <2>1, <2>2, IsTold
  <2>3. CASE row[d] # "pending"
    <3>1. row' = row
      BY <1>0, <2>1, <2>3
    <3> QED
      BY <1>0, <2>1, <3>1, IsTold
  <2> QED
    BY <2>2, <2>3
<1> QED
  BY <1>2, <1>3, <1>4, <1>5, <1>6, <1>7 DEF CreateStep

LEMMA Kinds ==
  ASSUME Assumed, [Next]_vars
  PROVE  Kind
<1>0. SignUps \subseteq Calls /\ Creates \subseteq Calls
  BY DEF Calls
<1>1. ASSUME NEW r \in SignUps, SignUpStep(r) \/ MailStep(r) \/ StartFails(r) \/ Break(r)
      PROVE  Kind
  BY <1>0, <1>1, WorkKinds, EndKinds DEF SignUpStep, Kind
<1>2. ASSUME NEW d \in Creates, CreateStep(d) PROVE Kind
  BY <1>0, <1>2, CreateKinds DEF Kind
<1>3. CASE Crash
  <2>1. /\ pc' = [c \in Calls |-> IF pc[c] \in {"idle", "done"} THEN pc[c] ELSE "dead"]
        /\ row' = [c \in Calls |-> IF row[c] = "pending" THEN "none" ELSE row[c]]
        /\ grants' = [c \in Calls |-> IF row[c] = "pending" THEN {} ELSE grants[c]]
        /\ UNCHANGED <<input, outcome>>
    BY <1>3 DEF Crash, Undone
  <2>2. Hidden
    BY <2>1 DEF Hidden, Keeps
  <2> QED
    BY <2>2 DEF Kind
<1>4. CASE UNCHANGED vars
  BY <1>4, StaysHidden DEF vars, Kind
<1> QED
  BY <1>1, <1>2, <1>3, <1>4, CallKinds DEF Next, Kind

-----------------------------------------------------------------------------
(* What was submitted stays, and so do the accounts. *)
Stay ==
  \A c \in Calls :
    /\ pc[c] # "idle" => pc'[c] # "idle" /\ input'[c] = input[c]
    /\ row[c] = "committed" =>
         row'[c] = "committed" /\ input'[c] = input[c] /\ grants'[c] = grants[c]

LEMMA KindsStay ==
  ASSUME Assumed, Kind
  PROVE  Stay
<1>0. /\ row \in [Calls -> {"none", "pending", "committed"}]
      /\ input \in [Calls -> Forms \cup {NoForm}]
  BY DEF Assumed, TypeOK
<1>1. CASE Hidden
  BY <1>1 DEF Hidden, Keeps, Stay
<1>2. ASSUME NEW c \in Calls, Inserting(c) \/ Committing(c) PROVE Stay
  BY <1>0, <1>2 DEF Inserting, Committing, Goes, Stay
<1>3. ASSUME NEW c \in Calls, Asking(c) PROVE Stay
  BY <1>0, <1>3 DEF Asking, Stay
<1>4. ASSUME NEW c \in Calls, Telling(c) PROVE Stay
  BY <1>4 DEF Telling, Keeps, Stay
<1> QED
  BY <1>1, <1>2, <1>3, <1>4 DEF Kind

(* So a rival with an account remains one. *)
LEMMA RivalStays ==
  ASSUME Stay, NEW c \in Calls, pc[c] # "idle"
  PROVE  /\ \A field \in {"username", "email"} :
              Rival(c, "committed", field) => Rival(c, "committed", field)'
         /\ Clash(c, "committed") => Clash(c, "committed")'
<1>1. ASSUME NEW field \in {"username", "email"}, Rival(c, "committed", field)
      PROVE  Rival(c, "committed", field)'
  BY <1>1 DEF Stay, Rival
<1> QED
  BY <1>1 DEF Clash

LEMMA InputNext ==
  ASSUME Assumed, Kind, \A c \in Calls : InputInv(c)
  PROVE  \A c \in Calls : InputInv(c)'
<1>1. CASE Hidden
  BY <1>1 DEF Hidden, Keeps, InputInv
<1>2. ASSUME NEW c \in Calls, Inserting(c) \/ Committing(c) PROVE \A d \in Calls : InputInv(d)'
  BY <1>2 DEF Inserting, Committing, Goes, InputInv
<1>3. ASSUME NEW c \in Calls, Asking(c) PROVE \A d \in Calls : InputInv(d)'
  <2>1. PICK f \in Forms : input' = [input EXCEPT ![c] = f]
    BY <1>3 DEF Asking
  <2>2. input'[c] # NoForm /\ \A d \in Calls : d # c => input'[d] = input[d]
    BY <2>1, NoFormAssumption DEF Assumed, TypeOK
  <2> QED
    BY <1>3, <2>2 DEF Asking, InputInv
<1>4. ASSUME NEW c \in Calls, Telling(c) PROVE \A d \in Calls : InputInv(d)'
  BY <1>4 DEF Telling, Keeps, InputInv
<1> QED
  BY <1>1, <1>2, <1>3, <1>4 DEF Kind

LEMMA UniqueNext ==
  ASSUME Assumed, Kind, UniqueInv
  PROVE  UniqueInv'
<1>0. /\ row \in [Calls -> {"none", "pending", "committed"}]
      /\ input \in [Calls -> Forms \cup {NoForm}]
  BY DEF Assumed, TypeOK
<1>1. ASSUME UNCHANGED input, \A c \in Calls : row'[c] # "none" => row[c] # "none"
      PROVE  UniqueInv'
  BY <1>1 DEF UniqueInv
<1>2. ASSUME NEW c \in Calls, Inserting(c) PROVE UniqueInv'
  <2>1. /\ input' = input
        /\ \A d \in Calls : d # c => row'[d] = row[d]
    BY <1>0, <1>2 DEF Inserting, Goes
  <2>2. \A d \in Calls : d # c /\ row[d] # "none" =>
          input[d].username # input[c].username /\ input[d].email # input[c].email
    BY <1>0, <1>2 DEF Inserting, Clash, Rival
  <2> QED
    BY <2>1, <2>2 DEF UniqueInv
<1>3. ASSUME NEW c \in Calls, Committing(c) PROVE UniqueInv'
  BY <1>0, <1>1, <1>3 DEF Committing, Goes
<1>4. ASSUME NEW c \in Calls, Asking(c) PROVE UniqueInv'
  <2>1. /\ row' = row /\ row[c] = "none"
        /\ \A d \in Calls : d # c => input'[d] = input[d]
    BY <1>0, <1>4 DEF Asking
  <2> QED
    BY <2>1 DEF UniqueInv
<1>5. CASE Hidden \/ \E c \in Calls : Telling(c)
  BY <1>1, <1>5 DEF Hidden, Telling, Keeps
<1> QED
  BY <1>2, <1>3, <1>4, <1>5 DEF Kind

-----------------------------------------------------------------------------
(* Faults are counted, and no connection is lost without one. *)
LEMMA FaultsCount ==
  ASSUME Assumed, TypeOK', [Next]_vars, BrokenInv
  PROVE  faults' >= faults /\ BrokenInv' /\ faults \in Nat /\ faults' \in Nat
<1>0. faults \in Nat /\ faults' \in Nat
  BY BoundsAssumption DEF Assumed, TypeOK, U!TypeOK
<1>1. U!Next \/ UNCHANGED uvars
  BY StepsAreUnitSteps
<1>2. CASE UNCHANGED uvars
  BY <1>0, <1>2 DEF uvars, BrokenInv
<1>3. ASSUME U!Fault PROVE faults' >= faults /\ faults' > 0
  BY <1>0, <1>3 DEF U!Fault
<1>4. ASSUME NEW u, \/ U!Start(u) \/ U!Connect(u) \/ U!Progress(u)
                    \/ U!Borrow(u) \/ U!GiveBack(u)
      PROVE  UNCHANGED <<faults, broken>>
  BY <1>4 DEF U!Start, U!Connect, U!Progress, U!Begin, U!WorkReturns, U!WorkThrows,
              U!CommitExecutes, U!CommitReturns, U!CommitFails, U!Rollback, U!RollbackFails,
              U!Borrow, U!GiveBack
<1>5. ASSUME NEW u, \/ U!ConnectFails(u) \/ U!BeginFails(u) \/ U!Break(u)
                    \/ U!BorrowerBreaks(u) \/ U!Crash
      PROVE  U!Fault
  BY <1>5 DEF U!ConnectFails, U!BeginFails, U!Break, U!BorrowerBreaks, U!Crash
<1>6. CASE U!Next
  <2>1. UNCHANGED <<faults, broken>> \/ U!Fault
    BY <1>4, <1>5, <1>6 DEF U!Next
  <2> QED
    BY <1>0, <1>3, <2>1 DEF BrokenInv
<1> QED
  BY <1>0, <1>1, <1>2, <1>6

-----------------------------------------------------------------------------
(* The cause of an error. *)

(* Now and without a fault, this is why r would fail with e. *)
Explains(r, e) ==
  /\ e = "UsernameExists" => Rival(r, "committed", "username")
  /\ e = "EmailExists" => Rival(r, "committed", "email")
  /\ e = "QueryFailed" /\ Faultless' => Clash(r, "committed")

(* The error of r, if it is not what it was, has just got a cause. *)
ErrMoves(r) ==
  \/ err'[r] = err[r] /\ (phase'[r] = "rolling" => phase[r] = "rolling")
  \/ pc[r] # "idle" /\ err'[r] # "none" /\ Explains(r, err'[r])

LEMMA ErrSteps ==
  ASSUME Assumed, TypeOK', [Next]_vars, BrokenInv, NEW v \in SignUps
  PROVE  ErrMoves(v)
<1>0. /\ v \in Calls /\ err \in [Calls -> {"none", "UsernameExists", "EmailExists", "QueryFailed"}]
      /\ phase \in [SignUps -> U!Phases] /\ SignUpInv(v) /\ SignUps \subseteq Calls
  BY DEF Assumed, TypeOK, U!TypeOK, Calls, CallInv
<1>1. Faultless' => broken = {}
  BY FaultsCount DEF Faultless, BrokenInv
<1> DEFINE Same == err'[v] = err[v] /\ (phase'[v] = "rolling" => phase[v] = "rolling")
<1>2. ASSUME NEW r \in SignUps, NEW e \in {"UsernameExists", "EmailExists", "QueryFailed"},
             Throw(r, e), pc[r] # "idle", Explains(r, e)
      PROVE  ErrMoves(v)
  <2>1. err' = [err EXCEPT ![r] = e] /\ phase' = [phase EXCEPT ![r] = "rolling"]
    BY <1>2 DEF Throw, U!WorkThrows
  <2>2. CASE r = v
    BY <1>0, <1>2, <2>1, <2>2 DEF ErrMoves
  <2>3. CASE r # v
    BY <1>0, <2>1, <2>3 DEF ErrMoves
  <2> QED
    BY <2>2, <2>3
<1>3. ASSUME NEW r \in SignUps,
             \/ LookUp(r, "username", "UsernameExists") \/ LookUp(r, "email", "EmailExists")
      PROVE  ErrMoves(v) \/ Same
  <2>1. CASE LookUp(r, "username", "UsernameExists")
    <3>1. pc[r] = "username"
      BY <2>1 DEF LookUp, Working
    <3>2. CASE Rival(r, "committed", "username") /\ Throw(r, "UsernameExists")
      BY <1>2, <3>1, <3>2 DEF Explains
    <3> QED
      BY <2>1, <3>2 DEF LookUp, uvars
  <2>2. CASE LookUp(r, "email", "EmailExists")
    <3>1. pc[r] = "email"
      BY <2>2 DEF LookUp, Working
    <3>2. CASE Rival(r, "committed", "email") /\ Throw(r, "EmailExists")
      BY <1>2, <3>1, <3>2 DEF Explains
    <3> QED
      BY <2>2, <3>2 DEF LookUp, uvars
  <2> QED
    BY <1>3, <2>1, <2>2
<1>4. ASSUME NEW r \in SignUps, InsertViolates(r) PROVE ErrMoves(v)
  BY <1>2, <1>4 DEF InsertViolates, Working, Explains
<1>5. ASSUME NEW r \in SignUps, QueryFails(r) PROVE ErrMoves(v)
  <2>1. ~Faultless'
    BY <1>1, <1>5 DEF QueryFails, Faultless
  <2> QED
    BY <1>2, <1>5, <2>1 DEF QueryFails, WorkSteps, After, Explains
<1>6. ASSUME NEW r \in SignUps, CommitFails(r) PROVE ErrMoves(v)
  <2>1. /\ phase[r] = "committing" /\ r \in broken
        /\ err' = [err EXCEPT ![r] = "QueryFailed"] /\ phase' = [phase EXCEPT ![r] = "rolling"]
    BY <1>6 DEF CommitFails, U!CommitFails
  <2>2. ~Faultless'
    BY <1>1, <2>1
  <2>3. CASE r = v
    <3>1. pc[v] # "idle"
      BY <1>0, <2>1, <2>3 DEF SignUpInv, Place
    <3> QED
      BY <1>0, <2>1, <2>2, <2>3, <3>1 DEF ErrMoves, Explains
  <2>4. CASE r # v
    BY <1>0, <2>1, <2>4 DEF ErrMoves
  <2> QED
    BY <2>3, <2>4
<1>7. ASSUME NEW r \in SignUps, SignUpRejected(r) \/ SignUpAccepted(r) \/ StartFails(r) PROVE Same
  BY <1>0, <1>7 DEF SignUpRejected, SignUpAccepted, StartFails, U!Start, U!ConnectFails,
                    U!BeginFails, uvars
<1>8. ASSUME NEW r \in SignUps, Connect(r) \/ Begin(r) \/ Insert(r) \/ WorkReturns(r) PROVE Same
  BY <1>0, <1>8 DEF Connect, U!Connect, Begin, U!Begin, Insert, WorkReturns, U!WorkReturns, uvars
<1>9. ASSUME NEW r \in SignUps, NEW step, GrantRole(r) \/ GrantPermission(r, step) PROVE Same
  BY <1>9 DEF GrantRole, GrantPermission, uvars
<1>10. ASSUME NEW r \in SignUps,
              CommitExecutes(r) \/ CommitReturns(r) \/ Rollback(r) \/ RollbackFails(r)
       PROVE  Same
  BY <1>0, <1>10 DEF CommitExecutes, U!CommitExecutes, CommitReturns, U!CommitReturns,
                     Rollback, U!Rollback, RollbackFails, U!RollbackFails, U!Close
<1>11. ASSUME NEW r \in SignUps,
              SendMail(r) \/ MailReturns(r) \/ MailThrows(r) \/ MailStep(r) \/ Break(r)
       PROVE  Same
  BY <1>11 DEF SendMail, MailReturns, MailThrows, MailStep, MailArrives, MailIsLost, Break,
               U!Break, uvars
<1>12. ASSUME NEW d \in Creates, CreateRejected(d) \/ CreateAccepted(d) \/ CreateStep(d) PROVE Same
  BY <1>12 DEF CreateRejected, CreateAccepted, CreateStep, CreateLooksUp, CreateConnects,
               CreateInserts, CreateCommits, CreateReturns, CreateFails, uvars,
               U!Borrow, U!GiveBack, U!BorrowerBreaks
<1>13. CASE Crash
  <2>1. err' = err /\ phase'[v] \in {"killed", phase[v]}
    BY <1>0, <1>13 DEF Crash, U!Crash
  <2> QED
    BY <2>1 DEF ErrMoves
<1>14. CASE UNCHANGED vars
  BY <1>14 DEF vars, ErrMoves
<1>15. Same => ErrMoves(v)
  BY DEF ErrMoves
<1> HIDE DEF Same
<1>16. ASSUME NEW r \in SignUps, SignUpStep(r) PROVE ErrMoves(v)
  BY <1>3, <1>4, <1>5, <1>6, <1>8, <1>9, <1>10, <1>11, <1>15, <1>16 DEF SignUpStep
<1> QED
  BY <1>7, <1>11, <1>12, <1>13, <1>14, <1>15, <1>16 DEF Next

LEMMA CauseNext ==
  ASSUME Assumed, TypeOK', [Next]_vars, BrokenInv, NEW r \in SignUps, CauseInv(r)
  PROVE  CauseInv(r)'
<1>1. Stay /\ ErrMoves(r) /\ faults' >= faults /\ faults \in Nat
  BY Kinds, KindsStay, ErrSteps, FaultsCount
<1>2. Faultless' => Faultless
  BY <1>1 DEF Faultless
<1>3. r \in Calls
  BY DEF Calls
<1>4. pc'[r] = "idle" => pc[r] = "idle"
  BY <1>1, <1>3 DEF Stay
<1>5. CASE pc[r] # "idle" /\ Explains(r, err'[r]) /\ err'[r] # "none"
  BY <1>1, <1>3, <1>4, <1>5, RivalStays DEF CauseInv, Explains
<1>6. CASE pc[r] # "idle" /\ err'[r] = err[r] /\ (phase'[r] = "rolling" => phase[r] = "rolling")
  BY <1>1, <1>2, <1>3, <1>4, <1>6, RivalStays DEF CauseInv
<1>7. CASE pc[r] = "idle"
  BY <1>1, <1>7 DEF CauseInv, ErrMoves
<1> QED
  BY <1>1, <1>5, <1>6, <1>7 DEF ErrMoves

(* What a caller is told has a cause. *)
Tells(c, what) ==
  /\ what = "UsernameAlreadyExists" => Rival(c, "committed", "username")
  /\ what = "EmailAlreadyExists" => Rival(c, "committed", "email")
  /\ c \in SignUps /\ what = "UserWasNotCreated" /\ Faultless' => Clash(c, "committed")

SaidMoves(c) ==
  \/ outcome'[c] = outcome[c]
  \/ outcome'[c] \notin {"UsernameAlreadyExists", "EmailAlreadyExists", "UserWasNotCreated"}
  \/ pc[c] # "idle" /\ Tells(c, outcome'[c])

LEMMA TranslatedCause ==
  ASSUME NEW e \in {"UsernameExists", "EmailExists", "QueryFailed"}
  PROVE  /\ Translated(e) = "UsernameAlreadyExists" => e = "UsernameExists"
         /\ Translated(e) = "EmailAlreadyExists" => e = "EmailExists"
         /\ Translated(e) = "UserWasNotCreated" => e = "QueryFailed"
<1>1. CASE e = "UsernameExists"
  BY <1>1 DEF Translated
<1>2. CASE e = "EmailExists"
  BY <1>2 DEF Translated
<1>3. CASE e = "QueryFailed"
  BY <1>3 DEF Translated
<1> QED
  BY <1>1, <1>2, <1>3

LEMMA SaidSteps ==
  ASSUME Assumed, TypeOK', [Next]_vars, BrokenInv, \A r \in SignUps : CauseInv(r), NEW c \in Calls
  PROVE  SaidMoves(c)
<1>0. /\ SignUps \subseteq Calls /\ Creates \subseteq Calls
      /\ outcome \in [Calls -> Outcomes]
      /\ err \in [Calls -> {"none", "UsernameExists", "EmailExists", "QueryFailed"}]
  BY DEF Assumed, TypeOK, Calls
<1> DEFINE Same == outcome'[c] = outcome[c]
<1>1. ASSUME NEW d \in Calls, NEW what, Tell(d, what),
             \/ what \notin {"UsernameAlreadyExists", "EmailAlreadyExists", "UserWasNotCreated"}
             \/ pc[d] # "idle" /\ Tells(d, what)
      PROVE  SaidMoves(c)
  <2>1. outcome' = [outcome EXCEPT ![d] = what]
    BY <1>1 DEF Tell
  <2>2. CASE d = c
    BY <1>0, <1>1, <2>1, <2>2 DEF SaidMoves
  <2>3. CASE d # c
    BY <1>0, <2>1, <2>3 DEF SaidMoves
  <2> QED
    BY <2>2, <2>3
<1>2. ASSUME NEW r \in SignUps, SignUpRejected(r) PROVE SaidMoves(c)
  <2>1. PICK f \in Forms : Verdict(f) # "ok" /\ Tell(r, Verdict(f))
    BY <1>2 DEF SignUpRejected
  <2>2. Verdict(f) \in Errors
    BY <2>1, VerdictType
  <2>3. Verdict(f) \notin {"UsernameAlreadyExists", "EmailAlreadyExists", "UserWasNotCreated"}
    BY <2>2 DEF Errors
  <2> QED
    BY <1>0, <1>1, <2>1, <2>3
<1>3. ASSUME NEW r \in SignUps, StartFails(r) PROVE SaidMoves(c)
  <2>1. U!Fault /\ phase[r] \in {"connecting", "beginning"} /\ Tell(r, "UserWasNotCreated")
    BY <1>3 DEF StartFails, U!ConnectFails, U!BeginFails
  <2>2. ~Faultless' /\ pc[r] # "idle"
    BY <2>1, FaultsCount DEF U!Fault, Faultless, Assumed, CallInv, SignUpInv, Place
  <2> QED
    BY <1>0, <1>1, <2>1, <2>2 DEF Tells
<1>4. ASSUME NEW r \in SignUps, Rollback(r) PROVE SaidMoves(c)
  <2>1. phase[r] = "rolling" /\ Tell(r, Translated(err[r])) /\ UNCHANGED faults
    BY <1>4 DEF Rollback, U!Rollback
  <2>2. err[r] \in {"UsernameExists", "EmailExists", "QueryFailed"} /\ pc[r] # "idle"
    BY <1>0, <2>1 DEF CauseInv, Assumed, CallInv, SignUpInv, Place
  <2>3. Faultless' => Faultless
    BY <2>1 DEF Faultless
  <2>4. Tells(r, Translated(err[r]))
    BY <2>2, <2>3, TranslatedCause DEF Tells, CauseInv
  <2> QED
    BY <1>0, <1>1, <2>1, <2>2, <2>4
<1>5. ASSUME NEW r \in SignUps, SendMail(r) \/ MailReturns(r) \/ MailThrows(r) PROVE SaidMoves(c)
  <2>1. Tell(r, "ok") \/ Tell(r, "EmailSending") \/ UNCHANGED outcome
    BY <1>5 DEF SendMail, MailReturns, MailThrows
  <2> QED
    BY <1>0, <1>1, <2>1 DEF SaidMoves
<1>6. ASSUME NEW r \in SignUps,
             \/ SignUpAccepted(r) \/ Connect(r) \/ Begin(r) \/ Insert(r) \/ GrantRole(r)
             \/ WorkReturns(r) \/ CommitExecutes(r) \/ CommitReturns(r) \/ CommitFails(r)
             \/ RollbackFails(r) \/ MailStep(r) \/ Break(r)
      PROVE  Same
  BY <1>6 DEF SignUpAccepted, Connect, Begin, Insert, GrantRole, WorkReturns, CommitExecutes,
              CommitReturns, CommitFails, RollbackFails, MailStep, MailArrives, MailIsLost, Break
<1>7. ASSUME NEW r \in SignUps, NEW field, NEW e,
             LookUp(r, field, e) \/ InsertViolates(r) \/ QueryFails(r) \/ GrantPermission(r, field)
      PROVE  Same
  BY <1>7 DEF LookUp, InsertViolates, QueryFails, Throw, GrantPermission
<1>8. ASSUME NEW d \in Creates, CreateLooksUp(d, "username", "UsernameAlreadyExists", "email")
      PROVE  SaidMoves(c)
  <2>1. pc[d] = "username"
    BY <1>8 DEF CreateLooksUp
  <2>2. CASE Rival(d, "committed", "username") /\ Tell(d, "UsernameAlreadyExists")
    BY <1>0, <1>1, <2>1, <2>2 DEF Tells
  <2>3. CASE UNCHANGED outcome
    BY <2>3 DEF SaidMoves
  <2> QED
    BY <1>8, <2>2, <2>3 DEF CreateLooksUp
<1>9. ASSUME NEW d \in Creates, CreateLooksUp(d, "email", "EmailAlreadyExists", "save")
      PROVE  SaidMoves(c)
  <2>1. pc[d] = "email"
    BY <1>9 DEF CreateLooksUp
  <2>2. CASE Rival(d, "committed", "email") /\ Tell(d, "EmailAlreadyExists")
    BY <1>0, <1>1, <2>1, <2>2 DEF Tells
  <2>3. CASE UNCHANGED outcome
    BY <2>3 DEF SaidMoves
  <2> QED
    BY <1>9, <2>2, <2>3 DEF CreateLooksUp
<1>10. ASSUME NEW d \in Creates,
              \/ CreateRejected(d) \/ CreateAccepted(d) \/ CreateConnects(d) \/ CreateInserts(d)
              \/ CreateCommits(d) \/ CreateReturns(d) \/ CreateFails(d)
       PROVE  SaidMoves(c)
  <2>1. \/ Tell(d, "ArgumentValidation") \/ Tell(d, "ok") \/ Tell(d, "QueryFailed")
        \/ UNCHANGED outcome
    BY <1>10 DEF CreateRejected, CreateAccepted, CreateConnects, CreateInserts, CreateCommits,
                 CreateReturns, CreateFails
  <2> QED
    BY <1>0, <1>1, <2>1 DEF SaidMoves
<1>11. CASE Crash \/ UNCHANGED vars
  BY <1>11 DEF Crash, vars, SaidMoves
<1>12. Same => SaidMoves(c)
  BY DEF SaidMoves
<1> HIDE DEF Same
<1>13. ASSUME NEW r \in SignUps, SignUpStep(r) PROVE SaidMoves(c)
  BY <1>4, <1>5, <1>6, <1>7, <1>12, <1>13 DEF SignUpStep
<1>14. ASSUME NEW d \in Creates, CreateStep(d) PROVE SaidMoves(c)
  BY <1>8, <1>9, <1>10, <1>14 DEF CreateStep
<1> QED
  BY <1>2, <1>3, <1>6, <1>10, <1>11, <1>12, <1>13, <1>14 DEF Next

LEMMA SaidNext ==
  ASSUME Assumed, TypeOK', [Next]_vars, BrokenInv, \A r \in SignUps : CauseInv(r),
         NEW c \in Calls, SaidInv(c)
  PROVE  SaidInv(c)'
<1>1. Stay /\ SaidMoves(c) /\ faults' >= faults /\ faults \in Nat
  BY Kinds, KindsStay, SaidSteps, FaultsCount
<1>2. Faultless' => Faultless
  BY <1>1 DEF Faultless
<1>3. CASE outcome'[c] = outcome[c]
  <2>1. CASE pc[c] = "idle"
    <3>1. outcome[c] = "none"
      BY <2>1 DEF Assumed, CallInv, SignUpInv, AnswerFits, CreateInv, Calls
    <3> QED
      BY <1>3, <3>1 DEF SaidInv
  <2>2. CASE pc[c] # "idle"
    BY <1>1, <1>2, <1>3, <2>2, RivalStays DEF SaidInv
  <2> QED
    BY <2>1, <2>2
<1>4. CASE outcome'[c] \notin {"UsernameAlreadyExists", "EmailAlreadyExists", "UserWasNotCreated"}
  BY <1>4 DEF SaidInv
<1>5. CASE pc[c] # "idle" /\ Tells(c, outcome'[c])
  BY <1>1, <1>5, RivalStays DEF SaidInv, Tells
<1> QED
  BY <1>1, <1>3, <1>4, <1>5 DEF SaidMoves

-----------------------------------------------------------------------------
LEMMA OpenInit == Init => OpenInv
<1> SUFFICES ASSUME Init PROVE OpenInv
  OBVIOUS
<1>1. \A c \in Calls : InputInv(c) /\ SaidInv(c) /\ row[c] = "none"
  BY DEF Init, InputInv, SaidInv
<1>2. \A r \in SignUps : CauseInv(r)
  BY DEF Init, U!Init, CauseInv, Calls
<1>3. BrokenInv
  BY DEF Init, U!Init, BrokenInv
<1> QED
  BY <1>1, <1>2, <1>3 DEF OpenInv, UniqueInv

LEMMA OpenAlways == SafeSpec => [](Assumed /\ OpenInv)
<1>1. Assumed /\ TypeOK' /\ OpenInv /\ [Next]_vars => OpenInv'
  BY Kinds, InputNext, UniqueNext, FaultsCount, CauseNext, SaidNext DEF OpenInv
<1>2. Assumed <=> TypeOK /\ UP!Staged /\ CallInv
  BY DEF Assumed
<1>3. Assumed => TypeOK
  BY DEF Assumed
<1> QED
  BY <1>1, <1>2, <1>3, OpenInit, CallsAlways, PTL DEF SafeSpec

(* "Already exists" is only said of what a committed account has            *)
(* (users.service.ts:30-41), however the rivals end.                         *)
THEOREM ExistsIsTrue == SafeSpec => []ExistsErrorsAreTrue
<1>1. OpenInv => ExistsErrorsAreTrue
  BY DEF OpenInv, SaidInv, ExistsErrorsAreTrue
<1> QED
  BY <1>1, OpenAlways, PTL

(* Where nothing fails, a sign-up is refused for no reason but a rival with *)
(* an account (auth.service.ts:217).                                         *)
THEOREM RefusalsHaveCauses == SafeSpec => []RefusalHasCause
<1>1. OpenInv => RefusalHasCause
  BY DEF OpenInv, SaidInv, Faultless, RefusalHasCause, Calls
<1> QED
  BY <1>1, OpenAlways, PTL

-----------------------------------------------------------------------------
(* Registration implements AtomicSignup. *)

AccountOf(c) == [owner |-> c, username |-> input[c].username, email |-> input[c].email,
                 grants |-> grants[c]]

Replies == [c \in Calls |-> Reply(outcome[c])]

LEMMA ReplyIs ==
  /\ Reply("none") = "none" /\ Reply("ok") = "opened" /\ Reply("EmailSending") = "opened"
  /\ Reply("QueryFailed") = "unsure"
  /\ \A what \in Refusals : Reply(what) = "refused"
<1>1. Refusals \cap {"none", "ok", "EmailSending", "QueryFailed"} = {}
  BY DEF Refusals, Errors
<1>2. Reply("none") = "none"
  BY <1>1 DEF Reply
<1>3. Reply("ok") = "opened" /\ Reply("EmailSending") = "opened"
  BY <1>1 DEF Reply
<1>4. Reply("QueryFailed") = "unsure"
  BY <1>1 DEF Reply
<1>5. ASSUME NEW what \in Refusals PROVE Reply(what) = "refused"
  <2>1. what \notin {"none", "ok", "EmailSending", "QueryFailed"}
    BY <1>1, <1>5
  <2> HIDE DEF Refusals
  <2> QED
    BY <1>5, <2>1 DEF Reply
<1> QED
  BY <1>2, <1>3, <1>4, <1>5

LEMMA AccountsAre ==
  /\ \A a : a \in Accounts <=> \E c \in Calls : row[c] = "committed" /\ a = AccountOf(c)
  /\ \A c \in Calls : Abstract!Opened(c) <=> row[c] = "committed"
<1>1. \A a : a \in Accounts <=> \E c \in Calls : row[c] = "committed" /\ a = AccountOf(c)
  BY DEF Accounts, AccountOf
<1>2. \A c : AccountOf(c).owner = c
  BY DEF AccountOf
<1> QED
  BY <1>1, <1>2 DEF Abstract!Opened

LEMMA AccountsKept ==
  ASSUME UNCHANGED input \/ \E c \in Calls : row[c] # "committed" /\
                       \A d \in Calls : d # c => input'[d] = input[d],
         \A c \in Calls : /\ row'[c] = "committed" <=> row[c] = "committed"
                          /\ row[c] = "committed" => grants'[c] = grants[c]
  PROVE  Accounts' = Accounts
<1>1. \A c \in Calls : row[c] = "committed" => AccountOf(c)' = AccountOf(c)
  BY DEF AccountOf
<1>2. \A a : a \in Accounts' <=> \E c \in Calls : row'[c] = "committed" /\ a = AccountOf(c)'
  BY DEF Accounts, AccountOf
<1>3. \A a : a \in Accounts' <=> a \in Accounts
  BY <1>1, <1>2, AccountsAre
<1> QED
  BY <1>3

LEMMA RepliesMove ==
  ASSUME Assumed, NEW c \in Calls, NEW what, outcome' = [outcome EXCEPT ![c] = what]
  PROVE  Replies' = [Replies EXCEPT ![c] = Reply(what)]
<1>1. \A d \in Calls : outcome'[d] = IF d = c THEN what ELSE outcome[d]
  BY DEF Assumed, TypeOK
<1>2. \A d \in Calls : Reply(outcome'[d]) = IF d = c THEN Reply(what) ELSE Reply(outcome[d])
  <2>1. Reply(outcome'[c]) = Reply(what)
    BY <1>1
  <2>2. ASSUME NEW d \in Calls, d # c PROVE Reply(outcome'[d]) = Reply(outcome[d])
    BY <1>1, <2>2
  <2> QED
    BY <2>1, <2>2
<1>3. \A d \in Calls : Replies'[d] = IF d = c THEN Reply(what) ELSE Replies[d]
  BY <1>2 DEF Replies
<1>4. Replies' = [d \in Calls |-> Replies'[d]]
  BY DEF Replies
<1> QED
  BY <1>3, <1>4 DEF Replies

(* A commit is the moment an account opens: whole, under a free name. *)
LEMMA CommitOpens ==
  ASSUME Assumed, UniqueInv, NEW c \in Calls, InputInv(c), Committing(c)
  PROVE  Abstract!Open(c)
<1>1. /\ input' = input /\ grants' = grants /\ outcome' = outcome
      /\ \A d \in Calls : row'[d] = "committed" <=> d = c \/ row[d] = "committed"
      /\ row[c] = "pending" /\ outcome[c] = "none" /\ grants[c] = Granted(c)
      /\ input[c] # NoForm
  BY DEF Committing, Goes, Assumed, TypeOK, InputInv
<1>2. \A a : a \in Accounts' <=> \E d \in Calls : row'[d] = "committed" /\ a = AccountOf(d)
  BY <1>1 DEF Accounts, AccountOf
<1>3. Accounts' = Accounts \cup {AccountOf(c)}
  BY <1>1, <1>2, AccountsAre
<1>4. AccountOf(c) = Abstract!Account(c)
  BY <1>1 DEF AccountOf, Abstract!Account, Granted
<1>5. \A a \in Accounts : a.username # input[c].username /\ a.email # input[c].email
  <2> SUFFICES ASSUME NEW a \in Accounts
               PROVE  a.username # input[c].username /\ a.email # input[c].email
    OBVIOUS
  <2>1. PICK d \in Calls : row[d] = "committed" /\ a = AccountOf(d)
    BY AccountsAre
  <2>2. d # c
    BY <1>1, <2>1
  <2>3. input[d].username # input[c].username /\ input[d].email # input[c].email
    BY <1>1, <2>1, <2>2 DEF UniqueInv
  <2> QED
    BY <2>1, <2>3 DEF AccountOf
<1>6. Replies[c] = "none" /\ Replies' = Replies
  BY <1>1, ReplyIs DEF Replies
<1>7. ~Abstract!Opened(c)
  BY <1>1, AccountsAre
<1> QED
  BY <1>1, <1>3, <1>4, <1>5, <1>6, <1>7 DEF Abstract!Open, Replies

(* An answer is the abstract one: it says whether the account is there. *)
LEMMA TellingAnswers ==
  ASSUME Assumed, CallInv', NEW c \in Calls, InputInv(c), Telling(c)
  PROVE  Abstract!Answer(c)
<1>1. PICK what \in Outcomes \ {"none"} : outcome' = [outcome EXCEPT ![c] = what]
  BY DEF Telling
<1>2. /\ input' = input /\ input[c] # NoForm /\ Replies[c] = "none"
      /\ Accounts' = Accounts
      /\ outcome'[c] = what
      /\ row'[c] = "committed" <=> row[c] = "committed"
  BY <1>1, ReplyIs, AccountsKept DEF Telling, Keeps, InputInv, Replies, Assumed, TypeOK
<1>3. Replies' = [Replies EXCEPT ![c] = Reply(what)]
  BY <1>1, RepliesMove
<1>4. CASE what \in {"ok", "EmailSending"}
  <2>1. row'[c] = "committed"
    BY <1>2, <1>4 DEF CallInv, SignUpInv, AnswerFits, CreateInv, Calls, Refusals, Errors
  <2>2. Reply(what) = "opened" /\ Abstract!Opened(c)
    BY <1>2, <1>4, <2>1, ReplyIs, AccountsAre
  <2> QED
    BY <1>2, <1>3, <2>2 DEF Abstract!Answer, Replies
<1>5. CASE what \in Refusals
  <2>1. row'[c] = "none"
    BY <1>2, <1>5 DEF CallInv, SignUpInv, AnswerFits, CreateInv, Calls
  <2>2. Reply(what) = "refused" /\ ~Abstract!Opened(c)
    BY <1>2, <1>5, <2>1, ReplyIs, AccountsAre
  <2> QED
    BY <1>2, <1>3, <2>2 DEF Abstract!Answer, Replies
<1>6. CASE what = "QueryFailed"
  <2>1. c \in Creates
    <3>1. c \in SignUps => what \in Refusals \cup {"ok", "EmailSending"}
      BY <1>1, <1>2 DEF CallInv, SignUpInv, AnswerFits
    <3> QED
      BY <1>6, <3>1 DEF Calls, Refusals, Errors
  <2>2. Reply(what) = "unsure"
    BY <1>6, ReplyIs
  <2> QED
    BY <1>2, <1>3, <2>1, <2>2 DEF Abstract!Answer, Replies
<1> QED
  BY <1>4, <1>5, <1>6 DEF Outcomes

LEMMA AskingAsks ==
  ASSUME Assumed, NEW c \in Calls, InputInv(c), Asking(c)
  PROVE  Abstract!Ask(c) \/ Abstract!Turn(c)
<1>1. /\ input[c] = NoForm /\ row' = row /\ grants' = grants /\ row[c] = "none"
      /\ \E f \in Forms : input' = [input EXCEPT ![c] = f]
      /\ \A d \in Calls : d # c => input'[d] = input[d]
  BY DEF Asking, InputInv, Assumed, TypeOK
<1>2. Accounts' = Accounts
  BY <1>1, AccountsKept
<1>3. CASE UNCHANGED outcome
  <2>1. Replies' = Replies
    BY <1>3 DEF Replies
  <2> QED
    BY <1>1, <1>2, <2>1 DEF Abstract!Ask, Replies
<1>4. CASE \E e \in Errors \cup {"ArgumentValidation"} : outcome' = [outcome EXCEPT ![c] = e]
  <2>1. PICK e \in Refusals : outcome' = [outcome EXCEPT ![c] = e]
    BY <1>4 DEF Refusals
  <2>2. Replies' = [Replies EXCEPT ![c] = "refused"]
    BY <2>1, RepliesMove, ReplyIs
  <2> QED
    BY <1>1, <1>2, <2>2 DEF Abstract!Turn, Replies
<1> QED
  BY <1>3, <1>4 DEF Asking

LEMMA StepsOpen ==
  ASSUME Assumed, CallInv', OpenInv, [Next]_vars
  PROVE  [Abstract!Next]_(Abstract!vars)
<1>0. Kind
  BY Kinds
<1>1. CASE Hidden
  <2>1. UNCHANGED <<input, outcome>> /\ Accounts' = Accounts
    BY <1>1, AccountsKept DEF Hidden, Keeps
  <2> QED
    BY <2>1 DEF Abstract!vars
<1>2. ASSUME NEW c \in Calls, Inserting(c) PROVE UNCHANGED Abstract!vars
  <2>1. UNCHANGED <<input, outcome, grants>>
        /\ \A d \in Calls : row'[d] = "committed" <=> row[d] = "committed"
    BY <1>2 DEF Inserting, Goes, Assumed, TypeOK
  <2>2. Accounts' = Accounts
    BY <2>1, AccountsKept
  <2> QED
    BY <2>1, <2>2 DEF Abstract!vars
<1>3. ASSUME NEW c \in Calls, Committing(c) \/ Asking(c) \/ Telling(c) PROVE Abstract!Next
  BY <1>3, CommitOpens, AskingAsks, TellingAnswers DEF OpenInv, Abstract!Next
<1> QED
  BY <1>0, <1>1, <1>2, <1>3 DEF Kind

(* Seen from outside an account opens in one step or not at all, whole and  *)
(* under a name of its own, and what a caller is told of it is true and     *)
(* stays true (auth.service.ts:119-232).                                     *)
THEOREM AccountsOpenAtomically == SafeSpec => OpensAtomically
<1>1. Init => Abstract!Init
  <2> SUFFICES ASSUME Init PROVE Abstract!Init
    OBVIOUS
  <2>1. Accounts = {}
    BY AccountsAre DEF Init
  <2>2. \A c \in Calls : Reply(outcome[c]) = "none"
    BY ReplyIs DEF Init
  <2> QED
    BY <2>1, <2>2 DEF Init, Abstract!Init
<1>2. Assumed => CallInv
  BY DEF Assumed
<1> QED
  BY <1>1, <1>2, StepsOpen, OpenAlways, PTL DEF SafeSpec, OpensAtomically, Abstract!Spec
=============================================================================
