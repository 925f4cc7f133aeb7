------------------------- MODULE RegistrationProofs -------------------------
(***************************************************************************)
(* What registration guarantees for any number of calls, any set of forms, *)
(* any pool and any number of faults.  The units of work of the calls run  *)
(* UnitOfWork step for step, so its theorems carry over.                   *)
(***************************************************************************)
EXTENDS Registration, TLAPS, WellFoundedInduction

UP == INSTANCE UnitOfWorkProofs WITH Units <- SignUps, Borrowers <- Creates

(* U and UP are instances of one specification: each action is the same. *)
LEMMA SameUnits ==
  /\ U!Init => UP!Init
  /\ U!Next => UP!Next
  /\ UP!TypeOK <=> U!TypeOK
<1> USE DEF U!Fault, UP!Fault, U!Close, UP!Close
<1>0. U!SlotFree = UP!SlotFree
  BY DEF U!SlotFree, UP!SlotFree, U!Cardinality, UP!Cardinality
<1>1. U!Init => UP!Init
  BY DEF U!Init, UP!Init
<1>2. UP!TypeOK <=> U!TypeOK
  BY DEF UP!TypeOK, U!TypeOK, UP!Phases, U!Phases
<1>3. ASSUME NEW r PROVE U!Start(r) = UP!Start(r) /\ U!Connect(r) = UP!Connect(r)
                      /\ U!ConnectFails(r) = UP!ConnectFails(r)
                      /\ U!BeginFails(r) = UP!BeginFails(r) /\ U!Break(r) = UP!Break(r)
  BY <1>0 DEF U!Start, UP!Start, U!Connect, UP!Connect, U!ConnectFails, UP!ConnectFails, 
         U!BeginFails, UP!BeginFails, U!Break, UP!Break, U!Lost, UP!Lost
<1>4. ASSUME NEW r PROVE U!Progress(r) = UP!Progress(r)
  BY DEF U!Progress, UP!Progress, U!Begin, UP!Begin, U!WorkReturns, UP!WorkReturns,
         U!WorkThrows, UP!WorkThrows, U!CommitExecutes, UP!CommitExecutes,
         U!CommitReturns, UP!CommitReturns, U!CommitFails, UP!CommitFails,
         U!Rollback, UP!Rollback, U!RollbackFails, UP!RollbackFails
<1>5. ASSUME NEW d PROVE U!Borrow(d) = UP!Borrow(d) /\ U!GiveBack(d) = UP!GiveBack(d)
                      /\ U!BorrowerBreaks(d) = UP!BorrowerBreaks(d)
  BY <1>0 DEF U!Borrow, UP!Borrow, U!GiveBack, UP!GiveBack, U!BorrowerBreaks, UP!BorrowerBreaks
<1>6. U!Crash = UP!Crash
  BY DEF U!Crash, UP!Crash, U!Lost, UP!Lost, U!Running, UP!Running
<1>7. U!Next => UP!Next
  BY <1>3, <1>4, <1>5, <1>6 DEF U!Next, UP!Next
<1> QED
  BY <1>1, <1>2, <1>7

-----------------------------------------------------------------------------
(* Every step of a call is a step of its unit, or of the pool, or neither. *)
LEMMA StepsAreUnitSteps == [Next]_vars => [U!Next]_uvars
<1> SUFFICES ASSUME [Next]_vars PROVE U!Next \/ UNCHANGED uvars
  OBVIOUS
<1> USE DEF U!Next, U!Progress
<1>1. ASSUME NEW r \in SignUps, SignUpRejected(r) \/ SignUpAccepted(r) \/ StartFails(r)
      PROVE  U!Next \/ UNCHANGED uvars
  BY <1>1 DEF SignUpRejected, SignUpAccepted, StartFails
<1>2. ASSUME NEW r \in SignUps, NEW f, NEW e, LookUp(r, f, e) PROVE U!Next \/ UNCHANGED uvars
  BY <1>2 DEF LookUp, Throw
<1>3. ASSUME NEW r \in SignUps, NEW s, GrantPermission(r, s) PROVE U!Next \/ UNCHANGED uvars
  BY <1>3 DEF GrantPermission
<1>4. ASSUME NEW r \in SignUps, SignUpStep(r) PROVE U!Next \/ UNCHANGED uvars
  BY <1>2, <1>3, <1>4
     DEF SignUpStep, Connect, Begin, Insert, InsertViolates, QueryFails, Throw, GrantRole,
         WorkReturns, CommitExecutes, CommitReturns, CommitFails, Rollback, RollbackFails,
         SendMail, MailReturns, MailThrows
<1>5. ASSUME NEW r \in SignUps, MailStep(r) \/ Break(r) PROVE U!Next \/ UNCHANGED uvars
  BY <1>5 DEF MailStep, MailArrives, MailIsLost, Break
<1>6. ASSUME NEW d \in Creates, NEW f, NEW e, NEW n, CreateLooksUp(d, f, e, n)
      PROVE  U!Next \/ UNCHANGED uvars
  BY <1>6 DEF CreateLooksUp
<1>7. ASSUME NEW d \in Creates, CreateRejected(d) \/ CreateAccepted(d) \/ CreateStep(d)
      PROVE  U!Next \/ UNCHANGED uvars
  BY <1>6, <1>7 DEF CreateRejected, CreateAccepted, CreateStep, CreateConnects,
                    CreateInserts, CreateCommits, CreateReturns, CreateFails
<1>8. CASE Crash
  BY <1>8 DEF Crash
<1>9. CASE UNCHANGED vars
  BY <1>9 DEF vars, uvars
<1> QED
  BY <1>1, <1>4, <1>5, <1>7, <1>8, <1>9 DEF Next

(* Registration runs UnitOfWork: the unit behind every call is a unit of    *)
(* the component (auth.service.ts:194-196), and its guarantees hold for it.  *)
THEOREM ImplementsUnitOfWork == SafeSpec => UP!SafeSpec
<1>1. Init => UP!Init
  BY SameUnits DEF Init
<1>2. [Next]_vars => [UP!Next]_(UP!vars)
  BY StepsAreUnitSteps, SameUnits DEF uvars, UP!vars
<1> QED
  BY <1>1, <1>2, PTL DEF SafeSpec, UP!SafeSpec

(* What the component's theorems say of the units of the calls. *)
LEMMA UnitsAreStaged == SafeSpec => [](U!TypeOK /\ UP!Staged)
  BY ImplementsUnitOfWork, UP!StagedAlways, SameUnits, CallsAssumption, BoundsAssumption, PTL

(* register() is told the truth by its unit of work, and no more connections *)
(* are out than the pool has.                                                *)
THEOREM CallsHaveHonestUnits == SafeSpec => [](UP!HonestPromise /\ UP!PoolAccounted)
  BY ImplementsUnitOfWork, UP!PromisesAreHonest, UP!PoolIsAccounted,
     CallsAssumption, BoundsAssumption, PTL

-----------------------------------------------------------------------------
(* A chain of checks names one of its errors, or none. *)
LEMMA LeastExists ==
  ASSUME NEW S \in SUBSET (1..9), S # {}
  PROVE  Least(S) \in S
<1>1. \E n \in S : \A m \in S : n <= m
  <2>1. S \subseteq Nat
    OBVIOUS
  <2>2. PICK n \in S : \A m \in S : ~(<<m, n>> \in OpToRel(<, Nat))
    BY <2>1, WFMin, NatLessThanWellFounded
  <2>3. \A m \in S : ~(m < n)
    BY <2>1, <2>2 DEF OpToRel
  <2> QED
    BY <2>1, <2>3
<1> QED
  BY <1>1 DEF Least

(* A form that does not pass is told one of the errors of the chain. *)
LEMMA VerdictType == \A f : Verdict(f) \in Errors \cup {"ok"}
<1> SUFFICES ASSUME NEW f PROVE Verdict(f) \in Errors \cup {"ok"}
  OBVIOUS
<1> DEFINE chain == <<
  << ~f.email.wellFormed,                     "InvalidEmail" >>,
  << f.username.len = 0,                      "InvalidUsernameEmpty" >>,
  << IsNumeric(f.username),                   "InvalidNumericUsernameCharacters" >>,
  << ~IsWord(f.username),                     "InvalidUsernameCharacters" >>,
  << f.username.len \notin 4..10,             "InvalidUsernameLength" >>,
  << f.password = 0,                          "InvalidPasswordEmpty" >>,
  << f.password < 8,                          "InvalidPasswordLength" >>,
  << f.name \in {"empty", "spaces"},           "InvalidNameEmpty" >>,
  << f.token = "invalid",                     "InvalidRegistrationToken" >> >>
<1> DEFINE broken_ == {k \in DOMAIN chain : chain[k][1]}
<1>1. Verdict(f) = FirstBroken(chain)
  BY DEF Verdict
<1>2. DOMAIN chain = 1..9 /\ \A k \in 1..9 : chain[k][2] \in Errors
  BY DEF Errors
<1>3. broken_ \in SUBSET (1..9)
  BY <1>2
<1>4. CASE broken_ = {}
  BY <1>1, <1>4 DEF FirstBroken
<1>5. CASE broken_ # {}
  <2>1. Least(broken_) \in 1..9
    BY <1>3, <1>5, LeastExists
  <2>2. Verdict(f) = chain[Least(broken_)][2]
    BY <1>1, <1>5 DEF FirstBroken
  <2> QED
    BY <1>2, <2>1, <2>2
<1> QED
  BY <1>4, <1>5

-----------------------------------------------------------------------------
(* Every step of a call keeps the types of what the calls have. *)
LEMMA TypeNext == TypeOK /\ U!TypeOK' /\ [Next]_vars => TypeOK'
<1> SUFFICES ASSUME TypeOK, U!TypeOK', [Next]_vars PROVE TypeOK'
  OBVIOUS
<1>0. SignUps \subseteq Calls /\ Creates \subseteq Calls
  BY DEF Calls
<1> USE <1>0 DEF TypeOK, Goto, Tell
<1> HIDE DEF Calls, U!TypeOK
<1>1. ASSUME NEW r \in SignUps, SignUpRejected(r) PROVE TypeOK'
  BY <1>1, VerdictType DEF SignUpRejected, PCs, Outcomes, Refusals
<1>2. ASSUME NEW r \in SignUps, SignUpAccepted(r) \/ StartFails(r) PROVE TypeOK'
  BY <1>2 DEF SignUpAccepted, StartFails, PCs, Outcomes, Refusals
<1>3. ASSUME NEW r \in SignUps, NEW e \in {"UsernameExists", "EmailExists", "QueryFailed"},
             Throw(r, e)
      PROVE  TypeOK'
  BY <1>3 DEF Throw, PCs
<1>4. ASSUME NEW r \in SignUps,
             LookUp(r, "username", "UsernameExists") \/ LookUp(r, "email", "EmailExists")
      PROVE  TypeOK'
  BY <1>3, <1>4 DEF LookUp, After, PCs, WorkSteps
<1>5. ASSUME NEW r \in SignUps, InsertViolates(r) \/ QueryFails(r) PROVE TypeOK'
  BY <1>3, <1>5 DEF InsertViolates, QueryFails
<1>6. ASSUME NEW r \in SignUps, Connect(r) \/ Begin(r) \/ Insert(r) PROVE TypeOK'
  BY <1>6 DEF Connect, Begin, Insert, After, PCs, WorkSteps
<1>7. ASSUME NEW r \in SignUps, GrantRole(r) \/ WorkReturns(r) PROVE TypeOK'
  BY <1>7 DEF GrantRole, AddRole, WorkReturns, SignupGrants, After, PCs, WorkSteps
<1>8. ASSUME NEW r \in SignUps, NEW s \in {"signIn", "signUp"}, GrantPermission(r, s)
      PROVE  TypeOK'
  BY <1>8 DEF GrantPermission, AddPermission, PermissionOf, SignupGrants, After, PCs, WorkSteps
<1>9. ASSUME NEW r \in SignUps, CommitExecutes(r) \/ CommitReturns(r) \/ CommitFails(r)
      PROVE  TypeOK'
  BY <1>9 DEF CommitExecutes, CommitReturns, CommitFails, PCs
<1>10. ASSUME NEW r \in SignUps, Rollback(r) \/ RollbackFails(r) PROVE TypeOK'
  BY <1>10 DEF Rollback, RollbackFails, Translated, PCs, Outcomes, Refusals
<1>11. ASSUME NEW r \in SignUps, SendMail(r) \/ MailReturns(r) \/ MailThrows(r) \/ MailStep(r)
       PROVE  TypeOK'
  BY <1>11 DEF SendMail, MailReturns, MailThrows, MailStep, MailArrives, MailIsLost,
               PCs, Outcomes
<1>12. ASSUME NEW r \in SignUps, Break(r) PROVE TypeOK'
  BY <1>12 DEF Break
<1>13. ASSUME NEW d \in Creates, CreateRejected(d) \/ CreateAccepted(d) PROVE TypeOK'
  BY <1>13 DEF CreateRejected, CreateAccepted, PCs, Outcomes, Refusals, WorkSteps, After
<1>14. ASSUME NEW d \in Creates, CreateStep(d) PROVE TypeOK'
  BY <1>14 DEF CreateStep, CreateLooksUp, CreateConnects, CreateInserts, CreateCommits,
               CreateReturns, CreateFails, PCs, Outcomes, Refusals, WorkSteps, After
<1>15. CASE Crash
  BY <1>15 DEF Crash, Undone, PCs
<1>16. CASE UNCHANGED vars
  BY <1>16 DEF vars
<1>17. ASSUME NEW r \in SignUps, SignUpStep(r) PROVE TypeOK'
  BY <1>4, <1>5, <1>6, <1>7, <1>8, <1>9, <1>10, <1>11, <1>17 DEF SignUpStep
<1> QED
  BY <1>1, <1>2, <1>11, <1>12, <1>13, <1>14, <1>15, <1>16, <1>17 DEF Next

(* The state of every call always has its type (auth.service.ts:119-232). *)
THEOREM RegistrationTypeCorrect == SafeSpec => []TypeOK
<1>1. Init => TypeOK
  <2> SUFFICES ASSUME Init, U!TypeOK PROVE TypeOK
    BY BoundsAssumption DEF Init, U!Init, U!TypeOK, U!Phases
  <2> QED
    BY DEF Init, TypeOK, PCs, Outcomes
<1> QED
  BY <1>1, TypeNext, UnitsAreStaged, PTL DEF SafeSpec

-----------------------------------------------------------------------------
(* The inductive invariant: where a call stands says how far its unit is,  *)
(* what its row holds and what it was told.                                *)

Inserted == {"role", "signIn", "signUp", "return"}

(* A sign-up before its unit, in its unit, and after it. *)
Place(r) ==
  /\ pc[r] \notin {"save", "saving", "saved"}
  /\ pc[r] = "idle" => phase[r] = "new"
  /\ pc[r] = "unit" => phase[r] \in {"connecting", "beginning"}
  /\ pc[r] \in WorkSteps \cup {"return"} => phase[r] = "working"
  /\ pc[r] = "complete" => phase[r] \in {"committing", "rolling", "closed"}
  /\ pc[r] = "complete" /\ phase[r] = "closed" => promise[r] = "pending"
  /\ pc[r] \in {"mail", "mailing"} => phase[r] = "closed" /\ row[r] = "committed"
  /\ pc[r] = "done" => phase[r] \in {"new", "failed", "closed"}
  /\ pc[r] = "dead" => phase[r] \in {"killed", "closed"}

(* Its row follows the transaction, and is complete when that is decided. *)
RowFollows(r) ==
  /\ row[r] = "pending" => tx[r] = "open" /\ pc[r] \in Inserted \cup {"complete"}
  /\ row[r] = "committed" <=> tx[r] = "committed"
  /\ pc[r] \in Inserted /\ tx[r] = "open" => row[r] = "pending"
  /\ phase[r] = "committing" /\ tx[r] = "open" => row[r] = "pending"

GrantsFollow(r) ==
  /\ row[r] = "none" => grants[r] = {}
  /\ pc[r] = "role" /\ tx[r] = "open" => grants[r] = {}
  /\ pc[r] = "signIn" /\ tx[r] = "open" => grants[r] = {"NORMAL"} \cap Seeded
  /\ pc[r] = "signUp" /\ tx[r] = "open" => grants[r] = {"NORMAL", "SIGN_IN"} \cap Seeded
  /\ pc[r] = "return" /\ tx[r] = "open" => grants[r] = SignupGrants \cap Seeded
  /\ phase[r] = "committing" /\ tx[r] = "open" => grants[r] = SignupGrants \cap Seeded
  /\ row[r] = "committed" => grants[r] = SignupGrants \cap Seeded

AnswerFits(r) ==
  /\ pc[r] # "done" => outcome[r] = "none"
  /\ pc[r] = "done" => outcome[r] \in Refusals \cup {"ok", "EmailSending"}
  /\ outcome[r] \in {"ok", "EmailSending"} => row[r] = "committed"
  /\ outcome[r] \in Refusals => row[r] = "none"
  /\ mail[r] # "none" => row[r] = "committed"

SignUpInv(r) == Place(r) /\ RowFollows(r) /\ GrantsFollow(r) /\ AnswerFits(r)

(* A create call holds its connection while its row is undecided. *)
CreateInv(d) ==
  /\ pc[d] \in {"idle", "username", "email", "save", "saving", "saved", "done", "dead"}
  /\ row[d] = "pending" => pc[d] = "saved"
  /\ pc[d] = "saved" => row[d] # "none"
  /\ pc[d] \in {"idle", "username", "email", "save", "saving"} => row[d] = "none"
  /\ pc[d] \in {"saving", "saved"} => d \in held
  /\ grants[d] = {}
  /\ pc[d] # "done" => outcome[d] = "none"
  /\ pc[d] = "done" => outcome[d] \in Refusals \cup {"ok", "QueryFailed"}
  /\ outcome[d] = "ok" => row[d] = "committed"
  /\ outcome[d] \in Refusals => row[d] = "none"

CallInv ==
  /\ \A r \in SignUps : SignUpInv(r)
  /\ \A d \in Creates : CreateInv(d)

(* What the calls' steps need of a unit: UnitOfWork's stages, by its names. *)
LEMMA StageOf ==
  ASSUME UP!Staged, NEW r \in SignUps
  PROVE  /\ phase[r] \in {"new", "connecting", "beginning", "failed"} => tx[r] = "none"
         /\ phase[r] \in {"working", "rolling"} /\ r \notin broken => tx[r] = "open"
         /\ tx[r] = "open" => phase[r] \in {"working", "committing", "rolling"} /\ r \notin broken
         /\ promise[r] # "pending" => phase[r] = "closed"
         /\ phase[r] \in {"beginning", "working", "committing", "rolling"} => r \in held
  BY DEF UP!Staged, UP!Stage

(* A step of one call, or of the environment, keeps every sign-up's         *)
(* invariant; the sign-up v it is shown for may be the one that moves or     *)
(* another one.                                                              *)
LEMMA SignUpInvNext ==
  ASSUME TypeOK, UP!Staged, CallInv, [Next]_vars, NEW v \in SignUps
  PROVE  SignUpInv(v)'
<1>0. /\ SignUps \subseteq Calls /\ Creates \subseteq Calls
      /\ \A d \in Creates : d # v
  BY CallsAssumption DEF Calls
<1>a. SignUpInv(v)
  BY DEF CallInv
<1> DEFINE Stages(r) ==
      /\ phase[r] \in {"new", "connecting", "beginning", "failed"} => tx[r] = "none"
      /\ phase[r] \in {"working", "rolling"} /\ r \notin broken => tx[r] = "open"
      /\ tx[r] = "open" => phase[r] \in {"working", "committing", "rolling"} /\ r \notin broken
      /\ promise[r] # "pending" => phase[r] = "closed"
<1>b. Stages(v)
  BY StageOf
<1> USE <1>0, <1>a, <1>b DEF TypeOK, U!TypeOK, Goto, Tell, SignUpInv, Place, RowFollows,
        GrantsFollow, AnswerFits, Inserted, WorkSteps, After
<1> HIDE DEF Calls
<1>1. ASSUME NEW r \in SignUps, SignUpRejected(r) PROVE SignUpInv(v)'
  <2> PICK f \in Forms : /\ Verdict(f) # "ok" /\ input' = [input EXCEPT ![r] = f]
                         /\ Tell(r, Verdict(f))
    BY <1>1 DEF SignUpRejected
  <2>1. Verdict(f) \in Refusals \ {"none", "ok", "EmailSending"}
    BY VerdictType DEF Refusals, Errors
  <2> HIDE DEF Refusals
  <2> QED
    BY <1>1, <2>1 DEF SignUpRejected, uvars
<1>2. ASSUME NEW r \in SignUps, SignUpAccepted(r) PROVE SignUpInv(v)'
  BY <1>2 DEF SignUpAccepted, U!Start
<1>3. ASSUME NEW r \in SignUps, StartFails(r) PROVE SignUpInv(v)'
  BY <1>3 DEF StartFails, U!ConnectFails, U!BeginFails, U!Fault, Refusals
<1>4. ASSUME NEW r \in SignUps, Connect(r) \/ Begin(r) PROVE SignUpInv(v)'
  BY <1>4 DEF Connect, U!Connect, Begin, U!Begin
<1>5. ASSUME NEW r \in SignUps, NEW e, pc[r] \in WorkSteps, Throw(r, e) PROVE SignUpInv(v)'
  BY <1>5 DEF Throw, U!WorkThrows
<1>6. ASSUME NEW r \in SignUps,
             LookUp(r, "username", "UsernameExists") \/ LookUp(r, "email", "EmailExists")
      PROVE  SignUpInv(v)'
  <2>1. CASE Throw(r, "UsernameExists") \/ Throw(r, "EmailExists")
    BY <1>5, <1>6, <2>1 DEF LookUp, Working
  <2>2. CASE Goto(r, "email") \/ Goto(r, "insert")
    <3>1. /\ pc[r] \in {"username", "email"} /\ phase[r] = "working"
          /\ UNCHANGED <<uvars, input, row, grants, err, mail, outcome>>
      BY <1>6, <2>2 DEF LookUp, Working, Throw
    <3>2. /\ pc'[r] \in {"email", "insert"}
          /\ \A c \in SignUps : c # r => pc'[c] = pc[c]
      BY <2>2
    <3>3. CASE v = r
      BY <3>1, <3>2, <3>3 DEF uvars
    <3>4. CASE v # r
      BY <3>1, <3>2, <3>4 DEF uvars
    <3> QED
      BY <3>3, <3>4
  <2> QED
    BY <1>6, <2>1, <2>2 DEF LookUp
<1>7. ASSUME NEW r \in SignUps, Insert(r) PROVE SignUpInv(v)'
  <2>1. /\ pc[r] = "insert" /\ phase[r] = "working" /\ r \notin broken
        /\ pc' = [pc EXCEPT ![r] = "role"] /\ row' = [row EXCEPT ![r] = "pending"]
        /\ UNCHANGED <<uvars, grants, mail, outcome>>
    BY <1>7 DEF Insert, Working
  <2>2. CASE v = r
    <3>1. tx[v] = "open" /\ row[v] = "none"
      BY <2>1, <2>2
    <3>2. /\ pc'[v] = "role" /\ row'[v] = "pending" /\ grants'[v] = {}
          /\ phase'[v] = "working" /\ tx'[v] = "open" /\ promise'[v] = promise[v]
          /\ mail'[v] = "none" /\ outcome'[v] = "none"
      BY <2>1, <2>2, <3>1 DEF uvars
    <3> QED
      BY <3>2 DEF Refusals, Errors
  <2>3. CASE v # r
    BY <2>1, <2>3 DEF uvars
  <2> QED
    BY <2>2, <2>3
<1>8. ASSUME NEW r \in SignUps, InsertViolates(r) \/ QueryFails(r) PROVE SignUpInv(v)'
  BY <1>5, <1>8 DEF InsertViolates, QueryFails, Working
<1>9. ASSUME NEW r \in SignUps, GrantRole(r) PROVE SignUpInv(v)'
  BY <1>9 DEF GrantRole, AddRole, Working, uvars
<1>10. ASSUME NEW r \in SignUps, NEW step \in {"signIn", "signUp"}, GrantPermission(r, step)
       PROVE  SignUpInv(v)'
  BY <1>10 DEF GrantPermission, AddPermission, PermissionOf, SignupGrants, Working, uvars
<1>11. ASSUME NEW r \in SignUps, WorkReturns(r) PROVE SignUpInv(v)'
  BY <1>11 DEF WorkReturns, U!WorkReturns
<1>12. ASSUME NEW r \in SignUps, CommitExecutes(r) \/ CommitReturns(r) \/ CommitFails(r)
       PROVE  SignUpInv(v)'
  BY <1>12 DEF CommitExecutes, U!CommitExecutes, CommitReturns, U!CommitReturns,
               CommitFails, U!CommitFails, U!Close
<1>13. ASSUME NEW r \in SignUps, Rollback(r) PROVE SignUpInv(v)'
  BY <1>13 DEF Rollback, U!Rollback, U!Close, Translated, Refusals
<1>14. ASSUME NEW r \in SignUps, RollbackFails(r) PROVE SignUpInv(v)'
  BY <1>14 DEF RollbackFails, U!RollbackFails, U!Close
<1>15. ASSUME NEW r \in SignUps, SendMail(r) \/ MailReturns(r) \/ MailThrows(r) \/ MailStep(r)
       PROVE  SignUpInv(v)'
  BY <1>15 DEF SendMail, MailReturns, MailThrows, MailStep, MailArrives, MailIsLost, uvars,
               Refusals, Errors
<1>16. ASSUME NEW r \in SignUps, Break(r) PROVE SignUpInv(v)'
  BY <1>16 DEF Break, U!Break, U!Lost, U!Fault, Undone
<1>17. ASSUME NEW d \in Creates, CreateRejected(d) \/ CreateAccepted(d) \/ CreateStep(d)
       PROVE  SignUpInv(v)'
  BY <1>17 DEF CreateRejected, CreateAccepted, CreateStep, CreateLooksUp, CreateConnects,
               CreateInserts, CreateCommits, CreateReturns, CreateFails, uvars,
               U!Borrow, U!GiveBack, U!BorrowerBreaks
<1>18. CASE Crash
  <2>1. /\ pc[v] = "idle" \/ pc[v] = "done" => pc'[v] = pc[v]
        /\ pc[v] # "idle" /\ pc[v] # "done" => pc'[v] = "dead"
        /\ phase'[v] = IF phase[v] \in U!Running THEN "killed" ELSE phase[v]
        /\ tx'[v] = IF tx[v] = "open" THEN "aborted" ELSE tx[v]
        /\ row'[v] = IF row[v] = "pending" THEN "none" ELSE row[v]
        /\ grants'[v] = IF row[v] = "pending" THEN {} ELSE grants[v]
        /\ mail'[v] = mail[v] /\ outcome'[v] = outcome[v] /\ promise'[v] = promise[v]
    BY <1>18 DEF Crash, U!Crash, U!Lost, Undone
  <2>2. pc'[v] \in {"idle", "done", "dead"}
    BY <2>1
  <2>3. Place(v)'
    BY <2>1, <2>2 DEF U!Running, U!Phases, PCs
  <2>4. RowFollows(v)' /\ GrantsFollow(v)'
    BY <2>1, <2>2 DEF U!Running
  <2>5. AnswerFits(v)'
    BY <2>1
  <2> QED
    BY <2>3, <2>4, <2>5
<1>19. CASE UNCHANGED vars
  BY <1>19 DEF vars
<1>20. ASSUME NEW r \in SignUps, SignUpStep(r) PROVE SignUpInv(v)'
  BY <1>4, <1>6, <1>7, <1>8, <1>9, <1>10, <1>11, <1>12, <1>13, <1>14, <1>15, <1>20
     DEF SignUpStep
<1> QED
  BY <1>1, <1>2, <1>3, <1>15, <1>16, <1>17, <1>18, <1>19, <1>20 DEF Next

(* A step keeps every create call's invariant; a sign-up, whose unit may     *)
(* give its own connection back, leaves a create call as it was.             *)
LEMMA CreateInvNext ==
  ASSUME TypeOK, CallInv, [Next]_vars, NEW d \in Creates
  PROVE  CreateInv(d)'
<1>0. /\ SignUps \subseteq Calls /\ Creates \subseteq Calls
      /\ \A r \in SignUps : d # r
  BY CallsAssumption DEF Calls
<1>a. CreateInv(d)
  BY DEF CallInv
<1> DEFINE Alone == /\ pc'[d] = pc[d] /\ row'[d] = row[d]
                    /\ grants'[d] = grants[d] /\ outcome'[d] = outcome[d]
                    /\ d \in held => d \in held'
<1> USE <1>0 DEF TypeOK, U!TypeOK, Goto, Tell
<1> HIDE DEF Calls
<1>b. ASSUME Alone PROVE CreateInv(d)'
  BY <1>a, <1>b DEF CreateInv
<1>1. ASSUME NEW r \in SignUps,
             SignUpRejected(r) \/ SignUpAccepted(r) \/ StartFails(r) \/ Connect(r) \/ Begin(r)
      PROVE  Alone
  BY <1>1 DEF SignUpRejected, SignUpAccepted, U!Start, StartFails, U!ConnectFails,
              U!BeginFails, Connect, U!Connect, Begin, U!Begin, uvars
<1>2. ASSUME NEW r \in SignUps, NEW e, Throw(r, e) PROVE Alone
  BY <1>2 DEF Throw, U!WorkThrows
<1>3. ASSUME NEW r \in SignUps, NEW f, NEW e, LookUp(r, f, e) PROVE Alone
  BY <1>2, <1>3 DEF LookUp, uvars
<1>4. ASSUME NEW r \in SignUps, Insert(r) \/ InsertViolates(r) \/ QueryFails(r) PROVE Alone
  BY <1>2, <1>4 DEF Insert, InsertViolates, QueryFails, uvars
<1>5. ASSUME NEW r \in SignUps, NEW s, GrantRole(r) \/ GrantPermission(r, s) PROVE Alone
  BY <1>5 DEF GrantRole, AddRole, GrantPermission, AddPermission, uvars
<1>6. ASSUME NEW r \in SignUps,
             WorkReturns(r) \/ CommitExecutes(r) \/ CommitReturns(r) \/ CommitFails(r)
      PROVE  Alone
  BY <1>6 DEF WorkReturns, U!WorkReturns, CommitExecutes, U!CommitExecutes, CommitReturns,
              U!CommitReturns, CommitFails, U!CommitFails, U!Close
<1>7. ASSUME NEW r \in SignUps, Rollback(r) \/ RollbackFails(r) \/ Break(r) PROVE Alone
  BY <1>7 DEF Rollback, U!Rollback, RollbackFails, U!RollbackFails, U!Close, Break, U!Break
<1>8. ASSUME NEW r \in SignUps, SendMail(r) \/ MailReturns(r) \/ MailThrows(r) \/ MailStep(r)
      PROVE  Alone
  BY <1>8 DEF SendMail, MailReturns, MailThrows, MailStep, MailArrives, MailIsLost, uvars
<1>9. ASSUME NEW r \in SignUps, SignUpStep(r) PROVE Alone
  BY <1>1, <1>3, <1>4, <1>5, <1>6, <1>7, <1>8, <1>9 DEF SignUpStep
<1>10. ASSUME NEW b \in Creates, CreateRejected(b) \/ CreateAccepted(b) PROVE CreateInv(d)'
  <2>1. CASE CreateRejected(b)
    BY <1>a, <1>10, <2>1 DEF CreateInv, CreateRejected, uvars, Refusals
  <2>2. CASE CreateAccepted(b)
    <3>1. /\ pc[b] = "idle" /\ pc' = [pc EXCEPT ![b] = "username"]
          /\ UNCHANGED <<held, row, grants, outcome>>
      BY <2>2 DEF CreateAccepted, uvars
    <3>2. CASE b = d
      BY <1>a, <3>1, <3>2 DEF CreateInv
    <3>3. CASE b # d
      BY <1>b, <3>1, <3>3
    <3> QED
      BY <3>2, <3>3
  <2> QED
    BY <1>10, <2>1, <2>2
<1>11. ASSUME NEW b \in Creates,
              \/ CreateLooksUp(b, "username", "UsernameAlreadyExists", "email")
              \/ CreateLooksUp(b, "email", "EmailAlreadyExists", "save")
       PROVE  CreateInv(d)'
  <2>1. /\ pc[b] \in {"username", "email"}
        /\ UNCHANGED <<held, row, grants>>
        /\ \/ \E e \in Refusals : Tell(b, e)
           \/ (Goto(b, "email") \/ Goto(b, "save")) /\ UNCHANGED outcome
    BY <1>11 DEF CreateLooksUp, uvars, Refusals
  <2>2. CASE b = d
    <3>1. row[d] = "none" /\ grants[d] = {} /\ outcome[d] = "none"
      BY <1>a, <2>1, <2>2 DEF CreateInv
    <3>2. CASE \E e \in Refusals : Tell(b, e)
      BY <2>1, <2>2, <3>1, <3>2 DEF CreateInv, Refusals, Errors
    <3>3. CASE (Goto(b, "email") \/ Goto(b, "save")) /\ UNCHANGED outcome
      BY <2>1, <2>2, <3>1, <3>3 DEF CreateInv, Refusals, Errors
    <3> QED
      BY <2>1, <3>2, <3>3
  <2>3. CASE b # d
    BY <1>b, <2>1, <2>3
  <2> QED
    BY <2>2, <2>3
<1>12. ASSUME NEW b \in Creates, CreateConnects(b) \/ CreateInserts(b) \/ CreateCommits(b)
       PROVE  CreateInv(d)'
  <2>1. CASE CreateConnects(b)
    BY <1>a, <2>1 DEF CreateInv, CreateConnects, U!Borrow
  <2>2. CASE CreateInserts(b)
    BY <1>a, <2>2 DEF CreateInv, CreateInserts, uvars, Refusals, Errors
  <2>3. CASE CreateCommits(b)
    BY <1>a, <2>3 DEF CreateInv, CreateCommits, uvars, Refusals, Errors
  <2> QED
    BY <1>12, <2>1, <2>2, <2>3
<1>13. ASSUME NEW b \in Creates, CreateReturns(b) \/ CreateFails(b) PROVE CreateInv(d)'
  BY <1>a, <1>13 DEF CreateInv, CreateReturns, CreateFails, U!GiveBack, U!BorrowerBreaks,
                     Refusals, Errors
<1>14. CASE Crash
  BY <1>a, <1>14 DEF CreateInv, Crash, U!Crash, Undone
<1>15. CASE UNCHANGED vars
  BY <1>b, <1>15 DEF vars
<1>16. ASSUME NEW b \in Creates, CreateStep(b) PROVE CreateInv(d)'
  BY <1>11, <1>12, <1>13, <1>16 DEF CreateStep
<1> HIDE DEF Alone
<1> QED
  BY <1>b, <1>1, <1>7, <1>8, <1>9, <1>10, <1>14, <1>15, <1>16 DEF Next

(* No call has anything yet. *)
LEMMA CallsInit == Init => CallInv
<1> SUFFICES ASSUME Init PROVE CallInv
  OBVIOUS
<1> USE DEF Init, U!Init, Calls
<1>1. ASSUME NEW r \in SignUps PROVE SignUpInv(r)
  BY <1>1 DEF SignUpInv, Place, RowFollows, GrantsFollow, AnswerFits, WorkSteps, After,
              Inserted, Refusals, Errors
<1>2. ASSUME NEW d \in Creates PROVE CreateInv(d)
  BY <1>2 DEF CreateInv, Refusals, Errors
<1> QED
  BY <1>1, <1>2 DEF CallInv

(* The invariant of the calls, with the types and unit stages it rests on. *)
LEMMA CallsAlways == SafeSpec => [](TypeOK /\ UP!Staged /\ CallInv)
<1>1. TypeOK /\ UP!Staged /\ CallInv /\ [Next]_vars => CallInv'
  BY SignUpInvNext, CreateInvNext DEF CallInv
<1> QED
  BY <1>1, CallsInit, UnitsAreStaged, RegistrationTypeCorrect, PTL DEF SafeSpec

-----------------------------------------------------------------------------
(* Every account that sign-up opened has all it should have, however many    *)
(* calls are under way and whatever fails (auth.service.ts:194-211).         *)
THEOREM AccountsAreWhole == SafeSpec => []WholeAccounts
<1>1. CallInv => WholeAccounts
  BY DEF CallInv, SignUpInv, GrantsFollow, WholeAccounts
<1> QED
  BY <1>1, CallsAlways, PTL

(* No caller of register() is told the opposite of what the database keeps  *)
(* (auth.service.ts:216-232, database.service.ts:45-59).                     *)
THEOREM RepliesAreHonest == SafeSpec => []HonestReply
<1>1. CallInv => HonestReply
  BY DEF CallInv, SignUpInv, AnswerFits, HonestReply
<1> QED
  BY <1>1, CallsAlways, PTL

(* A verification mail is never sent for an account that is not there for   *)
(* good (auth.service.ts:212-222).                                           *)
THEOREM MailsFollowCommits == SafeSpec => []MailFollowsCommit
<1>1. CallInv => MailFollowsCommit
  BY DEF CallInv, SignUpInv, AnswerFits, MailFollowsCommit
<1> QED
  BY <1>1, CallsAlways, PTL

(* Whoever makes other inserts wait has the connection it needs to let them  *)
(* go on (auth.service.ts:194-211, users.service.ts:42-51).                  *)
THEOREM WaitingIsAcyclic == SafeSpec => []PendingRowsHaveAnOwner
<1>1. TypeOK /\ UP!Staged /\ CallInv => PendingRowsHaveAnOwner
  <2> SUFFICES ASSUME TypeOK, UP!Staged, CallInv, NEW c \in Calls, row[c] = "pending"
               PROVE  c \in held /\ (c \in SignUps => tx[c] = "open" /\ c \notin broken)
    BY DEF PendingRowsHaveAnOwner
  <2>1. CASE c \in SignUps
    <3>1. tx[c] = "open"
      BY <2>1 DEF CallInv, SignUpInv, RowFollows
    <3> QED
      BY <2>1, <3>1, StageOf
  <2>2. CASE c \in Creates
    BY <2>2, CallsAssumption DEF CallInv, CreateInv
  <2> QED
    BY <2>1, <2>2 DEF Calls
<1> QED
  BY <1>1, CallsAlways, PTL
=============================================================================
