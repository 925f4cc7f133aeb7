------------------------------- MODULE Grants -------------------------------
(***************************************************************************)
(* The roles and permissions of one user: addRole, removeRole,             *)
(* addPermission and removePermission on entities that their callers read  *)
(* earlier, UsersService.save, and isAuthorized.  Roles and permissions    *)
(* are handled alike, so both are codes; every code is in its table, as    *)
(* Seeding shows of a server that takes requests.                          *)
(*                                                                         *)
(* External: TypeORM's save().  It reads the row and its grants again,     *)
(* compares them with the whole entity, and writes what differs in one     *)
(* transaction: changed columns, a junction row for every object of a      *)
(* grant that was not there (so one twice, for two objects, which the      *)
(* primary key refuses), no row any more for a grant the entity lacks.     *)
(***************************************************************************)
EXTENDS Naturals

CONSTANTS Holders,  \* callers, each with an entity of the user
          Asks,     \* calls of isAuthorized
          Roles, Permissions, NoCode, NoUser, NoRow,
          Columns,  \* that others update: verified_email, active
          MaxCalls, MaxFaults

Codes == Roles \cup Permissions

ASSUME CodesAssumption  == Roles \cap Permissions = {} /\ NoCode \notin Codes
ASSUME BoundsAssumption == MaxCalls \in Nat /\ MaxFaults \in Nat

VARIABLES row,     \* what the database has of the user
          user,    \* the entity of each holder: how many objects of each code
          pc, op,  \* where its call stands, and what it is
          loaded,  \* what save() read
          outcome, calls, faults,
          asked, answer,  \* the permission asked for, and what was said
          base,    \* for the properties: the row an entity was up to date with
          seen     \* as its call began, and what was true since the question

hvars == <<user, pc, op, loaded, outcome, calls>>
avars == <<asked, answer, seen>>
vars  == <<row, hvars, faults, avars, base>>

(* A column that was updated stays so: verified_email true, active false. *)
Rows  == [granted : SUBSET Codes, updated : SUBSET Columns]
Users == [has : [Codes -> 0..MaxCalls + 1], updated : SUBSET Columns]
NoOp  == [kind |-> "none", code |-> NoCode, last |-> FALSE]

ASSUME NullsAssumption == NoUser \notin Users /\ NoRow \notin Rows

TypeOK ==
  /\ row \in Rows
  /\ user \in [Holders -> Users \cup {NoUser}]
  /\ pc \in [Holders -> {"idle", "find", "load", "write"}]
  /\ op \in [Holders -> [kind : {"none", "add", "remove"}, code : Codes \cup {NoCode},
                         last : BOOLEAN]]
  /\ loaded \in [Holders -> Rows \cup {NoRow}]
  /\ outcome \in [Holders -> {"none", "ok", "QueryFailed"}]
  /\ calls \in 0..MaxCalls /\ faults \in 0..MaxFaults
  /\ asked \in [Asks -> Permissions \cup {NoCode}]
  /\ answer \in [Asks -> {"none", "yes", "no", "QueryFailed"}]
  /\ base \in [Holders -> Rows \cup {NoRow}]
  /\ seen \in [Asks -> SUBSET {"yes", "no"}]

Init ==
  /\ row \in {r \in Rows : r.updated = {}}
  /\ user = [h \in Holders |-> NoUser]
  /\ pc = [h \in Holders |-> "idle"]
  /\ op = [h \in Holders |-> NoOp]
  /\ loaded = [h \in Holders |-> NoRow]
  /\ outcome = [h \in Holders |-> "none"]
  /\ calls = 0 /\ faults = 0
  /\ asked = [a \in Asks |-> NoCode]
  /\ answer = [a \in Asks |-> "none"]
  /\ base = [h \in Holders |-> NoRow]
  /\ seen = [a \in Asks |-> {}]

(* Nobody has written the user's row since h read it, or h alone. *)
Fresh(h) == base[h] # NoRow

Fault == faults < MaxFaults /\ faults' = faults + 1

Goto(h, step) == pc' = [pc EXCEPT ![h] = step]

Tell(h, what) == /\ Goto(h, "idle")
                 /\ outcome' = [outcome EXCEPT ![h] = what]
                 /\ loaded' = [loaded EXCEPT ![h] = NoRow]

(* For the properties: what isAuthorized ought to say of p by the row r. *)
Truth(p, r) == IF p \in r.granted THEN "yes" ELSE "no"

(* What the ghosts see of a write by h: every other entity is out of date, *)
(* and the questions under way may have been answered by the new row.      *)
Written(h) ==
  /\ base' = [o \in Holders |-> IF o = h \/ row' = row THEN base[o] ELSE NoRow]
  /\ seen' = [a \in Asks |-> IF asked[a] # NoCode /\ answer[a] = "none"
                             THEN seen[a] \cup {Truth(asked[a], row')} ELSE seen[a]]

-----------------------------------------------------------------------------
(* A caller reads the user: the relations are eager, with one object a grant. *)
Read(h) ==
  /\ pc[h] = "idle"
  /\ user' = [user EXCEPT ![h] =
                [has |-> [c \in Codes |-> IF c \in row.granted THEN 1 ELSE 0],
                 updated |-> row.updated]]
  /\ base' = [base EXCEPT ![h] = row]
  /\ op' = [op EXCEPT ![h] = NoOp]
  /\ outcome' = [outcome EXCEPT ![h] = "none"]
  /\ UNCHANGED <<row, pc, loaded, calls, faults, avars>>

Has(h, code) == user[h].has[code] > 0

(* op.last, for the properties: the call takes the entity's only object. *)
Called(h, kind, code, last) ==
  /\ pc[h] = "idle" /\ user[h] # NoUser /\ calls < MaxCalls
  /\ calls' = calls + 1
  /\ op' = [op EXCEPT ![h] = [kind |-> kind, code |-> code, last |-> last]]
  /\ base' = [base EXCEPT ![h] = IF Fresh(h) THEN row ELSE NoRow]

(* Mistake: the list is assigned with the object in it, and then pushed to. *)
Push_Twice(h, code) == user' = [user EXCEPT ![h].has[code] = @ + 2]

Push(h, code) == user' = [user EXCEPT ![h].has[code] = @ + 1]

Splice(h, code) == user' = [user EXCEPT ![h].has[code] = @ - 1]

(* The four operations, with a definition from roles.ts or permissions.ts,  *)
(* which is no object of the entity.                                        *)
CallByDefinition(h, kind, code) ==
  /\ Called(h, kind, code, FALSE)
  /\ Goto(h, "find")
  /\ outcome' = [outcome EXCEPT ![h] = "none"]
  /\ UNCHANGED <<row, user, loaded, faults, avars>>

(* add, with an object out of the entity itself: it is there already. *)
AddOwn(h, code) ==
  /\ Called(h, "add", code, FALSE) /\ Has(h, code)
  /\ Tell(h, "ok")
  /\ UNCHANGED <<row, user, faults, avars>>

(* remove, likewise: this object goes; others of the code may stay. *)
RemoveOwn(h, code) ==
  /\ Called(h, "remove", code, user[h].has[code] = 1) /\ Has(h, code)
  /\ Splice(h, code) /\ Goto(h, "load")
  /\ outcome' = [outcome EXCEPT ![h] = "none"]
  /\ UNCHANGED <<row, loaded, faults, avars>>

(* What findOne() returns is a new object, never one of the entity's. *)
FoundToAdd(h) ==
  /\ pc[h] = "find" /\ op[h].kind = "add"
  /\ Push(h, op[h].code) /\ Goto(h, "load")
  /\ UNCHANGED <<row, op, loaded, outcome, calls, faults, avars, base>>

(* Mistake: without "if (hasRole)" splice(-1, 1) takes the last of the list. *)
FoundToRemove_Unguarded(h) ==
  /\ pc[h] = "find" /\ op[h].kind = "remove"
  /\ \E c \in Codes : Has(h, c) /\ Splice(h, c)
  /\ Goto(h, "load")
  /\ UNCHANGED <<row, op, loaded, outcome, calls, faults, avars, base>>

FoundToRemove(h) ==
  /\ pc[h] = "find" /\ op[h].kind = "remove"
  /\ Tell(h, "ok")
  /\ UNCHANGED <<row, user, op, calls, faults, avars, base>>

-----------------------------------------------------------------------------
(* UsersService.save(user). *)

SaveLoads(h) ==
  /\ pc[h] = "load" /\ Goto(h, "write")
  /\ loaded' = [loaded EXCEPT ![h] = row]
  /\ UNCHANGED <<row, user, op, outcome, calls, faults, avars, base>>

(* Mistake: the junction rows are inserted without looking what is there. *)
Missing_Blind(h) == {c \in Codes : Has(h, c)}

Missing(h) == {c \in Codes : Has(h, c)} \ loaded[h].granted

Dropped(h) == {c \in loaded[h].granted : ~Has(h, c)}

Clashes(h) == \E c \in Missing(h) : c \in row.granted \/ user[h].has[c] > 1

(* Mistake: repository.update(), which writes columns and no relation. *)
Saved_ColumnsOnly(h) ==
  [granted |-> row.granted, updated |-> user[h].updated]

Saved(h) ==
  [granted |-> (row.granted \cup Missing(h)) \ Dropped(h),
   updated |-> (row.updated \cup (user[h].updated \ loaded[h].updated))
                 \ (loaded[h].updated \ user[h].updated)]

SaveWrites(h) ==
  /\ pc[h] = "write" /\ ~Clashes(h)
  /\ row' = Saved(h) /\ Written(h)
  /\ Tell(h, "ok")
  /\ UNCHANGED <<user, op, calls, faults, asked, answer>>

(* What was pushed or spliced stays so: the entity is no longer as the row. *)
Unlike(h) == base' = [base EXCEPT ![h] = NoRow]

(* The primary key of the junction table refuses a row. *)
SaveClashes(h) ==
  /\ pc[h] = "write" /\ Clashes(h)
  /\ Tell(h, "QueryFailed") /\ Unlike(h)
  /\ UNCHANGED <<row, user, op, calls, faults, avars>>

FindFails(h) ==
  /\ pc[h] = "find" /\ Fault
  /\ Tell(h, "QueryFailed")
  /\ UNCHANGED <<row, user, op, calls, avars, base>>

SaveFails(h) ==
  /\ pc[h] \in {"load", "write"} /\ Fault
  /\ Tell(h, "QueryFailed") /\ Unlike(h)
  /\ UNCHANGED <<row, user, op, calls, avars>>

(* The commit takes effect and its answer is lost. *)
AnswerLost(h) ==
  /\ pc[h] = "write" /\ ~Clashes(h) /\ Fault
  /\ row' = Saved(h) /\ Written(h)
  /\ Tell(h, "QueryFailed")
  /\ UNCHANGED <<user, op, calls, asked, answer>>

-----------------------------------------------------------------------------
(* Others who write the user's row, one column at a time: verify(), by        *)
(* UsersService.update(user, {verified_email: true}), and whoever clears      *)
(* "active", which no code of the program does.                               *)
Update(column) ==
  /\ column \notin row.updated
  /\ row' = [row EXCEPT !.updated = @ \cup {column}]
  /\ base' = [h \in Holders |-> NoRow]
  /\ UNCHANGED <<hvars, faults, avars>>

-----------------------------------------------------------------------------
(* AuthService.isAuthorized and UsersService.isAuthorized. *)

AskCalled(a) ==
  /\ asked[a] = NoCode
  /\ \E p \in Permissions : /\ asked' = [asked EXCEPT ![a] = p]
                            /\ seen' = [seen EXCEPT ![a] = {Truth(p, row)}]
  /\ UNCHANGED <<row, hvars, faults, answer, base>>

Answer(a, what) == /\ answer' = [answer EXCEPT ![a] = what]
                   /\ seen' = [seen EXCEPT ![a] = {}]
                   /\ UNCHANGED <<row, hvars, asked, base>>

(* Mistake: the entity that was passed is judged, not read again. *)
AskAnswered_AsPassed(a) ==
  /\ asked[a] # NoCode /\ answer[a] = "none"
  /\ \E h \in Holders : /\ user[h] # NoUser
                        /\ Answer(a, IF Has(h, asked[a]) THEN "yes" ELSE "no")
  /\ UNCHANGED faults

(* The permission's id never changes, so the look-up before is not seen. *)
AskAnswered(a) ==
  /\ asked[a] # NoCode /\ answer[a] = "none"
  /\ Answer(a, IF asked[a] \in row.granted THEN "yes" ELSE "no")
  /\ UNCHANGED faults

AskFails(a) ==
  /\ asked[a] # NoCode /\ answer[a] = "none" /\ Fault
  /\ Answer(a, "QueryFailed")

-----------------------------------------------------------------------------
HolderStep(h) ==
  \/ FoundToAdd(h) \/ FoundToRemove(h) \/ FindFails(h)
  \/ SaveLoads(h) \/ SaveWrites(h) \/ SaveClashes(h) \/ SaveFails(h) \/ AnswerLost(h)

Next ==
  \/ \E h \in Holders : \/ Read(h) \/ HolderStep(h)
                        \/ \E c \in Codes : \/ CallByDefinition(h, "add", c)
                                            \/ CallByDefinition(h, "remove", c)
                                            \/ AddOwn(h, c) \/ RemoveOwn(h, c)
  \/ \E a \in Asks : AskCalled(a) \/ AskAnswered(a) \/ AskFails(a)
  \/ \E column \in Columns : Update(column)

Spec == Init /\ [][Next]_vars

-----------------------------------------------------------------------------
(* Properties. *)

(* A call on an entity nobody wrote since it was read touches the grant it   *)
(* is about and nothing else, no flag included.  Added, the grant is there;  *)
(* removed by the entity's last object of it, it is gone; what a removal by  *)
(* definition should come to is RemovedMeansGone (auth_roles.service.ts:75-80, *)
(* 100-104).                                                                 *)
FreshCallsAreConfined ==
  \A h \in Holders : outcome[h] = "ok" /\ Fresh(h) =>
    LET before == base[h].granted
    IN  /\ row.updated = base[h].updated
        /\ op[h].kind = "add" => row.granted = before \cup {op[h].code}
        /\ op[h].kind = "remove" => row.granted \in {before, before \ {op[h].code}}
        /\ op[h].last => op[h].code \notin row.granted

(* A grant that goes without being removed, a verification undone, a ban     *)
(* lifted: only by the save of an entity that was out of date                *)
(* (users.service.ts:45-48).                                                 *)
OnlyStaleSavesRevert ==
  [][\A h \in Holders : pc[h] = "write" /\ pc'[h] = "idle" /\ Fresh(h) =>
       /\ row.granted \ row'.granted \subseteq
            IF op[h].kind = "remove" THEN {op[h].code} ELSE {}
       /\ row.updated \subseteq row'.updated]_vars

(* The primary key refuses no call on an entity that is up to date, however  *)
(* often the code was added to it before (auth_permissions.service.ts:78-83). *)
FreshSavesSucceed ==
  [][\A h \in Holders : outcome[h] = "none" /\ outcome'[h] = "QueryFailed" /\ Fresh(h) =>
       faults' > faults]_vars

(* isAuthorized says what was true at some moment while it ran, whatever the *)
(* entity it was given says (users.service.ts:58-67).                        *)
AuthorizedWhileAsked ==
  [][\A a \in Asks : answer[a] = "none" /\ answer'[a] \in {"yes", "no"} =>
                       answer'[a] \in seen[a]]_vars
=============================================================================
