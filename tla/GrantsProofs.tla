---------------------------- MODULE GrantsProofs ----------------------------
(***************************************************************************)
(* Proofs about the roles and permissions of a user, for any number of     *)
(* holders of an entity, questions, codes, columns, calls and faults.      *)
(***************************************************************************)
EXTENDS Grants, TLAPS

(* How many objects of a code an entity may have: one that was read, and one *)
(* for each call that has pushed.                                            *)
Counted(h) ==
  /\ pc[h] # "idle" => user[h] # NoUser /\ op[h].kind # "none" /\ op[h].code \in Codes
  /\ user[h] # NoUser => \A c \in Codes : user[h].has[c] <= IF pc[h] = "find" THEN calls ELSE calls + 1
  /\ pc[h] = "write" => loaded[h] # NoRow

Typed == TypeOK /\ \A h \in Holders : Counted(h)

LEMMA TypedInit == Init => Typed
<1> SUFFICES ASSUME Init PROVE Typed
  OBVIOUS
<1>1. TypeOK
  BY BoundsAssumption DEF Init, TypeOK, NoOp
<1>2. ASSUME NEW h \in Holders PROVE Counted(h)
  BY <1>2 DEF Init, Counted
<1> QED
  BY <1>1, <1>2 DEF Typed

-----------------------------------------------------------------------------
(* What the helpers do to the entity: one object more, or one less. *)
LEMMA PushedUser ==
  ASSUME Typed, NEW h \in Holders, NEW code \in Codes, user[h] # NoUser,
         user[h].has[code] <= MaxCalls, Push(h, code)
  PROVE  /\ user' \in [Holders -> Users \cup {NoUser}]
         /\ \A o \in Holders : o # h => user'[o] = user[o]
         /\ user'[h] \in Users
         /\ user'[h].updated = user[h].updated
         /\ \A c \in Codes : user'[h].has[c] = IF c = code THEN user[h].has[c] + 1 ELSE user[h].has[c]
<1>1. user \in [Holders -> Users \cup {NoUser}] /\ user[h] \in Users
  BY DEF Typed, TypeOK
<1>2. user'[h] = [user[h] EXCEPT !.has[code] = @ + 1] /\ user' = [user EXCEPT ![h] = user'[h]]
  BY <1>1 DEF Push
<1>3. user'[h].has = [user[h].has EXCEPT ![code] = @ + 1] /\ user'[h].updated = user[h].updated
  BY <1>1, <1>2 DEF Users
<1>4. user'[h].has \in [Codes -> 0..MaxCalls + 1]
  BY <1>1, <1>3, BoundsAssumption DEF Users
<1>5. user'[h] \in Users
  BY <1>1, <1>2, <1>4 DEF Users
<1> QED
  BY <1>1, <1>2, <1>3, <1>5 DEF Users

LEMMA SplicedUser ==
  ASSUME Typed, NEW h \in Holders, NEW code \in Codes, user[h] # NoUser,
         Has(h, code), Splice(h, code)
  PROVE  /\ user' \in [Holders -> Users \cup {NoUser}]
         /\ \A o \in Holders : o # h => user'[o] = user[o]
         /\ user'[h] \in Users
         /\ user'[h].updated = user[h].updated
         /\ \A c \in Codes : user'[h].has[c] = IF c = code THEN user[h].has[c] - 1 ELSE user[h].has[c]
<1>1. user \in [Holders -> Users \cup {NoUser}] /\ user[h] \in Users
  BY DEF Typed, TypeOK
<1>2. user'[h] = [user[h] EXCEPT !.has[code] = @ - 1] /\ user' = [user EXCEPT ![h] = user'[h]]
  BY <1>1 DEF Splice
<1>3. user'[h].has = [user[h].has EXCEPT ![code] = @ - 1] /\ user'[h].updated = user[h].updated
  BY <1>1, <1>2 DEF Users
<1>4. user'[h].has \in [Codes -> 0..MaxCalls + 1]
  BY <1>1, <1>3, BoundsAssumption DEF Users, Has
<1>5. user'[h] \in Users
  BY <1>1, <1>2, <1>4 DEF Users
<1> QED
  BY <1>1, <1>2, <1>3, <1>5 DEF Users

-----------------------------------------------------------------------------
(* Types.  What a save writes is a row; what the ghosts see of it is typed. *)
LEMMA SavedRow ==
  ASSUME Typed, NEW h \in Holders, pc[h] = "write"
  PROVE  Saved(h) \in Rows
<1>1. user[h] \in Users /\ loaded[h] \in Rows /\ row \in Rows
  BY DEF Typed, TypeOK, Counted
<1>2. Missing(h) \subseteq Codes /\ Dropped(h) \subseteq Codes
  BY <1>1 DEF Missing, Dropped, Rows
<1> QED
  BY <1>1, <1>2 DEF Saved, Rows, Users

LEMMA WrittenTypes ==
  ASSUME TypeOK, NEW h \in Holders, row' \in Rows, Written(h)
  PROVE  /\ base' \in [Holders -> Rows \cup {NoRow}]
         /\ seen' \in [Asks -> SUBSET {"yes", "no"}]
<1>1. base' \in [Holders -> Rows \cup {NoRow}]
  BY DEF Written, TypeOK
<1>2. ASSUME NEW a \in Asks PROVE seen[a] \cup {Truth(asked[a], row')} \in SUBSET {"yes", "no"}
  BY DEF Typed, TypeOK, Truth
<1>3. seen' \in [Asks -> SUBSET {"yes", "no"}]
  BY <1>2 DEF Written, TypeOK
<1> QED
  BY <1>1, <1>3

LEMMA CallTypes ==
  ASSUME Typed, NEW h \in Holders, NEW kind \in {"add", "remove"}, NEW code \in Codes,
         NEW last \in BOOLEAN, Called(h, kind, code, last)
  PROVE  /\ calls' \in 0..MaxCalls
         /\ op' \in [Holders -> [kind : {"none", "add", "remove"}, code : Codes \cup {NoCode},
                                 last : BOOLEAN]]
         /\ base' \in [Holders -> Rows \cup {NoRow}]
<1>1. calls' \in 0..MaxCalls
  BY BoundsAssumption DEF Called, Typed, TypeOK
<1> QED
  BY <1>1 DEF Called, Typed, TypeOK

LEMMA HolderTypes ==
  ASSUME Typed, NEW h \in Holders, Read(h) \/ HolderStep(h)
  PROVE  TypeOK'
<1> USE DEF TypeOK
<1>0. TypeOK /\ Counted(h)
  BY DEF Typed
<1>1. ASSUME NEW what \in {"ok", "QueryFailed"}, Tell(h, what)
      PROVE  /\ pc' \in [Holders -> {"idle", "find", "load", "write"}]
             /\ outcome' \in [Holders -> {"none", "ok", "QueryFailed"}]
             /\ loaded' \in [Holders -> Rows \cup {NoRow}]
  BY <1>0, <1>1 DEF Tell, Goto
<1>2. ASSUME Fault PROVE faults' \in 0..MaxFaults
  BY <1>0, <1>2, BoundsAssumption DEF Fault
<1>3. CASE Read(h)
  <2>1. [has |-> [c \in Codes |-> IF c \in row.granted THEN 1 ELSE 0], updated |-> row.updated]
          \in Users
    BY <1>0, BoundsAssumption DEF Users, Rows
  <2> QED
    BY <1>0, <1>3, <2>1 DEF Read, NoOp, avars
<1>4. CASE FoundToAdd(h)
  <2>1. user[h] # NoUser /\ op[h].code \in Codes /\ user[h].has[op[h].code] <= MaxCalls
    BY <1>0, <1>4, BoundsAssumption DEF FoundToAdd, Counted, Users
  <2>2. user' \in [Holders -> Users \cup {NoUser}]
    BY <1>4, <2>1, PushedUser DEF FoundToAdd
  <2> QED
    BY <1>0, <1>4, <2>2 DEF FoundToAdd, Goto, avars
<1>5. CASE FoundToRemove(h)
  BY <1>0, <1>1, <1>5 DEF FoundToRemove, avars
<1>6. CASE FindFails(h) \/ SaveFails(h) \/ SaveClashes(h)
  BY <1>0, <1>1, <1>2, <1>6 DEF FindFails, SaveFails, SaveClashes, Unlike, avars
<1>7. CASE SaveLoads(h)
  BY <1>0, <1>7 DEF SaveLoads, Goto, avars
<1>8. CASE SaveWrites(h) \/ AnswerLost(h)
  <2>1. pc[h] = "write" /\ row' = Saved(h) /\ Written(h) /\ UNCHANGED <<user, op, calls, asked, answer>>
    BY <1>8 DEF SaveWrites, AnswerLost
  <2>2. row' \in Rows
    BY <2>1, SavedRow
  <2>3. base' \in [Holders -> Rows \cup {NoRow}] /\ seen' \in [Asks -> SUBSET {"yes", "no"}]
    BY <1>0, <2>1, <2>2, WrittenTypes
  <2>4. (Tell(h, "ok") /\ UNCHANGED faults) \/ (Tell(h, "QueryFailed") /\ Fault)
    BY <1>8 DEF SaveWrites, AnswerLost
  <2> QED
    BY <1>0, <1>1, <1>2, <2>1, <2>2, <2>3, <2>4
<1> QED
  BY <1>3, <1>4, <1>5, <1>6, <1>7, <1>8 DEF HolderStep

LEMMA CalledTypes ==
  ASSUME Typed, NEW h \in Holders, NEW c \in Codes,
         \/ CallByDefinition(h, "add", c) \/ CallByDefinition(h, "remove", c)
         \/ AddOwn(h, c) \/ RemoveOwn(h, c)
  PROVE  TypeOK'
<1> USE DEF TypeOK
<1>0. TypeOK
  BY DEF Typed
<1>1. ASSUME NEW kind \in {"add", "remove"}, CallByDefinition(h, kind, c) PROVE TypeOK'
  BY <1>0, <1>1, CallTypes DEF CallByDefinition, Goto, avars
<1>2. CASE AddOwn(h, c)
  BY <1>0, <1>2, CallTypes DEF AddOwn, Tell, Goto, avars
<1>3. CASE RemoveOwn(h, c)
  <2>1. user' \in [Holders -> Users \cup {NoUser}]
    BY <1>3, SplicedUser DEF RemoveOwn, Called
  <2>2. /\ calls' \in 0..MaxCalls
        /\ op' \in [Holders -> [kind : {"none", "add", "remove"}, code : Codes \cup {NoCode},
                                last : BOOLEAN]]
        /\ base' \in [Holders -> Rows \cup {NoRow}]
    BY <1>3, CallTypes DEF RemoveOwn
  <2> QED
    BY <1>0, <1>3, <2>1, <2>2 DEF RemoveOwn, Goto, avars
<1> QED
  BY <1>1, <1>2, <1>3

LEMMA OtherTypes ==
  ASSUME Typed,
         \/ \E a \in Asks : AskCalled(a) \/ AskAnswered(a) \/ AskFails(a)
         \/ \E column \in Columns : Update(column)
         \/ UNCHANGED vars
  PROVE  TypeOK'
<1> USE DEF TypeOK
<1>0. TypeOK
  BY DEF Typed
<1>1. ASSUME NEW a \in Asks, AskCalled(a) PROVE TypeOK'
  <2>1. PICK p \in Permissions : /\ asked' = [asked EXCEPT ![a] = p]
                                 /\ seen' = [seen EXCEPT ![a] = {Truth(p, row)}]
    BY <1>1 DEF AskCalled
  <2>2. {Truth(p, row)} \in SUBSET {"yes", "no"}
    BY DEF Truth
  <2>3. seen' \in [Asks -> SUBSET {"yes", "no"}]
    BY <1>0, <2>1, <2>2
  <2> QED
    BY <1>0, <1>1, <2>1, <2>3 DEF AskCalled, hvars
<1>2. ASSUME NEW a \in Asks, AskAnswered(a) \/ AskFails(a) PROVE TypeOK'
  BY <1>0, <1>2, BoundsAssumption DEF AskAnswered, AskFails, Answer, Fault, hvars
<1>3. ASSUME NEW column \in Columns, Update(column) PROVE TypeOK'
  <2>1. row' \in Rows
    BY <1>0, <1>3 DEF Update, Rows
  <2> QED
    BY <1>0, <1>3, <2>1 DEF Update, hvars, avars
<1>4. CASE UNCHANGED vars
  BY <1>0, <1>4 DEF vars, hvars, avars
<1> QED
  BY <1>1, <1>2, <1>3, <1>4

-----------------------------------------------------------------------------
(* A step of h leaves every other holder as he was, except for what he was  *)
(* up to date with.                                                          *)
LEMMA OthersStay ==
  ASSUME Typed, NEW h \in Holders, NEW o \in Holders, o # h,
         \/ Read(h) \/ HolderStep(h)
         \/ \E c \in Codes : \/ CallByDefinition(h, "add", c) \/ CallByDefinition(h, "remove", c)
                             \/ AddOwn(h, c) \/ RemoveOwn(h, c)
  PROVE  /\ user'[o] = user[o] /\ pc'[o] = pc[o] /\ op'[o] = op[o]
         /\ loaded'[o] = loaded[o] /\ outcome'[o] = outcome[o]
         /\ calls <= calls'
         /\ base'[o] = NoRow \/ (base'[o] = base[o] /\ UNCHANGED row)
<1> USE DEF Typed, TypeOK, Goto, Tell
<1>1. CASE Read(h)
  BY <1>1 DEF Read
<1>2. CASE FoundToAdd(h)
  BY <1>2 DEF FoundToAdd, Push
<1>3. CASE FoundToRemove(h) \/ FindFails(h) \/ SaveLoads(h) \/ SaveClashes(h) \/ SaveFails(h)
  BY <1>3 DEF FoundToRemove, FindFails, SaveLoads, SaveClashes, SaveFails, Unlike
<1>4. CASE SaveWrites(h) \/ AnswerLost(h)
  BY <1>4 DEF SaveWrites, AnswerLost, Written
<1>5. ASSUME NEW c, NEW kind, NEW last, Called(h, kind, c, last)
      PROVE  op'[o] = op[o] /\ base'[o] = base[o] /\ calls <= calls'
  BY <1>5, BoundsAssumption DEF Called
<1>6. ASSUME NEW c \in Codes, CallByDefinition(h, "add", c) \/ CallByDefinition(h, "remove", c)
      PROVE  /\ user'[o] = user[o] /\ pc'[o] = pc[o] /\ op'[o] = op[o]
             /\ loaded'[o] = loaded[o] /\ outcome'[o] = outcome[o]
             /\ calls <= calls' /\ base'[o] = base[o] /\ UNCHANGED row
  BY <1>5, <1>6 DEF CallByDefinition
<1>7. ASSUME NEW c \in Codes, AddOwn(h, c) \/ RemoveOwn(h, c)
      PROVE  /\ user'[o] = user[o] /\ pc'[o] = pc[o] /\ op'[o] = op[o]
             /\ loaded'[o] = loaded[o] /\ outcome'[o] = outcome[o]
             /\ calls <= calls' /\ base'[o] = base[o] /\ UNCHANGED row
  BY <1>5, <1>7 DEF AddOwn, RemoveOwn, Splice
<1> QED
  BY <1>1, <1>2, <1>3, <1>4, <1>6, <1>7 DEF HolderStep

(* Neither questions nor other writers touch the holders. *)
LEMMA HoldersStay ==
  ASSUME \/ \E a \in Asks : AskCalled(a) \/ AskAnswered(a) \/ AskFails(a)
         \/ \E column \in Columns : Update(column)
         \/ UNCHANGED vars
  PROVE  UNCHANGED hvars
  BY DEF AskCalled, AskAnswered, AskFails, Answer, Update, vars

LEMMA CountedNext ==
  ASSUME Typed, [Next]_vars, NEW o \in Holders
  PROVE  Counted(o)'
<1> USE DEF Counted
<1>0. Counted(o) /\ TypeOK
  BY DEF Typed
<1>a. calls \in Nat /\ user \in [Holders -> Users \cup {NoUser}] /\ pc \in [Holders -> {"idle", "find", "load", "write"}]
      /\ op \in [Holders -> [kind : {"none", "add", "remove"}, code : Codes \cup {NoCode}, last : BOOLEAN]]
      /\ loaded \in [Holders -> Rows \cup {NoRow}] /\ row \in Rows
  BY <1>0, BoundsAssumption DEF TypeOK
<1>b. user[o] # NoUser => user[o].has \in [Codes -> 0..MaxCalls + 1] 
  BY <1>a DEF Users
<1>1. CASE UNCHANGED hvars
  BY <1>0, <1>1 DEF hvars
<1>2. ASSUME NEW h \in Holders, o # h,
             \/ Read(h) \/ HolderStep(h)
             \/ \E c \in Codes : \/ CallByDefinition(h, "add", c) \/ CallByDefinition(h, "remove", c)
                                 \/ AddOwn(h, c) \/ RemoveOwn(h, c)
      PROVE  Counted(o)'
  <2>1. /\ user'[o] = user[o] /\ pc'[o] = pc[o] /\ op'[o] = op[o]
        /\ loaded'[o] = loaded[o] /\ calls <= calls'
    BY <1>2, OthersStay
  <2>2. calls' \in Nat
    <3>1. TypeOK'
      BY <1>2, HolderTypes, CalledTypes
    <3> QED
      BY <3>1, BoundsAssumption DEF TypeOK
  <2>3. user[o] # NoUser => \A c \in Codes : user[o].has[c] \in Nat
    BY <1>b, BoundsAssumption
  <2> QED
    BY <1>0, <1>a, <2>1, <2>2, <2>3
<1>3. CASE Read(o)
  BY <1>0, <1>a, <1>3 DEF Read
<1>4. CASE FoundToAdd(o)
  <2>1. user[o] # NoUser /\ op[o].code \in Codes /\ user[o].has[op[o].code] <= MaxCalls
    BY <1>0, <1>b, <1>4, BoundsAssumption DEF FoundToAdd, TypeOK
  <2>2. /\ user'[o] \in Users
        /\ \A c \in Codes : user'[o].has[c] = IF c = op[o].code THEN user[o].has[c] + 1 ELSE user[o].has[c]
    BY <1>4, <2>1, PushedUser DEF FoundToAdd
  <2>3. user'[o] # NoUser
    BY <2>2, NullsAssumption
  <2>4. pc[o] = "find" /\ pc'[o] = "load" /\ UNCHANGED <<calls, op>>
    BY <1>a, <1>4 DEF FoundToAdd, Goto
  <2>5. \A c \in Codes : user'[o].has[c] <= calls + 1
    BY <1>0, <1>a, <1>b, <2>1, <2>2, <2>4, BoundsAssumption
  <2> QED
    BY <1>0, <2>3, <2>4, <2>5
<1>5. CASE FoundToRemove(o) \/ FindFails(o) \/ SaveLoads(o) \/ SaveClashes(o) \/ SaveFails(o)
           \/ SaveWrites(o) \/ AnswerLost(o)
  <2>1. /\ UNCHANGED <<user, op, calls>>
        /\ \/ pc'[o] = "idle"
           \/ pc[o] = "load" /\ pc'[o] = "write" /\ loaded'[o] = row
    BY <1>a, <1>5 DEF FoundToRemove, FindFails, SaveLoads, SaveClashes, SaveFails, SaveWrites,
                      AnswerLost, Tell, Goto
  <2>2. user[o] # NoUser => \A c \in Codes : user[o].has[c] <= calls + 1
    BY <1>0, <1>a, <1>b, BoundsAssumption
  <2> QED
    BY <1>0, <1>a, <2>1, <2>2, NullsAssumption
<1>6. ASSUME NEW c \in Codes, CallByDefinition(o, "add", c) \/ CallByDefinition(o, "remove", c)
      PROVE  Counted(o)'
  BY <1>0, <1>a, <1>6 DEF CallByDefinition, Called, Goto
<1>7. ASSUME NEW c \in Codes, AddOwn(o, c) PROVE Counted(o)'
  BY <1>0, <1>a, <1>b, <1>7, BoundsAssumption DEF AddOwn, Called, Tell, Goto
<1>8. ASSUME NEW c \in Codes, RemoveOwn(o, c) PROVE Counted(o)'
  <2>1. /\ user[o] # NoUser /\ pc[o] = "idle" /\ pc'[o] = "load" /\ calls' = calls + 1
        /\ op'[o].kind = "remove" /\ op'[o].code = c
    BY <1>a, <1>8 DEF RemoveOwn, Called, Goto
  <2>2. /\ user'[o] \in Users
        /\ \A d \in Codes : user'[o].has[d] = IF d = c THEN user[o].has[d] - 1 ELSE user[o].has[d]
    BY <1>8, <2>1, SplicedUser DEF RemoveOwn
  <2>3. \A d \in Codes : user'[o].has[d] <= calls' + 1
    BY <1>0, <1>a, <1>b, <2>1, <2>2, BoundsAssumption
  <2> QED
    BY <2>1, <2>2, <2>3, NullsAssumption
<1> HIDE DEF Counted
<1>9. ASSUME NEW h \in Holders,
             \/ Read(h) \/ HolderStep(h)
             \/ \E c \in Codes : \/ CallByDefinition(h, "add", c) \/ CallByDefinition(h, "remove", c)
                                 \/ AddOwn(h, c) \/ RemoveOwn(h, c)
      PROVE  Counted(o)'
  BY <1>2, <1>3, <1>4, <1>5, <1>6, <1>7, <1>8, <1>9 DEF HolderStep
<1> QED
  BY <1>1, <1>9, HoldersStay DEF Next

LEMMA TypedAlways == Spec => []Typed
<1>1. Typed /\ [Next]_vars => TypeOK'
  BY HolderTypes, CalledTypes, OtherTypes DEF Next
<1>2. Typed /\ [Next]_vars => Typed'
  BY <1>1, CountedNext DEF Typed
<1> QED
  BY <1>2, TypedInit, PTL DEF Spec

(* What the database, the entities and the calls hold always has its type,  *)
(* and an entity's lists grow by one object a call at most                   *)
(* (auth_roles.service.ts:59-104, auth_permissions.service.ts:62-110).       *)
THEOREM GrantsTypeCorrect == Spec => []TypeOK
<1>1. Typed => TypeOK
  BY DEF Typed
<1> QED
  BY <1>1, TypedAlways, PTL

-----------------------------------------------------------------------------
(* An entity that nobody wrote behind is like the row, but for what its own *)
(* call is about to change; so its save writes exactly that.                 *)

Own(h) == {c \in Codes : Has(h, c)}

Wanted(h) == CASE op[h].kind = "add" -> base[h].granted \cup {op[h].code}
               [] op[h].last         -> base[h].granted \ {op[h].code}
               [] OTHER              -> base[h].granted

FreshInv(h) ==
  /\ op[h].last => op[h].kind = "remove" /\ pc[h] # "find"
  /\ outcome[h] # "none" => pc[h] = "idle"
  /\ Fresh(h) =>
       /\ user[h] # NoUser /\ user[h].updated = row.updated
       /\ pc[h] \in {"idle", "find"} => Own(h) = row.granted
       /\ pc[h] # "idle" => base[h] = row
       /\ pc[h] \in {"load", "write"} => Own(h) = Wanted(h)
       /\ pc[h] \in {"load", "write"} /\ op[h].kind = "add" /\ op[h].code \notin row.granted
            => user[h].has[op[h].code] = 1
       /\ pc[h] = "write" => loaded[h] = row
       /\ outcome[h] = "ok" => row = [base[h] EXCEPT !.granted = Wanted(h)]

LEMMA SavedIsOwn ==
  ASSUME Typed, NEW h \in Holders, loaded[h] = row, user[h] # NoUser,
         user[h].updated = row.updated
  PROVE  Saved(h).granted = Own(h) /\ Saved(h).updated = row.updated
<1>1. row \in Rows
  BY DEF Typed, TypeOK
<1>2. Missing(h) = Own(h) \ row.granted /\ Dropped(h) = row.granted \ Own(h)
  BY <1>1 DEF Missing, Dropped, Own, Rows
<1>3. Own(h) = (row.granted \cup Missing(h)) \ Dropped(h)
  BY <1>2
<1> QED
  BY <1>3 DEF Saved

LEMMA FreshInit == Init => \A h \in Holders : FreshInv(h)
<1> SUFFICES ASSUME Init, NEW h \in Holders PROVE FreshInv(h)
  OBVIOUS
<1>1. base[h] = NoRow /\ outcome[h] = "none" /\ op[h].last = FALSE
  BY DEF Init, NoOp
<1> QED
  BY <1>1 DEF FreshInv, Fresh

(* Written by another holder, the row is the same or the entity out of date. *)
LEMMA FreshAside ==
  ASSUME NEW o \in Holders, FreshInv(o),
         user'[o] = user[o] /\ pc'[o] = pc[o] /\ op'[o] = op[o],
         loaded'[o] = loaded[o] /\ outcome'[o] = outcome[o],
         base'[o] = NoRow \/ (base'[o] = base[o] /\ UNCHANGED row)
  PROVE  FreshInv(o)'
<1>1. CASE base'[o] = NoRow
  BY <1>1 DEF FreshInv, Fresh
<1>2. CASE base'[o] = base[o] /\ UNCHANGED row
  <2>1. Own(o)' = Own(o) /\ Wanted(o)' = Wanted(o)
    BY <1>2 DEF Own, Has, Wanted
  <2> QED
    BY <1>2, <2>1 DEF FreshInv, Fresh
<1> QED
  BY <1>1, <1>2

(* An entity that was just read. *)
LEMMA FreshRead ==
  ASSUME Typed, NEW h \in Holders, FreshInv(h), Read(h)
  PROVE  FreshInv(h)'
<1>1. row \in Rows /\ user \in [Holders -> Users \cup {NoUser}]
  BY DEF Typed, TypeOK
<1>2. /\ user'[h] = [has |-> [c \in Codes |-> IF c \in row.granted THEN 1 ELSE 0],
                     updated |-> row.updated]
      /\ pc'[h] = "idle" /\ outcome'[h] = "none" /\ op'[h] = NoOp /\ UNCHANGED row
  BY DEF Read, Typed, TypeOK
<1>3. user'[h] \in Users
  BY <1>1, <1>2, BoundsAssumption DEF Users, Rows
<1>4. Own(h)' = row.granted
  BY <1>1, <1>2 DEF Own, Has, Rows
<1>5. user'[h].updated = row.updated /\ user'[h] # NoUser
  BY <1>2, <1>3, NullsAssumption
<1> QED
  BY <1>2, <1>4, <1>5 DEF FreshInv, NoOp

(* A call that begins, and what it takes out of the entity. *)
LEMMA FreshCalled ==
  ASSUME Typed, NEW h \in Holders, FreshInv(h), NEW c \in Codes,
         \/ CallByDefinition(h, "add", c) \/ CallByDefinition(h, "remove", c)
         \/ AddOwn(h, c) \/ RemoveOwn(h, c)
  PROVE  FreshInv(h)'
<1>0. /\ row \in Rows /\ user \in [Holders -> Users \cup {NoUser}]
      /\ pc \in [Holders -> {"idle", "find", "load", "write"}]
      /\ outcome \in [Holders -> {"none", "ok", "QueryFailed"}]
  BY DEF Typed, TypeOK
<1>1. ASSUME NEW kind, NEW last, Called(h, kind, c, last)
      PROVE  /\ op'[h] = [kind |-> kind, code |-> c, last |-> last]
             /\ base'[h] # NoRow => Fresh(h) /\ base'[h] = row
             /\ pc[h] = "idle" /\ user[h] # NoUser
  BY <1>1 DEF Called, Typed, TypeOK
<1>2. ASSUME NEW kind \in {"add", "remove"}, CallByDefinition(h, kind, c) PROVE FreshInv(h)'
  <2>0. /\ op'[h] = [kind |-> kind, code |-> c, last |-> FALSE]
        /\ base'[h] # NoRow => Fresh(h) /\ base'[h] = row
        /\ pc[h] = "idle" /\ user[h] # NoUser
    BY <1>1, <1>2 DEF CallByDefinition
  <2>1. /\ pc'[h] = "find" /\ outcome'[h] = "none" /\ UNCHANGED <<row, user>>
        /\ ~op'[h].last
    BY <1>0, <1>2, <2>0 DEF CallByDefinition, Goto
  <2>2. Own(h)' = Own(h)
    BY <2>1 DEF Own, Has
  <2> QED
    BY <2>0, <2>1, <2>2 DEF FreshInv, Fresh
<1>3. CASE AddOwn(h, c)
  <2>0. /\ op'[h] = [kind |-> "add", code |-> c, last |-> FALSE]
        /\ base'[h] # NoRow => Fresh(h) /\ base'[h] = row
        /\ pc[h] = "idle" /\ user[h] # NoUser
    BY <1>1, <1>3 DEF AddOwn
  <2>1. /\ pc'[h] = "idle" /\ outcome'[h] = "ok" /\ UNCHANGED <<row, user>>
        /\ op'[h].kind = "add" /\ op'[h].code = c /\ ~op'[h].last /\ Has(h, c)
    BY <1>0, <1>3, <2>0 DEF AddOwn, Tell, Goto
  <2>2. Own(h)' = Own(h) /\ c \in Own(h)
    BY <2>1 DEF Own, Has
  <2>3. base'[h] # NoRow =>
          /\ Fresh(h) /\ base'[h] = row /\ user[h] # NoUser
          /\ Wanted(h)' = row.granted \cup {c}
    BY <2>0, <2>1 DEF Wanted
  <2>4. base'[h] # NoRow => row = [base'[h] EXCEPT !.granted = Wanted(h)']
    <3>1. base'[h] # NoRow => Wanted(h)' = row.granted
      BY <2>0, <2>2, <2>3 DEF FreshInv
    <3> QED
      BY <1>0, <2>0, <3>1 DEF Rows
  <2> QED
    BY <2>0, <2>1, <2>2, <2>3, <2>4 DEF FreshInv, Fresh
<1>4. CASE RemoveOwn(h, c)
  <2>0. /\ op'[h] = [kind |-> "remove", code |-> c, last |-> user[h].has[c] = 1]
        /\ base'[h] # NoRow => Fresh(h) /\ base'[h] = row
        /\ pc[h] = "idle" /\ user[h] # NoUser
    BY <1>1, <1>4 DEF RemoveOwn
  <2>1. /\ pc'[h] = "load" /\ outcome'[h] = "none" /\ UNCHANGED row
        /\ op'[h].kind = "remove" /\ op'[h].code = c /\ op'[h].last = (user[h].has[c] = 1)
        /\ Has(h, c)
    BY <1>0, <1>4, <2>0 DEF RemoveOwn, Goto
  <2>2. /\ user'[h] \in Users /\ user'[h].updated = user[h].updated
        /\ \A d \in Codes : user'[h].has[d] = IF d = c THEN user[h].has[d] - 1 ELSE user[h].has[d]
    BY <1>4, <2>0, <2>1, SplicedUser DEF RemoveOwn
  <2>3. Own(h)' = IF user[h].has[c] = 1 THEN Own(h) \ {c} ELSE Own(h)
    <3>1. user[h] \in Users
      BY <1>0, <2>0
    <3>2. \A d \in Codes : user[h].has[d] \in Nat
      BY <3>1, BoundsAssumption DEF Users
    <3> QED
      BY <2>1, <2>2, <3>2 DEF Own, Has
  <2>4. base'[h] # NoRow => Wanted(h)' = Own(h)'
    <3>1. CASE op'[h].last
      BY <2>0, <2>1, <2>3, <3>1 DEF Wanted, FreshInv
    <3>2. CASE ~op'[h].last
      BY <2>0, <2>1, <2>3, <3>2 DEF Wanted, FreshInv
    <3> QED
      BY <3>1, <3>2
  <2>5. user'[h] # NoUser
    BY <2>2, NullsAssumption
  <2> QED
    BY <2>0, <2>1, <2>2, <2>4, <2>5 DEF FreshInv, Fresh
<1> QED
  BY <1>2, <1>3, <1>4

(* A look-up puts one object in, or leaves everything as it was. *)
LEMMA FreshFound ==
  ASSUME Typed, NEW h \in Holders, FreshInv(h),
         FoundToAdd(h) \/ FoundToRemove(h) \/ FindFails(h)
  PROVE  FreshInv(h)'
<1>0. /\ row \in Rows /\ user \in [Holders -> Users \cup {NoUser}]
      /\ pc \in [Holders -> {"idle", "find", "load", "write"}]
      /\ outcome \in [Holders -> {"none", "ok", "QueryFailed"}]
      /\ Counted(h)
  BY DEF Typed, TypeOK
<1>1. CASE FoundToAdd(h)
  <2>1. /\ pc[h] = "find" /\ pc'[h] = "load" /\ op[h].kind = "add"
        /\ UNCHANGED <<row, op, outcome, base>>
        /\ user[h] # NoUser /\ op[h].code \in Codes /\ outcome[h] = "none"
    BY <1>0, <1>1 DEF FoundToAdd, Goto, Counted, FreshInv
  <2>2. user[h] \in Users /\ \A c \in Codes : user[h].has[c] \in Nat
    BY <1>0, <2>1, BoundsAssumption DEF Users
  <2>3. user[h].has[op[h].code] <= MaxCalls
    BY <1>0, <2>1, <2>2, BoundsAssumption DEF Counted, Typed, TypeOK
  <2>4. /\ user'[h] \in Users /\ user'[h].updated = user[h].updated
        /\ \A c \in Codes : user'[h].has[c] = IF c = op[h].code THEN user[h].has[c] + 1 ELSE user[h].has[c]
    BY <1>1, <2>1, <2>3, PushedUser DEF FoundToAdd
  <2>5. Own(h)' = Own(h) \cup {op[h].code}
    BY <2>1, <2>2, <2>4 DEF Own, Has
  <2>6. ~op[h].last /\ ~op'[h].last
    BY <2>1 DEF FreshInv
  <2>7. ASSUME Fresh(h)' PROVE /\ Fresh(h) /\ Own(h) = row.granted /\ base[h] = row
                               /\ user[h].updated = row.updated
    BY <2>1, <2>7 DEF Fresh, FreshInv
  <2>8. ASSUME Fresh(h)' PROVE Own(h)' = Wanted(h)'
    <3>1. Wanted(h)' = base[h].granted \cup {op[h].code}
      BY <2>1, <2>6 DEF Wanted
    <3> QED
      BY <2>5, <2>7, <2>8, <3>1
  <2>9. ASSUME Fresh(h)', op[h].code \notin row.granted PROVE user'[h].has[op[h].code] = 1
    BY <2>1, <2>2, <2>4, <2>7, <2>9 DEF Own, Has
  <2> QED
    BY <2>1, <2>4, <2>6, <2>7, <2>8, <2>9, NullsAssumption DEF FreshInv
<1>2. CASE FoundToRemove(h)
  <2>1. /\ pc[h] = "find" /\ pc'[h] = "idle" /\ op[h].kind = "remove" /\ outcome'[h] = "ok"
        /\ UNCHANGED <<row, user, op, base>>
    BY <1>0, <1>2 DEF FoundToRemove, Tell, Goto
  <2>2. Own(h)' = Own(h) /\ ~op'[h].last
    BY <2>1 DEF Own, Has, FreshInv
  <2>3. ASSUME Fresh(h)'
        PROVE  /\ Fresh(h) /\ base'[h] = row /\ Wanted(h)' = row.granted
               /\ row = [base[h] EXCEPT !.granted = row.granted]
    BY <1>0, <2>1, <2>2, <2>3 DEF Fresh, FreshInv, Wanted, Rows
  <2> QED
    BY <2>1, <2>2, <2>3 DEF FreshInv, Fresh
<1>3. CASE FindFails(h)
  <2>1. /\ pc[h] = "find" /\ pc'[h] = "idle" /\ outcome'[h] = "QueryFailed"
        /\ UNCHANGED <<row, user, op, base>>
    BY <1>0, <1>3 DEF FindFails, Tell, Goto
  <2>2. Own(h)' = Own(h)
    BY <2>1 DEF Own, Has
  <2> QED
    BY <2>1, <2>2 DEF FreshInv, Fresh
<1> QED
  BY <1>1, <1>2, <1>3

(* A save of an entity that is up to date finds the row as its caller did,   *)
(* meets no clash, and writes what was wanted.                               *)
LEMMA FreshSaved ==
  ASSUME Typed, NEW h \in Holders, FreshInv(h),
         SaveLoads(h) \/ SaveWrites(h) \/ SaveClashes(h) \/ SaveFails(h) \/ AnswerLost(h)
  PROVE  FreshInv(h)'
<1>0. /\ row \in Rows /\ user \in [Holders -> Users \cup {NoUser}]
      /\ pc \in [Holders -> {"idle", "find", "load", "write"}]
      /\ outcome \in [Holders -> {"none", "ok", "QueryFailed"}]
      /\ loaded \in [Holders -> Rows \cup {NoRow}]
      /\ base \in [Holders -> Rows \cup {NoRow}]
  BY DEF Typed, TypeOK
<1>1. CASE SaveLoads(h)
  <2>1. /\ pc[h] = "load" /\ pc'[h] = "write" /\ loaded'[h] = row
        /\ UNCHANGED <<row, user, op, outcome, base>>
    BY <1>0, <1>1 DEF SaveLoads, Goto
  <2>2. Own(h)' = Own(h) /\ Wanted(h)' = Wanted(h)
    BY <2>1 DEF Own, Has, Wanted
  <2> QED
    BY <2>1, <2>2 DEF FreshInv, Fresh
<1>2. CASE SaveClashes(h) \/ SaveFails(h)
  <2>1. /\ base'[h] = NoRow /\ pc'[h] = "idle" /\ pc[h] # "find" /\ UNCHANGED op
    BY <1>0, <1>2 DEF SaveClashes, SaveFails, Unlike, Tell, Goto
  <2> QED
    BY <2>1 DEF FreshInv, Fresh
<1>3. CASE SaveWrites(h) \/ AnswerLost(h)
  <2>1. /\ pc[h] = "write" /\ pc'[h] = "idle" /\ outcome'[h] \in {"ok", "QueryFailed"}
        /\ row' = Saved(h) /\ UNCHANGED <<user, op>> /\ base'[h] = base[h]
    BY <1>0, <1>3 DEF SaveWrites, AnswerLost, Written, Tell, Goto
  <2>2. Own(h)' = Own(h) /\ Wanted(h)' = Wanted(h)
    BY <2>1 DEF Own, Has, Wanted
  <2>3. ASSUME Fresh(h)
        PROVE  /\ user[h] # NoUser /\ user[h].updated = row.updated
               /\ loaded[h] = row /\ base[h] = row /\ Own(h) = Wanted(h)
               /\ row' = [base[h] EXCEPT !.granted = Own(h)]
    <3>1. /\ user[h] # NoUser /\ user[h].updated = row.updated
          /\ loaded[h] = row /\ base[h] = row /\ Own(h) = Wanted(h)
      BY <2>1, <2>3 DEF FreshInv
    <3>2. row'.granted = Own(h) /\ row'.updated = row.updated
      BY <2>1, <3>1, SavedIsOwn
    <3>3. row' \in Rows
      BY <2>1, SavedRow
    <3> QED
      BY <1>0, <3>1, <3>2, <3>3 DEF Rows
  <2>4. ASSUME Fresh(h)
        PROVE  user[h].updated = row'.updated /\ Own(h) = row'.granted
    BY <1>0, <2>3, <2>4 DEF Rows
  <2> QED
    BY <2>1, <2>2, <2>3, <2>4 DEF FreshInv, Fresh
<1> QED
  BY <1>1, <1>2, <1>3

LEMMA FreshNext ==
  ASSUME Typed, [Next]_vars, NEW o \in Holders, FreshInv(o)
  PROVE  FreshInv(o)'
<1>1. CASE UNCHANGED vars
  BY <1>1, FreshAside DEF vars, hvars
<1>2. ASSUME NEW a \in Asks, AskCalled(a) \/ AskAnswered(a) \/ AskFails(a) PROVE FreshInv(o)'
  BY <1>2, FreshAside DEF AskCalled, AskAnswered, AskFails, Answer, hvars
<1>3. ASSUME NEW column \in Columns, Update(column) PROVE FreshInv(o)'
  BY <1>3, FreshAside DEF Update, hvars
<1>4. ASSUME NEW h \in Holders, o # h,
             \/ Read(h) \/ HolderStep(h)
             \/ \E c \in Codes : \/ CallByDefinition(h, "add", c) \/ CallByDefinition(h, "remove", c)
                                 \/ AddOwn(h, c) \/ RemoveOwn(h, c)
      PROVE  FreshInv(o)'
  BY <1>4, OthersStay, FreshAside
<1>5. CASE HolderStep(o)
  BY <1>5, FreshFound, FreshSaved DEF HolderStep
<1> QED
  BY <1>1, <1>2, <1>3, <1>4, <1>5, FreshRead, FreshCalled DEF Next

LEMMA FreshAlways == Spec => [](Typed /\ \A h \in Holders : FreshInv(h))
<1>1. Typed /\ (\A h \in Holders : FreshInv(h)) /\ [Next]_vars => (\A h \in Holders : FreshInv(h))'
  BY FreshNext
<1> QED
  BY <1>1, FreshInit, TypedAlways, PTL DEF Spec

-----------------------------------------------------------------------------
(* A call on an entity nobody wrote since it was read changes the grant it   *)
(* is about and nothing else: an added code is there, and one whose last     *)
(* object was removed is gone (auth_roles.service.ts:75-80, 100-104).        *)
THEOREM FreshCallsConfined == Spec => []FreshCallsAreConfined
<1>1. ASSUME Typed, NEW h \in Holders, FreshInv(h), outcome[h] = "ok", Fresh(h)
      PROVE  /\ row.updated = base[h].updated
             /\ op[h].kind = "add" => row.granted = base[h].granted \cup {op[h].code}
             /\ op[h].kind = "remove" =>
                  row.granted \in {base[h].granted, base[h].granted \ {op[h].code}}
             /\ op[h].last => op[h].code \notin row.granted
  <2>1. row = [base[h] EXCEPT !.granted = Wanted(h)] /\ (op[h].last => op[h].kind = "remove")
    BY <1>1 DEF FreshInv
  <2>2. base[h] \in Rows
    BY <1>1 DEF Typed, TypeOK, Fresh
  <2>3. row.granted = Wanted(h) /\ row.updated = base[h].updated
    BY <2>1, <2>2 DEF Rows
  <2> QED
    BY <2>1, <2>3 DEF Wanted
<1>2. Typed /\ (\A h \in Holders : FreshInv(h)) => FreshCallsAreConfined
  BY <1>1 DEF FreshCallsAreConfined
<1> QED
  BY <1>2, FreshAlways, PTL

(* How a save ends: with what the entity has, or with the row as it was. *)
LEMMA SaveEnds ==
  ASSUME Typed, [Next]_vars, NEW h \in Holders, FreshInv(h), Fresh(h),
         pc[h] = "write", pc'[h] = "idle"
  PROVE  \/ UNCHANGED row
         \/ row'.granted = Wanted(h) /\ row'.updated = row.updated
<1>0. pc \in [Holders -> {"idle", "find", "load", "write"}]
  BY DEF Typed, TypeOK
<1>1. CASE UNCHANGED hvars
  BY <1>1 DEF hvars
<1>2. ASSUME NEW o \in Holders, o # h,
             \/ Read(o) \/ HolderStep(o)
             \/ \E c \in Codes : \/ CallByDefinition(o, "add", c) \/ CallByDefinition(o, "remove", c)
                                 \/ AddOwn(o, c) \/ RemoveOwn(o, c)
      PROVE  FALSE
  BY <1>2, OthersStay
<1>3. CASE SaveWrites(h) \/ AnswerLost(h)
  <2>1. /\ loaded[h] = row /\ user[h] # NoUser /\ user[h].updated = row.updated
        /\ Own(h) = Wanted(h)
    BY DEF FreshInv
  <2>2. row' = Saved(h)
    BY <1>3 DEF SaveWrites, AnswerLost
  <2> QED
    BY <2>1, <2>2, SavedIsOwn
<1>4. CASE HolderStep(h)
  BY <1>0, <1>3, <1>4 DEF HolderStep, FoundToAdd, FoundToRemove, FindFails, SaveLoads,
                          SaveClashes, SaveFails
<1>5. ASSUME NEW c, NEW kind, NEW last, Called(h, kind, c, last) PROVE FALSE
  BY <1>5 DEF Called
<1>6. ASSUME NEW c, \/ CallByDefinition(h, "add", c) \/ CallByDefinition(h, "remove", c)
                    \/ AddOwn(h, c) \/ RemoveOwn(h, c)
      PROVE  FALSE
  BY <1>5, <1>6 DEF CallByDefinition, AddOwn, RemoveOwn
<1>7. CASE Read(h)
  BY <1>7 DEF Read
<1> QED
  BY <1>1, <1>2, <1>4, <1>6, <1>7, HoldersStay DEF Next

(* A grant goes without being removed, and a flag is undone, only by the     *)
(* save of an entity that was out of date (users.service.ts:45-48).          *)
THEOREM FreshSavesRevertNothing == Spec => OnlyStaleSavesRevert
<1> DEFINE Reverts(h) ==
      pc[h] = "write" /\ pc'[h] = "idle" /\ Fresh(h) =>
        /\ row.granted \ row'.granted \subseteq
             IF op[h].kind = "remove" THEN {op[h].code} ELSE {}
        /\ row.updated \subseteq row'.updated
<1>1. ASSUME Typed, NEW h \in Holders, FreshInv(h), [Next]_vars PROVE Reverts(h)
  <2> SUFFICES ASSUME pc[h] = "write", pc'[h] = "idle", Fresh(h)
               PROVE  /\ row.granted \ row'.granted \subseteq
                           IF op[h].kind = "remove" THEN {op[h].code} ELSE {}
                      /\ row.updated \subseteq row'.updated
    OBVIOUS
  <2>1. CASE UNCHANGED row
    BY <2>1
  <2>2. CASE row'.granted = Wanted(h) /\ row'.updated = row.updated
    <3>1. base[h] = row /\ (op[h].last => op[h].kind = "remove")
      BY <1>1 DEF FreshInv
    <3>2. CASE op[h].kind = "remove"
      <4>1. row.granted \ Wanted(h) \subseteq {op[h].code}
        BY <3>1, <3>2 DEF Wanted
      <4> QED
        BY <2>2, <3>2, <4>1
    <3>3. CASE op[h].kind # "remove"
      <4>1. row.granted \subseteq Wanted(h)
        BY <3>1, <3>3 DEF Wanted
      <4> QED
        BY <2>2, <3>3, <4>1
    <3> QED
      BY <3>2, <3>3
  <2> QED
    BY <1>1, <2>1, <2>2, SaveEnds
<1>2. Typed /\ (\A h \in Holders : FreshInv(h)) /\ [Next]_vars => [\A h \in Holders : Reverts(h)]_vars
  BY <1>1
<1> QED
  BY <1>2, FreshAlways, PTL DEF Spec, OnlyStaleSavesRevert

(* The primary key refuses no call on an entity that is up to date           *)
(* (auth_permissions.service.ts:78-83).                                      *)
THEOREM FreshSavesDoNotClash == Spec => FreshSavesSucceed
<1> DEFINE Succeeds(h) ==
      outcome[h] = "none" /\ outcome'[h] = "QueryFailed" /\ Fresh(h) => faults' > faults
<1>1. ASSUME Typed, NEW h \in Holders, FreshInv(h), Fresh(h), pc[h] = "write" PROVE ~Clashes(h)
  <2>1. /\ Missing(h) = Own(h) \ row.granted /\ Own(h) = Wanted(h) /\ base[h] = row
        /\ op[h].kind = "add" /\ op[h].code \notin row.granted => user[h].has[op[h].code] = 1
        /\ op[h].last => op[h].kind = "remove"
    BY <1>1 DEF FreshInv, Missing, Own
  <2>2. \A c \in Missing(h) : c \notin row.granted /\ user[h].has[c] = 1
    BY <2>1 DEF Wanted
  <2> QED
    BY <2>2 DEF Clashes
<1>2. ASSUME Typed, [Next]_vars, NEW h \in Holders, FreshInv(h) PROVE Succeeds(h)
  <2> SUFFICES ASSUME outcome[h] = "none", outcome'[h] = "QueryFailed", Fresh(h)
               PROVE  faults' > faults
    OBVIOUS
  <2>0. faults \in Nat /\ outcome \in [Holders -> {"none", "ok", "QueryFailed"}]
    <3>1. faults \in 0..MaxFaults /\ outcome \in [Holders -> {"none", "ok", "QueryFailed"}]
      BY <1>2 DEF Typed, TypeOK
    <3> QED
      BY <3>1, BoundsAssumption
  <2>1. CASE UNCHANGED hvars
    BY <2>1 DEF hvars
  <2>2. CASE FindFails(h) \/ SaveFails(h) \/ AnswerLost(h)
    BY <2>0, <2>2 DEF FindFails, SaveFails, AnswerLost, Fault
  <2>3. CASE SaveClashes(h)
    BY <1>1, <1>2, <2>3 DEF SaveClashes
  <2>4. CASE HolderStep(h)
    BY <2>0, <2>2, <2>3, <2>4 DEF HolderStep, FoundToAdd, FoundToRemove, SaveLoads, SaveWrites, Tell
  <2>5. ASSUME NEW o \in Holders, o # h,
               \/ Read(o) \/ HolderStep(o)
               \/ \E c \in Codes : \/ CallByDefinition(o, "add", c) \/ CallByDefinition(o, "remove", c)
                                   \/ AddOwn(o, c) \/ RemoveOwn(o, c)
        PROVE  FALSE
    <3>1. outcome'[h] = outcome[h]
      BY <1>2, <2>5, OthersStay
    <3> QED
      BY <3>1
  <2>6. ASSUME NEW c, \/ CallByDefinition(h, "add", c) \/ CallByDefinition(h, "remove", c)
                      \/ AddOwn(h, c) \/ RemoveOwn(h, c)
        PROVE  FALSE
    BY <2>0, <2>6 DEF CallByDefinition, AddOwn, RemoveOwn, Tell
  <2>7. CASE Read(h)
    BY <2>0, <2>7 DEF Read
  <2> QED
    BY <1>2, <2>1, <2>4, <2>5, <2>6, <2>7, HoldersStay DEF Next
<1>3. Typed /\ (\A h \in Holders : FreshInv(h)) /\ [Next]_vars => [\A h \in Holders : Succeeds(h)]_vars
  BY <1>2
<1> QED
  BY <1>3, FreshAlways, PTL DEF Spec, FreshSavesSucceed

-----------------------------------------------------------------------------
(* The answer a question would get now is among those that were true since  *)
(* it was asked.                                                             *)
Witnessed(a) ==
  asked[a] # NoCode /\ answer[a] = "none" => Truth(asked[a], row) \in seen[a]

LEMMA WitnessedInit == Init => \A a \in Asks : Witnessed(a)
  BY DEF Init, Witnessed

(* A write adds the new truth to what is seen; nothing else moves it. *)
LEMMA WitnessedNext ==
  ASSUME Typed, [Next]_vars, NEW a \in Asks, Witnessed(a)
  PROVE  Witnessed(a)'
<1>0. /\ asked \in [Asks -> Permissions \cup {NoCode}]
      /\ answer \in [Asks -> {"none", "yes", "no", "QueryFailed"}]
      /\ seen \in [Asks -> SUBSET {"yes", "no"}]
  BY DEF Typed, TypeOK
<1>1. CASE asked'[a] = asked[a] /\ answer'[a] = answer[a] /\ seen'[a] = seen[a]
           /\ row'.granted = row.granted
  BY <1>1 DEF Witnessed, Truth
<1>2. ASSUME NEW h \in Holders, Written(h), UNCHANGED <<asked, answer>> PROVE Witnessed(a)'
  BY <1>0, <1>2 DEF Written, Witnessed
<1>3. ASSUME NEW h \in Holders, Read(h) \/ HolderStep(h) PROVE Witnessed(a)'
  BY <1>1, <1>2, <1>3 DEF HolderStep, Read, FoundToAdd, FoundToRemove, FindFails, SaveLoads,
                          SaveWrites, SaveClashes, SaveFails, AnswerLost, avars
<1>4. ASSUME NEW h \in Holders, NEW c \in Codes,
             \/ CallByDefinition(h, "add", c) \/ CallByDefinition(h, "remove", c)
             \/ AddOwn(h, c) \/ RemoveOwn(h, c)
      PROVE  Witnessed(a)'
  BY <1>1, <1>4 DEF CallByDefinition, AddOwn, RemoveOwn, avars
<1>5. ASSUME NEW b \in Asks, AskCalled(b) PROVE Witnessed(a)'
  <2>1. PICK p \in Permissions : /\ asked' = [asked EXCEPT ![b] = p]
                                 /\ seen' = [seen EXCEPT ![b] = {Truth(p, row)}]
    BY <1>5 DEF AskCalled
  <2>2. UNCHANGED row /\ UNCHANGED answer
    BY <1>5 DEF AskCalled
  <2>3. CASE b = a
    <3>1. asked'[a] = p /\ seen'[a] = {Truth(p, row)} /\ row' = row
      BY <1>0, <2>1, <2>2, <2>3
    <3> QED
      BY <3>1 DEF Witnessed
  <2>4. CASE b # a
    BY <1>0, <1>1, <2>1, <2>2, <2>4
  <2> QED
    BY <2>3, <2>4
<1>6. ASSUME NEW b \in Asks, AskAnswered(b) \/ AskFails(b) PROVE Witnessed(a)'
  <2>1. /\ UNCHANGED <<row, asked>>
        /\ seen' = [seen EXCEPT ![b] = {}]
        /\ \E what \in {"yes", "no", "QueryFailed"} : answer' = [answer EXCEPT ![b] = what]
    BY <1>6 DEF AskAnswered, AskFails, Answer
  <2>2. CASE b = a
    BY <1>0, <2>1, <2>2 DEF Witnessed
  <2>3. CASE b # a
    BY <1>0, <1>1, <2>1, <2>3
  <2> QED
    BY <2>2, <2>3
<1>7. ASSUME NEW column \in Columns, Update(column) PROVE Witnessed(a)'
  <2>1. row'.granted = row.granted /\ UNCHANGED avars
    BY <1>7 DEF Update, Typed, TypeOK, Rows
  <2> QED
    BY <1>1, <2>1 DEF avars
<1>8. CASE UNCHANGED vars
  BY <1>1, <1>8 DEF vars, avars
<1> QED
  BY <1>3, <1>4, <1>5, <1>6, <1>7, <1>8 DEF Next

(* isAuthorized says what was true at some moment while it ran, whoever     *)
(* saved the user meanwhile (users.service.ts:58-67).                        *)
THEOREM AnswersWereTrue == Spec => AuthorizedWhileAsked
<1> DEFINE WasTrue(a) ==
      answer[a] = "none" /\ answer'[a] \in {"yes", "no"} => answer'[a] \in seen[a]
<1>1. ASSUME Typed, [Next]_vars, NEW a \in Asks, Witnessed(a) PROVE WasTrue(a)
  <2>0. answer \in [Asks -> {"none", "yes", "no", "QueryFailed"}]
    BY <1>1 DEF Typed, TypeOK
  <2>1. CASE answer'[a] = answer[a]
    BY <2>1
  <2>2. ASSUME NEW b \in Asks, AskAnswered(b) PROVE WasTrue(a)
    <3>1. asked[b] # NoCode /\ answer[b] = "none"
          /\ answer' = [answer EXCEPT ![b] = IF asked[b] \in row.granted THEN "yes" ELSE "no"]
      BY <2>2 DEF AskAnswered, Answer
    <3>2. CASE b # a
      BY <2>0, <2>1, <3>1, <3>2
    <3>3. CASE b = a
      <4>1. answer'[a] = Truth(asked[a], row) /\ Truth(asked[a], row) \in seen[a]
        BY <1>1, <2>0, <3>1, <3>3 DEF Witnessed, Truth
      <4> QED
        BY <4>1
    <3> QED
      BY <3>2, <3>3
  <2>3. ASSUME NEW b \in Asks, AskFails(b) PROVE WasTrue(a)
    BY <2>0, <2>3 DEF AskFails, Answer
  <2>4. ASSUME NEW b \in Asks, AskCalled(b) PROVE WasTrue(a)
    BY <2>1, <2>4 DEF AskCalled
  <2>5. ASSUME NEW h \in Holders, \/ Read(h) \/ HolderStep(h)
               \/ \E c \in Codes : \/ CallByDefinition(h, "add", c) \/ CallByDefinition(h, "remove", c)
                                   \/ AddOwn(h, c) \/ RemoveOwn(h, c)
        PROVE  answer'[a] = answer[a]
    BY <2>5 DEF HolderStep, Read, FoundToAdd, FoundToRemove, FindFails, SaveLoads,
                SaveWrites, SaveClashes, SaveFails, AnswerLost, CallByDefinition, AddOwn,
                RemoveOwn, avars
  <2>6. ASSUME NEW column \in Columns, Update(column) PROVE answer'[a] = answer[a]
    BY <2>6 DEF Update, avars
  <2>7. CASE UNCHANGED vars
    BY <2>1, <2>7 DEF vars, avars
  <2> HIDE DEF WasTrue
  <2>8. answer'[a] = answer[a] => WasTrue(a)
    BY <2>1
  <2> QED
    BY <1>1, <2>2, <2>3, <2>4, <2>5, <2>6, <2>7, <2>8 DEF Next
<1>2. Typed /\ (\A a \in Asks : Witnessed(a)) /\ [Next]_vars => (\A a \in Asks : Witnessed(a))'
  BY WitnessedNext
<1>3. Typed /\ (\A a \in Asks : Witnessed(a)) /\ [Next]_vars => [\A a \in Asks : WasTrue(a)]_vars
  BY <1>1
<1> QED
  BY <1>2, <1>3, WitnessedInit, TypedAlways, PTL DEF Spec, AuthorizedWhileAsked
=============================================================================
