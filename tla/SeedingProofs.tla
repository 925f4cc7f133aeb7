--------------------------- MODULE SeedingProofs ---------------------------
(***************************************************************************)
(* Proofs about Seeding, for any number of processes, editors, codes and   *)
(* faults.  What a step may do to the rows is shown once (RowsChange); the  *)
(* invariants of the rows, the functions, the processes and the editors     *)
(* rest on that, each with a lemma of its own.                              *)
(***************************************************************************)
EXTENDS Seeding, TLAPS

(* Who is busy with an entity has one, and has been told nothing yet. *)
Busy == \A e \in Editors : pc[e] # "idle" => entity[e] \in Spellings /\ outcome[e] = "none"

LEMMA TypeInit == Init => TypeOK /\ Busy
  BY BoundsAssumption DEF Init, TypeOK, Busy, NoTasks

(* A function for one code, and a step of a process, keep the types. *)
LEMMA TaskTypes ==
  ASSUME TypeOK, NEW w \in Instances, NEW code \in Codes, TaskStep(w, code) \/ TaskFails(w, code)
  PROVE  TypeOK'
<1> USE DEF TypeOK
<1>1. code \in Spellings /\ Row(code, w, "none") \in
        [code : Spellings, by : Instances \cup Editors, text : Editors \cup {"none"}]
  BY SpellingsAssumption DEF Row
<1>2. ASSUME NEW step \in {"none", "find", "insert", "done", "failed"}, Becomes(w, code, step)
      PROVE  task' \in [Instances -> [Codes -> {"none", "find", "insert", "done", "failed"}]]
  BY <1>2 DEF Becomes
<1>3. CASE TaskFinds(w, code)
  BY <1>2, <1>3 DEF TaskFinds, evars
<1>4. CASE TaskInserts(w, code)
  BY <1>1, <1>2, <1>4 DEF TaskInserts, Insert, evars
<1>5. CASE TaskViolates(w, code)
  BY <1>2, <1>5 DEF TaskViolates, evars
<1>6. CASE TaskFails(w, code)
  BY <1>1, <1>2, <1>6, BoundsAssumption DEF TaskFails, Insert, Fault, evars
<1> QED
  BY <1>3, <1>4, <1>5, <1>6 DEF TaskStep

LEMMA BootTypes ==
  ASSUME TypeOK, NEW i \in Instances,
         \/ Start(i) \/ BootStep(i) \/ Stop(i) \/ Crash(i)
         \/ Script(i) \/ Load(i, Roles) \/ Load(i, Permissions) \/ Exit(i)
  PROVE  TypeOK'
<1> DEFINE Stages == {"down", "script", "roles", "permissions", "serving", "failed"}
<1> DEFINE Steps  == {"none", "find", "insert", "done", "failed"}
<1> USE DEF TypeOK
<1>1. ASSUME NEW stage \in Stages, Goto(i, stage) PROVE boot' \in [Instances -> Stages]
  BY <1>1 DEF Goto
<1>2. ASSUME NEW codes, Begin(i, codes) PROVE task' \in [Instances -> [Codes -> Steps]]
  BY <1>2 DEF Begin
<1>3. ASSUME Dies(i) PROVE /\ boot' \in [Instances -> Stages]
                           /\ task' \in [Instances -> [Codes -> Steps]]
                           /\ UNCHANGED <<rows, pc, entity, outcome, hurt>>
  BY <1>1, <1>3 DEF Dies, NoTasks, evars
<1>4. CASE Start(i) \/ Script(i)
  BY <1>1, <1>2, <1>4 DEF Start, Script, evars
<1>5. CASE BootStep(i)
  BY <1>1, <1>2, <1>5 DEF BootStep, RolesLoaded, PermissionsLoaded, BootFails, NoTasks, evars
<1>6. CASE Stop(i) \/ Crash(i) \/ Exit(i)
  BY <1>3, <1>6, BoundsAssumption DEF Stop, Crash, Exit, Fault
<1>7. CASE Load(i, Roles) \/ Load(i, Permissions)
  BY <1>2, <1>7 DEF Load, evars
<1> QED
  BY <1>4, <1>5, <1>6, <1>7

LEMMA EditorTypes ==
  ASSUME TypeOK, Busy, NEW e \in Editors, EditorCalls(e) \/ EditorStep(e) \/ EditorFails(e)
  PROVE  TypeOK'
<1> DEFINE Table == [code : Spellings, by : Instances \cup Editors, text : Editors \cup {"none"}]
<1> USE DEF TypeOK
<1>1. CASE EditorCalls(e)
  BY <1>1 DEF EditorCalls
<1>2. CASE CreateFinds(e) \/ UpdateRereads(e)
  BY <1>2 DEF CreateFinds, UpdateRereads, Tell
<1>3. ASSUME pc[e] = "insert", SetCode(e)
      PROVE  /\ entity' \in [Editors -> Spellings \cup {NoCode}]
             /\ Row(entity'[e], e, e) \in Table
  <2>1. entity[e] \in Spellings
    BY <1>3 DEF Busy
  <2>2. Upper[entity[e]] \in Spellings
    BY <2>1, SpellingsAssumption
  <2> QED
    BY <1>3, <2>2 DEF SetCode, Row
<1>4. CASE CreateInserts(e) \/ CreateViolates(e)
  BY <1>3, <1>4 DEF CreateInserts, CreateViolates, Insert, Tell
<1>5. CASE UpdateExecutes(e)
  <2>1. ASSUME NEW r \in rows PROVE [r EXCEPT !.text = e] \in Table
    OBVIOUS
  <2>2. rows' \subseteq Table
    BY <1>5, <2>1 DEF UpdateExecutes
  <2> QED
    BY <1>5, <2>2 DEF UpdateExecutes
<1>6. CASE EditorFails(e)
  BY <1>3, <1>6, BoundsAssumption DEF EditorFails, Insert, Tell, Fault
<1> QED
  BY <1>1, <1>2, <1>4, <1>5, <1>6 DEF EditorStep

LEMMA BusyNext == TypeOK /\ Busy /\ [Next]_vars => Busy'
<1> SUFFICES ASSUME TypeOK, Busy, [Next]_vars, NEW d \in Editors
             PROVE  pc'[d] # "idle" => entity'[d] \in Spellings /\ outcome'[d] = "none"
  BY DEF Busy
<1> USE DEF TypeOK, Busy
<1>1. CASE UNCHANGED evars
  BY <1>1 DEF evars
<1>2. ASSUME NEW e \in Editors, EditorCalls(e) \/ EditorStep(e) \/ EditorFails(e)
      PROVE  pc'[d] # "idle" => entity'[d] \in Spellings /\ outcome'[d] = "none"
  <2>1. CASE EditorCalls(e)
    BY <1>2, <2>1 DEF EditorCalls
  <2>2. CASE CreateFinds(e) \/ UpdateExecutes(e) \/ UpdateRereads(e)
    BY <1>2, <2>2 DEF CreateFinds, UpdateExecutes, UpdateRereads, Tell
  <2>3. CASE CreateInserts(e) \/ CreateViolates(e) \/ EditorFails(e)
    BY <1>2, <2>3 DEF CreateInserts, CreateViolates, EditorFails, SetCode, Tell
  <2> QED
    BY <1>2, <2>1, <2>2, <2>3 DEF EditorStep
<1>3. (\A e \in Editors : ~(EditorCalls(e) \/ EditorStep(e) \/ EditorFails(e))) => UNCHANGED evars
  BY DEF Next, vars, TaskStep, TaskFinds, TaskInserts, TaskViolates, TaskFails, Start, BootStep,
         RolesLoaded, PermissionsLoaded, BootFails, Stop, Crash, Exit, Dies, Script, Load
<1> QED
  BY <1>1, <1>2, <1>3

(* What the tables, the processes and the editors hold always has its type  *)
(* (auth.module.ts:55-87, auth_roles.service.ts:30-52, 124-136).             *)
THEOREM SeedingTypeCorrect == SafeSpec => [](TypeOK /\ Busy)
<1>1. TypeOK /\ Busy /\ [Next]_vars => TypeOK'
  <2> SUFFICES ASSUME TypeOK, Busy, [Next]_vars PROVE TypeOK'
    OBVIOUS
  <2>1. CASE UNCHANGED vars
    BY <2>1 DEF TypeOK, vars, evars
  <2> QED
    BY <2>1, TaskTypes, BootTypes, EditorTypes DEF Next
<1> QED
  BY <1>1, TypeInit, BusyNext, PTL DEF SafeSpec

-----------------------------------------------------------------------------
(* What any step may do to the tables: nothing, insert one row of a code    *)
(* that nobody has, or describe the row of an entity anew.                  *)

Inserts(who, code) == \E text \in {"none", who} : Insert(code, who, text)

Describes(e) ==
  /\ pc[e] = "update"
  /\ rows' = {IF r.code = entity[e] THEN [r EXCEPT !.text = e] ELSE r : r \in rows}

LEMMA RowsChange ==
  ASSUME TypeOK, Busy, [Next]_vars
  PROVE  \/ UNCHANGED rows
         \/ \E w \in Instances, code \in Codes :
              Running(w, code, "insert") /\ Inserts(w, code) /\ ~Running(w, code, "insert")'
         \/ \E e \in Editors : pc[e] = "insert" /\ Inserts(e, Upper[entity[e]])
         \/ \E e \in Editors : Describes(e)
<1> USE DEF Inserts
<1>1. CASE UNCHANGED vars
  BY <1>1 DEF vars
<1>2. ASSUME NEW w \in Instances, NEW code \in Codes, TaskStep(w, code) \/ TaskFails(w, code)
      PROVE  \/ UNCHANGED rows
             \/ Running(w, code, "insert") /\ Inserts(w, code) /\ ~Running(w, code, "insert")'
  BY <1>2 DEF TaskStep, TaskFinds, TaskInserts, TaskViolates, TaskFails, Running, Becomes, TypeOK
<1>3. ASSUME NEW i \in Instances,
             \/ Start(i) \/ BootStep(i) \/ Stop(i) \/ Crash(i)
             \/ Script(i) \/ Load(i, Roles) \/ Load(i, Permissions) \/ Exit(i)
      PROVE  UNCHANGED rows
  BY <1>3 DEF Start, BootStep, RolesLoaded, PermissionsLoaded, BootFails, Stop, Crash, Exit,
              Dies, Script, Load
<1>4. ASSUME NEW e \in Editors, SetCode(e) PROVE entity'[e] = Upper[entity[e]]
  BY <1>4 DEF SetCode, TypeOK
<1>5. ASSUME NEW e \in Editors, EditorCalls(e) \/ EditorStep(e) \/ EditorFails(e)
      PROVE  \/ UNCHANGED rows \/ Describes(e)
             \/ (pc[e] = "insert" /\ Inserts(e, Upper[entity[e]]))
  BY <1>4, <1>5 DEF EditorCalls, EditorStep, CreateFinds, CreateInserts, CreateViolates,
                    UpdateExecutes, UpdateRereads, EditorFails, Describes
<1> QED
  BY <1>1, <1>2, <1>3, <1>5 DEF Next

(* A row is there for good, by the same hand: only its text ever changes. *)
LEMMA RowsKept ==
  ASSUME TypeOK, Busy, [Next]_vars, NEW r \in rows
  PROVE  \/ r \in rows'
         \/ \E e \in Editors : Describes(e) /\ [r EXCEPT !.text = e] \in rows'
<1>1. ASSUME NEW e \in Editors, Describes(e) PROVE r \in rows' \/ [r EXCEPT !.text = e] \in rows'
  BY <1>1 DEF Describes
<1> QED
  BY <1>1, RowsChange DEF Inserts, Insert

LEMMA RowsEndure ==
  ASSUME TypeOK, Busy, [Next]_vars, NEW r \in rows
  PROVE  \E s \in rows' : s.code = r.code /\ s.by = r.by
<1>1. r \in [code : Spellings, by : Instances \cup Editors, text : Editors \cup {"none"}]
  BY DEF TypeOK
<1>2. ASSUME NEW e PROVE [r EXCEPT !.text = e].code = r.code /\ [r EXCEPT !.text = e].by = r.by
  BY <1>1
<1> QED
  BY <1>2, RowsKept

(* A row that is there after a step was there before, or was inserted by it. *)
LEMMA RowsAppear ==
  ASSUME TypeOK, Busy, [Next]_vars, NEW s \in rows'
  PROVE  \/ \E r \in rows : r.code = s.code /\ r.by = s.by
         \/ ~There(s.code) /\ s.by \in Instances /\ s.code \in Codes
              /\ Running(s.by, s.code, "insert") /\ ~Running(s.by, s.code, "insert")'
         \/ ~There(s.code) /\ s.by \in Editors /\ pc[s.by] = "insert"
              /\ s.code = Upper[entity[s.by]]
<1>1. ASSUME NEW who, NEW code, Inserts(who, code)
      PROVE  s \in rows \/ (~There(code) /\ s.code = code /\ s.by = who)
  BY <1>1 DEF Inserts, Insert, Row
<1>2. ASSUME NEW e \in Editors, Describes(e)
      PROVE  \E r \in rows : r.code = s.code /\ r.by = s.by
  <2>1. PICK r \in rows : s = IF r.code = entity[e] THEN [r EXCEPT !.text = e] ELSE r
    BY <1>2 DEF Describes
  <2>2. r \in [code : Spellings, by : Instances \cup Editors, text : Editors \cup {"none"}]
    BY DEF TypeOK
  <2>3. s.code = r.code /\ s.by = r.by
    BY <2>1, <2>2
  <2> QED
    BY <2>3
<1> QED
  BY <1>1, <1>2, RowsChange

-----------------------------------------------------------------------------
(* The invariant: every code is stored in capitals and once; where the      *)
(* function for a code stands says what it knows of the table; where a      *)
(* process stands says what its functions left there; and what an editor    *)
(* was told stays so.                                                        *)

RowsInv ==
  /\ \A r \in rows : Upper[r.code] = r.code
  /\ \A r, s \in rows : r.code = s.code => r = s

(* i inserts a code at most once in its life, so it fails to by a rival's row. *)
TaskInv(i, c) ==
  /\ task[i][c] = "done" => There(c)
  /\ task[i][c] = "insert" => \A r \in rows : r.code = c => r.by # i
  /\ task[i][c] = "failed" /\ i \notin hurt => \E r \in rows : r.code = c /\ r.by # i

BootInv(i) ==
  /\ boot[i] = "down" => task[i] = NoTasks
  /\ boot[i] = "permissions" => \A c \in Roles : There(c)
  /\ boot[i] = "serving" => \A c \in Codes : There(c)
  /\ boot[i] = "failed" => SomeFailed(i)

EditorInv(e) ==
  /\ outcome[e] = "ok" => \E r \in rows : r.code = entity[e] /\ r.by = e
  /\ outcome[e] = "AlreadyExists" => There(entity[e])

SeedInv ==
  /\ RowsInv
  /\ \A i \in Instances, c \in Codes : TaskInv(i, c)
  /\ \A i \in Instances : BootInv(i)
  /\ \A e \in Editors : EditorInv(e)

LEMMA SeedInit == Init => SeedInv
  BY DEF Init, SeedInv, RowsInv, TaskInv, BootInv, EditorInv, NoTasks

(* Two rows of one code would have to be inserted one after the other. *)
LEMMA RowsInvNext == TypeOK /\ Busy /\ RowsInv /\ [Next]_vars => RowsInv'
<1> SUFFICES ASSUME TypeOK, Busy, RowsInv, [Next]_vars PROVE RowsInv'
  OBVIOUS
<1>1. \A s \in rows' : Upper[s.code] = s.code
  <2> SUFFICES ASSUME NEW s \in rows' PROVE Upper[s.code] = s.code
    OBVIOUS
  <2>1. CASE \E r \in rows : r.code = s.code
    BY <2>1 DEF RowsInv
  <2>2. CASE s.code \in Codes
    BY <2>2, SpellingsAssumption
  <2>3. ASSUME NEW e \in Editors, pc[e] = "insert", s.code = Upper[entity[e]]
        PROVE  Upper[s.code] = s.code
    BY <2>3, SpellingsAssumption DEF Busy
  <2> QED
    BY <2>1, <2>2, <2>3, RowsAppear
<1>2. ASSUME NEW who, NEW code, Inserts(who, code)
      PROVE  \A r, s \in rows' : r.code = s.code => r = s
  BY <1>2 DEF Inserts, Insert, Row, There, RowsInv
<1>3. ASSUME NEW e \in Editors, Describes(e)
      PROVE  \A r, s \in rows' : r.code = s.code => r = s
  <2> SUFFICES ASSUME NEW r \in rows', NEW s \in rows', r.code = s.code PROVE r = s
    OBVIOUS
  <2> DEFINE New(q) == IF q.code = entity[e] THEN [q EXCEPT !.text = e] ELSE q
  <2>1. ASSUME NEW q \in rows PROVE New(q).code = q.code
    <3>1. q \in [code : Spellings, by : Instances \cup Editors, text : Editors \cup {"none"}]
      BY DEF TypeOK
    <3> QED
      BY <3>1
  <2>2. PICK p \in rows : r = New(p)
    BY <1>3 DEF Describes
  <2>3. PICK q \in rows : s = New(q)
    BY <1>3 DEF Describes
  <2>4. p = q
    BY <2>1, <2>2, <2>3 DEF RowsInv
  <2> QED
    BY <2>2, <2>3, <2>4
<1> QED
  BY <1>1, <1>2, <1>3, RowsChange DEF RowsInv

(* What is in a table stays there, so what was known of it stays true. *)
LEMMA ThereStays ==
  ASSUME TypeOK, Busy, [Next]_vars
  PROVE  /\ \A c : There(c) => There(c)'
         /\ \A c, w : (\E r \in rows : r.code = c /\ r.by = w)
                        => (\E r \in rows' : r.code = c /\ r.by = w)
         /\ \A c, w : (\E r \in rows : r.code = c /\ r.by # w)
                        => (\E r \in rows' : r.code = c /\ r.by # w)
  BY RowsEndure DEF There

(* Where the function for a code may go in a step, and what it leaves there. *)
LEMMA TaskMoves ==
  ASSUME TypeOK, [Next]_vars, NEW i \in Instances, NEW c \in Codes, BootInv(i)
  PROVE  \/ task'[i][c] = task[i][c] /\ (task[i][c] = "failed" /\ i \notin hurt' => i \notin hurt)
         \/ task'[i][c] \in {"none", "find"}
         \/ task'[i][c] = "insert" /\ ~There(c) /\ UNCHANGED rows
         \/ task'[i][c] = "done" /\ There(c)'
         \/ task'[i][c] = "failed" /\ i \in hurt'
         \/ task'[i][c] = "failed" /\ task[i][c] = "insert" /\ There(c) /\ UNCHANGED rows
<1> DEFINE Moves ==
         \/ task'[i][c] = task[i][c] /\ (task[i][c] = "failed" /\ i \notin hurt' => i \notin hurt)
         \/ task'[i][c] \in {"none", "find"}
         \/ task'[i][c] = "insert" /\ ~There(c) /\ UNCHANGED rows
         \/ task'[i][c] = "done" /\ There(c)'
         \/ task'[i][c] = "failed" /\ i \in hurt'
         \/ task'[i][c] = "failed" /\ task[i][c] = "insert" /\ There(c) /\ UNCHANGED rows
<1> USE DEF TypeOK
<1>1. ASSUME UNCHANGED vars PROVE Moves
  BY <1>1 DEF vars
<1>2. ASSUME NEW w \in Instances, NEW code \in Codes, TaskStep(w, code) \/ TaskFails(w, code)
      PROVE  Moves
  <2>1. \/ w = i /\ code = c
        \/ task'[i][c] = task[i][c] /\ hurt \subseteq hurt'
    BY <1>2 DEF TaskStep, TaskFinds, TaskInserts, TaskViolates, TaskFails, Becomes
  <2>2. CASE w = i /\ code = c
    <3>1. CASE TaskFinds(i, c)
      BY <3>1 DEF TaskFinds, Becomes, There
    <3>2. CASE TaskInserts(i, c)
      <4>1. task'[i][c] = "done"
        BY <3>2 DEF TaskInserts, Becomes
      <4>2. Row(c, i, "none") \in rows' /\ Row(c, i, "none").code = c
        BY <3>2 DEF TaskInserts, Insert, Row
      <4> QED
        BY <4>1, <4>2 DEF There
    <3>3. CASE TaskViolates(i, c)
      BY <3>3 DEF TaskViolates, Becomes, Running
    <3>4. CASE TaskFails(i, c)
      BY <3>4 DEF TaskFails, Becomes
    <3> QED
      BY <1>2, <2>2, <3>1, <3>2, <3>3, <3>4 DEF TaskStep
  <2> QED
    BY <2>1, <2>2
<1>3. ASSUME NEW w \in Instances, Start(w) PROVE Moves
  <2>1. CASE w = i
    BY <1>3, <2>1 DEF Start, Begin, BootInv, NoTasks
  <2>2. CASE w # i
    BY <1>3, <2>2 DEF Start, Begin
  <2> QED
    BY <2>1, <2>2
<1>4. ASSUME NEW w \in Instances, BootStep(w) \/ Script(w) \/ Load(w, Roles) \/ Load(w, Permissions)
      PROVE  Moves
  BY <1>4 DEF BootStep, RolesLoaded, PermissionsLoaded, BootFails, Script, Load, Begin, NoTasks
<1>5. ASSUME NEW w \in Instances, Stop(w) \/ Crash(w) \/ Exit(w) PROVE Moves
  BY <1>5 DEF Stop, Crash, Exit, Dies, NoTasks
<1>6. ASSUME NEW e \in Editors, EditorCalls(e) \/ EditorStep(e) \/ EditorFails(e)
      PROVE  Moves
  BY <1>6 DEF EditorCalls, EditorStep, CreateFinds, CreateInserts, CreateViolates,
              UpdateExecutes, UpdateRereads, EditorFails
<1> HIDE DEF Moves, TypeOK
<1>7. Moves
  BY <1>1, <1>2, <1>3, <1>4, <1>5, <1>6 DEF Next
<1> QED
  BY <1>7 DEF Moves

LEMMA TaskInvNext ==
  ASSUME TypeOK, Busy, [Next]_vars, NEW i \in Instances, NEW c \in Codes,
         BootInv(i), TaskInv(i, c)
  PROVE  TaskInv(i, c)'
<1>1. task'[i][c] = "done" => There(c)'
  BY TaskMoves, ThereStays DEF TaskInv
<1>2. task'[i][c] = "insert" => \A s \in rows' : s.code = c => s.by # i
  <2> SUFFICES ASSUME task'[i][c] = "insert", NEW s \in rows', s.code = c, s.by = i
               PROVE  FALSE
    OBVIOUS
  <2>1. CASE task[i][c] = "insert"
    <3>1. PICK r \in rows : r.code = c /\ r.by = i
      BY ActorsAssumption, RowsAppear DEF Running
    <3> QED
      BY <2>1, <3>1 DEF TaskInv
  <2>2. CASE ~There(c) /\ UNCHANGED rows
    BY <2>2 DEF There
  <2> QED
    BY <2>1, <2>2, TaskMoves
<1>3. ASSUME task'[i][c] = "failed", i \notin hurt'
      PROVE  \E r \in rows' : r.code = c /\ r.by # i
  <2>1. CASE task[i][c] = "failed" /\ i \notin hurt
    BY <2>1, ThereStays DEF TaskInv
  <2>2. CASE task[i][c] = "insert" /\ There(c) /\ UNCHANGED rows
    BY <2>2 DEF TaskInv, There
  <2> QED
    BY <1>3, <2>1, <2>2, TaskMoves
<1> QED
  BY <1>1, <1>2, <1>3 DEF TaskInv

LEMMA BootInvNext ==
  ASSUME TypeOK, Busy, [Next]_vars, NEW i \in Instances, BootInv(i),
         \A c \in Codes : TaskInv(i, c)
  PROVE  BootInv(i)'
<1> DEFINE Alone == boot'[i] = boot[i] /\ task'[i] = task[i]
<1> USE DEF TypeOK
<1>1. ASSUME Alone PROVE BootInv(i)'
  BY <1>1, ThereStays DEF BootInv, SomeFailed
<1>2. ASSUME NEW w \in Instances, NEW code \in Codes, TaskStep(w, code) \/ TaskFails(w, code)
      PROVE  BootInv(i)'
  <2>1. /\ UNCHANGED boot /\ task[w][code] \in {"find", "insert"}
        /\ \E step : Becomes(w, code, step)
    BY <1>2 DEF TaskStep, TaskFinds, TaskInserts, TaskViolates, TaskFails, Running
  <2>2. CASE w # i
    BY <1>1, <2>1, <2>2 DEF Becomes
  <2>3. CASE w = i
    <3>1. boot[i] # "down"
      BY <2>1, <2>3 DEF BootInv, NoTasks
    <3>2. SomeFailed(i) => SomeFailed(i)'
      BY <2>1, <2>3 DEF SomeFailed, Becomes
    <3> QED
      BY <2>1, <3>1, <3>2, ThereStays DEF BootInv
  <2> QED
    BY <2>2, <2>3
<1>3. ASSUME NEW w \in Instances, w # i,
             \/ Start(w) \/ BootStep(w) \/ Stop(w) \/ Crash(w)
             \/ Script(w) \/ Load(w, Roles) \/ Load(w, Permissions) \/ Exit(w)
      PROVE  Alone
  BY <1>3 DEF Start, BootStep, RolesLoaded, PermissionsLoaded, BootFails, Stop, Crash, Exit,
              Dies, Script, Load, Goto, Begin
<1>4. CASE Start(i) \/ Script(i) \/ Load(i, Roles) \/ Load(i, Permissions)
  <2>1. CASE Start(i) \/ Script(i)
    BY <2>1 DEF Start, Script, Goto, BootInv
  <2>2. CASE Load(i, Roles) \/ Load(i, Permissions)
    <3>1. boot'[i] = boot[i] /\ boot[i] \in {"script", "serving"}
      BY <2>2 DEF Load
    <3> QED
      BY <3>1, ThereStays DEF BootInv
  <2> QED
    BY <1>4, <2>1, <2>2
<1>5. CASE RolesLoaded(i) \/ PermissionsLoaded(i)
  <2>1. ASSUME NEW c \in Codes, task[i][c] = "done" PROVE There(c)'
    BY <2>1, ThereStays DEF TaskInv
  <2>2. CASE RolesLoaded(i)
    BY <2>1, <2>2 DEF RolesLoaded, AllDone, Goto, BootInv, Codes
  <2>3. CASE PermissionsLoaded(i)
    <3>1. \A c \in Codes : There(c)'
      BY <2>1, <2>3, ThereStays DEF PermissionsLoaded, AllDone, BootInv, Codes
    <3> QED
      BY <2>3, <3>1 DEF PermissionsLoaded, Goto, BootInv
  <2> QED
    BY <1>5, <2>2, <2>3
<1>6. CASE BootFails(i)
  BY <1>6 DEF BootFails, Goto, BootInv, SomeFailed
<1>7. CASE Stop(i) \/ Crash(i) \/ Exit(i)
  BY <1>7 DEF Stop, Crash, Exit, Dies, Goto, BootInv, NoTasks
<1>8. ASSUME NEW e \in Editors, EditorCalls(e) \/ EditorStep(e) \/ EditorFails(e)
      PROVE  Alone
  BY <1>8 DEF EditorCalls, EditorStep, CreateFinds, CreateInserts, CreateViolates,
              UpdateExecutes, UpdateRereads, EditorFails
<1>9. ASSUME UNCHANGED vars PROVE Alone
  BY <1>9 DEF vars
<1> HIDE DEF Alone, TypeOK
<1>10. ASSUME NEW w \in Instances,
              \/ Start(w) \/ BootStep(w) \/ Stop(w) \/ Crash(w)
              \/ Script(w) \/ Load(w, Roles) \/ Load(w, Permissions) \/ Exit(w)
       PROVE  BootInv(i)'
  <2>1. CASE w = i
    BY <1>4, <1>5, <1>6, <1>7, <1>10, <2>1 DEF BootStep
  <2>2. CASE w # i
    BY <1>1, <1>3, <1>10, <2>2
  <2> QED
    BY <2>1, <2>2
<1> QED
  BY <1>1, <1>2, <1>8, <1>9, <1>10 DEF Next

(* Only the editor itself moves its entity or hears an answer. *)
LEMMA EditorInvNext ==
  ASSUME TypeOK, Busy, [Next]_vars, NEW d \in Editors, EditorInv(d)
  PROVE  EditorInv(d)'
<1> DEFINE Alone == entity'[d] = entity[d] /\ outcome'[d] = outcome[d]
<1>1. ASSUME Alone PROVE EditorInv(d)'
  <2>1. (\E r \in rows : r.code = entity[d] /\ r.by = d)
          => \E r \in rows' : r.code = entity[d] /\ r.by = d
    BY ThereStays
  <2>2. There(entity[d]) => \E r \in rows' : r.code = entity[d]
    BY RowsEndure DEF There
  <2> QED
    BY <1>1, <2>1, <2>2 DEF EditorInv, There
<1> USE DEF TypeOK
<1>2. ASSUME NEW e \in Editors, EditorCalls(e) \/ EditorStep(e) \/ EditorFails(e), e # d
      PROVE  Alone
  BY <1>2 DEF EditorCalls, EditorStep, CreateFinds, CreateInserts, CreateViolates,
              UpdateExecutes, UpdateRereads, EditorFails, SetCode, Tell
<1>3. CASE EditorCalls(d) \/ UpdateExecutes(d) \/ UpdateRereads(d)
  BY <1>3 DEF EditorCalls, UpdateExecutes, UpdateRereads, Tell, EditorInv, Busy
<1>4. CASE CreateViolates(d) \/ EditorFails(d)
  BY <1>4 DEF CreateViolates, EditorFails, Tell, EditorInv
<1>5. CASE CreateFinds(d)
  BY <1>5 DEF CreateFinds, Tell, EditorInv, There, Busy
<1>6. CASE CreateInserts(d)
  <2>1. outcome'[d] = "ok"
    BY <1>6 DEF CreateInserts, Tell
  <2>2. LET r == Row(entity'[d], d, d) IN r \in rows' /\ r.code = entity'[d] /\ r.by = d
    BY <1>6 DEF CreateInserts, Insert, Row
  <2> QED
    BY <2>1, <2>2 DEF EditorInv
<1>7. ASSUME \A e \in Editors : ~(EditorCalls(e) \/ EditorStep(e) \/ EditorFails(e))
      PROVE  Alone
  BY <1>7 DEF Next, vars, evars, TaskStep, TaskFinds, TaskInserts, TaskViolates, TaskFails,
              Start, BootStep, RolesLoaded, PermissionsLoaded, BootFails, Stop, Crash, Exit,
              Dies, Script, Load
<1> HIDE DEF Alone, TypeOK
<1>8. ASSUME NEW e \in Editors, EditorCalls(e) \/ EditorStep(e) \/ EditorFails(e)
      PROVE  EditorInv(d)'
  BY <1>1, <1>2, <1>3, <1>4, <1>5, <1>6, <1>8 DEF EditorStep
<1> QED
  BY <1>1, <1>7, <1>8

LEMMA SeedInvNext == TypeOK /\ Busy /\ SeedInv /\ [Next]_vars => SeedInv'
  BY RowsInvNext, TaskInvNext, BootInvNext, EditorInvNext DEF SeedInv

LEMMA SeedingAlways == SafeSpec => [](TypeOK /\ Busy /\ SeedInv)
  BY SeedInit, SeedInvNext, SeedingTypeCorrect, PTL DEF SafeSpec

-----------------------------------------------------------------------------
(* However many processes, scripts and editors look for a code at once and   *)
(* insert it, no code is ever stored twice, in any spelling                  *)
(* (auth.module.ts:61-68, AuthRole.entity.ts:17-27).                         *)
THEOREM CodesAreUnique == SafeSpec => []EachCodeOnce
<1>1. SeedInv => EachCodeOnce
  BY DEF SeedInv, RowsInv, EachCodeOnce
<1> QED
  BY <1>1, SeedingAlways, PTL

(* A process that listens has every role and permission, however its own    *)
(* start and others went before (auth.module.ts:58-85).                      *)
THEOREM ServersAreSeeded == SafeSpec => []ServingIsSeeded
<1>1. SeedInv => ServingIsSeeded
  BY DEF SeedInv, BootInv, ServingIsSeeded
<1> QED
  BY <1>1, SeedingAlways, PTL

(* A start that met no fault fails only because of a rival's row            *)
(* (auth.module.ts:66-68).                                                   *)
THEOREM FailedStartsHaveRivals == SafeSpec => []FailedBootHasRival
<1>1. SeedInv => FailedBootHasRival
  <2> SUFFICES ASSUME SeedInv, NEW i \in Instances, boot[i] = "failed", i \notin hurt
               PROVE  \E r \in rows : r.by # i /\ r.code \in Codes /\ task[i][r.code] = "failed"
    BY DEF FailedBootHasRival
  <2>1. PICK c \in Codes : task[i][c] = "failed"
    BY DEF SeedInv, BootInv, SomeFailed
  <2>2. \E r \in rows : r.code = c /\ r.by # i
    BY <2>1 DEF SeedInv, TaskInv
  <2> QED
    BY <2>1, <2>2
<1> QED
  BY <1>1, SeedingAlways, PTL

(* create() tells the truth about the table, then and ever after            *)
(* (auth_roles.service.ts:30-39).                                            *)
THEOREM EditorsAreToldTheTruth == SafeSpec => []CreateIsHonest
<1>1. SeedInv => CreateIsHonest
  BY DEF SeedInv, EditorInv, CreateIsHonest
<1> QED
  BY <1>1, SeedingAlways, PTL

(* No start, restart or script overwrites a row or takes one away           *)
(* (auth.module.ts:61-68).                                                   *)
THEOREM StartsKeepRows == SafeSpec => RowsStay
<1>1. TypeOK /\ Busy /\ [Next]_vars =>
        [\A r \in rows : \/ r \in rows'
                         \/ \E e \in Editors : [r EXCEPT !.text = e] \in rows' /\ pc[e] = "update"]_vars
  BY RowsKept DEF Describes
<1> QED
  BY <1>1, SeedingTypeCorrect, PTL DEF SafeSpec, RowsStay
=============================================================================
