------------------------------ MODULE Seeding ------------------------------
(***************************************************************************)
(* The tables of roles and permissions, and who writes them: onModuleInit  *)
(* of every instance of the server as it starts (auth.module.ts), loadRoles *)
(* and loadPermissions, and the services' create and update.  The two      *)
(* tables are alike and their codes differ, so they are one set of rows.   *)
(* Every await is a step boundary; an insert and its commit are one step,  *)
(* since a rival that has to wait for it fails or goes on as it ends.      *)
(***************************************************************************)
EXTENDS Naturals

CONSTANTS Instances,  \* processes over one database: servers, or scripts
          Editors,    \* callers of create() and update()
          Roles, Permissions,  \* the codes of AuthRoles and AuthPermissions
          Spellings, Upper,    \* codes as editors write them, toUpperCase()
          NoCode, MaxFaults

Codes == Roles \cup Permissions

ASSUME ActorsAssumption == Instances \cap Editors = {}
ASSUME CodesAssumption  == Roles \cap Permissions = {}
ASSUME SpellingsAssumption ==
  /\ Codes \subseteq Spellings /\ NoCode \notin Spellings
  /\ Upper \in [Spellings -> Spellings]
  /\ \A s \in Spellings : Upper[Upper[s]] = Upper[s]
  /\ \A c \in Codes : Upper[c] = c
ASSUME BoundsAssumption == MaxFaults \in Nat

VARIABLES rows,    \* of both tables: code, who inserted it, who last described it
          boot,    \* where each instance stands
          task,    \* the async function that each process runs for a code
          pc,      \* where each editor stands
          entity,  \* the code of the entity it has in hand
          outcome, \* what its last call was told
          hurt,    \* the instances whose start met a fault, for the properties
          faults

evars == <<pc, entity, outcome>>
vars  == <<rows, boot, task, evars, hurt, faults>>

TypeOK ==
  /\ rows \subseteq [code : Spellings, by : Instances \cup Editors, text : Editors \cup {"none"}]
  /\ boot \in [Instances -> {"down", "script", "roles", "permissions", "serving", "failed"}]
  /\ task \in [Instances -> [Codes -> {"none", "find", "insert", "done", "failed"}]]
  /\ pc \in [Editors -> {"idle", "find", "insert", "update", "reread"}]
  /\ entity \in [Editors -> Spellings \cup {NoCode}]
  /\ outcome \in [Editors -> {"none", "ok", "AlreadyExists", "QueryFailed"}]
  /\ hurt \subseteq Instances
  /\ faults \in 0..MaxFaults

NoTasks == [c \in Codes |-> "none"]

Init ==
  /\ rows = {}
  /\ boot = [i \in Instances |-> "down"]
  /\ task = [i \in Instances |-> NoTasks]
  /\ pc = [e \in Editors |-> "idle"]
  /\ entity = [e \in Editors |-> NoCode]
  /\ outcome = [e \in Editors |-> "none"]
  /\ hurt = {} /\ faults = 0

Fault == faults < MaxFaults /\ faults' = faults + 1

There(code) == \E r \in rows : r.code = code

Row(code, who, text) == [code |-> code, by |-> who, text |-> text]

Insert(code, who, text) == ~There(code) /\ rows' = rows \cup {Row(code, who, text)}

-----------------------------------------------------------------------------
(* What is run for one code: look it up, insert it if it is not there. *)

Running(w, code, step) == task[w][code] = step

Becomes(w, code, step) == task' = [task EXCEPT ![w][code] = step]

(* Mistake: the row is saved whether it was found or not, over what is there. *)
TaskFinds_Overwrites(w, code) ==
  /\ Running(w, code, "find")
  /\ IF There(code)
     THEN /\ rows' = {r \in rows : r.code # code} \cup {Row(code, w, "none")}
          /\ Becomes(w, code, "done")
     ELSE Becomes(w, code, "insert") /\ UNCHANGED rows
  /\ UNCHANGED <<boot, evars, hurt, faults>>

(* Mistake: if (r) for if (!r). *)
TaskFinds_Reversed(w, code) ==
  /\ Running(w, code, "find")
  /\ Becomes(w, code, IF There(code) THEN "insert" ELSE "done")
  /\ UNCHANGED <<rows, boot, evars, hurt, faults>>

(* Mistake: the look-up asks for another column, and finds nothing. *)
TaskFinds_Misses(w, code) ==
  /\ Running(w, code, "find")
  /\ Becomes(w, code, "insert")
  /\ UNCHANGED <<rows, boot, evars, hurt, faults>>

TaskFinds(w, code) ==
  /\ Running(w, code, "find")
  /\ Becomes(w, code, IF There(code) THEN "done" ELSE "insert")
  /\ UNCHANGED <<rows, boot, evars, hurt, faults>>

TaskInserts(w, code) ==
  /\ Running(w, code, "insert")
  /\ Insert(code, w, "none")
  /\ Becomes(w, code, "done")
  /\ UNCHANGED <<boot, evars, hurt, faults>>

(* The unique index refuses the row: the function rejects. *)
TaskViolates(w, code) ==
  /\ Running(w, code, "insert") /\ There(code)
  /\ Becomes(w, code, "failed")
  /\ UNCHANGED <<rows, boot, evars, hurt, faults>>

(* A query fails, or only the answer of an insert that took effect is lost. *)
TaskFails(w, code) ==
  /\ \/ Running(w, code, "find") /\ UNCHANGED rows
     \/ Running(w, code, "insert") /\ (UNCHANGED rows \/ Insert(code, w, "none"))
  /\ Fault
  /\ Becomes(w, code, "failed")
  /\ hurt' = hurt \cup {w}
  /\ UNCHANGED <<boot, evars>>

-----------------------------------------------------------------------------
(* onModuleInit: all roles, then all permissions, then the server listens. *)

Begin(w, codes) == task' = [task EXCEPT ![w] = [c \in Codes |-> IF c \in codes THEN "find" ELSE @[c]]]

Goto(i, stage) == boot' = [boot EXCEPT ![i] = stage]

Start(i) ==
  /\ boot[i] = "down" /\ Goto(i, "roles")
  /\ Begin(i, Roles)
  /\ hurt' = hurt \ {i}
  /\ UNCHANGED <<rows, evars, faults>>

AllDone(i, codes) == \A c \in codes : task[i][c] = "done"

SomeFailed(i) == \E c \in Codes : task[i][c] = "failed"

RolesLoaded(i) ==
  /\ boot[i] = "roles" /\ AllDone(i, Roles) /\ Goto(i, "permissions")
  /\ Begin(i, Permissions)
  /\ UNCHANGED <<rows, evars, hurt, faults>>

(* Mistake: forEach instead of Promise.all: nobody waits for the functions. *)
PermissionsLoaded_NotAwaited(i) ==
  /\ boot[i] = "permissions" /\ Goto(i, "serving")
  /\ UNCHANGED <<rows, task, evars, hurt, faults>>

PermissionsLoaded(i) ==
  /\ boot[i] = "permissions" /\ AllDone(i, Permissions) /\ Goto(i, "serving")
  /\ task' = [task EXCEPT ![i] = NoTasks]
  /\ UNCHANGED <<rows, evars, hurt, faults>>

(* Promise.all rejects with the first of them, and so does bootstrap(): the *)
(* process stays and does not listen, while its other functions go on.      *)
BootFails(i) ==
  /\ boot[i] \in {"roles", "permissions"} /\ SomeFailed(i) /\ Goto(i, "failed")
  /\ UNCHANGED <<rows, task, evars, hurt, faults>>

Dies(i) ==
  /\ Goto(i, "down")
  /\ task' = [task EXCEPT ![i] = NoTasks]
  /\ UNCHANGED <<rows, evars, hurt>>

(* Somebody notices that it does not listen, and stops it. *)
Stop(i) == boot[i] = "failed" /\ Dies(i) /\ UNCHANGED faults

(* A script is done, and closes its connection or the process, whatever it  *)
(* began: nobody can tell it what is pending.                               *)
Exit(i) == boot[i] = "script" /\ Dies(i) /\ UNCHANGED faults

Crash(i) == boot[i] \notin {"down", "failed"} /\ Fault /\ Dies(i)

-----------------------------------------------------------------------------
(* loadRoles() and loadPermissions(), called in a script that makes the      *)
(* services without starting the application, as the tests do; a server of    *)
(* src/ never calls them.  The functions are started with forEach, and the    *)
(* caller goes on at once.  Two calls of one loader at a time are two scripts'. *)

Script(i) ==
  /\ boot[i] = "down" /\ Goto(i, "script")
  /\ UNCHANGED <<rows, task, evars, hurt, faults>>

Load(i, codes) ==
  /\ boot[i] = "script"
  /\ \A c \in codes : task[i][c] \notin {"find", "insert"}
  /\ Begin(i, codes)
  /\ UNCHANGED <<rows, boot, evars, hurt, faults>>

-----------------------------------------------------------------------------
(* create() and update() of an entity. *)

Tell(e, what) == /\ pc' = [pc EXCEPT ![e] = "idle"]
                 /\ outcome' = [outcome EXCEPT ![e] = what]

(* An editor makes one entity, of any code, and may try again with it. *)
EditorCalls(e) ==
  /\ pc[e] = "idle"
  /\ \E s \in Spellings : /\ s = entity[e] \/ entity[e] = NoCode
                          /\ entity' = [entity EXCEPT ![e] = s]
  /\ \E step \in {"find", "update"} : pc' = [pc EXCEPT ![e] = step]
  /\ outcome' = [outcome EXCEPT ![e] = "none"]
  /\ UNCHANGED <<rows, boot, task, hurt, faults>>

CreateFinds(e) ==
  /\ pc[e] = "find"
  /\ IF There(entity[e])
     THEN Tell(e, "AlreadyExists")
     ELSE pc' = [pc EXCEPT ![e] = "insert"] /\ UNCHANGED outcome
  /\ UNCHANGED <<rows, boot, task, entity, hurt, faults>>

(* Mistake: without the hook the code is stored as it was written. *)
SetCode_Missing(e) == UNCHANGED entity

(* Mistake: the hook does not return the code to the entity. *)
SetCode_Drops(e) == entity' = [entity EXCEPT ![e] = NoCode]

(* The hook BeforeInsert changes the entity itself. *)
SetCode(e) == entity' = [entity EXCEPT ![e] = Upper[@]]

(* Mistake: save() is not awaited, so its refusal is not seen. *)
CreateInserts_NotAwaited(e) ==
  /\ pc[e] = "insert" /\ SetCode(e)
  /\ UNCHANGED rows \/ Insert(entity'[e], e, e)
  /\ Tell(e, "ok")
  /\ UNCHANGED <<boot, task, hurt, faults>>

CreateInserts(e) ==
  /\ pc[e] = "insert" /\ SetCode(e)
  /\ Insert(entity'[e], e, e)
  /\ Tell(e, "ok")
  /\ UNCHANGED <<boot, task, hurt, faults>>

(* The look-up was made with the code as written, or before a rival's row. *)
CreateViolates(e) ==
  /\ pc[e] = "insert" /\ SetCode(e) /\ There(entity'[e])
  /\ Tell(e, "QueryFailed")
  /\ UNCHANGED <<rows, boot, task, hurt, faults>>

UpdateExecutes(e) ==
  /\ pc[e] = "update"
  /\ rows' = {IF r.code = entity[e] THEN [r EXCEPT !.text = e] ELSE r : r \in rows}
  /\ pc' = [pc EXCEPT ![e] = "reread"]
  /\ UNCHANGED <<boot, task, entity, outcome, hurt, faults>>

(* findOne(authRole.code) takes the code for an id, which is a number:      *)
(* PostgreSQL refuses the query, whatever the update did.                   *)
UpdateRereads(e) ==
  /\ pc[e] = "reread" /\ Tell(e, "QueryFailed")
  /\ UNCHANGED <<rows, boot, task, entity, hurt, faults>>

EditorFails(e) ==
  /\ \/ pc[e] \in {"find", "update"} /\ UNCHANGED <<rows, entity>>
     \/ pc[e] = "insert" /\ SetCode(e) /\ (UNCHANGED rows \/ Insert(entity'[e], e, e))
  /\ Fault /\ Tell(e, "QueryFailed")
  /\ UNCHANGED <<boot, task, hurt>>

-----------------------------------------------------------------------------
TaskStep(w, code) == TaskFinds(w, code) \/ TaskInserts(w, code) \/ TaskViolates(w, code)

BootStep(i) == RolesLoaded(i) \/ PermissionsLoaded(i) \/ BootFails(i)

EditorStep(e) == \/ CreateFinds(e) \/ CreateInserts(e) \/ CreateViolates(e)
                 \/ UpdateExecutes(e) \/ UpdateRereads(e)

Next ==
  \/ \E w \in Instances, code \in Codes : TaskStep(w, code) \/ TaskFails(w, code)
  \/ \E i \in Instances : Start(i) \/ BootStep(i) \/ Stop(i) \/ Crash(i)
                            \/ Script(i) \/ Load(i, Roles) \/ Load(i, Permissions) \/ Exit(i)
  \/ \E e \in Editors : EditorCalls(e) \/ EditorStep(e) \/ EditorFails(e)

SafeSpec == Init /\ [][Next]_vars

(* Every await of a function that was started ends, and an instance goes on *)
(* when its functions have ended.  Nobody has to start, stop or call.       *)
Fairness ==
  /\ \A w \in Instances, code \in Codes : WF_vars(TaskStep(w, code))
  /\ \A i \in Instances : WF_vars(BootStep(i))

Spec == SafeSpec /\ Fairness

-----------------------------------------------------------------------------
(* Properties. *)

(* No two rows name one role or permission, in any spelling, although two    *)
(* instances, a loader and an editor may all find it missing at once         *)
(* (auth.module.ts:61-68, AuthRole.entity.ts:17-27).                         *)
EachCodeOnce == \A r, s \in rows : Upper[r.code] = Upper[s.code] => r = s

(* An instance that takes requests has every role and permission that its    *)
(* services look up by code, whoever inserted them and however often it or   *)
(* others failed before (auth.module.ts:58-85).                              *)
ServingIsSeeded == \A i \in Instances : boot[i] = "serving" => \A c \in Codes : There(c)

(* A start that met no fault fails only where a rival was quicker: then the  *)
(* row it wanted is there, and by another hand (auth.module.ts:66-68).       *)
FailedBootHasRival ==
  \A i \in Instances : boot[i] = "failed" /\ i \notin hurt =>
    \E r \in rows : r.by # i /\ r.code \in Codes /\ task[i][r.code] = "failed"

(* create() tells the truth: the row is its own when it says so, and there   *)
(* when it says "already exists" (auth_roles.service.ts:30-39).              *)
CreateIsHonest ==
  \A e \in Editors :
    /\ outcome[e] = "ok" => \E r \in rows : r.code = entity[e] /\ r.by = e
    /\ outcome[e] = "AlreadyExists" => There(entity[e])

(* A start never changes what it finds: a row stays, with what an update     *)
(* wrote into it, through every restart (auth.module.ts:61-68).              *)
RowsStay ==
  [][\A r \in rows : \/ r \in rows'
                     \/ \E e \in Editors : [r EXCEPT !.text = e] \in rows' /\ pc[e] = "update"]_vars

Complete == \A c \in Codes : There(c)

(* Whatever went wrong before, a start over complete tables ends with the    *)
(* server listening, unless a fault hits that very start                     *)
(* (auth.module.ts:55-87).                                                   *)
RestartServes ==
  \A i \in Instances :
    boot[i] = "roles" /\ Complete /\ (\A c \in Roles : task[i][c] = "find")
      ~> boot[i] \in {"serving", "down"} \/ i \in hurt

(* loadRoles() and loadPermissions() are not waited for, yet what a script    *)
(* that called both began ends with every code in its table, by them or by a  *)
(* rival, unless there is a fault or the script ends first                    *)
(* (auth_roles.service.ts:124-136).                                           *)
LoadedInTheEnd ==
  \A i \in Instances :
    boot[i] = "script" /\ (\A c \in Codes : task[i][c] # "none")
      ~> Complete \/ faults > 0 \/ boot[i] = "down"
=============================================================================
