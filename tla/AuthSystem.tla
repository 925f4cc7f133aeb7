----------------------------- MODULE AuthSystem -----------------------------
(***************************************************************************)
(* Servers that start over one database (Seeding) and open accounts as     *)
(* soon as they listen.  Registration shows that opening an account is one *)
(* step whatever its transactions do, given the codes that were seeded;    *)
(* here that step takes the codes the start has really left in the tables. *)
(***************************************************************************)
EXTENDS Seeding

CONSTANTS SignUps, Forms, NoForm,
          SignupGrants,  \* the codes register() looks up for a new account
          NoHost

ASSUME SignupGrantsAssumption == SignupGrants \subseteq Codes
ASSUME NoHostAssumption       == NoHost \notin Instances /\ NoForm \notin Forms

VARIABLES claim, accounts, reply,  \* AtomicSignup's
          host,  \* the instance that serves each call
          found  \* the codes that were there when it was made

svars   == <<claim, accounts, reply, host, found>>
allvars == <<vars, svars>>

Whole == INSTANCE AtomicSignup WITH
  Calls <- SignUps, Unsure <- {}, Grants <- [c \in SignUps |-> SignupGrants]

SystemTypeOK ==
  /\ TypeOK
  /\ claim \in [SignUps -> Forms \cup {NoForm}]
  /\ reply \in [SignUps -> {"none", "opened", "refused"}]
  /\ host \in [SignUps -> Instances \cup {NoHost}]
  /\ found \in [SignUps -> SUBSET Codes]

SystemInit ==
  /\ Init /\ Whole!Init
  /\ host = [c \in SignUps |-> NoHost]
  /\ found = [c \in SignUps |-> {}]

Present == {code \in Codes : There(code)}

(* Mistake: the server listens before onModuleInit has ended. *)
SignUp_BeforeListening(c, i) ==
  /\ boot[i] \in {"permissions", "serving"}
  /\ Whole!Ask(c)
  /\ host' = [host EXCEPT ![c] = i]
  /\ found' = [found EXCEPT ![c] = Present]
  /\ UNCHANGED vars

(* Only an instance that listens takes requests. *)
SignUp(c, i) ==
  /\ boot[i] = "serving"
  /\ Whole!Ask(c)
  /\ host' = [host EXCEPT ![c] = i]
  /\ found' = [found EXCEPT ![c] = Present]
  /\ UNCHANGED vars

SignUpRefused(c, i) ==
  /\ boot[i] = "serving"
  /\ Whole!Turn(c)
  /\ UNCHANGED <<vars, host, found>>

(* The role and the permissions are looked up one after another between the *)
(* call and this commit; what is not there is not granted.                  *)
OpenAccount(c) ==
  /\ host[c] # NoHost /\ reply[c] = "none" /\ ~Whole!Opened(c)
  /\ \A a \in accounts : a.username # claim[c].username /\ a.email # claim[c].email
  /\ \E codes \in SUBSET Present :
       /\ found[c] \subseteq codes
       /\ accounts' = accounts \cup
            {[owner |-> c, username |-> claim[c].username, email |-> claim[c].email,
              grants |-> SignupGrants \cap codes]}
  /\ UNCHANGED <<vars, claim, reply, host, found>>

Reply(c) == host[c] # NoHost /\ Whole!Answer(c) /\ UNCHANGED <<vars, host, found>>

(* A call whose server is gone is not answered. *)
ServersStep ==
  /\ Next
  /\ host' = [c \in SignUps |-> IF host[c] # NoHost /\ boot'[host[c]] # "serving"
                                THEN NoHost ELSE host[c]]
  /\ UNCHANGED <<claim, accounts, reply, found>>

SystemNext ==
  \/ ServersStep
  \/ \E c \in SignUps : \/ OpenAccount(c) \/ Reply(c)
                        \/ \E i \in Instances : SignUp(c, i) \/ SignUpRefused(c, i)

SystemSpec == SystemInit /\ [][SystemNext]_allvars /\ Fairness

-----------------------------------------------------------------------------
(* Properties. *)

(* However many servers start at once, fail, crash and start again while     *)
(* others serve and editors write the same tables, every account that opens  *)
(* opens at once and has the role and both permissions, and every answer is  *)
(* true (auth.service.ts:194-211 over auth.module.ts:55-87).                 *)
OpensWholeAccounts == Whole!Spec
=============================================================================
