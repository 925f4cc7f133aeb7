----------------------------- MODULE UnitOfWork -----------------------------
(***************************************************************************)
(* DatabaseUnitOfWork (src/src/database/database.service.ts) over the      *)
(* connection pool it takes its query runner from.  A unit is made for one *)
(* call, started, given its work by complete(), and must end with its      *)
(* promise settled, its transaction decided and its connection back in the *)
(* pool.  The pool (node-postgres) and the server's side of a transaction  *)
(* are external: they are modelled from what start() and complete() ask of *)
(* them and from every way those awaits can end.                           *)
(***************************************************************************)
EXTENDS Naturals, FiniteSets

CONSTANTS Units,      \* the units of work, one per register() call
          Borrowers,  \* users of the pool outside any unit: repository.save
          PoolSize,   \* connections the pool may have out at once
          MaxFaults   \* bound on connection faults and process crashes

ASSUME UnitsAssumption  == Units \cap Borrowers = {}
ASSUME BoundsAssumption == PoolSize \in Nat \ {0} /\ MaxFaults \in Nat

VARIABLES phase,   \* where each unit stands in start() and complete()
          tx,      \* the server's view of its transaction
          promise, \* the promise complete() returned
          held,    \* who has a connection of the pool
          broken,  \* the units whose connection was lost under them
          faults   \* faults so far

vars == <<phase, tx, promise, held, broken, faults>>

Phases == {"new", "connecting", "beginning", "failed", "working",
           "committing", "rolling", "closed", "killed"}

Running == {"connecting", "beginning", "working", "committing", "rolling"}

TypeOK ==
  /\ phase \in [Units -> Phases]
  /\ tx \in [Units -> {"none", "open", "committed", "aborted"}]
  /\ promise \in [Units -> {"pending", "resolved", "rejected"}]
  /\ held \subseteq Units \cup Borrowers
  /\ broken \subseteq Units
  /\ faults \in 0..MaxFaults

Init ==
  /\ phase = [u \in Units |-> "new"]
  /\ tx = [u \in Units |-> "none"]
  /\ promise = [u \in Units |-> "pending"]
  /\ held = {}
  /\ broken = {}
  /\ faults = 0

Fault == faults < MaxFaults /\ faults' = faults + 1

SlotFree == Cardinality(held) < PoolSize

-----------------------------------------------------------------------------
(* start(): startTransaction() takes a connection, then opens the transaction. *)

Start(u) ==
  /\ phase[u] = "new"
  /\ phase' = [phase EXCEPT ![u] = "connecting"]
  /\ UNCHANGED <<tx, promise, held, broken, faults>>

Connect(u) ==
  /\ phase[u] = "connecting" /\ SlotFree
  /\ phase' = [phase EXCEPT ![u] = "beginning"]
  /\ held' = held \cup {u}
  /\ UNCHANGED <<tx, promise, broken, faults>>

(* The pool cannot open a connection: start() rejects, nothing was taken. *)
ConnectFails(u) ==
  /\ phase[u] = "connecting" /\ Fault
  /\ phase' = [phase EXCEPT ![u] = "failed"]
  /\ UNCHANGED <<tx, promise, held, broken>>

Begin(u) ==
  /\ phase[u] = "beginning"
  /\ phase' = [phase EXCEPT ![u] = "working"]
  /\ tx' = [tx EXCEPT ![u] = "open"]
  /\ UNCHANGED <<promise, held, broken, faults>>

(* START TRANSACTION fails after the connection was taken.  complete() was *)
(* never called, so no finally block releases it: it stays out, unless the *)
(* driver itself drops a connection that reported an error.                *)
BeginFails(u) ==
  /\ phase[u] = "beginning" /\ Fault
  /\ phase' = [phase EXCEPT ![u] = "failed"]
  /\ held' \in {held, held \ {u}}
  /\ broken' = broken \cup {u}
  /\ UNCHANGED <<tx, promise>>

(* The finally block: release(). *)
Close(u) ==
  /\ phase' = [phase EXCEPT ![u] = "closed"]
  /\ held' = held \ {u}

-----------------------------------------------------------------------------
(* Mistakes a change to complete() could make; no specification uses them. *)

(* reject() moved ahead of the rollback: the caller hears "failed" of a    *)
(* COMMIT whose fate is not known.                                         *)
CommitFails_RejectsFirst(u) ==
  /\ phase[u] = "committing" /\ u \in broken
  /\ promise' = [promise EXCEPT ![u] = "rejected"]
  /\ Close(u)
  /\ UNCHANGED <<tx, broken, faults>>

(* resolve() forgotten once commitTransaction() returned. *)
CommitReturns_NoResolve(u) ==
  /\ phase[u] = "committing" /\ u \notin broken /\ tx[u] = "committed"
  /\ Close(u)
  /\ UNCHANGED <<tx, promise, broken, faults>>

(* reject() forgotten after a rollback that worked. *)
Rollback_NoReject(u) ==
  /\ phase[u] = "rolling" /\ u \notin broken
  /\ tx' = [tx EXCEPT ![u] = "aborted"]
  /\ Close(u)
  /\ UNCHANGED <<promise, broken, faults>>

(* The error of the rollback leaves through the promise, settled by nobody. *)
RollbackFails_Throws(u) ==
  /\ phase[u] = "rolling" /\ u \in broken
  /\ promise' = [promise EXCEPT ![u] = "thrown"]
  /\ Close(u)
  /\ UNCHANGED <<tx, broken, faults>>

(* release() written after commit and after reject instead of in finally. *)
RollbackFails_NoFinally(u) ==
  /\ phase[u] = "rolling" /\ u \in broken
  /\ phase' = [phase EXCEPT ![u] = "closed"]
  /\ UNCHANGED <<tx, promise, held, broken, faults>>

-----------------------------------------------------------------------------
(* complete(): work, then commit and resolve, or roll back and reject, and *)
(* in every case release.                                                  *)

WorkReturns(u) ==
  /\ phase[u] = "working"
  /\ phase' = [phase EXCEPT ![u] = "committing"]
  /\ UNCHANGED <<tx, promise, held, broken, faults>>

WorkThrows(u) ==
  /\ phase[u] = "working"
  /\ phase' = [phase EXCEPT ![u] = "rolling"]
  /\ UNCHANGED <<tx, promise, held, broken, faults>>

(* The server executes COMMIT; the answer is still on its way. *)
CommitExecutes(u) ==
  /\ phase[u] = "committing" /\ u \notin broken /\ tx[u] = "open"
  /\ tx' = [tx EXCEPT ![u] = "committed"]
  /\ UNCHANGED <<phase, promise, held, broken, faults>>

CommitReturns(u) ==
  /\ phase[u] = "committing" /\ u \notin broken /\ tx[u] = "committed"
  /\ promise' = [promise EXCEPT ![u] = "resolved"]
  /\ Close(u)
  /\ UNCHANGED <<tx, broken, faults>>

(* commitTransaction() throws: the connection went, before or after COMMIT *)
(* took effect.                                                            *)
CommitFails(u) ==
  /\ phase[u] = "committing" /\ u \in broken
  /\ phase' = [phase EXCEPT ![u] = "rolling"]
  /\ UNCHANGED <<tx, promise, held, broken, faults>>

Rollback(u) ==
  /\ phase[u] = "rolling" /\ u \notin broken
  /\ tx' = [tx EXCEPT ![u] = "aborted"]
  /\ promise' = [promise EXCEPT ![u] = "rejected"]
  /\ Close(u)
  /\ UNCHANGED <<broken, faults>>

(* rollbackTransaction() throws inside the catch block: reject() is skipped, *)
(* only finally runs.                                                        *)
RollbackFails(u) ==
  /\ phase[u] = "rolling" /\ u \in broken
  /\ Close(u)
  /\ UNCHANGED <<tx, promise, broken, faults>>

-----------------------------------------------------------------------------
(* The pool's other users, and the environment. *)

Borrow(b) ==
  /\ b \notin held /\ SlotFree
  /\ held' = held \cup {b}
  /\ UNCHANGED <<phase, tx, promise, broken, faults>>

GiveBack(b) ==
  /\ b \in held
  /\ held' = held \ {b}
  /\ UNCHANGED <<phase, tx, promise, broken, faults>>

(* A borrower's connection is lost: its own finally hands it back. *)
BorrowerBreaks(b) ==
  /\ b \in held /\ Fault
  /\ held' = held \ {b}
  /\ UNCHANGED <<phase, tx, promise, broken>>

Lost(t) == IF t = "open" THEN "aborted" ELSE t

(* A unit's connection is lost: the server aborts what was not committed. *)
Break(u) ==
  /\ phase[u] \in {"working", "committing", "rolling"}
  /\ u \notin broken /\ Fault
  /\ broken' = broken \cup {u}
  /\ tx' = [tx EXCEPT ![u] = Lost(tx[u])]
  /\ UNCHANGED <<phase, promise, held>>

(* The process dies and is started again with an empty pool. *)
Crash ==
  /\ Fault
  /\ phase' = [u \in Units |-> IF phase[u] \in Running THEN "killed" ELSE phase[u]]
  /\ tx' = [u \in Units |-> Lost(tx[u])]
  /\ held' = {}
  /\ UNCHANGED <<promise, broken>>

-----------------------------------------------------------------------------
Progress(u) ==
  \/ Begin(u) \/ WorkReturns(u) \/ WorkThrows(u)
  \/ CommitExecutes(u) \/ CommitReturns(u) \/ CommitFails(u)
  \/ Rollback(u) \/ RollbackFails(u)

Next ==
  \/ \E u \in Units : \/ Start(u) \/ Connect(u) \/ ConnectFails(u)
                      \/ BeginFails(u) \/ Progress(u) \/ Break(u)
  \/ \E b \in Borrowers : Borrow(b) \/ GiveBack(b) \/ BorrowerBreaks(b)
  \/ Crash

SafeSpec == Init /\ [][Next]_vars

(* Every await ends, and the pool's FIFO queue serves every waiter as long  *)
(* as slots keep coming back, whoever else is asking: hence SF for Connect. *)
Fairness ==
  /\ \A u \in Units : SF_vars(Connect(u)) /\ WF_vars(Progress(u))
  /\ \A b \in Borrowers : WF_vars(GiveBack(b))

Spec == SafeSpec /\ Fairness

-----------------------------------------------------------------------------
(* Properties. *)

(* What complete() tells its caller is what the server decided, even when   *)
(* the connection is lost around COMMIT: a resolved promise is a committed  *)
(* transaction, a rejected one is an aborted one (database.service.ts:49-55). *)
HonestPromise ==
  \A u \in Units : /\ promise[u] = "resolved" => tx[u] = "committed"
                   /\ promise[u] = "rejected" => tx[u] = "aborted"

(* The connections lost to the pool for good. *)
Leaked == {u \in held \cap Units : phase[u] = "failed"}

(* A connection out of the pool belongs to a unit still between connect and *)
(* release, or to a start() that failed; the pool is never overdrawn, and a  *)
(* connection lost for good costs a fault (database.service.ts:56-58).       *)
PoolAccounted ==
  /\ Cardinality(held) <= PoolSize
  /\ \A u \in held \cap Units : phase[u] \in (Running \ {"connecting"}) \cup {"failed"}
  /\ Cardinality(Leaked) <= faults

(* complete() leaves its caller waiting for ever only when the connection  *)
(* was lost (database.service.ts:52-58).                                   *)
OnlyBrokenUnitsHang ==
  \A u \in Units : phase[u] = "closed" /\ promise[u] = "pending" => u \in broken

(* The connection of every unit that began comes back, whatever is lost on *)
(* the way (the finally of database.service.ts:56-59).                     *)
ConnectionReturns == \A u \in Units : phase[u] = "working" ~> u \notin held

(* Every started unit gets a connection and an answer, unless there is a      *)
(* fault: faults alone keep a caller waiting (database.service.ts:28-61).    *)
EveryUnitSettles ==
  \A u \in Units : phase[u] = "connecting" ~> promise[u] # "pending" \/ faults > 0
=============================================================================
