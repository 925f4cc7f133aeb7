-------------------------- MODULE UnitOfWorkProofs --------------------------
(***************************************************************************)
(* What complete() guarantees for any number of units, borrowers,          *)
(* connections and faults.                                                 *)
(***************************************************************************)
EXTENDS UnitOfWork, FiniteSetTheorems, TLAPS

(* The state of the system always has its type (database.service.ts:14-62). *)
THEOREM TypeCorrect == SafeSpec => []TypeOK
<1>1. Init => TypeOK
  BY BoundsAssumption DEF Init, TypeOK, Phases
<1>2. TypeOK /\ [Next]_vars => TypeOK'
  <2> SUFFICES ASSUME TypeOK, [Next]_vars PROVE TypeOK'
    OBVIOUS
  <2> USE BoundsAssumption DEF TypeOK, Phases
  <2>1. ASSUME NEW u \in Units, Start(u) \/ Connect(u) \/ ConnectFails(u) \/ BeginFails(u)
        PROVE  TypeOK'
    BY <2>1 DEF Start, Connect, ConnectFails, BeginFails, Fault
  <2>2. ASSUME NEW u \in Units, Progress(u) PROVE TypeOK'
    BY <2>2 DEF Progress, Begin, WorkReturns, WorkThrows, CommitExecutes,
                CommitReturns, CommitFails, Rollback, RollbackFails, Close
  <2>3. ASSUME NEW u \in Units, Break(u) PROVE TypeOK'
    BY <2>3 DEF Break, Fault, Lost
  <2>4. ASSUME NEW b \in Borrowers, Borrow(b) \/ GiveBack(b) \/ BorrowerBreaks(b)
        PROVE  TypeOK'
    BY <2>4 DEF Borrow, GiveBack, BorrowerBreaks, Fault
  <2>5. CASE Crash
    BY <2>5 DEF Crash, Fault, Lost, Running
  <2>6. CASE UNCHANGED vars
    BY <2>6 DEF vars
  <2> QED
    BY <2>1, <2>2, <2>3, <2>4, <2>5, <2>6 DEF Next
<1> QED
  BY <1>1, <1>2, PTL DEF SafeSpec

-----------------------------------------------------------------------------
(* The stages of a unit: what its phase says of the transaction on the     *)
(* server, of the promise and of its connection.  This is what makes        *)
(* HonestPromise inductive: complete() settles its promise only where the   *)
(* phase says which way the server decided.                                 *)
Stage(u) ==
  /\ phase[u] \in {"new", "connecting", "beginning", "failed"} => tx[u] = "none"
  /\ phase[u] \in {"new", "connecting", "beginning"} => u \notin broken
  /\ phase[u] \in {"working", "rolling"} /\ u \notin broken => tx[u] = "open"
  /\ tx[u] = "open" => phase[u] \in {"working", "committing", "rolling"} /\ u \notin broken
  /\ promise[u] # "pending" => phase[u] = "closed"
  /\ promise[u] = "resolved" => tx[u] = "committed"
  /\ promise[u] = "rejected" => tx[u] = "aborted"
  /\ phase[u] = "closed" /\ promise[u] = "pending" => u \in broken
  /\ phase[u] \in {"beginning", "working", "committing", "rolling"} => u \in held

Staged == \A u \in Units : Stage(u)

(* Units start new, with nothing decided. *)
LEMMA StagedInit == Init => Staged
  BY DEF Init, Staged, Stage

(* The phases change together with what Stage says of them. *)
LEMMA StagedNext == TypeOK /\ Staged /\ [Next]_vars => Staged'
<1> SUFFICES ASSUME TypeOK, Staged, [Next]_vars, NEW v \in Units PROVE Stage(v)'
  BY DEF Staged
<1>0. Stage(v)
  BY DEF Staged
<1> USE <1>0 DEF TypeOK, Stage
<1>1. ASSUME NEW u \in Units, Start(u) \/ Connect(u) \/ ConnectFails(u) \/ BeginFails(u)
      PROVE  Stage(v)'
  BY <1>1 DEF Start, Connect, ConnectFails, BeginFails, Fault
<1>2. ASSUME NEW u \in Units, Begin(u) \/ WorkReturns(u) \/ WorkThrows(u)
      PROVE  Stage(v)'
  BY <1>2 DEF Begin, WorkReturns, WorkThrows
<1>3. ASSUME NEW u \in Units, CommitExecutes(u) \/ CommitReturns(u) \/ CommitFails(u)
      PROVE  Stage(v)'
  BY <1>3 DEF CommitExecutes, CommitReturns, CommitFails, Close
<1>4. ASSUME NEW u \in Units, Rollback(u) \/ RollbackFails(u)
      PROVE  Stage(v)'
  BY <1>4 DEF Rollback, RollbackFails, Close
<1>5. ASSUME NEW u \in Units, Break(u) PROVE Stage(v)'
  BY <1>5 DEF Break, Fault, Lost
<1>6. ASSUME NEW b \in Borrowers, Borrow(b) \/ GiveBack(b) \/ BorrowerBreaks(b)
      PROVE  Stage(v)'
  BY <1>6, UnitsAssumption DEF Borrow, GiveBack, BorrowerBreaks, Fault
<1>7. CASE Crash
  BY <1>7 DEF Crash, Fault, Lost, Running
<1>8. CASE UNCHANGED vars
  BY <1>8 DEF vars
<1> QED
  BY <1>1, <1>2, <1>3, <1>4, <1>5, <1>6, <1>7, <1>8 DEF Next, Progress

(* The stages hold in every state. *)
THEOREM StagedAlways == SafeSpec => [](TypeOK /\ Staged)
  BY TypeCorrect, StagedInit, StagedNext, PTL DEF SafeSpec

(* complete() tells its caller what the server decided, wherever around    *)
(* COMMIT or ROLLBACK the connection is lost (database.service.ts:49-55).   *)
THEOREM PromisesAreHonest == SafeSpec => []HonestPromise
<1>1. Staged => HonestPromise
  BY DEF Staged, Stage, HonestPromise
<1> QED
  BY <1>1, StagedAlways, PTL

(* Only a unit whose connection was lost can leave its caller waiting      *)
(* (database.service.ts:52-58).                                            *)
THEOREM OnlyBrokenHang == SafeSpec => []OnlyBrokenUnitsHang
<1>1. Staged => OnlyBrokenUnitsHang
  BY DEF Staged, Stage, OnlyBrokenUnitsHang
<1> QED
  BY <1>1, StagedAlways, PTL
-----------------------------------------------------------------------------
(* PoolAccounted is inductive once the sets it counts are known finite. *)
PoolInv == IsFiniteSet(held) /\ PoolAccounted

(* What changes nothing but leaves fewer connections out keeps PoolInv. *)
LEMMA FewerOut ==
  ASSUME TypeOK, PoolInv, TypeOK',
         held' \subseteq held, faults <= faults',
         Leaked' \subseteq Leaked,
         \A u \in held' \cap Units : phase'[u] \in (Running \ {"connecting"}) \cup {"failed"}
  PROVE  PoolInv'
<1>1. IsFiniteSet(held') /\ Cardinality(held') <= Cardinality(held)
  BY FS_Subset DEF PoolInv
<1>2. IsFiniteSet(Leaked)
  BY FS_Subset, Leaked \subseteq held DEF PoolInv, Leaked
<1>3. IsFiniteSet(Leaked') /\ Cardinality(Leaked') <= Cardinality(Leaked)
  BY <1>2, FS_Subset
<1>4. /\ Cardinality(held) \in Nat /\ Cardinality(held') \in Nat
      /\ Cardinality(Leaked) \in Nat /\ Cardinality(Leaked') \in Nat
  BY <1>1, <1>2, <1>3, FS_CardinalityType DEF PoolInv
<1>5. faults \in Nat /\ faults' \in Nat
  BY BoundsAssumption DEF TypeOK
<1>6. Cardinality(held') <= PoolSize
  BY <1>1, <1>4, BoundsAssumption DEF PoolInv, PoolAccounted
<1>7. Cardinality(Leaked') <= faults'
  BY <1>3, <1>4, <1>5 DEF PoolInv, PoolAccounted
<1> QED
  BY <1>1, <1>6, <1>7 DEF PoolInv, PoolAccounted

(* A connection is only taken where a slot is free. *)
LEMMA OneMoreOut ==
  ASSUME TypeOK, PoolInv, SlotFree, NEW x, held' = held \cup {x}, faults' = faults,
         Leaked' = Leaked,
         \A u \in held' \cap Units : phase'[u] \in (Running \ {"connecting"}) \cup {"failed"}
  PROVE  PoolInv'
<1>1. IsFiniteSet(held') /\ Cardinality(held') <= Cardinality(held) + 1
  BY FS_AddElement, FS_CardinalityType DEF PoolInv
<1>2. Cardinality(held) \in Nat /\ Cardinality(held') \in Nat
  BY <1>1, FS_CardinalityType DEF PoolInv
<1>3. Cardinality(held') <= PoolSize
  BY <1>1, <1>2, BoundsAssumption DEF SlotFree
<1> QED
  BY <1>1, <1>3 DEF PoolInv, PoolAccounted

(* A start() that fails after it connected loses one connection, and is one fault. *)
LEMMA OneMoreLeaked ==
  ASSUME TypeOK, PoolInv, NEW u \in Units, BeginFails(u)
  PROVE  PoolInv'
<1> DEFINE More == Leaked \cup {u}
<1>1. IsFiniteSet(held') /\ Cardinality(held') <= Cardinality(held)
  BY FS_Subset DEF PoolInv, BeginFails
<1>2. IsFiniteSet(Leaked) /\ Cardinality(Leaked) \in Nat
  BY FS_Subset, FS_CardinalityType, Leaked \subseteq held DEF PoolInv, Leaked
<1>3. Leaked' \subseteq More
  BY DEF BeginFails, TypeOK, Leaked
<1>4. IsFiniteSet(More) /\ Cardinality(More) \in Nat
  BY <1>2, FS_AddElement, FS_CardinalityType
<1>5. Cardinality(More) <= Cardinality(Leaked) + 1
  BY <1>2, FS_AddElement
<1> HIDE DEF More
<1>6. IsFiniteSet(Leaked') /\ Cardinality(Leaked') <= Cardinality(More)
  BY <1>3, <1>4, FS_Subset
<1>7. /\ Cardinality(held) \in Nat /\ Cardinality(held') \in Nat
      /\ Cardinality(Leaked') \in Nat
  BY <1>1, <1>6, FS_CardinalityType DEF PoolInv
<1>8. faults \in Nat /\ faults' = faults + 1
  BY BoundsAssumption DEF TypeOK, BeginFails, Fault
<1>9. Cardinality(held') <= PoolSize /\ Cardinality(Leaked') <= faults'
  BY <1>1, <1>2, <1>4, <1>5, <1>6, <1>7, <1>8, BoundsAssumption DEF PoolInv, PoolAccounted
<1>10. \A v \in held' \cap Units : phase'[v] \in (Running \ {"connecting"}) \cup {"failed"}
  BY DEF PoolInv, PoolAccounted, BeginFails, TypeOK, Phases
<1> QED
  BY <1>1, <1>9, <1>10 DEF PoolInv, PoolAccounted

(* Every step takes at most one connection, into a free slot, or loses one to a fault. *)
LEMMA PoolInvNext == TypeOK /\ PoolInv /\ [Next]_vars /\ TypeOK' => PoolInv'
<1> SUFFICES ASSUME TypeOK, PoolInv, [Next]_vars, TypeOK' PROVE PoolInv'
  OBVIOUS
<1>a. faults \in Nat /\ faults' \in Nat
  BY BoundsAssumption DEF TypeOK
<1>b. \A u \in held \cap Units : phase[u] \in (Running \ {"connecting"}) \cup {"failed"}
  BY DEF PoolInv, PoolAccounted
<1> USE DEF TypeOK, Phases, Running
<1>1. ASSUME NEW u \in Units, Start(u) \/ ConnectFails(u) PROVE PoolInv'
  <2>1. u \notin held
    BY <1>1, <1>b DEF Start, ConnectFails
  <2>2. held' = held /\ faults <= faults' /\ Leaked' \subseteq Leaked
    BY <1>1, <1>a, <2>1 DEF Start, ConnectFails, Fault, Leaked
  <2>3. \A v \in held' \cap Units : phase'[v] = phase[v]
    BY <1>1, <2>1 DEF Start, ConnectFails
  <2> QED
    BY <1>b, <2>2, <2>3, FewerOut
<1>2. ASSUME NEW u \in Units, Connect(u) PROVE PoolInv'
  <2>1. u \notin held
    BY <1>2, <1>b DEF Connect
  <2>2. Leaked' = Leaked
    BY <1>2, <2>1 DEF Connect, Leaked
  <2>3. \A v \in held' \cap Units : phase'[v] \in (Running \ {"connecting"}) \cup {"failed"}
    BY <1>2, <1>b DEF Connect
  <2> QED
    BY <1>2, <2>2, <2>3, OneMoreOut DEF Connect
<1>3. ASSUME NEW u \in Units, BeginFails(u) PROVE PoolInv'
  BY <1>3, OneMoreLeaked
<1>4. ASSUME NEW u \in Units, Progress(u) PROVE PoolInv'
  <2> USE DEF Progress, Begin, WorkReturns, WorkThrows, CommitExecutes, CommitReturns,
              CommitFails, Rollback, RollbackFails, Close
  <2>1. held' \subseteq held /\ faults <= faults'
    BY <1>4, <1>a
  <2>2. Leaked' \subseteq Leaked
    BY <1>4 DEF Leaked
  <2>3. \A v \in held' \cap Units : phase'[v] \in (Running \ {"connecting"}) \cup {"failed"}
    BY <1>4, <1>b
  <2> QED
    BY <2>1, <2>2, <2>3, FewerOut
<1>5. ASSUME NEW u \in Units, Break(u) PROVE PoolInv'
  <2>1. held' = held /\ faults <= faults' /\ Leaked' = Leaked /\ phase' = phase
    BY <1>5, <1>a DEF Break, Fault, Leaked
  <2> QED
    BY <1>b, <2>1, FewerOut
<1>6. ASSUME NEW b \in Borrowers, Borrow(b) PROVE PoolInv'
  <2>1. b \notin Units
    BY UnitsAssumption
  <2>2. Leaked' = Leaked
    BY <1>6, <2>1 DEF Borrow, Leaked
  <2>3. \A v \in held' \cap Units : phase'[v] \in (Running \ {"connecting"}) \cup {"failed"}
    BY <1>6, <2>1, <1>b DEF Borrow
  <2> QED
    BY <1>6, <2>2, <2>3, OneMoreOut DEF Borrow
<1>7. ASSUME NEW b \in Borrowers, GiveBack(b) \/ BorrowerBreaks(b) PROVE PoolInv'
  <2>1. held' \subseteq held /\ faults <= faults' /\ Leaked' \subseteq Leaked /\ phase' = phase
    BY <1>7, <1>a DEF GiveBack, BorrowerBreaks, Fault, Leaked
  <2> QED
    BY <1>b, <2>1, FewerOut
<1>8. CASE Crash
  <2>1. held' = {} /\ faults <= faults' /\ Leaked' \subseteq Leaked
    BY <1>8, <1>a DEF Crash, Fault, Leaked
  <2> QED
    BY <2>1, FewerOut
<1>9. CASE UNCHANGED vars
  <2>1. held' = held /\ faults' = faults /\ Leaked' = Leaked /\ phase' = phase
    BY <1>9 DEF vars, Leaked
  <2> QED
    BY <1>a, <1>b, <2>1, FewerOut
<1> QED
  BY <1>1, <1>2, <1>3, <1>4, <1>5, <1>6, <1>7, <1>8, <1>9 DEF Next

(* The pool is never overdrawn, what is out belongs to somebody who returns *)
(* it, and no more is lost for good than there were faults.                 *)
THEOREM PoolIsAccounted == SafeSpec => []PoolAccounted
<1>1. Init => PoolInv
  <2> SUFFICES ASSUME Init PROVE PoolInv
    OBVIOUS
  <2>1. held = {} /\ Leaked = {} /\ faults = 0
    BY DEF Init, Leaked
  <2> QED
    BY <2>1, FS_EmptySet, BoundsAssumption DEF PoolInv, PoolAccounted
<1>2. PoolInv => PoolAccounted
  BY DEF PoolInv
<1> QED
  BY <1>1, <1>2, TypeCorrect, PoolInvNext, PTL DEF SafeSpec
=============================================================================
