-------------------------- MODULE PgBackendProofs --------------------------
(***************************************************************************)
(* Proofs about PgBackend, for any rows and callbacks and any number of    *)
(* calls, processes and connections: types, the limit of the pool, and     *)
(* that transactions under the table lock implement the contract of mutate *)
(* wherever the rows they select suffice for their callbacks; and that     *)
(* they do for every callback of TaskStore (PgTaskStore).                  *)
(***************************************************************************)
EXTENDS PgTaskStore, TaskChangesProofs, FiniteSetTheorems, TLAPS

\* A callback makes rows of rows; those of TaskStore do (StoreKeepsRows).
CallbacksKeepRows ==
    \A k \in Calls \ Migrations : \A t \in Tables : Change(k, t) \in Tables

Holding == {"locked", "commit"}

\* One transaction at a time has the lock, and what it has read is still there.
Exclusive ==
    /\ \A j, k \in Calls : session[j] \in Holding /\ session[k] \in Holding => j = k
    /\ \A k \in Calls : session[k] = "commit" => snapshot[k] = Snapshot(k, table)

\* Sessions belong to calls that were made, by processes that have found the
\* table; a call returns when its session is over.
Orderly ==
    /\ \A p \in Processes : pool[p] = "open" => table # NoTable
    /\ \A k \in Calls : session[k] # "none" =>
          k \notin Migrations /\ table # NoTable /\ call[k] \in {"open", "raised"}

IInv == TypeOK /\ Exclusive /\ Orderly

-----------------------------------------------------------------------------
(* Tables.                                                                 *)

LEMMA TableFacts ==
    /\ EmptyTable \in Tables
    /\ NoTable \notin Tables
BY RowAssumption DEF EmptyTable, Tables

LEMMA SnapshotType ==
    ASSUME NEW k, NEW t \in Tables
    PROVE  Snapshot(k, t) \in Tables
BY DEF Snapshot, Tables

LEMMA WrittenType ==
    ASSUME CallbacksKeepRows, NEW k \in Calls \ Migrations,
           NEW s \in Tables, NEW t \in Tables
    PROVE  Written(k, s, t) \in Tables
<1>1. Change(k, s) \in Tables
  BY DEF CallbacksKeepRows
<1> QED BY <1>1 DEF Written, Tables

-----------------------------------------------------------------------------
(* The connections of a process.                                           *)

Out(p) == {k \in Calls \ Migrations :
             ProcessOf[k] = p /\ call[k] = "open" /\ session[k] # "queued"}

LEMMA OutFinite == ASSUME NEW p PROVE IsFiniteSet(Out(p))
<1>1. Out(p) \subseteq Calls
  BY DEF Out
<1> QED BY <1>1, CallsAssumption, FS_Subset

\* A step that takes no connection keeps the limit.
LEMMA LimitKept ==
    ASSUME \A p \in Processes : InUse(p) <= PoolSize,
           \A p \in Processes : Out(p)' \subseteq Out(p)
    PROVE  \A p \in Processes : InUse(p)' <= PoolSize
<1> SUFFICES ASSUME NEW p \in Processes PROVE InUse(p)' <= PoolSize
  OBVIOUS
<1>1. /\ IsFiniteSet(Out(p)') /\ Cardinality(Out(p)') <= Cardinality(Out(p))
      /\ Cardinality(Out(p)) \in Nat /\ Cardinality(Out(p)') \in Nat
  BY OutFinite, FS_Subset, FS_CardinalityType
<1>2. InUse(p) = Cardinality(Out(p)) /\ InUse(p)' = Cardinality(Out(p)')
  BY DEF InUse, Out
<1> QED BY <1>1, <1>2, PoolAssumption

LEMMA ConnectKeepsLimit ==
    ASSUME TypeOK, NEW k \in Calls \ Migrations, Connect(k)
    PROVE  \A p \in Processes : InUse(p)' <= PoolSize
<1> SUFFICES ASSUME NEW p \in Processes PROVE InUse(p)' <= PoolSize
  OBVIOUS
<1>1. IsFiniteSet(Out(p)) /\ Cardinality(Out(p)) \in Nat
  BY OutFinite, FS_CardinalityType
<1>2. InUse(p) = Cardinality(Out(p)) /\ InUse(p)' = Cardinality(Out(p)')
  BY DEF InUse, Out
<1>3. InUse(p) <= PoolSize
  BY DEF TypeOK
<1>4. CASE ProcessOf[k] # p
  <2>1. Out(p)' = Out(p)
    BY <1>4 DEF Out, Connect, Server, TypeOK
  <2> QED BY <1>2, <1>3, <2>1
<1>5. CASE ProcessOf[k] = p
  <2>1. Out(p)' = Out(p) \cup {k}
    BY <1>5 DEF Out, Connect, Server, TypeOK
  <2>2. /\ Cardinality(Out(p) \cup {k}) <= Cardinality(Out(p)) + 1
        /\ Cardinality(Out(p) \cup {k}) \in Nat
    <3>1. /\ IsFiniteSet(Out(p) \cup {k})
          /\ Cardinality(Out(p) \cup {k}) =
               IF k \in Out(p) THEN Cardinality(Out(p)) ELSE Cardinality(Out(p)) + 1
      BY <1>1, FS_AddElement
    <3> QED BY <1>1, <3>1
  <2>3. InUse(p) < PoolSize
    BY <1>5 DEF Connect
  <2> QED BY <1>1, <1>2, <2>1, <2>2, <2>3, PoolAssumption
<1> QED BY <1>4, <1>5

-----------------------------------------------------------------------------
(* The invariant.                                                          *)

LEMMA InitInv == Init => IInv
<1> SUFFICES ASSUME Init PROVE IInv
  OBVIOUS
<1>1. \A p \in Processes : Out(p) = {}
  BY DEF Init, Out
<1>2. \A p \in Processes : InUse(p) <= PoolSize
  BY <1>1, FS_EmptySet, PoolAssumption DEF InUse, Out
<1> QED BY <1>2, TableFacts DEF Init, IInv, TypeOK, Exclusive, Orderly, Holding

LEMMA InitializeInv ==
    ASSUME IInv, NEW p \in Processes, Initialize(p) \/ Close(p)
    PROVE  IInv'
<1>1. /\ UNCHANGED <<table, call, session, snapshot, answer>>
      /\ pool' \in [Processes -> {"new", "open", "closed"}]
      /\ \A q \in Processes : pool'[q] = "open" => table # NoTable
  BY DEF Initialize, Close, IInv, TypeOK, Orderly
<1>2. \A q \in Processes : InUse(q)' = InUse(q)
  BY <1>1 DEF InUse
<1> QED BY <1>1, <1>2 DEF IInv, TypeOK, Exclusive, Orderly, Snapshot, Selected

LEMMA MigrationInv ==
    ASSUME IInv, NEW k \in Migrations, StartMigration(k) \/ Migrate(k)
    PROVE  IInv'
<1>1. k \in Calls
  BY PoolAssumption
<1>2. \A j \in Calls \ Migrations : call'[j] = call[j] /\ session'[j] = session[j]
  BY <1>1 DEF StartMigration, Migrate, Client, IInv, TypeOK
<1>3. \A p \in Processes : Out(p)' \subseteq Out(p)
  BY <1>2 DEF Out
<1>4. \A p \in Processes : InUse(p)' <= PoolSize
  BY <1>3, LimitKept DEF IInv, TypeOK
<1>5. CASE StartMigration(k)
  BY <1>1, <1>4, <1>5 DEF StartMigration, Client, IInv, TypeOK, Exclusive, Orderly, Snapshot, Selected
<1>6. CASE Migrate(k)
  <2>1. table = NoTable /\ \A j \in Calls : session[j] = "none"
    BY <1>6 DEF Migrate, IInv, Orderly
  <2>2. table' = EmptyTable /\ table' # NoTable /\ UNCHANGED <<pool, session, snapshot>>
    BY <1>6, TableFacts DEF Migrate
  <2>3. call' = [call EXCEPT ![k] = "returned"]
    BY <1>6 DEF Migrate, Client
  <2>4. TypeOK'
    BY <1>1, <1>4, <2>2, <2>3, TableFacts DEF IInv, TypeOK
  <2> QED BY <2>1, <2>2, <2>4 DEF IInv, Exclusive, Orderly, Holding
<1> QED BY <1>5, <1>6

\* The steps of a call that leave the table, the pools and the lock alone.
LEMMA QuietStep ==
    ASSUME IInv, NEW k \in Calls \ Migrations, Start(k) \/ Connect(k) \/ Fail(k)
    PROVE  IInv'
<1>1. /\ UNCHANGED <<table, pool, snapshot, answer>>
      /\ \A j \in Calls : j # k => call'[j] = call[j] /\ session'[j] = session[j]
      /\ call'[k] \in {"open", "raised"}
      /\ session'[k] \notin Holding \/ session'[k] = session[k]
      /\ session'[k] # "none" => session[k] # "none" \/ pool[ProcessOf[k]] = "open"
  BY DEF Start, Connect, Fail, Client, Server, IInv, TypeOK, Orderly, Holding
<1>2. /\ call' \in [Calls -> {"new", "open", "returned", "raised"}]
      /\ session' \in [Calls -> {"none", "queued", "idle", "locked", "commit"}]
  BY DEF Start, Connect, Fail, Client, Server, IInv, TypeOK
<1>3. \A p \in Processes : InUse(p)' <= PoolSize
  <2>1. CASE Connect(k)
    BY <2>1, ConnectKeepsLimit DEF IInv
  <2>2. CASE Start(k) \/ Fail(k)
    <3>1. \A p \in Processes : Out(p)' \subseteq Out(p)
      BY <2>2 DEF Out, Start, Fail, Client, Server, IInv, TypeOK
    <3> QED BY <3>1, LimitKept DEF IInv, TypeOK
  <2> QED BY <2>1, <2>2
<1>4. TypeOK'
  BY <1>1, <1>2, <1>3 DEF IInv, TypeOK
<1>5. Exclusive'
  BY <1>1 DEF IInv, Exclusive, Holding, Snapshot, Selected
<1>6. Orderly'
  BY <1>1, PoolAssumption DEF IInv, Orderly
<1> QED BY <1>4, <1>5, <1>6 DEF IInv

\* Steps within a transaction take no connection.
LEMMA TransactionKeepsLimit ==
    ASSUME IInv, NEW k \in Calls \ Migrations,
           LockTable(k) \/ Transact(k) \/ Commit(k) \/ Rollback(k)
    PROVE  \A p \in Processes : InUse(p)' <= PoolSize
<1>1. /\ session[k] # "queued"
      /\ \A j \in Calls : j # k => call'[j] = call[j] /\ session'[j] = session[j]
      /\ call'[k] = "open" => call[k] = "open"
  BY DEF LockTable, Transact, Commit, Rollback, Client, Server, IInv, TypeOK
<1>2. \A p \in Processes : Out(p)' \subseteq Out(p)
  BY <1>1 DEF Out
<1> QED BY <1>2, LimitKept DEF IInv, TypeOK

LEMMA LockTableInv ==
    ASSUME IInv, NEW k \in Calls \ Migrations, LockTable(k)
    PROVE  IInv'
<1>1. /\ UNCHANGED <<table, pool, call, snapshot, answer>>
      /\ session[k] = "idle" /\ session' = [session EXCEPT ![k] = "locked"]
      /\ \A j \in Calls : session[j] \notin Holding
  BY DEF LockTable, Server, Holding
<1>2. TypeOK'
  BY <1>1, TransactionKeepsLimit DEF IInv, TypeOK
<1>3. Exclusive'
  BY <1>1 DEF IInv, TypeOK, Exclusive, Holding
<1>4. Orderly'
  BY <1>1 DEF IInv, TypeOK, Orderly
<1> QED BY <1>2, <1>3, <1>4 DEF IInv

LEMMA TransactInv ==
    ASSUME IInv, NEW k \in Calls \ Migrations, Transact(k)
    PROVE  IInv'
<1>1. /\ UNCHANGED <<table, pool, call, answer>>
      /\ session[k] = "locked" /\ session' = [session EXCEPT ![k] = "commit"]
      /\ snapshot' = [snapshot EXCEPT ![k] = Snapshot(k, table)]
      /\ table \in Tables
  BY DEF Transact, Server, IInv, TypeOK, Orderly
<1>2. TypeOK'
  BY <1>1, SnapshotType, TransactionKeepsLimit DEF IInv, TypeOK
<1>3. Exclusive'
  BY <1>1 DEF IInv, TypeOK, Exclusive, Holding, Snapshot, Selected
<1>4. Orderly'
  BY <1>1 DEF IInv, TypeOK, Orderly
<1> QED BY <1>2, <1>3, <1>4 DEF IInv

\* The end of a transaction, by either side, leaves nobody with the lock.
LEMMA EndInv ==
    ASSUME IInv, CallbacksKeepRows, NEW k \in Calls \ Migrations, Commit(k) \/ Rollback(k)
    PROVE  IInv'
<1>1. /\ UNCHANGED pool
      /\ session[k] # "none" /\ session' = [session EXCEPT ![k] = "none"]
      /\ snapshot' = [snapshot EXCEPT ![k] = EmptyTable]
      /\ call' \in [Calls -> {"new", "open", "returned", "raised"}]
      /\ \A j \in Calls : j # k => call'[j] = call[j]
  BY DEF Commit, Rollback, Client, Server, IInv, TypeOK
<1>2. /\ table \in Tables /\ table' \in Tables
      /\ table' = table \/ session[k] = "commit"
  <2>1. table \in Tables /\ snapshot[k] \in Tables
    BY <1>1 DEF IInv, TypeOK, Orderly
  <2>2. CASE Commit(k)
    BY <2>1, <2>2, WrittenType DEF Commit, Server
  <2>3. CASE Rollback(k)
    BY <2>1, <2>3 DEF Rollback
  <2> QED BY <2>1, <2>2, <2>3
<1>3. TypeOK'
  BY <1>1, <1>2, TableFacts, TransactionKeepsLimit DEF IInv, TypeOK
<1>4. Exclusive'
  <2>1. ASSUME NEW j \in Calls, session'[j] = "commit"
        PROVE  snapshot'[j] = Snapshot(j, table')
    <3>1. j # k /\ session[j] = "commit" /\ snapshot'[j] = snapshot[j]
      BY <1>1, <2>1 DEF IInv, TypeOK
    <3>2. table' = table
      BY <1>2, <3>1 DEF IInv, Exclusive, Holding
    <3> QED BY <3>1, <3>2 DEF IInv, Exclusive
  <2>2. \A i, j \in Calls : session'[i] \in Holding /\ session'[j] \in Holding => i = j
    BY <1>1 DEF IInv, TypeOK, Exclusive, Holding
  <2>3. \A j \in Calls : Snapshot(j, table)' = Snapshot(j, table')
    BY DEF Snapshot, Selected
  <2> QED BY <2>1, <2>2, <2>3 DEF Exclusive, Holding
<1>5. Orderly'
  BY <1>1, <1>2, TableFacts DEF IInv, TypeOK, Orderly
<1> QED BY <1>3, <1>4, <1>5 DEF IInv

LEMMA StepInv == ASSUME CallbacksKeepRows PROVE IInv /\ [Next]_vars => IInv'
<1> SUFFICES ASSUME IInv, [Next]_vars PROVE IInv'
  OBVIOUS
<1>1. CASE UNCHANGED vars
  BY <1>1 DEF vars, IInv, TypeOK, Exclusive, Orderly, InUse, Snapshot, Selected
<1>2. CASE \E p \in Processes : Initialize(p) \/ Close(p)
  BY <1>2, InitializeInv
<1>3. CASE \E k \in Migrations : StartMigration(k) \/ Migrate(k)
  BY <1>3, MigrationInv
<1>4. ASSUME NEW k \in Calls \ Migrations,
             \/ Start(k) \/ Connect(k) \/ LockTable(k) \/ Transact(k)
             \/ Commit(k) \/ Rollback(k) \/ Fail(k)
      PROVE  IInv'
  BY <1>4, QuietStep, LockTableInv, TransactInv, EndInv
<1> QED BY <1>1, <1>2, <1>3, <1>4 DEF Next

\* Types are kept and no process has more connections out than its pool has,
\* for any callbacks that make rows of rows.
THEOREM TypeCorrect == ASSUME CallbacksKeepRows PROVE Spec => []TypeOK
<1>1. IInv => TypeOK
  BY DEF IInv
<1> QED BY <1>1, InitInv, StepInv, PTL DEF Spec

-----------------------------------------------------------------------------
(* The contract.                                                           *)

Mapped == <<table, State, answer>>

\* As long as the lock is held at most once, no call that raised can still
\* take effect when another one does.
LEMMA NoneSettled ==
    ASSUME IInv, NEW k \in Calls, session[k] = "commit", call[k] # "raised"
    PROVE  Atomic!Settled(State) = State
<1>1. \A j \in Calls : State[j] # "raised"
  <2> SUFFICES ASSUME NEW j \in Calls, State[j] = "raised" PROVE FALSE
    OBVIOUS
  <2>1. call[j] = "raised" /\ session[j] = "commit"
    BY DEF State, IInv, TypeOK
  <2> QED BY <2>1 DEF IInv, Exclusive, Holding
<1> QED BY <1>1 DEF Atomic!Settled, State

LEMMA InitRefines == Init => Atomic!Init
BY PoolAssumption DEF Init, Atomic!Init, State

LEMMA MigrationRefines ==
    ASSUME IInv, NEW k \in Migrations, StartMigration(k) \/ Migrate(k)
    PROVE  Atomic!Next
<1>1. k \in Calls
  BY PoolAssumption
<1>2. CASE StartMigration(k)
  <2>1. State' = [State EXCEPT ![k] = "pending"] /\ State[k] = "new"
    BY <1>1, <1>2 DEF StartMigration, Client, State, IInv, TypeOK
  <2>2. Atomic!Start(k)
    BY <1>2, <2>1 DEF StartMigration, Atomic!Start
  <2> QED BY <1>1, <2>2 DEF Atomic!Next
<1>3. CASE Migrate(k)
  <2>1. table = NoTable /\ table' = EmptyTable /\ table' # table
    BY <1>3, TableFacts DEF Migrate
  <2>2. \A j \in Calls : session[j] = "none"
    BY <2>1 DEF IInv, Orderly
  <2>3. State[k] = "pending" /\ State' = [State EXCEPT ![k] = "returned"]
    BY <1>1, <1>3, <2>2 DEF Migrate, Client, State, IInv, TypeOK
  <2>4. \A j \in Calls : State'[j] # "raised"
    BY <1>1, <1>3, <2>2 DEF Migrate, Client, State, IInv, TypeOK
  <2>5. Atomic!Settled(State') = State'
    BY <2>4 DEF Atomic!Settled, State
  <2>6. Atomic!Take(k, [State EXCEPT ![k] = "returned"])
    BY <2>1, <2>3, <2>5 DEF Atomic!Take, Atomic!Possible, Atomic!Effect
  <2>7. Atomic!Return(k)
    BY <1>3, <2>3, <2>6 DEF Atomic!Return, Migrate
  <2> QED BY <1>1, <2>7 DEF Atomic!Next
<1> QED BY <1>2, <1>3

\* A COMMIT is the effect of its call on the whole table: an effect with its
\* return, one whose answer was lost, or one of a call that has raised.
LEMMA CommitRefines ==
    ASSUME IInv, SnapshotSuffices, NEW k \in Calls \ Migrations, Commit(k)
    PROVE  Atomic!Next
<1>1. /\ session[k] = "commit" /\ session' = [session EXCEPT ![k] = "none"]
      /\ table # NoTable /\ snapshot[k] = Snapshot(k, table)
      /\ call[k] \in {"open", "raised"}
  BY DEF Commit, Server, IInv, Exclusive, Orderly
<1>2. /\ table' = Change(k, table)
      /\ Answer(k, snapshot[k]) = Answer(k, table)
  BY <1>1 DEF Commit, SnapshotSuffices
<1>3. Atomic!Possible(k, table) /\ table' = Atomic!Effect(k, table)
  BY <1>1, <1>2 DEF Atomic!Possible, Atomic!Effect
<1>4. CASE call[k] = "open" /\ call' = [call EXCEPT ![k] = "returned"]
           /\ answer' = [answer EXCEPT ![k] = Answer(k, snapshot[k])]
  <2>1. State[k] = "pending" /\ State' = [State EXCEPT ![k] = "returned"]
    BY <1>1, <1>4 DEF State, IInv, TypeOK
  <2>2. \A j \in Calls : State'[j] # "raised"
    BY <1>1, <1>4 DEF State, IInv, TypeOK, Exclusive, Holding
  <2>3. Atomic!Settled(State') = State'
    BY <2>2 DEF Atomic!Settled, State
  <2>4. Atomic!Return(k)
    BY <1>2, <1>3, <1>4, <2>1, <2>3 DEF Atomic!Return, Atomic!Take
  <2> QED BY <2>4 DEF Atomic!Next
<1>5. CASE call[k] = "open" /\ UNCHANGED <<call, answer>>
  <2>1. State[k] = "pending" /\ State' = State
    BY <1>1, <1>5 DEF State, IInv, TypeOK
  <2>2. Atomic!Settled(State) = State
    BY <1>1, <1>5, NoneSettled
  <2>3. Atomic!Apply(k)
    BY <1>3, <1>5, <2>1, <2>2 DEF Atomic!Apply, Atomic!Take
  <2> QED BY <2>3 DEF Atomic!Next
<1>6. CASE call[k] = "raised" /\ UNCHANGED <<call, answer>>
  <2>1. State[k] = "raised" /\ State' = [State EXCEPT ![k] = "over"]
    BY <1>1, <1>6 DEF State, IInv, TypeOK
  <2>2. CASE table' = table
    BY <1>6, <2>1, <2>2 DEF Atomic!Drop, Atomic!Next
  <2>3. CASE table' # table
    <3>1. Atomic!Settled(State) = State'
      <4>1. \A j \in Calls : State[j] = "raised" <=> j = k
        BY <1>1, <1>6 DEF State, IInv, TypeOK, Exclusive, Holding
      <4> QED BY <2>1, <4>1 DEF Atomic!Settled, State
    <3>2. Atomic!Late(k)
      BY <1>3, <1>6, <2>1, <2>3, <3>1 DEF Atomic!Late, Atomic!Take
    <3> QED BY <3>2 DEF Atomic!Next
  <2> QED BY <2>2, <2>3
<1> QED BY <1>1, <1>4, <1>5, <1>6 DEF Commit, Client

\* The other steps of a call start it, end it with an error, or are not seen.
LEMMA CallRefines ==
    ASSUME IInv, NEW k \in Calls \ Migrations,
           \/ Start(k) \/ Connect(k) \/ LockTable(k) \/ Transact(k)
           \/ Rollback(k) \/ Fail(k)
    PROVE  Atomic!Next \/ UNCHANGED Mapped
<1>1. CASE Start(k)
  <2>1. State[k] = "new" /\ State' = [State EXCEPT ![k] = "pending"]
    BY <1>1 DEF Start, Client, Server, State, IInv, TypeOK
  <2>2. Atomic!Start(k)
    BY <1>1, <2>1 DEF Start, Atomic!Start
  <2> QED BY <2>2 DEF Atomic!Next
<1>2. CASE Connect(k) \/ LockTable(k) \/ Transact(k)
  <2>1. UNCHANGED <<table, call, answer>>
    BY <1>2 DEF Connect, LockTable, Transact
  <2>2. \A j \in Calls : call[j] = "raised" => (session'[j] = "commit" <=> session[j] = "commit")
    BY <1>2 DEF Connect, LockTable, Transact, Server, IInv, TypeOK
  <2>3. State' = State
    BY <2>1, <2>2 DEF State
  <2> QED BY <2>1, <2>3 DEF Mapped
<1>3. CASE Rollback(k)
  <2>1. UNCHANGED <<table, call, answer>> /\ session' = [session EXCEPT ![k] = "none"]
    BY <1>3 DEF Rollback, Server
  <2>2. CASE State[k] = "raised"
    <3>1. State' = [State EXCEPT ![k] = "over"]
      BY <2>1, <2>2 DEF State, IInv, TypeOK
    <3> QED BY <2>1, <2>2, <3>1 DEF Atomic!Drop, Atomic!Next
  <2>3. CASE State[k] # "raised"
    <3>1. State' = State
      BY <2>1, <2>3 DEF State, IInv, TypeOK
    <3> QED BY <2>1, <3>1 DEF Mapped
  <2> QED BY <2>2, <2>3
<1>4. CASE Fail(k)
  <2>1. /\ State[k] = "pending"
        /\ \E s \in {"raised", "over"} : State' = [State EXCEPT ![k] = s]
    BY <1>4 DEF Fail, Client, State, IInv, TypeOK
  <2>2. Atomic!Raise(k)
    BY <1>4, <2>1 DEF Fail, Atomic!Raise
  <2> QED BY <2>2 DEF Atomic!Next
<1> QED BY <1>1, <1>2, <1>3, <1>4

LEMMA StepRefines ==
    IInv /\ SnapshotSuffices /\ [Next]_vars => [Atomic!Next]_Mapped
<1> SUFFICES ASSUME IInv, SnapshotSuffices, [Next]_vars
             PROVE  Atomic!Next \/ UNCHANGED Mapped
  OBVIOUS
<1>1. CASE UNCHANGED vars
  BY <1>1 DEF vars, Mapped, State
<1>2. CASE \E p \in Processes : Initialize(p) \/ Close(p)
  BY <1>2 DEF Initialize, Close, Mapped, State
<1>3. CASE \E k \in Migrations : StartMigration(k) \/ Migrate(k)
  BY <1>3, MigrationRefines
<1>4. ASSUME NEW k \in Calls \ Migrations,
             \/ Start(k) \/ Connect(k) \/ LockTable(k) \/ Transact(k)
             \/ Commit(k) \/ Rollback(k) \/ Fail(k)
      PROVE  Atomic!Next \/ UNCHANGED Mapped
  BY <1>4, CommitRefines, CallRefines
<1> QED BY <1>1, <1>2, <1>3, <1>4 DEF Next

\* Transactions under the table lock implement the contract of mutate, for any
\* number of calls, processes and connections, if the rows that a call selects
\* are all its callback depends on.
THEOREM TransactionsImplementContract ==
    ASSUME CallbacksKeepRows
    PROVE  Spec /\ []SnapshotSuffices => ImplementsContract
<1>1. IInv /\ SnapshotSuffices /\ [Next]_vars => [Atomic!Next]_<<table, State, answer>>
  BY StepRefines DEF Mapped
<1> QED BY <1>1, InitInv, StepInv, InitRefines, PTL DEF Spec, ImplementsContract, Atomic!Spec

-----------------------------------------------------------------------------
(* TaskStore on PostgreSQL.  The hypotheses CallbacksKeepRows and          *)
(* SnapshotSuffices are discharged for its callbacks.                      *)

TableRows == [TaskIds -> StoreRows \cup {NoTask}]

LEMMA StoreTables ==
    ASSUME OnTaskStore
    PROVE  /\ Tables = TableRows /\ EmptyTable = [i \in TaskIds |-> NoTask]
           /\ TableRows \subseteq Snapshots
BY DEF OnTaskStore, Tables, EmptyTable, TableRows, Snapshots, StoreRows

\* What a call may make of one row: it keeps the key, and a new row is that of
\* enqueue.
Stays(c, t, u) ==
    /\ u \in StoreRows \cup {NoTask}
    /\ t # NoTask => u # NoTask /\ u.key = t.key
    /\ t = NoTask /\ u # NoTask => c.method = "enqueue" /\ u.key = c.key

AllStay(c, S, S2) ==
    /\ S2 \in TableRows
    /\ \A i \in TaskIds : Stays(c, S[i], S2[i])
    /\ \A i \in TaskIds : S[i] = NoTask /\ S2[i] # NoTask => i = c.id

LEMMA RowIsRecord == \A t \in StoreRows : t # NoTask
BY NoTaskAssumption DEF StoreRows

LEMMA LeaveStays ==
    ASSUME NEW c \in StoreCalls, NEW S \in TableRows, NEW r
    PROVE  AllStay(c, S, Leave(S, r).tasks)
BY DEF Leave, AllStay, Stays, TableRows

LEMMA PutStays ==
    ASSUME NEW c \in StoreCalls, NEW S \in TableRows, NEW i \in TaskIds, S[i] # NoTask,
           NEW t \in StoreRows, t.key = S[i].key, NEW r
    PROVE  AllStay(c, S, Put(S, i, t, r).tasks)
BY RowIsRecord DEF Put, AllStay, Stays, TableRows

\* A change of other columns leaves a row of the table.
LEMMA RowKept ==
    ASSUME NEW t \in StoreRows, NEW u \in TaskState, u.created_at = t.created_at
    PROVE  u \in StoreRows
BY DEF StoreRows

LEMMA SetTerminalStays ==
    ASSUME NEW t \in StoreRows, NEW status \in Status, NEW error \in Errors, NEW now \in Int
    PROVE  /\ SetTerminal(t, status, error, now) \in StoreRows
           /\ SetTerminal(t, status, error, now).key = t.key
<1>1. t \in TaskState
  BY DEF StoreRows
<1>2. /\ SetTerminal(t, status, error, now) \in TaskState
      /\ SetTerminal(t, status, error, now).created_at = t.created_at
      /\ SetTerminal(t, status, error, now).key = t.key
  BY <1>1 DEF SetTerminal, TaskState
<1> QED BY <1>2, RowKept

LEMMA ExpireStays ==
    ASSUME NEW t \in StoreRows, NEW now \in Int
    PROVE  Expire(t, now) \in StoreRows /\ Expire(t, now).key = t.key
<1>1. "FAILED" \in Status /\ "task_timeout" \in Errors
  BY DEF Status, Terminal, Errors
<1> QED BY <1>1, SetTerminalStays DEF Expire

LEMMA NewRow ==
    ASSUME NEW c \in StoreCalls
    PROVE  /\ NewTask(c.key, c.request, c.now) \in StoreRows
           /\ NewTask(c.key, c.request, c.now).key = c.key
<1>1. "QUEUED" \in Status /\ "none" \in Errors /\ Unknown \in {Unknown} /\ 0 \in 0 .. MaxRows
  BY LimitsAssumption DEF Status, Errors
<1> QED BY <1>1 DEF NewTask, StoreRows, TaskState, StoreCalls, Never

LEMMA EnqueueKeepsRows ==
    ASSUME NEW c \in StoreCalls, NEW S \in TableRows
    PROVE  enqueue(S, c.id, c.key, c.request, c.now).tasks \in TableRows
<1> DEFINE t == NewTask(c.key, c.request, c.now)
<1>1. t \in StoreRows
  BY NewRow
<1> HIDE DEF t
<1>2. Put(S, c.id, t, Value(c.id)).tasks \in TableRows
  BY <1>1 DEF Put, TableRows
<1>3. \A r : Leave(S, r).tasks \in TableRows
  BY DEF Leave
<1> QED BY <1>2, <1>3 DEF enqueue, t

LEMMA EnqueueStays ==
    ASSUME NEW c \in StoreCalls, c.method = "enqueue", NEW S \in TableRows,
           S[c.id] = NoTask \/ c.id \in SameKey(S, c.key)
    PROVE  AllStay(c, S, enqueue(S, c.id, c.key, c.request, c.now).tasks)
<1>1. CASE S[c.id] = NoTask
  <2> DEFINE t == NewTask(c.key, c.request, c.now)
  <2>1. t \in StoreRows /\ t.key = c.key
    BY NewRow
  <2> HIDE DEF t
  <2>2. c.id \in TaskIds
    BY DEF StoreCalls
  <2>3. AllStay(c, S, Put(S, c.id, t, Value(c.id)).tasks)
    BY <1>1, <2>1, <2>2, RowIsRecord DEF Put, AllStay, Stays, TableRows
  <2> QED BY <2>3, LeaveStays DEF enqueue, t
<1>2. CASE c.id \in SameKey(S, c.key)
  BY <1>2, LeaveStays DEF enqueue
<1> QED BY <1>1, <1>2

LEMMA ClaimStays ==
    ASSUME NEW c \in StoreCalls, NEW S \in TableRows
    PROVE  AllStay(c, S, claim_next(S, c.owner, c.models, c.now).tasks)
<1> DEFINE C == Candidates(S, c.models)
           i == Oldest(S, C)
           t == [S[i] EXCEPT !.status = "RUNNING", !.owner = c.owner, !.last_modified = c.now]
<1>1. CASE OwnedActive(S, c.owner) # {} \/ C = {}
  BY <1>1, LeaveStays DEF claim_next
<1>2. CASE OwnedActive(S, c.owner) = {} /\ C # {}
  <2>1. i \in C
    <3>1. S \in Snapshots /\ \A j \in Known(S) : S[j].created_at >= 0
      BY DEF TableRows, Snapshots, StoreRows, Known
    <3>2. C \in SUBSET Known(S)
      BY DEF Candidates
    <3> QED BY <1>2, <3>1, <3>2, OldestIsCandidate
  <2>2. i \in TaskIds /\ S[i] # NoTask /\ S[i] \in StoreRows
    BY <2>1 DEF Candidates, Known, TableRows
  <2>3. claim_next(S, c.owner, c.models, c.now) = Put(S, i, t, Value(i))
    BY <1>2 DEF claim_next
  <2>4. t \in StoreRows /\ t.key = S[i].key
    <3>1. "RUNNING" \in Status /\ c.owner \in Owners /\ c.now \in Int
      BY DEF Status, Active, StoreCalls
    <3>2. S[i] \in TaskState
      BY <2>2 DEF StoreRows
    <3>3. t \in TaskState /\ t.key = S[i].key /\ t.created_at = S[i].created_at
      BY <3>1, <3>2 DEF TaskState
    <3> QED BY <2>2, <3>3, RowKept
  <2> HIDE DEF i, t
  <2> QED BY <2>2, <2>3, <2>4, PutStays
<1> QED BY <1>1, <1>2

\* A request to abort, and the calls of an owner.
LEMMA ByIdStays ==
    ASSUME NEW c \in StoreCalls, NEW S \in TableRows
    PROVE  /\ AllStay(c, S, request_abort(S, c.id, c.now).tasks)
           /\ AllStay(c, S, heartbeat(S, c.id, c.owner, c.now).tasks)
           /\ AllStay(c, S, set_total_rows(S, c.id, c.owner, c.rows, c.now).tasks)
           /\ AllStay(c, S, update_progress(S, c.id, c.owner, c.rows, c.now).tasks)
           /\ AllStay(c, S, set_status(S, c.id, c.owner, c.status, c.error, c.now).tasks)
           /\ AllStay(c, S, prepare_completion(S, c.id, c.owner, c.rows, c.now).tasks)
<1> DEFINE i == c.id
           now == c.now
           e == Expire(S[i], now)
<1>1. i \in TaskIds /\ now \in Int /\ c.owner \in Owners /\ c.rows \in 0 .. MaxRows
      /\ c.status \in Status /\ c.error \in Errors
  BY DEF StoreCalls
<1>2. CASE S[i] = NoTask
  BY <1>2, LeaveStays DEF request_abort, heartbeat, set_total_rows, update_progress, set_status,
     prepare_completion, NotOwned, Refusal
<1>3. CASE S[i] # NoTask
  <2>1. S[i] \in StoreRows /\ e \in StoreRows /\ e.key = S[i].key
    BY <1>1, <1>3, ExpireStays DEF TableRows
  <2>0. S[i] \in TaskState /\ e \in TaskState
    BY <2>1 DEF StoreRows
  <2>2. {"ABORTING", "FINALIZING", "ABORTED", "FAILED", "DONE"} \subseteq Status /\ "none" \in Errors
    BY DEF Status, Active, Terminal, Errors
  <2>3. AllStay(c, S, request_abort(S, i, now).tasks)
    <3>1. AbortMark(S[i], now) \in StoreRows /\ AbortMark(S[i], now).key = S[i].key
      <4> DEFINE u == [S[i] EXCEPT !.cancel_requested = TRUE, !.status = "ABORTING"]
      <4>1. u \in TaskState /\ u.key = S[i].key /\ u.created_at = S[i].created_at
        BY <2>0, <2>2 DEF TaskState
      <4>2. u \in StoreRows
        BY <2>1, <4>1, RowKept
      <4>3. AbortMark(S[i], now) \in {S[i], u, SetTerminal(S[i], "ABORTED", "none", now)}
        BY DEF AbortMark
      <4>4. /\ SetTerminal(S[i], "ABORTED", "none", now) \in StoreRows
            /\ SetTerminal(S[i], "ABORTED", "none", now).key = S[i].key
        <5>1. "ABORTED" \in Status /\ "none" \in Errors /\ S[i] \in StoreRows /\ now \in Int
          BY <1>1, <2>1, <2>2
        <5> QED BY ONLY <5>1, SetTerminalStays
      <4> HIDE DEF u
      <4> QED BY <2>1, <4>1, <4>2, <4>3, <4>4
    <3> QED BY <1>1, <1>3, <3>1, LeaveStays, PutStays DEF request_abort
  <2>4. \A r : AllStay(c, S, Put(S, i, e, r).tasks) /\ AllStay(c, S, Refusal(S, i).tasks)
    BY <1>1, <1>3, <2>1, LeaveStays, PutStays DEF Refusal
  <2>5. ASSUME NEW x \in {[e EXCEPT !.last_modified = now],
                          [e EXCEPT !.total_rows = c.rows, !.last_modified = now],
                          [e EXCEPT !.processed_rows = c.rows, !.last_modified = now],
                          SetTerminal(e, c.status, c.error, now)}, NEW r
        PROVE  AllStay(c, S, Put(S, i, x, r).tasks)
    <3>1. CASE x = SetTerminal(e, c.status, c.error, now)
      BY <1>1, <1>3, <2>1, <3>1, SetTerminalStays, PutStays
    <3>2. CASE x # SetTerminal(e, c.status, c.error, now)
      <4>1. x \in TaskState /\ x.key = e.key /\ x.created_at = e.created_at
        BY <1>1, <2>0, <2>5, <3>2 DEF TaskState
      <4> QED BY <1>1, <1>3, <2>1, <4>1, RowKept, PutStays
    <3> QED BY <3>1, <3>2
  <2>6. AllStay(c, S, heartbeat(S, i, c.owner, now).tasks)
    BY <2>4, <2>5 DEF heartbeat
  <2>7. AllStay(c, S, set_total_rows(S, i, c.owner, c.rows, now).tasks)
    BY <2>4, <2>5 DEF set_total_rows
  <2>8. AllStay(c, S, update_progress(S, i, c.owner, c.rows, now).tasks)
    BY <2>4, <2>5 DEF update_progress
  <2>9. AllStay(c, S, set_status(S, i, c.owner, c.status, c.error, now).tasks)
    BY <2>4, <2>5, LeaveStays DEF set_status
  <2>10. AllStay(c, S, prepare_completion(S, i, c.owner, c.rows, now).tasks)
    <3> DEFINE p == [e EXCEPT !.processed_rows = c.rows, !.last_modified = now]
           f == [p EXCEPT !.status = "FINALIZING"]
           a == SetTerminal(p, "ABORTED", "none", now)
    <3>1. /\ p \in TaskState /\ p.key = e.key /\ p.created_at = e.created_at
          /\ f \in TaskState /\ f.key = e.key /\ f.created_at = e.created_at
      BY <1>1, <2>0, <2>2 DEF TaskState
    <3>2. p \in StoreRows /\ f \in StoreRows
      BY <2>1, <3>1, RowKept
    <3>3. a \in StoreRows /\ a.key = p.key
      <4>1. "ABORTED" \in Status /\ "none" \in Errors /\ now \in Int
        BY <1>1, <2>2
      <4> QED BY ONLY <3>2, <4>1, SetTerminalStays
    <3>5. Prepared(e, c.rows, now) \in {f, a}
      BY DEF Prepared
    <3> HIDE DEF p, f, a
    <3>6. Prepared(e, c.rows, now) \in StoreRows /\ Prepared(e, c.rows, now).key = S[i].key
      BY <2>1, <3>1, <3>2, <3>3, <3>5
    <3>4. \A r : AllStay(c, S, Put(S, i, Prepared(e, c.rows, now), r).tasks)
      BY <1>1, <1>3, <3>6, PutStays
    <3> QED BY <2>4, <3>4 DEF prepare_completion
  <2> QED BY <2>3, <2>6, <2>7, <2>8, <2>9, <2>10
<1> QED BY <1>2, <1>3

LEMMA FailStaleStays ==
    ASSUME NEW c \in StoreCalls, NEW S \in TableRows
    PROVE  AllStay(c, S, fail_stale(S, c.now).tasks)
<1>1. \A i \in TaskIds : S[i] # NoTask =>
         Expire(S[i], c.now) \in StoreRows /\ Expire(S[i], c.now).key = S[i].key
  BY ExpireStays DEF TableRows, StoreCalls
<1> QED BY <1>1, RowIsRecord DEF fail_stale, AllStay, Stays, TableRows

-----------------------------------------------------------------------------
(* The callback of a call.                                                 *)

\* The id of an enqueue is free, or names the task with the key of the call.
Named(c, S) ==
    c.method = "enqueue" => S[c.id] = NoTask \/ c.id \in SameKey(S, c.key)

LEMMA CallbackStays ==
    ASSUME NEW c \in StoreCalls, NEW S \in TableRows, Named(c, S)
    PROVE  AllStay(c, S, Callback(c, S).tasks)
<1>1. c.method \in Methods
  BY DEF StoreCalls
<1>2. c.method = "enqueue" => AllStay(c, S, enqueue(S, c.id, c.key, c.request, c.now).tasks)
  BY EnqueueStays DEF Named
<1> QED BY <1>1, <1>2, ClaimStays, ByIdStays, FailStaleStays DEF Callback, Methods, ById

LEMMA CallbackKeepsRows ==
    ASSUME NEW c \in StoreCalls, NEW S \in TableRows
    PROVE  Callback(c, S).tasks \in TableRows
<1>1. CASE c.method = "enqueue"
  BY <1>1, EnqueueKeepsRows DEF Callback
<1>2. CASE c.method # "enqueue"
  BY <1>2, CallbackStays DEF Named, AllStay
<1> QED BY <1>1, <1>2

\* The callbacks of TaskStore make rows of rows.
LEMMA StoreKeepsRows == ASSUME OnTaskStore PROVE CallbacksKeepRows
<1> SUFFICES ASSUME NEW k \in Calls \ Migrations, NEW t \in Tables
             PROVE  Change(k, t) \in Tables
  BY DEF CallbacksKeepRows
<1>1. CallOf[k] \in StoreCalls /\ Tables = TableRows
  BY StoreAssumption, StoreTables
<1>2. Change(k, t) = Callback(CallOf[k], t).tasks
  BY DEF OnTaskStore, StoreChange
<1> QED BY <1>1, <1>2, CallbackKeepsRows

\* What the SELECT of a call returns holds all that its callback asks for.
LEMMA SnapshotSelects ==
    ASSUME OnTaskStore, NEW k \in Calls \ Migrations, NEW S \in Tables
    PROVE  Selects(Snapshot(k, S), S, IdOf[k], KeyOf[k])
BY DEF OnTaskStore, Selects, Snapshot, Selected, Terminal

LEMMA CallbackSelects ==
    ASSUME NEW c \in StoreCalls, NEW S \in TableRows, NEW T \in TableRows, NEW id, NEW key,
           Selects(T, S, id, key), Named(c, S),
           c.method \in ById => id = c.id, c.method = "enqueue" => key = c.key
    PROVE  Amounts(Callback(c, T), T, Callback(c, S), S)
<1>1. c.method \in Methods /\ c.id \in TaskIds
  BY DEF StoreCalls
<1>2. S \in Snapshots /\ T \in Snapshots /\ \A i \in Known(S) : S[i].created_at >= 0
  BY DEF TableRows, Snapshots, StoreRows, Known
<1>3. CASE c.method = "enqueue"
  <2>1. Amounts(enqueue(T, c.id, c.key, c.request, c.now), T,
                enqueue(S, c.id, c.key, c.request, c.now), S)
    BY <1>1, <1>2, <1>3, EnqueueSelects DEF Named
  <2> QED BY <1>3, <2>1 DEF Callback
<1>4. CASE c.method = "claim_next"
  <2>1. Amounts(claim_next(T, c.owner, c.models, c.now), T,
                claim_next(S, c.owner, c.models, c.now), S)
    BY <1>2, ClaimSelects
  <2> QED BY <1>4, <2>1 DEF Callback
<1>5. CASE c.method = "fail_stale"
  <2>1. Amounts(fail_stale(T, c.now), T, fail_stale(S, c.now), S)
    BY <1>2, FailStaleSelects
  <2> QED BY <1>5, <2>1 DEF Callback
<1>6. CASE c.method \in ById
  <2>1. Selects(T, S, c.id, key)
    BY <1>6
  <2>2. /\ Amounts(request_abort(T, c.id, c.now), T, request_abort(S, c.id, c.now), S)
        /\ Amounts(heartbeat(T, c.id, c.owner, c.now), T, heartbeat(S, c.id, c.owner, c.now), S)
        /\ Amounts(set_total_rows(T, c.id, c.owner, c.rows, c.now), T,
                   set_total_rows(S, c.id, c.owner, c.rows, c.now), S)
        /\ Amounts(update_progress(T, c.id, c.owner, c.rows, c.now), T,
                   update_progress(S, c.id, c.owner, c.rows, c.now), S)
        /\ Amounts(set_status(T, c.id, c.owner, c.status, c.error, c.now), T,
                   set_status(S, c.id, c.owner, c.status, c.error, c.now), S)
        /\ Amounts(prepare_completion(T, c.id, c.owner, c.rows, c.now), T,
                   prepare_completion(S, c.id, c.owner, c.rows, c.now), S)
    BY <1>1, <1>2, <2>1, NamedSelects
  <2> QED BY <1>6, <2>2 DEF Callback, ById
<1> QED BY <1>1, <1>3, <1>4, <1>5, <1>6 DEF Methods

\* On the rows it selects a call decides what it would on the whole table.
LEMMA CallSuffices ==
    ASSUME OnTaskStore, NEW k \in Calls \ Migrations, NEW S \in Tables, Named(CallOf[k], S)
    PROVE  /\ Written(k, Snapshot(k, S), S) = Change(k, S)
           /\ Answer(k, Snapshot(k, S)) = Answer(k, S)
<1> DEFINE c == CallOf[k]
           T == Snapshot(k, S)
<1>1. c \in StoreCalls /\ S \in TableRows /\ T \in Tables /\ T \in TableRows
  BY StoreAssumption, StoreTables, SnapshotType
<1>2. Selects(T, S, IdOf[k], KeyOf[k])
  BY SnapshotSelects
<1>3. (c.method \in ById => IdOf[k] = c.id) /\ (c.method = "enqueue" => KeyOf[k] = c.key)
  BY DEF OnTaskStore, StoreId, StoreKey
<1>4. Amounts(Callback(c, T), T, Callback(c, S), S)
  BY <1>1, <1>2, <1>3, CallbackSelects
<1>5. /\ Change(k, S) = Callback(c, S).tasks /\ Change(k, T) = Callback(c, T).tasks
      /\ Answer(k, S) = Callback(c, S).result /\ Answer(k, T) = Callback(c, T).result
  BY <1>1 DEF OnTaskStore, StoreChange, StoreAnswer
<1>6. Ids = TaskIds
  BY DEF OnTaskStore
<1> HIDE DEF c, T
<1>7. Written(k, T, S) = Change(k, S) /\ Answer(k, T) = Answer(k, S)
  BY <1>4, <1>5, <1>6 DEF Amounts, Written
<1> QED BY <1>7 DEF T

-----------------------------------------------------------------------------
(* The invariant behind RowsSuffice: no row of another key has the id of   *)
(* an enqueue.                                                             *)

IdsNamed == table # NoTable => \A k \in Calls \ Migrations : Named(CallOf[k], table)

LEMMA StayNamed ==
    ASSUME NEW k \in Calls \ Migrations, NEW S \in TableRows, NEW S2,
           \A j \in Calls \ Migrations : Named(CallOf[j], S),
           AllStay(CallOf[k], S, S2), NEW j \in Calls \ Migrations
    PROVE  Named(CallOf[j], S2)
<1> DEFINE i == CallOf[j].id
<1> SUFFICES ASSUME CallOf[j].method = "enqueue", S2[i] # NoTask
             PROVE  i \in SameKey(S2, CallOf[j].key)
  BY DEF Named
<1>1. i \in TaskIds
  BY StoreAssumption DEF StoreCalls
<1>2. CASE S[i] # NoTask
  <2>1. S[i].key = CallOf[j].key
    BY <1>2 DEF Named, SameKey
  <2>2. S2[i].key = S[i].key
    BY <1>1, <1>2 DEF AllStay, Stays
  <2> QED BY <1>1, <2>1, <2>2 DEF SameKey, Known
<1>3. CASE S[i] = NoTask
  <2>1. i = CallOf[k].id /\ CallOf[k].method = "enqueue" /\ S2[i].key = CallOf[k].key
    BY <1>1, <1>3 DEF AllStay, Stays
  <2>2. j = k
    BY <2>1, StoreAssumption DEF NewIds
  <2> QED BY <1>1, <2>1, <2>2 DEF SameKey, Known
<1> QED BY <1>2, <1>3

LEMMA NamedSuffices ==
    ASSUME OnTaskStore, TypeOK, IdsNamed
    PROVE  SnapshotSuffices
<1> SUFFICES ASSUME table # NoTable, NEW k \in Calls \ Migrations
             PROVE  /\ Written(k, Snapshot(k, table), table) = Change(k, table)
                    /\ Answer(k, Snapshot(k, table)) = Answer(k, table)
  BY DEF SnapshotSuffices
<1>1. table \in Tables /\ Named(CallOf[k], table)
  BY DEF TypeOK, IdsNamed
<1> QED BY <1>1, CallSuffices

LEMMA StepNamed ==
    ASSUME OnTaskStore
    PROVE  IInv /\ IdsNamed /\ [Next]_vars => IdsNamed'
<1> SUFFICES ASSUME IInv, IdsNamed, [Next]_vars, table' # NoTable,
                    NEW j \in Calls \ Migrations
             PROVE  Named(CallOf[j], table')
  BY DEF IdsNamed, Named
<1>1. CASE table' = table
  BY <1>1 DEF IdsNamed
<1>2. CASE \E k \in Migrations : Migrate(k)
  <2>1. table' = [i \in TaskIds |-> NoTask]
    BY <1>2, StoreTables DEF Migrate
  <2>2. CallOf[j].id \in TaskIds
    BY StoreAssumption DEF StoreCalls
  <2> QED BY <2>1, <2>2 DEF Named
<1>3. ASSUME NEW k \in Calls \ Migrations, Commit(k)
      PROVE  Named(CallOf[j], table')
  <2>1. table \in Tables /\ table # NoTable /\ snapshot[k] = Snapshot(k, table)
    BY <1>3 DEF Commit, Server, IInv, TypeOK, Exclusive, Orderly
  <2>2. \A n \in Calls \ Migrations : Named(CallOf[n], table)
    BY <2>1 DEF IdsNamed
  <2>3. table' = Change(k, table)
    BY <1>3, <2>1, <2>2, CallSuffices DEF Commit
  <2>4. table' = Callback(CallOf[k], table).tasks
    BY <2>1, <2>3 DEF OnTaskStore, StoreChange
  <2>5. table \in TableRows /\ CallOf[k] \in StoreCalls
    BY <2>1, StoreTables, StoreAssumption
  <2>6. AllStay(CallOf[k], table, table')
    BY <2>2, <2>4, <2>5, CallbackStays
  <2> QED BY <2>2, <2>5, <2>6, StayNamed
<1>4. table' = table \/ (\E k \in Migrations : Migrate(k)) \/ (\E k \in Calls \ Migrations : Commit(k))
  BY DEF Next, vars, Initialize, Close, Start, Connect, LockTable, Transact, Rollback, Fail,
     StartMigration
<1> QED BY <1>1, <1>2, <1>3, <1>4

LEMMA InitNamed == Init => IdsNamed
BY DEF Init, IdsNamed

\* For every callback of TaskStore, in every reachable table, the unfinished
\* rows and those of the id and the key that the call names are all it needs
\* (the SELECT of app/tasks/backends/postgres.py): on them it makes the change,
\* and gives the answer, that it would make and give on the whole table.
THEOREM RowsSuffice == ASSUME OnTaskStore PROVE Spec => []SnapshotSuffices
<1>1. CallbacksKeepRows
  BY StoreKeepsRows
<1>2. IInv /\ [Next]_vars => IInv'
  BY <1>1, StepInv
<1>3. IInv /\ IdsNamed => SnapshotSuffices
  BY NamedSuffices DEF IInv
<1>4. IInv /\ IdsNamed /\ [Next]_vars => IdsNamed'
  BY StepNamed
<1> QED BY <1>2, <1>3, <1>4, InitInv, InitNamed, PTL DEF Spec

\* TaskStore on PostgreSQL: whatever calls are made, by any number of processes
\* and connections, its transactions implement the contract of mutate.
THEOREM QueueOnPostgres == ASSUME OnTaskStore PROVE Spec => ImplementsContract
<1>1. CallbacksKeepRows
  BY StoreKeepsRows
<1>2. Spec => []SnapshotSuffices
  BY RowsSuffice
<1>3. Spec /\ []SnapshotSuffices => ImplementsContract
  BY <1>1, TransactionsImplementContract
<1> QED BY <1>2, <1>3, PTL

=============================================================================
