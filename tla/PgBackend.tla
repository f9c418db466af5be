----------------------------- MODULE PgBackend -----------------------------
(***************************************************************************)
(* The queue in a PostgreSQL table (app/tasks/backends/postgres.py): a     *)
(* connection from the pool of the process, LOCK TABLE in a mode that      *)
(* excludes itself, a SELECT of the rows the call needs, the callback,     *)
(* UPDATE and INSERT of the rows that changed, COMMIT.                     *)
(*                                                                         *)
(* The client and its session on the server are separate: either may go on *)
(* for a while after the other has failed, so a COMMIT may take effect     *)
(* without its answer, and after its caller has seen an error.  Rows and   *)
(* callbacks are parameters.  The table is made by migrations, which       *)
(* operators run by hand, and processes come and go at any time.           *)
(***************************************************************************)
EXTENDS Integers, FiniteSets

CONSTANTS
    Calls,           \* calls of mutate, and migrations, each made once
    Migrations,      \* runs of scripts/migrate_task_store.py --apply
    Processes,
    ProcessOf,       \* of a call
    PoolSize,        \* max_size of the pool
    Ids,             \* primary keys
    Rows,            \* records without their id; with a status, a key and an owner
    NoRow,
    NoTable,         \* the table does not exist
    Null,            \* NULL in the column owner_id
    IdOf, KeyOf,     \* the task_id and idempotency_key a call passes, or None
    Change(_, _),    \* the snapshot a callback leaves of a snapshot
    Answer(_, _),    \* what it returns, or raises
    NoAnswer,        \* the call has not returned
    MaxFailures      \* bound of the model: calls that raise

ASSUME PoolAssumption ==
    /\ Migrations \subseteq Calls
    /\ ProcessOf \in [Calls \ Migrations -> Processes]
    /\ PoolSize \in Nat \ {0}
    /\ MaxFailures \in Nat
ASSUME RowAssumption == NoRow \notin Rows /\ NoTable \notin [Ids -> Rows \cup {NoRow}]
ASSUME CallsAssumption == IsFiniteSet(Calls)

VARIABLES
    table,       \* committed rows
    pool,        \* ConnectionPool of a process
    call,        \* the client's side of a call
    session,     \* the server's side of its transaction
    snapshot,    \* what the SELECT of the transaction has returned
    answer       \* what the calls that returned have returned

vars == <<table, pool, call, session, snapshot, answer>>

Tables == [Ids -> Rows \cup {NoRow}]
EmptyTable == [i \in Ids |-> NoRow]

Init ==
    /\ table = NoTable
    /\ pool = [p \in Processes |-> "new"]
    /\ call = [k \in Calls |-> "new"]
    /\ session = [k \in Calls |-> "none"]
    /\ snapshot = [k \in Calls |-> EmptyTable]
    /\ answer = [k \in Calls |-> NoAnswer]

-----------------------------------------------------------------------------
Client(k, from, to) == call[k] = from /\ call' = [call EXCEPT ![k] = to]
Server(k, from, to) == session[k] \in from /\ session' = [session EXCEPT ![k] = to]

\* Variant: only ACTIVE_FILTER, so a finished record is not found.
SelectedActive(k, t) ==
    {i \in Ids : t[i] # NoRow /\ t[i].status \notin {"DONE", "FAILED", "ABORTED"}}

\* ACTIVE_FILTER OR task_id = %s OR idempotency_key = %s
Selected(k, t) ==
    {i \in Ids : /\ t[i] # NoRow
                 /\ \/ t[i].status \notin {"DONE", "FAILED", "ABORTED"}
                    \/ i = IdOf[k]
                    \/ t[i].key = KeyOf[k]}

Snapshot(k, t) == [i \in Ids |-> IF i \in Selected(k, t) THEN t[i] ELSE NoRow]

\* PRIMARY KEY and the two UNIQUE indexes; the CHECKs follow from the types.
Constraints(t) ==
    \A i, j \in {n \in Ids : t[n] # NoRow} : i # j =>
        /\ t[i].key # t[j].key
        /\ ~ /\ {t[i].status, t[j].status} \subseteq {"RUNNING", "ABORTING", "FINALIZING"}
             /\ t[i].owner # Null /\ t[i].owner = t[j].owner

\* Only the rows that the callback has added or changed are written.
Written(k, s, t) ==
    LET changed == Change(k, s)
    IN  [i \in Ids |-> IF changed[i] # s[i] THEN changed[i] ELSE t[i]]

\* Connections of a process that are out of its pool.
InUse(p) ==
    Cardinality({k \in Calls \ Migrations :
        ProcessOf[k] = p /\ call[k] = "open" /\ session[k] # "queued"})

-----------------------------------------------------------------------------
(* The table.  The migration runs in one transaction, on a connection of   *)
(* its own; over a table that exists, and after an error, it does nothing. *)

StartMigration(k) ==
    /\ Client(k, "new", "open")
    /\ UNCHANGED <<table, pool, session, snapshot, answer>>

Migrate(k) ==
    /\ table = NoTable
    /\ Client(k, "open", "returned")
    /\ table' = EmptyTable
    /\ answer' = [answer EXCEPT ![k] = Answer(k, table)]
    /\ UNCHANGED <<pool, session, snapshot>>

-----------------------------------------------------------------------------
(* The pool of a process: initialize and close.                            *)

\* open(), and a SELECT that finds the table and its columns, or raises and
\* closes the pool; without the table, and whenever the database fails.
Initialize(p) ==
    /\ pool[p] = "new"
    /\ \/ table # NoTable /\ pool' = [pool EXCEPT ![p] = "open"]
       \/ pool' = [pool EXCEPT ![p] = "closed"]
    /\ UNCHANGED <<table, call, session, snapshot, answer>>

\* Calls that wait for a connection fail; one that has a connection goes on.
Close(p) ==
    /\ pool[p] = "open"
    /\ pool' = [pool EXCEPT ![p] = "closed"]
    /\ UNCHANGED <<table, call, session, snapshot, answer>>

-----------------------------------------------------------------------------
(* A call, made by a process whose pool is open; the last ones may find it *)
(* closed by the time they ask for a connection.                           *)

Start(k) ==
    /\ pool[ProcessOf[k]] = "open"
    /\ Client(k, "new", "open")
    /\ Server(k, {"none"}, "queued")
    /\ UNCHANGED <<table, pool, snapshot, answer>>

\* Variant: every call has a connection of its own.
ConnectAlways(k) ==
    /\ call[k] = "open"
    /\ pool[ProcessOf[k]] = "open"
    /\ Server(k, {"queued"}, "idle")
    /\ UNCHANGED <<table, pool, call, snapshot, answer>>

\* A checked connection from the pool; a call that waits too long for one fails.
Connect(k) ==
    /\ call[k] = "open"
    /\ pool[ProcessOf[k]] = "open" /\ InUse(ProcessOf[k]) < PoolSize
    /\ Server(k, {"queued"}, "idle")
    /\ UNCHANGED <<table, pool, call, snapshot, answer>>

\* Variant: ROW EXCLUSIVE, a mode that does not exclude itself.
LockTableShared(k) ==
    /\ Server(k, {"idle"}, "locked")
    /\ UNCHANGED <<table, pool, call, snapshot, answer>>

\* LOCK TABLE ... IN SHARE ROW EXCLUSIVE MODE, held to the end of the transaction.
LockTable(k) ==
    /\ \A j \in Calls : session[j] \in {"none", "queued", "idle"}
    /\ Server(k, {"idle"}, "locked")
    /\ UNCHANGED <<table, pool, call, snapshot, answer>>

\* SELECT, the callback, the writes, and COMMIT is sent; until the lock is given
\* back nothing that the transaction has read or written changes under it.
Transact(k) ==
    /\ call[k] = "open"
    /\ Server(k, {"locked"}, "commit")
    /\ Constraints(Written(k, Snapshot(k, table), table))
    /\ snapshot' = [snapshot EXCEPT ![k] = Snapshot(k, table)]
    /\ UNCHANGED <<table, pool, call, answer>>

\* The server commits; its answer reaches the client, or is lost.
Commit(k) ==
    /\ Server(k, {"commit"}, "none")
    /\ table' = Written(k, snapshot[k], table)
    /\ UNCHANGED pool
    /\ \/ /\ Client(k, "open", "returned")
          /\ answer' = [answer EXCEPT ![k] = Answer(k, snapshot[k])]
       \/ UNCHANGED <<call, answer>>
    /\ snapshot' = [snapshot EXCEPT ![k] = EmptyTable]

\* lock_timeout, statement_timeout, a lost client or a restart of the server.
Rollback(k) ==
    /\ Server(k, {"idle", "locked", "commit"}, "none")
    /\ snapshot' = [snapshot EXCEPT ![k] = EmptyTable]
    /\ UNCHANGED <<table, pool, call, answer>>

\* An error of psycopg becomes TaskStorageError, "not confirmed"; an exception
\* of the callback is an answer of a call that writes nothing.
Fail(k) ==
    /\ Cardinality({j \in Calls : call[j] = "raised"}) < MaxFailures
    /\ Client(k, "open", "raised")
    /\ UNCHANGED <<table, pool, session, snapshot, answer>>

Next ==
    \/ \E p \in Processes : Initialize(p) \/ Close(p)
    \/ \E k \in Calls \ Migrations :
          \/ Start(k) \/ Connect(k) \/ LockTable(k) \/ Transact(k)
          \/ Commit(k) \/ Rollback(k) \/ Fail(k)
    \/ \E k \in Migrations : StartMigration(k) \/ Migrate(k)

Spec == Init /\ [][Next]_vars

-----------------------------------------------------------------------------
TypeOK ==
    /\ table \in Tables \cup {NoTable}
    /\ pool \in [Processes -> {"new", "open", "closed"}]
    /\ call \in [Calls -> {"new", "open", "returned", "raised"}]
    /\ session \in [Calls -> {"none", "queued", "idle", "locked", "commit"}]
    /\ snapshot \in [Calls -> Tables]
    /\ \A p \in Processes : InUse(p) <= PoolSize

\* The rows a call selects are all its callback depends on: on the whole table
\* it would decide, answer and write the same.
SnapshotSuffices ==
    table # NoTable => \A k \in Calls \ Migrations :
        /\ Written(k, Snapshot(k, table), table) = Change(k, table)
        /\ Answer(k, Snapshot(k, table)) = Answer(k, table)

\* The variables of the contract: a call that raised may still take effect
\* while its COMMIT is on the server.
State ==
    [k \in Calls |->
        IF call[k] = "open" THEN "pending"
        ELSE IF call[k] = "raised" THEN IF session[k] = "commit" THEN "raised" ELSE "over"
        ELSE call[k]]

Atomic == INSTANCE AtomicStore WITH
    content <- table, state <- State, Initializers <- Migrations, Contents <- Tables,
    Empty <- EmptyTable, NoContent <- NoTable

\* With any interleaving of sessions, any failure of either side, any lost
\* answer, and processes that start before the table is there or stop with
\* calls under way, the transactions are what the contract of mutate allows:
\* decisions are made one after another, each on the rows the last one left.
ImplementsContract == Atomic!Spec

=============================================================================
