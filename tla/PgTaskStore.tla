---------------------------- MODULE PgTaskStore ----------------------------
(***************************************************************************)
(* TaskStore (app/tasks/state.py) on PostgreSQL: the callbacks that        *)
(* PgBackend leaves open are those of TaskChanges, and a call passes the   *)
(* id or the key that its method hands to backend.mutate.                  *)
(***************************************************************************)
EXTENDS PgBackend, TaskChanges

CONSTANTS
    CallOf,      \* the method of TaskStore that a call of mutate comes from,
                 \* its arguments, and the clock when its callback reads it
    NoArgument   \* task_id = None, idempotency_key = None

\* The methods that name their task; the others select by key, or not at all.
ById == {"request_abort", "heartbeat", "set_total_rows", "update_progress",
         "prepare_completion", "set_status"}
Methods == ById \cup {"enqueue", "claim_next", "fail_stale"}

\* Every call has all the arguments; its method uses some of them.
StoreCalls ==
    [method : Methods, id : TaskIds, key : Keys, request : Requests, owner : Owners,
     models : SUBSET Models, rows : 0 .. MaxRows, status : Status, error : Errors, now : Nat]

Callback(c, S) ==
    CASE c.method = "enqueue"            -> enqueue(S, c.id, c.key, c.request, c.now)
      [] c.method = "claim_next"         -> claim_next(S, c.owner, c.models, c.now)
      [] c.method = "request_abort"      -> request_abort(S, c.id, c.now)
      [] c.method = "heartbeat"          -> heartbeat(S, c.id, c.owner, c.now)
      [] c.method = "set_total_rows"     -> set_total_rows(S, c.id, c.owner, c.rows, c.now)
      [] c.method = "update_progress"    -> update_progress(S, c.id, c.owner, c.rows, c.now)
      [] c.method = "prepare_completion" -> prepare_completion(S, c.id, c.owner, c.rows, c.now)
      [] c.method = "set_status"         -> set_status(S, c.id, c.owner, c.status, c.error, c.now)
      [] c.method = "fail_stale"         -> fail_stale(S, c.now)

StoreChange(k, S) == Callback(CallOf[k], S).tasks
StoreAnswer(k, S) == IF k \in Migrations THEN None ELSE Callback(CallOf[k], S).result

StoreId ==
    [k \in Calls \ Migrations |->
        IF CallOf[k].method \in ById THEN CallOf[k].id ELSE NoArgument]
StoreKey ==
    [k \in Calls \ Migrations |->
        IF CallOf[k].method = "enqueue" THEN CallOf[k].key ELSE NoArgument]

\* The columns of the table; times are seconds since 1970.
StoreRows == {t \in TaskState : t.created_at >= 0}

\* enqueue takes a uuid4 of its own.
NewIds ==
    \A j, k \in {n \in Calls \ Migrations : CallOf[n].method = "enqueue"} :
        j # k => CallOf[j].id # CallOf[k].id

ASSUME StoreAssumption == CallOf \in [Calls \ Migrations -> StoreCalls] /\ NewIds
ASSUME ArgumentAssumption == NoArgument \notin TaskIds

\* What the parameters of PgBackend are.
OnTaskStore ==
    /\ Ids = TaskIds /\ Rows = StoreRows /\ NoRow = NoTask /\ Null = NoOwner
    /\ IdOf = StoreId /\ KeyOf = StoreKey
    /\ \A k \in Calls \ Migrations, S \in Tables :
          Change(k, S) = StoreChange(k, S) /\ Answer(k, S) = StoreAnswer(k, S)

=============================================================================
