---------------------------- MODULE TaskChanges ----------------------------
(***************************************************************************)
(* The task record of app/tasks/types.py and the callbacks that TaskStore  *)
(* (app/tasks/state.py) hands to backend.mutate.                           *)
(*                                                                         *)
(* A callback is a pure function of the snapshot the backend passes to it: *)
(* here an operator from a snapshot S, the arguments of the call and the   *)
(* caller's clock to [tasks |-> the snapshot it leaves, result |-> what it *)
(* returns].  A callback that raises leaves the snapshot alone and its     *)
(* result is the name of the exception.  How a snapshot is read and how    *)
(* the change is written back is the business of the modules that use this *)
(* one: one atomic step (TaskQueue), a compare-and-swap loop over one S3   *)
(* object (S3Backend), the steps of a worker (Worker).                     *)
(***************************************************************************)
EXTENDS Integers, FiniteSets, Sequences

CONSTANTS
    TaskIds,      \* uuid4 identifiers; the order stands for the string order
    Keys,         \* idempotency keys
    Models,       \* model names
    Inputs,       \* an input prefix together with the calc_utilization flag
    Segments,     \* the parts of a path between slashes
    Requests,     \* what may be asked for: model, input and output prefix
    Owners,       \* owner_id of the processes (one TaskStore in each)
    MaxRows,      \* bound on row counts
    MaxPending,   \* config.max_pending_tasks
    TaskTimeout,  \* config.task_timeout_sec
    NoTask,       \* "tasks.get(id) is None"
    NoOwner       \* owner_id = None

ASSUME IdsAssumption == TaskIds \subseteq Nat
ASSUME RequestsAssumption ==
    Requests \subseteq [model : Models, input : Inputs, output : Seq(Segments)]
ASSUME LimitsAssumption ==
    /\ MaxRows \in Nat
    /\ MaxPending \in Nat \ {0}
    /\ TaskTimeout \in Nat \ {0}
ASSUME OwnerAssumption == NoOwner \notin Owners

-----------------------------------------------------------------------------
(* The record.  pod_id goes with owner, started_at is only reported, and   *)
(* inference_elapsed_sec goes with processed_rows.                         *)

Active == {"RUNNING", "ABORTING", "FINALIZING"}
Terminal == {"DONE", "FAILED", "ABORTED"}
Status == {"QUEUED"} \cup Active \cup Terminal

Unknown == -1     \* total_rows = None: the worker has not counted the input
Never == 0        \* finished_at = None; clocks start at 1

\* The causes the properties tell apart; "failure" is any other text.
Errors == {"none", "task_timeout", "pod_shutdown", "storage", "failure"}

TaskState ==
    [key              : Keys,
     request          : Requests,
     status           : Status,
     owner            : Owners \cup {NoOwner},
     total_rows       : {Unknown} \cup 0 .. MaxRows,
     processed_rows   : 0 .. MaxRows,
     created_at       : Int,
     last_modified    : Int,
     finished_at      : Int,
     error            : Errors,
     cancel_requested : BOOLEAN]

ASSUME NoTaskAssumption == NoTask \notin TaskState

Known(S) == {i \in TaskIds : S[i] # NoTask}
Pending(S) == {i \in Known(S) : S[i].status \notin Terminal}

\* What a call returns: None, a value, or an exception of the given name.
None == [kind |-> "None"]
Value(v) == [kind |-> "Value", value |-> v]
Raised(exception) == [kind |-> exception]

Leave(S, r) == [tasks |-> S, result |-> r]
Put(S, i, t, r) == [tasks |-> [S EXCEPT ![i] = t], result |-> r]

-----------------------------------------------------------------------------
(* Output prefixes are sequences of segments: the API strips the trailing  *)
(* slashes and refuses empty segments before a prefix gets here.           *)

Within(path, prefix) ==
    /\ Len(prefix) <= Len(path)
    /\ SubSeq(path, 1, Len(prefix)) = prefix

\* Variant: only the direction "new prefix inside an old one".
prefix_inside(left, right) == Within(right, left)

prefixes_overlap(left, right) == Within(left, right) \/ Within(right, left)

-----------------------------------------------------------------------------
(* Timeouts and the transition to a final status.                          *)

\* Variant: only RUNNING tasks can lose their executor.
TimedOutRunning(t, now) == t.status = "RUNNING" /\ now - t.last_modified >= TaskTimeout

\* Variant: the age of the task instead of the last sign of its executor.
TimedOutByAge(t, now) == t.status \in Active /\ now - t.created_at >= TaskTimeout

TimedOut(t, now) == t.status \in Active /\ now - t.last_modified >= TaskTimeout

SetTerminal(t, status, error, now) ==
    [t EXCEPT !.status = status, !.last_modified = now, !.finished_at = now,
              !.cancel_requested = FALSE, !.error = error]

\* Variant: timeouts are left to readiness.
ExpireNever(t, now) == t

Expire(t, now) ==
    IF TimedOut(t, now) THEN SetTerminal(t, "FAILED", "task_timeout", now) ELSE t

-----------------------------------------------------------------------------
(* Callbacks of the API process.                                           *)

\* Variant: the progress of a new task is None.
NewTaskUncounted(key, request, now) ==
    [key |-> key, request |-> request, status |-> "QUEUED", owner |-> NoOwner,
     total_rows |-> Unknown, processed_rows |-> Unknown, created_at |-> now,
     last_modified |-> now, finished_at |-> Never, error |-> "none",
     cancel_requested |-> FALSE]

NewTask(key, request, now) ==
    [key |-> key, request |-> request, status |-> "QUEUED", owner |-> NoOwner,
     total_rows |-> Unknown, processed_rows |-> 0, created_at |-> now,
     last_modified |-> now, finished_at |-> Never, error |-> "none",
     cancel_requested |-> FALSE]

\* Variant: a key is forgotten when its task ends.
SameKeyPending(S, key) == {i \in Pending(S) : S[i].key = key}

SameKey(S, key) == {i \in Known(S) : S[i].key = key}

FindRequest(S, key, request) ==
    LET i == CHOOSE j \in SameKey(S, key) : TRUE
    IN  IF S[i].request = request THEN Value(i) ELSE Raised("QueueConflictError")

\* Variant: off by one in the limit.
RefusedOneOver(S, request) ==
    \/ \E i \in Pending(S) : prefixes_overlap(S[i].request.output, request.output)
    \/ Cardinality(Pending(S)) > MaxPending

Refused(S, request) ==
    \/ \E i \in Pending(S) : prefixes_overlap(S[i].request.output, request.output)
    \/ Cardinality(Pending(S)) >= MaxPending

enqueue(S, id, key, request, now) ==
    IF SameKey(S, key) # {} THEN Leave(S, FindRequest(S, key, request))
    ELSE IF Refused(S, request) THEN Leave(S, Raised("QueueConflictError"))
    ELSE Put(S, id, NewTask(key, request, now), Value(id))

\* Variant: a running task is ABORTED before its worker has stopped.
AbortMarkAtOnce(t, now) ==
    IF t.status \in {"QUEUED", "RUNNING", "ABORTING"}
    THEN SetTerminal(t, "ABORTED", "none", now) ELSE t

AbortMark(t, now) ==
    IF t.status = "QUEUED" THEN SetTerminal(t, "ABORTED", "none", now)
    ELSE IF t.status \in {"RUNNING", "ABORTING"}
         THEN [t EXCEPT !.cancel_requested = TRUE, !.status = "ABORTING"]
    ELSE t

request_abort(S, id, now) ==
    IF S[id] = NoTask THEN Leave(S, None)
    ELSE IF S[id].status = "FINALIZING" THEN Leave(S, Raised("QueueConflictError"))
    ELSE Put(S, id, AbortMark(S[id], now), Value(id))

-----------------------------------------------------------------------------
(* Callbacks of the worker.                                                *)

OwnedActive(S, o) == {i \in Known(S) : S[i].owner = o /\ S[i].status \in Active}

Candidates(S, models) ==
    {i \in Known(S) : S[i].status = "QUEUED" /\ S[i].request.model \in models}

\* Variant: the newest first.
Later(S, i, j) == S[i].created_at > S[j].created_at \/ (S[i].created_at = S[j].created_at /\ i <= j)

Earlier(S, i, j) ==
    \/ S[i].created_at < S[j].created_at
    \/ S[i].created_at = S[j].created_at /\ i <= j

Oldest(S, C) == CHOOSE i \in C : \A j \in C : Earlier(S, i, j)

\* Variant: a claim does not look for the task the process already has.
claim_next_new(S, o, models, now) ==
    LET candidates == Candidates(S, models)
        i == Oldest(S, candidates)
    IN  IF candidates = {} THEN Leave(S, None)
        ELSE Put(S, i, [S[i] EXCEPT !.status = "RUNNING", !.owner = o,
                                    !.last_modified = now], Value(i))

claim_next(S, o, models, now) ==
    LET owned == OwnedActive(S, o)
        candidates == Candidates(S, models)
        i == Oldest(S, candidates)
    IN  IF owned # {} THEN Leave(S, Value(CHOOSE j \in owned : TRUE))
        ELSE IF candidates = {} THEN Leave(S, None)
        ELSE Put(S, i, [S[i] EXCEPT !.status = "RUNNING", !.owner = o,
                                    !.last_modified = now], Value(i))

(* What the owner's callbacks start with: the record must be there and be  *)
(* the caller's, and a timeout is applied before anything else.            *)
NotOwned(S, id, o) == S[id] = NoTask \/ S[id].owner # o
Refusal(S, id) == Leave(S, Raised(IF S[id] = NoTask THEN "KeyError" ELSE "PermissionError"))

\* Variant: the heartbeat does not look at the status.
heartbeat_any(S, id, o, now) ==
    IF NotOwned(S, id, o) THEN Refusal(S, id)
    ELSE Put(S, id, [Expire(S[id], now) EXCEPT !.last_modified = now], Value(TRUE))

heartbeat(S, id, o, now) ==
    LET t == Expire(S[id], now)
    IN  IF NotOwned(S, id, o) THEN Refusal(S, id)
        ELSE IF t.status \notin Active THEN Put(S, id, t, Value(FALSE))
        ELSE Put(S, id, [t EXCEPT !.last_modified = now], Value(TRUE))

set_total_rows(S, id, o, rows, now) ==
    LET t == Expire(S[id], now)
    IN  IF NotOwned(S, id, o) THEN Refusal(S, id)
        ELSE IF t.status # "RUNNING" THEN Put(S, id, t, Value(FALSE))
        ELSE Put(S, id, [t EXCEPT !.total_rows = rows, !.last_modified = now], Value(TRUE))

update_progress(S, id, o, rows, now) ==
    LET t == Expire(S[id], now)
    IN  IF NotOwned(S, id, o) THEN Refusal(S, id)
        ELSE IF t.status \notin Active THEN Put(S, id, t, None)
        ELSE Put(S, id, [t EXCEPT !.processed_rows = rows, !.last_modified = now], None)

\* Variant: DONE does not need FINALIZING.
set_status_unprepared(S, id, o, status, error, now) ==
    LET t == Expire(S[id], now)
    IN  IF NotOwned(S, id, o) THEN Refusal(S, id)
        ELSE IF t.status \in Terminal THEN Put(S, id, t, Value(t.status = status))
        ELSE Put(S, id, SetTerminal(t, status, error, now), Value(TRUE))

set_status(S, id, o, status, error, now) ==
    LET t == Expire(S[id], now)
    IN  IF NotOwned(S, id, o) THEN Refusal(S, id)
        ELSE IF t.status \in Terminal THEN Put(S, id, t, Value(t.status = status))
        ELSE IF status \notin Terminal \/ (status = "DONE" /\ t.status # "FINALIZING")
             THEN Leave(S, Raised("ValueError"))
        ELSE Put(S, id, SetTerminal(t, status, error, now), Value(TRUE))

\* Variant: the cancellation is not looked at again.
PreparedAnyway(t, rows, now) ==
    [t EXCEPT !.processed_rows = rows, !.last_modified = now, !.status = "FINALIZING"]

Prepared(t, rows, now) ==
    LET p == [t EXCEPT !.processed_rows = rows, !.last_modified = now]
    IN  IF t.cancel_requested THEN SetTerminal(p, "ABORTED", "none", now)
        ELSE [p EXCEPT !.status = "FINALIZING"]

prepare_completion(S, id, o, rows, now) ==
    LET t == Expire(S[id], now)
        p == IF t.status \in Terminal THEN t ELSE Prepared(t, rows, now)
    IN  IF NotOwned(S, id, o) THEN Refusal(S, id)
        ELSE Put(S, id, p, Value(p.status = "FINALIZING"))

-----------------------------------------------------------------------------
(* Callbacks of the maintenance that readiness runs.                       *)

fail_stale(S, now) ==
    [tasks  |-> [i \in TaskIds |-> IF S[i] = NoTask THEN NoTask ELSE Expire(S[i], now)],
     result |-> Value({i \in Known(S) : TimedOut(S[i], now)})]

EndedAt(t) == IF t.finished_at # Never THEN t.finished_at ELSE t.last_modified

clean(S, cutoff) ==
    LET expired == {i \in Known(S) : S[i].status \in Terminal /\ EndedAt(S[i]) < cutoff}
    IN  Leave([i \in TaskIds |-> IF i \in expired THEN NoTask ELSE S[i]], None)

=============================================================================
