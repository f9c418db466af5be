--------------------------- MODULE AirflowSensor ---------------------------
(***************************************************************************)
(* One attempt of GPUModelInferenceOperator                                *)
(* (airflow_operators/gpu_model_inference_operator.py): a sensor that      *)
(* posts a request for each shard, looks at every task, and either         *)
(* succeeds, fails and cancels, or gives its worker slot back and starts   *)
(* again later with nothing in its memory.                                 *)
(*                                                                         *)
(* HTTP calls may fail before or after the service has handled them, and   *)
(* a request whose caller has given up may still be handled later.  The    *)
(* service and its pods are the callbacks of TaskChanges; the history of   *)
(* tasks is kept longer than the sensor waits, as the operator requires.   *)
(***************************************************************************)
EXTENDS TaskChanges, FiniteSetsExt

CONSTANTS
    Shards,         \* number of shards, in the order of their suffixes
    RequestOf,      \* the request of a shard
    HttpAttempts,   \* three in the code
    MaxPokes,       \* bound of the model: executions until the sensor times out
    MaxFaults,      \* bound of the model: HTTP calls that fail
    Stops           \* what may stop an execution: "sigterm", "task_timeout", "sigkill"

ASSUME SensorAssumption ==
    /\ Shards \in Nat \ {0}
    /\ RequestOf \in [1 .. Shards -> Requests]
    /\ Keys = (1 .. Shards) \X (0 .. MaxPokes)
    /\ 1 .. Shards \subseteq TaskIds
    /\ HttpAttempts \in Nat \ {0}
    /\ MaxPokes \in Nat \ {0}
    /\ MaxFaults \in Nat
    /\ Stops \subseteq {"sigterm", "task_timeout", "sigkill"}

\* Both prefixes of a shard end in its number.
ASSUME ShardsAssumption == \A s, t \in 1 .. Shards : RequestOf[s] = RequestOf[t] => s = t

VARIABLES
    tasks,      \* the queue of the service
    op,         \* the process of the operator
    seen,       \* self._tasks: the last answer about each task it knows of
    pokes,      \* executions so far, up to the timeout of the sensor
    late,       \* requests whose caller does not wait for them any more
    unaborted,  \* tasks whose cancellation failed, as logged
    lost,       \* shards without a known task in this execution, as logged
    faults      \* failed HTTP calls so far

vars == <<tasks, op, seen, pokes, late, unaborted, lost, faults>>
service == <<tasks, late, faults>>
logs == <<unaborted, lost>>

NotSeen == [i \in TaskIds |-> "none"]

Init ==
    /\ tasks = [i \in TaskIds |-> NoTask]
    /\ op = [pc |-> "scheduled", shard |-> 1, tries |-> 0, failed |-> FALSE,
             todo |-> {}, after |-> "over", stops |-> Stops]
    /\ seen = NotSeen
    /\ pokes = 0
    /\ late = {}
    /\ unaborted = {}
    /\ lost = {}
    /\ faults = 0

-----------------------------------------------------------------------------
(* Requests.                                                               *)

\* Variant: a key of its own for every execution.
KeyOfPoke(s) == <<s, pokes>>

\* uuid5 of the attempt and the shard: the same in every execution.
KeyOf(s) == <<s, 0>>

PostOf(s) == [kind |-> "infer", arg |-> s]
AbortOf(i) == [kind |-> "abort", arg |-> i]

\* What the service does with a request; ids in the order of arrival.
Handled(r) ==
    IF r.kind = "abort" THEN request_abort(tasks, r.arg, 0)
    ELSE enqueue(tasks, 1 + Cardinality(Known(tasks)), KeyOf(r.arg), RequestOf[r.arg], 0)

\* A call of _http that fails: with effect, without, or with one to come.
Unanswered(r) ==
    /\ faults < MaxFaults
    /\ faults' = faults + 1
    /\ \/ UNCHANGED <<tasks, late>>
       \/ tasks' = Handled(r).tasks /\ UNCHANGED late
       \/ UNCHANGED tasks /\ late' = late \cup {r}

LateRequest(r) ==
    /\ late' = late \ {r}
    /\ tasks' = Handled(r).tasks
    /\ UNCHANGED <<op, seen, pokes, logs, faults>>

At(pc) == op.pc = pc
Retry == op' = [op EXCEPT !.tries = @ + 1]

\* Variant: one try more.
LastTryOneMore == op.tries = HttpAttempts

LastTry == op.tries = HttpAttempts - 1

-----------------------------------------------------------------------------
(* execute and poke                                                        *)

\* execute() forgets the tasks of the execution before.
Poke ==
    /\ At("scheduled")
    /\ op' = [op EXCEPT !.pc = "post", !.shard = 1, !.tries = 0, !.failed = FALSE]
    /\ seen' = NotSeen
    /\ pokes' = Min({pokes + 1, MaxPokes})
    /\ lost' = {}
    /\ UNCHANGED <<service, unaborted>>

\* Variant: poke stops at the first error.
NextShardUnlessFailed(failed) ==
    op' = [op EXCEPT !.failed = @ \/ failed, !.tries = 0, !.todo = {}, !.after = "over",
                     !.shard = IF failed \/ @ = Shards THEN 1 ELSE @ + 1,
                     !.pc = IF failed \/ op.shard = Shards THEN "decide" ELSE "post"]

\* After an error too: the ids of all shards are needed to cancel them.
NextShard(failed) ==
    op' = [op EXCEPT !.failed = @ \/ failed, !.tries = 0, !.todo = {}, !.after = "over",
                     !.shard = IF @ = Shards THEN 1 ELSE @ + 1,
                     !.pc = IF op.shard = Shards THEN "decide" ELSE "post"]

\* POST /infer raised: the shard is logged with its key.
PostRaises ==
    /\ NextShard(TRUE)
    /\ lost' = lost \cup {op.shard}
    /\ UNCHANGED <<seen, unaborted>>

\* Its error answers (404, 409, 422) are for keys that are not known yet.
Post ==
    LET request == PostOf(op.shard)
        change == Handled(request)
        i == change.result.value
    IN  /\ At("post")
        /\ \/ /\ change.result.kind = "Value"
              /\ tasks' = change.tasks
              /\ seen' = [seen EXCEPT ![i] = tasks'[i].status]
              /\ op' = [op EXCEPT !.pc = "status", !.tries = 0]
              /\ UNCHANGED <<late, faults, logs>>
           \/ SameKey(tasks, KeyOf(op.shard)) = {} /\ PostRaises /\ UNCHANGED service
           \/ Unanswered(request) /\ ~LastTry /\ Retry /\ UNCHANGED <<seen, logs>>
           \/ Unanswered(request) /\ LastTry /\ PostRaises
        /\ UNCHANGED pokes

\* The task the last POST has returned.
Current == CHOOSE i \in SameKey(tasks, KeyOf(op.shard)) : TRUE

TaskStatus ==
    /\ At("status")
    /\ \/ /\ seen' = [seen EXCEPT ![Current] = tasks[Current].status]
          /\ NextShard(tasks[Current].status \in {"FAILED", "ABORTED", "ABORTING"})
          /\ UNCHANGED service
       \/ /\ faults < MaxFaults
          /\ faults' = faults + 1
          /\ IF LastTry THEN NextShard(TRUE) ELSE Retry
          /\ UNCHANGED <<tasks, late, seen>>
    /\ UNCHANGED <<pokes, logs>>

\* _abort_remaining: what is not known to be over.
Remaining == {i \in TaskIds : seen[i] \notin Terminal \cup {"none"}}
AbortRemaining(after) == op' = [op EXCEPT !.pc = "abort", !.tries = 0,
                                          !.todo = Remaining, !.after = after]

\* Variant: a result that is being published counts.
CompleteSoon == \A i \in TaskIds : seen[i] \in {"none", "DONE", "FINALIZING"}

Complete == \A i \in TaskIds : seen[i] \in {"none", "DONE"}

\* The process ends, and its memory with it.
Reschedule == op' = [op EXCEPT !.pc = "scheduled"] /\ seen' = NotSeen

\* Variant: the sensor does not time out.
DecideAgain ==
    /\ At("decide")
    /\ \/ op.failed /\ AbortRemaining("over") /\ UNCHANGED seen
       \/ ~op.failed /\ Complete /\ op' = [op EXCEPT !.pc = "success"] /\ UNCHANGED seen
       \/ ~op.failed /\ ~Complete /\ Reschedule
    /\ UNCHANGED <<service, pokes, logs>>

\* The end of poke; then BaseSensorOperator reschedules or times out.
Decide ==
    /\ At("decide")
    /\ \/ op.failed /\ AbortRemaining("over") /\ UNCHANGED seen
       \/ ~op.failed /\ Complete /\ op' = [op EXCEPT !.pc = "success"] /\ UNCHANGED seen
       \/ /\ ~op.failed /\ ~Complete
          /\ \/ pokes < MaxPokes /\ Reschedule
             \/ AbortRemaining("over") /\ UNCHANGED seen
    /\ UNCHANGED <<service, pokes, logs>>

-----------------------------------------------------------------------------
(* _abort_remaining                                                        *)

Aborted(i, failed) ==
    /\ op' = [op EXCEPT !.todo = @ \ {i}, !.tries = 0]
    /\ unaborted' = IF failed THEN unaborted \cup {i} ELSE unaborted

\* One call; an error is logged and the next task is tried.
Abort ==
    LET i == Min(op.todo)
        change == request_abort(tasks, i, 0)
    IN  /\ At("abort")
        /\ op.todo # {}
        /\ \/ /\ tasks' = change.tasks
              /\ Aborted(i, change.result.kind # "Value")     \* 409: FINALIZING
              /\ UNCHANGED <<late, faults>>
           \/ Unanswered(AbortOf(i)) /\ LastTry /\ Aborted(i, TRUE)
           \/ Unanswered(AbortOf(i)) /\ ~LastTry /\ Retry /\ UNCHANGED unaborted
        /\ UNCHANGED <<seen, pokes, lost>>

\* Back to execute, which fails; or, after on_kill, to the poke that SIGTERM
\* has interrupted: it takes the exception of the signal handler for an error
\* of its shard and goes on with the next.
AbortEnds ==
    /\ At("abort")
    /\ op.todo = {}
    /\ \/ op.after = "over" /\ op' = [op EXCEPT !.pc = "failed"] /\ UNCHANGED lost
       \/ op.after = "post" /\ NextShard(TRUE) /\ lost' = lost \cup {op.shard}
       \/ op.after = "status" /\ NextShard(TRUE) /\ UNCHANGED lost
    /\ UNCHANGED <<service, seen, pokes, unaborted>>

-----------------------------------------------------------------------------
(* Airflow stops an execution, each way once.                              *)

Sent ==
    CASE At("post") -> {PostOf(op.shard)}
      [] At("abort") /\ op.todo # {} -> {AbortOf(Min(op.todo))}
      [] OTHER -> {}

\* A request that has been sent goes its way.
Stop(cause, stages) ==
    /\ cause \in op.stops
    /\ op.pc \in stages
    /\ late' \in {late, late \cup Sent}
    /\ UNCHANGED <<tasks, seen, pokes, logs, faults>>

StopWith(cause, after) ==
    op' = [op EXCEPT !.pc = "abort", !.tries = 0, !.todo = Remaining,
                     !.after = after, !.stops = @ \ {cause}]

\* on_kill, in the signal handler, which then raises an AirflowException.
Sigterm ==
    /\ Stop("sigterm", {"post", "status", "decide"})
    /\ StopWith("sigterm", IF At("decide") THEN "over" ELSE op.pc)

\* AirflowTaskTimeout is no Exception: it leaves poke at once, and
\* _abort_remaining too.
AirflowTaskTimeout ==
    /\ Stop("task_timeout", {"post", "status", "decide", "abort"})
    /\ IF At("abort") /\ op.after = "over"
       THEN op' = [op EXCEPT !.pc = "failed", !.stops = @ \ {"task_timeout"}]
       ELSE StopWith("task_timeout", "over")

Sigkill ==
    /\ Stop("sigkill", {"post", "status", "decide", "abort"})
    /\ op' = [op EXCEPT !.pc = "killed"]

-----------------------------------------------------------------------------
(* The pods.                                                               *)

Pod(o) ==
    /\ \/ tasks' = claim_next(tasks, o, Models, 0).tasks
       \/ \E i \in OwnedActive(tasks, o) :
             \/ tasks' = prepare_completion(tasks, i, o, 0, 0).tasks
             \/ /\ tasks[i].status = "FINALIZING"
                /\ tasks' = set_status(tasks, i, o, "DONE", "none", 0).tasks
             \/ tasks' = set_status(tasks, i, o, "FAILED", "failure", 0).tasks
             \/ /\ tasks[i].status = "ABORTING"
                /\ tasks' = set_status(tasks, i, o, "ABORTED", "none", 0).tasks
    /\ UNCHANGED <<op, seen, pokes, late, logs, faults>>

Operator == Poke \/ Post \/ TaskStatus \/ Decide \/ Abort \/ AbortEnds

Next ==
    \/ Operator
    \/ Sigterm \/ AirflowTaskTimeout \/ Sigkill
    \/ \E r \in late : LateRequest(r)
    \/ \E o \in Owners : Pod(o)

Spec == Init /\ [][Next]_vars

\* Airflow runs the process it has started and starts it again after the
\* interval.  Nothing is assumed of the service or of its pods.
FairSpec == Spec /\ WF_vars(Operator)

-----------------------------------------------------------------------------
TypeOK ==
    /\ tasks \in [TaskIds -> TaskState \cup {NoTask}]
    /\ op \in [pc : {"scheduled", "post", "status", "decide", "abort",
                     "success", "failed", "killed"},
               shard : 1 .. Shards, tries : 0 .. HttpAttempts - 1, failed : BOOLEAN,
               todo : SUBSET TaskIds, after : {"over", "post", "status"}, stops : SUBSET Stops]
    /\ seen \in [TaskIds -> Status \cup {"none"}]
    /\ pokes \in 0 .. MaxPokes
    /\ late \subseteq {PostOf(s) : s \in 1 .. Shards} \cup {AbortOf(i) : i \in TaskIds}
    /\ unaborted \subseteq TaskIds
    /\ lost \subseteq 1 .. Shards
    /\ faults \in 0 .. MaxFaults

\* The operator succeeds only when every shard has a task of this attempt that
\* is DONE, although it has looked at them one after the other.
SuccessIsComplete ==
    At("success") =>
        \A s \in 1 .. Shards : \E i \in Known(tasks) :
            tasks[i].key = KeyOf(s) /\ tasks[i].status = "DONE"

\* Reschedules, retried calls and requests handled late start no shard twice.
OneTaskPerShard ==
    \A i, j \in Known(tasks) : tasks[i].request = tasks[j].request => i = j

\* When the operator has failed, each task of the attempt is over or told to
\* stop; the log names every exception: a task whose cancellation failed, and
\* a shard whose POST was not answered, whenever it is handled.  Not claimed
\* of an execution that AirflowTaskTimeout has cut short.
NoSilentOrphan ==
    At("failed") =>
        \/ "task_timeout" \in Stops \ op.stops
        \/ \A i \in Pending(tasks) :
              \/ tasks[i].status = "ABORTING"
              \/ i \in unaborted
              \/ tasks[i].key[1] \in lost

\* The sensor ends, though the pods may never take its tasks and its calls
\* may fail.
SensorEnds == <>(op.pc \in {"success", "failed", "killed"})

=============================================================================
