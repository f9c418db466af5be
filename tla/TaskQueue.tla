----------------------------- MODULE TaskQueue -----------------------------
(***************************************************************************)
(* TaskStore (app/tasks/state.py) over a backend whose mutate is atomic:   *)
(* the contract of app/tasks/backends/base.py.  Any number of processes    *)
(* (API handlers, workers, heartbeat threads, readiness probes) call the   *)
(* operations in any order; each operation is one step, made by the clock  *)
(* of the pod it runs in.                                                  *)
(***************************************************************************)
EXTENDS TaskChanges

CONSTANTS
    ModelsOf,     \* the models a process has loaded from its configuration
    Retention,    \* retention_months, in ticks of the clock
    Skew,         \* how far the clock of a pod is from the true time, at most
    MaxClock      \* bound of the model: time stops here

ASSUME ModelsOfAssumption == ModelsOf \in [Owners -> SUBSET Models]
ASSUME ClockAssumption ==
    /\ Retention \in Nat /\ Skew \in Nat
    /\ MaxClock \in Nat /\ MaxClock > Skew

VARIABLES
    tasks,        \* the stored records
    issued,       \* ids handed out so far: uuid4 does not repeat
    clock,        \* the true time
    born,         \* history: the true time when each record was made
    renewed       \* history: the true time when last_modified last changed

vars == <<tasks, issued, clock, born, renewed>>

Init ==
    /\ tasks = [i \in TaskIds |-> NoTask]
    /\ issued = {}
    /\ clock = Skew + 1
    /\ born = [i \in TaskIds |-> 0]
    /\ renewed = [i \in TaskIds |-> 0]

\* What time.time() may answer in one of the pods.
Readings == clock - Skew .. clock + Skew

\* The histories follow from what a call writes.
Remembered ==
    /\ born' = [i \in TaskIds |->
                  IF tasks'[i] = NoTask THEN 0
                  ELSE IF tasks[i] = NoTask THEN clock ELSE born[i]]
    /\ renewed' = [i \in TaskIds |->
                     IF tasks'[i] = NoTask THEN 0
                     ELSE IF tasks[i] = NoTask \/ tasks'[i].last_modified # tasks[i].last_modified
                     THEN clock ELSE renewed[i]]

Apply(change) ==
    /\ tasks' = change.tasks
    /\ Remembered
    /\ UNCHANGED <<issued, clock>>

-----------------------------------------------------------------------------
(* Calls of the API.                                                       *)

Enqueue(key, request) ==
    \E id \in TaskIds \ issued, now \in Readings :
        /\ tasks' = enqueue(tasks, id, key, request, now).tasks
        /\ issued' = issued \cup (Known(tasks') \ Known(tasks))
        /\ Remembered
        /\ UNCHANGED clock

RequestAbort(id) == \E now \in Readings : Apply(request_abort(tasks, id, now))

-----------------------------------------------------------------------------
(* Calls of a worker and of its heartbeat thread.  A worker asks for       *)
(* ABORTED only after cancellation_requested has answered TRUE.            *)

ClaimNext(o) == \E now \in Readings : Apply(claim_next(tasks, o, ModelsOf[o], now))

Heartbeat(o, id) == \E now \in Readings : Apply(heartbeat(tasks, id, o, now))

SetTotalRows(o, id) ==
    \E now \in Readings, rows \in 0 .. MaxRows :
        Apply(set_total_rows(tasks, id, o, rows, now))

UpdateProgress(o, id) ==
    \E now \in Readings, rows \in 0 .. MaxRows :
        Apply(update_progress(tasks, id, o, rows, now))

PrepareCompletion(o, id) ==
    \E now \in Readings, rows \in 0 .. MaxRows :
        Apply(prepare_completion(tasks, id, o, rows, now))

CancelSeen(id) == tasks[id] # NoTask /\ tasks[id].status \in {"ABORTING"} \cup Terminal

Finish(o, id) == \E now \in Readings : Apply(set_status(tasks, id, o, "DONE", "none", now))

Fail(o, id) == \E now \in Readings : Apply(set_status(tasks, id, o, "FAILED", "failure", now))

Abort(o, id) ==
    /\ CancelSeen(id)
    /\ \E now \in Readings : Apply(set_status(tasks, id, o, "ABORTED", "none", now))

-----------------------------------------------------------------------------
(* Readiness maintenance, from any process, and time.                      *)

FailStale == \E now \in Readings : Apply(fail_stale(tasks, now))

Cleanup == \E now \in Readings : Apply(clean(tasks, now - Retention))

Tick ==
    /\ clock < MaxClock
    /\ clock' = clock + 1
    /\ UNCHANGED <<tasks, issued, born, renewed>>

Next ==
    \/ \E key \in Keys, request \in Requests : Enqueue(key, request)
    \/ \E id \in TaskIds : RequestAbort(id)
    \/ \E o \in Owners : ClaimNext(o)
    \/ \E o \in Owners, id \in TaskIds :
          \/ Heartbeat(o, id)
          \/ SetTotalRows(o, id)
          \/ UpdateProgress(o, id)
          \/ PrepareCompletion(o, id)
          \/ Finish(o, id)
          \/ Fail(o, id)
          \/ Abort(o, id)
    \/ FailStale
    \/ Cleanup
    \/ Tick

Spec == Init /\ [][Next]_vars

-----------------------------------------------------------------------------
(* Types.  Only a task that a worker has taken has an owner, only a final  *)
(* one an end.                                                             *)

TypeOK ==
    /\ tasks \in [TaskIds -> TaskState \cup {NoTask}]
    /\ issued \subseteq TaskIds
    /\ Known(tasks) \subseteq issued
    /\ clock \in Skew + 1 .. MaxClock
    /\ born \in [TaskIds -> Int] /\ renewed \in [TaskIds -> Int]

-----------------------------------------------------------------------------
(* Safety.                                                                 *)

\* No two tasks that may still write have overlapping output prefixes.
DisjointOutputs ==
    \A i, j \in Pending(tasks) :
        i # j => ~prefixes_overlap(tasks[i].request.output, tasks[j].request.output)

\* The queue never holds more unfinished tasks than max_pending_tasks.
PendingBound == Cardinality(Pending(tasks)) <= MaxPending

\* An idempotency key names one task, so a repeated POST finds the first one.
UniqueKeys ==
    \A i, j \in Known(tasks) : tasks[i].key = tasks[j].key => i = j

\* What enqueue checks in the mutate that inserts stays true however it is
\* interleaved with claims, expiry, aborts and retention: no later transition
\* brings a finished task back to share a prefix or to exceed the limit.
Admission == DisjointOutputs /\ PendingBound /\ UniqueKeys

\* A process never holds two running tasks: a claim whose answer was lost is
\* given back by the next claim instead of a second task.
OneActivePerOwner ==
    \A i, j \in Known(tasks) :
        /\ tasks[i].status \in Active
        /\ tasks[j].status \in Active
        /\ tasks[i].owner = tasks[j].owner
        => i = j

\* The cancel flag is the status ABORTING seen from the worker: a publication
\* (FINALIZING) never carries an unanswered cancellation.
CancelFlagAgrees ==
    \A i \in Known(tasks) :
        tasks[i].cancel_requested <=> tasks[i].status = "ABORTING"

\* A finished record is never written again; only retention removes it, and
\* only once its end is old enough by the clock of some pod.
TerminalIsFinal ==
    [][\A i \in Known(tasks) : tasks[i].status \in Terminal =>
          \/ tasks'[i] = tasks[i]
          \/ tasks'[i] = NoTask /\ tasks[i].finished_at < clock + Skew - Retention]_vars

\* An executor that is silent for longer than the timeout, and twice the skew
\* because two clocks are compared, cannot come back: whatever call arrives in
\* whatever pod, its last_modified is not refreshed, it makes no progress
\* towards DONE, and the next owner call fails it by timeout.
NoRevival ==
    [][\A i \in Known(tasks) :
          tasks[i].status \in Active /\ clock - renewed[i] >= TaskTimeout + 2 * Skew =>
          \/ /\ tasks'[i].status = "FAILED"
             /\ tasks'[i].error = "task_timeout"
          \/ tasks'[i] = tasks[i]
          \/ tasks'[i] = [tasks[i] EXCEPT !.status = "ABORTING", !.cancel_requested = TRUE]]_vars

\* An executor whose last sign of life is younger than the timeout less twice
\* the skew does not lose its task to a timeout, whichever pod looks at it: an
\* interval of heartbeats below that margin keeps a task for ever.
LiveNotFailed ==
    [][\A i \in Known(tasks) :
          /\ tasks[i].status \in Active
          /\ tasks'[i].status = "FAILED" /\ tasks'[i].error = "task_timeout"
          => clock - renewed[i] >= TaskTimeout - 2 * Skew]_vars

\* A request to abort neither confirms that the executor is alive nor is lost:
\* once accepted, the task ends ABORTED or FAILED and is never published.
CancelNotLost ==
    [][\A i \in Known(tasks) : tasks[i].status = "ABORTING" =>
          /\ tasks'[i] # NoTask
          /\ tasks'[i].status \in {"ABORTING", "ABORTED", "FAILED"}]_vars

\* A claim takes the oldest task its process can run, as far as the clocks of
\* the pods that accepted them can tell: a task is overtaken only by older
\* ones, by ones younger by less than twice the skew, or for want of its model.
OldestFirst ==
    [][\A i \in Known(tasks), j \in Known(tasks) :
          /\ tasks[i].status = "QUEUED"
          /\ tasks'[i].status = "RUNNING"
          /\ tasks[j].status = "QUEUED"
          /\ born[j] + 2 * Skew < born[i]
          => tasks[j].request.model \notin ModelsOf[tasks'[i].owner]]_vars

-----------------------------------------------------------------------------
(* What a client sees of the queue: the life cycle of each task.           *)

Phase == [i \in TaskIds |->
            IF tasks[i] # NoTask THEN tasks[i].status
            ELSE IF i \in issued THEN "removed" ELSE "new"]

Lifecycle == INSTANCE TaskLifecycle WITH phase <- Phase

\* Every operation, whatever its caller, moves tasks along the documented life
\* cycle only (docs/diagrams/05-task-states.mmd).
FollowsLifecycle == Lifecycle!Spec

=============================================================================
