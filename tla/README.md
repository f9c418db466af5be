# Verification of the FMCD inference service

TLA+ models of the service in `src/`, checked with TLC and, in part, proved with TLAPS.

The service runs neural-network inference over parquet files. Clients (Airflow) post a request for an
input and an output prefix in S3; the request becomes a *task* in a queue that all pods share, kept in one
S3 object or in one PostgreSQL table. Each pod has an HTTP API, one consumer thread that claims a task at a
time and runs it on its GPU, and, while a task runs, a heartbeat thread. There is no scheduler, no lock service
and no background monitor: pods cooperate only through atomic changes of the queue, and a task whose pod
has gone is ended by the readiness probe of another pod. What the models are about is whether this works
when calls fail, answers are lost, requests arrive late, pods are stopped or killed, and clients retry.

## Inventory

| Part | Source | State | Operations | What is hard |
|---|---|---|---|---|
| Task queue | `app/tasks/state.py`, `types.py` | the task records | enqueue, request_abort, claim_next, heartbeat, set_total_rows, update_progress, prepare_completion, set_status, fail_stale, cleanup | every check is made for other callers too: overlapping outputs, full queue, repeated keys; late calls of an owner that has timed out; cancellation against publication |
| Worker | `app/tasks/worker.py`, `app/storage/s3_client.py`, `app/core/shutdown.py` | slot of the process, stop event, chunks done, output prefix, `_SUCCESS` | consume_queue, run_task, _save_status, _keep_heartbeat, the writer | three threads and a signal; lost answers of claim and of the final status; write after a check; publication in several steps |
| Backend contract | `app/tasks/backends/base.py` | - | mutate | what a caller may rely on when mutate raises |
| S3 backend | `app/tasks/backends/s3.py` | one JSON object with a revision | initialize, mutate, cleanup | conditional PUT, retries, requests that land after their caller has gone |
| PostgreSQL backend and migration | `app/tasks/backends/postgres.py`, `migrations/`, `scripts/migrate_task_store.py` | the table, a pool of two connections per process | migrate, initialize, mutate, close | lost COMMIT answers, partial snapshot, table lock, a process that starts before the table is there |
| Data of a run | `app/tasks/worker.py`, `app/storage/s3_client.py`, `app/models/inference.py`, `contracts.py` | chunk, batches, parts, `_SUCCESS`, loaded bundle | validate, count, read, infer, write_chunk, close | input that changes under the worker, pipelines that break their contract, PUTs of unknown outcome, memory of the GPU between two tasks |
| HTTP API | `app/api/*`, `app/main.py` | - | POST /infer, GET status, POST abort, GET active | retried and late requests |
| Process lifecycle | `app/main.py`, `app/core/shutdown.py` | stop event, consumer thread, maintenance lock | lifespan, liveness, readiness (check_queue) | order of start and stop; maintenance by probes |
| Airflow inference operator | `airflow_operators/gpu_model_inference_operator.py` | `_tasks`, lost at every reschedule | execute, poke, _abort_remaining, on_kill | retries, reschedules, partial failure, signals in the middle of a poke |
| Hadoop to S3 operator and script | `airflow_operators/hadoop_to_s3_operator.py`, `scripts/hadoop_to_s3_script.py` | parquet, a CSV of load metadata | run, append_csv_boto, append_csv_spark | read-modify-write of the CSV, crash between delete and rename |
| Utilization statistics | `app/tasks/utilization.py` | sampler thread, NVML session, two heaps of a median | start, sample, add, snapshot, stop | stop during a reading; unusable readings; exactness of an incremental median |
| Model pipelines, row-group check, configuration, logging, helm | `app/models/backends/*`, `app/storage/row_group_check.py`, `app/core/*`, `deploy/*` | - | - | numeric or formatting code, no shared state |

What makes each part correct: the queue admits only what cannot collide and follows its life cycle; the worker
runs a task once, writes nothing but a bounded remainder after it should have stopped, publishes completely or
not at all, and frees its slot; the backends give callers the contract of `mutate`; the operator starts a
shard once, succeeds only over complete results, and leaves no task running that its log does not name.
A run publishes exactly the rows it has read, and leaves nothing of a task to the next one.
The hazards are listed line by line in `PROJECT.json`.

## Modules

```
TaskLifecycle (abstract)                    AtomicStore (abstract)
      ^ implements                            ^ implements   ^ implements
TaskQueue --- TaskQueueProofs           S3Backend --- S3BackendProofs
      |            |                          PgBackend
      | extends    v                               ^
TaskChanges --- TaskChangesProofs          PgTaskStore --- PgBackendProofs
  ^      ^            ^
  |    Worker --- WorkerProofs                (composes the callbacks with processes)
AirflowSensor --- AirflowSensorProofs         (composes them with the operator)

Service --\                      (one process around the consumer of Worker: start, stop, probes)
           ProcessProofs
TaskRun --/                      (the data of the runs of one process) -- extends Utilization
HadoopLoad --- HadoopLoadProofs  (the other operator: it shares no state with the queue)
```

**TaskChanges** is the record of a task and every callback that `TaskStore` passes to `mutate`, as an operator
from a snapshot (and the clock of the caller) to the new snapshot and the result. It has no variables: the other
modules decide when a callback runs and what becomes of its effect. A prefix is a sequence of segments; model
names, keys and owners are model values; `pod_id`, `started_at` and the elapsed time are left out, `error` is the
cause the properties tell apart. The order of ids stands for the order of uuid strings.

**TaskQueue** applies the callbacks one at a time, from any process. The true time ticks; a call reads the clock of
its pod, which is up to `Skew` ahead of it or behind it, at every call anew. `created_at`, `last_modified` and
`finished_at` are such readings, and the timeout compares the reading of one pod with that of another, as
`state.py` does. The histories `born` and `renewed` keep the true time of what the readings record. All of the API,
the workers, the heartbeats and readiness may make any call at any time; the only discipline assumed is that
ABORTED is asked for after `cancellation_requested` was seen, as `run_task` does. `enqueue` takes a fresh id.

**TaskLifecycle** is the documented state diagram (`docs/diagrams/05-task-states.mmd`) of each task.

**Worker** is `consume_queue`, `run_task` and `_keep_heartbeat` in several processes: a program counter for each
consumer thread, with one step for every stretch of code between two accesses to shared state; the heartbeat of
each run; the stop event; the output prefix, as the attempt that wrote each object; and a store whose calls
may be answered, or fail with or without effect. Time is relative (a tick ages the records), so the state space
is finite without a bound on time. The batches of a chunk are one step that may succeed, raise, or be
interrupted by any of its checks. History variables count how often inference was started (`runs`), which attempts
put `_SUCCESS` (`marked`) and the writes made after a task was over (`late`).

**AtomicStore** is the contract of `mutate`: a call takes effect as a whole between its start and its return; it
may do so more than once while it goes on; a call that raises may have had its effect, or have it later, as long as
nothing else has been written.

**S3Backend** is `initialize` and `mutate` as GET, callback, conditional PUT, pause and retry. A PUT is a request of
its own that S3 may store, refuse or lose at any time after it was sent, whether or not its caller still waits.
The ETag is a digest of the body, so the body (with its revision) stands for it. Each call of `mutate` is an element
of `Calls`, its callback a parameter; that the callback reads the clock anew on every attempt is not modelled.

**PgBackend** is `initialize`, `mutate` and `close` over a table, with the client and its session on the server as two
sides that fail separately: pool of each process, `LOCK TABLE`, the partial SELECT, the partial write, the unique
constraints, COMMIT. The migration makes the table in one transaction, at any time; processes that start earlier find
no table and stop. SELECT, callback and writes are one step: they happen under the lock. Rows and callbacks are parameters.

**PgTaskStore** extends it and TaskChanges and says what the parameters are for `TaskStore`: each call of `mutate` comes
from a method with its arguments (`CallOf`), passes the id or the key that the method passes, and hands over its
callback. `OnTaskStore` states this of the parameters; `PgContract.cfg` gives them these values.

**TaskRun** is `run_task` seen from the data: the listing that the reader opens, chunks that do not span files, batches,
the answer of a pipeline (any combination of missing rows, other order, changed input, other columns and other types)
and the checks it must pass, `ParquetPrefixWriter` with its schema of the first part, the marker, and the `finally`
that closes the bundle and joins the sampler. A file is a sequence of rows, a row a number; the record of the task is
one word (`go`, `cancel`, `final`, `over`), since how it gets there is the matter of Worker. Between two runs Airflow
clears the output prefix, or does not. Every step of the run may raise.

**Utilization** is `RunningStatistics` of one resource, heaps as bags, and the sampler thread: NVML session, wait, reading,
addition, stop event. TaskRun starts, stops and joins it. An unusable reading (`None`, NaN, infinite, negative) is
one value; readings are natural numbers.

**AirflowSensor** is one attempt of the operator over the callbacks of the queue: execution after execution, shard
after shard, up to `HttpAttempts` tries of a call; a failed call has had its effect, has none, or will have it
later. Airflow may stop a process by SIGTERM (`on_kill`, then an exception which the poke takes for an error of the
current shard), by `AirflowTaskTimeout` (which leaves the poke at once) or by SIGKILL.

**Service** is one process: `lifespan` step by step, each of which may raise; who receives SIGTERM; the consumer
thread reduced to its loop, with the heartbeat thread of each task, which `run_task` gives one second to end and then
leaves behind; and the pool threads that answer readiness and the API, with the maintenance lock and the date of the
next cleanup. Uvicorn is external: told to exit it waits for the requests under way and then lets `lifespan` go on;
told so before it serves, it leaves at once, without the `finally` of `lifespan`. What the calls do to the queue is
the matter of TaskQueue and Worker.

**HadoopLoad** is `HadoopToS3Operator` with its Spark driver. An execution runs the data job and, for metadata, a second
job that runs the query again; the steps are the accesses to Hive and S3, each of which may raise with part or all of
its effect, and the process may die between any two. Parquet files are known by the attempt that wrote them, a row of
the CSV by the attempt that added it; columns and values are left out. Spark's save modes and its committer
are external. The source table may change at any time. Loads follow one another: `docs/hadoop-to-s3-operator.md`
excludes parallel updates of one CSV.

The operators marked `Variant:` are mistakes one could make in the code; no specification uses them. Each
stands before the definition it is a variant of, and its effect on a run is recorded in `PROJECT.json`.

## Runs

| Run | Instance | Shows |
|---|---|---|
| queue | 3 ids, 2 keys, requests of which one nests in another, queue of 2, a process with one of two models, timeout 1, clock to 2 | types; what enqueue checks stays true: outputs of unfinished tasks are disjoint, the queue is bounded, keys are unique; one running task per process; oldest first; the life cycle is implemented; final is final; no publication after a cancellation |
| queue_clocks | 1 task, 2 processes, timeout 3, clocks up to one tick ahead or behind, 6 ticks | no revival after timeout + 2 skew; no failure by timeout before timeout - 2 skew |
| worker_run | 1 task of 2 chunks, 2 processes (one may be stopped or killed), 2 failed calls | inference starts once and at most one write comes late (`Restrained`); DONE only over complete results, which are then kept (`PublicationHolds`); every run ends |
| worker_retry | 2 attempts at one prefix, 2 processes, 1 failed call | the prefix of a DONE task holds only its own objects, unless an earlier attempt had timed out |
| worker_serves | 2 attempts, 1 process that stays alive, 2 failed calls | the next task is served, after every end of a run |
| s3_contract | 2 concurrent initializes and 2 calls, 2 attempts each | the loop implements AtomicStore, in which no start resets a queue; no late effect of a call that returned |
| pg_contract | a migration and 5 calls of 2 processes, pools of 2, 1 call that raises | transactions implement AtomicStore; the partial snapshot suffices |
| sensor_run | 2 shards, 2 executions, 2 failed calls, each way to stop once, pods that may do nothing | success only over complete results; no shard twice; no task left that the log does not name; the operator ends without help from the pods |
| service_run | 2 concurrent requests, 2 tasks, 2 exceptions anywhere | the store is closed after its last user, also when the start fails; a process told to stop does; retention that is due is done |
| service_signal | as service_run, without exceptions | *violation*: a signal during the start is not seen by the consumer |
| hadoop_load | every combination of arguments, 3 executions, 2 files per result | no row of metadata is lost for good, one row per execution, none without its data (`MetadataIntact`); success only over complete data; old data are cleared only for new ones |
| task_run | 2 runs, 3 input files (one of two chunks, one of a row, one empty), one change of the input, a signal, cancellation, errors anywhere | the prefix holds the rows of the input in order and once, `_SUCCESS` stands over all of them; nothing of a task is left to the next; medians are exact; a run ends |

**Bounds.** Two tasks are enough to collide, three to overtake or to fill a queue of two. Two processes are enough for
a lost owner and its successor; two chunks for a write before and after a check. `MaxFaults` bounds failed calls,
`MaxAttempts` the retries within `cas_timeout_sec`, `MaxClock` time in TaskQueue (in `queue` a timeout and a
retention, in `queue_clocks` a timeout, twice the skew on both sides and a report in between), `MaxPokes` the executions before the timeout of the sensor; the code makes three HTTP attempts, the runs two,
which already has a first, a last and a late one. `MaxTasks` of Service leaves a heartbeat of one task behind while the
next one runs. Three executions of HadoopLoad are a load, a failed one and its retry (or the next load); two files
are enough for a result that is written in part. In `task_run` a chunk of 3 rows and batches of 2 give a full
batch, a part of one, and a chunk shorter than its file; statistics are compared with their definition for every
sequence of up to 6 readings out of four, which fills both heaps; `MaxParts` leaves room for the parts of any input
(`PartsAssumption`), and one more. `MaxFailures` of PgBackend bounds the calls that
raise; sessions fail without bound. Rows are bounded by `MaxRows`; the queue never computes
with them.

**Symmetry** is used for values only compared for equality (keys, processes, starting calls), in runs without liveness.
`worker_retry` leaves the history variables out of the state (`VIEW`), as nothing in it reads them.

**Deadlock** is not checked where the modelled actors really stop: calls that are made once (S3Backend, PgBackend),
an operator that has ended or has used its executions, a process that has stopped or has made its runs, and TaskQueue at the end of its clock.

**Fairness.** Worker: consumer and heartbeat threads that can run do run, time passes, and readiness of a live process
is polled: Kubernetes does so, and the code relies on it (`main.py`, docstring of `readiness`: outside of Kubernetes it
has to be polled). Failures are finite in number, so a retried call is answered in the end. Nothing is
assumed of processes that are stopped or killed, and `QueueServed` needs a `Reliable` process.
Service: every thread that can run does, so a task ends (it tests the stop event between batches) and each request is
answered; Kubernetes goes on with its probes, which may find the process not ready again and again and are served
in the end (strong fairness). Nothing is assumed of signals, of clients or of the clock.
TaskRun: the consumer and the sampler run when they can, and a reading returns; nothing is assumed of the signal, of
cancellation or of the input. `thread.join()` has no timeout (`utilization.py`), so a reading that hangs would keep
the consumer: psutil and NVML are taken to answer.
AirflowSensor: Airflow runs what it has started and starts it again; nothing is assumed of the pods.

## What is proved

`TaskChangesProofs` holds what the other proofs need to know of the callbacks, for any snapshot and any caller: the
relation `Moves` between a record before and after a call, and the relation `Selects` between the queue and the part of
it that a backend reads. It has no variables and no theorem of its own.

`TaskQueueProofs`, from the assumptions on the constants (limits are natural numbers, `NoTask` is no record, ...) and
for any numbers of ids, processes, requests, any timeout and any skew. The inductive invariant `IInv` adds to the safety
properties that only a queued task is unowned, that ends are recorded, that issued ids are finite in number, and that
every time in a record is within `Skew` of the true time its history remembers (`TimesTrue`). The argument: what one
call may do to one record is a relation `Moves` (types, key, request, allowed edge of the life cycle, final records
unchanged, nothing but an expiry or an ABORTING mark after a timeout); each callback is shown to move records only
along `Moves`; and `Moves` keeps the invariant. Calls that do more (enqueue, claim, retention) have lemmas of their
own: enqueue is the only one that can make two outputs collide or the queue grow, claim the only one that gives a
process a task. From the invariant follow type correctness, `Admission` (`DisjointOutputs`, `PendingBound`,
`UniqueKeys`), `OneActivePerOwner`, `CancelFlagAgrees`, and the action properties `TerminalIsFinal`, `CancelNotLost`,
`OldestFirst`, `NoRevival` and `LiveNotFailed`. The last three carry the skew: two clocks differ by at most `2 * Skew`,
so a silent executor is out for good after the timeout and that margin, an executor that reports more often than the
timeout less that margin keeps its task, and tasks posted further apart than the margin are claimed in order.

`S3BackendProofs`, for any calls, callbacks, contents and number of attempts: types, `NoLateEffect`, `NeverReset`, and
that the loop **implements** AtomicStore. The invariant says that a request under way has a body of the next revision
after the one it matches, was made from what it matches, and, when its call has returned, matches nothing any more;
revisions only grow, so a request that has once missed never matches again. For the refinement each step is mapped:
a PUT that lands before its answer is lost is `Apply`, one that is answered is `Return`, one whose caller has raised is
`Late`, and the calls that raised with an outdated request are `over`.

`TaskQueueProofs` also shows that TaskQueue **implements** TaskLifecycle. A move of one record is an arrow of the diagram by the
relation `Edge` inside `Moves`; `fail_stale` and retention take one arrow for a set of tasks; enqueue and claim are the
arrows out of `new` and `QUEUED`.

`PgBackendProofs`, for any rows and callbacks that make rows of rows (`CallbacksKeepRows`) and any number of calls,
processes, connections and migrations: types with the limit of the pool, and that the transactions **implement**
AtomicStore, provided `SnapshotSuffices` holds all the time. The invariant says that one session at a time is past
`LOCK TABLE`, that what it has read is still what the table says, and that sessions exist only over a table that
does. COMMIT with its answer is `Return`, without it `Apply`; an error of a caller whose COMMIT is on the server is
`Raise`, and that COMMIT is then `Late`.

Both hypotheses hold for the callbacks of `TaskStore`, whatever calls are made (`OnTaskStore`). Each of them, given a
snapshot that holds the unfinished rows, that of its id and that of its key, decides what it would on the whole table
(`Selects` and `Amounts` of TaskChangesProofs). Only enqueue asks for more, that the table has no row of another key
under its new id. That is the invariant `IdsNamed`: a call removes no row (so the `ValueError` of `mutate` for removed
rows cannot arise), never changes a key, and adds no row but an enqueue its own (`AllStay`), and each enqueue has an id
of its own (`NewIds`, uuid4). Hence `RowsSuffice`, which is `SnapshotSuffices`, and `QueueOnPostgres`, the refinement without
hypotheses about callbacks. `SelectedRowsSuffice` of TaskQueueProofs says the same of the other side: in every
reachable state of TaskQueue, with its clocks and its retention, the selected rows suffice.

`WorkerProofs`, for any number of tasks, processes, chunks and failed calls, any timeout and any times of signals and
crashes: types, `Restrained`, `PublicationHolds` and `CleanOutput`. None of the three is inductive. The invariant has
one part for each task and one for each process. `RunOf` and `RecordOf` tie the record of a task to its histories: a
queued task never ran, an active one that runs is in the slot of its owner, a marked one is being published, DONE, or
given up by timeout. `StageOf` ties the stage of a process to the record it works on: before the decision of
`prepare_completion` the record is RUNNING, ABORTING or given up; between the decision and the marker FINALIZING or
given up; at the end the status to be saved is DONE exactly over a marker; and a write that came too late has been made
only on the way to the next check, which is why there is one at most. Steps of others (heartbeat, abort, readiness,
time) can only let a record `Drift`: refresh it, mark it ABORTING, or give it up. The store's calls are described by
what they make of one record, and an unanswered call has its effect or none. For `CleanOutput` a second invariant
(`CleanInv`) is added: attempts at a prefix follow one another, so another writer beside the one that counts is an
attempt that was given up, and parts written by a run that has not ended are still there when the marker is put.

`ProcessProofs` has two parts, since Service and TaskRun are two views of one process. The first is about Service, for
any number of requests, tasks and exceptions: types, and that the store is closed after its last
user (`ClosedAfterUse`). The invariant follows the order of `lifespan`: no consumer before the store is initialised,
requests only while Uvicorn serves or drains, the store closed only after both have ended. A heartbeat left behind
by an earlier task is the one user that order does not cover; the invariant says that such a heartbeat is in its last
call, since only the heartbeat of the consumer's present task is ever about to make another.

`HadoopLoadProofs`, for any number of executions and files and every combination of arguments: types,
`MetadataIntact` (no row lost for good, one row per execution, none without its data), `SuccessIsComplete` and
`DataKept`. They rest on one assumption, that "no file" is not a sequence of rows (`FileAssumption`). The invariant
says what the read-modify-write of the CSV stands on: a row is published at one path only and never before its
execution publishes it (`Catalogue`, `Fresh`), and what has been merged holds the whole of the present CSV, and is
tidied away only when the CSV holds it (`Merged`). `Execute` excludes parallel loads, so nobody else writes between
the read and the replacement. The rest ties the position of an execution to what its first job has left (`DataJob`) and
why the second may write (`MetaJob`).

The second part of `ProcessProofs` is about TaskRun, for any input, sizes and number of runs. `TasksDoNotOverlap`: only
the run of the consumer holds a bundle, one that could not be closed has stopped the process before the next claim, and
a thread that measures, with its session of NVML, lives between the start of a run and the join in its `finally`.

`PartsFollowInput` and `MarkedIsComplete`, with the types of a run, rest on the invariant `DataInv`. It says that the rows
written, the chunk in hand and the chunks still to be read are, in this order, the rows of the listing that was opened;
that what a run has inferred of its chunk is a beginning of the chunk; that `processed` counts what is written; and
that the parts are the run's own, numbered without gaps, of the schema it remembers. So a run that finds no more chunks and
has processed as many rows as it had counted has written all of them. The lemmas below it say what the operators of the
model compute: that a listing of a finite set of files exists, that the chunks of a file make up the file (`Quotient` does
the rounding), that `FlattenSeq` of a longer sequence of parts is the concatenation with the new part.

`StatisticsExact` has a second invariant, `HeapInv`: both heaps hold usable readings, nothing in `lower` is above anything
in `upper`, and `lower` is as long as `upper` or longer by one. `RunningStatistics.add` keeps it. For a sequence of
readings `Told` relates the heaps to the definition: for every bound, as many elements of both heaps are at most that
bound as there are usable readings at most that bound. As the heaps are halves, the top of `lower` and the bottom of
`upper` are then the ranks that the definition of the median asks for. Each `add` raises both counts alike
(`Gains`), so `Told` holds for every sequence. These are inductions over data: no induction theorem of the library can be
used here, since they take an operator as parameter, but the lemma `AllNat` states induction for a *set* of
numbers, by the least counterexample, and the proofs give it the set of lengths for which the statement holds.

`AirflowSensorProofs`, for any number of shards, pods, executions, tries, failed calls and late requests, and all ways
to stop an execution: types, `OneTaskPerShard`, `SuccessIsComplete` and `NoSilentOrphan`. They rest on one assumption
beside the bounds, that shards differ in their prefixes (`ShardsAssumption`; `_requests` ends both in the number of
the shard). The argument takes the service and the operator apart. The queue only goes on, whoever calls (`GoesOn`): tasks
keep their keys, what is over stays over, what is told to stop stays so, and a new task is the first of its shard. What
the operator knows (`Memory`) survives all of that: a task it has seen over is over, each shard it has passed in this
execution has a task it has seen or is in the log (`InTurn`), and while it cancels for good every unfinished task is
told to stop, logged, still to be cancelled, or of a shard in the log (`Accounted`). So a request that is handled late
can only make a task for a shard the log names. The identifiers come from a count: with a task for every other shard at
most, one is left.

Only model-checked: all liveness, which is out of the prover's reach, and with it that the runs end. Of the
invariants that the runs check none is left to TLC alone.

## Disagreements with the documentation

`README.md:138-139` of the service says that SIGTERM sets the stop event at once and that the pod takes no new tasks.
This does not hold for a signal that comes while the process starts, before `install_shutdown_handlers`
(`app/main.py:70`): Uvicorn keeps it and leaves after the start, and the consumer, which was started in the
meantime and never told, may claim a task that dies with the process (run service_signal).

Two narrower points are part of Worker and end well there. A claim already due when the signal comes is still
made, since the loop tests the event at its head only; the task ends FAILED with `pod_shutdown`. And a failed read of
the cancellation flag or write of progress is not repeated: it ends the run, and the task FAILED.

## Not modelled

* The numbers that the pipelines compute (`app/models/backends/*`), the download of model artifacts and the encoding of
  parquet: no state that other parts read. TaskRun puts any answer in their place.
* The row-group check reads metadata only; in Worker it is one of the ways validation fails.
* Configuration (`app/core/config.py`): what it checks is assumed of the constants. Logging, formatting of responses,
  validation of paths, and the reads of the API with the values they derive (`executor_alive`, `eta`, `progress_pct`).
* The helm chart: its probes and its grace period are the readiness and crash steps of Worker and Service.

In the models that exist:

* Worker: a PUT to the output prefix that lands after the prefix was cleared for the next attempt. `README.md` of the
  service states this limitation; the model has PUTs that raise and have stored their object all the same.
* Worker and AirflowSensor have one clock; what skew does to the timeout is in TaskQueue.
* Service and Worker are not composed: the consumer of Service is the loop of Worker without its effects on the queue;
  nor are TaskRun and Worker: the first has the data, the second the calls to the store.
* PgBackend: a table of another version, which `initialize` refuses like a missing one.
* HadoopLoad: two loads at the same time, objects that somebody else puts below the destination, the values of the
  metadata, the SQL wrapper and the encoding of arguments.
* AirflowSensor: the second attempt after a manual Clear, and a SIGTERM during `_abort_remaining`. After an
  `AirflowTaskTimeout` in the middle of a poke nothing is claimed of the tasks that this execution has not yet asked for.

## Plan

1. **Second attempt** in AirflowSensor: late requests of the first attempt against the second.
