------------------------------- MODULE Worker -------------------------------
(***************************************************************************)
(* The consumer loop, run_task and the heartbeat thread of                 *)
(* app/tasks/worker.py in several processes over one queue, with the       *)
(* output prefix in S3, signals, crashes, and a task store whose calls may *)
(* fail before or after they take effect.                                  *)
(*                                                                         *)
(* All attempts write to the same output prefix: a client submits the next *)
(* attempt, with a new key, after the previous one has failed and the      *)
(* prefix has been cleared.  Time is relative: "now" is always 0 and a     *)
(* tick ages the records, so the model runs for ever in finitely many      *)
(* states.                                                                 *)
(***************************************************************************)
EXTENDS TaskChanges

CONSTANTS
    Chunks,      \* number of chunks of the input, a row each
    Reliable,    \* processes that are neither stopped nor killed
    MaxFaults    \* bound of the model: how often a store or an S3 call fails

ASSUME WorkerAssumption ==
    /\ Chunks \in 1 .. MaxRows
    /\ Reliable \subseteq Owners
    /\ MaxFaults \in Nat
    /\ TaskIds \subseteq Nat \ {0} /\ TaskIds \subseteq Keys

VARIABLES
    tasks,       \* the queue
    pod,         \* per process: the consumer thread and the stop event
    beat,        \* per task: the heartbeat thread of its run
    out,         \* the output prefix: which attempt wrote each object
    faults,      \* failures so far
    runs, marked, late   \* history: see the properties

vars == <<tasks, pod, beat, out, faults, runs, marked, late>>
history == <<runs, marked, late>>

NoRun == 0
Marker == 0            \* the key _SUCCESS; the parts are 1 .. Chunks
Objects == 0 .. Chunks

Stages == {"loop", "claim", "begin", "load", "validate", "count", "recount",
           "inspect", "top", "infer", "write", "progress", "prepare", "finalize",
           "publish", "abort", "abort_handler", "save", "wait", "close", "exited", "dead"}

Init ==
    /\ tasks = [i \in TaskIds |-> NoTask]
    /\ pod = [p \in Owners |-> [pc |-> "loop", task |-> NoRun, done |-> 0,
                                want |-> "FAILED", why |-> "none", stop |-> FALSE]]
    /\ beat = [i \in TaskIds |-> "none"]
    /\ out = [k \in Objects |-> NoRun]
    /\ faults = 0
    /\ runs = [i \in TaskIds |-> 0]
    /\ marked = {}
    /\ late = [i \in TaskIds |-> 0]

-----------------------------------------------------------------------------
(* Calls of the store: answered, or failed with or without effect.         *)

Answered(change) == tasks' = change.tasks /\ UNCHANGED faults

Fault == faults < MaxFaults /\ faults' = faults + 1

Unanswered(change) == Fault /\ tasks' \in {tasks, change.tasks}

Yes(change) == change.result.kind = "Value" /\ change.result.value = TRUE

At(p, stage) == pod[p].pc = stage
Mine(p) == pod[p].task
Goto(p, stage) == pod' = [pod EXCEPT ![p].pc = stage]
Save(p, status, why) ==
    pod' = [pod EXCEPT ![p].pc = "save", ![p].want = status, ![p].why = why]
Fails(p, why) == Save(p, "FAILED", why)

-----------------------------------------------------------------------------
(* cancelled(): the stop event, the lost-ownership event of the heartbeat, *)
(* then cancellation_requested.                                            *)

ShutdownSeen(p) == pod[p].stop \/ beat[Mine(p)] = "lost"

\* Variant: the check looks at the events only.
CheckRaisesOnEvent(p) == ShutdownSeen(p)

CheckRaises(p) ==
    LET t == tasks[Mine(p)]
    IN  ShutdownSeen(p) \/ t.status \notin Active \/ TimedOut(t, 0)

CancelSeen(p) ==
    LET t == tasks[Mine(p)]
    IN  ~CheckRaises(p) /\ (t.cancel_requested \/ t.status = "ABORTING")

Reason(p) == IF pod[p].stop THEN "pod_shutdown" ELSE "failure"

CheckPasses(p) == ~CheckRaises(p) /\ ~CancelSeen(p)

\* One check: go on, or abort in one of the places given, or fail.
Check(p, next, aborts) ==
    /\ UNCHANGED <<tasks, beat, out, history>>
    /\ \/ CheckPasses(p) /\ Goto(p, next) /\ UNCHANGED faults
       \/ CancelSeen(p) /\ (\E a \in aborts : Goto(p, a)) /\ UNCHANGED faults
       \/ CheckRaises(p) /\ Fails(p, Reason(p)) /\ UNCHANGED faults
       \/ Fault /\ Fails(p, "storage")

\* Any other error ends the run as FAILED too: of the model, of the input, of
\* S3, or an event found by check_shutdown.
Breaks(p, why) == Fails(p, why) /\ UNCHANGED <<tasks, beat, out, faults, history>>

-----------------------------------------------------------------------------
(* consume_queue                                                           *)

\* Variant: the slot is free as soon as run_task has returned.
LoopForgets(p) ==
    /\ At(p, "loop")
    /\ pod' = [pod EXCEPT ![p].pc = IF pod[p].stop THEN "exited" ELSE "claim", ![p].task = NoRun]
    /\ UNCHANGED <<tasks, beat, out, faults, history>>

\* Variant: only a task that is DONE frees the slot.
LoopOnDone(p) ==
    /\ At(p, "loop")
    /\ \/ pod[p].stop /\ Goto(p, "exited")
       \/ ~pod[p].stop /\ Mine(p) = NoRun /\ Goto(p, "claim")
       \/ /\ ~pod[p].stop /\ Mine(p) # NoRun
          /\ tasks[Mine(p)].status = "DONE"
          /\ pod' = [pod EXCEPT ![p].pc = "claim", ![p].task = NoRun]
    /\ UNCHANGED <<tasks, beat, out, faults, history>>

\* The test of the stop event and, while a finished run is not confirmed, the
\* poll of its record; a failed read repeats the loop.
Loop(p) ==
    /\ At(p, "loop")
    /\ \/ pod[p].stop /\ Goto(p, "exited")
       \/ ~pod[p].stop /\ Mine(p) = NoRun /\ Goto(p, "claim")
       \/ /\ ~pod[p].stop /\ Mine(p) # NoRun
          /\ tasks[Mine(p)].status \in Terminal
          /\ pod' = [pod EXCEPT ![p].pc = "claim", ![p].task = NoRun]
    /\ UNCHANGED <<tasks, beat, out, faults, history>>

Claim(p) ==
    LET change == claim_next(tasks, p, Models, 0)
        i == change.result.value
    IN  /\ At(p, "claim")
        /\ \/ /\ change.result.kind = "Value"
              /\ Answered(change)
              /\ pod' = [pod EXCEPT ![p].pc = "begin", ![p].task = i, ![p].done = 0]
              /\ beat' = [beat EXCEPT ![i] = "alive"]
              /\ runs' = [runs EXCEPT ![i] = @ + 1]
           \/ /\ change.result.kind = "None"
              /\ Answered(change)
              /\ Goto(p, "loop")
              /\ UNCHANGED <<beat, runs>>
           \/ /\ Unanswered(change)
              /\ Goto(p, "loop")
              /\ UNCHANGED <<beat, runs>>
        /\ UNCHANGED <<out, marked, late>>

-----------------------------------------------------------------------------
(* run_task                                                                *)

Begin(p) == At(p, "begin") /\ Check(p, "load", {"abort"})

Load(p) == At(p, "load") /\ (Breaks(p, "failure") \/ Check(p, "validate", {"abort_handler"}))

Validate(p) == At(p, "validate") /\ (Breaks(p, "failure") \/ Check(p, "count", {"abort"}))

\* set_total_rows; when refused, one more check before giving up.
Count(p) ==
    LET change == set_total_rows(tasks, Mine(p), p, Chunks, 0)
    IN  /\ At(p, "count")
        /\ \/ Answered(change) /\ Goto(p, IF Yes(change) THEN "inspect" ELSE "recount")
           \/ Unanswered(change) /\ Fails(p, "storage")
        /\ UNCHANGED <<beat, out, history>>

Recount(p) == At(p, "recount") /\ Check(p, "close", {"abort"})

\* prefix_has_results
Inspect(p) ==
    /\ At(p, "inspect")
    /\ \/ Breaks(p, "failure")
       \/ /\ \A k \in Objects : out[k] = NoRun
          /\ Goto(p, "top")
          /\ UNCHANGED <<tasks, beat, out, faults, history>>

\* Variant: one chunk too many.
TopOneMore(p) ==
    /\ At(p, "top")
    /\ \/ Breaks(p, "failure")
       \/ pod[p].done <= Chunks /\ Check(p, "infer", {"abort", "abort_handler"})
       \/ pod[p].done > Chunks /\ Check(p, "prepare", {"abort_handler"})

\* The head of the chunk loop: a check, the next chunk if there is one, and
\* another check before it is used.
Top(p) ==
    /\ At(p, "top")
    /\ \/ Breaks(p, "failure")
       \/ pod[p].done < Chunks /\ Check(p, "infer", {"abort", "abort_handler"})
       \/ pod[p].done = Chunks /\ Check(p, "prepare", {"abort_handler"})

\* Inference with its checks around every batch, then the check before writing.
Infer(p) == At(p, "infer") /\ (Breaks(p, "failure") \/ Check(p, "write", {"abort", "abort_handler"}))

\* Writes that a cancelled, ended or stopped run still makes are counted.
TooLate(p) == pod[p].stop \/ tasks[Mine(p)].status \notin {"RUNNING", "FINALIZING"}

PutObject(p, k) ==
    /\ out' = [out EXCEPT ![k] = Mine(p)]
    /\ late' = IF TooLate(p) THEN [late EXCEPT ![Mine(p)] = @ + 1] ELSE late

\* A PUT that raises may have stored the object all the same.
PutRaises(p, k) ==
    /\ Fault
    /\ PutObject(p, k) \/ UNCHANGED <<out, late>>
    /\ Fails(p, "failure")

Write(p) ==
    LET k == pod[p].done + 1
    IN  /\ At(p, "write")
        /\ \/ /\ PutObject(p, k)
              /\ \E next \in {"top", "progress"} :
                    pod' = [pod EXCEPT ![p].pc = next, ![p].done = k]
              /\ UNCHANGED faults
           \/ PutRaises(p, k)
        /\ UNCHANGED <<tasks, beat, runs, marked>>

Progress(p) ==
    LET change == update_progress(tasks, Mine(p), p, pod[p].done, 0)
    IN  /\ At(p, "progress")
        /\ \/ Answered(change) /\ Goto(p, "top")
           \/ Unanswered(change) /\ Fails(p, "storage")
        /\ UNCHANGED <<beat, out, history>>

\* check_shutdown, the row count, then the decision between FINALIZING and
\* the last cancellation.
Prepare(p) ==
    LET change == prepare_completion(tasks, Mine(p), p, pod[p].done, 0)
    IN  /\ At(p, "prepare")
        /\ \/ ShutdownSeen(p) /\ Breaks(p, Reason(p))
           \/ /\ ~ShutdownSeen(p)
              /\ \/ Answered(change) /\ Goto(p, IF Yes(change) THEN "finalize" ELSE "close")
                 \/ Unanswered(change) /\ Fails(p, "storage")
              /\ UNCHANGED <<beat, out, history>>

\* Variant: DONE is saved without closing the writer.
FinalizeUnmarked(p) ==
    /\ At(p, "finalize")
    /\ Save(p, "DONE", "none")
    /\ UNCHANGED <<tasks, beat, out, faults, history>>

Finalize(p) ==
    /\ At(p, "finalize")
    /\ \/ ShutdownSeen(p) /\ Breaks(p, Reason(p))
       \/ /\ ~ShutdownSeen(p)
          /\ Goto(p, "publish")
          /\ UNCHANGED <<tasks, beat, out, faults, history>>

\* writer.close() puts _SUCCESS; from then on the run only wants DONE.
Publish(p) ==
    /\ At(p, "publish")
    /\ \/ /\ PutObject(p, Marker)
          /\ marked' = marked \cup {Mine(p)}
          /\ Save(p, "DONE", "none")
          /\ UNCHANGED faults
       \/ PutRaises(p, Marker) /\ UNCHANGED marked
    /\ UNCHANGED <<tasks, beat, runs>>

-----------------------------------------------------------------------------
(* The ends of a run.                                                      *)

\* abort(): inside the try block an error of its progress write turns the run
\* into FAILED, inside the TaskCancelled handler it escapes from run_task.
Abort(p) ==
    LET change == update_progress(tasks, Mine(p), p, pod[p].done, 0)
    IN  /\ \/ At(p, "abort") \/ At(p, "abort_handler")
        /\ \/ Answered(change) /\ Save(p, "ABORTED", "none")
           \/ Unanswered(change) /\ At(p, "abort") /\ Fails(p, "storage")
           \/ Unanswered(change) /\ At(p, "abort_handler") /\ Goto(p, "close")
        /\ UNCHANGED <<beat, out, history>>

\* Variant: a status that was not confirmed becomes FAILED.
SaveStatusOnce(p) ==
    LET change == set_status(tasks, Mine(p), p, pod[p].want, pod[p].why, 0)
    IN  /\ At(p, "save")
        /\ \/ Answered(change) /\ Goto(p, "close")
           \/ Unanswered(change) /\ Fails(p, "storage")
        /\ UNCHANGED <<beat, out, history>>

\* _save_status: repeated until answered, or until the stop event is seen in
\* the wait after a failure.
SaveStatus(p) ==
    LET change == set_status(tasks, Mine(p), p, pod[p].want, pod[p].why, 0)
    IN  /\ At(p, "save")
        /\ \/ Answered(change) /\ Goto(p, "close")
           \/ Unanswered(change) /\ Goto(p, "wait")
        /\ UNCHANGED <<beat, out, history>>

Wait(p) ==
    /\ At(p, "wait")
    /\ Goto(p, IF pod[p].stop THEN "close" ELSE "save")
    /\ UNCHANGED <<tasks, beat, out, faults, history>>

\* The finally block: an error of bundle.close stops the process; the
\* heartbeat is told to stop, its call under way may still arrive.
Close(p) ==
    /\ At(p, "close")
    /\ \E failed \in IF p \in Reliable THEN {FALSE} ELSE BOOLEAN :
          pod' = [pod EXCEPT ![p].pc = "loop", ![p].stop = @ \/ failed,
                             ![p].done = 0, ![p].want = "FAILED", ![p].why = "none"]
    /\ \E b \in {"last", "done"} :
          beat' = [beat EXCEPT ![Mine(p)] = IF @ = "alive" THEN b ELSE "done"]
    /\ UNCHANGED <<tasks, out, faults, history>>

Consumer(p) ==
    \/ Loop(p) \/ Claim(p)
    \/ Begin(p) \/ Load(p) \/ Validate(p) \/ Count(p) \/ Recount(p) \/ Inspect(p)
    \/ Top(p) \/ Infer(p) \/ Write(p) \/ Progress(p)
    \/ Prepare(p) \/ Finalize(p) \/ Publish(p)
    \/ Abort(p) \/ SaveStatus(p) \/ Wait(p) \/ Close(p)

-----------------------------------------------------------------------------
(* _keep_heartbeat, one thread per run, in the process that owns the task.  *)

Heartbeat(i) ==
    LET change == heartbeat(tasks, i, tasks[i].owner, 0)
        again == IF beat[i] = "alive" THEN "alive" ELSE "done"
    IN  /\ beat[i] \in {"alive", "last"}
        /\ \/ /\ Answered(change)
              /\ beat' = [beat EXCEPT ![i] = IF Yes(change) THEN again ELSE "lost"]
           \/ /\ Unanswered(change)
              /\ beat' = [beat EXCEPT ![i] = again]
        /\ UNCHANGED <<pod, out, history>>

-----------------------------------------------------------------------------
(* The rest of the system.                                                 *)

\* SIGTERM: the handler sets the stop event at once.
Signal(p) ==
    /\ p \notin Reliable
    /\ pod[p].pc \notin {"exited", "dead"}
    /\ ~pod[p].stop
    /\ pod' = [pod EXCEPT ![p].stop = TRUE]
    /\ UNCHANGED <<tasks, beat, out, faults, history>>

\* SIGKILL or OOM: the threads are gone, a heartbeat may be on its way.
Crash(p) ==
    /\ p \notin Reliable
    /\ pod[p].pc # "dead"
    /\ Goto(p, "dead")
    /\ \E b \in {"last", "done"} :
          beat' = [i \in TaskIds |-> IF beat[i] = "alive" /\ tasks[i].owner = p
                                     THEN b ELSE beat[i]]
    /\ UNCHANGED <<tasks, out, faults, history>>

\* Readiness of any process that is alive and not stopping.
Readiness ==
    /\ \E p \in Owners : pod[p].pc \notin {"exited", "dead"} /\ ~pod[p].stop
    /\ tasks' = fail_stale(tasks, 0).tasks
    /\ UNCHANGED <<pod, beat, out, faults, history>>

\* The client: Airflow clears the prefix and submits an attempt with a new key.
Submit(i, request) ==
    /\ tasks[i] = NoTask
    /\ \A j \in TaskIds : j < i => tasks[j] # NoTask /\ tasks[j].status \in {"FAILED", "ABORTED"}
    /\ tasks' = enqueue(tasks, i, i, request, 0).tasks
    /\ out' = [k \in Objects |-> NoRun]
    /\ UNCHANGED <<pod, beat, faults, history>>

RequestAbort(i) ==
    /\ tasks' = request_abort(tasks, i, 0).tasks
    /\ UNCHANGED <<pod, beat, out, faults, history>>

\* A tick makes every running record older, up to the timeout.
Tick ==
    /\ tasks' = [i \in TaskIds |->
                   IF tasks[i] # NoTask /\ tasks[i].status \in Active
                        /\ tasks[i].last_modified > -TaskTimeout
                   THEN [tasks[i] EXCEPT !.last_modified = @ - 1] ELSE tasks[i]]
    /\ UNCHANGED <<pod, beat, out, faults, history>>

Next ==
    \/ \E p \in Owners : Consumer(p) \/ Signal(p) \/ Crash(p)
    \/ \E i \in TaskIds : Heartbeat(i) \/ RequestAbort(i)
    \/ \E i \in TaskIds, request \in Requests : Submit(i, request)
    \/ Readiness
    \/ Tick

Spec == Init /\ [][Next]_vars

\* Threads that can run do run, time passes, and Kubernetes keeps polling the
\* readiness of a live process.
Fairness ==
    /\ \A p \in Owners : WF_vars(Consumer(p))
    /\ \A i \in TaskIds : WF_vars(Heartbeat(i))
    /\ WF_vars(Readiness)
    /\ WF_vars(Tick)

FairSpec == Spec /\ Fairness

-----------------------------------------------------------------------------
TypeOK ==
    /\ tasks \in [TaskIds -> TaskState \cup {NoTask}]
    /\ pod \in [Owners -> [pc : Stages, task : TaskIds \cup {NoRun}, done : 0 .. Chunks,
                           want : Terminal, why : Errors, stop : BOOLEAN]]
    /\ beat \in [TaskIds -> {"none", "alive", "last", "lost", "done"}]
    /\ out \in [Objects -> TaskIds \cup {NoRun}]
    /\ faults \in 0 .. MaxFaults
    /\ runs \in [TaskIds -> Nat]
    /\ marked \in SUBSET TaskIds
    /\ late \in [TaskIds -> Nat]

\* The same inference is never started twice, however the answers of claims
\* and of final statuses are lost: a process keeps its slot until it has seen
\* the final status.
RunOnce == \A i \in TaskIds : runs[i] <= 1

\* A task that was cancelled, ended by a timeout or whose process was told to
\* stop makes at most one more write to its prefix, the one already under way:
\* every write is preceded by a check made after the write before it.
OneLateWrite == \A i \in TaskIds : late[i] <= 1

\* What a worker may do beyond its task: no second run, and one write at most
\* after it should have stopped.
Restrained == RunOnce /\ OneLateWrite

\* DONE is recorded only over a complete result: the run has put all its parts
\* and then the marker, and the progress in the record says so.
DoneIsPublished ==
    \A i \in Known(tasks) : tasks[i].status = "DONE" =>
        /\ i \in marked
        /\ tasks[i].processed_rows = tasks[i].total_rows

\* Once the marker is known to be written, the worker itself never ends the
\* task in any other way than DONE; only a timeout can.
PublishedIsKept ==
    \A i \in marked :
        \/ tasks[i].status \in {"FINALIZING", "DONE"}
        \/ tasks[i].status = "FAILED" /\ tasks[i].error = "task_timeout"

\* The marker and DONE belong together, whichever of the two writes fails: no
\* DONE without a complete result, and no other end of the run over one.
PublicationHolds == DoneIsPublished /\ PublishedIsKept

\* The prefix of a DONE task holds the objects of that attempt and no others,
\* unless an earlier attempt on the prefix was given up by timeout, whose
\* worker may be alive: the limitation the README states, and no wider.
CleanOutput ==
    \A i \in Known(tasks) : tasks[i].status = "DONE" =>
        \/ \A k \in Objects : out[k] = i
        \/ \E j \in Known(tasks) : j < i /\ tasks[j].error = "task_timeout"

\* Every task that runs comes to an end, whatever happens to its process.
RunsEnd ==
    \A i \in TaskIds : (tasks[i] # NoTask /\ tasks[i].status \in Active)
                       ~> (tasks[i] # NoTask /\ tasks[i].status \in Terminal)

\* A queued task is not left in the queue while a process that stays alive
\* serves its model.
QueueServed ==
    \A i \in TaskIds : (tasks[i] # NoTask /\ tasks[i].status = "QUEUED")
                       ~> (tasks[i] # NoTask /\ tasks[i].status # "QUEUED")

=============================================================================
