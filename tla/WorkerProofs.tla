---------------------------- MODULE WorkerProofs ----------------------------
(***************************************************************************)
(* Proofs about Worker, for any number of tasks, processes, chunks and     *)
(* faults: the types, no second run and one late write at most             *)
(* (Restrained), the marker and DONE (PublicationHolds), and whose objects *)
(* the prefix of a DONE task holds (CleanOutput).                          *)
(*                                                                         *)
(* The argument has three parts.                                           *)
(*                                                                         *)
(* 1. What a call of the store does to a record.  Others can only let it   *)
(*    drift: refresh it, ask it to abort, give it up by timeout.  The run  *)
(*    itself replaces its own record, in the ways the callbacks allow.     *)
(*                                                                         *)
(* 2. The inductive invariant IInv ties the stage of every process to the  *)
(*    record it works on and to the histories.  Its heart is StageOf: a    *)
(*    run before its decision has a record that is RUNNING, ABORTING or    *)
(*    given up, a run with its marker only saves DONE, and a run may have  *)
(*    written late only on its way to the next check.                      *)
(*                                                                         *)
(* 3. CleanInv, on top of it: attempts are submitted one after the other,  *)
(*    so a second writer on the prefix is one that was given up.           *)
(***************************************************************************)
EXTENDS Worker, TaskChangesProofs, TLAPS

-----------------------------------------------------------------------------
(* What others do to a record.                                             *)

\* Readiness, or any callback, has taken the task from its process.
GivenUp(t) == t.status = "FAILED" /\ t.error = "task_timeout"

(* What the steps of others do to a record: a heartbeat, a request to      *)
(* abort, readiness and the passing of time.                               *)
Drift(t, u) ==
    /\ u \in TaskState
    /\ Sound(u)
    /\ u.owner = t.owner
    /\ u.created_at = t.created_at
    /\ u.total_rows = t.total_rows
    /\ u.processed_rows = t.processed_rows
    /\ t.status \in Terminal => u = t
    /\ \/ u.status = t.status /\ u.error = t.error
       \/ t.status = "QUEUED" /\ u.status = "ABORTED" /\ u.error = "none"
       \/ t.status = "RUNNING" /\ u.status = "ABORTING" /\ u.error = t.error
       \/ t.status \in Active /\ GivenUp(u)

AllDrift(S, S2) ==
    /\ S2 \in Snapshots
    /\ \A i \in TaskIds : IF S[i] = NoTask THEN S2[i] = NoTask ELSE Drift(S[i], S2[i])

\* A snapshot of records that respect the cancellation flag.
SoundIn(S) == S \in Snapshots /\ \A i \in Known(S) : Sound(S[i])

(* A record left alone, and one refreshed or aged.                         *)
LEMMA StayDrifts ==
    ASSUME NEW t \in TaskState, Sound(t)
    PROVE  Drift(t, t)
BY DEF Drift

(* A heartbeat refreshes an active record, a tick ages it.                 *)
LEMMA TouchDrifts ==
    ASSUME NEW t \in TaskState, Sound(t), t.status \in Active, NEW at \in Int
    PROVE  Drift(t, [t EXCEPT !.last_modified = at])
<1> DEFINE u == [t EXCEPT !.last_modified = at]
<1>1. /\ u \in TaskState
      /\ u.owner = t.owner /\ u.created_at = t.created_at
      /\ u.total_rows = t.total_rows /\ u.processed_rows = t.processed_rows
      /\ u.status = t.status /\ u.error = t.error /\ u.cancel_requested = t.cancel_requested
  BY DEF TaskState
<1> HIDE DEF u
<1>2. Drift(t, u)
  BY <1>1 DEF Drift, Sound, Active, Terminal
<1> QED BY <1>2 DEF u

(* The timeout gives a record up, or leaves it.                            *)
LEMMA ExpireDrifts ==
    ASSUME NEW t \in TaskState, Sound(t), NEW now \in Int
    PROVE  /\ Drift(t, Expire(t, now))
           /\ Expire(t, now) = t \/ (GivenUp(Expire(t, now)) /\ t.status \in Active)
<1>1. CASE TimedOut(t, now)
  <2> DEFINE u == SetTerminal(t, "FAILED", "task_timeout", now)
  <2>1. /\ u \in TaskState
        /\ u.owner = t.owner /\ u.created_at = t.created_at
        /\ u.total_rows = t.total_rows /\ u.processed_rows = t.processed_rows
        /\ u.status = "FAILED" /\ u.error = "task_timeout" /\ u.cancel_requested = FALSE
    BY DEF SetTerminal, TaskState, Terminal, Status, Errors
  <2>2. Expire(t, now) = u
    BY <1>1 DEF Expire
  <2>3. t.status \in Active
    BY <1>1 DEF TimedOut
  <2> HIDE DEF u
  <2> QED BY <2>1, <2>2, <2>3 DEF Drift, Sound, GivenUp, Active, Terminal
<1>2. CASE ~TimedOut(t, now)
  BY <1>2, StayDrifts DEF Expire
<1> QED BY <1>1, <1>2

(* One record of a snapshot, put back.                                     *)
LEMMA PutDrifts ==
    ASSUME NEW S, SoundIn(S), NEW id \in TaskIds, S[id] # NoTask,
           NEW u, Drift(S[id], u)
    PROVE  AllDrift(S, [S EXCEPT ![id] = u])
<1>1. u \in TaskState
  BY DEF Drift
<1>2. \A i \in TaskIds : S[i] # NoTask => Drift(S[i], S[i])
  BY StayDrifts DEF SoundIn, Snapshots, Known
<1> QED BY <1>1, <1>2 DEF AllDrift, SoundIn, Snapshots

(* A snapshot left alone drifts.                                           *)
LEMMA LeaveDrifts ==
    ASSUME NEW S, SoundIn(S)
    PROVE  AllDrift(S, S)
BY StayDrifts DEF AllDrift, SoundIn, Snapshots, Known

(* The callbacks that other threads and processes run on any record.       *)
LEMMA HeartbeatDrifts ==
    ASSUME NEW S, SoundIn(S), NEW id \in TaskIds, NEW o, NEW now \in Int
    PROVE  AllDrift(S, heartbeat(S, id, o, now).tasks)
<1>1. CASE NotOwned(S, id, o)
  BY <1>1, LeaveDrifts DEF heartbeat, Refusal, Leave
<1>2. CASE ~NotOwned(S, id, o)
  <2> DEFINE t == Expire(S[id], now)
             u == IF t.status \notin Active THEN t ELSE [t EXCEPT !.last_modified = now]
  <2>1. S[id] # NoTask /\ S[id] \in TaskState /\ Sound(S[id])
    BY <1>2 DEF NotOwned, SoundIn, Snapshots, Known
  <2>2. Drift(S[id], t) /\ (t = S[id] \/ GivenUp(t))
    BY <2>1, ExpireDrifts
  <2> HIDE DEF t
  <2>3. Drift(S[id], u)
    BY <2>1, <2>2, TouchDrifts DEF GivenUp, Active
  <2>4. heartbeat(S, id, o, now).tasks = [S EXCEPT ![id] = u]
    BY <1>2 DEF heartbeat, Put, t
  <2> HIDE DEF u
  <2> QED BY <2>1, <2>3, <2>4, PutDrifts
<1> QED BY <1>1, <1>2

(* What an abort makes of a record.                                        *)
LEMMA AbortMarkDrifts ==
    ASSUME NEW t \in TaskState, Sound(t), NEW now \in Int
    PROVE  Drift(t, AbortMark(t, now))
<1>1. CASE t.status = "QUEUED"
  <2> DEFINE u == SetTerminal(t, "ABORTED", "none", now)
  <2>1. /\ u \in TaskState
        /\ u.owner = t.owner /\ u.created_at = t.created_at
        /\ u.total_rows = t.total_rows /\ u.processed_rows = t.processed_rows
        /\ u.status = "ABORTED" /\ u.error = "none" /\ u.cancel_requested = FALSE
    BY DEF SetTerminal, TaskState, Terminal, Status, Errors
  <2>2. AbortMark(t, now) = u
    BY <1>1 DEF AbortMark
  <2> HIDE DEF u
  <2> QED BY <1>1, <2>1, <2>2 DEF Drift, Sound, Terminal
<1>2. CASE t.status \in {"RUNNING", "ABORTING"}
  <2> DEFINE u == [t EXCEPT !.cancel_requested = TRUE, !.status = "ABORTING"]
  <2>1. /\ u \in TaskState
        /\ u.owner = t.owner /\ u.created_at = t.created_at
        /\ u.total_rows = t.total_rows /\ u.processed_rows = t.processed_rows
        /\ u.status = "ABORTING" /\ u.error = t.error /\ u.cancel_requested = TRUE
    BY DEF TaskState, Status, Active
  <2>2. AbortMark(t, now) = u
    BY <1>2 DEF AbortMark
  <2> HIDE DEF u
  <2> QED BY <1>2, <2>1, <2>2 DEF Drift, Sound, Terminal
<1>3. CASE t.status \notin {"QUEUED", "RUNNING", "ABORTING"}
  BY <1>3, StayDrifts DEF AbortMark
<1> QED BY <1>1, <1>2, <1>3

(* An abort touches the record it names.                                   *)
LEMMA RequestAbortDrifts ==
    ASSUME NEW S, SoundIn(S), NEW id \in TaskIds, NEW now \in Int
    PROVE  AllDrift(S, request_abort(S, id, now).tasks)
<1>1. CASE S[id] = NoTask \/ S[id].status = "FINALIZING"
  BY <1>1, LeaveDrifts DEF request_abort, Leave
<1>2. CASE ~(S[id] = NoTask \/ S[id].status = "FINALIZING")
  <2>1. Drift(S[id], AbortMark(S[id], now))
    BY <1>2, AbortMarkDrifts DEF SoundIn, Snapshots, Known
  <2> QED BY <1>2, <2>1, PutDrifts DEF request_abort, Put
<1> QED BY <1>1, <1>2

(* Readiness may give up any record.                                       *)
LEMMA FailStaleDrifts ==
    ASSUME NEW S, SoundIn(S), NEW now \in Int
    PROVE  AllDrift(S, fail_stale(S, now).tasks)
<1>1. \A i \in TaskIds : S[i] # NoTask =>
          Drift(S[i], Expire(S[i], now)) /\ Expire(S[i], now) \in TaskState
  BY ExpireDrifts DEF SoundIn, Snapshots, Known, Drift
<1> QED BY <1>1 DEF AllDrift, fail_stale, Snapshots

(* The passing of time.                                                    *)
LEMMA TickDrifts ==
    ASSUME SoundIn(tasks), Tick
    PROVE  AllDrift(tasks, tasks')
<1>1. ASSUME NEW i \in TaskIds, tasks[i] # NoTask
      PROVE  Drift(tasks[i], tasks'[i])
  <2>1. tasks[i] \in TaskState /\ Sound(tasks[i]) /\ tasks[i].last_modified \in Int
    BY <1>1 DEF SoundIn, Snapshots, Known, TaskState
  <2>2. \/ tasks'[i] = tasks[i]
        \/ /\ tasks[i].status \in Active
           /\ tasks'[i] = [tasks[i] EXCEPT !.last_modified = tasks[i].last_modified - 1]
    BY <1>1 DEF Tick
  <2> QED BY <2>1, <2>2, StayDrifts, TouchDrifts
<1>2. \A i \in TaskIds : tasks[i] = NoTask => tasks'[i] = NoTask
  BY DEF Tick
<1>3. DOMAIN tasks' = TaskIds /\ tasks' = [i \in TaskIds |-> tasks'[i]]
  BY DEF Tick
<1> QED BY <1>1, <1>2, <1>3 DEF AllDrift, Snapshots, Drift

-----------------------------------------------------------------------------
(* What the calls of a run do to its own record.                           *)

\* A call for a task that the process has.
Owned(S, id, p) ==
    S \in Snapshots /\ S[id] # NoTask /\ S[id].owner = p /\ Sound(S[id])

\* A call has replaced this one record.
Replaces(S, id, change, u) ==
    change.tasks = [S EXCEPT ![id] = u] /\ change.tasks[id] = u

(* Put replaces one record.                                                *)
LEMMA PutReplaces ==
    ASSUME NEW S \in Snapshots, NEW id \in TaskIds, NEW u, NEW r
    PROVE  Replaces(S, id, Put(S, id, u, r), u)
BY DEF Replaces, Put, Snapshots

(* The record of a run is not in the queue; the timeout comes first.       *)
LEMMA OwnedGives ==
    ASSUME NEW S, NEW id \in TaskIds, NEW p \in Owners, Owned(S, id, p), NEW now \in Int
    PROVE  /\ ~NotOwned(S, id, p)
           /\ S \in Snapshots
           /\ S[id] \in TaskState /\ Sound(S[id])
           /\ S[id].status \in Active \cup Terminal
           /\ Drift(S[id], S[id])
           /\ Drift(S[id], Expire(S[id], now))
           /\ Expire(S[id], now) = S[id] \/ GivenUp(Expire(S[id], now))
<1>1. ~NotOwned(S, id, p) /\ S[id] \in TaskState /\ Sound(S[id]) /\ S \in Snapshots
  BY DEF Owned, NotOwned, Snapshots
<1>2. S[id].status # "QUEUED"
  BY OwnerAssumption DEF Owned, Sound
<1>3. S[id].status \in Active \cup Terminal
  BY <1>1, <1>2 DEF TaskState, Status
<1> QED BY <1>1, <1>3, ExpireDrifts, StayDrifts

\* set_total_rows: answered TRUE only for a RUNNING task in time.
Counts(t, u, rows, change) ==
    \/ Drift(t, u) /\ ~Yes(change)
    \/ /\ t.status = "RUNNING"
       /\ u \in TaskState
       /\ u.owner = t.owner /\ u.created_at = t.created_at
       /\ u.total_rows = rows /\ u.processed_rows = t.processed_rows
       /\ u.status = t.status /\ u.error = t.error
       /\ u.cancel_requested = t.cancel_requested

(* The rows are recorded, or the run is told not to go on.                 *)
LEMMA SetTotalRowsEffect ==
    ASSUME NEW S, NEW id \in TaskIds, NEW p \in Owners, Owned(S, id, p), NEW now \in Int,
           NEW rows \in 0 .. MaxRows
    PROVE  \E u : /\ Replaces(S, id, set_total_rows(S, id, p, rows, now), u)
                  /\ Counts(S[id], u, rows, set_total_rows(S, id, p, rows, now))
<1> DEFINE t == Expire(S[id], now)
           change == set_total_rows(S, id, p, rows, now)
           v == [S[id] EXCEPT !.total_rows = rows, !.last_modified = now]
<1>1. /\ ~NotOwned(S, id, p) /\ S \in Snapshots
      /\ S[id] \in TaskState
      /\ Drift(S[id], t)
      /\ t = S[id] \/ GivenUp(t)
  BY OwnedGives
<1>2. IF t.status # "RUNNING" THEN change = Put(S, id, t, Value(FALSE))
      ELSE t = S[id] /\ change = Put(S, id, v, Value(TRUE))
  BY <1>1 DEF set_total_rows, GivenUp
<1>3. CASE t.status # "RUNNING"
  <2> HIDE DEF t, change
  <2>1. change = Put(S, id, t, Value(FALSE))
    BY <1>2, <1>3
  <2>2. Replaces(S, id, change, t)
    BY <1>1, <2>1, PutReplaces
  <2>3. ~Yes(change)
    BY <2>1 DEF Put, Yes, Value
  <2>4. Counts(S[id], t, rows, change)
    BY <1>1, <2>3 DEF Counts
  <2> QED BY <2>2, <2>4 DEF change
<1>4. CASE t.status = "RUNNING"
  <2>1. Counts(S[id], v, rows, change)
    BY <1>1, <1>2, <1>4 DEF Counts, TaskState
  <2> HIDE DEF t, change, v
  <2>2. Replaces(S, id, change, v)
    BY <1>1, <1>2, <1>4, PutReplaces
  <2> QED BY <2>1, <2>2 DEF change
<1> QED BY <1>3, <1>4

\* update_progress: the rows of a task that is active and in time.
Progresses(t, u, rows) ==
    \/ Drift(t, u)
    \/ /\ t.status \in Active
       /\ u \in TaskState
       /\ u.owner = t.owner /\ u.created_at = t.created_at
       /\ u.total_rows = t.total_rows /\ u.processed_rows = rows
       /\ u.status = t.status /\ u.error = t.error
       /\ u.cancel_requested = t.cancel_requested

(* The progress is recorded, or the record has ended.                      *)
LEMMA UpdateProgressEffect ==
    ASSUME NEW S, NEW id \in TaskIds, NEW p \in Owners, Owned(S, id, p), NEW now \in Int,
           NEW rows \in 0 .. MaxRows
    PROVE  \E u : /\ Replaces(S, id, update_progress(S, id, p, rows, now), u)
                  /\ Progresses(S[id], u, rows)
<1> DEFINE t == Expire(S[id], now)
           change == update_progress(S, id, p, rows, now)
           v == [S[id] EXCEPT !.processed_rows = rows, !.last_modified = now]
<1>1. /\ ~NotOwned(S, id, p) /\ S \in Snapshots
      /\ S[id] \in TaskState
      /\ Drift(S[id], t)
      /\ t = S[id] \/ GivenUp(t)
  BY OwnedGives
<1>2. IF t.status \notin Active THEN change = Put(S, id, t, None)
      ELSE t = S[id] /\ change = Put(S, id, v, None)
  BY <1>1 DEF update_progress, GivenUp, Active
<1>3. CASE t.status \notin Active
  <2> HIDE DEF t, change
  <2>1. Replaces(S, id, change, t)
    BY <1>1, <1>2, <1>3, PutReplaces
  <2> QED BY <1>1, <2>1 DEF change, Progresses
<1>4. CASE t.status \in Active
  <2>1. Progresses(S[id], v, rows)
    BY <1>1, <1>2, <1>4 DEF Progresses, TaskState
  <2> HIDE DEF t, change, v
  <2>2. Replaces(S, id, change, v)
    BY <1>1, <1>2, <1>4, PutReplaces
  <2> QED BY <2>1, <2>2 DEF change
<1> QED BY <1>3, <1>4

\* The record after completion has been prepared: published, or cancelled.
Ready(t, u, rows) ==
    /\ u \in TaskState
    /\ Sound(u)
    /\ u.owner = t.owner
    /\ u.created_at = t.created_at
    /\ u.total_rows = t.total_rows
    /\ u.processed_rows = rows
    /\ u.error # "task_timeout"
    /\ \/ t.status = "ABORTING" /\ u.status = "ABORTED"
       \/ t.status \in {"RUNNING", "FINALIZING"} /\ u.status = "FINALIZING"

(* The decision between publication and cancellation.                      *)
LEMMA PreparedReady ==
    ASSUME NEW t \in TaskState, Sound(t), t.status \in Active, t.error # "task_timeout",
           NEW now \in Int, NEW rows \in 0 .. MaxRows
    PROVE  Ready(t, Prepared(t, rows, now), rows)
<1> DEFINE p == [t EXCEPT !.processed_rows = rows, !.last_modified = now]
<1>1. p = [t EXCEPT !.processed_rows = rows, !.last_modified = now]
  OBVIOUS
<1>2. Prepared(t, rows, now) = IF t.cancel_requested THEN SetTerminal(p, "ABORTED", "none", now)
                             ELSE [p EXCEPT !.status = "FINALIZING"]
  BY DEF Prepared
<1> HIDE DEF p
<1>3. /\ p \in TaskState
      /\ p.owner = t.owner /\ p.created_at = t.created_at
      /\ p.total_rows = t.total_rows /\ p.processed_rows = rows
      /\ p.status = t.status
      /\ p.error = t.error /\ p.cancel_requested = t.cancel_requested
  BY <1>1 DEF TaskState
<1>4. CASE t.cancel_requested
  <2> DEFINE u == SetTerminal(p, "ABORTED", "none", now)
  <2>1. /\ u \in TaskState
        /\ u.owner = t.owner /\ u.created_at = t.created_at
        /\ u.total_rows = t.total_rows /\ u.processed_rows = rows
        /\ u.status = "ABORTED" /\ u.error = "none" /\ u.cancel_requested = FALSE
    BY <1>3 DEF SetTerminal, TaskState, Terminal, Status, Errors
  <2> HIDE DEF u
  <2> QED BY <1>2, <1>4, <2>1 DEF Ready, Sound, u
<1>5. CASE ~t.cancel_requested
  <2> DEFINE u == [p EXCEPT !.status = "FINALIZING"]
  <2>1. /\ u \in TaskState
        /\ u.owner = t.owner /\ u.created_at = t.created_at
        /\ u.total_rows = t.total_rows /\ u.processed_rows = rows
        /\ u.status = "FINALIZING" /\ u.error = t.error /\ u.cancel_requested = t.cancel_requested
    BY <1>3 DEF TaskState, Status, Active
  <2>2. Prepared(t, rows, now) = u
    BY <1>2, <1>5
  <2> HIDE DEF u
  <2>3. t.status \in {"RUNNING", "FINALIZING"}
    BY <1>5 DEF Sound, Active
  <2> QED BY <1>5, <2>1, <2>2, <2>3 DEF Ready, Sound
<1> QED BY <1>4, <1>5

\* prepare_completion: answered TRUE for a task that is being published.
Prepares(t, u, rows, change) ==
    /\ Yes(change) => u.status = "FINALIZING"
    /\ \/ Drift(t, u) /\ u.status \in Terminal
       \/ t.status \in Active /\ Ready(t, u, rows)

(* A record that has not ended is published or cancelled.                  *)
LEMMA PrepareCompletionEffect ==
    ASSUME NEW S, NEW id \in TaskIds, NEW p \in Owners, Owned(S, id, p), NEW now \in Int,
           NEW rows \in 0 .. MaxRows, S[id].status \in Active => S[id].error # "task_timeout"
    PROVE  \E u : /\ Replaces(S, id, prepare_completion(S, id, p, rows, now), u)
                  /\ Prepares(S[id], u, rows, prepare_completion(S, id, p, rows, now))
<1> DEFINE t == Expire(S[id], now)
           change == prepare_completion(S, id, p, rows, now)
           v == IF t.status \in Terminal THEN t ELSE Prepared(t, rows, now)
<1>1. /\ ~NotOwned(S, id, p) /\ S \in Snapshots
      /\ Drift(S[id], t)
      /\ t = S[id] \/ GivenUp(t)
      /\ S[id] \in TaskState /\ Sound(S[id])
      /\ S[id].status \in Active \cup Terminal
  BY OwnedGives
<1>2. change = Put(S, id, v, Value(v.status = "FINALIZING"))
  BY <1>1 DEF prepare_completion
<1>3. Replaces(S, id, change, v) /\ (Yes(change) => v.status = "FINALIZING")
  <2> HIDE DEF t, change, v
  <2>1. Replaces(S, id, change, v)
    BY <1>1, <1>2, PutReplaces
  <2>2. Yes(change) => v.status = "FINALIZING"
    BY <1>2 DEF Put, Yes, Value
  <2> QED BY <2>1, <2>2
<1>4. CASE t.status \in Terminal
  <2>1. v = t
    BY <1>4
  <2> HIDE DEF t, change, v
  <2> QED BY <1>1, <1>4, <1>3, <2>1 DEF Prepares, change
<1>5. CASE t.status \notin Terminal
  <2>1. t = S[id] /\ S[id].status \in Active
    BY <1>1, <1>5 DEF GivenUp, Terminal
  <2>2. Ready(S[id], v, rows)
    BY <1>1, <1>5, <2>1, PreparedReady
  <2> HIDE DEF t, change, v
  <2> QED BY <1>3, <2>1, <2>2 DEF Prepares, change
<1> QED BY <1>4, <1>5

\* The record after the final status has been saved.
Saved(t, u, status, why) ==
    /\ u \in TaskState
    /\ Sound(u)
    /\ u.owner = t.owner
    /\ u.created_at = t.created_at
    /\ u.total_rows = t.total_rows
    /\ u.processed_rows = t.processed_rows
    /\ u.status = status
    /\ u.error = why
    /\ status = "DONE" => t.status = "FINALIZING"

(* A final status is recorded once, DONE only after FINALIZING.            *)
LEMMA SetStatusEffect ==
    ASSUME NEW S, NEW id \in TaskIds, NEW p \in Owners, Owned(S, id, p), NEW now \in Int,
           NEW status \in Terminal, NEW why \in Errors
    PROVE  \E u : /\ Replaces(S, id, set_status(S, id, p, status, why, now), u)
                  /\ \/ Drift(S[id], u)
                     \/ S[id].status \in Active /\ Saved(S[id], u, status, why)
<1> DEFINE t == Expire(S[id], now)
           change == set_status(S, id, p, status, why, now)
           v == SetTerminal(t, status, why, now)
<1>1. /\ ~NotOwned(S, id, p) /\ S \in Snapshots
      /\ Drift(S[id], S[id]) /\ Drift(S[id], t)
      /\ t = S[id] \/ GivenUp(t)
      /\ S[id] \in TaskState
      /\ S[id].status \in Active \cup Terminal
  BY OwnedGives
<1>2. CASE t.status \in Terminal
  <2>1. change = Put(S, id, t, Value(t.status = status))
    BY <1>1, <1>2 DEF set_status
  <2> HIDE DEF t, change
  <2>2. Replaces(S, id, change, t)
    BY <1>1, <2>1, PutReplaces
  <2> QED BY <1>1, <2>2 DEF change
<1>3. CASE t.status \notin Terminal /\ status = "DONE" /\ t.status # "FINALIZING"
  <2>1. change.tasks = S
    BY <1>1, <1>3 DEF set_status, Leave
  <2>2. S = [S EXCEPT ![id] = S[id]]
    BY <1>1 DEF Snapshots
  <2> HIDE DEF t, change
  <2>3. Replaces(S, id, change, S[id])
    BY <1>1, <2>1, <2>2 DEF Replaces
  <2> QED BY <1>1, <2>3 DEF change
<1>4. CASE t.status \notin Terminal /\ ~(status = "DONE" /\ t.status # "FINALIZING")
  <2>1. t = S[id] /\ S[id].status \in Active
    BY <1>1, <1>4 DEF GivenUp, Terminal
  <2>2. change = Put(S, id, v, Value(TRUE))
    BY <1>1, <1>4 DEF set_status
  <2>3. v = SetTerminal(S[id], status, why, now)
    BY <2>1
  <2> HIDE DEF t, change, v
  <2>4. /\ v \in TaskState
        /\ v.owner = S[id].owner /\ v.created_at = S[id].created_at
        /\ v.total_rows = S[id].total_rows /\ v.processed_rows = S[id].processed_rows
        /\ v.status = status /\ v.error = why /\ v.cancel_requested = FALSE
    BY <1>1, <2>3 DEF SetTerminal, TaskState, Terminal, Status
  <2>5. Saved(S[id], v, status, why)
    BY <1>4, <2>1, <2>4 DEF Saved, Sound, Terminal
  <2>6. Replaces(S, id, change, v)
    BY <1>1, <2>2, PutReplaces
  <2> QED BY <2>1, <2>5, <2>6 DEF change
<1> QED BY <1>2, <1>3, <1>4

-----------------------------------------------------------------------------
(* The inductive invariant: what the stages of a run, its record and its   *)
(* histories say of each other.                                            *)

\* The stages before the decision to publish, after the rows are counted, of
\* the publication, of an abort, of the final status, and without a run.
Before == {"begin", "load", "validate", "count", "recount", "inspect", "top",
           "infer", "write", "progress", "prepare"}
Counted == {"inspect", "top", "infer", "write", "progress", "prepare"}
Publishing == {"finalize", "publish"}
Aborting == {"abort", "abort_handler"}
Saving == {"save", "wait"}
Between == {"loop", "exited", "dead", "claim"}

\* The types of a process and of a heartbeat.
Slot == [pc : Stages, task : TaskIds \cup {NoRun}, done : 0 .. Chunks,
         want : Terminal, why : Errors, stop : BOOLEAN]
Beats == {"none", "alive", "last", "lost", "done"}

(* A task that never ran has no traces; nothing runs without a record.     *)
RunOf(i) ==
    /\ runs[i] <= 1 /\ late[i] <= 1
    /\ runs[i] = 0 => late[i] = 0 /\ i \notin marked /\ beat[i] = "none"
    /\ tasks[i] = NoTask => runs[i] = 0

\* What a record says of its run.
RecordOf(i) ==
    LET t == tasks[i]
    IN  t # NoTask =>
          /\ Sound(t) /\ t.created_at >= 0
          /\ t.error = "task_timeout" => t.status = "FAILED"
          /\ t.status = "QUEUED" => runs[i] = 0
          /\ t.status = "FINALIZING" => runs[i] = 1 /\ t.processed_rows = t.total_rows
          /\ t.status = "DONE" => i \in marked /\ t.processed_rows = t.total_rows
          /\ i \in marked => t.status \in {"FINALIZING", "DONE"} \/ GivenUp(t)
          /\ t.status \in Active => t.owner \in Owners
          /\ t.status \in Active /\ runs[i] = 1 => Mine(t.owner) = i

(* A run that has not been aborted or saved holds a record it still may    *)
(* work on, unless readiness has given it up.                              *)
StageOf(p) ==
    LET i == Mine(p)
        t == tasks[i]
        s == pod[p]
    IN  /\ s.pc = "claim" => i = NoRun
        /\ s.why # "task_timeout"
        /\ i = NoRun => s.pc \in Between
        /\ i # NoRun =>
             /\ t # NoTask /\ runs[i] = 1 /\ t.owner = p
             /\ s.pc \in Before => t.status \in {"RUNNING", "ABORTING"} \/ GivenUp(t)
             /\ s.pc \in Counted => t.total_rows = Chunks
             /\ s.pc \in {"infer", "write"} => s.done < Chunks
             /\ s.pc \in {"prepare"} \cup Publishing => s.done = Chunks
             /\ s.pc \in Publishing => t.status = "FINALIZING" \/ GivenUp(t)
             /\ s.pc \in Aborting => t.status \in {"ABORTING"} \cup Terminal
             /\ s.pc \in Saving /\ s.want = "ABORTED" => t.status \in {"ABORTING"} \cup Terminal
             /\ s.pc \in Saving /\ s.want = "DONE" => i \in marked
             /\ i \in marked => s.pc \in Between \cup {"close"} \/ (s.pc \in Saving /\ s.want = "DONE")
             /\ s.pc \in Before \cup Publishing =>
                  late[i] = 0 \/ (s.pc \in {"top", "progress"} /\ TooLate(p))

\* The inductive invariant.
IInv ==
    /\ TypeOK
    /\ \A i \in TaskIds : RunOf(i) /\ RecordOf(i)
    /\ \A p \in Owners : StageOf(p)

(* What the steps use of it.                                               *)
LEMMA InvTypes ==
    ASSUME IInv
    PROVE  /\ tasks \in Snapshots /\ SoundIn(tasks)
           /\ pod \in [Owners -> Slot]
           /\ beat \in [TaskIds -> Beats]
           /\ out \in [Objects -> TaskIds \cup {NoRun}]
           /\ faults \in 0 .. MaxFaults
           /\ runs \in [TaskIds -> Nat] /\ late \in [TaskIds -> Nat]
           /\ marked \in SUBSET TaskIds
           /\ NoRun \notin TaskIds
           /\ Chunks \in Nat /\ Chunks \in 0 .. MaxRows
<1>1. /\ tasks \in Snapshots
      /\ pod \in [Owners -> Slot]
      /\ beat \in [TaskIds -> Beats]
      /\ out \in [Objects -> TaskIds \cup {NoRun}]
      /\ faults \in 0 .. MaxFaults
      /\ runs \in [TaskIds -> Nat] /\ late \in [TaskIds -> Nat]
      /\ marked \in SUBSET TaskIds
  BY DEF IInv, TypeOK, Snapshots, Slot, Beats
<1>2. SoundIn(tasks)
  BY <1>1 DEF IInv, RecordOf, SoundIn, Known
<1>3. NoRun \notin TaskIds /\ Chunks \in Nat /\ Chunks \in 0 .. MaxRows
  BY WorkerAssumption, LimitsAssumption DEF NoRun
<1> QED BY <1>1, <1>2, <1>3

(* A process at work has a task, which it owns.                            *)
LEMMA AtWork ==
    ASSUME IInv, NEW p \in Owners, pod[p].pc \notin Between
    PROVE  /\ Mine(p) \in TaskIds
           /\ Mine(p) # NoRun
           /\ Owned(tasks, Mine(p), p)
           /\ tasks[Mine(p)] \in TaskState
           /\ tasks[Mine(p)].status \in Active \cup Terminal
           /\ tasks[Mine(p)].status \in Active => tasks[Mine(p)].error # "task_timeout"
           /\ runs[Mine(p)] = 1
           /\ pod[p] \in Slot
<1>1. Mine(p) \in TaskIds \cup {NoRun} /\ pod[p] \in Slot
  BY InvTypes DEF Slot, Mine
<1>2. /\ Mine(p) # NoRun /\ tasks[Mine(p)] # NoTask
      /\ runs[Mine(p)] = 1 /\ tasks[Mine(p)].owner = p
  BY DEF IInv, StageOf
<1>3. Owned(tasks, Mine(p), p) /\ RecordOf(Mine(p))
  BY <1>1, <1>2, InvTypes DEF Owned, IInv, RecordOf
<1>4. tasks[Mine(p)].status \in Active => tasks[Mine(p)].error # "task_timeout"
  BY <1>2, <1>3 DEF RecordOf, Active
<1> QED BY <1>1, <1>2, <1>3, <1>4, OwnedGives

-----------------------------------------------------------------------------
(* What a step leaves alone.                                               *)

(* A step of one process that moves only its own slot.                     *)
LEMMA PodStep ==
    ASSUME IInv, NEW p \in Owners, NEW r \in Slot, pod' = [pod EXCEPT ![p] = r],
           r.task = Mine(p),
           UNCHANGED <<tasks, out, runs, marked, late>>,
           beat' \in [TaskIds -> Beats],
           \A i \in TaskIds : runs[i] = 0 => beat'[i] = beat[i],
           faults' \in 0 .. MaxFaults,
           StageOf(p)'
    PROVE  IInv'
<1>1. TypeOK'
  BY InvTypes DEF IInv, TypeOK, Slot, Beats
<1>2. \A q \in Owners : Mine(q)' = Mine(q) /\ (q # p => pod'[q] = pod[q])
  BY InvTypes DEF Mine
<1>3. ASSUME NEW i \in TaskIds
      PROVE  RunOf(i)' /\ RecordOf(i)'
  <2>1. RunOf(i) /\ RecordOf(i)
    BY DEF IInv
  <2>2. RunOf(i)'
    BY <2>1 DEF RunOf
  <2>3. RecordOf(i)'
    BY <1>2, <2>1 DEF RecordOf
  <2> QED BY <2>2, <2>3
<1>4. ASSUME NEW q \in Owners, q # p
      PROVE  StageOf(q)'
  <2>1. StageOf(q)
    BY DEF IInv
  <2>2. Mine(q)' = Mine(q) /\ pod'[q] = pod[q]
    BY <1>2, <1>4
  <2> QED BY <2>1, <2>2 DEF StageOf, TooLate
<1> QED BY <1>1, <1>3, <1>4 DEF IInv

(* A step of one process on its task, or on the one it claims.             *)
LEMMA OwnStep ==
    ASSUME IInv, NEW p \in Owners, NEW i \in TaskIds,
           Mine(p) = i \/ (Mine(p) = NoRun /\ runs[i] = 0),
           NEW u \in TaskState, tasks' = [tasks EXCEPT ![i] = u],
           NEW r \in Slot, pod' = [pod EXCEPT ![p] = r],
           beat' \in [TaskIds -> Beats], runs' \in [TaskIds -> Nat], late' \in [TaskIds -> Nat],
           out' \in [Objects -> TaskIds \cup {NoRun}], marked' \in SUBSET TaskIds,
           \A j \in TaskIds : j # i =>
              /\ beat'[j] = beat[j] /\ runs'[j] = runs[j] /\ late'[j] = late[j]
              /\ j \in marked' <=> j \in marked,
           faults' \in 0 .. MaxFaults,
           RunOf(i)', RecordOf(i)', StageOf(p)'
    PROVE  IInv'
<1>1. TypeOK'
  BY InvTypes DEF IInv, TypeOK, Slot, Beats, Snapshots
<1>2. \A q \in Owners : q # p => Mine(q)' = Mine(q) /\ pod'[q] = pod[q]
  BY InvTypes DEF Mine
<1>3. \A j \in TaskIds : j # i => tasks'[j] = tasks[j]
  BY InvTypes DEF Snapshots
<1>4. ASSUME NEW j \in TaskIds, j # i
      PROVE  RunOf(j)' /\ RecordOf(j)'
  <2>1. RunOf(j) /\ RecordOf(j)
    BY DEF IInv
  <2>2. RunOf(j)'
    BY <1>3, <1>4, <2>1 DEF RunOf
  <2>3. RecordOf(j)'
    <3>1. CASE tasks[j] # NoTask /\ tasks[j].status \in Active /\ runs[j] = 1
      <4>1. tasks[j].owner \in Owners /\ Mine(tasks[j].owner) = j
        BY <2>1, <3>1 DEF RecordOf
      <4>2. tasks[j].owner # p
        BY <1>4, <4>1, InvTypes
      <4> QED BY <1>2, <1>3, <1>4, <2>1, <4>1, <4>2 DEF RecordOf
    <3>2. CASE ~(tasks[j] # NoTask /\ tasks[j].status \in Active /\ runs[j] = 1)
      BY <1>3, <1>4, <2>1, <3>2 DEF RecordOf
    <3> QED BY <3>1, <3>2
  <2> QED BY <2>2, <2>3
<1>5. ASSUME NEW q \in Owners, q # p
      PROVE  StageOf(q)'
  <2>1. StageOf(q) /\ StageOf(p) /\ Mine(q) \in TaskIds \cup {NoRun}
    BY InvTypes DEF IInv, Slot, Mine
  <2>2. Mine(q)' = Mine(q) /\ pod'[q] = pod[q]
    BY <1>2, <1>5
  <2>3. CASE Mine(q) = NoRun
    BY <2>1, <2>2, <2>3 DEF StageOf
  <2>4. CASE Mine(q) # NoRun
    <3>1. Mine(q) # i
      BY <1>5, <2>1, <2>4 DEF StageOf
    <3>2. /\ tasks'[Mine(q)] = tasks[Mine(q)]
          /\ runs'[Mine(q)] = runs[Mine(q)] /\ late'[Mine(q)] = late[Mine(q)]
          /\ Mine(q) \in marked' <=> Mine(q) \in marked
      BY <1>3, <2>1, <2>4, <3>1
    <3> QED BY <2>1, <2>2, <2>4, <3>2 DEF StageOf, TooLate
  <2> QED BY <2>3, <2>4
<1> QED BY <1>1, <1>4, <1>5 DEF IInv

(* A step that lets the records drift.                                     *)
LEMMA DriftStep ==
    ASSUME IInv, AllDrift(tasks, tasks'), UNCHANGED <<pod, out, runs, marked, late>>,
           beat' \in [TaskIds -> Beats],
           \A i \in TaskIds : runs[i] = 0 => beat'[i] = beat[i],
           faults' \in 0 .. MaxFaults
    PROVE  IInv'
<1>1. TypeOK'
  BY InvTypes DEF IInv, TypeOK, Beats, AllDrift, Snapshots
<1>2. ASSUME NEW i \in TaskIds
      PROVE  RunOf(i)' /\ RecordOf(i)'
  <2>1. RunOf(i) /\ RecordOf(i)
    BY DEF IInv
  <2>2. IF tasks[i] = NoTask THEN tasks'[i] = NoTask
        ELSE Drift(tasks[i], tasks'[i]) /\ tasks[i] \in TaskState /\ tasks'[i] # NoTask
    BY InvTypes, NoTaskAssumption DEF AllDrift, Snapshots, Drift
  <2>3. RunOf(i)'
    BY <2>1, <2>2 DEF RunOf
  <2>4. RecordOf(i)'
    BY <2>1, <2>2 DEF RecordOf, Drift, GivenUp, Mine, Active, Terminal
  <2> QED BY <2>3, <2>4
<1>3. ASSUME NEW p \in Owners
      PROVE  StageOf(p)'
  <2>1. StageOf(p) /\ Mine(p) \in TaskIds \cup {NoRun} /\ Mine(p)' = Mine(p)
    BY InvTypes DEF IInv, Slot, Mine
  <2>2. CASE Mine(p) = NoRun
    BY <2>1, <2>2 DEF StageOf
  <2>3. CASE Mine(p) # NoRun
    <3>1. tasks[Mine(p)] # NoTask /\ tasks[Mine(p)].owner = p
      BY <2>1, <2>3 DEF StageOf
    <3>2. Drift(tasks[Mine(p)], tasks'[Mine(p)]) /\ tasks'[Mine(p)] # NoTask
      BY <2>1, <2>3, <3>1, NoTaskAssumption DEF AllDrift, Drift
    <3>3. tasks[Mine(p)].status # "QUEUED"
      BY <2>1, <2>3, <3>1, OwnerAssumption DEF IInv, RecordOf, Sound
    <3>4. TooLate(p) => TooLate(p)'
      BY <2>1, <3>2, <3>3 DEF TooLate, Drift, GivenUp, Active
    <3> QED BY <2>1, <2>3, <3>1, <3>2, <3>3, <3>4 DEF StageOf, Drift, GivenUp, Active, Terminal
  <2> QED BY <2>2, <2>3
<1> QED BY <1>1, <1>2, <1>3 DEF IInv

-----------------------------------------------------------------------------
(* The steps of a run.                                                     *)

\* The stages of a run that has not come to its end.
Working == Before \cup Publishing \cup Aborting

(* Only a process at work is at one of these stages, and it has not put    *)
(* its marker.                                                             *)
LEMMA WorkingGives ==
    ASSUME IInv, NEW p \in Owners, pod[p].pc \in Working
    PROVE  /\ pod[p].pc \notin Between
           /\ Mine(p) \notin marked
           /\ StageOf(p) /\ RunOf(Mine(p)) /\ RecordOf(Mine(p))
<1>1. pod[p].pc \notin Between
  BY DEF Working, Before, Publishing, Aborting, Between
<1>2. StageOf(p) /\ RunOf(Mine(p)) /\ RecordOf(Mine(p))
  BY <1>1, AtWork DEF IInv
<1>3. Mine(p) \notin marked
  BY <1>1, <1>2, AtWork
     DEF StageOf, Working, Before, Publishing, Aborting, Between, Saving
<1> QED BY <1>1, <1>2, <1>3

(* A run that fails goes on to save FAILED.                                *)
LEMMA FailsStage ==
    ASSUME IInv, NEW p \in Owners, pod[p].pc \in Working,
           NEW why \in Errors \ {"task_timeout"}, Fails(p, why),
           NEW u, tasks' = [tasks EXCEPT ![Mine(p)] = u], u # NoTask, u.owner = p,
           runs' = runs, marked' = marked
    PROVE  StageOf(p)'
<1>1. /\ Mine(p) \in TaskIds /\ Mine(p) # NoRun /\ runs[Mine(p)] = 1 /\ Mine(p) \notin marked
      /\ tasks'[Mine(p)] = u
  BY WorkingGives, AtWork, InvTypes DEF Snapshots
<1>2. /\ pod'[p].pc = "save" /\ pod'[p].want = "FAILED" /\ pod'[p].why = why
      /\ Mine(p)' = Mine(p)
  BY InvTypes DEF Fails, Save, Slot, Mine
<1> QED BY <1>1, <1>2
       DEF StageOf, Working, Before, Counted, Publishing, Aborting, Saving, Between

(* Save and Goto keep the shape of a slot.                                 *)
LEMMA SaveSlot ==
    ASSUME IInv, NEW p \in Owners, NEW want \in Terminal, NEW why \in Errors, Save(p, want, why)
    PROVE  \E r \in Slot : pod' = [pod EXCEPT ![p] = r] /\ r.task = Mine(p)
<1> DEFINE r == [pod[p] EXCEPT !.pc = "save", !.want = want, !.why = why]
<1>1. pod[p] \in Slot /\ "save" \in Stages
  BY InvTypes DEF Stages
<1>2. r \in Slot /\ r.task = pod[p].task
  BY <1>1 DEF Slot
<1>3. pod' = [pod EXCEPT ![p] = r]
  BY InvTypes DEF Save
<1> QED BY <1>2, <1>3 DEF Mine

(* Goto moves the stage and nothing else.                                  *)
LEMMA GotoSlot ==
    ASSUME IInv, NEW p \in Owners, NEW stage \in Stages, Goto(p, stage)
    PROVE  /\ \E r \in Slot : pod' = [pod EXCEPT ![p] = r] /\ r.task = Mine(p)
           /\ pod'[p].pc = stage /\ Mine(p)' = Mine(p)
           /\ pod'[p].done = pod[p].done /\ pod'[p].want = pod[p].want
           /\ pod'[p].why = pod[p].why /\ pod'[p].stop = pod[p].stop
<1> DEFINE r == [pod[p] EXCEPT !.pc = stage]
<1>1. /\ r \in Slot /\ r.task = pod[p].task /\ r.pc = stage
      /\ r.done = pod[p].done /\ r.want = pod[p].want /\ r.why = pod[p].why
      /\ r.stop = pod[p].stop
  BY InvTypes DEF Slot
<1>2. pod' = [pod EXCEPT ![p] = r]
  BY DEF Goto
<1> HIDE DEF r
<1>3. pod'[p] = r
  BY <1>2, InvTypes
<1> QED BY <1>1, <1>2, <1>3 DEF Mine

(* A run that fails without touching the store.                            *)
LEMMA FailsKeeps ==
    ASSUME IInv, NEW p \in Owners, pod[p].pc \in Working,
           NEW why \in Errors \ {"task_timeout"}, Fails(p, why),
           UNCHANGED <<tasks, beat, out, history>>, faults' \in 0 .. MaxFaults
    PROVE  IInv'
<1>1. Mine(p) \in TaskIds /\ tasks[Mine(p)] # NoTask /\ tasks[Mine(p)].owner = p
  BY WorkingGives, AtWork DEF Owned
<1>2. tasks' = [tasks EXCEPT ![Mine(p)] = tasks[Mine(p)]]
  BY <1>1, InvTypes DEF Snapshots
<1>3. StageOf(p)'
  BY <1>1, <1>2, FailsStage DEF history
<1>4. PICK r \in Slot : pod' = [pod EXCEPT ![p] = r] /\ r.task = Mine(p)
  BY SaveSlot DEF Fails, Terminal
<1> QED BY <1>3, <1>4, InvTypes, PodStep DEF history

(* An error of the model, of the input or of S3.                           *)
LEMMA BreaksKeeps ==
    ASSUME IInv, NEW p \in Owners, pod[p].pc \in Working,
           NEW why \in Errors \ {"task_timeout"}, Breaks(p, why)
    PROVE  IInv'
BY FailsKeeps, InvTypes DEF Breaks

(* The faults stay within their bound.                                     *)
LEMMA FaultTypes ==
    ASSUME IInv, Fault
    PROVE  faults' \in 0 .. MaxFaults
BY InvTypes, WorkerAssumption DEF Fault

(* No run reports a timeout: only the store does.                          *)
LEMMA ReasonTypes ==
    ASSUME NEW p
    PROVE  /\ Reason(p) \in Errors \ {"task_timeout"}
           /\ {"storage", "failure", "none"} \subseteq Errors \ {"task_timeout"}
BY DEF Reason, Errors

\* Where a run may go on after a check that passed.
FitsNext(p, next) ==
    /\ next \in Before \cup {"close"}
    /\ next \in Counted => tasks[Mine(p)].total_rows = Chunks
    /\ next \in {"infer", "write"} => pod[p].done < Chunks
    /\ next = "prepare" => pod[p].done = Chunks

(* A check lets only a RUNNING task go on, one that has not written late.  *)
LEMMA CheckKeeps ==
    ASSUME IInv, NEW p \in Owners, pod[p].pc \in Before,
           NEW next, FitsNext(p, next), NEW aborts \in SUBSET Aborting,
           Check(p, next, aborts)
    PROVE  IInv'
<1> DEFINE i == Mine(p)
           t == tasks[i]
<1>1. pod[p].pc \in Working /\ pod[p].pc \notin Between
  BY DEF Working, Before, Between
<1>2. /\ i \in TaskIds /\ i # NoRun /\ i \notin marked /\ runs[i] = 1
      /\ t # NoTask /\ t.owner = p /\ Sound(t)
      /\ StageOf(p) /\ RunOf(i)
  BY <1>1, AtWork, WorkingGives DEF Owned
<1>3. t.status \in {"RUNNING", "ABORTING"} \/ GivenUp(t)
  BY <1>2 DEF StageOf
<1>4. CASE CheckPasses(p) /\ Goto(p, next) /\ UNCHANGED faults
  <2>1. t.status = "RUNNING" /\ ~pod[p].stop
    BY <1>3, <1>4 DEF CheckPasses, CancelSeen, CheckRaises, ShutdownSeen, GivenUp, Active
  <2>2. late[i] = 0
    BY <1>2, <2>1 DEF StageOf, TooLate
  <2>3. next \in Stages
    BY DEF FitsNext, Before, Stages
  <2>4. /\ pod'[p].pc = next /\ Mine(p)' = i /\ pod'[p].done = pod[p].done
        /\ pod'[p].why = pod[p].why
    BY <1>4, <2>3, GotoSlot
  <2>5. StageOf(p)'
    BY <1>2, <2>1, <2>2, <2>4
       DEF StageOf, Check, history, FitsNext, Before, Counted, Publishing, Aborting, Saving, Between
  <2>6. PICK r \in Slot : pod' = [pod EXCEPT ![p] = r] /\ r.task = Mine(p)
    BY <1>4, <2>3, GotoSlot
  <2> QED BY <1>4, <2>5, <2>6, InvTypes, PodStep DEF Check, history
<1>5. ASSUME NEW a \in aborts, CancelSeen(p), Goto(p, a), UNCHANGED faults
      PROVE  IInv'
  <2>1. t.status = "ABORTING"
    BY <1>2, <1>5 DEF CancelSeen, Sound
  <2>2. a \in Stages /\ a \in Aborting
    BY DEF Aborting, Stages
  <2>3. /\ pod'[p].pc = a /\ Mine(p)' = i /\ pod'[p].done = pod[p].done
        /\ pod'[p].why = pod[p].why
    BY <1>5, <2>2, GotoSlot
  <2>4. StageOf(p)'
    BY <1>2, <2>1, <2>2, <2>3
       DEF StageOf, Check, history, Before, Counted, Publishing, Aborting, Saving, Between
  <2>5. PICK r \in Slot : pod' = [pod EXCEPT ![p] = r] /\ r.task = Mine(p)
    BY <1>5, <2>2, GotoSlot
  <2> QED BY <1>5, <2>4, <2>5, InvTypes, PodStep DEF Check, history
<1>6. CASE CheckRaises(p) /\ Fails(p, Reason(p)) /\ UNCHANGED faults
  BY <1>1, <1>6, FailsKeeps, ReasonTypes, InvTypes DEF Check
<1>7. CASE Fault /\ Fails(p, "storage")
  BY <1>1, <1>7, FailsKeeps, ReasonTypes, FaultTypes DEF Check
<1> QED BY <1>4, <1>5, <1>6, <1>7 DEF Check

(* The stages that only check.                                             *)
LEMMA ChecksKeep ==
    ASSUME IInv, NEW p \in Owners,
           Begin(p) \/ Load(p) \/ Validate(p) \/ Recount(p) \/ Top(p) \/ Infer(p)
    PROVE  IInv'
<1>1. pod[p].pc \in Before /\ pod[p].pc \in Working
  BY DEF Begin, Load, Validate, Recount, Top, Infer, At, Before, Working
<1>2. StageOf(p) /\ Mine(p) # NoRun
  BY <1>1, WorkingGives, AtWork
<1>3. {"abort"} \in SUBSET Aborting /\ {"abort_handler"} \in SUBSET Aborting
      /\ {"abort", "abort_handler"} \in SUBSET Aborting
  BY DEF Aborting
<1>4. CASE Breaks(p, "failure")
  BY <1>1, <1>4, BreaksKeeps, ReasonTypes
<1>5. ASSUME NEW next, NEW aborts \in SUBSET Aborting, Check(p, next, aborts),
             pod[p].pc \in Counted \/ next \notin Counted,
             next \in {"load", "validate", "count", "close"}
               \/ (next \in {"infer", "write"} /\ pod[p].done < Chunks)
               \/ (next = "prepare" /\ pod[p].done = Chunks)
      PROVE  IInv'
  <2>1. FitsNext(p, next)
    BY <1>2, <1>5 DEF FitsNext, StageOf, Before
  <2> QED BY <1>1, <1>5, <2>1, CheckKeeps
<1>6. pod[p].pc = "infer" => pod[p].done < Chunks
  BY <1>2 DEF StageOf
<1> QED BY <1>3, <1>4, <1>5, <1>6 DEF Begin, Load, Validate, Recount, Top, Infer, At, Counted

-----------------------------------------------------------------------------
(* The steps of a run that call the store.                                 *)

\* What the record of a run may become in a call of the run.
Fits(i, w) ==
    /\ w \in TaskState /\ Sound(w)
    /\ w.owner = tasks[i].owner /\ w.created_at = tasks[i].created_at
    /\ w.error = "task_timeout" => w.status = "FAILED"
    /\ w.status = "FINALIZING" => w.processed_rows = w.total_rows
    /\ w.status = "DONE" => i \in marked /\ w.processed_rows = w.total_rows
    /\ i \in marked => w.status \in {"FINALIZING", "DONE"} \/ GivenUp(w)

(* What others do to the record fits the run.                              *)
LEMMA DriftFits ==
    ASSUME IInv, NEW p \in Owners, pod[p].pc \notin Between, NEW w, Drift(tasks[Mine(p)], w)
    PROVE  Fits(Mine(p), w)
<1>1. /\ RecordOf(Mine(p)) /\ tasks[Mine(p)] # NoTask
      /\ tasks[Mine(p)].status \in Active \cup Terminal
      /\ tasks[Mine(p)].status \in Active => tasks[Mine(p)].error # "task_timeout"
  BY AtWork DEF IInv, Owned
<1> QED BY <1>1 DEF Fits, RecordOf, Drift, GivenUp, Active, Terminal

(* A call of a run leaves every other record alone.                        *)
LEMMA CallStep ==
    ASSUME IInv, NEW p \in Owners, pod[p].pc \notin Between,
           NEW w, Fits(Mine(p), w), tasks' = [tasks EXCEPT ![Mine(p)] = w],
           NEW r \in Slot, pod' = [pod EXCEPT ![p] = r], r.task = Mine(p),
           UNCHANGED <<beat, out, history>>, faults' \in 0 .. MaxFaults,
           StageOf(p)'
    PROVE  IInv'
<1>1. PICK i \in TaskIds : Mine(p) = i
  BY AtWork
<1>2. /\ i \in TaskIds /\ i # NoRun /\ runs[i] = 1
      /\ tasks[i] # NoTask /\ tasks[i].owner = p
      /\ RunOf(i) /\ RecordOf(i)
  BY <1>1, AtWork DEF IInv, Owned
<1>3. Fits(i, w) /\ w \in TaskState /\ w # NoTask /\ w.status # "QUEUED" /\ w.owner = p
  BY <1>1, <1>2, NoTaskAssumption, OwnerAssumption DEF Fits, Sound
<1>4. tasks'[i] = w /\ Mine(p)' = i
  BY <1>1, <1>2, InvTypes DEF Snapshots, Mine
<1>5. RunOf(i)'
  BY <1>2, <1>3, <1>4 DEF RunOf, history
<1>6. RecordOf(i)'
  BY <1>2, <1>3, <1>4 DEF RecordOf, Fits, GivenUp, history
<1>7. /\ beat' \in [TaskIds -> Beats] /\ runs' \in [TaskIds -> Nat] /\ late' \in [TaskIds -> Nat]
      /\ out' \in [Objects -> TaskIds \cup {NoRun}] /\ marked' \in SUBSET TaskIds
      /\ \A j \in TaskIds : j # i =>
              /\ beat'[j] = beat[j] /\ runs'[j] = runs[j] /\ late'[j] = late[j]
              /\ j \in marked' <=> j \in marked
  BY InvTypes DEF history
<1>8. tasks' = [tasks EXCEPT ![i] = w]
  BY <1>1
<1> QED BY <1>1, <1>2, <1>3, <1>5, <1>6, <1>7, <1>8, OwnStep

(* A call that is not answered may have had its effect, or not.            *)
LEMMA CallLeaves ==
    ASSUME IInv, NEW i \in TaskIds, NEW change, NEW u, Replaces(tasks, i, change, u),
           Answered(change) \/ Unanswered(change)
    PROVE  /\ faults' \in 0 .. MaxFaults
           /\ \E w \in {tasks[i], u} :
                 tasks' = [tasks EXCEPT ![i] = w] /\ (Answered(change) => w = u)
<1>1. tasks = [tasks EXCEPT ![i] = tasks[i]]
  BY InvTypes DEF Snapshots
<1>2. faults' \in 0 .. MaxFaults
  BY InvTypes, FaultTypes DEF Answered, Unanswered
<1>3. CASE Answered(change)
  BY <1>2, <1>3 DEF Answered, Replaces
<1>4. CASE ~Answered(change)
  BY <1>1, <1>2, <1>4 DEF Unanswered, Replaces
<1> QED BY <1>3, <1>4

(* A run whose call fails goes on to save FAILED.                          *)
LEMMA CallFails ==
    ASSUME IInv, NEW p \in Owners, pod[p].pc \in Working, Fails(p, "storage"),
           NEW w, Fits(Mine(p), w), tasks' = [tasks EXCEPT ![Mine(p)] = w],
           UNCHANGED <<beat, out, history>>, faults' \in 0 .. MaxFaults
    PROVE  IInv'
<1>1. pod[p].pc \notin Between
  BY WorkingGives
<1>2. w # NoTask /\ w.owner = p
  BY <1>1, AtWork, NoTaskAssumption DEF Fits, Owned
<1>3. StageOf(p)'
  BY <1>2, FailsStage, ReasonTypes DEF history
<1>4. PICK r \in Slot : pod' = [pod EXCEPT ![p] = r] /\ r.task = Mine(p)
  BY SaveSlot, ReasonTypes DEF Fails, Terminal
<1> QED BY <1>1, <1>3, <1>4, CallStep

(* set_total_rows.                                                         *)
LEMMA CountKeeps ==
    ASSUME IInv, NEW p \in Owners, Count(p)
    PROVE  IInv'
<1> DEFINE i == Mine(p)
           t == tasks[i]
           change == set_total_rows(tasks, i, p, Chunks, 0)
<1>1. /\ pod[p].pc = "count" /\ pod[p].pc \notin Between /\ pod[p].pc \in Working
      /\ UNCHANGED <<beat, out, history>>
  BY DEF Count, At, Working, Before, Between
<1>2. /\ i \in TaskIds /\ i # NoRun /\ i \notin marked /\ runs[i] = 1
      /\ t \in TaskState /\ t # NoTask /\ t.owner = p /\ Sound(t) /\ Owned(tasks, i, p)
      /\ StageOf(p) /\ RunOf(i) /\ RecordOf(i)
      /\ Drift(t, t) /\ Chunks \in 0 .. MaxRows
  BY <1>1, AtWork, WorkingGives, InvTypes, StayDrifts DEF Owned
<1>3. /\ t.status \in {"RUNNING", "ABORTING"} \/ GivenUp(t)
      /\ late[i] = 0
  BY <1>1, <1>2 DEF StageOf, Before
<1>4. PICK u : Replaces(tasks, i, change, u) /\ Counts(t, u, Chunks, change)
  BY <1>2, SetTotalRowsEffect
<1>5. Fits(i, u) /\ Fits(i, t)
  BY <1>1, <1>2, <1>4, DriftFits DEF Fits, Counts, Sound, RecordOf
<1> HIDE DEF change
<1>6. PICK w \in {t, u} : tasks' = [tasks EXCEPT ![i] = w] /\ (Answered(change) => w = u)
  BY <1>1, <1>2, <1>4, CallLeaves DEF Count, change
<1>7. faults' \in 0 .. MaxFaults
  BY <1>1, <1>2, <1>4, CallLeaves DEF Count, change
<1>8. CASE Answered(change) /\ Goto(p, IF Yes(change) THEN "inspect" ELSE "recount")
  <2> DEFINE stage == IF Yes(change) THEN "inspect" ELSE "recount"
  <2>1. stage \in {"inspect", "recount"} /\ stage \in Stages /\ (stage = "inspect" => Yes(change))
    BY DEF Stages
  <2>2. Goto(p, stage)
    BY <1>8
  <2> HIDE DEF stage
  <2>3. /\ pod'[p].pc = stage /\ Mine(p)' = i /\ pod'[p].done = pod[p].done
        /\ pod'[p].why = pod[p].why
    BY <2>1, <2>2, GotoSlot
  <2>4. PICK r \in Slot : pod' = [pod EXCEPT ![p] = r] /\ r.task = i
    BY <2>1, <2>2, GotoSlot
  <2>5. tasks'[i] = u /\ u # NoTask /\ u.owner = p
    BY <1>2, <1>5, <1>6, <1>8, InvTypes, NoTaskAssumption DEF Snapshots, Fits
  <2>6. u.status \in {"RUNNING", "ABORTING"} \/ GivenUp(u)
    BY <1>3, <1>4 DEF Counts, Drift, GivenUp, Terminal
  <2>7. stage = "inspect" => u.total_rows = Chunks
    BY <1>4, <2>1 DEF Counts
  <2>8. StageOf(p)'
    BY <1>1, <1>2, <1>3, <2>1, <2>3, <2>5, <2>6, <2>7
       DEF StageOf, history, Before, Counted, Publishing, Aborting, Saving, Between
  <2> QED BY <1>1, <1>5, <1>6, <1>7, <1>8, <2>4, <2>8, CallStep
<1>9. CASE Unanswered(change) /\ Fails(p, "storage")
  BY <1>1, <1>5, <1>6, <1>7, <1>9, CallFails
<1> QED BY <1>8, <1>9 DEF Count, change

(* update_progress, after a write and in abort().                          *)
LEMMA ProgressKeeps ==
    ASSUME IInv, NEW p \in Owners, Progress(p) \/ Abort(p)
    PROVE  IInv'
<1> DEFINE i == Mine(p)
           t == tasks[i]
           change == update_progress(tasks, i, p, pod[p].done, 0)
<1>1. /\ pod[p].pc \in {"progress", "abort", "abort_handler"}
      /\ pod[p].pc \notin Between /\ pod[p].pc \in Working
      /\ UNCHANGED <<beat, out, history>>
      /\ Answered(change) \/ Unanswered(change)
  BY DEF Progress, Abort, At, Working, Before, Aborting, Between
<1>2. /\ i \in TaskIds /\ i # NoRun /\ i \notin marked /\ runs[i] = 1
      /\ t \in TaskState /\ t # NoTask /\ t.owner = p /\ Sound(t) /\ Owned(tasks, i, p)
      /\ StageOf(p) /\ RunOf(i) /\ RecordOf(i)
      /\ Drift(t, t)
      /\ pod[p].done \in 0 .. MaxRows
  <2>1. pod[p].done \in 0 .. Chunks
    BY InvTypes DEF Slot
  <2>2. pod[p].done \in 0 .. MaxRows
    BY <2>1, InvTypes, LimitsAssumption
  <2> QED BY <1>1, <2>2, AtWork, WorkingGives, StayDrifts DEF Owned
<1>3. t.status \in {"RUNNING", "ABORTING"} \cup Terminal /\ t.status # "FINALIZING"
  BY <1>1, <1>2 DEF StageOf, Before, Aborting, Terminal, GivenUp
<1>4. PICK u : Replaces(tasks, i, change, u) /\ Progresses(t, u, pod[p].done)
  BY <1>2, InvTypes, UpdateProgressEffect
<1>5. \/ Drift(t, u)
      \/ /\ t.status \in {"RUNNING", "ABORTING"} /\ u \in TaskState
         /\ u.owner = t.owner /\ u.created_at = t.created_at /\ u.status = t.status
         /\ u.error = t.error /\ u.cancel_requested = t.cancel_requested
         /\ u.total_rows = t.total_rows
  BY <1>2, <1>3, <1>4 DEF Progresses, Active
<1>6. Fits(i, u) /\ Fits(i, t)
  BY <1>1, <1>2, <1>5, DriftFits DEF Fits, Sound, RecordOf
<1> HIDE DEF change
<1>7. PICK w \in {t, u} : tasks' = [tasks EXCEPT ![i] = w]
  BY <1>1, <1>2, <1>4, CallLeaves
<1>8. faults' \in 0 .. MaxFaults
  BY <1>1, <1>2, <1>4, CallLeaves
<1>9. /\ tasks'[i] = w /\ w # NoTask /\ w.owner = p /\ Fits(i, w)
      /\ w.total_rows = t.total_rows
      /\ pod[p].pc = "progress" => w.status \in {"RUNNING", "ABORTING"} \/ GivenUp(w)
      /\ pod[p].pc \in Aborting => w.status \in {"ABORTING"} \cup Terminal
      /\ TooLate(p) => w.status \notin {"RUNNING", "FINALIZING"} \/ pod[p].stop
  <2>1. pod[p].pc = "progress" => t.status \in {"RUNNING", "ABORTING"} \/ GivenUp(t)
    BY <1>2 DEF StageOf, Before
  <2>2. pod[p].pc \in Aborting => t.status \in {"ABORTING"} \cup Terminal
    BY <1>2 DEF StageOf
  <2>3. tasks'[i] = w /\ Fits(i, w) /\ w # NoTask
    BY <1>2, <1>6, <1>7, InvTypes, NoTaskAssumption DEF Snapshots, Fits
  <2>4. w.total_rows = t.total_rows /\ w.owner = p
    BY <1>2, <1>5, <1>7 DEF Drift
  <2>5. w = t \/ Drift(t, w) \/ (w.status = t.status /\ w.error = t.error)
    BY <1>5, <1>7
  <2>6. pod[p].pc = "progress" => w.status \in {"RUNNING", "ABORTING"} \/ GivenUp(w)
    BY <2>1, <2>5 DEF Drift, GivenUp, Terminal
  <2>7. pod[p].pc \in Aborting => w.status \in {"ABORTING"} \cup Terminal
    BY <2>2, <2>5 DEF Drift, GivenUp, Terminal
  <2>8. TooLate(p) => w.status \notin {"RUNNING", "FINALIZING"} \/ pod[p].stop
    BY <1>3, <2>5 DEF TooLate, Drift, GivenUp, Terminal
  <2> QED BY <2>3, <2>4, <2>6, <2>7, <2>8
<1>10. CASE At(p, "progress") /\ Goto(p, "top")
  <2>1. /\ pod'[p].pc = "top" /\ Mine(p)' = i /\ pod'[p].done = pod[p].done
        /\ pod'[p].why = pod[p].why /\ pod'[p].stop = pod[p].stop
    BY <1>10, GotoSlot DEF Stages
  <2>2. PICK r \in Slot : pod' = [pod EXCEPT ![p] = r] /\ r.task = i
    BY <1>10, GotoSlot DEF Stages
  <2>3. TooLate(p) => TooLate(p)'
    BY <1>9, <2>1 DEF TooLate
  <2>4. StageOf(p)'
    BY <1>1, <1>2, <1>9, <1>10, <2>1, <2>3
       DEF StageOf, At, history, Before, Counted, Publishing, Aborting, Saving, Between
  <2> QED BY <1>1, <1>7, <1>8, <1>9, <2>2, <2>4, CallStep
<1>11. CASE Fails(p, "storage")
  BY <1>1, <1>7, <1>8, <1>9, <1>11, CallFails
<1>12. CASE pod[p].pc \in Aborting /\ Save(p, "ABORTED", "none")
  <2>1. /\ pod'[p].pc = "save" /\ Mine(p)' = i /\ pod'[p].want = "ABORTED"
        /\ pod'[p].why = "none"
    BY <1>12, InvTypes DEF Save, Slot, Mine
  <2>2. PICK r \in Slot : pod' = [pod EXCEPT ![p] = r] /\ r.task = i
    BY <1>12, SaveSlot, ReasonTypes DEF Terminal
  <2>3. StageOf(p)'
    BY <1>1, <1>2, <1>9, <1>12, <2>1
       DEF StageOf, history, Before, Counted, Publishing, Aborting, Saving, Between
  <2> QED BY <1>1, <1>7, <1>8, <1>9, <2>2, <2>3, CallStep
<1>13. CASE Goto(p, "close")
  <2>1. /\ pod'[p].pc = "close" /\ Mine(p)' = i /\ pod'[p].done = pod[p].done
        /\ pod'[p].why = pod[p].why
    BY <1>13, GotoSlot DEF Stages
  <2>2. PICK r \in Slot : pod' = [pod EXCEPT ![p] = r] /\ r.task = i
    BY <1>13, GotoSlot DEF Stages
  <2>3. StageOf(p)'
    BY <1>1, <1>2, <1>9, <2>1
       DEF StageOf, history, Before, Counted, Publishing, Aborting, Saving, Between
  <2> QED BY <1>1, <1>7, <1>8, <1>9, <2>2, <2>3, CallStep
<1> QED BY <1>10, <1>11, <1>12, <1>13 DEF Progress, Abort, At, Aborting

-----------------------------------------------------------------------------
(* Claims.                                                                 *)

\* The record a claim returns: the process's own, or one out of the queue.
Claims(t, u, p) ==
    /\ u \in TaskState /\ Sound(u)
    /\ u.owner = p /\ u.created_at = t.created_at /\ u.error = t.error
    /\ \/ t.status \in Active /\ t.owner = p /\ u = t
       \/ t.status = "QUEUED" /\ u.status = "RUNNING"

(* A claim finds nothing, the task of the process, or a queued one.        *)
LEMMA ClaimEffect ==
    ASSUME NEW S, SoundIn(S), \A i \in Known(S) : S[i].created_at >= 0,
           NEW p \in Owners, NEW models, NEW now \in Int, NEW change,
           change = claim_next(S, p, models, now)
    PROVE  \/ change.result.kind = "None" /\ change.tasks = S
           \/ \E i \in Known(S) : \E u :
                 /\ change.result.kind = "Value" /\ change.result.value = i
                 /\ Replaces(S, i, change, u)
                 /\ Claims(S[i], u, p)
<1> DEFINE C == Candidates(S, models)
           i == Oldest(S, C)
           u == [S[i] EXCEPT !.status = "RUNNING", !.owner = p, !.last_modified = now]
           own == CHOOSE j \in OwnedActive(S, p) : TRUE
<1>1. S \in Snapshots
  BY DEF SoundIn
<1>2. change = IF OwnedActive(S, p) # {} THEN Leave(S, Value(own))
               ELSE IF C = {} THEN Leave(S, None) ELSE Put(S, i, u, Value(i))
  BY DEF claim_next
<1>3. CASE OwnedActive(S, p) # {}
  <2>1. own \in OwnedActive(S, p)
    BY <1>3
  <2> HIDE DEF own
  <2>2. own \in Known(S) /\ S[own].owner = p /\ S[own].status \in Active
    BY <2>1 DEF OwnedActive
  <2>3. change.result.kind = "Value" /\ change.result.value = own /\ change.tasks = S
    BY <1>2, <1>3 DEF Leave, Value
  <2>4. Replaces(S, own, change, S[own])
    BY <1>1, <2>2, <2>3 DEF Replaces, Snapshots, Known
  <2>5. Claims(S[own], S[own], p)
    BY <1>1, <2>2 DEF Claims, SoundIn, Snapshots, Known
  <2> QED BY <2>2, <2>3, <2>4, <2>5
<1>4. CASE OwnedActive(S, p) = {} /\ C = {}
  BY <1>2, <1>4 DEF Leave, None
<1>5. CASE OwnedActive(S, p) = {} /\ C # {}
  <2>1. C \in SUBSET Known(S)
    BY DEF Candidates
  <2>2. i \in C
    BY <1>1, <1>5, <2>1, OldestIsCandidate
  <2>3. change = Put(S, i, u, Value(i))
    BY <1>2, <1>5
  <2> HIDE DEF i
  <2>4. i \in Known(S) /\ i \in TaskIds /\ S[i].status = "QUEUED"
    BY <2>1, <2>2 DEF Candidates, Known
  <2>5. S[i] \in TaskState /\ Sound(S[i])
    BY <1>1, <2>4 DEF SoundIn, Snapshots, Known
  <2>6. /\ u \in TaskState /\ u.owner = p /\ u.status = "RUNNING"
        /\ u.created_at = S[i].created_at /\ u.error = S[i].error
        /\ u.cancel_requested = S[i].cancel_requested
    BY <2>5 DEF TaskState, Status, Active
  <2> HIDE DEF u
  <2>7. Claims(S[i], u, p)
    BY <2>4, <2>5, <2>6 DEF Claims, Sound
  <2>8. Replaces(S, i, change, u)
    BY <1>1, <2>3, <2>4, PutReplaces
  <2>9. change.result.kind = "Value" /\ change.result.value = i
    BY <2>3 DEF Put, Value
  <2> QED BY <2>4, <2>7, <2>8, <2>9
<1> QED BY <1>3, <1>4, <1>5

(* Creation times are comparable: what the oldest is chosen by.            *)
LEMMA CreatedInTime ==
    ASSUME IInv
    PROVE  \A i \in Known(tasks) : tasks[i].created_at >= 0
BY DEF IInv, RecordOf, Known

(* A process without a task is given one that never ran.                   *)
LEMMA ClaimsFresh ==
    ASSUME IInv, NEW p \in Owners, Mine(p) = NoRun, NEW i \in Known(tasks), NEW u,
           Claims(tasks[i], u, p)
    PROVE  /\ i \in TaskIds /\ i # NoRun /\ tasks[i] # NoTask
           /\ runs[i] = 0 /\ late[i] = 0 /\ i \notin marked /\ beat[i] = "none"
           /\ u.status \in {"RUNNING", "ABORTING"} /\ u.error # "task_timeout"
           /\ u # NoTask
<1>1. i \in TaskIds /\ i # NoRun /\ tasks[i] # NoTask /\ RecordOf(i) /\ RunOf(i)
      /\ runs[i] \in Nat
  BY InvTypes DEF Known, IInv
<1>2. runs[i] # 1
  <2>1. CASE tasks[i].status = "QUEUED"
    BY <1>1, <2>1 DEF RecordOf
  <2>2. CASE tasks[i].status \in Active /\ tasks[i].owner = p
    BY <1>1, <2>2 DEF RecordOf
  <2> QED BY <2>1, <2>2 DEF Claims
<1>3. runs[i] = 0
  BY <1>1, <1>2 DEF RunOf
<1>4. u.status \in {"RUNNING", "ABORTING"} /\ u.error # "task_timeout"
  BY <1>1, <1>3 DEF Claims, RecordOf, Active
<1> QED BY <1>1, <1>3, <1>4, NoTaskAssumption DEF RunOf, Claims

(* claim_next.                                                             *)
LEMMA ClaimKeeps ==
    ASSUME IInv, NEW p \in Owners, Claim(p)
    PROVE  IInv'
<1> DEFINE change == claim_next(tasks, p, Models, 0)
<1>1. /\ pod[p].pc = "claim" /\ StageOf(p) /\ Mine(p) = NoRun
      /\ pod[p] \in Slot
      /\ UNCHANGED <<out, marked, late>>
  BY InvTypes DEF Claim, At, IInv, StageOf
<1>2. \/ change.result.kind = "None" /\ change.tasks = tasks
      \/ \E i \in Known(tasks) : \E u :
            /\ change.result.kind = "Value" /\ change.result.value = i
            /\ Replaces(tasks, i, change, u)
            /\ Claims(tasks[i], u, p)
  <2>1. 0 \in Int
    OBVIOUS
  <2> QED BY <2>1, ClaimEffect, CreatedInTime, InvTypes
<1>3. \/ /\ change.result.kind = "Value"
         /\ Answered(change)
         /\ pod' = [pod EXCEPT ![p].pc = "begin", ![p].task = change.result.value, ![p].done = 0]
         /\ beat' = [beat EXCEPT ![change.result.value] = "alive"]
         /\ runs' = [runs EXCEPT ![change.result.value] = @ + 1]
      \/ /\ Unanswered(change) \/ (Answered(change) /\ change.result.kind = "None")
         /\ Goto(p, "loop")
         /\ UNCHANGED <<beat, runs>>
  BY DEF Claim
<1> HIDE DEF change
<1>4. ASSUME Goto(p, "loop")
      PROVE  /\ \E r \in Slot : pod' = [pod EXCEPT ![p] = r] /\ r.task = Mine(p)
             /\ pod'[p].pc = "loop" /\ Mine(p)' = NoRun /\ pod'[p].why = pod[p].why
  BY <1>1, <1>4, GotoSlot DEF Stages
<1>5. ASSUME Goto(p, "loop")
      PROVE  StageOf(p)'
  BY <1>1, <1>4, <1>5 DEF StageOf, Between
<1>6. CASE tasks' = tasks /\ Goto(p, "loop") /\ UNCHANGED <<beat, runs>> /\ faults' \in 0 .. MaxFaults
  <2>1. PICK r \in Slot : pod' = [pod EXCEPT ![p] = r] /\ r.task = Mine(p)
    BY <1>4, <1>6
  <2> QED BY <1>1, <1>5, <1>6, <2>1, InvTypes, PodStep
<1>7. ASSUME NEW i \in Known(tasks), NEW u,
             change.result.kind = "Value", change.result.value = i,
             Replaces(tasks, i, change, u), Claims(tasks[i], u, p)
      PROVE  IInv'
  <2>1. /\ i \in TaskIds /\ i # NoRun /\ tasks[i] # NoTask
        /\ runs[i] = 0 /\ late[i] = 0 /\ i \notin marked /\ beat[i] = "none"
        /\ u.status \in {"RUNNING", "ABORTING"} /\ u.error # "task_timeout"
        /\ u # NoTask /\ u \in TaskState /\ u.owner = p
        /\ RecordOf(i)
    BY <1>1, <1>7, ClaimsFresh DEF Claims, IInv
  <2>2. CASE Goto(p, "loop") /\ Unanswered(change) /\ UNCHANGED <<beat, runs>> /\ tasks' # tasks
    <3>1. tasks' = [tasks EXCEPT ![i] = u] /\ faults' \in 0 .. MaxFaults
      BY <1>7, <2>2, FaultTypes DEF Unanswered, Replaces
    <3>2. tasks'[i] = u
      BY <2>1, <3>1, InvTypes DEF Snapshots
    <3>3. RunOf(i)'
      BY <1>1, <2>1, <2>2, <3>2 DEF RunOf
    <3>4. RecordOf(i)'
      BY <1>1, <1>7, <2>1, <2>2, <3>2 DEF RecordOf, Claims
    <3>5. PICK r \in Slot : pod' = [pod EXCEPT ![p] = r]
      BY <1>4, <2>2
    <3>6. StageOf(p)'
      BY <1>5, <2>2
    <3> QED BY <1>1, <2>1, <2>2, <3>1, <3>3, <3>4, <3>5, <3>6, InvTypes, OwnStep
  <2>3. CASE /\ Answered(change)
             /\ pod' = [pod EXCEPT ![p].pc = "begin", ![p].task = i, ![p].done = 0]
             /\ beat' = [beat EXCEPT ![i] = "alive"]
             /\ runs' = [runs EXCEPT ![i] = @ + 1]
    <3>1. tasks' = [tasks EXCEPT ![i] = u] /\ faults' \in 0 .. MaxFaults
      BY <1>7, <2>3, InvTypes DEF Answered, Replaces
    <3>2. /\ tasks'[i] = u /\ runs'[i] = 1 /\ beat' \in [TaskIds -> Beats]
          /\ runs' \in [TaskIds -> Nat]
          /\ \A j \in TaskIds : j # i => beat'[j] = beat[j] /\ runs'[j] = runs[j]
      BY <2>1, <2>3, <3>1, InvTypes DEF Snapshots, Beats
    <3> DEFINE r == [pod[p] EXCEPT !.pc = "begin", !.task = i, !.done = 0]
    <3>3. pod' = [pod EXCEPT ![p] = r]
      BY <2>3, InvTypes
    <3>4. "begin" \in Stages /\ 0 \in 0 .. Chunks
      BY InvTypes DEF Stages
    <3>5. /\ r \in Slot /\ r.pc = "begin" /\ r.task = i /\ r.why = pod[p].why
      BY <1>1, <2>1, <3>4 DEF Slot
    <3> HIDE DEF r
    <3>6. pod'[p] = r /\ Mine(p)' = i
      BY <3>3, <3>5, InvTypes DEF Mine
    <3>7. RunOf(i)'
      BY <1>1, <2>1, <3>2 DEF RunOf
    <3>8. RecordOf(i)'
      BY <1>1, <1>7, <2>1, <3>2, <3>6 DEF RecordOf, Claims, Active
    <3>9. StageOf(p)'
      BY <1>1, <2>1, <3>2, <3>5, <3>6
         DEF StageOf, Before, Counted, Publishing, Aborting, Saving, Between
    <3> QED BY <1>1, <2>1, <3>1, <3>2, <3>3, <3>5, <3>7, <3>8, <3>9, InvTypes, OwnStep
  <2>4. CASE Goto(p, "loop") /\ tasks' = tasks /\ UNCHANGED <<beat, runs>> /\ Unanswered(change)
    BY <1>6, <2>4, FaultTypes DEF Unanswered
  <2> QED BY <1>3, <1>7, <2>2, <2>3, <2>4
<1>8. CASE change.result.kind = "None" /\ change.tasks = tasks
  BY <1>3, <1>6, <1>8, InvTypes, FaultTypes DEF Answered, Unanswered
<1> QED BY <1>2, <1>7, <1>8

-----------------------------------------------------------------------------
(* The steps of a run that stay in the process.                            *)

(* The prefix is inspected.                                                *)
LEMMA InspectKeeps ==
    ASSUME IInv, NEW p \in Owners, Inspect(p)
    PROVE  IInv'
<1>1. pod[p].pc = "inspect" /\ pod[p].pc \in Working /\ pod[p].pc \notin Between
  BY DEF Inspect, At, Working, Before, Between
<1>2. CASE Breaks(p, "failure")
  BY <1>1, <1>2, BreaksKeeps, ReasonTypes
<1>3. CASE Goto(p, "top") /\ UNCHANGED <<tasks, beat, out, faults, history>>
  <2>1. PICK r \in Slot : pod' = [pod EXCEPT ![p] = r] /\ r.task = Mine(p)
    BY <1>3, GotoSlot DEF Stages
  <2>2. /\ pod'[p].pc = "top" /\ Mine(p)' = Mine(p) /\ pod'[p].why = pod[p].why
    BY <1>3, GotoSlot DEF Stages
  <2>3. StageOf(p)'
    BY <1>1, <1>3, <2>2, WorkingGives
       DEF StageOf, history, Before, Counted, Publishing, Aborting, Saving, Between
  <2> QED BY <1>3, <2>1, <2>3, InvTypes, PodStep DEF history
<1> QED BY <1>2, <1>3 DEF Inspect

(* The last look at the events before the marker.                          *)
LEMMA FinalizeKeeps ==
    ASSUME IInv, NEW p \in Owners, Finalize(p)
    PROVE  IInv'
<1>1. pod[p].pc = "finalize" /\ pod[p].pc \in Working /\ pod[p].pc \notin Between
  BY DEF Finalize, At, Working, Publishing, Between
<1>2. CASE Breaks(p, Reason(p))
  BY <1>1, <1>2, BreaksKeeps, ReasonTypes
<1>3. CASE Goto(p, "publish") /\ UNCHANGED <<tasks, beat, out, faults, history>>
  <2>1. PICK r \in Slot : pod' = [pod EXCEPT ![p] = r] /\ r.task = Mine(p)
    BY <1>3, GotoSlot DEF Stages
  <2>2. /\ pod'[p].pc = "publish" /\ Mine(p)' = Mine(p) /\ pod'[p].why = pod[p].why
        /\ pod'[p].done = pod[p].done
    BY <1>3, GotoSlot DEF Stages
  <2>3. StageOf(p)'
    BY <1>1, <1>3, <2>2, WorkingGives
       DEF StageOf, history, Before, Counted, Publishing, Aborting, Saving, Between
  <2> QED BY <1>3, <2>1, <2>3, InvTypes, PodStep DEF history
<1> QED BY <1>2, <1>3 DEF Finalize

(* The wait between two attempts to save a status.                         *)
LEMMA WaitKeeps ==
    ASSUME IInv, NEW p \in Owners, Wait(p)
    PROVE  IInv'
<1>1. pod[p].pc = "wait" /\ pod[p].pc \notin Between /\ StageOf(p)
  BY DEF Wait, At, Between, IInv
<1>2. PICK stage \in {"close", "save"} : Goto(p, stage)
  BY DEF Wait
<1>3. stage \in Stages
  BY DEF Stages
<1>4. PICK r \in Slot : pod' = [pod EXCEPT ![p] = r] /\ r.task = Mine(p)
  BY <1>2, <1>3, GotoSlot
<1>5. /\ pod'[p].pc = stage /\ Mine(p)' = Mine(p) /\ pod'[p].why = pod[p].why
      /\ pod'[p].want = pod[p].want
  BY <1>2, <1>3, GotoSlot
<1>6. StageOf(p)'
  BY <1>1, <1>2, <1>5
     DEF Wait, StageOf, history, Before, Counted, Publishing, Aborting, Saving, Between
<1> QED BY <1>4, <1>6, InvTypes, PodStep DEF Wait, history

(* The finally block.                                                      *)
LEMMA CloseKeeps ==
    ASSUME IInv, NEW p \in Owners, Close(p)
    PROVE  IInv'
<1>1. /\ pod[p].pc = "close" /\ pod[p].pc \notin Between /\ StageOf(p)
      /\ UNCHANGED <<tasks, out, faults, history>>
      /\ Mine(p) \in TaskIds /\ runs[Mine(p)] = 1
  BY AtWork DEF Close, At, Between, IInv
<1>2. PICK failed \in BOOLEAN :
        pod' = [pod EXCEPT ![p].pc = "loop", ![p].stop = @ \/ failed,
                           ![p].done = 0, ![p].want = "FAILED", ![p].why = "none"]
  BY DEF Close
<1> DEFINE r == [pod[p] EXCEPT !.pc = "loop", !.stop = @ \/ failed, !.done = 0,
                               !.want = "FAILED", !.why = "none"]
<1>3. "loop" \in Stages /\ 0 \in 0 .. Chunks /\ "FAILED" \in Terminal /\ "none" \in Errors
  BY InvTypes DEF Stages, Terminal, Errors
<1>4. pod' = [pod EXCEPT ![p] = r]
  BY <1>2, InvTypes
<1>5. pod[p] \in Slot
  BY InvTypes
<1>6. (pod[p].stop \/ failed) \in BOOLEAN
  OBVIOUS
<1>7. r \in Slot /\ r.task = pod[p].task /\ r.pc = "loop" /\ r.why = "none"
  BY <1>3, <1>5, <1>6 DEF Slot
<1> HIDE DEF r
<1>8. pod'[p] = r
  BY <1>4, InvTypes
<1>9. StageOf(p)'
  BY <1>1, <1>7, <1>8
     DEF StageOf, Mine, history, Before, Counted, Publishing, Aborting, Saving, Between
<1>10. /\ beat' \in [TaskIds -> Beats]
       /\ \A i \in TaskIds : runs[i] = 0 => beat'[i] = beat[i]
  BY <1>1, InvTypes DEF Close, Beats
<1> QED BY <1>1, <1>4, <1>7, <1>9, <1>10, InvTypes, PodStep DEF Mine, history

(* The slot is freed only over a final status.                             *)
LEMMA LoopKeeps ==
    ASSUME IInv, NEW p \in Owners, Loop(p)
    PROVE  IInv'
<1>1. pod[p].pc = "loop" /\ StageOf(p) /\ UNCHANGED <<tasks, beat, out, faults, history>>
  BY DEF Loop, At, IInv
<1>2. ASSUME NEW stage \in {"exited", "claim"}, Goto(p, stage), stage = "claim" => Mine(p) = NoRun
      PROVE  IInv'
  <2>1. stage \in Stages
    BY DEF Stages
  <2>2. PICK r \in Slot : pod' = [pod EXCEPT ![p] = r] /\ r.task = Mine(p)
    BY <1>2, <2>1, GotoSlot
  <2>3. /\ pod'[p].pc = stage /\ Mine(p)' = Mine(p) /\ pod'[p].why = pod[p].why
    BY <1>2, <2>1, GotoSlot
  <2>4. StageOf(p)'
    BY <1>1, <1>2, <2>3
       DEF StageOf, history, Before, Counted, Publishing, Aborting, Saving, Between
  <2> QED BY <1>1, <2>2, <2>4, InvTypes, PodStep DEF history
<1>3. CASE /\ Mine(p) # NoRun /\ tasks[Mine(p)].status \in Terminal
           /\ pod' = [pod EXCEPT ![p].pc = "claim", ![p].task = NoRun]
  <2>1. PICK i \in TaskIds : i = Mine(p)
    BY <1>3, InvTypes DEF Slot, Mine
  <2>2. RunOf(i) /\ RecordOf(i) /\ tasks[i] # NoTask /\ tasks[i] \in TaskState
    BY <1>1, <1>3, <2>1, InvTypes DEF IInv, StageOf, Snapshots
  <2> DEFINE r == [pod[p] EXCEPT !.pc = "claim", !.task = NoRun]
  <2>3. pod' = [pod EXCEPT ![p] = r]
    BY <1>3, InvTypes
  <2>4. pod[p] \in Slot /\ "claim" \in Stages
    BY InvTypes DEF Stages
  <2>5. r \in Slot /\ r.pc = "claim" /\ r.task = NoRun /\ r.why = pod[p].why
    BY <2>4 DEF Slot
  <2> HIDE DEF r
  <2>6. pod'[p] = r
    BY <2>3, InvTypes
  <2>7. StageOf(p)'
    BY <1>1, <2>5, <2>6 DEF StageOf, Mine, Between
  <2>8. RunOf(i)'
    BY <1>1, <2>2 DEF RunOf, history
  <2>9. RecordOf(i)'
    BY <1>1, <1>3, <2>1, <2>2 DEF RecordOf, history, Active, Terminal
  <2>10. tasks' = [tasks EXCEPT ![i] = tasks[i]] /\ faults' \in 0 .. MaxFaults
    BY <1>1, InvTypes DEF Snapshots
  <2>11. \A j \in TaskIds : j # i =>
              /\ beat'[j] = beat[j] /\ runs'[j] = runs[j] /\ late'[j] = late[j]
              /\ j \in marked' <=> j \in marked
    BY <1>1 DEF history
  <2> QED BY <1>1, <2>1, <2>2, <2>3, <2>5, <2>7, <2>8, <2>9, <2>10, <2>11, InvTypes, OwnStep
          DEF history
<1> QED BY <1>2, <1>3 DEF Loop

-----------------------------------------------------------------------------
(* The steps of a run that write to S3.                                    *)

(* A put changes one object and, at most, counts as late.                  *)
LEMMA PutLeaves ==
    ASSUME IInv, NEW p \in Owners, NEW i \in TaskIds, Mine(p) = i, NEW k \in Objects,
           PutObject(p, k)
    PROVE  /\ out' = [out EXCEPT ![k] = i]
           /\ out' \in [Objects -> TaskIds \cup {NoRun}]
           /\ late' \in [TaskIds -> Nat]
           /\ \A j \in TaskIds : j # i => late'[j] = late[j]
           /\ late'[i] = IF TooLate(p) THEN late[i] + 1 ELSE late[i]
BY InvTypes DEF PutObject

(* A write that raises ends the run as FAILED.                             *)
LEMMA PutRaisesKeeps ==
    ASSUME IInv, NEW p \in Owners, pod[p].pc \in {"write", "publish"},
           NEW k \in Objects, PutRaises(p, k), UNCHANGED <<tasks, beat, runs, marked>>
    PROVE  IInv'
<1>1. pod[p].pc \in Working /\ pod[p].pc \notin Between
  BY DEF Working, Before, Publishing, Between
<1>2. PICK i \in TaskIds : Mine(p) = i
  BY <1>1, AtWork
<1>3. /\ i # NoRun /\ i \notin marked /\ runs[i] = 1
      /\ tasks[i] \in TaskState /\ tasks[i] # NoTask /\ tasks[i].owner = p
      /\ StageOf(p) /\ RunOf(i) /\ RecordOf(i)
  BY <1>1, <1>2, AtWork, WorkingGives DEF Owned
<1>4. late[i] = 0
  BY <1>2, <1>3 DEF StageOf, Before, Publishing
<1>5. /\ out' \in [Objects -> TaskIds \cup {NoRun}] /\ late' \in [TaskIds -> Nat]
      /\ \A j \in TaskIds : j # i => late'[j] = late[j]
      /\ late'[i] \in {0, 1}
  BY <1>2, <1>4, PutLeaves, InvTypes DEF PutRaises
<1>6. Fails(p, "failure") /\ faults' \in 0 .. MaxFaults
  BY FaultTypes DEF PutRaises
<1>7. tasks' = [tasks EXCEPT ![i] = tasks[i]]
  BY <1>2, InvTypes DEF Snapshots
<1>8. StageOf(p)'
  BY <1>1, <1>2, <1>3, <1>6, <1>7, FailsStage, ReasonTypes
<1>9. PICK r \in Slot : pod' = [pod EXCEPT ![p] = r] /\ r.task = Mine(p)
  BY <1>6, SaveSlot, ReasonTypes DEF Fails, Terminal
<1>10. Mine(p)' = i
  BY <1>2, <1>9, InvTypes DEF Mine
<1>11. RunOf(i)'
  BY <1>3, <1>5 DEF RunOf
<1>12. RecordOf(i)'
  BY <1>3, <1>10 DEF RecordOf
<1> QED BY <1>2, <1>3, <1>5, <1>6, <1>7, <1>8, <1>9, <1>11, <1>12, InvTypes, OwnStep

(* A part is written; written too late, it is the last one.                *)
LEMMA WriteKeeps ==
    ASSUME IInv, NEW p \in Owners, Write(p)
    PROVE  IInv'
<1> DEFINE k == pod[p].done + 1
<1>1. /\ pod[p].pc = "write" /\ pod[p].pc \in Working /\ pod[p].pc \notin Between
      /\ UNCHANGED <<tasks, beat, runs, marked>>
  BY DEF Write, At, Working, Before, Between
<1>2. PICK i \in TaskIds : Mine(p) = i
  BY <1>1, AtWork
<1>3. /\ i # NoRun /\ i \notin marked /\ runs[i] = 1
      /\ tasks[i] \in TaskState /\ tasks[i] # NoTask /\ tasks[i].owner = p
      /\ StageOf(p) /\ RunOf(i) /\ RecordOf(i)
      /\ pod[p] \in Slot
  BY <1>1, <1>2, AtWork, WorkingGives DEF Owned
<1>4. /\ late[i] = 0 /\ pod[p].done < Chunks
      /\ tasks[i].status \in {"RUNNING", "ABORTING"} \/ GivenUp(tasks[i])
      /\ tasks[i].total_rows = Chunks
  BY <1>1, <1>2, <1>3 DEF StageOf, Before, Counted
<1>5. k \in 0 .. Chunks /\ k \in Objects
  BY <1>3, <1>4, InvTypes DEF Slot, Objects
<1>6. CASE PutRaises(p, k)
  BY <1>1, <1>5, <1>6, PutRaisesKeeps
<1>7. ASSUME NEW next \in {"top", "progress"}, PutObject(p, k), UNCHANGED faults,
             pod' = [pod EXCEPT ![p].pc = next, ![p].done = k]
      PROVE  IInv'
  <2> DEFINE r == [pod[p] EXCEPT !.pc = next, !.done = k]
  <2>1. pod' = [pod EXCEPT ![p] = r]
    BY <1>7, InvTypes
  <2>2. next \in Stages
    BY DEF Stages
  <2> HIDE DEF k
  <2>3. /\ r \in Slot /\ r.pc = next /\ r.task = pod[p].task /\ r.stop = pod[p].stop
        /\ r.why = pod[p].why
    BY <1>3, <1>5, <2>2 DEF Slot
  <2> HIDE DEF r
  <2>4. pod'[p] = r /\ Mine(p)' = i
    BY <1>2, <2>1, <2>3, InvTypes DEF Mine
  <2>5. /\ out' \in [Objects -> TaskIds \cup {NoRun}] /\ late' \in [TaskIds -> Nat]
        /\ \A j \in TaskIds : j # i => late'[j] = late[j]
        /\ late'[i] = IF TooLate(p) THEN 1 ELSE 0
    BY <1>2, <1>4, <1>5, <1>7, PutLeaves
  <2>6. TooLate(p)' <=> TooLate(p)
    BY <1>1, <1>2, <2>3, <2>4 DEF TooLate
  <2>7. RunOf(i)'
    BY <1>1, <1>3, <2>5 DEF RunOf
  <2>8. RecordOf(i)'
    BY <1>1, <1>2, <1>3, <2>4 DEF RecordOf
  <2>9. StageOf(p)'
    BY <1>1, <1>2, <1>3, <1>4, <2>3, <2>4, <2>5, <2>6
       DEF StageOf, Before, Counted, Publishing, Aborting, Saving, Between
  <2>10. tasks' = [tasks EXCEPT ![i] = tasks[i]] /\ faults' \in 0 .. MaxFaults
    BY <1>1, <1>7, InvTypes DEF Snapshots
  <2> QED BY <1>1, <1>2, <1>3, <2>1, <2>3, <2>5, <2>7, <2>8, <2>9, <2>10, InvTypes, OwnStep
<1> QED BY <1>6, <1>7 DEF Write

(* The marker is put: from here the run only wants DONE.                   *)
LEMMA PublishKeeps ==
    ASSUME IInv, NEW p \in Owners, Publish(p)
    PROVE  IInv'
<1>1. /\ pod[p].pc = "publish" /\ pod[p].pc \in Working /\ pod[p].pc \notin Between
      /\ UNCHANGED <<tasks, beat, runs>> /\ Marker \in Objects
  BY InvTypes DEF Publish, At, Working, Publishing, Between, Marker, Objects
<1>2. PICK i \in TaskIds : Mine(p) = i
  BY <1>1, AtWork
<1>3. /\ i # NoRun /\ runs[i] = 1
      /\ tasks[i] \in TaskState /\ tasks[i] # NoTask /\ tasks[i].owner = p
      /\ StageOf(p) /\ RunOf(i) /\ RecordOf(i)
  BY <1>1, <1>2, AtWork, WorkingGives DEF Owned
<1>4. /\ late[i] = 0
      /\ tasks[i].status = "FINALIZING" \/ GivenUp(tasks[i])
  BY <1>1, <1>2, <1>3 DEF StageOf, Publishing
<1>5. CASE PutRaises(p, Marker) /\ UNCHANGED marked
  BY <1>1, <1>5, PutRaisesKeeps
<1>6. CASE /\ PutObject(p, Marker)
           /\ marked' = marked \cup {Mine(p)}
           /\ Save(p, "DONE", "none")
           /\ UNCHANGED faults
  <2>1. /\ out' \in [Objects -> TaskIds \cup {NoRun}] /\ late' \in [TaskIds -> Nat]
        /\ \A j \in TaskIds : j # i => late'[j] = late[j]
        /\ late'[i] = IF TooLate(p) THEN 1 ELSE 0
    BY <1>1, <1>2, <1>4, <1>6, PutLeaves
  <2>2. /\ pod'[p].pc = "save" /\ pod'[p].want = "DONE" /\ pod'[p].why = "none"
        /\ Mine(p)' = i
    BY <1>2, <1>6, InvTypes DEF Save, Slot, Mine
  <2>3. PICK r \in Slot : pod' = [pod EXCEPT ![p] = r] /\ r.task = Mine(p)
    BY <1>6, SaveSlot, ReasonTypes DEF Terminal
  <2>4. /\ marked' \in SUBSET TaskIds /\ i \in marked'
        /\ \A j \in TaskIds : j # i => (j \in marked' <=> j \in marked)
    BY <1>2, <1>6, InvTypes
  <2>5. RunOf(i)'
    BY <1>1, <1>3, <2>1 DEF RunOf
  <2>6. RecordOf(i)'
    BY <1>1, <1>3, <1>4, <2>2, <2>4 DEF RecordOf, GivenUp
  <2>7. StageOf(p)'
    BY <1>1, <1>3, <2>2, <2>4
       DEF StageOf, Before, Counted, Publishing, Aborting, Saving, Between
  <2>8. tasks' = [tasks EXCEPT ![i] = tasks[i]] /\ faults' \in 0 .. MaxFaults
    BY <1>1, <1>6, InvTypes DEF Snapshots
  <2> QED BY <1>1, <1>2, <1>3, <2>1, <2>3, <2>4, <2>5, <2>6, <2>7, <2>8, InvTypes, OwnStep
<1> QED BY <1>5, <1>6 DEF Publish

-----------------------------------------------------------------------------
(* The decision between publication and cancellation, and the final status. *)

(* prepare_completion: only a complete run is published.                   *)
LEMMA PrepareKeeps ==
    ASSUME IInv, NEW p \in Owners, Prepare(p)
    PROVE  IInv'
<1> DEFINE i == Mine(p)
           t == tasks[i]
           change == prepare_completion(tasks, i, p, pod[p].done, 0)
<1>1. pod[p].pc = "prepare" /\ pod[p].pc \notin Between /\ pod[p].pc \in Working
  BY DEF Prepare, At, Working, Before, Between
<1>2. CASE Breaks(p, Reason(p))
  BY <1>1, <1>2, BreaksKeeps, ReasonTypes
<1>3. CASE UNCHANGED <<beat, out, history>>
           /\ \/ Answered(change) /\ Goto(p, IF Yes(change) THEN "finalize" ELSE "close")
              \/ Unanswered(change) /\ Fails(p, "storage")
  <2>1. /\ i \in TaskIds /\ i # NoRun /\ i \notin marked /\ runs[i] = 1
        /\ t \in TaskState /\ t # NoTask /\ t.owner = p /\ Sound(t) /\ Owned(tasks, i, p)
        /\ StageOf(p) /\ RunOf(i) /\ RecordOf(i)
        /\ Drift(t, t)
        /\ t.status \in Active => t.error # "task_timeout"
    BY <1>1, AtWork, WorkingGives, StayDrifts DEF Owned
  <2>2. pod[p].done = Chunks /\ t.total_rows = Chunks /\ late[i] = 0
    BY <1>1, <2>1 DEF StageOf, Before, Counted
  <2>3. pod[p].done \in 0 .. MaxRows
    BY <2>2, InvTypes
  <2>4. PICK u : Replaces(tasks, i, change, u) /\ Prepares(t, u, pod[p].done, change)
    <3>1. i \in TaskIds /\ Owned(tasks, i, p) /\ (t.status \in Active => t.error # "task_timeout")
      BY <2>1
    <3>2. 0 \in Int
      OBVIOUS
    <3> QED BY ONLY <2>3, <3>1, <3>2, p \in Owners, PrepareCompletionEffect
  <2>5. Fits(i, u) /\ Fits(i, t)
    <3>1. Fits(i, t)
      BY <1>1, <2>1, DriftFits
    <3>2. CASE Drift(t, u)
      BY <1>1, <3>1, <3>2, DriftFits
    <3>3. CASE Ready(t, u, pod[p].done)
      BY <2>1, <2>2, <3>1, <3>3 DEF Fits, Ready
    <3> QED BY <2>4, <3>1, <3>2, <3>3 DEF Prepares
  <2>6. Yes(change) => u.status = "FINALIZING"
    BY <2>4 DEF Prepares
  <2> HIDE DEF change
  <2>7. PICK w \in {t, u} : tasks' = [tasks EXCEPT ![i] = w] /\ (Answered(change) => w = u)
    BY <1>3, <2>1, <2>4, CallLeaves
  <2>8. faults' \in 0 .. MaxFaults
    BY <1>3, <2>1, <2>4, CallLeaves
  <2>9. CASE Answered(change) /\ Goto(p, IF Yes(change) THEN "finalize" ELSE "close")
    <3> DEFINE stage == IF Yes(change) THEN "finalize" ELSE "close"
    <3>1. /\ stage \in {"finalize", "close"} /\ stage \in Stages
          /\ stage = "finalize" => u.status = "FINALIZING"
      BY <2>6 DEF Stages
    <3>2. Goto(p, stage)
      BY <2>9
    <3> HIDE DEF stage
    <3>3. /\ pod'[p].pc = stage /\ Mine(p)' = i /\ pod'[p].done = pod[p].done
          /\ pod'[p].why = pod[p].why
      BY <3>1, <3>2, GotoSlot
    <3>4. PICK r \in Slot : pod' = [pod EXCEPT ![p] = r] /\ r.task = i
      BY <3>1, <3>2, GotoSlot
    <3>5. tasks'[i] = u /\ u # NoTask /\ u.owner = p
      BY <2>1, <2>5, <2>7, <2>9, InvTypes, NoTaskAssumption DEF Snapshots, Fits
    <3>6. StageOf(p)'
      BY <1>1, <1>3, <2>1, <2>2, <3>1, <3>3, <3>5
         DEF StageOf, history, Before, Counted, Publishing, Aborting, Saving, Between
    <3> QED BY <1>1, <1>3, <2>5, <2>7, <2>8, <2>9, <3>4, <3>6, CallStep
  <2>10. CASE Unanswered(change) /\ Fails(p, "storage")
    BY <1>1, <1>3, <2>5, <2>7, <2>8, <2>10, CallFails
  <2> QED BY <1>3, <2>9, <2>10
<1> QED BY <1>2, <1>3 DEF Prepare

(* set_status: DONE is saved over a marker only.                           *)
LEMMA SaveStatusKeeps ==
    ASSUME IInv, NEW p \in Owners, SaveStatus(p)
    PROVE  IInv'
<1> DEFINE i == Mine(p)
           t == tasks[i]
           want == pod[p].want
           why == pod[p].why
           change == set_status(tasks, i, p, want, why, 0)
<1>1. /\ pod[p].pc = "save" /\ pod[p].pc \notin Between
      /\ UNCHANGED <<beat, out, history>>
  BY DEF SaveStatus, At, Between
<1>2. /\ i \in TaskIds /\ i # NoRun /\ runs[i] = 1
      /\ t \in TaskState /\ t # NoTask /\ t.owner = p /\ Sound(t) /\ Owned(tasks, i, p)
      /\ StageOf(p) /\ RunOf(i) /\ RecordOf(i)
      /\ Drift(t, t)
      /\ pod[p] \in Slot
  BY <1>1, AtWork, StayDrifts DEF Owned, IInv
<1>3. /\ want \in Terminal /\ why \in Errors /\ why # "task_timeout"
      /\ want = "ABORTED" => t.status \in {"ABORTING"} \cup Terminal
      /\ want = "DONE" => i \in marked
      /\ i \in marked => want = "DONE"
  BY <1>1, <1>2 DEF StageOf, Slot, Saving, Between
<1>4. PICK u : /\ Replaces(tasks, i, change, u)
               /\ Drift(t, u) \/ (t.status \in Active /\ Saved(t, u, want, why))
  BY <1>2, <1>3, InvTypes, SetStatusEffect
<1>5. Fits(i, u) /\ Fits(i, t)
  <2>1. Fits(i, t)
    BY <1>1, <1>2, DriftFits
  <2>2. CASE Drift(t, u)
    BY <1>1, <2>1, <2>2, DriftFits
  <2>3. CASE Saved(t, u, want, why)
    BY <1>2, <1>3, <2>1, <2>3 DEF Fits, Saved, RecordOf, Terminal
  <2> QED BY <1>4, <2>1, <2>2, <2>3
<1>6. want = "ABORTED" => u.status \in {"ABORTING"} \cup Terminal
  BY <1>3, <1>4 DEF Drift, Saved, GivenUp, Terminal
<1> HIDE DEF change
<1>7. PICK w \in {t, u} : tasks' = [tasks EXCEPT ![i] = w]
  BY <1>1, <1>2, <1>4, CallLeaves DEF SaveStatus, change
<1>8. faults' \in 0 .. MaxFaults
  BY <1>1, <1>2, <1>4, CallLeaves DEF SaveStatus, change
<1>9. PICK stage \in {"close", "wait"} : Goto(p, stage)
  BY DEF SaveStatus
<1>10. stage \in Stages
  BY DEF Stages
<1>11. /\ pod'[p].pc = stage /\ Mine(p)' = i /\ pod'[p].want = want
       /\ pod'[p].why = why
  BY <1>9, <1>10, GotoSlot
<1>12. PICK r \in Slot : pod' = [pod EXCEPT ![p] = r] /\ r.task = i
  BY <1>9, <1>10, GotoSlot
<1>13. /\ tasks'[i] = w /\ w # NoTask /\ w.owner = p /\ Fits(i, w)
       /\ want = "ABORTED" => w.status \in {"ABORTING"} \cup Terminal
  BY <1>2, <1>3, <1>5, <1>6, <1>7, InvTypes, NoTaskAssumption DEF Snapshots, Fits
<1>14. StageOf(p)'
  BY <1>1, <1>2, <1>3, <1>9, <1>11, <1>13
     DEF StageOf, history, Before, Counted, Publishing, Aborting, Saving, Between
<1> QED BY <1>1, <1>7, <1>8, <1>12, <1>13, <1>14, CallStep

-----------------------------------------------------------------------------
(* The steps of the other threads and of the rest of the system.           *)

(* A heartbeat lets its record drift.                                      *)
LEMMA HeartbeatLeaves ==
    ASSUME IInv, NEW i \in TaskIds, Heartbeat(i)
    PROVE  AllDrift(tasks, tasks') /\ faults' \in 0 .. MaxFaults
<1> DEFINE change == heartbeat(tasks, i, tasks[i].owner, 0)
<1>1. AllDrift(tasks, change.tasks) /\ AllDrift(tasks, tasks)
  <2>1. 0 \in Int
    OBVIOUS
  <2> QED BY <2>1, InvTypes, HeartbeatDrifts, LeaveDrifts
<1>2. Answered(change) \/ Unanswered(change)
  BY DEF Heartbeat
<1> HIDE DEF change
<1> QED BY <1>1, <1>2, InvTypes, FaultTypes DEF Answered, Unanswered

(* The heartbeat thread.                                                   *)
LEMMA HeartbeatKeeps ==
    ASSUME IInv, NEW i \in TaskIds, Heartbeat(i)
    PROVE  IInv'
<1>1. /\ beat[i] \in {"alive", "last"}
      /\ UNCHANGED <<pod, out, history>>
      /\ \E b \in Beats : beat' = [beat EXCEPT ![i] = b]
  BY DEF Heartbeat, Beats
<1>2. runs[i] # 0
  BY <1>1 DEF IInv, RunOf
<1>3. /\ beat' \in [TaskIds -> Beats]
      /\ \A j \in TaskIds : runs[j] = 0 => beat'[j] = beat[j]
  BY <1>1, <1>2, InvTypes
<1> QED BY <1>1, <1>3, HeartbeatLeaves, DriftStep DEF history

(* Aborts, readiness and time let the records drift.                       *)
LEMMA StoreLeaves ==
    ASSUME IInv, (\E i \in TaskIds : RequestAbort(i)) \/ Readiness \/ Tick
    PROVE  AllDrift(tasks, tasks')
<1>1. 0 \in Int /\ SoundIn(tasks)
  BY InvTypes
<1>2. ASSUME NEW i \in TaskIds, RequestAbort(i)
      PROVE  AllDrift(tasks, tasks')
  BY <1>1, <1>2, RequestAbortDrifts DEF RequestAbort
<1>3. ASSUME Readiness
      PROVE  AllDrift(tasks, tasks')
  BY <1>1, <1>3, FailStaleDrifts DEF Readiness
<1>4. ASSUME Tick
      PROVE  AllDrift(tasks, tasks')
  BY <1>1, <1>4, TickDrifts
<1> QED BY <1>2, <1>3, <1>4

(* The same steps keep the invariant.                                      *)
LEMMA StoreKeeps ==
    ASSUME IInv, (\E i \in TaskIds : RequestAbort(i)) \/ Readiness \/ Tick
    PROVE  IInv'
<1>1. UNCHANGED <<pod, beat, out, faults, history>>
  BY DEF RequestAbort, Readiness, Tick
<1> QED BY <1>1, StoreLeaves, InvTypes, DriftStep DEF history

(* SIGTERM.                                                                *)
LEMMA SignalKeeps ==
    ASSUME IInv, NEW p \in Owners, Signal(p)
    PROVE  IInv'
<1> DEFINE r == [pod[p] EXCEPT !.stop = TRUE]
<1>1. /\ r \in Slot /\ r.pc = pod[p].pc /\ r.task = pod[p].task /\ r.done = pod[p].done
      /\ r.want = pod[p].want /\ r.why = pod[p].why /\ r.stop = TRUE
  BY InvTypes DEF Slot
<1>2. pod' = [pod EXCEPT ![p] = r] /\ UNCHANGED <<tasks, beat, out, faults, history>>
  BY DEF Signal
<1> HIDE DEF r
<1>3. pod'[p] = r /\ StageOf(p)
  BY <1>2, InvTypes DEF IInv
<1>4. StageOf(p)'
  BY <1>1, <1>2, <1>3 DEF StageOf, Mine, TooLate, history
<1> QED BY <1>1, <1>2, <1>4, InvTypes, PodStep DEF Mine, history

(* SIGKILL.                                                                *)
LEMMA CrashKeeps ==
    ASSUME IInv, NEW p \in Owners, Crash(p)
    PROVE  IInv'
<1>1. /\ Goto(p, "dead") /\ UNCHANGED <<tasks, out, faults, history>>
      /\ "dead" \in Stages /\ StageOf(p)
  BY DEF Crash, Stages, IInv
<1>2. PICK r \in Slot : pod' = [pod EXCEPT ![p] = r] /\ r.task = Mine(p)
  BY <1>1, GotoSlot
<1>3. pod'[p].pc = "dead" /\ Mine(p)' = Mine(p) /\ pod'[p].why = pod[p].why
  BY <1>1, GotoSlot
<1>4. StageOf(p)'
  BY <1>1, <1>3
     DEF StageOf, history, Before, Counted, Publishing, Aborting, Saving, Between
<1>5. /\ beat' \in [TaskIds -> Beats]
      /\ \A i \in TaskIds : runs[i] = 0 => beat'[i] = beat[i]
  <2>1. \A i \in TaskIds : runs[i] = 0 => beat[i] = "none"
    BY DEF IInv, RunOf
  <2> QED BY <2>1, InvTypes DEF Crash, Beats
<1> QED BY <1>1, <1>2, <1>4, <1>5, InvTypes, PodStep DEF history

(* A new record: queued, and nobody's.                                     *)
LEMMA NewTaskTypes ==
    ASSUME NEW key \in Keys, NEW request \in Requests, NEW now \in Int
    PROVE  /\ NewTask(key, request, now) \in TaskState
           /\ NewTask(key, request, now).status = "QUEUED"
           /\ NewTask(key, request, now).error = "none"
           /\ NewTask(key, request, now).created_at = now
           /\ Sound(NewTask(key, request, now))
<1>1. /\ "QUEUED" \in Status /\ "none" \in Errors /\ 0 \in 0 .. MaxRows
  BY LimitsAssumption DEF Status, Errors
<1> QED BY <1>1 DEF NewTask, TaskState, Sound, Unknown, Never

(* A submission adds a record or changes nothing.                          *)
LEMMA EnqueueLeaves ==
    ASSUME NEW S, NEW id, NEW key, NEW request, NEW now
    PROVE  \/ enqueue(S, id, key, request, now).tasks = S
           \/ enqueue(S, id, key, request, now).tasks = [S EXCEPT ![id] = NewTask(key, request, now)]
BY DEF enqueue, Leave, Put

(* The client submits the next attempt.                                    *)
LEMMA SubmitKeeps ==
    ASSUME IInv, NEW i \in TaskIds, NEW request \in Requests, Submit(i, request)
    PROVE  IInv'
<1> DEFINE t == NewTask(i, request, 0)
<1>1. /\ tasks[i] = NoTask
      /\ UNCHANGED <<pod, beat, faults, history>>
      /\ tasks' = enqueue(tasks, i, i, request, 0).tasks
      /\ out' \in [Objects -> TaskIds \cup {NoRun}]
  BY DEF Submit
<1>2. /\ t \in TaskState /\ t # NoTask /\ Sound(t)
      /\ t.status = "QUEUED" /\ t.error = "none" /\ t.created_at >= 0
  BY NewTaskTypes, WorkerAssumption, NoTaskAssumption
<1> HIDE DEF t
<1>3. tasks' = tasks \/ tasks' = [tasks EXCEPT ![i] = t]
  BY <1>1, EnqueueLeaves DEF t
<1>4. /\ \A j \in TaskIds : j # i => tasks'[j] = tasks[j]
      /\ tasks'[i] \in {NoTask, t}
      /\ tasks' \in Snapshots
  <2>1. tasks \in [TaskIds -> TaskState \cup {NoTask}]
    BY InvTypes DEF Snapshots
  <2>2. CASE tasks' = tasks
    BY <1>1, <2>1, <2>2 DEF Snapshots
  <2>3. CASE tasks' = [tasks EXCEPT ![i] = t]
    BY <1>2, <2>1, <2>3 DEF Snapshots
  <2> QED BY <1>3, <2>2, <2>3
<1>5. TypeOK'
  BY <1>1, <1>4 DEF IInv, TypeOK, Snapshots, history
<1>6. ASSUME NEW j \in TaskIds
      PROVE  RunOf(j)' /\ RecordOf(j)'
  <2>1. RunOf(j) /\ RecordOf(j) /\ runs[j] \in Nat
    BY InvTypes DEF IInv
  <2>2. RunOf(j)'
    BY <1>1, <1>4, <2>1 DEF RunOf, history
  <2>3. CASE j = i
    BY <1>1, <1>2, <1>4, <2>1, <2>3 DEF RunOf, RecordOf, history, Active
  <2>4. CASE j # i
    BY <1>1, <1>4, <2>1, <2>2, <2>4 DEF RecordOf, Mine, history
  <2> QED BY <2>2, <2>3, <2>4
<1>7. ASSUME NEW p \in Owners
      PROVE  StageOf(p)'
  <2>1. StageOf(p) /\ Mine(p) \in TaskIds \cup {NoRun}
    BY InvTypes DEF IInv, Slot, Mine
  <2>2. CASE Mine(p) = NoRun
    BY <1>1, <2>1, <2>2 DEF StageOf, Mine
  <2>3. CASE Mine(p) # NoRun
    <3>1. Mine(p) # i /\ tasks'[Mine(p)] = tasks[Mine(p)]
      BY <1>1, <1>4, <2>1, <2>3 DEF StageOf
    <3> QED BY <1>1, <2>1, <2>3, <3>1 DEF StageOf, Mine, TooLate, history
  <2> QED BY <2>2, <2>3
<1> QED BY <1>5, <1>6, <1>7 DEF IInv

-----------------------------------------------------------------------------
(* The inductive invariant, and what it implies.                           *)

(* Nothing has been submitted, and every process is idle.                  *)
LEMMA InitInv == Init => IInv
<1> SUFFICES ASSUME Init PROVE IInv
  OBVIOUS
<1>1. TypeOK
  <2>1. /\ "loop" \in Stages /\ NoRun \in TaskIds \cup {NoRun} /\ 0 \in 0 .. Chunks
        /\ "FAILED" \in Terminal /\ "none" \in Errors
    BY WorkerAssumption, LimitsAssumption DEF Stages, Terminal, Errors
  <2>2. pod \in [Owners -> [pc : Stages, task : TaskIds \cup {NoRun}, done : 0 .. Chunks,
                           want : Terminal, why : Errors, stop : BOOLEAN]]
    BY <2>1 DEF Init
  <2>3. 0 \in 0 .. MaxFaults
    BY WorkerAssumption
  <2> QED BY <2>2, <2>3 DEF Init, TypeOK
<1>2. \A i \in TaskIds : RunOf(i) /\ RecordOf(i)
  BY DEF Init, RunOf, RecordOf
<1>3. \A p \in Owners : StageOf(p)
  BY DEF Init, StageOf, Mine, Between
<1> QED BY <1>1, <1>2, <1>3 DEF IInv

(* Every step of the consumer thread.                                      *)
LEMMA ConsumerKeepsInv ==
    ASSUME IInv, NEW p \in Owners, Consumer(p)
    PROVE  IInv'
BY LoopKeeps, ClaimKeeps, ChecksKeep, CountKeeps, InspectKeeps, WriteKeeps, ProgressKeeps,
   PrepareKeeps, FinalizeKeeps, PublishKeeps, SaveStatusKeeps, WaitKeeps, CloseKeeps
   DEF Consumer

(* Every step of the system.                                               *)
LEMMA NextKeepsInv ==
    ASSUME IInv, [Next]_vars
    PROVE  IInv'
<1>1. ASSUME NEW p \in Owners, Consumer(p) \/ Signal(p) \/ Crash(p)
      PROVE  IInv'
  BY <1>1, ConsumerKeepsInv, SignalKeeps, CrashKeeps
<1>2. ASSUME NEW i \in TaskIds, Heartbeat(i)
      PROVE  IInv'
  BY <1>2, HeartbeatKeeps
<1>3. CASE (\E i \in TaskIds : RequestAbort(i)) \/ Readiness \/ Tick
  BY <1>3, StoreKeeps
<1>4. ASSUME NEW i \in TaskIds, NEW request \in Requests, Submit(i, request)
      PROVE  IInv'
  BY <1>4, SubmitKeeps
<1>5. CASE UNCHANGED vars
  <2>1. UNCHANGED <<tasks, pod, beat, out, faults, runs, marked, late>>
    BY <1>5 DEF vars
  <2>2. AllDrift(tasks, tasks')
    BY <2>1, InvTypes, LeaveDrifts
  <2> QED BY <2>1, <2>2, InvTypes, DriftStep
<1> QED BY <1>1, <1>2, <1>3, <1>4, <1>5 DEF Next

(* The invariants the runs check are parts of it or follow from it.        *)
LEMMA InvImplies ==
    ASSUME IInv
    PROVE  TypeOK /\ Restrained /\ PublicationHolds
<1>1. \A i \in TaskIds : RunOf(i) /\ RecordOf(i)
  BY DEF IInv
<1>2. Restrained
  BY <1>1 DEF Restrained, RunOnce, OneLateWrite, RunOf
<1>3. DoneIsPublished
  BY <1>1 DEF DoneIsPublished, RecordOf, Known
<1>4. PublishedIsKept
  <2> SUFFICES ASSUME NEW i \in marked
               PROVE  \/ tasks[i].status \in {"FINALIZING", "DONE"}
                      \/ tasks[i].status = "FAILED" /\ tasks[i].error = "task_timeout"
    BY DEF PublishedIsKept
  <2>1. i \in TaskIds /\ RunOf(i) /\ RecordOf(i)
    BY <1>1, InvTypes
  <2> QED BY <2>1 DEF RunOf, RecordOf, GivenUp
<1> QED BY <1>2, <1>3, <1>4 DEF IInv, PublicationHolds

(* The inductive invariant holds throughout.                               *)
LEMMA InvHolds == Spec => []IInv
<1>1. IInv /\ [Next]_vars => IInv'
  BY NextKeepsInv
<1> QED BY <1>1, InitInv, PTL DEF Spec

(* The records, the slots of the processes and the histories keep their    *)
(* types.                                                                  *)
THEOREM TypeCorrect == Spec => []TypeOK
<1>1. IInv => TypeOK
  BY InvImplies
<1> QED BY <1>1, InvHolds, PTL

(* No task is run twice, and a run that should have stopped writes at most *)
(* once more, however calls fail and whoever stops, dies or gives up.      *)
THEOREM WorkersRestrained == Spec => []Restrained
<1>1. IInv => Restrained
  BY InvImplies
<1> QED BY <1>1, InvHolds, PTL

(* DONE is recorded only over a marker, and a run that has put its marker  *)
(* ends as DONE unless it is given up by timeout.                          *)
THEOREM PublicationIsSafe == Spec => []PublicationHolds
<1>1. IInv => PublicationHolds
  BY InvImplies
<1> QED BY <1>1, InvHolds, PTL

-----------------------------------------------------------------------------
(* Whose objects are in the prefix.                                        *)

\* No earlier attempt was given up by timeout.
Undisturbed(i) == \A j \in Known(tasks) : j < i => tasks[j].error # "task_timeout"

\* An attempt is submitted when the ones before it have failed.
Ordered ==
    \A i \in Known(tasks) : \A j \in TaskIds : j < i =>
        j \in Known(tasks) /\ tasks[j].status \in {"FAILED", "ABORTED"}

\* The parts a run has written are there, unless an attempt that was given up
\* may still be writing.
PartsOf(p) ==
    /\ Mine(p) # NoRun
    /\ tasks[Mine(p)].status \in Active
    /\ Undisturbed(Mine(p))
    /\ pod[p].pc \in Before \cup Publishing
    => \A k \in 1 .. pod[p].done : out[k] = Mine(p)

\* The prefix of an attempt that has put its marker is complete.
Whole(i) ==
    /\ i \in marked
    /\ tasks[i].status \in {"FINALIZING", "DONE"}
    /\ Undisturbed(i)
    => \A k \in Objects : out[k] = i

\* What CleanOutput needs beside the inductive invariant.
CleanInv == Ordered /\ (\A p \in Owners : PartsOf(p)) /\ (\A i \in TaskIds : Whole(i))

\* What no step but a submission does: a record appears, or changes once it
\* has its final status.
Settled(S, S2) ==
    \A i \in TaskIds :
        /\ S2[i] = NoTask <=> S[i] = NoTask
        /\ S[i] # NoTask /\ S[i].status \in Terminal => S2[i] = S[i]

(* A callback settles what it settles for good.                            *)
LEMMA MovesSettle ==
    ASSUME NEW S \in Snapshots, NEW S2, AllMove(S, S2, 0)
    PROVE  Settled(S, S2)
<1>1. \A i \in TaskIds : S[i] # NoTask =>
        S2[i] # NoTask /\ (S[i].status \in Terminal => S2[i] = S[i])
  BY NoTaskAssumption DEF AllMove, Moves
<1> QED BY <1>1 DEF AllMove, Settled

(* So do the steps of the others.                                          *)
LEMMA DriftsSettle ==
    ASSUME NEW S \in Snapshots, NEW S2, AllDrift(S, S2)
    PROVE  Settled(S, S2)
<1>1. \A i \in TaskIds : S[i] # NoTask =>
        S2[i] # NoTask /\ (S[i].status \in Terminal => S2[i] = S[i])
  BY NoTaskAssumption DEF AllDrift, Drift
<1> QED BY <1>1 DEF AllDrift, Settled

\* A process goes on with what it had written, or has written nothing.
Carries(p) ==
    pod'[p].pc \in Before \cup Publishing =>
        \/ /\ pod[p].pc \in Before \cup Publishing
           /\ Mine(p)' = Mine(p) /\ pod'[p].done = pod[p].done
        \/ pod'[p].done = 0

(* A step that does not touch the prefix.                                  *)
LEMMA QuietKeeps ==
    ASSUME IInv, IInv', CleanInv, Settled(tasks, tasks'), UNCHANGED <<out, marked>>,
           \A p \in Owners : Carries(p)
    PROVE  CleanInv'
<1>1. Known(tasks)' = Known(tasks)
  BY DEF Settled, Known
<1>2. \A i \in Known(tasks) : tasks[i].status \in Terminal => tasks'[i] = tasks[i]
  BY DEF Settled, Known
<1>3. Ordered'
  BY <1>1, <1>2 DEF CleanInv, Ordered, Terminal, Known
<1>4. ASSUME NEW i \in TaskIds, Undisturbed(i)'
      PROVE  Undisturbed(i)
  <2> SUFFICES ASSUME NEW j \in Known(tasks), j < i, tasks[j].error = "task_timeout"
               PROVE  FALSE
    BY DEF Undisturbed
  <2>1. tasks[j].status = "FAILED"
    BY DEF IInv, RecordOf, Known
  <2>2. tasks'[j] = tasks[j]
    BY <1>2, <2>1 DEF Terminal
  <2> QED BY <1>1, <1>4, <2>2 DEF Undisturbed
<1>5. ASSUME NEW p \in Owners
      PROVE  PartsOf(p)'
  <2> SUFFICES ASSUME Mine(p)' # NoRun,
                      tasks'[Mine(p)'].status \in Active,
                      Undisturbed(Mine(p))',
                      pod'[p].pc \in Before \cup Publishing,
                      NEW k \in 1 .. pod'[p].done
               PROVE  out'[k] = Mine(p)'
    BY DEF PartsOf
  <2>1. /\ pod[p].pc \in Before \cup Publishing
        /\ Mine(p)' = Mine(p) /\ pod'[p].done = pod[p].done
    BY DEF Carries
  <2>2. PICK i \in TaskIds : Mine(p) = i
    BY <2>1, WorkingGives, AtWork DEF Working
  <2>3. i \in Known(tasks) /\ tasks[i].status \in Active \cup Terminal
    BY <2>1, <2>2, WorkingGives, AtWork DEF Working, Owned, Known
  <2>4. tasks[i].status \in Active
    BY <1>2, <2>1, <2>2, <2>3, StatusFacts
  <2>5. Undisturbed(i)
    <3>1. Undisturbed(i)'
      BY <2>1, <2>2
    <3> QED BY <3>1, <1>4
  <2> QED BY <2>1, <2>2, <2>4, <2>5 DEF CleanInv, PartsOf
<1>6. ASSUME NEW i \in TaskIds
      PROVE  Whole(i)'
  <2> SUFFICES ASSUME i \in marked, tasks'[i].status \in {"FINALIZING", "DONE"},
                      Undisturbed(i)'
               PROVE  \A k \in Objects : out[k] = i
    BY DEF Whole
  <2>1. i \in Known(tasks) /\ RecordOf(i)
    BY DEF IInv, RunOf, Known
  <2>2. tasks[i].status \in {"FINALIZING", "DONE"}
    BY <1>2, <2>1 DEF RecordOf, GivenUp, Known, Terminal
  <2> QED BY <1>4, <2>2 DEF CleanInv, Whole
<1> QED BY <1>3, <1>5, <1>6 DEF CleanInv

(* Two attempts of which one may still write and the other counts are the  *)
(* same.                                                                   *)
LEMMA OneWriter ==
    ASSUME IInv, Ordered,
           NEW i \in Known(tasks), tasks[i].status \in Active \/ GivenUp(tasks[i]),
           NEW j \in Known(tasks), tasks[j].status \in Active \cup {"DONE"}, Undisturbed(j)
    PROVE  j = i
<1>1. i \in Nat /\ j \in Nat
  BY IdsAssumption DEF Known
<1>2. CASE i < j
  <2>1. tasks[i].status \in {"FAILED", "ABORTED"}
    BY <1>2 DEF Ordered, Known
  <2> QED BY <1>2, <2>1 DEF GivenUp, Undisturbed, Active
<1>3. CASE j < i
  BY <1>3 DEF Ordered, Active, Known
<1> QED BY <1>1, <1>2, <1>3

(* A run that writes is the only one whose objects count.                  *)
LEMMA WriterGives ==
    ASSUME IInv, CleanInv, NEW p \in Owners, pod[p].pc \in {"write", "publish"}
    PROVE  /\ Mine(p) \in Known(tasks) /\ Mine(p) \notin marked /\ Mine(p) # NoRun
           /\ tasks[Mine(p)].status \in Active \/ GivenUp(tasks[Mine(p)])
           /\ \A q \in Owners : q # p /\ Mine(q) # NoRun /\ Undisturbed(Mine(q)) =>
                 tasks[Mine(q)].status \notin Active
           /\ \A j \in marked : Undisturbed(j) => tasks[j].status \notin {"FINALIZING", "DONE"}
<1>1. pod[p].pc \in Working
  BY DEF Working, Before, Publishing
<1>2. /\ Mine(p) \in Known(tasks) /\ Mine(p) \notin marked /\ Mine(p) # NoRun
      /\ tasks[Mine(p)].owner = p
  BY <1>1, WorkingGives, AtWork DEF Owned, Known
<1>3. tasks[Mine(p)].status \in Active \/ GivenUp(tasks[Mine(p)])
  BY <1>1, <1>2, WorkingGives DEF StageOf, Before, Publishing, Active
<1>4. ASSUME NEW q \in Owners, q # p, Mine(q) # NoRun, Undisturbed(Mine(q)),
             tasks[Mine(q)].status \in Active
      PROVE  FALSE
  <2>1. Mine(q) \in Known(tasks) /\ tasks[Mine(q)].owner = q
    BY <1>4, InvTypes DEF IInv, StageOf, Slot, Mine, Known
  <2>2. Mine(q) = Mine(p)
    BY <1>2, <1>3, <1>4, <2>1, OneWriter DEF CleanInv
  <2> QED BY <1>2, <1>4, <2>1, <2>2
<1>5. ASSUME NEW j \in marked, Undisturbed(j), tasks[j].status \in {"FINALIZING", "DONE"}
      PROVE  FALSE
  <2>1. j \in Known(tasks)
    BY InvTypes DEF IInv, RunOf, Known
  <2>2. j = Mine(p)
    BY <1>2, <1>3, <1>5, <2>1, OneWriter DEF CleanInv, Active
  <2> QED BY <1>2, <2>2
<1> QED BY <1>2, <1>3, <1>4, <1>5

(* The calls of the store leave final statuses alone.                      *)
LEMMA CallSettles ==
    ASSUME IInv, NEW change, AllMove(tasks, change.tasks, 0),
           Answered(change) \/ Unanswered(change)
    PROVE  Settled(tasks, tasks')
BY MovesSettle, InvTypes DEF Answered, Unanswered, Settled

(* No step of a consumer brings back a record that has ended.              *)
LEMMA ConsumerSettles ==
    ASSUME IInv, NEW p \in Owners, Consumer(p)
    PROVE  Settled(tasks, tasks')
<1> DEFINE done == pod[p].done
           i == Mine(p)
<1>1. tasks \in Snapshots /\ (\A j \in Known(tasks) : Sound(tasks[j])) /\ 0 \in Int
  BY InvTypes DEF SoundIn
<1>2. CASE UNCHANGED tasks
  BY <1>2 DEF Settled
<1>3. CASE Claim(p)
  <2> DEFINE change == claim_next(tasks, p, Models, 0)
  <2>1. \/ change.tasks = tasks
        \/ \E j \in Known(tasks) : \E u :
              Replaces(tasks, j, change, u) /\ Claims(tasks[j], u, p)
    BY <1>1, ClaimEffect, CreatedInTime, InvTypes
  <2>2. Answered(change) \/ Unanswered(change)
    BY <1>3 DEF Claim
  <2> HIDE DEF change
  <2>3. Settled(tasks, change.tasks)
    <3>1. CASE change.tasks = tasks
      BY <3>1 DEF Settled
    <3>2. ASSUME NEW j \in Known(tasks), NEW u, Replaces(tasks, j, change, u),
                 Claims(tasks[j], u, p)
          PROVE  Settled(tasks, change.tasks)
      <4>1. u # NoTask /\ (tasks[j].status \in Terminal => u = tasks[j])
        BY <3>2, StatusFacts, NoTaskAssumption DEF Claims
      <4> QED BY <1>1, <3>2, <4>1 DEF Settled, Replaces, Known, Snapshots
    <3> QED BY <2>1, <3>1, <3>2
  <2> QED BY <2>2, <2>3 DEF Answered, Unanswered, Settled
<1>4. ASSUME pod[p].pc \in Working \cup {"save"}
      PROVE  i \in TaskIds /\ done \in 0 .. MaxRows /\ Chunks \in 0 .. MaxRows
  <2>1. pod[p].pc \notin Between
    BY <1>4 DEF Working, Before, Publishing, Aborting, Between
  <2>2. done \in 0 .. MaxRows
    BY InvTypes, LimitsAssumption DEF Slot
  <2> QED BY <2>1, <2>2, AtWork, InvTypes
<1>5. CASE Count(p)
  <2>1. pod[p].pc \in Working
    BY <1>5 DEF Count, At, Working, Before
  <2>2. AllMove(tasks, set_total_rows(tasks, i, p, Chunks, 0).tasks, 0)
    BY <1>1, <1>4, <2>1, SetTotalRowsMoves
  <2> QED BY <1>5, <2>2, CallSettles DEF Count
<1>6. CASE Progress(p) \/ Abort(p)
  <2>1. pod[p].pc \in Working
    BY <1>6 DEF Progress, Abort, At, Working, Before, Aborting
  <2>2. AllMove(tasks, update_progress(tasks, i, p, done, 0).tasks, 0)
    BY <1>1, <1>4, <2>1, UpdateProgressMoves
  <2> QED BY <1>6, <2>2, CallSettles DEF Progress, Abort
<1>7. CASE Prepare(p)
  <2>1. pod[p].pc \in Working
    BY <1>7 DEF Prepare, At, Working, Before
  <2>2. AllMove(tasks, prepare_completion(tasks, i, p, done, 0).tasks, 0)
    BY <1>1, <1>4, <2>1, PrepareCompletionMoves
  <2> QED BY <1>2, <1>7, <2>2, CallSettles DEF Prepare, Breaks
<1>8. CASE SaveStatus(p)
  <2> DEFINE want == pod[p].want
             why == pod[p].why
  <2>1. pod[p].pc = "save" /\ pod[p].pc \notin Between
    BY <1>8 DEF SaveStatus, At, Between
  <2>2. i \in TaskIds /\ StageOf(p) /\ pod[p] \in Slot
    BY <2>1, AtWork DEF IInv
  <2>3. /\ want \in Terminal /\ why \in Errors \ {"task_timeout"}
        /\ want = "ABORTED" => tasks[i].status \in {"ABORTING"} \cup Terminal
    BY <2>1, <2>2, AtWork DEF StageOf, Slot, Saving
  <2> HIDE DEF want, why
  <2>4. AllMove(tasks, set_status(tasks, i, p, want, why, 0).tasks, 0)
    BY <1>1, <2>2, <2>3, SetStatusMoves
  <2> QED BY <1>8, <2>4, CallSettles DEF SaveStatus, want, why
<1> QED BY <1>2, <1>3, <1>5, <1>6, <1>7, <1>8
       DEF Consumer, Loop, Begin, Load, Validate, Recount, Inspect, Top, Infer, Write,
           Finalize, Publish, Wait, Close, Check, Breaks

(* A move to another stage.                                                *)
LEMMA GotoCarries ==
    ASSUME IInv, NEW p \in Owners, NEW stage, Goto(p, stage),
           stage \in Before \cup Publishing => pod[p].pc \in Before \cup Publishing
    PROVE  \A q \in Owners : Carries(q)
BY InvTypes DEF Goto, Carries, Mine, Slot

(* A move to the end of the run.                                           *)
LEMMA SaveCarries ==
    ASSUME IInv, NEW p \in Owners, NEW want, NEW why, Save(p, want, why)
    PROVE  \A q \in Owners : Carries(q)
BY InvTypes DEF Save, Carries, Mine, Slot, Before, Publishing

(* The stages that do not write leave the prefix alone.                    *)
LEMMA ConsumerCarries ==
    ASSUME IInv, NEW p \in Owners, Consumer(p), pod[p].pc \notin {"write", "publish"}
    PROVE  UNCHANGED <<out, marked>> /\ (\A q \in Owners : Carries(q))
<1>1. UNCHANGED <<out, marked>>
  BY DEF Consumer, Loop, Claim, Begin, Load, Validate, Count, Recount, Inspect, Top, Infer,
         Write, Progress, Prepare, Finalize, Publish, Abort, SaveStatus, Wait, Close,
         Check, Breaks, At, history
<1>2. CASE pod[p].pc \in Before \cup Publishing
  <2>1. (\E stage : Goto(p, stage)) \/ (\E want, why : Save(p, want, why))
    BY <1>2 DEF Consumer, Loop, Claim, Begin, Load, Validate, Count, Recount, Inspect, Top, Infer,
         Write, Progress, Prepare, Finalize, Publish, Abort, SaveStatus, Wait, Close,
         Check, Breaks, Fails, At, Before, Publishing
  <2> QED BY <1>1, <1>2, <2>1, GotoCarries, SaveCarries
<1>3. CASE pod[p].pc \notin Before \cup Publishing
  <2>1. pod[p].pc \in {"loop", "claim", "abort", "abort_handler", "save", "wait", "close"}
    BY <1>3 DEF Consumer, Loop, Claim, Begin, Load, Validate, Count, Recount, Inspect, Top, Infer,
         Write, Progress, Prepare, Finalize, Publish, Abort, SaveStatus, Wait, Close,
         At, Before, Publishing
  <2>2. CASE Claim(p)
    <3>1. CASE Goto(p, "loop")
      BY <1>1, <3>1, GotoCarries DEF Before, Publishing
    <3>2. CASE ~Goto(p, "loop")
      <4>1. PICK i : pod' = [pod EXCEPT ![p].pc = "begin", ![p].task = i, ![p].done = 0]
        BY <2>2, <3>2 DEF Claim
      <4>2. pod'[p].done = 0 /\ \A q \in Owners : q # p => pod'[q] = pod[q]
        BY <4>1, InvTypes DEF Slot
      <4> QED BY <1>1, <4>2 DEF Carries, Mine
    <3> QED BY <3>1, <3>2
  <2>3. CASE Loop(p) \/ Close(p)
    <3>1. /\ pod'[p].pc \in {"loop", "claim", "exited"}
          /\ \A q \in Owners : q # p => pod'[q] = pod[q]
      <4>1. /\ pod \in [Owners -> Slot] /\ \A r \in Slot : DOMAIN r = DOMAIN pod[p]
            /\ "pc" \in DOMAIN pod[p]
        BY InvTypes DEF Slot
      <4>2. CASE Loop(p)
        BY <4>1, <4>2 DEF Loop, Goto
      <4>3. CASE Close(p)
        <5>1. PICK failed : pod' = [pod EXCEPT ![p].pc = "loop", ![p].stop = @ \/ failed,
                                 ![p].done = 0, ![p].want = "FAILED", ![p].why = "none"]
          BY <4>3 DEF Close
        <5> DEFINE stopped == pod[p].stop \/ failed
        <5>2. pod' = [pod EXCEPT ![p].pc = "loop", ![p].stop = stopped,
                                 ![p].done = 0, ![p].want = "FAILED", ![p].why = "none"]
          BY <5>1
        <5> HIDE DEF stopped
        <5> QED BY <4>1, <5>2
      <4> QED BY <2>3, <4>2, <4>3
    <3> QED BY <1>1, <3>1 DEF Carries, Mine, Before, Publishing
  <2>4. CASE Abort(p) \/ SaveStatus(p) \/ Wait(p)
    <3>1. \/ \E stage \in {"close", "wait", "save"} : Goto(p, stage)
          \/ \E want, why : Save(p, want, why)
      BY <2>4 DEF Abort, SaveStatus, Wait, Fails
    <3> QED BY <1>1, <3>1, GotoCarries, SaveCarries DEF Before, Publishing
  <2> QED BY <2>1, <2>2, <2>3, <2>4 
          DEF Consumer, Begin, Load, Validate, Count, Recount, Inspect, Top, Infer,
              Write, Progress, Prepare, Finalize, Publish, At
<1> QED BY <1>2, <1>3

(* A put by a run on its own prefix disturbs no other attempt that counts. *)
LEMMA PutKeepsOthers ==
    ASSUME IInv, CleanInv, NEW p \in Owners, pod[p].pc \in {"write", "publish"},
           UNCHANGED tasks,
           \A q \in Owners : q # p => pod'[q] = pod[q],
           \A j \in TaskIds : j # Mine(p) => (j \in marked' <=> j \in marked)
    PROVE  /\ Ordered'
           /\ \A i : Undisturbed(i)' <=> Undisturbed(i)
           /\ \A q \in Owners : q # p => PartsOf(q)'
           /\ \A j \in TaskIds : j # Mine(p) => Whole(j)'
<1>1. Ordered' /\ (\A i : Undisturbed(i)' <=> Undisturbed(i))
  BY DEF CleanInv, Ordered, Undisturbed, Known
<1>2. \A q \in Owners : q # p => Mine(q)' = Mine(q)
  BY DEF Mine
<1>3. ASSUME NEW q \in Owners, q # p
      PROVE  PartsOf(q)'
  <2>1. Mine(q)' = Mine(q)
    BY <1>2, <1>3
  <2>2. ~(Mine(q) # NoRun /\ tasks[Mine(q)].status \in Active /\ Undisturbed(Mine(q)))
    BY <1>3, WriterGives
  <2>3. Undisturbed(Mine(q))' <=> Undisturbed(Mine(q))
    BY <2>1 DEF Undisturbed
  <2> QED BY <2>1, <2>2, <2>3 DEF PartsOf
<1>4. ASSUME NEW j \in TaskIds, j # Mine(p)
      PROVE  Whole(j)'
  <2>1. Undisturbed(j)' <=> Undisturbed(j)
    BY DEF Undisturbed
  <2>2. j \in marked' <=> j \in marked
    BY <1>4
  <2> QED BY <2>1, <2>2, WriterGives DEF Whole
<1> QED BY <1>1, <1>3, <1>4

(* A run that writes a part or the marker.                                 *)
LEMMA WriterKeepsClean ==
    ASSUME IInv, CleanInv, NEW p \in Owners, Write(p) \/ Publish(p)
    PROVE  CleanInv'
<1>1. pod[p].pc \in {"write", "publish"} /\ UNCHANGED tasks
  BY DEF Write, Publish, At
<1>2. PICK i \in Known(tasks) : Mine(p) = i
  BY <1>1, WriterGives
<1>3. i \notin marked /\ i \in TaskIds /\ i # NoRun /\ PartsOf(p)
      /\ pod[p].done \in 0 .. Chunks /\ pod \in [Owners -> Slot]
      /\ out \in [Objects -> TaskIds \cup {NoRun}] /\ Chunks \in Nat
  BY <1>1, <1>2, WriterGives, InvTypes DEF CleanInv, Known, Slot
<1>4. \A q \in Owners : q # p => pod'[q] = pod[q]
  BY <1>3 DEF Write, Publish, PutRaises, Fails, Save
<1>5. marked' \subseteq marked \cup {i} /\ marked \subseteq marked'
  BY <1>2 DEF Write, Publish
<1>6. /\ Ordered'
      /\ \A j : Undisturbed(j)' <=> Undisturbed(j)
      /\ \A q \in Owners : q # p => PartsOf(q)'
      /\ \A j \in TaskIds : j # i => Whole(j)'
  BY <1>1, <1>2, <1>4, <1>5, PutKeepsOthers
<1>7. CASE UNCHANGED marked /\ pod'[p].pc = "save"
  <2>1. PartsOf(p)'
    BY <1>7 DEF PartsOf, Before, Publishing
  <2>2. Whole(i)'
    BY <1>3, <1>7 DEF Whole
  <2> QED BY <1>2, <1>6, <2>1, <2>2 DEF CleanInv
<1>8. ASSUME NEW k, PutRaises(p, k), UNCHANGED marked
      PROVE  CleanInv'
  <2>1. pod'[p].pc = "save"
    BY <1>3, <1>8 DEF PutRaises, Fails, Save, Slot
  <2> QED BY <1>7, <1>8, <2>1
<1>9. CASE /\ pod[p].pc = "write" /\ UNCHANGED marked
           /\ PutObject(p, pod[p].done + 1)
           /\ \E next : pod' = [pod EXCEPT ![p].pc = next, ![p].done = pod[p].done + 1]
  <2>1. pod'[p].done = pod[p].done + 1 /\ Mine(p)' = i
    BY <1>2, <1>3, <1>9 DEF Slot, Mine
  <2>2. pod[p].done < Chunks
    BY <1>2, <1>3, <1>9 DEF IInv, StageOf
  <2>3. out' = [out EXCEPT ![pod[p].done + 1] = i]
    BY <1>2, <1>9 DEF PutObject
  <2>4. PartsOf(p)'
    <3> SUFFICES ASSUME tasks[i].status \in Active, Undisturbed(i),
                        NEW k \in 1 .. pod[p].done + 1
                 PROVE  out'[k] = i
      <4>1. Undisturbed(Mine(p))' <=> Undisturbed(i)
        BY <1>1, <2>1 DEF Undisturbed
      <4> QED BY <1>1, <2>1, <4>1 DEF PartsOf
    <3>1. \A n \in 1 .. pod[p].done : out[n] = i
      BY <1>2, <1>3, <1>9 DEF PartsOf, Before
    <3>2. k \in Objects
      BY <1>3, <2>2 DEF Objects
    <3> QED BY <1>3, <2>3, <3>1, <3>2
  <2>5. Whole(i)'
    BY <1>3, <1>9 DEF Whole
  <2> QED BY <1>2, <1>6, <2>4, <2>5 DEF CleanInv
<1>10. CASE /\ pod[p].pc = "publish" /\ PutObject(p, Marker) /\ Save(p, "DONE", "none")
  <2>1. pod'[p].pc = "save"
    BY <1>3, <1>10 DEF Save, Slot
  <2>2. PartsOf(p)'
    BY <2>1 DEF PartsOf, Before, Publishing
  <2>3. Whole(i)'
    <3> SUFFICES ASSUME tasks[i].status \in {"FINALIZING", "DONE"}, Undisturbed(i),
                        NEW k \in Objects
                 PROVE  out'[k] = i
      BY <1>1, <1>6 DEF Whole
    <3>1. tasks[i].status \in Active /\ pod[p].done = Chunks
      BY <1>1, <1>2, <1>3, <1>10, WriterGives
         DEF IInv, StageOf, Publishing, Active, GivenUp
    <3>2. \A n \in 1 .. Chunks : out[n] = i
      BY <1>2, <1>3, <1>10, <3>1 DEF PartsOf, Publishing
    <3>3. out' = [out EXCEPT ![Marker] = i]
      BY <1>2, <1>10 DEF PutObject
    <3> QED BY <1>3, <3>2, <3>3 DEF Objects, Marker
  <2> QED BY <1>2, <1>6, <2>2, <2>3 DEF CleanInv
<1> QED BY <1>8, <1>9, <1>10 DEF Write, Publish, At

(* A submission clears the prefix when nobody counts on it.                *)
LEMMA SubmitKeepsClean ==
    ASSUME IInv, CleanInv, NEW i \in TaskIds, NEW request \in Requests, Submit(i, request)
    PROVE  CleanInv'
<1>1. /\ tasks[i] = NoTask /\ UNCHANGED <<pod, marked>>
      /\ \A j \in TaskIds : j < i => j \in Known(tasks) /\ tasks[j].status \in {"FAILED", "ABORTED"}
  BY DEF Submit, history, Known
<1>2. \A j \in TaskIds : j # i => tasks'[j] = tasks[j]
  <2>1. \/ tasks' = tasks
        \/ tasks' = [tasks EXCEPT ![i] = NewTask(i, request, 0)]
    <3>1. tasks' = enqueue(tasks, i, i, request, 0).tasks
      BY DEF Submit
    <3> QED BY <3>1, EnqueueLeaves
  <2> QED BY <2>1, InvTypes DEF Snapshots
<1>3. \A j \in Known(tasks) : j < i /\ j \in TaskIds /\ j # i
  <2> SUFFICES ASSUME NEW j \in Known(tasks), ~(j < i)
               PROVE  FALSE
    BY <1>1, IdsAssumption DEF Known
  <2>1. i < j
    BY <1>1, IdsAssumption DEF Known
  <2> QED BY <1>1, <2>1 DEF CleanInv, Ordered, Known
<1>4. Ordered'
  <2> SUFFICES ASSUME NEW j \in Known(tasks)', NEW k \in TaskIds, k < j
               PROVE  k \in Known(tasks)' /\ tasks'[k].status \in {"FAILED", "ABORTED"}
    BY DEF Ordered
  <2>1. CASE j = i
    BY <1>1, <1>2, <2>1, IdsAssumption DEF Known
  <2>2. CASE j # i
    <3>1. j \in Known(tasks) /\ k \in Known(tasks) /\ tasks[k].status \in {"FAILED", "ABORTED"}
      BY <1>2, <2>2 DEF Known, CleanInv, Ordered
    <3> QED BY <1>2, <1>3, <3>1 DEF Known
  <2> QED BY <2>1, <2>2
<1>5. ASSUME NEW p \in Owners
      PROVE  PartsOf(p)'
  <2>1. Mine(p)' = Mine(p)
    BY <1>1 DEF Mine
  <2>2. CASE Mine(p) = NoRun
    BY <2>1, <2>2 DEF PartsOf
  <2>3. CASE Mine(p) # NoRun
    <3>1. Mine(p) \in Known(tasks)
      BY <2>3, InvTypes DEF IInv, StageOf, Slot, Mine, Known
    <3>2. tasks'[Mine(p)].status \notin Active
      BY <1>1, <1>2, <1>3, <3>1 DEF Active
    <3> QED BY <2>1, <3>2 DEF PartsOf
  <2> QED BY <2>2, <2>3
<1>6. ASSUME NEW j \in TaskIds
      PROVE  Whole(j)'
  <2> SUFFICES ASSUME j \in marked, tasks'[j].status \in {"FINALIZING", "DONE"}
               PROVE  FALSE
    BY <1>1 DEF Whole
  <2>1. j \in Known(tasks)
    BY DEF IInv, RunOf, Known
  <2> QED BY <1>1, <1>2, <1>3, <2>1
<1> QED BY <1>4, <1>5, <1>6 DEF CleanInv

(* Every step of the system.                                               *)
LEMMA NextKeepsClean ==
    ASSUME IInv, CleanInv, [Next]_vars
    PROVE  CleanInv'
<1>1. IInv'
  BY NextKeepsInv
<1>2. ASSUME NEW p \in Owners, Consumer(p)
      PROVE  CleanInv'
  <2>1. CASE pod[p].pc \notin {"write", "publish"}
    BY <1>1, <1>2, <2>1, ConsumerSettles, ConsumerCarries, QuietKeeps
  <2>2. CASE pod[p].pc \in {"write", "publish"}
    <3>1. Write(p) \/ Publish(p)
      BY <1>2, <2>2
         DEF Consumer, Loop, Claim, Begin, Load, Validate, Count, Recount, Inspect, Top, Infer,
             Progress, Prepare, Finalize, Abort, SaveStatus, Wait, Close, At
    <3> QED BY <3>1, WriterKeepsClean
  <2> QED BY <2>1, <2>2
<1>3. ASSUME NEW p \in Owners, Signal(p) \/ Crash(p)
      PROVE  CleanInv'
  <2>1. Settled(tasks, tasks') /\ UNCHANGED <<out, marked>>
    BY <1>3 DEF Signal, Crash, Settled, history
  <2>2. \A q \in Owners : Carries(q)
    <3>1. CASE Signal(p)
      BY <3>1, InvTypes DEF Signal, Carries, Mine, Slot
    <3>2. CASE Crash(p)
      BY <3>2, GotoCarries DEF Crash, Before, Publishing
    <3> QED BY <1>3, <3>1, <3>2
  <2> QED BY <1>1, <2>1, <2>2, QuietKeeps
<1>4. ASSUME UNCHANGED <<pod, out, marked>>, AllDrift(tasks, tasks')
      PROVE  CleanInv'
  <2>1. \A q \in Owners : Carries(q)
    BY <1>4 DEF Carries, Mine
  <2>2. Settled(tasks, tasks')
    BY <1>4, DriftsSettle, InvTypes
  <2> QED BY <1>1, <1>4, <2>1, <2>2, QuietKeeps
<1>5. ASSUME NEW i \in TaskIds, Heartbeat(i)
      PROVE  CleanInv'
  BY <1>4, <1>5, HeartbeatLeaves DEF Heartbeat, history
<1>6. CASE (\E i \in TaskIds : RequestAbort(i)) \/ Readiness \/ Tick
  BY <1>4, <1>6, StoreLeaves DEF RequestAbort, Readiness, Tick, history
<1>7. ASSUME NEW i \in TaskIds, NEW request \in Requests, Submit(i, request)
      PROVE  CleanInv'
  BY <1>7, SubmitKeepsClean
<1>8. CASE UNCHANGED vars
  BY <1>4, <1>8, InvTypes, LeaveDrifts DEF vars
<1> QED BY <1>2, <1>3, <1>5, <1>6, <1>7, <1>8 DEF Next

(* The prefix of a task that is DONE holds the objects of that attempt and *)
(* no others, unless an earlier attempt was given up by timeout.           *)
THEOREM OutputIsClean == Spec => []CleanOutput
<1>1. Init => CleanInv
  <2> SUFFICES ASSUME Init PROVE CleanInv
    OBVIOUS
  <2>1. Known(tasks) = {} /\ marked = {} /\ \A p \in Owners : Mine(p) = NoRun
    BY DEF Init, Known, Mine
  <2> QED BY <2>1 DEF CleanInv, Ordered, PartsOf, Whole
<1>2. IInv /\ CleanInv /\ [Next]_vars => CleanInv'
  BY NextKeepsClean
<1>3. IInv /\ CleanInv => CleanOutput
  <2> SUFFICES ASSUME IInv, CleanInv, NEW i \in Known(tasks), tasks[i].status = "DONE",
                      Undisturbed(i)
               PROVE  \A k \in Objects : out[k] = i
    BY DEF CleanOutput, Undisturbed
  <2>1. i \in TaskIds /\ i \in marked
    BY DEF IInv, RecordOf, Known
  <2> QED BY <2>1 DEF CleanInv, Whole
<1> QED BY <1>1, <1>2, <1>3, InvHolds, PTL DEF Spec

=============================================================================
