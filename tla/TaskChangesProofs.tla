-------------------------- MODULE TaskChangesProofs --------------------------
(***************************************************************************)
(* Facts about the callbacks of TaskChanges that the proofs about the      *)
(* modules built on them share: what one call may do to one record, which  *)
(* task a claim chooses, and what a call on a part of the queue amounts    *)
(* to.  They hold for every snapshot, whoever calls and in whatever state. *)
(***************************************************************************)
EXTENDS TaskChanges, WellFoundedInduction, TLAPS

Snapshots == [TaskIds -> TaskState \cup {NoTask}]

-----------------------------------------------------------------------------
(* What one call may do to one record, whoever makes it.                   *)

Edge(from, to) ==
    \/ to = from
    \/ from = "QUEUED" /\ to = "ABORTED"
    \/ from = "RUNNING" /\ to \in {"ABORTING", "FINALIZING", "FAILED"}
    \/ from = "ABORTING" /\ to \in {"ABORTED", "FAILED"}
    \/ from = "FINALIZING" /\ to \in {"DONE", "FAILED"}

Sound(t) ==
    /\ t.cancel_requested <=> t.status = "ABORTING"
    /\ t.status = "QUEUED" => t.owner = NoOwner

AfterTimeout(t, u) ==
    \/ u.status = "FAILED" /\ u.error = "task_timeout"
    \/ u = t
    \/ u = [t EXCEPT !.status = "ABORTING", !.cancel_requested = TRUE]

Moves(t, u, now) ==
    /\ u \in TaskState
    /\ u.key = t.key
    /\ u.request = t.request
    /\ u.created_at = t.created_at
    /\ u.last_modified \in {t.last_modified, now}
    /\ Edge(t.status, u.status)
    /\ Sound(u)
    /\ t.status \in Terminal => u = t
    /\ u.owner = t.owner
    /\ u.status \in Terminal => u = t \/ u.finished_at = now
    /\ TimedOut(t, now) => AfterTimeout(t, u)
    /\ t.status \in Active /\ u.status = "FAILED" /\ u.error = "task_timeout" => TimedOut(t, now)

AllMove(S, S2, now) ==
    /\ S2 \in Snapshots
    /\ \A i \in TaskIds : IF S[i] = NoTask THEN S2[i] = NoTask ELSE Moves(S[i], S2[i], now)

(* A record left alone moves.                                              *)
LEMMA StayMoves ==
    ASSUME NEW t \in TaskState, Sound(t), NEW now \in Int
    PROVE  Moves(t, t, now)
BY DEF Moves, Edge, AfterTimeout, Active

(* The transition to a final status moves a record, from the states where  *)
(* the code makes it.                                                      *)
LEMMA SetTerminalMoves ==
    ASSUME NEW t \in TaskState, NEW now \in Int, Sound(t), t.status \notin Terminal,
           NEW status \in Terminal, NEW error \in Errors, Edge(t.status, status),
           TimedOut(t, now) => status = "FAILED" /\ error = "task_timeout",
           error = "task_timeout" => TimedOut(t, now)
    PROVE  Moves(t, SetTerminal(t, status, error, now), now)
<1> DEFINE u == SetTerminal(t, status, error, now)
<1>1. u \in TaskState
  BY DEF SetTerminal, TaskState, Terminal, Status, Errors
<1>2. /\ u.key = t.key /\ u.request = t.request /\ u.created_at = t.created_at
      /\ u.owner = t.owner /\ u.status = status /\ u.error = error
      /\ u.finished_at = now /\ u.cancel_requested = FALSE /\ u.last_modified = now
  BY DEF SetTerminal, TaskState
<1>3. QED
  BY <1>1, <1>2 DEF Moves, Sound, AfterTimeout, Terminal, Active

(* Applying the timeout moves a record, and leaves it final or in time.    *)
LEMMA ExpireMoves ==
    ASSUME NEW t \in TaskState, NEW now \in Int, Sound(t)
    PROVE  /\ Moves(t, Expire(t, now), now)
           /\ Expire(t, now) \in TaskState
           /\ Expire(t, now) = t \/ Expire(t, now).status = "FAILED"
           /\ Expire(t, now) = t => ~TimedOut(t, now)
<1>1. CASE TimedOut(t, now)
  <2>1. t.status \in Active /\ t.status \notin Terminal
    BY <1>1 DEF TimedOut, Active, Terminal
  <2>2. Edge(t.status, "FAILED")
    BY <2>1 DEF Edge, Active
  <2>3. Moves(t, SetTerminal(t, "FAILED", "task_timeout", now), now)
    BY <1>1, <2>1, <2>2, SetTerminalMoves DEF Terminal, Errors
  <2>4. SetTerminal(t, "FAILED", "task_timeout", now).status = "FAILED"
    BY DEF SetTerminal, TaskState
  <2>5. t.status # "FAILED"
    BY <2>1 DEF Terminal
  <2>6. Expire(t, now) = SetTerminal(t, "FAILED", "task_timeout", now)
    BY <1>1 DEF Expire
  <2>7. QED
    BY <2>3, <2>4, <2>5, <2>6 DEF Moves
<1>2. CASE ~TimedOut(t, now)
  BY <1>2, StayMoves DEF Expire
<1>3. QED
  BY <1>1, <1>2

(* One record put back moves the snapshot.                                 *)
LEMMA PutMoves ==
    ASSUME NEW S \in Snapshots, NEW now \in Int, NEW id \in TaskIds, S[id] # NoTask,
           \A i \in Known(S) : Sound(S[i]),
           NEW u, Moves(S[id], u, now), NEW r
    PROVE  AllMove(S, Put(S, id, u, r).tasks, now)
<1>1. u \in TaskState
  BY DEF Moves
<1>2. Put(S, id, u, r).tasks = [S EXCEPT ![id] = u]
  BY DEF Put
<1>3. \A i \in TaskIds : S[i] # NoTask => S[i] \in TaskState /\ Sound(S[i])
  BY DEF Snapshots, Known
<1>4. \A i \in TaskIds : S[i] # NoTask => Moves(S[i], S[i], now)
  BY <1>3, StayMoves
<1>5. QED
  BY <1>1, <1>2, <1>4 DEF AllMove, Snapshots

(* So does a snapshot left alone.                                          *)
LEMMA LeaveMoves ==
    ASSUME NEW S \in Snapshots, NEW now \in Int,
           \A i \in Known(S) : Sound(S[i]), NEW r
    PROVE  AllMove(S, Leave(S, r).tasks, now)
<1>1. \A i \in TaskIds : S[i] # NoTask => Moves(S[i], S[i], now)
  BY StayMoves DEF Snapshots, Known
<1>2. QED
  BY <1>1 DEF AllMove, Leave

-----------------------------------------------------------------------------
(* Each callback that works on records already there moves the snapshot.   *)

(* request_abort makes one allowed move of a task not in publication.      *)
LEMMA AbortMarkMoves ==
    ASSUME NEW t \in TaskState, Sound(t), NEW now \in Int, t.status # "FINALIZING"
    PROVE  Moves(t, AbortMark(t, now), now)
<1>1. CASE t.status = "QUEUED"
  <2>1. Moves(t, SetTerminal(t, "ABORTED", "none", now), now)
    BY <1>1, SetTerminalMoves DEF Terminal, Errors, Edge, TimedOut, Active
  <2>2. QED
    BY <1>1, <2>1 DEF AbortMark
<1>2. CASE t.status \in {"RUNNING", "ABORTING"}
  <2> DEFINE u == [t EXCEPT !.status = "ABORTING", !.cancel_requested = TRUE]
  <2>1. u \in TaskState
    BY DEF TaskState, Status, Active
  <2>2. /\ u.key = t.key /\ u.request = t.request /\ u.created_at = t.created_at /\ u.owner = t.owner
        /\ u.status = "ABORTING" /\ u.cancel_requested = TRUE
        /\ u.last_modified = t.last_modified
    BY DEF TaskState
  <2>3. AbortMark(t, now) = u
    BY <1>2 DEF AbortMark, TaskState
  <2>4. QED
    BY <1>2, <2>1, <2>2, <2>3 DEF Moves, Edge, Sound, Terminal, AfterTimeout
<1>3. CASE t.status \notin {"QUEUED", "RUNNING", "ABORTING"}
  BY <1>3, StayMoves DEF AbortMark
<1>4. QED
  BY <1>1, <1>2, <1>3

(* So does the whole callback.                                             *)
LEMMA RequestAbortMoves ==
    ASSUME NEW S \in Snapshots, \A i \in Known(S) : Sound(S[i]),
           NEW id \in TaskIds, NEW now \in Int
    PROVE  AllMove(S, request_abort(S, id, now).tasks, now)
<1>1. CASE S[id] = NoTask \/ S[id].status = "FINALIZING"
  BY <1>1, LeaveMoves DEF request_abort
<1>2. CASE S[id] # NoTask /\ S[id].status # "FINALIZING"
  <2>1. S[id] \in TaskState /\ Sound(S[id])
    BY <1>2 DEF Snapshots, Known
  <2>2. Moves(S[id], AbortMark(S[id], now), now)
    BY <1>2, <2>1, AbortMarkMoves
  <2>3. AllMove(S, Put(S, id, AbortMark(S[id], now), Value(id)).tasks, now)
    BY <1>2, <2>2, PutMoves
  <2>4. QED
    BY <1>2, <2>3 DEF request_abort
<1>3. QED
  BY <1>1, <1>2

(* The calls of an owner: expire, then refresh a record that is active.    *)
LEMMA RefreshMoves ==
    ASSUME NEW t \in TaskState, Sound(t), NEW now \in Int,
           ~TimedOut(t, now), t.status \in Active
    PROVE  /\ Moves(t, [t EXCEPT !.last_modified = now], now)
           /\ \A rows \in 0 .. MaxRows :
                 /\ Moves(t, [t EXCEPT !.total_rows = rows, !.last_modified = now], now)
                 /\ Moves(t, [t EXCEPT !.processed_rows = rows, !.last_modified = now], now)
BY DEF Moves, TaskState, Edge, Sound, Active, Terminal

(* What the owner's calls see after the timeout has been applied.          *)
LEMMA OwnerSees ==
    ASSUME NEW S \in Snapshots, \A i \in Known(S) : Sound(S[i]),
           NEW id \in TaskIds, NEW o, NEW now \in Int, ~NotOwned(S, id, o)
    PROVE  /\ S[id] # NoTask
           /\ S[id] \in TaskState
           /\ Sound(S[id])
           /\ Moves(S[id], Expire(S[id], now), now)
           /\ Expire(S[id], now).status \notin Terminal =>
                 Expire(S[id], now) = S[id] /\ ~TimedOut(S[id], now)
           /\ Active \cap Terminal = {}
<1>1. S[id] # NoTask /\ S[id] \in TaskState /\ Sound(S[id])
  BY DEF NotOwned, Snapshots, Known
<1>2. QED
  BY <1>1, ExpireMoves DEF Terminal, Active

(* heartbeat refreshes the caller's own active record only.                *)
LEMMA HeartbeatMoves ==
    ASSUME NEW S \in Snapshots, \A i \in Known(S) : Sound(S[i]),
           NEW id \in TaskIds, NEW o \in Owners, NEW now \in Int
    PROVE  AllMove(S, heartbeat(S, id, o, now).tasks, now)
<1>1. CASE NotOwned(S, id, o)
  BY <1>1, LeaveMoves DEF heartbeat, Refusal
<1>2. CASE ~NotOwned(S, id, o)
  <2> DEFINE t == Expire(S[id], now)
             u == IF t.status \notin Active THEN t
                  ELSE [t EXCEPT !.last_modified = now]
  <2>1. Moves(S[id], u, now)
    <3>1. CASE t.status \notin Active
      BY <1>2, <3>1, OwnerSees
    <3>2. CASE ~(t.status \notin Active)
      <4>1. t = S[id] /\ ~TimedOut(S[id], now) /\ S[id].status \in Active
        BY <1>2, <3>2, OwnerSees DEF Active, Terminal
      <4>2. QED
        BY <1>2, <3>2, <4>1, OwnerSees, RefreshMoves
    <3>3. QED
      BY <3>1, <3>2
  <2> HIDE DEF t, u
  <2>2. \A r : AllMove(S, Put(S, id, u, r).tasks, now)
    BY <1>2, <2>1, OwnerSees, PutMoves
  <2>3. QED
    BY <1>2, <2>2 DEF heartbeat, t, u
<1>3. QED
  BY <1>1, <1>2

(* set_total_rows leaves a record that is not RUNNING to its timeout.      *)
LEMMA SetTotalRowsMoves ==
    ASSUME NEW S \in Snapshots, \A i \in Known(S) : Sound(S[i]),
           NEW id \in TaskIds, NEW o \in Owners, NEW rows \in 0 .. MaxRows, NEW now \in Int
    PROVE  AllMove(S, set_total_rows(S, id, o, rows, now).tasks, now)
<1>1. CASE NotOwned(S, id, o)
  BY <1>1, LeaveMoves DEF set_total_rows, Refusal
<1>2. CASE ~NotOwned(S, id, o)
  <2> DEFINE t == Expire(S[id], now)
             u == IF t.status # "RUNNING" THEN t
                  ELSE [t EXCEPT !.total_rows = rows, !.last_modified = now]
  <2>1. Moves(S[id], u, now)
    <3>1. CASE t.status # "RUNNING"
      BY <1>2, <3>1, OwnerSees
    <3>2. CASE ~(t.status # "RUNNING")
      <4>1. t = S[id] /\ ~TimedOut(S[id], now) /\ S[id].status \in Active
        BY <1>2, <3>2, OwnerSees DEF Active, Terminal
      <4>2. QED
        BY <1>2, <3>2, <4>1, OwnerSees, RefreshMoves
    <3>3. QED
      BY <3>1, <3>2
  <2> HIDE DEF t, u
  <2>2. \A r : AllMove(S, Put(S, id, u, r).tasks, now)
    BY <1>2, <2>1, OwnerSees, PutMoves
  <2>3. QED
    BY <1>2, <2>2 DEF set_total_rows, t, u
<1>3. QED
  BY <1>1, <1>2

(* update_progress leaves a record that is over as it was.                 *)
LEMMA UpdateProgressMoves ==
    ASSUME NEW S \in Snapshots, \A i \in Known(S) : Sound(S[i]),
           NEW id \in TaskIds, NEW o \in Owners, NEW rows \in 0 .. MaxRows, NEW now \in Int
    PROVE  AllMove(S, update_progress(S, id, o, rows, now).tasks, now)
<1>1. CASE NotOwned(S, id, o)
  BY <1>1, LeaveMoves DEF update_progress, Refusal
<1>2. CASE ~NotOwned(S, id, o)
  <2> DEFINE t == Expire(S[id], now)
             u == IF t.status \notin Active THEN t
                  ELSE [t EXCEPT !.processed_rows = rows, !.last_modified = now]
  <2>1. Moves(S[id], u, now)
    <3>1. CASE t.status \notin Active
      BY <1>2, <3>1, OwnerSees
    <3>2. CASE ~(t.status \notin Active)
      <4>1. t = S[id] /\ ~TimedOut(S[id], now) /\ S[id].status \in Active
        BY <1>2, <3>2, OwnerSees DEF Active, Terminal
      <4>2. QED
        BY <1>2, <3>2, <4>1, OwnerSees, RefreshMoves
    <3>3. QED
      BY <3>1, <3>2
  <2> HIDE DEF t, u
  <2>2. \A r : AllMove(S, Put(S, id, u, r).tasks, now)
    BY <1>2, <2>1, OwnerSees, PutMoves
  <2>3. QED
    BY <1>2, <2>2 DEF update_progress, t, u
<1>3. QED
  BY <1>1, <1>2

(* The worker asks for a final status the life cycle allows: DONE is       *)
(* refused outside FINALIZING by the call itself, ABORTED is asked for     *)
(* only after the cancellation has been seen.                              *)
LEMMA SetStatusMoves ==
    ASSUME NEW S \in Snapshots, \A i \in Known(S) : Sound(S[i]),
           NEW id \in TaskIds, NEW o \in Owners, NEW now \in Int,
           NEW status \in Terminal, NEW error \in Errors \ {"task_timeout"},
           status = "ABORTED" /\ S[id] # NoTask => S[id].status \in {"ABORTING"} \cup Terminal
    PROVE  AllMove(S, set_status(S, id, o, status, error, now).tasks, now)
<1>1. CASE NotOwned(S, id, o)
  BY <1>1, LeaveMoves DEF set_status, Refusal
<1>2. CASE ~NotOwned(S, id, o)
  <2> DEFINE t == Expire(S[id], now)
  <2>1. CASE t.status \in Terminal
    <3>1. \A r : AllMove(S, Put(S, id, t, r).tasks, now)
      BY <1>2, OwnerSees, PutMoves
    <3>2. QED
      BY <1>2, <2>1, <3>1 DEF set_status
  <2>2. CASE t.status \notin Terminal /\ status = "DONE" /\ t.status # "FINALIZING"
    BY <1>2, <2>2, LeaveMoves DEF set_status
  <2>3. CASE t.status \notin Terminal /\ ~(status = "DONE" /\ t.status # "FINALIZING")
    <3>1. t = S[id] /\ ~TimedOut(S[id], now) /\ S[id] \in TaskState
      BY <1>2, <2>3, OwnerSees
    <3> HIDE DEF t
    <3>2. S[id].status # "QUEUED"
      BY <1>2, OwnerSees, OwnerAssumption DEF Sound, NotOwned
    <3>3. Edge(S[id].status, status)
      <4>1. S[id].status \in Active
        BY <2>3, <3>1, <3>2 DEF TaskState, Status
      <4>2. status = "ABORTED" => S[id].status = "ABORTING"
        BY <1>2, <2>3, <3>1, OwnerSees
      <4>3. status = "DONE" => S[id].status = "FINALIZING"
        BY <2>3, <3>1
      <4>4. QED
        BY <4>1, <4>2, <4>3 DEF Edge, Terminal, Active
    <3>4. Moves(S[id], SetTerminal(S[id], status, error, now), now)
      BY <1>2, <2>3, <3>1, <3>3, OwnerSees, SetTerminalMoves
    <3>5. \A r : AllMove(S, Put(S, id, SetTerminal(S[id], status, error, now), r).tasks, now)
      BY <1>2, <3>4, OwnerSees, PutMoves
    <3>6. QED
      BY <1>2, <2>3, <3>1, <3>5 DEF set_status, t
  <2>4. QED
    BY <2>1, <2>2, <2>3
<1>3. QED
  BY <1>1, <1>2

(* Completion publishes a task, or aborts one that was cancelled.          *)
LEMMA PreparedMoves ==
    ASSUME NEW t \in TaskState, Sound(t), NEW now \in Int, NEW rows \in 0 .. MaxRows,
           ~TimedOut(t, now), t.status \in Active
    PROVE  Moves(t, Prepared(t, rows, now), now)
<1> DEFINE p == [t EXCEPT !.processed_rows = rows, !.last_modified = now]
<1>1. /\ p \in TaskState
      /\ p.key = t.key /\ p.request = t.request /\ p.created_at = t.created_at /\ p.owner = t.owner
      /\ p.status = t.status /\ p.cancel_requested = t.cancel_requested
  BY DEF TaskState
<1>2. CASE t.cancel_requested
  <2> DEFINE u == SetTerminal(p, "ABORTED", "none", now)
  <2>1. u \in TaskState
    BY <1>1 DEF SetTerminal, TaskState, Terminal, Status, Errors
  <2>2. /\ u.key = t.key /\ u.request = t.request /\ u.created_at = t.created_at /\ u.status = "ABORTED"
        /\ u.owner = t.owner /\ u.finished_at = now /\ u.cancel_requested = FALSE /\ u.last_modified = now
    BY <1>1 DEF SetTerminal, TaskState
  <2>3. t.status = "ABORTING"
    BY <1>2 DEF Sound
  <2>4. Prepared(t, rows, now) = u
    BY <1>2 DEF Prepared
  <2> HIDE DEF u
  <2>5. QED
    BY <2>1, <2>2, <2>3, <2>4 DEF Moves, Edge, Sound, Terminal
<1>3. CASE ~t.cancel_requested
  <2> DEFINE u == [p EXCEPT !.status = "FINALIZING"]
  <2>1. u \in TaskState
    BY <1>1 DEF TaskState, Status, Active
  <2>2. /\ u.key = t.key /\ u.request = t.request /\ u.created_at = t.created_at /\ u.status = "FINALIZING"
        /\ u.owner = t.owner /\ u.cancel_requested = FALSE /\ u.last_modified = now
    BY <1>1, <1>3 DEF TaskState
  <2>3. t.status \in {"RUNNING", "FINALIZING"}
    BY <1>3 DEF Sound, Active
  <2>4. Prepared(t, rows, now) = u
    BY <1>3 DEF Prepared
  <2> HIDE DEF u
  <2>5. QED
    BY <2>1, <2>2, <2>3, <2>4 DEF Moves, Edge, Sound, Terminal
<1>4. QED
  BY <1>2, <1>3

(* prepare_completion never touches a record that is over.                 *)
LEMMA PrepareCompletionMoves ==
    ASSUME NEW S \in Snapshots, \A i \in Known(S) : Sound(S[i]),
           NEW id \in TaskIds, NEW o \in Owners, NEW rows \in 0 .. MaxRows, NEW now \in Int
    PROVE  AllMove(S, prepare_completion(S, id, o, rows, now).tasks, now)
<1>1. CASE NotOwned(S, id, o)
  BY <1>1, LeaveMoves DEF prepare_completion, Refusal
<1>2. CASE ~NotOwned(S, id, o)
  <2> DEFINE t == Expire(S[id], now)
             u == IF t.status \in Terminal THEN t ELSE Prepared(t, rows, now)
  <2>1. Moves(S[id], u, now)
    <3>1. CASE t.status \in Terminal
      BY <1>2, <3>1, OwnerSees
    <3>2. CASE t.status \notin Terminal
      <4>1. t = S[id] /\ ~TimedOut(S[id], now) /\ S[id] \in TaskState /\ Sound(S[id])
        BY <1>2, <3>2, OwnerSees
      <4>2. S[id].status \in Active
        BY <1>2, <3>2, <4>1, OwnerAssumption DEF Sound, NotOwned, TaskState, Status
      <4>3. QED
        BY <3>2, <4>1, <4>2, PreparedMoves
    <3>3. QED
      BY <3>1, <3>2
  <2> HIDE DEF t, u
  <2>2. \A r : AllMove(S, Put(S, id, u, r).tasks, now)
    BY <1>2, <2>1, OwnerSees, PutMoves
  <2>3. QED
    BY <1>2, <2>2 DEF prepare_completion, t, u
<1>3. QED
  BY <1>1, <1>2

(* fail_stale applies the timeout to every record.                         *)
LEMMA FailStaleMoves ==
    ASSUME NEW S \in Snapshots, \A i \in Known(S) : Sound(S[i]), NEW now \in Int
    PROVE  AllMove(S, fail_stale(S, now).tasks, now)
<1>1. \A i \in TaskIds : S[i] # NoTask =>
          /\ Moves(S[i], Expire(S[i], now), now)
          /\ Expire(S[i], now) \in TaskState
  BY ExpireMoves DEF Snapshots, Known
<1>2. QED
  BY <1>1 DEF AllMove, fail_stale, Snapshots

-----------------------------------------------------------------------------
(* The choice a claim makes exists.                                        *)

(* A set of numbers has a least one.                                       *)
LEMMA LeastNat ==
    ASSUME NEW T \in SUBSET Nat, T # {}
    PROVE  \E x \in T : \A y \in T : x <= y
<1>1. PICK x \in T : \A y \in T : <<y, x>> \notin OpToRel(<, Nat)
  BY WFMin, NatLessThanWellFounded
<1>2. \A y \in T : ~(y < x)
  BY <1>1 DEF OpToRel
<1>3. QED
  BY <1>2

(* The oldest of some records is one of them, and before all the others.   *)
LEMMA OldestIsCandidate ==
    ASSUME NEW S \in Snapshots, NEW C \in SUBSET Known(S), C # {},
           \A i \in C : S[i].created_at >= 0
    PROVE  /\ Oldest(S, C) \in C
           /\ \A j \in C : Earlier(S, Oldest(S, C), j)
<1>1. \A i \in C : S[i] \in TaskState /\ i \in Nat
  BY IdsAssumption DEF Snapshots, Known
<1>2. \A i \in C : S[i].created_at \in Nat
  BY <1>1 DEF TaskState
<1>3. PICK e \in C : \A j \in C : S[e].created_at <= S[j].created_at
  <2> DEFINE T == {S[i].created_at : i \in C}
  <2>1. T \in SUBSET Nat /\ T # {}
    BY <1>2
  <2>2. PICK x \in T : \A y \in T : x <= y
    BY <2>1, LeastNat
  <2>3. QED
    BY <2>2
<1>4. PICK i \in C : /\ S[i].created_at = S[e].created_at
                     /\ \A j \in C : S[j].created_at = S[e].created_at => i <= j
  <2> DEFINE T == {i \in C : S[i].created_at = S[e].created_at}
  <2>1. T \in SUBSET Nat /\ T # {}
    BY <1>1
  <2>2. PICK x \in T : \A y \in T : x <= y
    BY <2>1, LeastNat
  <2>3. QED
    BY <2>2
<1>5. \A j \in C : Earlier(S, i, j)
  <2> TAKE j \in C
  <2>1. S[i].created_at <= S[j].created_at
    BY <1>3, <1>4
  <2>2. QED
    BY <1>2, <1>4, <2>1 DEF Earlier
<1>6. QED
  BY <1>5 DEF Oldest

-----------------------------------------------------------------------------
(* The callbacks on a part of the queue.  PostgreSQL reads only the        *)
(* unfinished rows, and the rows of the id and of the key that a call      *)
(* names (app/tasks/backends/postgres.py:142-146); the callbacks are       *)
(* written against the whole queue.  The two come to the same.             *)

\* T is what a call that names this id and this key selects of S.
Selects(T, S, id, key) ==
    \A i \in TaskIds :
        \/ T[i] = S[i]
        \/ /\ T[i] = NoTask /\ S[i] # NoTask
           /\ S[i].status \in Terminal /\ i # id /\ S[i].key # key

\* A change c of T, written back row by row to S, is the change d of S.
Amounts(c, T, d, S) ==
    /\ c.result = d.result
    /\ d.tasks = [i \in TaskIds |-> IF c.tasks[i] # T[i] THEN c.tasks[i] ELSE S[i]]

-----------------------------------------------------------------------------
(* What a part and the whole have in common.                               *)

LEMMA StatusFacts ==
    /\ "QUEUED" \notin Terminal
    /\ Active \cap Terminal = {}
BY DEF Active, Terminal

LEMMA SamePending ==
    ASSUME NEW S \in Snapshots, NEW T \in Snapshots, NEW id, NEW key, Selects(T, S, id, key)
    PROVE  /\ Pending(T) = Pending(S)
           /\ \A i \in Pending(S) : T[i] = S[i]
BY DEF Selects, Pending, Known

LEMMA SameKeys ==
    ASSUME NEW S \in Snapshots, NEW T \in Snapshots, NEW id, NEW key, Selects(T, S, id, key)
    PROVE  /\ SameKey(T, key) = SameKey(S, key)
           /\ \A i \in SameKey(S, key) : T[i] = S[i]
BY DEF Selects, SameKey, Known

LEMMA SameOwned ==
    ASSUME NEW S \in Snapshots, NEW T \in Snapshots, NEW id, NEW key, Selects(T, S, id, key), NEW o
    PROVE  OwnedActive(T, o) = OwnedActive(S, o)
BY StatusFacts DEF Selects, OwnedActive, Known

LEMMA SameCandidates ==
    ASSUME NEW S \in Snapshots, NEW T \in Snapshots, NEW id, NEW key, Selects(T, S, id, key), NEW models
    PROVE  /\ Candidates(T, models) = Candidates(S, models)
           /\ \A i \in Candidates(S, models) : T[i] = S[i]
BY StatusFacts DEF Selects, Candidates, Known

LEMMA SameOldest ==
    ASSUME NEW S, NEW T, NEW C, \A i \in C : T[i] = S[i]
    PROVE  Oldest(T, C) = Oldest(S, C)
<1>1. \A i \in C : (\A j \in C : Earlier(T, i, j)) <=> (\A j \in C : Earlier(S, i, j))
  BY DEF Earlier
<1> QED BY ONLY <1>1, Zenon DEF Oldest

LEMMA LeaveAmounts ==
    ASSUME NEW S \in Snapshots, NEW T, NEW r
    PROVE  Amounts(Leave(T, r), T, Leave(S, r), S)
BY DEF Amounts, Leave, Snapshots

LEMMA PutAmounts ==
    ASSUME NEW S \in Snapshots, NEW T \in Snapshots, NEW i \in TaskIds, T[i] = S[i], NEW t, NEW r
    PROVE  Amounts(Put(T, i, t, r), T, Put(S, i, t, r), S)
BY DEF Amounts, Put, Snapshots

-----------------------------------------------------------------------------
(* The callbacks.                                                          *)

\* POST /infer names its key; the id is new, or that of the task with this key.
LEMMA EnqueueSelects ==
    ASSUME NEW S \in Snapshots, NEW T \in Snapshots, NEW id \in TaskIds, NEW key, NEW request, NEW now,
           NEW other, Selects(T, S, other, key), S[id] = NoTask \/ id \in SameKey(S, key)
    PROVE  Amounts(enqueue(T, id, key, request, now), T, enqueue(S, id, key, request, now), S)
<1>1. S[id] = NoTask => T[id] = S[id]
  BY DEF Selects
<1>2. CASE SameKey(S, key) # {}
  <2>1. SameKey(T, key) = SameKey(S, key)
    BY SameKeys
  <2>2. (CHOOSE j \in SameKey(S, key) : TRUE) \in SameKey(S, key)
    BY <1>2
  <2>3. FindRequest(T, key, request) = FindRequest(S, key, request)
    BY <2>1, <2>2, SameKeys DEF FindRequest
  <2> QED BY <1>2, <2>1, <2>3, LeaveAmounts DEF enqueue
<1>3. CASE SameKey(S, key) = {}
  <2>1. SameKey(T, key) = {}
    BY <1>3, SameKeys
  <2>2. Refused(T, request) <=> Refused(S, request)
    BY SamePending DEF Refused
  <2> QED BY <1>1, <1>3, <2>1, <2>2, LeaveAmounts, PutAmounts DEF enqueue
<1> QED BY <1>2, <1>3

\* A claim names nothing.
LEMMA ClaimSelects ==
    ASSUME NEW S \in Snapshots, NEW T \in Snapshots, NEW o, NEW models, NEW now,
           NEW id, NEW key, Selects(T, S, id, key),
           \A i \in Known(S) : S[i].created_at >= 0
    PROVE  Amounts(claim_next(T, o, models, now), T, claim_next(S, o, models, now), S)
<1>1. OwnedActive(T, o) = OwnedActive(S, o)
  BY SameOwned
<1>2. /\ Candidates(T, models) = Candidates(S, models)
      /\ \A i \in Candidates(S, models) : T[i] = S[i]
  BY SameCandidates
<1>3. CASE OwnedActive(S, o) # {}
  BY <1>1, <1>3, LeaveAmounts DEF claim_next
<1>4. CASE OwnedActive(S, o) = {} /\ Candidates(S, models) = {}
  BY <1>1, <1>2, <1>4, LeaveAmounts DEF claim_next
<1>5. CASE OwnedActive(S, o) = {} /\ Candidates(S, models) # {}
  <2> DEFINE i == Oldest(S, Candidates(S, models))
  <2>1. Oldest(T, Candidates(T, models)) = i
    BY <1>2, SameOldest
  <2>2. Candidates(S, models) \in SUBSET Known(S)
    BY DEF Candidates
  <2>3. i \in Candidates(S, models)
    BY <1>5, <2>2, OldestIsCandidate
  <2>4. i \in TaskIds /\ T[i] = S[i]
    BY <1>2, <2>3 DEF Candidates, Known
  <2> DEFINE t == [S[i] EXCEPT !.status = "RUNNING", !.owner = o, !.last_modified = now]
  <2>5. /\ claim_next(S, o, models, now) = Put(S, i, t, Value(i))
        /\ claim_next(T, o, models, now) = Put(T, i, t, Value(i))
    BY <1>1, <1>2, <1>5, <2>1, <2>4 DEF claim_next
  <2> HIDE DEF i, t
  <2> QED BY <2>4, <2>5, PutAmounts
<1> QED BY <1>3, <1>4, <1>5

\* A request to abort and the calls of an owner name the id of their task.
LEMMA NamedSelects ==
    ASSUME NEW S \in Snapshots, NEW T \in Snapshots, NEW id \in TaskIds, NEW key,
           Selects(T, S, id, key), NEW o, NEW now, NEW rows, NEW status, NEW error
    PROVE  /\ Amounts(request_abort(T, id, now), T, request_abort(S, id, now), S)
           /\ Amounts(heartbeat(T, id, o, now), T, heartbeat(S, id, o, now), S)
           /\ Amounts(set_total_rows(T, id, o, rows, now), T, set_total_rows(S, id, o, rows, now), S)
           /\ Amounts(update_progress(T, id, o, rows, now), T, update_progress(S, id, o, rows, now), S)
           /\ Amounts(set_status(T, id, o, status, error, now), T,
                      set_status(S, id, o, status, error, now), S)
           /\ Amounts(prepare_completion(T, id, o, rows, now), T,
                      prepare_completion(S, id, o, rows, now), S)
<1>1. T[id] = S[id]
  BY DEF Selects
<1>2. /\ NotOwned(T, id, o) <=> NotOwned(S, id, o)
      /\ Amounts(Refusal(T, id), T, Refusal(S, id), S)
  BY <1>1, LeaveAmounts DEF NotOwned, Refusal
<1>3. Amounts(request_abort(T, id, now), T, request_abort(S, id, now), S)
  BY <1>1, LeaveAmounts, PutAmounts DEF request_abort
<1>4. Amounts(heartbeat(T, id, o, now), T, heartbeat(S, id, o, now), S)
  BY <1>1, <1>2, PutAmounts DEF heartbeat
<1>5. Amounts(set_total_rows(T, id, o, rows, now), T, set_total_rows(S, id, o, rows, now), S)
  BY <1>1, <1>2, PutAmounts DEF set_total_rows
<1>6. Amounts(update_progress(T, id, o, rows, now), T, update_progress(S, id, o, rows, now), S)
  BY <1>1, <1>2, PutAmounts DEF update_progress
<1>7. Amounts(set_status(T, id, o, status, error, now), T,
              set_status(S, id, o, status, error, now), S)
  BY <1>1, <1>2, LeaveAmounts, PutAmounts DEF set_status
<1>8. Amounts(prepare_completion(T, id, o, rows, now), T,
              prepare_completion(S, id, o, rows, now), S)
  BY <1>1, <1>2, PutAmounts DEF prepare_completion
<1> QED BY <1>3, <1>4, <1>5, <1>6, <1>7, <1>8

\* fail_stale names nothing, and looks for unfinished tasks only.
LEMMA FailStaleSelects ==
    ASSUME NEW S \in Snapshots, NEW T \in Snapshots, NEW id, NEW key, Selects(T, S, id, key), NEW now
    PROVE  Amounts(fail_stale(T, now), T, fail_stale(S, now), S)
<1>1. \A i \in TaskIds : T[i] # S[i] =>
        T[i] = NoTask /\ S[i] # NoTask /\ ~TimedOut(S[i], now) /\ Expire(S[i], now) = S[i]
  BY StatusFacts DEF Selects, TimedOut, Expire
<1>2. {i \in Known(T) : TimedOut(T[i], now)} = {i \in Known(S) : TimedOut(S[i], now)}
  BY <1>1 DEF Known
<1>3. \A i \in TaskIds :
        fail_stale(S, now).tasks[i] =
          IF fail_stale(T, now).tasks[i] # T[i] THEN fail_stale(T, now).tasks[i] ELSE S[i]
  BY <1>1 DEF fail_stale
<1> QED BY <1>2, <1>3 DEF Amounts, fail_stale

=============================================================================
