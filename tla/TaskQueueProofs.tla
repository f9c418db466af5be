-------------------------- MODULE TaskQueueProofs --------------------------
(* Theorems about TaskQueue, for every value of its constants.             *)
EXTENDS TaskQueue, TaskChangesProofs, FiniteSetTheorems, TLAPS

(* Nobody owns a queued task.                                              *)
QueuedUnowned ==
    \A i \in Known(tasks) : tasks[i].status = "QUEUED" => tasks[i].owner = NoOwner

(* Every final record carries the time of its end: what retention reads.   *)
EndRecorded ==
    \A i \in Known(tasks) : tasks[i].status \in Terminal => tasks[i].finished_at >= 1

(* Clocks start at 1, and creation times never change.                     *)
CreatedInTime == \A i \in Known(tasks) : tasks[i].created_at >= 1

(* The inductive invariant. *)
IInv ==
    /\ TypeOK
    /\ IsFiniteSet(issued)
    /\ DisjointOutputs
    /\ PendingBound
    /\ UniqueKeys
    /\ OneActivePerOwner
    /\ CancelFlagAgrees
    /\ QueuedUnowned
    /\ EndRecorded
    /\ CreatedInTime

-----------------------------------------------------------------------------
(* The invariant is kept by every kind of step.                            *)

(* What the steps use of the invariant.                                    *)
LEMMA InvGives ==
    ASSUME IInv
    PROVE  /\ tasks \in Snapshots
           /\ clock \in Int /\ Skew \in Nat
           /\ \A now \in Readings : now \in Int /\ now >= 1
           /\ \A i \in Known(tasks) : Sound(tasks[i]) /\ tasks[i].created_at >= 0
           /\ Pending(tasks) \subseteq issued
           /\ IsFiniteSet(Pending(tasks))
           /\ Cardinality(Pending(tasks)) \in Nat
<1>1. Pending(tasks) \subseteq issued
  BY DEF IInv, TypeOK, Pending
<1>2. IsFiniteSet(Pending(tasks)) /\ Cardinality(Pending(tasks)) \in Nat
  BY <1>1, FS_Subset, FS_CardinalityType DEF IInv
<1>3. /\ tasks \in Snapshots
      /\ clock \in Int /\ Skew \in Nat
      /\ \A now \in Readings : now \in Int /\ now >= 1
  BY ClockAssumption DEF IInv, TypeOK, Snapshots, Readings
<1>4. \A i \in Known(tasks) : Sound(tasks[i]) /\ tasks[i].created_at >= 0
  BY <1>3 DEF IInv, CancelFlagAgrees, QueuedUnowned, CreatedInTime, Sound, Known, Snapshots, TaskState
<1>5. QED
  BY <1>1, <1>2, <1>3, <1>4

(* The histories are times.                                                *)
LEMMA RememberedTypes ==
    ASSUME IInv, Remembered
    PROVE  born' \in [TaskIds -> Int] /\ renewed' \in [TaskIds -> Int]
BY InvGives DEF Remembered, IInv, TypeOK

(* Moving records keeps the invariant.                                     *)
LEMMA MovesKeepInv ==
    ASSUME IInv, NEW now \in Readings, AllMove(tasks, tasks', now), Remembered,
           UNCHANGED <<issued, clock>>
    PROVE  IInv'
<1>1. /\ Known(tasks') = Known(tasks)
      /\ \A i \in Known(tasks) : Moves(tasks[i], tasks'[i], now)
  BY NoTaskAssumption DEF AllMove, Known, Moves
<1>2. Pending(tasks') \subseteq Pending(tasks)
  BY <1>1 DEF Pending, Moves
<1>3. \A i \in Known(tasks) : tasks'[i].status \in Active =>
          tasks[i].status \in Active /\ tasks'[i].owner = tasks[i].owner
  BY <1>1 DEF Moves, Edge, Active, Terminal
<1>4. TypeOK'
  BY <1>1, RememberedTypes DEF IInv, TypeOK, AllMove, Snapshots
<1>5. IsFiniteSet(issued)'
  BY DEF IInv
<1>6. DisjointOutputs'
  BY <1>1, <1>2 DEF IInv, DisjointOutputs, Moves, Pending
<1>7. PendingBound'
  <2>1. Cardinality(Pending(tasks')) <= Cardinality(Pending(tasks))
    BY <1>2, InvGives, FS_Subset
  <2>2. Cardinality(Pending(tasks')) \in Nat
    BY <1>2, InvGives, FS_Subset, FS_CardinalityType
  <2>3. QED
    BY <2>1, <2>2, InvGives, LimitsAssumption DEF IInv, PendingBound
<1>8. UniqueKeys'
  BY <1>1 DEF IInv, UniqueKeys, Moves
<1>9. OneActivePerOwner'
  BY <1>1, <1>3 DEF IInv, OneActivePerOwner
<1>10. CancelFlagAgrees' /\ QueuedUnowned'
  BY <1>1 DEF CancelFlagAgrees, QueuedUnowned, Moves, Sound
<1>11. EndRecorded' /\ CreatedInTime'
  BY <1>1, InvGives DEF IInv, EndRecorded, CreatedInTime, Moves
<1>12. QED
  BY <1>4, <1>5, <1>6, <1>7, <1>8, <1>9, <1>10, <1>11 DEF IInv

(* Only enqueue adds a record: its checks keep outputs, keys and bound.    *)
LEMMA EnqueueKeepsInv ==
    ASSUME IInv, NEW key \in Keys, NEW request \in Requests, Enqueue(key, request)
    PROVE  IInv'
<1>1. PICK id \in TaskIds \ issued, now \in Readings :
          /\ tasks' = enqueue(tasks, id, key, request, now).tasks
          /\ issued' = issued \cup (Known(tasks') \ Known(tasks))
          /\ Remembered
          /\ clock' = clock
  BY DEF Enqueue
<1>2. CASE tasks' = tasks
  <2>1. AllMove(tasks, tasks', now)
    BY <1>2, InvGives, StayMoves DEF AllMove, Snapshots, Known
  <2>2. issued' = issued
    BY <1>1, <1>2
  <2>3. QED
    BY <1>1, <2>1, <2>2, MovesKeepInv
<1>3. CASE tasks' # tasks
  <2> DEFINE t == NewTask(key, request, now)
  <2>1. /\ SameKey(tasks, key) = {}
        /\ ~Refused(tasks, request)
        /\ tasks' = [tasks EXCEPT ![id] = t]
    BY <1>1, <1>3 DEF enqueue, Leave, Put
  <2>2. t \in TaskState
    BY InvGives, RequestsAssumption, LimitsAssumption
       DEF NewTask, TaskState, Status, Errors, Unknown, Never
  <2>3. /\ t.key = key /\ t.request = request /\ t.status = "QUEUED"
        /\ t.owner = NoOwner /\ t.cancel_requested = FALSE /\ t.created_at = now
    BY DEF NewTask
  <2> HIDE DEF t
  <2>4. id \notin Known(tasks) /\ id \in TaskIds
    BY <1>1 DEF IInv, TypeOK
  <2>5. /\ Known(tasks') = Known(tasks) \cup {id}
        /\ tasks'[id] = t
        /\ \A i \in Known(tasks) : tasks'[i] = tasks[i] /\ i # id
    BY <2>1, <2>2, <2>4, InvGives, NoTaskAssumption DEF Known, Snapshots
  <2>6. issued' = issued \cup {id}
    BY <1>1, <2>4, <2>5
  <2>7. Pending(tasks') = Pending(tasks) \cup {id}
    BY <2>3, <2>5 DEF Pending, Terminal
  <2>8. TypeOK'
    BY <1>1, <2>1, <2>2, <2>5, <2>6, RememberedTypes DEF IInv, TypeOK
  <2>9. IsFiniteSet(issued)'
    BY <2>6, FS_AddElement DEF IInv
  <2>10. DisjointOutputs'
    <3>1. \A i \in Pending(tasks) :
              /\ ~prefixes_overlap(tasks[i].request.output, request.output)
              /\ ~prefixes_overlap(request.output, tasks[i].request.output)
      BY <2>1 DEF Refused, prefixes_overlap
    <3>2. QED
      BY <2>3, <2>5, <2>7, <3>1 DEF IInv, DisjointOutputs, Pending
  <2>11. PendingBound'
    <3>1. Cardinality(Pending(tasks)) < MaxPending
      BY <2>1, InvGives, LimitsAssumption DEF Refused
    <3>2. Cardinality(Pending(tasks')) = Cardinality(Pending(tasks)) + 1
      BY <2>4, <2>7, InvGives, FS_AddElement DEF Pending
    <3>3. QED
      BY <3>1, <3>2, InvGives, LimitsAssumption DEF PendingBound
  <2>12. UniqueKeys'
    BY <2>1, <2>3, <2>5 DEF IInv, UniqueKeys, SameKey
  <2>13. OneActivePerOwner'
    BY <2>3, <2>5 DEF IInv, OneActivePerOwner, Active
  <2>14. CancelFlagAgrees' /\ QueuedUnowned' /\ EndRecorded' /\ CreatedInTime'
    BY <2>3, <2>5, InvGives
       DEF IInv, CancelFlagAgrees, QueuedUnowned, EndRecorded, CreatedInTime, Terminal
  <2>15. QED
    BY <2>8, <2>9, <2>10, <2>11, <2>12, <2>13, <2>14 DEF IInv
<1>4. QED
  BY <1>2, <1>3

(* A claim that takes a task makes the oldest candidate the only running   *)
(* task of the caller.                                                     *)
LEMMA ClaimEffect ==
    ASSUME IInv, NEW o \in Owners, ClaimNext(o), tasks' # tasks
    PROVE  \E i \in Candidates(tasks, ModelsOf[o]) :
              /\ \A j \in Candidates(tasks, ModelsOf[o]) : Earlier(tasks, i, j)
              /\ OwnedActive(tasks, o) = {}
              /\ tasks' \in Snapshots
              /\ tasks' = [tasks EXCEPT ![i] = tasks'[i]]
              /\ tasks'[i] \in TaskState
              /\ tasks'[i].key = tasks[i].key
              /\ tasks'[i].request = tasks[i].request
              /\ tasks'[i].created_at = tasks[i].created_at
              /\ tasks'[i].cancel_requested = tasks[i].cancel_requested
              /\ tasks'[i].status = "RUNNING"
              /\ tasks'[i].owner = o
              /\ tasks'[i].last_modified \in Readings
<1>0. PICK now \in Readings : tasks' = claim_next(tasks, o, ModelsOf[o], now).tasks
  BY DEF ClaimNext, Apply
<1> DEFINE C == Candidates(tasks, ModelsOf[o])
           i == Oldest(tasks, C)
           u == [tasks[i] EXCEPT !.status = "RUNNING", !.owner = o, !.last_modified = now]
<1>1. OwnedActive(tasks, o) = {} /\ C # {} /\ tasks' = [tasks EXCEPT ![i] = u]
  BY <1>0 DEF claim_next, Leave, Put
<1>2. C \in SUBSET Known(tasks)
  BY DEF Candidates
<1>3. i \in C /\ \A j \in C : Earlier(tasks, i, j)
  BY <1>1, <1>2, InvGives, OldestIsCandidate
<1> HIDE DEF C, i
<1>4. i \in TaskIds /\ tasks[i] \in TaskState
  BY <1>2, <1>3, InvGives DEF Known, Snapshots
<1>5. /\ u \in TaskState
      /\ u.key = tasks[i].key /\ u.request = tasks[i].request
      /\ u.created_at = tasks[i].created_at /\ u.status = "RUNNING" /\ u.owner = o
      /\ u.cancel_requested = tasks[i].cancel_requested
      /\ u.last_modified = now
  BY <1>4, InvGives DEF TaskState, Status, Active
<1> HIDE DEF u
<1>6. tasks' \in Snapshots /\ tasks'[i] = u
  BY <1>1, <1>4, <1>5, InvGives DEF Snapshots
<1>7. QED
  BY <1>1, <1>3, <1>5, <1>6 DEF C

(* Only a claim gives a record an owner, one that has no other.            *)
LEMMA ClaimKeepsInv ==
    ASSUME IInv, NEW o \in Owners, ClaimNext(o)
    PROVE  IInv'
<1>1. Remembered /\ UNCHANGED <<issued, clock>>
  BY DEF ClaimNext, Apply
<1>2. CASE tasks' = tasks
  <2>1. PICK now \in Readings : TRUE
    BY DEF ClaimNext
  <2>2. AllMove(tasks, tasks', now)
    BY <1>2, InvGives, StayMoves DEF AllMove, Snapshots, Known
  <2>3. QED
    BY <1>1, <2>2, MovesKeepInv
<1>3. CASE tasks' # tasks
  <2>1. PICK i \in Candidates(tasks, ModelsOf[o]) :
              /\ OwnedActive(tasks, o) = {}
              /\ tasks' \in Snapshots
              /\ tasks' = [tasks EXCEPT ![i] = tasks'[i]]
              /\ tasks'[i] \in TaskState
              /\ tasks'[i].key = tasks[i].key
              /\ tasks'[i].request = tasks[i].request
              /\ tasks'[i].created_at = tasks[i].created_at
              /\ tasks'[i].cancel_requested = tasks[i].cancel_requested
              /\ tasks'[i].status = "RUNNING"
              /\ tasks'[i].owner = o
    BY <1>3, ClaimEffect
  <2>2. i \in Known(tasks) /\ i \in TaskIds /\ tasks[i].status = "QUEUED"
    BY DEF Candidates, Known
  <2>3. \A j \in TaskIds : j # i => tasks'[j] = tasks[j]
    BY <2>1, InvGives DEF Snapshots
  <2>4. Known(tasks') = Known(tasks)
    BY <2>1, <2>2, <2>3, NoTaskAssumption DEF Known
  <2>5. Pending(tasks') = Pending(tasks)
    BY <2>1, <2>2, <2>3, <2>4 DEF Pending, Terminal, Known
  <2>6. \A j \in Known(tasks) : tasks'[j].key = tasks[j].key
                               /\ tasks'[j].request = tasks[j].request
                               /\ tasks'[j].created_at = tasks[j].created_at
    BY <2>1, <2>3 DEF Known
  <2>7. TypeOK'
    BY <1>1, <2>1, <2>4, RememberedTypes DEF IInv, TypeOK, Snapshots
  <2>8. IsFiniteSet(issued)'
    BY <1>1 DEF IInv
  <2>9. DisjointOutputs' /\ PendingBound' /\ UniqueKeys' /\ CreatedInTime'
    BY <2>4, <2>5, <2>6 DEF IInv, DisjointOutputs, PendingBound, UniqueKeys,
                            CreatedInTime, Pending
  <2>10. OneActivePerOwner'
    <3>1. \A j \in Known(tasks) : tasks[j].status \in Active => tasks[j].owner # o
      BY <2>1 DEF OwnedActive
    <3>2. QED
      BY <2>1, <2>2, <2>3, <2>4, <3>1 DEF IInv, OneActivePerOwner, Known
  <2>11. CancelFlagAgrees' /\ QueuedUnowned' /\ EndRecorded'
    BY <2>1, <2>2, <2>3, <2>4
       DEF IInv, CancelFlagAgrees, QueuedUnowned, EndRecorded, Known, Terminal
  <2>12. QED
    BY <2>7, <2>8, <2>9, <2>10, <2>11 DEF IInv
<1>4. QED
  BY <1>2, <1>3

(* Retention removes records that nothing depends on.                      *)
LEMMA CleanupKeepsInv ==
    ASSUME IInv, Cleanup
    PROVE  IInv'
<1>1. Remembered /\ UNCHANGED <<issued, clock>>
  BY DEF Cleanup, Apply
<1>2. /\ tasks' \in Snapshots
      /\ \A i \in TaskIds : \/ tasks'[i] = tasks[i]
                           \/ /\ tasks'[i] = NoTask
                              /\ tasks[i].status \in Terminal
  BY InvGives DEF Cleanup, Apply, clean, Leave, Snapshots
<1>3. /\ Known(tasks') \subseteq Known(tasks)
      /\ \A i \in Known(tasks') : tasks'[i] = tasks[i]
  BY <1>2 DEF Known
<1>4. Pending(tasks') = Pending(tasks)
  BY <1>2, <1>3, NoTaskAssumption DEF Pending, Known
<1>5. TypeOK' /\ IsFiniteSet(issued)'
  BY <1>1, <1>2, <1>3, RememberedTypes DEF IInv, TypeOK, Snapshots
<1>6. DisjointOutputs' /\ PendingBound' /\ UniqueKeys'
  BY <1>3, <1>4 DEF IInv, DisjointOutputs, PendingBound, UniqueKeys, Pending
<1>7. OneActivePerOwner' /\ CancelFlagAgrees' /\ QueuedUnowned' /\ EndRecorded' /\ CreatedInTime'
  BY <1>3 DEF IInv, OneActivePerOwner, CancelFlagAgrees, QueuedUnowned, EndRecorded,
              CreatedInTime
<1>8. QED
  BY <1>5, <1>6, <1>7 DEF IInv

(* The calls of the API, the workers and readiness that only move records. *)
MovingCall ==
    \/ \E id \in TaskIds : RequestAbort(id)
    \/ \E o \in Owners, id \in TaskIds :
          \/ Heartbeat(o, id)
          \/ SetTotalRows(o, id)
          \/ UpdateProgress(o, id)
          \/ PrepareCompletion(o, id)
          \/ Finish(o, id)
          \/ Fail(o, id)
          \/ Abort(o, id)
    \/ FailStale

(* Each of these calls moves records and nothing else.                     *)
LEMMA MovingCallMoves ==
    ASSUME IInv, MovingCall
    PROVE  /\ \E now \in Readings : AllMove(tasks, tasks', now)
           /\ Remembered
           /\ UNCHANGED <<issued, clock>>
<1> DEFINE Moved == /\ \E now \in Readings : AllMove(tasks, tasks', now)
                    /\ Remembered
                    /\ UNCHANGED <<issued, clock>>
<1> USE InvGives
<1>1. ASSUME NEW id \in TaskIds, RequestAbort(id)
      PROVE  Moved
  BY <1>1, RequestAbortMoves DEF RequestAbort, Apply
<1>2. ASSUME NEW o \in Owners, NEW id \in TaskIds, Heartbeat(o, id)
      PROVE  Moved
  BY <1>2, HeartbeatMoves DEF Heartbeat, Apply
<1>3. ASSUME NEW o \in Owners, NEW id \in TaskIds, SetTotalRows(o, id)
      PROVE  Moved
  BY <1>3, SetTotalRowsMoves DEF SetTotalRows, Apply
<1>4. ASSUME NEW o \in Owners, NEW id \in TaskIds, UpdateProgress(o, id)
      PROVE  Moved
  BY <1>4, UpdateProgressMoves DEF UpdateProgress, Apply
<1>5. ASSUME NEW o \in Owners, NEW id \in TaskIds, PrepareCompletion(o, id)
      PROVE  Moved
  BY <1>5, PrepareCompletionMoves DEF PrepareCompletion, Apply
<1>6. ASSUME NEW o \in Owners, NEW id \in TaskIds,
             Finish(o, id) \/ Fail(o, id) \/ Abort(o, id)
      PROVE  Moved
  BY <1>6, SetStatusMoves DEF Finish, Fail, Abort, CancelSeen, Apply, Terminal, Errors
<1>7. ASSUME FailStale
      PROVE  Moved
  BY <1>7, FailStaleMoves DEF FailStale, Apply
<1>8. QED
  BY <1>1, <1>2, <1>3, <1>4, <1>5, <1>6, <1>7 DEF MovingCall

(* The five kinds of step.                                                 *)
LEMMA NextKinds ==
    ASSUME Next
    PROVE  \/ \E key \in Keys, request \in Requests : Enqueue(key, request)
           \/ \E o \in Owners : ClaimNext(o)
           \/ MovingCall
           \/ Cleanup
           \/ Tick
BY DEF Next, MovingCall

(* IInv is inductive. *)
LEMMA NextKeepsInv ==
    ASSUME IInv, [Next]_vars
    PROVE  IInv'
<1>1. CASE UNCHANGED vars
  BY <1>1 DEF vars, IInv, TypeOK, DisjointOutputs, PendingBound, UniqueKeys,
              OneActivePerOwner, CancelFlagAgrees, QueuedUnowned, EndRecorded, CreatedInTime,
              Known, Pending
<1>2. CASE Tick
  <2>1. /\ tasks' = tasks /\ issued' = issued
        /\ clock' \in Skew + 1 .. MaxClock
        /\ born' = born /\ renewed' = renewed
    BY <1>2, InvGives, ClockAssumption DEF Tick, IInv, TypeOK
  <2>2. QED
    BY <2>1 DEF IInv, TypeOK, DisjointOutputs, PendingBound, UniqueKeys,
                OneActivePerOwner, CancelFlagAgrees, QueuedUnowned, EndRecorded,
                CreatedInTime, Known, Pending
<1>3. CASE MovingCall
  BY <1>3, MovingCallMoves, MovesKeepInv
<1>4. CASE \E key \in Keys, request \in Requests : Enqueue(key, request)
  BY <1>4, EnqueueKeepsInv
<1>5. CASE \E o \in Owners : ClaimNext(o)
  BY <1>5, ClaimKeepsInv
<1>6. CASE Cleanup
  BY <1>6, CleanupKeepsInv
<1>7. QED
  BY <1>1, <1>2, <1>3, <1>4, <1>5, <1>6, NextKinds

(* The empty queue satisfies the invariant.                                *)
LEMMA InitInv == Init => IInv
<1> SUFFICES ASSUME Init PROVE IInv
  OBVIOUS
<1>1. Known(tasks) = {} /\ Pending(tasks) = {}
  BY DEF Init, Known, Pending
<1>2. TypeOK
  BY <1>1, ClockAssumption DEF Init, TypeOK
<1>3. IsFiniteSet(issued) /\ PendingBound
  BY <1>1, FS_EmptySet, LimitsAssumption DEF Init, PendingBound
<1>4. QED
  BY <1>1, <1>2, <1>3 DEF IInv, DisjointOutputs, UniqueKeys, OneActivePerOwner,
                          CancelFlagAgrees, QueuedUnowned, EndRecorded, CreatedInTime

(* The invariant holds in every behaviour.                                 *)
LEMMA SpecInv == Spec => []IInv
<1>1. IInv /\ [Next]_vars => IInv'
  BY NextKeepsInv
<1>2. QED
  BY InitInv, <1>1, PTL DEF Spec

-----------------------------------------------------------------------------
(* The theorems: invariants.                                               *)

\* Every operation keeps the records well-formed.
THEOREM TypeCorrect == Spec => []TypeOK
<1>1. IInv => TypeOK
  BY DEF IInv
<1>2. QED
  BY SpecInv, <1>1, PTL

\* Two unfinished tasks never have overlapping output prefixes, the queue never
\* holds more of them than max_pending_tasks, and an idempotency key never
\* names two tasks, for any number of processes, tasks and prefixes.
THEOREM AdmissionHolds == Spec => []Admission
<1>1. IInv => Admission
  BY DEF IInv, Admission
<1>2. QED
  BY SpecInv, <1>1, PTL

\* A process never holds two running tasks, also when the answers of its
\* claims are lost.
THEOREM OneTaskPerProcess == Spec => []OneActivePerOwner
<1>1. IInv => OneActivePerOwner
  BY DEF IInv
<1>2. QED
  BY SpecInv, <1>1, PTL

\* A task carries the cancel flag exactly while it is ABORTING.
THEOREM FlagIsStatus == Spec => []CancelFlagAgrees
<1>1. IInv => CancelFlagAgrees
  BY DEF IInv
<1>2. QED
  BY SpecInv, <1>1, PTL

-----------------------------------------------------------------------------
(* The theorems: what a step may never do.  Each is shown for the five     *)
(* kinds of step of NextKinds.                                             *)

(* What any step does to a record that was there.                          *)
LEMMA StepEffect ==
    ASSUME IInv, [Next]_vars, NEW i \in Known(tasks)
    PROVE  \/ \E now \in Readings : Moves(tasks[i], tasks'[i], now)
           \/ tasks'[i] = tasks[i]
           \/ /\ tasks[i].status \in Terminal
              /\ tasks'[i] = NoTask
              /\ tasks[i].finished_at < clock + Skew - Retention
           \/ /\ tasks[i].status = "QUEUED"
              /\ tasks'[i].status = "RUNNING"
              /\ tasks'[i] # NoTask
              /\ tasks'[i].created_at = tasks[i].created_at
              /\ tasks'[i].last_modified \in Readings
              /\ issued' = issued
              /\ \E o \in Owners : ClaimNext(o)
<1>1. i \in TaskIds /\ tasks[i] \in TaskState
  BY InvGives DEF Known, Snapshots
<1>2. CASE UNCHANGED vars \/ Tick
  BY <1>2 DEF vars, Tick
<1>3. CASE MovingCall
  BY <1>3, MovingCallMoves DEF AllMove, Known
<1>4. CASE \E key \in Keys, request \in Requests : Enqueue(key, request)
  BY <1>4, InvGives DEF Enqueue, enqueue, Leave, Put, IInv, TypeOK, Snapshots
<1>5. ASSUME NEW o \in Owners, ClaimNext(o), tasks' # tasks
      PROVE  \/ tasks'[i] = tasks[i]
             \/ /\ tasks[i].status = "QUEUED"
                /\ tasks'[i].status = "RUNNING"
                /\ tasks'[i] # NoTask
                /\ tasks'[i].created_at = tasks[i].created_at
                /\ tasks'[i].last_modified \in Readings
                /\ issued' = issued
  <2>1. PICK k \in Candidates(tasks, ModelsOf[o]) :
              /\ tasks' = [tasks EXCEPT ![k] = tasks'[k]]
              /\ tasks'[k] \in TaskState
              /\ tasks'[k].status = "RUNNING"
              /\ tasks'[k].created_at = tasks[k].created_at
              /\ tasks'[k].last_modified \in Readings
    BY <1>5, ClaimEffect
  <2>2. tasks[k].status = "QUEUED"
    BY DEF Candidates
  <2>3. QED
    BY <1>1, <1>5, <2>1, <2>2, InvGives, NoTaskAssumption DEF Snapshots, ClaimNext, Apply
<1>6. CASE Cleanup
  <2>1. \/ tasks'[i] = tasks[i]
        \/ /\ tasks'[i] = NoTask
           /\ tasks[i].status \in Terminal
           /\ \E now \in Readings : EndedAt(tasks[i]) < now - Retention
    BY <1>1, <1>6 DEF Cleanup, Apply, clean, Leave
  <2>2. tasks[i].status \in Terminal => EndedAt(tasks[i]) = tasks[i].finished_at
    BY DEF EndedAt, IInv, EndRecorded, Never
  <2>3. \A now \in Readings : tasks[i].finished_at < now - Retention =>
                               tasks[i].finished_at < clock + Skew - Retention
    BY <1>1, InvGives, ClockAssumption DEF Readings, TaskState
  <2>4. QED
    BY <2>1, <2>2, <2>3
<1>7. QED
  BY <1>2, <1>3, <1>4, <1>5, <1>6, NextKinds

(* A record that was not there carries the time of its call.               *)
LEMMA NewRecord ==
    ASSUME IInv, Next, ~Tick, NEW i \in TaskIds, tasks[i] = NoTask, tasks'[i] # NoTask
    PROVE  tasks'[i].created_at \in Readings /\ tasks'[i].last_modified \in Readings
<1>1. ~MovingCall
  BY MovingCallMoves DEF AllMove
<1>2. ~Cleanup
  BY DEF Cleanup, Apply, clean, Leave
<1>3. ASSUME NEW o \in Owners, ClaimNext(o)
      PROVE  FALSE
  <2>1. tasks' # tasks
    OBVIOUS
  <2>2. PICK k \in Candidates(tasks, ModelsOf[o]) : tasks' = [tasks EXCEPT ![k] = tasks'[k]]
    BY <1>3, <2>1, ClaimEffect
  <2>3. i # k
    BY DEF Candidates, Known
  <2>4. QED
    BY <2>2, <2>3, InvGives DEF Snapshots
<1>4. PICK key \in Keys, request \in Requests : Enqueue(key, request)
  BY <1>1, <1>2, <1>3, NextKinds
<1>5. PICK id \in TaskIds, now \in Readings :
          tasks' = enqueue(tasks, id, key, request, now).tasks
  BY <1>4 DEF Enqueue
<1>6. tasks'[i] = NewTask(key, request, now)
  BY <1>5, InvGives DEF enqueue, Leave, Put, Snapshots
<1>7. QED
  BY <1>6 DEF NewTask

(* The times in the records are true up to the skew.                       *)
TimesTrue ==
    \A i \in Known(tasks) :
        /\ tasks[i].created_at \in born[i] - Skew .. born[i] + Skew
        /\ tasks[i].last_modified \in renewed[i] - Skew .. renewed[i] + Skew

(* Every call that writes a time writes a reading, and is remembered.      *)
LEMMA TimesKept ==
    ASSUME IInv, TimesTrue, [Next]_vars
    PROVE  TimesTrue'
<1>1. CASE UNCHANGED vars \/ Tick
  BY <1>1 DEF vars, Tick, TimesTrue, Known
<1>2. CASE ~(UNCHANGED vars \/ Tick)
  <2>1. Remembered /\ clock' = clock
    BY <1>2, NextKinds, MovingCallMoves DEF Enqueue, ClaimNext, Cleanup, Apply
  <2>2. \A now \in Readings : now \in clock - Skew .. clock + Skew
    BY DEF Readings
  <2> SUFFICES ASSUME NEW i \in Known(tasks')
               PROVE  /\ tasks'[i].created_at \in born'[i] - Skew .. born'[i] + Skew
                      /\ tasks'[i].last_modified \in renewed'[i] - Skew .. renewed'[i] + Skew
    BY DEF TimesTrue
  <2>3. i \in TaskIds /\ tasks'[i] # NoTask
    BY DEF Known
  <2>4. CASE i \notin Known(tasks)
    <3>1. tasks[i] = NoTask
      BY <2>3, <2>4 DEF Known
    <3>2. born'[i] = clock /\ renewed'[i] = clock
      BY <2>1, <2>3, <3>1 DEF Remembered
    <3>3. tasks'[i].created_at \in Readings /\ tasks'[i].last_modified \in Readings
      BY <1>2, <2>3, <3>1, NewRecord
    <3>4. QED
      BY <2>2, <3>2, <3>3
  <2>5. CASE i \in Known(tasks)
    <3>1. tasks[i] # NoTask
      BY <2>5 DEF Known
    <3>2. /\ born'[i] = born[i]
          /\ renewed'[i] = IF tasks'[i].last_modified # tasks[i].last_modified
                           THEN clock ELSE renewed[i]
      BY <2>1, <2>3, <3>1 DEF Remembered
    <3>3. /\ tasks'[i].created_at = tasks[i].created_at
          /\ \/ tasks'[i].last_modified = tasks[i].last_modified
             \/ tasks'[i].last_modified \in Readings
      BY <2>3, <2>5, StepEffect DEF Moves
    <3>4. QED
      BY <2>2, <2>5, <3>2, <3>3 DEF TimesTrue
  <2>6. QED
    BY <2>4, <2>5
<1>3. QED
  BY <1>1, <1>2

(* The invariant of the clocks holds in every behaviour.                   *)
LEMMA SpecTimes == Spec => []TimesTrue
<1>1. Init => TimesTrue
  BY DEF Init, TimesTrue, Known
<1>2. IInv /\ TimesTrue /\ [Next]_vars => TimesTrue'
  BY TimesKept
<1>3. QED
  BY SpecInv, <1>1, <1>2, PTL DEF Spec

\* A finished record is never rewritten, whoever calls; only retention
\* removes it, when its end is old enough.
THEOREM FinalIsFinal == Spec => TerminalIsFinal
<1>1. ASSUME IInv, [Next]_vars
      PROVE  [\A i \in Known(tasks) : tasks[i].status \in Terminal =>
                \/ tasks'[i] = tasks[i]
                \/ tasks'[i] = NoTask /\ tasks[i].finished_at < clock + Skew - Retention]_vars
  BY <1>1, StepEffect DEF Moves, Terminal
<1>2. QED
  BY SpecInv, <1>1, PTL DEF Spec, TerminalIsFinal

\* Whatever call reaches a task that is silent for longer than the timeout, as
\* far as the clocks can tell, it is not brought back.
THEOREM TimedOutStaysOut == Spec => NoRevival
<1>1. ASSUME IInv, TimesTrue, [Next]_vars
      PROVE  [\A i \in Known(tasks) :
                tasks[i].status \in Active /\ clock - renewed[i] >= TaskTimeout + 2 * Skew =>
                \/ /\ tasks'[i].status = "FAILED"
                   /\ tasks'[i].error = "task_timeout"
                \/ tasks'[i] = tasks[i]
                \/ tasks'[i] = [tasks[i] EXCEPT !.status = "ABORTING",
                                                !.cancel_requested = TRUE]]_vars
  <2> SUFFICES ASSUME NEW i \in Known(tasks), tasks[i].status \in Active,
                      clock - renewed[i] >= TaskTimeout + 2 * Skew
               PROVE  tasks'[i] = tasks[i] \/ AfterTimeout(tasks[i], tasks'[i])
    BY DEF AfterTimeout
  <2>1. \A now \in Readings : TimedOut(tasks[i], now)
    <3>1. renewed[i] \in Int /\ tasks[i].last_modified \in Int
      BY <1>1, InvGives DEF IInv, TypeOK, Known, Snapshots, TaskState
    <3>2. QED
      BY <1>1, <3>1, InvGives, LimitsAssumption DEF TimesTrue, Readings, TimedOut
  <2>2. tasks[i].status \notin Terminal /\ tasks[i].status # "QUEUED"
    BY DEF Active, Terminal
  <2>3. QED
    BY <1>1, <2>1, <2>2, StepEffect DEF Moves
<1>2. QED
  BY SpecInv, SpecTimes, <1>1, PTL DEF Spec, NoRevival

\* No pod fails a task by timeout whose executor was heard of lately, for any
\* clocks within the skew.
THEOREM LiveExecutorKeepsTask == Spec => LiveNotFailed
<1>1. ASSUME IInv, TimesTrue, [Next]_vars
      PROVE  [\A i \in Known(tasks) :
                /\ tasks[i].status \in Active
                /\ tasks'[i].status = "FAILED" /\ tasks'[i].error = "task_timeout"
                => clock - renewed[i] >= TaskTimeout - 2 * Skew]_vars
  <2> SUFFICES ASSUME NEW i \in Known(tasks), tasks[i].status \in Active,
                      tasks'[i].status = "FAILED", tasks'[i].error = "task_timeout"
               PROVE  clock - renewed[i] >= TaskTimeout - 2 * Skew
    OBVIOUS
  <2>1. tasks[i].status \notin Terminal /\ tasks[i].status # "QUEUED"
    BY DEF Active, Terminal
  <2>2. PICK now \in Readings : TimedOut(tasks[i], now)
    BY <1>1, <2>1, StepEffect DEF Moves, Terminal
  <2>3. renewed[i] \in Int /\ tasks[i].last_modified \in Int
    BY <1>1, InvGives DEF IInv, TypeOK, Known, Snapshots, TaskState
  <2>4. QED
    BY <1>1, <2>2, <2>3, InvGives, LimitsAssumption DEF TimesTrue, Readings, TimedOut
<1>2. QED
  BY SpecInv, SpecTimes, <1>1, PTL DEF Spec, LiveNotFailed

\* An accepted cancellation is answered by ABORTED or FAILED, never lost.
THEOREM CancelAnswered == Spec => CancelNotLost
<1>1. ASSUME IInv, [Next]_vars
      PROVE  [\A i \in Known(tasks) : tasks[i].status = "ABORTING" =>
                /\ tasks'[i] # NoTask
                /\ tasks'[i].status \in {"ABORTING", "ABORTED", "FAILED"}]_vars
  BY <1>1, StepEffect, NoTaskAssumption DEF Moves, Edge, Terminal, Known
<1>2. QED
  BY SpecInv, <1>1, PTL DEF Spec, CancelNotLost

\* A claim never overtakes an older task of a model its process serves.
THEOREM ClaimsOldestFirst == Spec => OldestFirst
<1>1. ASSUME IInv, TimesTrue, [Next]_vars
      PROVE  [\A i \in Known(tasks), j \in Known(tasks) :
                /\ tasks[i].status = "QUEUED"
                /\ tasks'[i].status = "RUNNING"
                /\ tasks[j].status = "QUEUED"
                /\ born[j] + 2 * Skew < born[i]
                => tasks[j].request.model \notin ModelsOf[tasks'[i].owner]]_vars
  <2> SUFFICES ASSUME NEW i \in Known(tasks), NEW j \in Known(tasks),
                      tasks[i].status = "QUEUED", tasks'[i].status = "RUNNING",
                      tasks[j].status = "QUEUED",
                      born[j] + 2 * Skew < born[i],
                      tasks[j].request.model \in ModelsOf[tasks'[i].owner]
               PROVE  FALSE
    OBVIOUS
  <2>1. PICK o \in Owners : ClaimNext(o)
    BY <1>1, StepEffect DEF Moves, Edge, Terminal
  <2>2. tasks' # tasks
    OBVIOUS
  <2>3. PICK k \in Candidates(tasks, ModelsOf[o]) :
              /\ \A m \in Candidates(tasks, ModelsOf[o]) : Earlier(tasks, k, m)
              /\ tasks' = [tasks EXCEPT ![k] = tasks'[k]]
              /\ tasks'[k].owner = o
    BY <1>1, <2>1, <2>2, ClaimEffect
  <2>4. i = k
    BY <1>1, <2>3, InvGives DEF Known, Snapshots
  <2>5. j \in Candidates(tasks, ModelsOf[o])
    BY <2>3, <2>4 DEF Candidates
  <2>6. tasks[i].created_at \in Int /\ tasks[j].created_at \in Int
    BY <1>1, InvGives DEF Snapshots, Known, TaskState
  <2>7. tasks[j].created_at < tasks[i].created_at
    <3>1. born[i] \in Int /\ born[j] \in Int
      BY <1>1 DEF IInv, TypeOK, Known
    <3>2. QED
      BY <1>1, <2>6, <3>1, InvGives DEF TimesTrue
  <2>8. QED
    BY <2>3, <2>4, <2>5, <2>6, <2>7 DEF Earlier
<1>2. QED
  BY SpecInv, SpecTimes, <1>1, PTL DEF Spec, OldestFirst

-----------------------------------------------------------------------------
(* The queue implements the life cycle of TaskLifecycle: each step moves   *)
(* one task along one arrow of the diagram, or, for maintenance, several   *)
(* tasks along the same arrow, or none.                                    *)

(* Phase and its next value, record by record.                             *)
LEMMA PhaseOf ==
    /\ DOMAIN Phase = TaskIds
    /\ DOMAIN Phase' = TaskIds
    /\ \A i \in TaskIds :
          /\ tasks[i] # NoTask => Phase[i] = tasks[i].status
          /\ tasks'[i] # NoTask => Phase'[i] = tasks'[i].status
          /\ tasks[i] = NoTask => Phase[i] = IF i \in issued THEN "removed" ELSE "new"
          /\ tasks'[i] = NoTask => Phase'[i] = IF i \in issued' THEN "removed" ELSE "new"
BY DEF Phase

(* Where only one phase changes, Phase is updated there.                   *)
LEMMA OnePhase ==
    ASSUME NEW i \in TaskIds, \A j \in TaskIds : j # i => Phase'[j] = Phase[j]
    PROVE  Phase' = [Phase EXCEPT ![i] = Phase'[i]]
BY DEF Phase

(* An allowed edge of one record is an arrow of the diagram.               *)
LEMMA EdgeIsArrow ==
    ASSUME NEW i \in TaskIds, \A j \in TaskIds : j # i => Phase'[j] = Phase[j],
           \/ Edge(Phase[i], Phase'[i])
           \/ Phase[i] = "QUEUED" /\ Phase'[i] = "RUNNING"
    PROVE  [Lifecycle!Next]_Phase
<1>1. Phase' = [Phase EXCEPT ![i] = Phase'[i]]
  BY OnePhase
<1>2. CASE Phase'[i] = Phase[i]
  <2>1. [Phase EXCEPT ![i] = Phase[i]] = Phase
    BY DEF Phase
  <2>2. QED
    BY <1>1, <1>2, <2>1
<1>3. CASE Phase'[i] = "FAILED" /\ Phase[i] \in {"RUNNING", "ABORTING", "FINALIZING"}
  <2>1. Phase' = [j \in TaskIds |-> IF j \in {i} THEN "FAILED" ELSE Phase[j]]
    BY <1>1, <1>3, PhaseOf
  <2>2. Lifecycle!Fail({i})
    BY <1>3, <2>1 DEF Lifecycle!Fail
  <2>3. QED
    BY <2>2 DEF Lifecycle!Next
<1>4. CASE Phase[i] = "QUEUED" /\ Phase'[i] \in {"RUNNING", "ABORTED"}
  BY <1>1, <1>4 DEF Lifecycle!Next, Lifecycle!Start, Lifecycle!Cancel, Lifecycle!Move
<1>5. CASE Phase[i] = "RUNNING" /\ Phase'[i] \in {"ABORTING", "FINALIZING"}
  BY <1>1, <1>5 DEF Lifecycle!Next, Lifecycle!RequestCancel, Lifecycle!Publish, Lifecycle!Move
<1>6. CASE Phase[i] = "ABORTING" /\ Phase'[i] = "ABORTED"
  BY <1>1, <1>6 DEF Lifecycle!Next, Lifecycle!Cancel, Lifecycle!Move
<1>7. CASE Phase[i] = "FINALIZING" /\ Phase'[i] = "DONE"
  BY <1>1, <1>7 DEF Lifecycle!Next, Lifecycle!Finish, Lifecycle!Move
<1>8. QED
  BY <1>2, <1>3, <1>4, <1>5, <1>6, <1>7 DEF Edge

-----------------------------------------------------------------------------
(* The kinds of steps.                                                     *)

(* A call that moves records, other than fail_stale, touches one of them.  *)
LEMMA OneRecord ==
    ASSUME IInv, MovingCall, ~FailStale
    PROVE  \E i \in TaskIds : \A j \in TaskIds : j # i => tasks'[j] = tasks[j]
<1> USE InvGives DEF Leave, Put, Snapshots
<1>1. ASSUME NEW id \in TaskIds, RequestAbort(id)
      PROVE  \A j \in TaskIds : j # id => tasks'[j] = tasks[j]
  BY <1>1 DEF RequestAbort, Apply, request_abort
<1>2. ASSUME NEW o \in Owners, NEW id \in TaskIds, Heartbeat(o, id)
      PROVE  \A j \in TaskIds : j # id => tasks'[j] = tasks[j]
  BY <1>2 DEF Heartbeat, Apply, heartbeat, Refusal
<1>3. ASSUME NEW o \in Owners, NEW id \in TaskIds, SetTotalRows(o, id)
      PROVE  \A j \in TaskIds : j # id => tasks'[j] = tasks[j]
  BY <1>3 DEF SetTotalRows, Apply, set_total_rows, Refusal
<1>4. ASSUME NEW o \in Owners, NEW id \in TaskIds, UpdateProgress(o, id)
      PROVE  \A j \in TaskIds : j # id => tasks'[j] = tasks[j]
  BY <1>4 DEF UpdateProgress, Apply, update_progress, Refusal
<1>5. ASSUME NEW o \in Owners, NEW id \in TaskIds, PrepareCompletion(o, id)
      PROVE  \A j \in TaskIds : j # id => tasks'[j] = tasks[j]
  BY <1>5 DEF PrepareCompletion, Apply, prepare_completion, Refusal
<1>6. ASSUME NEW o \in Owners, NEW id \in TaskIds,
             Finish(o, id) \/ Fail(o, id) \/ Abort(o, id)
      PROVE  \A j \in TaskIds : j # id => tasks'[j] = tasks[j]
  BY <1>6 DEF Finish, Fail, Abort, Apply, set_status, Refusal
<1>7. QED
  BY <1>1, <1>2, <1>3, <1>4, <1>5, <1>6 DEF MovingCall

(* A call on one record follows one arrow.                                 *)
LEMMA MovingRefines ==
    ASSUME IInv, MovingCall, ~FailStale
    PROVE  [Lifecycle!Next]_Phase
<1>1. PICK now \in Readings : AllMove(tasks, tasks', now) /\ issued' = issued
  BY MovingCallMoves
<1>2. PICK i \in TaskIds : \A j \in TaskIds : j # i => tasks'[j] = tasks[j]
  BY OneRecord
<1>3. \A j \in TaskIds : j # i => Phase'[j] = Phase[j]
  BY <1>1, <1>2, PhaseOf
<1>4. CASE tasks[i] = NoTask
  <2>1. Phase'[i] = Phase[i]
    BY <1>1, <1>4, PhaseOf DEF AllMove
  <2>2. QED
    BY <1>3, <2>1, OnePhase, EdgeIsArrow DEF Edge
<1>5. CASE tasks[i] # NoTask
  <2>1. Moves(tasks[i], tasks'[i], now)
    BY <1>1, <1>5 DEF AllMove
  <2>2. tasks'[i] # NoTask
    BY <2>1, NoTaskAssumption DEF Moves
  <2>3. Edge(Phase[i], Phase'[i])
    BY <1>5, <2>1, <2>2, PhaseOf DEF Moves
  <2>4. QED
    BY <1>3, <2>3, EdgeIsArrow
<1>6. QED
  BY <1>4, <1>5

(* fail_stale fails all the tasks that have timed out, and no other.       *)
LEMMA FailStaleRefines ==
    ASSUME IInv, FailStale
    PROVE  [Lifecycle!Next]_Phase
<1>1. PICK now \in Readings : tasks' = fail_stale(tasks, now).tasks /\ issued' = issued
  BY DEF FailStale, Apply
<1> DEFINE I == {i \in Known(tasks) : TimedOut(tasks[i], now)}
<1>2. \A i \in TaskIds : tasks'[i] = IF tasks[i] = NoTask THEN NoTask ELSE Expire(tasks[i], now)
  BY <1>1 DEF fail_stale
<1>3. \A i \in I : /\ i \in TaskIds /\ tasks[i] # NoTask
                   /\ Phase[i] \in {"RUNNING", "ABORTING", "FINALIZING"}
  BY PhaseOf DEF Known, TimedOut, Active
<1>4. \A i \in I : Phase'[i] = "FAILED"
  <2> TAKE i \in I
  <2>1. tasks[i] \in TaskState
    BY <1>3, InvGives DEF Snapshots
  <2>2. tasks'[i] = SetTerminal(tasks[i], "FAILED", "task_timeout", now)
    BY <1>2, <1>3 DEF Expire
  <2>3. tasks'[i] \in TaskState /\ tasks'[i].status = "FAILED"
    BY <2>1, <2>2, InvGives DEF SetTerminal, TaskState, Status, Terminal, Errors
  <2>4. QED
    BY <1>3, <2>3, PhaseOf, NoTaskAssumption
<1>5. \A i \in TaskIds \ I : Phase'[i] = Phase[i]
  BY <1>1, <1>2, PhaseOf DEF Known, Expire
<1> HIDE DEF I
<1>6. Phase' = [i \in TaskIds |-> IF i \in I THEN "FAILED" ELSE Phase[i]]
  BY <1>4, <1>5, PhaseOf DEF Phase
<1>7. I \in SUBSET TaskIds
  BY <1>3
<1>8. Lifecycle!Fail(I)
  BY <1>3, <1>6 DEF Lifecycle!Fail
<1>9. QED
  BY <1>7, <1>8 DEF Lifecycle!Next

(* enqueue accepts one new task, or leaves the queue alone.                *)
LEMMA EnqueueRefines ==
    ASSUME IInv, NEW key \in Keys, NEW request \in Requests, Enqueue(key, request)
    PROVE  [Lifecycle!Next]_Phase
<1>1. PICK id \in TaskIds \ issued, now \in Readings :
          /\ tasks' = enqueue(tasks, id, key, request, now).tasks
          /\ issued' = issued \cup (Known(tasks') \ Known(tasks))
  BY DEF Enqueue
<1>2. tasks[id] = NoTask /\ Phase[id] = "new"
  BY PhaseOf DEF IInv, TypeOK, Known
<1>3. CASE tasks' = tasks
  BY <1>1, <1>3 DEF Phase, Known
<1>4. CASE tasks' = [tasks EXCEPT ![id] = NewTask(key, request, now)]
  <2>1. NewTask(key, request, now) \in TaskState
    BY InvGives, LimitsAssumption
       DEF NewTask, TaskState, Status, Unknown, Never, Errors
  <2>2. /\ tasks'[id] # NoTask
        /\ tasks'[id].status = "QUEUED"
        /\ \A j \in TaskIds : j # id => tasks'[j] = tasks[j]
    BY <1>4, <2>1, InvGives, NoTaskAssumption DEF Snapshots, NewTask
  <2>3. Known(tasks') \ Known(tasks) = {id}
    BY <1>2, <2>2 DEF Known
  <2>4. Phase'[id] = "QUEUED" /\ \A j \in TaskIds : j # id => Phase'[j] = Phase[j]
    BY <1>1, <2>2, <2>3, PhaseOf
  <2>5. Phase' = [Phase EXCEPT ![id] = "QUEUED"]
    BY <2>4, OnePhase
  <2>6. QED
    BY <1>2, <2>5 DEF Lifecycle!Next, Lifecycle!Accept, Lifecycle!Move
<1>5. QED
  BY <1>1, <1>3, <1>4 DEF enqueue, Leave, Put

(* A claim starts one queued task, or none.                                *)
LEMMA ClaimRefines ==
    ASSUME IInv, NEW o \in Owners, ClaimNext(o)
    PROVE  [Lifecycle!Next]_Phase
<1>1. issued' = issued
  BY DEF ClaimNext, Apply
<1>2. CASE tasks' = tasks
  BY <1>1, <1>2 DEF Phase
<1>3. CASE tasks' # tasks
  <2>1. PICK i \in Candidates(tasks, ModelsOf[o]) :
            /\ tasks' = [tasks EXCEPT ![i] = tasks'[i]]
            /\ tasks'[i] \in TaskState
            /\ tasks'[i].status = "RUNNING"
    BY <1>3, ClaimEffect
  <2>2. i \in TaskIds /\ tasks[i] # NoTask /\ tasks[i].status = "QUEUED"
    BY DEF Candidates, Known
  <2>3. \A j \in TaskIds : j # i => Phase'[j] = Phase[j]
    <3>1. \A j \in TaskIds : j # i => tasks'[j] = tasks[j]
      BY <2>1, InvGives DEF Snapshots
    <3>2. QED
      BY <1>1, <3>1, PhaseOf
  <2>4. Phase[i] = "QUEUED" /\ Phase'[i] = "RUNNING"
    BY <2>1, <2>2, PhaseOf, NoTaskAssumption
  <2>5. QED
    BY <2>2, <2>3, <2>4, EdgeIsArrow
<1>4. QED
  BY <1>2, <1>3

(* Retention removes finished tasks only.                                  *)
LEMMA CleanupRefines ==
    ASSUME IInv, Cleanup
    PROVE  [Lifecycle!Next]_Phase
<1>1. PICK now \in Readings : tasks' = clean(tasks, now - Retention).tasks /\ issued' = issued
  BY DEF Cleanup, Apply
<1> DEFINE I == {i \in Known(tasks) : tasks[i].status \in Terminal
                                      /\ EndedAt(tasks[i]) < now - Retention}
<1>2. \A i \in TaskIds : tasks'[i] = IF i \in I THEN NoTask ELSE tasks[i]
  BY <1>1 DEF clean, Leave
<1>3. \A i \in I : /\ i \in TaskIds /\ i \in issued
                   /\ Phase[i] \in {"DONE", "FAILED", "ABORTED"}
  BY PhaseOf DEF Known, Terminal, IInv, TypeOK
<1> HIDE DEF I
<1>4. Phase' = [i \in TaskIds |-> IF i \in I THEN "removed" ELSE Phase[i]]
  <2>1. \A i \in I : Phase'[i] = "removed"
    BY <1>1, <1>2, <1>3, PhaseOf
  <2>2. \A i \in TaskIds \ I : Phase'[i] = Phase[i]
    BY <1>1, <1>2, PhaseOf
  <2>3. QED
    BY <1>3, <2>1, <2>2 DEF Phase
<1>5. I \in SUBSET TaskIds
  BY <1>3
<1>6. Lifecycle!Forget(I)
  BY <1>3, <1>4 DEF Lifecycle!Forget
<1>7. QED
  BY <1>5, <1>6 DEF Lifecycle!Next

-----------------------------------------------------------------------------
(* No task exists at the start.                                            *)
LEMMA InitRefines == Init => Lifecycle!Init
BY DEF Init, Lifecycle!Init, Phase

(* Every step of the queue is a step of the life cycle, or a stutter.      *)
LEMMA StepRefines == IInv /\ [Next]_vars => [Lifecycle!Next]_Phase
<1> SUFFICES ASSUME IInv, [Next]_vars PROVE [Lifecycle!Next]_Phase
  OBVIOUS
<1>1. CASE UNCHANGED vars \/ Tick
  BY <1>1 DEF vars, Tick, Phase
<1>2. CASE MovingCall
  BY <1>2, MovingRefines, FailStaleRefines
<1>3. CASE \E key \in Keys, request \in Requests : Enqueue(key, request)
  BY <1>3, EnqueueRefines
<1>4. CASE \E o \in Owners : ClaimNext(o)
  BY <1>4, ClaimRefines
<1>5. CASE Cleanup
  BY <1>5, CleanupRefines
<1>6. QED
  BY <1>1, <1>2, <1>3, <1>4, <1>5, NextKinds

\* Whatever calls are made by whom and in whatever order, tasks move along
\* the documented life cycle only.
THEOREM QueueFollowsLifecycle == Spec => FollowsLifecycle
<1>1. QED
  BY InitRefines, StepRefines, SpecInv, PTL DEF Spec, FollowsLifecycle, Lifecycle!Spec

-----------------------------------------------------------------------------
(* The property SelectionSuffices, on which PgBackend rests, for the       *)
(* callbacks of TaskStore.                                                 *)

\* Whatever the queue has become, every callback decides, answers and writes on
\* the rows its call selects as it would on the whole queue.
SelectionSuffices ==
    \A T \in Snapshots, id \in TaskIds, key \in Keys : Selects(T, tasks, id, key) =>
        \A o \in Owners, rows \in 0 .. MaxRows, request \in Requests, now \in Readings :
            /\ id \notin issued => Amounts(enqueue(T, id, key, request, now), T,
                                          enqueue(tasks, id, key, request, now), tasks)
            /\ Amounts(claim_next(T, o, ModelsOf[o], now), T,
                       claim_next(tasks, o, ModelsOf[o], now), tasks)
            /\ Amounts(request_abort(T, id, now), T, request_abort(tasks, id, now), tasks)
            /\ Amounts(heartbeat(T, id, o, now), T, heartbeat(tasks, id, o, now), tasks)
            /\ Amounts(set_total_rows(T, id, o, rows, now), T,
                       set_total_rows(tasks, id, o, rows, now), tasks)
            /\ Amounts(update_progress(T, id, o, rows, now), T,
                       update_progress(tasks, id, o, rows, now), tasks)
            /\ \A status \in Status, error \in Errors :
                  Amounts(set_status(T, id, o, status, error, now), T,
                          set_status(tasks, id, o, status, error, now), tasks)
            /\ Amounts(prepare_completion(T, id, o, rows, now), T,
                       prepare_completion(tasks, id, o, rows, now), tasks)
            /\ Amounts(fail_stale(T, now), T, fail_stale(tasks, now), tasks)

\* A call on the rows that PostgreSQL selects for it amounts to the call on the
\* whole table, in every state that any calls, in any order and by clocks with
\* any skew, can make of the queue.
THEOREM SelectedRowsSuffice == Spec => []SelectionSuffices
<1>1. ASSUME IInv PROVE SelectionSuffices
  <2>1. tasks \in Snapshots /\ \A i \in Known(tasks) : tasks[i].created_at >= 0
    BY <1>1, InvGives
  <2>2. \A id \in TaskIds : id \notin issued => tasks[id] = NoTask
    BY <1>1 DEF IInv, TypeOK, Known
  <2> SUFFICES ASSUME NEW T \in Snapshots, NEW id \in TaskIds, NEW key \in Keys,
                      Selects(T, tasks, id, key),
                      NEW o \in Owners, NEW rows \in 0 .. MaxRows,
                      NEW request \in Requests, NEW now \in Readings
               PROVE  /\ id \notin issued => Amounts(enqueue(T, id, key, request, now), T,
                                          enqueue(tasks, id, key, request, now), tasks)
                      /\ Amounts(claim_next(T, o, ModelsOf[o], now), T,
                                 claim_next(tasks, o, ModelsOf[o], now), tasks)
                      /\ Amounts(fail_stale(T, now), T, fail_stale(tasks, now), tasks)
    BY <2>1, NamedSelects DEF SelectionSuffices
  <2>3. id \notin issued => Amounts(enqueue(T, id, key, request, now), T,
                                   enqueue(tasks, id, key, request, now), tasks)
    BY <2>1, <2>2, EnqueueSelects
  <2>4. Amounts(claim_next(T, o, ModelsOf[o], now), T,
                claim_next(tasks, o, ModelsOf[o], now), tasks)
    BY <2>1, ClaimSelects
  <2>5. Amounts(fail_stale(T, now), T, fail_stale(tasks, now), tasks)
    BY <2>1, FailStaleSelects
  <2> QED BY <2>3, <2>4, <2>5
<1> QED BY <1>1, SpecInv, PTL

=============================================================================
