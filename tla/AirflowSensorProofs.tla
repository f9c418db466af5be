------------------------- MODULE AirflowSensorProofs -------------------------
(***************************************************************************)
(* Proofs about AirflowSensor, for any number of shards, pods, executions, *)
(* tries, failed calls and requests that arrive late, and for all ways to  *)
(* stop an execution: the types, one task per shard, what success means,   *)
(* and that a failure leaves no task behind that the log does not name.    *)
(*                                                                         *)
(* The service and the operator are taken apart.  Whatever happens, the    *)
(* queue only goes on (GoesOn): tasks keep their keys, what is over stays  *)
(* over, what is told to stop stays so, and a new task is the first of its *)
(* shard.  What the operator remembers of the queue (Memory) is such that  *)
(* it survives every step the queue may take, so that for each step of the *)
(* operator only what it does to its own state is left to look at.         *)
(***************************************************************************)
EXTENDS AirflowSensor, TaskChangesProofs, FiniteSetTheorems, TLAPS

-----------------------------------------------------------------------------
(* The queue of the service.                                               *)

\* Numbered in the order of arrival, one task per key, each the request of
\* the shard in its key.
QueueInv(T) ==
    /\ T \in Snapshots
    /\ \E n \in 0 .. Shards : Known(T) = 1 .. n
    /\ \A i \in Known(T) :
          /\ Sound(T[i])
          /\ T[i].created_at = 0
          /\ \E s \in 1 .. Shards : T[i].key = KeyOf(s) /\ T[i].request = RequestOf[s]
    /\ \A i, j \in Known(T) : T[i].key = T[j].key => i = j

\* What may become of a queue.
GoesOn(T, T2) ==
    /\ QueueInv(T2)
    /\ \A i \in Known(T) :
          /\ i \in Known(T2)
          /\ T2[i].key = T[i].key
          /\ T[i].status \in Terminal => T2[i].status = T[i].status
          /\ T[i].status = "ABORTING" => T2[i].status \in {"ABORTING"} \cup Terminal
    /\ \A i \in Known(T2) \ Known(T) : SameKey(T, T2[i].key) = {}

-----------------------------------------------------------------------------
(* What the operator knows.                                                *)

\* The last answer about a task is of a task there is, and what was over is
\* over.
SeenTrue(T) ==
    \A i \in TaskIds : seen[i] # "none" =>
        /\ i \in Known(T)
        /\ seen[i] \in Terminal => T[i].status = seen[i]

SeenShard(T, s) == \E i \in Known(T) : T[i].key = KeyOf(s) /\ seen[i] # "none"

\* The shard has been posted in this execution; its task is known, or the log
\* names the shard.
Posted(T, s) == s \in lost \/ SeenShard(T, s)

\* The execution is at a shard, or cancelling because SIGTERM came there.
Busy(stage) == op.pc = stage \/ (op.pc = "abort" /\ op.after = stage)

\* AirflowTaskTimeout has ended the execution.
CutShort == "task_timeout" \in Stops \ op.stops

\* The operator gives up for good, and not in the middle of a poke.
GivesUp == ~CutShort /\ (op.pc = "failed" \/ (op.pc = "abort" /\ op.after = "over"))

\* Shards are posted one after the other, all of them before the end.
InTurn(T) ==
    /\ Busy("post") \/ Busy("status") => \A s \in 1 .. Shards : s < op.shard => Posted(T, s)
    /\ Busy("status") => SeenShard(T, op.shard)
    /\ op.pc = "decide" \/ GivesUp => \A s \in 1 .. Shards : Posted(T, s)

\* An execution without an error has lost no shard.
NoneLost == op.pc \in {"post", "status", "decide"} /\ ~op.failed => lost = {}

\* What is left to do before NoSilentOrphan holds.
Accounted(T) ==
    GivesUp => \A i \in Pending(T) :
        \/ T[i].status = "ABORTING"
        \/ i \in unaborted
        \/ op.pc = "abort" /\ i \in op.todo
        \/ T[i].key[1] \in lost

\* SuccessIsComplete, of any queue.
Succeeded(T) ==
    op.pc = "success" => \A s \in 1 .. Shards : \E i \in Known(T) :
        T[i].key = KeyOf(s) /\ T[i].status = "DONE"

Memory(T) == SeenTrue(T) /\ InTurn(T) /\ NoneLost /\ Accounted(T) /\ Succeeded(T)

\* The state of the operator, whose types do not depend on the queue.
Processes ==
    [pc : {"scheduled", "post", "status", "decide", "abort", "success", "failed", "killed"},
     shard : 1 .. Shards, tries : 0 .. HttpAttempts - 1, failed : BOOLEAN,
     todo : SUBSET TaskIds, after : {"over", "post", "status"}, stops : SUBSET Stops]

Typed ==
    /\ op \in Processes
    /\ seen \in [TaskIds -> Status \cup {"none"}]
    /\ pokes \in 0 .. MaxPokes
    /\ unaborted \subseteq TaskIds
    /\ lost \subseteq 1 .. Shards

\* What may be under way to the service.
Wire == {PostOf(s) : s \in 1 .. Shards} \cup {AbortOf(i) : i \in TaskIds}

Channel == late \subseteq Wire /\ faults \in 0 .. MaxFaults

IInv == QueueInv(tasks) /\ Channel /\ Typed /\ Memory(tasks)

LEMMA SpaceFacts ==
    /\ TaskIds \subseteq Nat
    /\ Shards \in Nat \ {0}
    /\ 1 .. Shards \subseteq TaskIds
    /\ \A s \in 1 .. Shards : KeyOf(s) \in Keys /\ RequestOf[s] \in Requests
    /\ \A s \in 1 .. Shards : KeyOf(s)[1] = s
    /\ \A s, t \in 1 .. Shards : KeyOf(s) = KeyOf(t) => s = t
BY IdsAssumption, SensorAssumption DEF KeyOf

\* An invariant of the queue, as facts to cite.
LEMMA QueueGives ==
    ASSUME NEW T, QueueInv(T)
    PROVE  /\ T \in Snapshots
           /\ \A i \in Known(T) : Sound(T[i]) /\ T[i] \in TaskState /\ i \in TaskIds
BY DEF QueueInv, Snapshots, Known

LEMMA Stays == ASSUME NEW T, QueueInv(T) PROVE GoesOn(T, T)
BY DEF GoesOn

-----------------------------------------------------------------------------
(* The queue goes on, whoever calls.                                       *)

\* The minimum of what there is to choose from.
LEMMA MinChosen ==
    ASSUME NEW C \in SUBSET Nat, C # {}
    PROVE  Min(C) \in C
<1>1. \E x \in C : \A y \in C : x <= y
  BY LeastNat
<1> QED BY <1>1 DEF Min

\* A callback that moves records lets the queue go on.
LEMMA MovesGoOn ==
    ASSUME NEW T, NEW T2, QueueInv(T), AllMove(T, T2, 0)
    PROVE  GoesOn(T, T2) /\ Known(T2) = Known(T)
<1>1. T \in Snapshots /\ T2 \in Snapshots
  BY QueueGives DEF AllMove
<1>2. \A i \in Known(T) : Moves(T[i], T2[i], 0)
  BY DEF AllMove, Known
<1>3. \A i \in Known(T) : T2[i] \in TaskState
  BY <1>2 DEF Moves
<1>4. Known(T2) = Known(T)
  BY <1>3, NoTaskAssumption DEF AllMove, Known
<1>5. \A i \in Known(T) :
        /\ T2[i].key = T[i].key /\ T2[i].request = T[i].request
        /\ T2[i].created_at = T[i].created_at /\ Sound(T2[i])
        /\ T[i].status \in Terminal => T2[i].status = T[i].status
        /\ T[i].status = "ABORTING" => T2[i].status \in {"ABORTING"} \cup Terminal
  BY <1>2 DEF Moves, Edge, Terminal
<1>6. QueueInv(T2)
  BY <1>1, <1>4, <1>5 DEF QueueInv
<1> QED BY <1>4, <1>5, <1>6 DEF GoesOn

\* With a task for every other shard at most, there is an identifier left for
\* the first task of a shard.
LEMMA RoomForShard ==
    ASSUME NEW T, QueueInv(T), NEW s \in 1 .. Shards, SameKey(T, KeyOf(s)) = {}
    PROVE  \E n \in 0 .. Shards - 1 : Known(T) = 1 .. n /\ Cardinality(Known(T)) = n
<1>1. PICK n \in 0 .. Shards : Known(T) = 1 .. n
  BY DEF QueueInv
<1>2. IsFiniteSet(1 .. n) /\ Cardinality(1 .. n) = n
  BY <1>1, SpaceFacts, FS_Interval
<1>3. SUFFICES ASSUME n = Shards PROVE FALSE
  BY <1>1, <1>2, SpaceFacts
<1> DEFINE others == (1 .. Shards) \ {s}
           shard == [i \in 1 .. n |-> CHOOSE t \in 1 .. Shards : T[i].key = KeyOf(t)]
<1>4. \A i \in 1 .. n : shard[i] \in 1 .. Shards /\ T[i].key = KeyOf(shard[i])
  BY <1>1 DEF QueueInv
<1>5. \A i \in 1 .. n : shard[i] # s
  BY <1>1, <1>4 DEF SameKey
<1>6. shard \in [1 .. n -> others]
  BY <1>4, <1>5
<1>7. IsFiniteSet(others) /\ Cardinality(others) = Shards - 1
  <2>1. IsFiniteSet(1 .. Shards) /\ Cardinality(1 .. Shards) = Shards
    BY SpaceFacts, FS_Interval
  <2> QED BY <2>1, FS_RemoveElement
<1>8. Cardinality(others) < Cardinality(1 .. n)
  BY <1>2, <1>3, <1>7, SpaceFacts
<1> HIDE DEF others, shard
<1>9. PICK i, j \in 1 .. n : i # j /\ shard[i] = shard[j]
  BY <1>2, <1>6, <1>7, <1>8, FS_PigeonHole
<1> QED BY <1>1, <1>4, <1>9 DEF QueueInv

\* POST /infer: the task of the shard, its first one, or an error.
LEMMA EnqueueGoesOn ==
    ASSUME NEW T, QueueInv(T), NEW s \in 1 .. Shards,
           NEW c, c = enqueue(T, 1 + Cardinality(Known(T)), KeyOf(s), RequestOf[s], 0)
    PROVE  /\ GoesOn(T, c.tasks)
           /\ c.result.kind = "Value" =>
                 c.result.value \in Known(c.tasks) /\ c.tasks[c.result.value].key = KeyOf(s)
<1>1. CASE SameKey(T, KeyOf(s)) # {}
  <2> DEFINE j == CHOOSE i \in SameKey(T, KeyOf(s)) : TRUE
  <2>1. j \in SameKey(T, KeyOf(s))
    BY <1>1
  <2>2. c = Leave(T, FindRequest(T, KeyOf(s), RequestOf[s]))
    BY <1>1 DEF enqueue
  <2>3. c.tasks = T /\ c.result = FindRequest(T, KeyOf(s), RequestOf[s])
    BY <2>2 DEF Leave
  <2>4. c.result.kind = "Value" => c.result.value = j
    BY <2>3 DEF FindRequest, Value, Raised
  <2> HIDE DEF j
  <2> QED BY <2>1, <2>3, <2>4, Stays DEF SameKey
<1>2. CASE SameKey(T, KeyOf(s)) = {} /\ Refused(T, RequestOf[s])
  BY <1>2, Stays DEF enqueue, Leave, Raised
<1>3. CASE SameKey(T, KeyOf(s)) = {} /\ ~Refused(T, RequestOf[s])
  <2>1. PICK n \in 0 .. Shards - 1 : Known(T) = 1 .. n /\ Cardinality(Known(T)) = n
    BY <1>3, RoomForShard
  <2> DEFINE id == n + 1
             t == NewTask(KeyOf(s), RequestOf[s], 0)
  <2>2. id \in 1 .. Shards /\ id \in TaskIds /\ id \notin Known(T)
    BY <2>1, SpaceFacts
  <2>3. c.tasks = [T EXCEPT ![id] = t] /\ c.result = Value(id)
    <3>1. id = 1 + Cardinality(Known(T))
      BY <2>1, SpaceFacts
    <3> HIDE DEF id
    <3>2. c = Put(T, id, t, Value(id))
      BY <1>3, <3>1, Zenon DEF enqueue
    <3> HIDE DEF t
    <3>3. c = [tasks |-> [T EXCEPT ![id] = t], result |-> Value(id)]
      BY <3>2, Zenon DEF Put
    <3> QED BY ONLY <3>3
  <2>4. t \in TaskState
    BY SpaceFacts, LimitsAssumption DEF NewTask, TaskState, Status, Errors, Unknown, Never
  <2>5. /\ t.key = KeyOf(s) /\ t.request = RequestOf[s] /\ t.created_at = 0 /\ Sound(t)
    BY DEF NewTask, Sound
  <2> HIDE DEF t
  <2>6. /\ c.tasks \in Snapshots /\ c.tasks[id] = t
        /\ \A i \in TaskIds \ {id} : c.tasks[i] = T[i]
    BY <2>2, <2>3, <2>4, QueueGives DEF Snapshots
  <2>7. Known(c.tasks) = Known(T) \cup {id}
    BY <2>2, <2>4, <2>6, NoTaskAssumption DEF Known
  <2>8. Known(c.tasks) = 1 .. n + 1 /\ n + 1 \in 0 .. Shards
    <3>1. n \in Int /\ Shards \in Int
      BY SpaceFacts
    <3>2. (1 .. n) \cup {n + 1} = 1 .. n + 1
      BY <2>1, <3>1
    <3>3. n + 1 \in 0 .. Shards
      BY <3>1, SpaceFacts
    <3>4. Known(c.tasks) = (1 .. n) \cup {n + 1}
      BY <2>1, <2>7
    <3> QED BY ONLY <3>2, <3>3, <3>4
  <2>9. \A i \in Known(T) : c.tasks[i] = T[i] /\ T[i].key # KeyOf(s)
    BY <1>3, <2>2, <2>6 DEF SameKey, Known
  <2>10. QueueInv(c.tasks)
    <3>1. \A i \in Known(c.tasks) :
            /\ Sound(c.tasks[i])
            /\ c.tasks[i].created_at = 0
            /\ \E r \in 1 .. Shards : c.tasks[i].key = KeyOf(r) /\ c.tasks[i].request = RequestOf[r]
      BY <2>5, <2>6, <2>7, <2>9 DEF QueueInv
    <3>2. \A i, j \in Known(c.tasks) : c.tasks[i].key = c.tasks[j].key => i = j
      BY <2>5, <2>6, <2>7, <2>9 DEF QueueInv
    <3> QED BY <2>6, <2>8, <3>1, <3>2 DEF QueueInv
  <2>11. GoesOn(T, c.tasks)
    BY <1>3, <2>5, <2>6, <2>7, <2>9, <2>10 DEF GoesOn
  <2> QED BY <2>3, <2>5, <2>6, <2>7, <2>11 DEF Value
<1> QED BY <1>1, <1>2, <1>3

\* POST /abort: what it answers with a value is over or told to stop.
LEMMA AbortGoesOn ==
    ASSUME NEW T, QueueInv(T), NEW i \in TaskIds, NEW c, c = request_abort(T, i, 0)
    PROVE  /\ GoesOn(T, c.tasks)
           /\ c.result.kind = "Value" =>
                 c.tasks[i].status \in {"ABORTING"} \cup Terminal
<1>1. GoesOn(T, c.tasks)
  BY QueueGives, RequestAbortMoves, MovesGoOn
<1>2. ASSUME c.result.kind = "Value" PROVE c.tasks[i].status \in {"ABORTING"} \cup Terminal
  <2>1. T[i] # NoTask /\ T[i].status # "FINALIZING"
    BY <1>2 DEF request_abort, Leave, None, Raised
  <2>2. T[i] \in TaskState
    BY <2>1, QueueGives DEF Known
  <2>3. c.tasks = [T EXCEPT ![i] = AbortMark(T[i], 0)]
    BY <2>1 DEF request_abort, Put
  <2>4. c.tasks[i] = AbortMark(T[i], 0)
    BY <2>3, QueueGives DEF Snapshots
  <2>5. T[i].status \in {"QUEUED", "RUNNING", "ABORTING"} \cup Terminal
    BY <2>1, <2>2 DEF TaskState, Status, Active
  <2>6. AbortMark(T[i], 0).status \in {"ABORTING"} \cup Terminal
    BY <2>2, <2>5 DEF AbortMark, SetTerminal, TaskState, Terminal
  <2> QED BY <2>4, <2>6
<1> QED BY <1>1, <1>2

LEMMA HandledGoesOn ==
    ASSUME QueueInv(tasks), NEW r \in Wire
    PROVE  GoesOn(tasks, Handled(r).tasks)
<1>1. CASE \E s \in 1 .. Shards : r = PostOf(s)
  BY <1>1, EnqueueGoesOn DEF PostOf, Handled
<1>2. CASE \E i \in TaskIds : r = AbortOf(i)
  BY <1>2, AbortGoesOn DEF AbortOf, Handled
<1> QED BY <1>1, <1>2 DEF Wire

\* A claim takes a task that is queued.
LEMMA ClaimGoesOn ==
    ASSUME NEW T, QueueInv(T), NEW o \in Owners, NEW now \in Int
    PROVE  GoesOn(T, claim_next(T, o, Models, now).tasks)
<1> DEFINE C == Candidates(T, Models)
           i == Oldest(T, C)
           u == [T[i] EXCEPT !.status = "RUNNING", !.owner = o, !.last_modified = now]
           T2 == [T EXCEPT ![i] = u]
<1>1. CASE claim_next(T, o, Models, now).tasks = T
  BY <1>1, Stays
<1>2. CASE C # {} /\ claim_next(T, o, Models, now).tasks = T2
  <2>1. C \in SUBSET Known(T) /\ T \in Snapshots
    BY QueueGives DEF Candidates
  <2>2. i \in C
    <3>1. \A j \in C : T[j].created_at >= 0
      BY <2>1 DEF QueueInv
    <3> QED BY <1>2, <2>1, <3>1, OldestIsCandidate
  <2> HIDE DEF C, i
  <2>3. i \in Known(T) /\ i \in TaskIds /\ T[i].status = "QUEUED"
    BY <2>1, <2>2 DEF C, Candidates, Known
  <2>4. T[i] \in TaskState /\ Sound(T[i])
    BY <2>3, QueueGives
  <2>5. /\ u \in TaskState /\ u.key = T[i].key /\ u.request = T[i].request
        /\ u.created_at = T[i].created_at /\ u.status = "RUNNING"
        /\ u.cancel_requested = T[i].cancel_requested
    BY <2>4 DEF TaskState, Status, Active
  <2>6. Sound(u)
    BY <2>3, <2>4, <2>5 DEF Sound
  <2> HIDE DEF u
  <2>7. /\ T2 \in Snapshots /\ T2[i] = u
        /\ \A j \in TaskIds \ {i} : T2[j] = T[j]
    BY <2>1, <2>3, <2>5 DEF Snapshots
  <2> HIDE DEF T2
  <2>8. Known(T2) = Known(T)
    BY <2>3, <2>5, <2>7, NoTaskAssumption DEF Known
  <2>9. \A j \in Known(T) :
          /\ T2[j].key = T[j].key /\ T2[j].request = T[j].request
          /\ T2[j].created_at = T[j].created_at /\ Sound(T2[j])
          /\ T[j].status \in {"ABORTING"} \cup Terminal => T2[j] = T[j]
    <3> TAKE j \in Known(T)
    <3>1. j \in TaskIds /\ Sound(T[j])
      BY QueueGives
    <3>2. "QUEUED" \notin {"ABORTING"} \cup Terminal
      BY DEF Terminal
    <3> QED BY <2>3, <2>5, <2>6, <2>7, <3>1, <3>2
  <2>10. QueueInv(T2)
    BY <2>7, <2>8, <2>9 DEF QueueInv
  <2>11. GoesOn(T, T2)
    BY <2>8, <2>9, <2>10 DEF GoesOn
  <2> QED BY <1>2, <2>11
<1>3. claim_next(T, o, Models, now).tasks = T \/ (C # {} /\ claim_next(T, o, Models, now).tasks = T2)
  BY DEF claim_next, Leave, Put
<1> QED BY <1>1, <1>2, <1>3

LEMMA PodGoesOn ==
    ASSUME QueueInv(tasks), NEW o \in Owners, Pod(o)
    PROVE  GoesOn(tasks, tasks')
<1>1. tasks \in Snapshots /\ \A i \in Known(tasks) : Sound(tasks[i])
  BY QueueGives
<1>2. CASE tasks' = claim_next(tasks, o, Models, 0).tasks
  BY <1>2, ClaimGoesOn
<1>3. ASSUME NEW i \in OwnedActive(tasks, o),
             tasks' = prepare_completion(tasks, i, o, 0, 0).tasks
      PROVE  GoesOn(tasks, tasks')
  <2>1. i \in TaskIds /\ 0 \in 0 .. MaxRows
    BY LimitsAssumption DEF OwnedActive, Known
  <2> QED BY <1>1, <1>3, <2>1, PrepareCompletionMoves, MovesGoOn
<1>4. ASSUME NEW i \in OwnedActive(tasks, o), NEW status \in Terminal,
             NEW error \in {"none", "failure"}, status = "ABORTED" => tasks[i].status = "ABORTING",
             tasks' = set_status(tasks, i, o, status, error, 0).tasks
      PROVE  GoesOn(tasks, tasks')
  <2>1. i \in TaskIds /\ error \in Errors \ {"task_timeout"}
    BY DEF OwnedActive, Known, Errors
  <2>2. AllMove(tasks, set_status(tasks, i, o, status, error, 0).tasks, 0)
    BY <1>1, <1>4, <2>1, SetStatusMoves
  <2> QED BY <1>4, <2>2, MovesGoOn
<1>5. {"DONE", "FAILED", "ABORTED"} = Terminal
  BY DEF Terminal
<1> QED BY <1>2, <1>3, <1>4, <1>5 DEF Pod

-----------------------------------------------------------------------------
(* What the operator knows survives the steps of the queue.                *)

\* A shard that was posted has a task, or it is lost.
LEMMA KnownOrLost ==
    ASSUME NEW T, NEW s \in 1 .. Shards, Posted(T, s), SameKey(T, KeyOf(s)) = {}
    PROVE  s \in lost
BY DEF Posted, SeenShard, SameKey

LEMMA PostedGoesOn ==
    ASSUME NEW T, NEW T2, GoesOn(T, T2), NEW s \in 1 .. Shards
    PROVE  /\ SeenShard(T, s) => SeenShard(T2, s)
           /\ Posted(T, s) => Posted(T2, s)
BY DEF GoesOn, Posted, SeenShard

\* A task that comes late is of a shard that is lost: for any other, the task
\* is known.
LEMMA AccountedGoesOn ==
    ASSUME NEW T, NEW T2, QueueInv(T), GoesOn(T, T2), InTurn(T), Accounted(T)
    PROVE  Accounted(T2)
<1> SUFFICES ASSUME GivesUp, NEW i \in Pending(T2)
             PROVE  \/ T2[i].status = "ABORTING"
                    \/ i \in unaborted
                    \/ op.pc = "abort" /\ i \in op.todo
                    \/ T2[i].key[1] \in lost
  BY DEF Accounted
<1>1. i \in Known(T2) /\ T2[i].status \notin Terminal
  BY DEF Pending
<1>2. CASE i \in Known(T)
  <2>1. /\ T2[i].key = T[i].key
        /\ T[i].status \in Terminal => T2[i].status = T[i].status
        /\ T[i].status = "ABORTING" => T2[i].status \in {"ABORTING"} \cup Terminal
    BY <1>2 DEF GoesOn
  <2>2. i \in Pending(T)
    BY <1>1, <1>2, <2>1 DEF Pending
  <2> QED BY <1>1, <2>1, <2>2 DEF Accounted
<1>3. CASE i \notin Known(T)
  <2>1. SameKey(T, T2[i].key) = {}
    BY <1>1, <1>3 DEF GoesOn
  <2>2. PICK s \in 1 .. Shards : T2[i].key = KeyOf(s)
    BY <1>1 DEF GoesOn, QueueInv
  <2>3. Posted(T, s)
    BY DEF InTurn
  <2>4. s \in lost
    BY <2>1, <2>2, <2>3, KnownOrLost
  <2> QED BY <2>2, <2>4, SpaceFacts
<1> QED BY <1>2, <1>3

LEMMA MemoryGoesOn ==
    ASSUME NEW T, NEW T2, QueueInv(T), GoesOn(T, T2), Typed, Memory(T)
    PROVE  QueueInv(T2) /\ Memory(T2)
<1>1. SeenTrue(T2)
  BY DEF Memory, SeenTrue, GoesOn
<1>2. InTurn(T2)
  <2>1. op.shard \in 1 .. Shards
    BY DEF Typed, Processes
  <2> QED BY <2>1, PostedGoesOn DEF Memory, InTurn
<1>3. Accounted(T2)
  BY AccountedGoesOn DEF Memory
<1>4. Succeeded(T2)
  <2>1. "DONE" \in Terminal
    BY DEF Terminal
  <2> QED BY <2>1 DEF Memory, Succeeded, GoesOn
<1> QED BY <1>1, <1>2, <1>3, <1>4 DEF Memory, GoesOn

\* Steps of the service alone.
LEMMA ServiceInv ==
    ASSUME IInv, GoesOn(tasks, tasks'), Channel', UNCHANGED <<op, seen, pokes, logs>>
    PROVE  IInv'
<1>1. QueueInv(tasks') /\ Memory(tasks')
  BY MemoryGoesOn DEF IInv
<1>2. Typed'
  BY DEF IInv, Typed, logs
<1>3. Memory(tasks)'
  BY <1>1 DEF logs, Memory, SeenTrue, InTurn, NoneLost, Accounted, Succeeded, Posted, SeenShard,
     Busy, GivesUp, CutShort
<1>4. QueueInv(tasks)'
  BY <1>1 DEF QueueInv
<1> QED BY <1>2, <1>3, <1>4 DEF IInv

LEMMA LateRequestInv == ASSUME IInv, NEW r \in late, LateRequest(r) PROVE IInv'
<1>1. r \in Wire
  BY DEF IInv, Channel
<1>2. GoesOn(tasks, tasks')
  BY <1>1, HandledGoesOn DEF IInv, LateRequest
<1>3. Channel'
  BY DEF IInv, Channel, LateRequest
<1> QED BY <1>2, <1>3, ServiceInv DEF LateRequest

LEMMA PodInv == ASSUME IInv, NEW o \in Owners, Pod(o) PROVE IInv'
<1>1. GoesOn(tasks, tasks')
  BY PodGoesOn DEF IInv
<1>2. Channel'
  BY DEF IInv, Channel, Pod
<1> QED BY <1>1, <1>2, ServiceInv DEF Pod

\* A call that fails is one the service may handle.
LEMMA UnansweredGoesOn ==
    ASSUME IInv, NEW r \in Wire, Unanswered(r)
    PROVE  GoesOn(tasks, tasks') /\ Channel'
<1>1. GoesOn(tasks, tasks')
  <2>1. CASE UNCHANGED tasks
    BY <2>1, Stays DEF IInv
  <2>2. CASE tasks' = Handled(r).tasks
    BY <2>2, HandledGoesOn DEF IInv
  <2> QED BY <2>1, <2>2 DEF Unanswered
<1>2. Channel'
  BY SensorAssumption DEF IInv, Channel, Unanswered
<1> QED BY <1>1, <1>2

-----------------------------------------------------------------------------
(* The steps of the operator, after the step of the queue they include.    *)

\* The tries of a call are counted, nothing else.
LEMMA RetryInv ==
    ASSUME Typed, Memory(tasks'), ~LastTry, Retry, UNCHANGED <<seen, pokes, logs>>
    PROVE  Typed' /\ Memory(tasks)'
<1>1. op.tries \in 0 .. HttpAttempts - 1 /\ op.tries # HttpAttempts - 1 /\ HttpAttempts \in Nat
  BY SensorAssumption DEF Typed, Processes, LastTry
<1>2. op.tries + 1 \in 0 .. HttpAttempts - 1
  BY <1>1
<1>3. /\ op'.pc = op.pc /\ op'.shard = op.shard /\ op'.failed = op.failed
      /\ op'.todo = op.todo /\ op'.after = op.after /\ op'.stops = op.stops
  BY DEF Typed, Processes, Retry
<1>4. Typed'
  BY <1>2 DEF Typed, Processes, Retry, logs
<1>5. Memory(tasks)'
  BY <1>3 DEF logs, Memory, SeenTrue, InTurn, NoneLost, Accounted, Succeeded, Posted, SeenShard,
     Busy, GivesUp, CutShort
<1> QED BY <1>4, <1>5

\* On to the next shard, once this one is posted.
LEMMA NextShardInv ==
    ASSUME Typed, NEW failed \in BOOLEAN, NextShard(failed),
           \A s \in 1 .. Shards : s <= op.shard => Posted(tasks, s)',
           ~op.failed /\ ~failed => lost' = {},
           SeenTrue(tasks)'
    PROVE  Memory(tasks)' /\ op' \in Processes
<1>1. Shards \in Nat \ {0} /\ op.shard \in 1 .. Shards /\ op.failed \in BOOLEAN
      /\ HttpAttempts \in Nat \ {0}
  BY SensorAssumption DEF Typed, Processes
<1>2. /\ op'.pc = IF op.shard = Shards THEN "decide" ELSE "post"
      /\ op'.shard = IF op.shard = Shards THEN 1 ELSE op.shard + 1
      /\ op'.failed = (op.failed \/ failed)
      /\ op'.after = "over"
  BY DEF NextShard, Typed
<1>3. op'.shard \in 1 .. Shards /\ 0 \in 0 .. HttpAttempts - 1
  BY <1>1, <1>2
<1>4. InTurn(tasks)'
  <2>1. ~Busy("status")' /\ ~GivesUp'
    BY <1>2 DEF Busy, GivesUp
  <2>2. Busy("post")' => \A s \in 1 .. Shards : s < op'.shard => s <= op.shard
    BY <1>1, <1>2 DEF Busy
  <2>3. op'.pc = "decide" => \A s \in 1 .. Shards : s <= op.shard
    BY <1>1, <1>2
  <2> QED BY <2>1, <2>2, <2>3 DEF InTurn
<1>5. NoneLost' /\ Accounted(tasks)' /\ Succeeded(tasks)'
  BY <1>1, <1>2 DEF NoneLost, Accounted, Succeeded, GivesUp
<1>6. op' \in Processes
  <2>1. op' = [op EXCEPT !.failed = op'.failed, !.tries = 0, !.todo = {}, !.after = "over",
                         !.shard = op'.shard, !.pc = op'.pc]
    BY <1>2 DEF NextShard
  <2>2. op'.failed \in BOOLEAN /\ op'.pc \in {"post", "decide"}
    BY <1>1, <1>2
  <2> QED BY <1>3, <2>1, <2>2 DEF Typed, Processes
<1> QED BY <1>4, <1>5, <1>6 DEF Memory

\* What is not known to be over is cancelled; all else is over, or lost.
LEMMA RemainingAccounts ==
    ASSUME NEW T, QueueInv(T), SeenTrue(T), \A s \in 1 .. Shards : Posted(T, s),
           NEW i \in Pending(T)
    PROVE  i \in Remaining \/ T[i].key[1] \in lost
<1>1. i \in Known(T) /\ i \in TaskIds /\ T[i].status \notin Terminal
  BY DEF Pending, Known
<1>2. PICK s \in 1 .. Shards : T[i].key = KeyOf(s)
  BY <1>1 DEF QueueInv
<1>3. CASE SeenShard(T, s)
  <2>1. seen[i] # "none"
    BY <1>1, <1>2, <1>3 DEF SeenShard, QueueInv
  <2>2. seen[i] \notin Terminal
    BY <1>1, <2>1 DEF SeenTrue
  <2> QED BY <1>1, <2>1, <2>2 DEF Remaining
<1>4. CASE s \in lost
  BY <1>2, <1>4, SpaceFacts
<1> QED BY <1>3, <1>4 DEF Posted

LEMMA StatusKnown == \A status \in Status : status # "none"
BY DEF Status, Active, Terminal

\* A request of the shard at hand may be sent, and a step of the operator
\* leaves the queue to go on by itself.
LEMMA Queues ==
    ASSUME IInv, GoesOn(tasks, tasks')
    PROVE  QueueInv(tasks') /\ Memory(tasks')
BY MemoryGoesOn DEF IInv

LEMMA PokeInv == ASSUME IInv, Poke PROVE IInv'
<1>1. Typed
  BY DEF IInv
<1>2. pokes' \in 0 .. MaxPokes
  <2>1. pokes \in Int /\ MaxPokes \in Nat /\ 0 <= pokes
    BY <1>1, SensorAssumption DEF Typed
  <2>2. {pokes + 1, MaxPokes} \in SUBSET Nat
    BY <2>1
  <2>3. pokes' \in {pokes + 1, MaxPokes} /\ pokes' <= MaxPokes
    <3> DEFINE C == {pokes + 1, MaxPokes}
    <3>1. \E x \in C : \A y \in C : x <= y
      BY <2>2, LeastNat
    <3>2. Min(C) \in C /\ \A y \in C : Min(C) <= y
      BY <3>1 DEF Min
    <3> QED BY <3>2 DEF Poke
  <2> QED BY <2>1, <2>3
<1>3. op' = [op EXCEPT !.pc = "post", !.shard = 1, !.tries = 0, !.failed = FALSE]
  BY DEF Poke
<1>4. /\ op' \in Processes
      /\ op'.pc = "post" /\ op'.shard = 1 /\ op'.failed = FALSE
  <2>1. 1 \in 1 .. Shards /\ 0 \in 0 .. HttpAttempts - 1
    BY SensorAssumption
  <2> QED BY <1>1, <1>3, <2>1 DEF Typed, Processes
<1>5. /\ seen' = NotSeen /\ lost' = {} /\ UNCHANGED <<tasks, late, faults, unaborted>>
  BY DEF Poke, service
<1>6. Typed'
  BY <1>1, <1>2, <1>4, <1>5 DEF Typed, NotSeen
<1>7. Memory(tasks)'
  <2>1. SeenTrue(tasks)'
    BY <1>5 DEF SeenTrue, NotSeen
  <2>2. InTurn(tasks)'
    BY <1>4 DEF InTurn, Busy, GivesUp
  <2>3. NoneLost' /\ Accounted(tasks)' /\ Succeeded(tasks)'
    BY <1>4, <1>5 DEF NoneLost, Accounted, Succeeded, GivesUp
  <2> QED BY <2>1, <2>2, <2>3 DEF Memory
<1>8. QueueInv(tasks)' /\ Channel'
  BY <1>5 DEF IInv, QueueInv, Channel
<1> QED BY <1>6, <1>7, <1>8 DEF IInv

\* A POST without an answer loses its shard.
LEMMA PostRaisesInv ==
    ASSUME IInv, At("post"), PostRaises, GoesOn(tasks, tasks'), Channel', UNCHANGED pokes
    PROVE  IInv'
<1>1. QueueInv(tasks') /\ Memory(tasks') /\ Typed
  BY Queues DEF IInv
<1>2. NextShard(TRUE) /\ lost' = lost \cup {op.shard} /\ UNCHANGED <<seen, unaborted>>
  BY DEF PostRaises
<1>3. op.shard \in 1 .. Shards
  BY <1>1 DEF Typed, Processes
<1>4. \A s \in 1 .. Shards : s <= op.shard => Posted(tasks, s)'
  <2> SUFFICES ASSUME NEW s \in 1 .. Shards, s <= op.shard PROVE Posted(tasks, s)'
    OBVIOUS
  <2>1. CASE s = op.shard
    BY <1>2, <2>1 DEF Posted
  <2>2. CASE s < op.shard
    <3>1. Posted(tasks', s)
      BY <1>1, <2>2 DEF Memory, InTurn, Busy, At
    <3> QED BY <1>2, <3>1 DEF Posted, SeenShard
  <2> QED BY <1>3, <2>1, <2>2
<1>5. SeenTrue(tasks)'
  BY <1>1, <1>2 DEF Memory, SeenTrue
<1>6. Memory(tasks)' /\ op' \in Processes
  BY <1>1, <1>2, <1>4, <1>5, NextShardInv
<1>7. Typed'
  BY <1>1, <1>2, <1>3, <1>6 DEF Typed
<1>8. QueueInv(tasks)'
  BY <1>1 DEF QueueInv
<1> QED BY <1>6, <1>7, <1>8 DEF IInv

\* The answer of POST is the task of the shard.
LEMMA AnswerInv ==
    ASSUME IInv, At("post"), GoesOn(tasks, tasks'), Channel', UNCHANGED <<pokes, logs>>,
           NEW i \in Known(tasks'), tasks'[i].key = KeyOf(op.shard),
           seen' = [seen EXCEPT ![i] = tasks'[i].status],
           op' = [op EXCEPT !.pc = "status", !.tries = 0]
    PROVE  IInv'
<1>1. QueueInv(tasks') /\ Memory(tasks') /\ Typed
  BY Queues DEF IInv
<1>2. i \in TaskIds /\ tasks'[i].status \in Status
  BY <1>1, QueueGives DEF TaskState
<1>3. /\ op' \in Processes /\ op'.pc = "status"
      /\ op'.shard = op.shard /\ op'.failed = op.failed
  <2>1. 0 \in 0 .. HttpAttempts - 1
    BY SensorAssumption
  <2> QED BY <1>1, <2>1 DEF Typed, Processes
<1>4. seen' \in [TaskIds -> Status \cup {"none"}] /\ seen'[i] = tasks'[i].status
      /\ \A j \in TaskIds : j # i => seen'[j] = seen[j]
  BY <1>1, <1>2 DEF Typed
<1>5. Typed'
  BY <1>1, <1>3, <1>4 DEF Typed, logs
<1>6. SeenTrue(tasks)'
  BY <1>1, <1>4 DEF Memory, SeenTrue
<1>7. \A s \in 1 .. Shards : SeenShard(tasks', s) => SeenShard(tasks, s)'
  BY <1>2, <1>4, StatusKnown DEF SeenShard, Known
<1>8. InTurn(tasks)'
  <2>1. SeenShard(tasks, op.shard)'
    BY <1>2, <1>3, <1>4, StatusKnown DEF SeenShard
  <2>2. \A s \in 1 .. Shards : s < op.shard => Posted(tasks', s)
    BY <1>1 DEF Memory, InTurn, Busy, At
  <2>3. \A s \in 1 .. Shards : s < op'.shard => Posted(tasks, s)'
    BY <1>3, <1>7, <2>2 DEF Posted, logs
  <2> QED BY <1>3, <2>1, <2>3 DEF InTurn, GivesUp
<1>9. NoneLost' /\ Accounted(tasks)' /\ Succeeded(tasks)'
  BY <1>1, <1>3 DEF Memory, NoneLost, Accounted, Succeeded, GivesUp, At, logs
<1>10. QueueInv(tasks)'
  BY <1>1 DEF QueueInv
<1> QED BY <1>5, <1>6, <1>8, <1>9, <1>10 DEF IInv, Memory

LEMMA PostInv == ASSUME IInv, Post PROVE IInv'
<1> DEFINE r == PostOf(op.shard)
           c == Handled(r)
           i == c.result.value
<1>1. Typed /\ QueueInv(tasks) /\ Channel /\ At("post") /\ UNCHANGED pokes
  BY DEF IInv, Post
<1>2. op.shard \in 1 .. Shards /\ r \in Wire
  BY <1>1 DEF Typed, Processes, Wire
<1>3. c = enqueue(tasks, 1 + Cardinality(Known(tasks)), KeyOf(op.shard), RequestOf[op.shard], 0)
  BY DEF Handled, PostOf
<1>4. /\ GoesOn(tasks, c.tasks)
      /\ c.result.kind = "Value" => i \in Known(c.tasks) /\ c.tasks[i].key = KeyOf(op.shard)
  BY <1>1, <1>2, <1>3, EnqueueGoesOn
<1> HIDE DEF c, r
<1>5. CASE /\ c.result.kind = "Value"
           /\ tasks' = c.tasks
           /\ seen' = [seen EXCEPT ![i] = tasks'[i].status]
           /\ op' = [op EXCEPT !.pc = "status", !.tries = 0]
           /\ UNCHANGED <<late, faults, logs>>
  <2>1. Channel'
    BY <1>1, <1>5 DEF Channel
  <2> QED BY <1>1, <1>4, <1>5, <2>1, AnswerInv
<1>6. CASE PostRaises /\ UNCHANGED service
  <2>1. UNCHANGED tasks /\ Channel'
    BY <1>1, <1>6 DEF Channel, service
  <2>2. GoesOn(tasks, tasks')
    BY <1>1, <2>1, Stays
  <2> QED BY <1>1, <1>6, <2>1, <2>2, PostRaisesInv
<1>7. CASE Unanswered(r) /\ ~LastTry /\ Retry /\ UNCHANGED <<seen, logs>>
  <2>1. GoesOn(tasks, tasks') /\ Channel'
    BY <1>2, <1>7, UnansweredGoesOn
  <2>2. QueueInv(tasks') /\ Memory(tasks')
    BY <2>1, Queues
  <2>3. Typed' /\ Memory(tasks)'
    BY <1>1, <1>7, <2>2, RetryInv
  <2> QED BY <2>1, <2>2, <2>3 DEF IInv, QueueInv
<1>8. CASE Unanswered(r) /\ LastTry /\ PostRaises
  <2>1. GoesOn(tasks, tasks') /\ Channel'
    BY <1>2, <1>8, UnansweredGoesOn
  <2> QED BY <1>1, <1>8, <2>1, PostRaisesInv
<1> QED BY <1>5, <1>6, <1>7, <1>8 DEF Post, r, c

\* The status of the shard's own task, which a POST has returned.
LEMMA StatusReadInv ==
    ASSUME IInv, At("status"), UNCHANGED <<service, pokes, logs>>,
           seen' = [seen EXCEPT ![Current] = tasks[Current].status],
           NEW failed \in BOOLEAN, NextShard(failed)
    PROVE  IInv'
<1>1. QueueInv(tasks) /\ Memory(tasks) /\ Typed /\ Channel
  BY DEF IInv
<1> DEFINE i == Current
<1>2. i \in SameKey(tasks, KeyOf(op.shard))
  <2>1. SameKey(tasks, KeyOf(op.shard)) # {}
    BY <1>1 DEF Memory, InTurn, Busy, At, SeenShard, SameKey
  <2> QED BY <2>1 DEF Current
<1>3. seen' = [seen EXCEPT ![i] = tasks[i].status]
  OBVIOUS
<1> HIDE DEF i
<1>4. /\ i \in Known(tasks) /\ i \in TaskIds /\ tasks[i].key = KeyOf(op.shard)
      /\ tasks[i].status \in Status /\ tasks[i].status # "none"
  BY <1>1, <1>2, QueueGives, StatusKnown DEF SameKey, TaskState
<1>5. /\ seen' \in [TaskIds -> Status \cup {"none"}] /\ seen'[i] = tasks[i].status
      /\ \A j \in TaskIds : j # i => seen'[j] = seen[j]
  BY <1>1, <1>3, <1>4 DEF Typed
<1>6. UNCHANGED <<tasks, late, faults, unaborted, lost>>
  BY DEF service, logs
<1>7. SeenTrue(tasks)'
  BY <1>1, <1>4, <1>5, <1>6 DEF Memory, SeenTrue
<1>8. \A s \in 1 .. Shards : s <= op.shard => Posted(tasks, s)'
  <2> SUFFICES ASSUME NEW s \in 1 .. Shards, s <= op.shard PROVE Posted(tasks, s)'
    OBVIOUS
  <2>1. CASE s = op.shard
    BY <1>4, <1>5, <1>6, <2>1 DEF Posted, SeenShard
  <2>2. CASE s < op.shard
    <3>1. Posted(tasks, s)
      BY <1>1, <2>2 DEF Memory, InTurn, Busy, At
    <3>2. SeenShard(tasks, s) => SeenShard(tasks, s)'
      BY <1>4, <1>5, <1>6 DEF SeenShard, Known
    <3> QED BY <1>6, <3>1, <3>2 DEF Posted
  <2>3. op.shard \in 1 .. Shards
    BY <1>1 DEF Typed, Processes
  <2> QED BY <2>1, <2>2, <2>3
<1>9. ~op.failed /\ ~failed => lost' = {}
  BY <1>1, <1>6 DEF Memory, NoneLost, At
<1>10. Memory(tasks)' /\ op' \in Processes
  BY <1>1, <1>7, <1>8, <1>9, NextShardInv
<1>11. Typed' /\ Channel' /\ QueueInv(tasks)'
  BY <1>1, <1>5, <1>6, <1>10 DEF Typed, Channel, QueueInv
<1> QED BY <1>10, <1>11 DEF IInv

\* An execution goes on after an error, with the shards it has posted.
LEMMA ShardDoneInv ==
    ASSUME IInv, Busy("status"), NextShard(TRUE),
           UNCHANGED <<tasks, seen, pokes, logs>>, Channel'
    PROVE  IInv'
<1>1. QueueInv(tasks) /\ Memory(tasks) /\ Typed
  BY DEF IInv
<1>2. op.shard \in 1 .. Shards
  BY <1>1 DEF Typed, Processes
<1>3. \A s \in 1 .. Shards : s <= op.shard => Posted(tasks, s)
  BY <1>1, <1>2 DEF Memory, InTurn, Posted
<1>4. \A s \in 1 .. Shards : s <= op.shard => Posted(tasks, s)'
  BY <1>3 DEF Posted, SeenShard, logs
<1>5. SeenTrue(tasks)'
  BY <1>1 DEF Memory, SeenTrue
<1>6. Memory(tasks)' /\ op' \in Processes
  BY <1>1, <1>4, <1>5, NextShardInv
<1>7. Typed' /\ QueueInv(tasks)'
  BY <1>1, <1>6 DEF Typed, QueueInv, logs
<1> QED BY <1>6, <1>7 DEF IInv

LEMMA TaskStatusInv == ASSUME IInv, TaskStatus PROVE IInv'
<1>1. Typed /\ QueueInv(tasks) /\ Channel /\ At("status") /\ UNCHANGED <<pokes, logs>>
  BY DEF IInv, TaskStatus
<1>2. CASE /\ seen' = [seen EXCEPT ![Current] = tasks[Current].status]
           /\ NextShard(tasks[Current].status \in {"FAILED", "ABORTED", "ABORTING"})
           /\ UNCHANGED service
  <2> DEFINE failed == tasks[Current].status \in {"FAILED", "ABORTED", "ABORTING"}
  <2>1. failed \in BOOLEAN /\ NextShard(failed)
    BY <1>2
  <2> HIDE DEF failed
  <2> QED BY <1>1, <1>2, <2>1, StatusReadInv
<1>3. CASE /\ faults < MaxFaults
           /\ faults' = faults + 1
           /\ IF LastTry THEN NextShard(TRUE) ELSE Retry
           /\ UNCHANGED <<tasks, late, seen>>
  <2>1. Channel'
    BY <1>1, <1>3, SensorAssumption DEF Channel
  <2>2. CASE LastTry
    <3>1. Busy("status") /\ NextShard(TRUE)
      BY <1>1, <1>3, <2>2 DEF At, Busy
    <3> QED BY <1>1, <1>3, <2>1, <3>1, ShardDoneInv
  <2>3. CASE ~LastTry
    <3>1. Memory(tasks')
      BY <1>3 DEF IInv
    <3>2. Typed' /\ Memory(tasks)'
      BY <1>1, <1>3, <2>3, <3>1, RetryInv
    <3> QED BY <1>1, <1>3, <2>1, <3>2 DEF IInv, QueueInv
  <2> QED BY <2>2, <2>3
<1> QED BY <1>2, <1>3 DEF TaskStatus

-----------------------------------------------------------------------------
(* The ends of an execution.                                               *)

\* Cancelling starts with what is not over; for good, once all is posted.
LEMMA AbortingInv ==
    ASSUME IInv, UNCHANGED <<tasks, seen, pokes, logs>>, Channel',
           NEW after \in {"over", "post", "status"}, NEW stops \in SUBSET Stops,
           op' = [op EXCEPT !.pc = "abort", !.tries = 0, !.todo = Remaining,
                            !.after = after, !.stops = stops],
           after = "over" => At("decide") \/ "task_timeout" \in Stops \ stops,
           after # "over" => At(after)
    PROVE  IInv'
<1>1. QueueInv(tasks) /\ Memory(tasks) /\ Typed
  BY DEF IInv
<1>2. /\ op' \in Processes
      /\ op'.pc = "abort" /\ op'.todo = Remaining /\ op'.after = after /\ op'.stops = stops
      /\ op'.shard = op.shard
  <2>1. 0 \in 0 .. HttpAttempts - 1 /\ Remaining \in SUBSET TaskIds
    BY SensorAssumption DEF Remaining
  <2> QED BY <1>1, <2>1 DEF Typed, Processes
<1>3. Typed' /\ QueueInv(tasks)' /\ SeenTrue(tasks)'
  BY <1>1, <1>2 DEF Typed, QueueInv, Memory, SeenTrue, logs
<1>4. \A s \in 1 .. Shards : Posted(tasks, s) <=> Posted(tasks, s)'
  BY DEF Posted, SeenShard, logs
<1>5. GivesUp' => At("decide")
  BY <1>2 DEF GivesUp, CutShort
<1>6. At("decide") => \A s \in 1 .. Shards : Posted(tasks, s)
  BY <1>1 DEF Memory, InTurn, At
<1>7. InTurn(tasks)'
  <2>1. Busy("post")' \/ Busy("status")' => \A s \in 1 .. Shards : s < op.shard => Posted(tasks, s)
    BY <1>1, <1>2 DEF Memory, InTurn, Busy, At
  <2>2. Busy("status")' => SeenShard(tasks, op.shard)
    BY <1>1, <1>2 DEF Memory, InTurn, Busy, At
  <2>3. SeenShard(tasks, op.shard) => SeenShard(tasks, op.shard)'
    BY <1>2 DEF SeenShard
  <2>4. op'.pc # "decide"
    BY <1>2
  <2> QED BY <1>2, <1>4, <1>5, <1>6, <2>1, <2>2, <2>3, <2>4 DEF InTurn
<1>8. Accounted(tasks)'
  <2> SUFFICES ASSUME GivesUp', NEW i \in Pending(tasks)
               PROVE  (op'.pc = "abort" /\ i \in op'.todo) \/ tasks[i].key[1] \in lost
    BY DEF Accounted, Pending, Known, logs
  <2>1. i \in Remaining \/ tasks[i].key[1] \in lost
    BY <1>1, <1>5, <1>6, RemainingAccounts DEF Memory
  <2> QED BY <1>2, <2>1
<1>9. NoneLost' /\ Succeeded(tasks)'
  BY <1>2 DEF NoneLost, Succeeded
<1> QED BY <1>3, <1>7, <1>8, <1>9 DEF IInv, Memory

\* Where an execution ends there is nothing to account for.
LEMMA RestInv ==
    ASSUME IInv, NEW pc \in {"scheduled", "killed"}, op' = [op EXCEPT !.pc = pc],
           seen' \in {seen, NotSeen}, UNCHANGED <<tasks, pokes, logs>>, Channel'
    PROVE  IInv'
<1>1. QueueInv(tasks) /\ Memory(tasks) /\ Typed
  BY DEF IInv
<1>2. op' \in Processes /\ op'.pc = pc
  BY <1>1 DEF Typed, Processes
<1>3. Typed' /\ QueueInv(tasks)'
  BY <1>1, <1>2 DEF Typed, QueueInv, NotSeen, logs
<1>4. SeenTrue(tasks)'
  BY <1>1 DEF Memory, SeenTrue, NotSeen
<1>5. InTurn(tasks)' /\ NoneLost' /\ Accounted(tasks)' /\ Succeeded(tasks)'
  BY <1>2 DEF InTurn, NoneLost, Accounted, Succeeded, Busy, GivesUp
<1> QED BY <1>3, <1>4, <1>5 DEF IInv, Memory

\* Without an error every shard has answered, and a task seen DONE stays so.
LEMMA SuccessInv ==
    ASSUME IInv, At("decide"), ~op.failed, Complete, op' = [op EXCEPT !.pc = "success"],
           UNCHANGED <<service, seen, pokes, logs>>
    PROVE  IInv'
<1>1. QueueInv(tasks) /\ Memory(tasks) /\ Typed
  BY DEF IInv
<1>2. op' \in Processes /\ op'.pc = "success"
  BY <1>1 DEF Typed, Processes
<1>3. Typed' /\ QueueInv(tasks)' /\ Channel' /\ SeenTrue(tasks)'
  BY <1>1, <1>2 DEF IInv, Typed, QueueInv, Memory, SeenTrue, Channel, service, logs
<1>4. \A s \in 1 .. Shards : SeenShard(tasks, s)
  BY <1>1 DEF Memory, InTurn, NoneLost, Posted, At
<1>5. \A i \in Known(tasks) : seen[i] # "none" => tasks[i].status = "DONE"
  BY <1>1 DEF Memory, SeenTrue, Complete, Terminal, Known
<1>6. Succeeded(tasks)'
  BY <1>4, <1>5 DEF Succeeded, SeenShard, service, Known
<1>7. InTurn(tasks)' /\ NoneLost' /\ Accounted(tasks)'
  BY <1>2 DEF InTurn, NoneLost, Accounted, Busy, GivesUp
<1> QED BY <1>3, <1>6, <1>7 DEF IInv, Memory

LEMMA DecideInv == ASSUME IInv, Decide PROVE IInv'
<1>1. At("decide") /\ UNCHANGED <<service, pokes, logs>> /\ Typed
  BY DEF IInv, Decide
<1>2. UNCHANGED <<tasks, pokes, logs>> /\ Channel'
  BY <1>1 DEF IInv, Channel, service
<1>3. CASE AbortRemaining("over") /\ UNCHANGED seen
  <2>1. op.stops \in SUBSET Stops
    BY <1>1 DEF Typed, Processes
  <2>2. op' = [op EXCEPT !.pc = "abort", !.tries = 0, !.todo = Remaining,
                         !.after = "over", !.stops = op.stops]
    BY <1>1, <1>3 DEF AbortRemaining, Typed, Processes
  <2> QED BY <1>1, <1>2, <1>3, <2>1, <2>2, AbortingInv
<1>4. CASE ~op.failed /\ Complete /\ op' = [op EXCEPT !.pc = "success"] /\ UNCHANGED seen
  BY <1>1, <1>4, SuccessInv
<1>5. CASE Reschedule
  BY <1>2, <1>5, RestInv DEF Reschedule
<1> QED BY <1>3, <1>4, <1>5 DEF Decide

\* A task leaves the list of those to cancel told to stop, over, or logged.
LEMMA AbortedInv ==
    ASSUME IInv, At("abort"), GoesOn(tasks, tasks'), Channel',
           UNCHANGED <<seen, pokes, lost>>, NEW i \in op.todo, NEW failed, Aborted(i, failed),
           ~failed => tasks'[i].status \in {"ABORTING"} \cup Terminal
    PROVE  IInv'
<1>1. QueueInv(tasks') /\ Memory(tasks') /\ Typed
  BY Queues DEF IInv
<1>2. i \in TaskIds
  BY <1>1 DEF Typed, Processes
<1>3. op' = [op EXCEPT !.todo = @ \ {i}, !.tries = 0]
  BY DEF Aborted
<1>4. unaborted' = IF failed THEN unaborted \cup {i} ELSE unaborted
  BY DEF Aborted
<1>5. /\ op' \in Processes /\ op'.pc = "abort" /\ op'.shard = op.shard /\ op'.after = op.after
      /\ op'.stops = op.stops /\ op'.todo = op.todo \ {i}
  <2>1. 0 \in 0 .. HttpAttempts - 1
    BY SensorAssumption
  <2> QED BY <1>1, <1>3, <2>1 DEF Typed, Processes, At
<1>6. Typed' /\ QueueInv(tasks)' /\ SeenTrue(tasks)'
  BY <1>1, <1>2, <1>4, <1>5 DEF Typed, QueueInv, Memory, SeenTrue
<1>7. InTurn(tasks)'
  BY <1>1, <1>5 DEF Memory, InTurn, Busy, GivesUp, CutShort, Posted, SeenShard, At
<1>8. Accounted(tasks)'
  <2> SUFFICES ASSUME GivesUp', NEW j \in Pending(tasks')
               PROVE  \/ tasks'[j].status = "ABORTING"
                      \/ j \in unaborted'
                      \/ op'.pc = "abort" /\ j \in op'.todo
                      \/ tasks'[j].key[1] \in lost'
    BY DEF Accounted, Pending, Known
  <2>1. GivesUp
    BY <1>5 DEF GivesUp, CutShort, At
  <2>2. \/ tasks'[j].status = "ABORTING" \/ j \in unaborted \/ j \in op.todo
        \/ tasks'[j].key[1] \in lost
    BY <1>1, <2>1 DEF Memory, Accounted
  <2>3. j = i => j \in unaborted' \/ tasks'[j].status = "ABORTING"
    BY <1>4 DEF Pending
  <2> QED BY <1>4, <1>5, <2>2, <2>3
<1>9. NoneLost' /\ Succeeded(tasks)'
  BY <1>5 DEF NoneLost, Succeeded
<1> QED BY <1>6, <1>7, <1>8, <1>9 DEF IInv, Memory

LEMMA AbortInv == ASSUME IInv, Abort PROVE IInv'
<1> DEFINE i == Min(op.todo)
           change == request_abort(tasks, i, 0)
<1>1. Typed /\ QueueInv(tasks) /\ Channel /\ At("abort") /\ op.todo # {}
      /\ UNCHANGED <<seen, pokes, lost>>
  BY DEF IInv, Abort
<1>2. i \in op.todo /\ i \in TaskIds
  <2>1. op.todo \in SUBSET TaskIds /\ op.todo \in SUBSET Nat
    BY <1>1, SpaceFacts DEF Typed, Processes
  <2> QED BY <1>1, <2>1, MinChosen
<1>3. \/ /\ tasks' = change.tasks
         /\ Aborted(i, change.result.kind # "Value")
         /\ UNCHANGED <<late, faults>>
      \/ Unanswered(AbortOf(i)) /\ LastTry /\ Aborted(i, TRUE)
      \/ Unanswered(AbortOf(i)) /\ ~LastTry /\ Retry /\ UNCHANGED unaborted
  BY DEF Abort
<1> HIDE DEF i
<1>4. AbortOf(i) \in Wire
  BY <1>2 DEF Wire
<1>5. /\ GoesOn(tasks, change.tasks)
      /\ change.result.kind = "Value" => change.tasks[i].status \in {"ABORTING"} \cup Terminal
  BY <1>1, <1>2, AbortGoesOn
<1> HIDE DEF change
<1>6. CASE /\ tasks' = change.tasks
           /\ Aborted(i, change.result.kind # "Value")
           /\ UNCHANGED <<late, faults>>
  <2>1. Channel'
    BY <1>1, <1>6 DEF Channel
  <2>2. ~(change.result.kind # "Value") => tasks'[i].status \in {"ABORTING"} \cup Terminal
    BY <1>5, <1>6
  <2> QED BY <1>1, <1>2, <1>5, <1>6, <2>1, <2>2, AbortedInv
<1>7. CASE Unanswered(AbortOf(i)) /\ LastTry /\ Aborted(i, TRUE)
  <2>1. GoesOn(tasks, tasks') /\ Channel'
    BY <1>4, <1>7, UnansweredGoesOn
  <2> QED BY <1>1, <1>2, <1>7, <2>1, AbortedInv
<1>8. CASE Unanswered(AbortOf(i)) /\ ~LastTry /\ Retry /\ UNCHANGED unaborted
  <2>1. GoesOn(tasks, tasks') /\ Channel'
    BY <1>4, <1>8, UnansweredGoesOn
  <2>2. QueueInv(tasks') /\ Memory(tasks') /\ UNCHANGED logs
    BY <1>1, <1>8, <2>1, Queues DEF logs
  <2>3. Typed' /\ Memory(tasks)'
    BY <1>1, <1>8, <2>2, RetryInv
  <2> QED BY <2>1, <2>2, <2>3 DEF IInv, QueueInv
<1> QED BY <1>3, <1>6, <1>7, <1>8

\* The end of a cancellation, which fails the operator or goes on with poke.
LEMMA AbortEndsInv == ASSUME IInv, AbortEnds PROVE IInv'
<1>1. /\ Typed /\ QueueInv(tasks) /\ Memory(tasks) /\ At("abort") /\ op.todo = {}
      /\ UNCHANGED <<tasks, late, faults, seen, pokes, unaborted>>
  BY DEF IInv, AbortEnds, service
<1>2. Channel'
  BY <1>1 DEF IInv, Channel
<1>3. CASE op.after = "over" /\ op' = [op EXCEPT !.pc = "failed"] /\ UNCHANGED lost
  <2>1. /\ op' \in Processes /\ op'.pc = "failed" /\ op'.stops = op.stops
        /\ op'.after = op.after
    BY <1>1, <1>3 DEF Typed, Processes
  <2>2. Typed' /\ QueueInv(tasks)' /\ SeenTrue(tasks)'
    BY <1>1, <1>3, <2>1 DEF Typed, QueueInv, Memory, SeenTrue
  <2>3. GivesUp' => GivesUp
    BY <1>1, <1>3, <2>1 DEF GivesUp, CutShort, At
  <2>4. InTurn(tasks)'
    BY <1>1, <1>3, <2>1, <2>3 DEF Memory, InTurn, Busy, Posted, SeenShard
  <2>5. Accounted(tasks)'
    BY <1>1, <1>3, <2>3 DEF Memory, Accounted, Pending, Known
  <2>6. NoneLost' /\ Succeeded(tasks)'
    BY <2>1 DEF NoneLost, Succeeded
  <2> QED BY <1>2, <2>2, <2>4, <2>5, <2>6 DEF IInv, Memory
<1>4. CASE op.after = "post" /\ NextShard(TRUE) /\ lost' = lost \cup {op.shard}
  <2>1. op.shard \in 1 .. Shards
    BY <1>1 DEF Typed, Processes
  <2>2. \A s \in 1 .. Shards : s <= op.shard => Posted(tasks, s)'
    <3> SUFFICES ASSUME NEW s \in 1 .. Shards, s <= op.shard PROVE Posted(tasks, s)'
      OBVIOUS
    <3>1. CASE s = op.shard
      BY <1>4, <3>1 DEF Posted
    <3>2. CASE s < op.shard
      <4>1. Posted(tasks, s)
        BY <1>1, <1>4, <3>2 DEF Memory, InTurn, Busy, At
      <4> QED BY <1>1, <1>4, <4>1 DEF Posted, SeenShard
    <3> QED BY <2>1, <3>1, <3>2
  <2>3. SeenTrue(tasks)'
    BY <1>1 DEF Memory, SeenTrue
  <2>4. Memory(tasks)' /\ op' \in Processes
    BY <1>1, <1>4, <2>2, <2>3, NextShardInv
  <2>5. Typed' /\ QueueInv(tasks)'
    BY <1>1, <1>4, <2>1, <2>4 DEF Typed, QueueInv
  <2> QED BY <1>2, <2>4, <2>5 DEF IInv
<1>5. CASE op.after = "status" /\ NextShard(TRUE) /\ UNCHANGED lost
  <2>1. Busy("status") /\ UNCHANGED logs
    BY <1>1, <1>5 DEF Busy, At, logs
  <2> QED BY <1>1, <1>2, <1>5, <2>1, ShardDoneInv
<1> QED BY <1>3, <1>4, <1>5 DEF AbortEnds

-----------------------------------------------------------------------------
(* Airflow stops an execution.                                             *)

\* What has been sent goes its way.
LEMMA StopChannel ==
    ASSUME IInv, NEW cause, NEW stages, Stop(cause, stages)
    PROVE  Channel' /\ UNCHANGED <<tasks, seen, pokes, logs>>
<1>1. Typed /\ Channel
  BY DEF IInv
<1>2. Sent \subseteq Wire
  <2>1. CASE At("post")
    <3>1. op.shard \in 1 .. Shards /\ Sent = {PostOf(op.shard)}
      BY <1>1, <2>1 DEF Typed, Processes, Sent, At
    <3> QED BY <3>1 DEF Wire
  <2>2. CASE ~At("post") /\ At("abort") /\ op.todo # {}
    <3> DEFINE i == Min(op.todo)
    <3>1. op.todo \in SUBSET TaskIds /\ op.todo \in SUBSET Nat
      BY <1>1, SpaceFacts DEF Typed, Processes
    <3>2. i \in TaskIds
      BY <2>2, <3>1, MinChosen
    <3>3. Sent = {AbortOf(i)}
      BY <2>2 DEF Sent, At
    <3> HIDE DEF i
    <3> QED BY <3>2, <3>3 DEF Wire
  <2>3. CASE ~At("post") /\ ~(At("abort") /\ op.todo # {})
    BY <2>3 DEF Sent
  <2> QED BY <2>1, <2>2, <2>3
<1> QED BY <1>1, <1>2 DEF Channel, Stop

LEMMA StopsInv == ASSUME IInv, Sigterm \/ AirflowTaskTimeout \/ Sigkill PROVE IInv'
<1>1. Channel' /\ UNCHANGED <<tasks, seen, pokes, logs>>
  BY StopChannel DEF Sigterm, AirflowTaskTimeout, Sigkill
<1>2. /\ Typed /\ QueueInv(tasks) /\ Memory(tasks)
      /\ op.stops \in SUBSET Stops
      /\ op.pc \in {"scheduled", "post", "status", "decide", "abort",
                    "success", "failed", "killed"}
  BY DEF IInv, Typed, Processes
<1>3. CASE Sigterm
  <2> DEFINE after == IF At("decide") THEN "over" ELSE op.pc
             stops == op.stops \ {"sigterm"}
  <2>1. op.pc \in {"post", "status", "decide"} /\ stops \in SUBSET Stops
    BY <1>2, <1>3 DEF Sigterm, Stop
  <2>2. /\ after \in {"over", "post", "status"}
        /\ after = "over" => At("decide")
        /\ after # "over" => At(after)
    BY <2>1 DEF At
  <2>3. op' = [op EXCEPT !.pc = "abort", !.tries = 0, !.todo = Remaining,
                         !.after = after, !.stops = stops]
    BY <1>3 DEF Sigterm, StopWith
  <2> HIDE DEF after, stops
  <2> QED BY <1>1, <2>1, <2>2, <2>3, AbortingInv
<1>4. CASE AirflowTaskTimeout
  <2> DEFINE stops == op.stops \ {"task_timeout"}
  <2>1. stops \in SUBSET Stops /\ "task_timeout" \in Stops \ stops
    BY <1>2, <1>4 DEF AirflowTaskTimeout, Stop
  <2>2. CASE At("abort") /\ op.after = "over"
    <3>1. op' = [op EXCEPT !.pc = "failed", !.stops = stops]
      BY <1>4, <2>2 DEF AirflowTaskTimeout
    <3> HIDE DEF stops
    <3>2. /\ op' \in Processes /\ op'.pc = "failed" /\ op'.stops = stops
      BY <1>2, <2>1, <3>1 DEF Typed, Processes
    <3>3. Typed' /\ QueueInv(tasks)' /\ SeenTrue(tasks)'
      BY <1>1, <1>2, <3>2 DEF Typed, QueueInv, Memory, SeenTrue, logs
    <3>4. InTurn(tasks)' /\ NoneLost' /\ Accounted(tasks)' /\ Succeeded(tasks)'
      BY <2>1, <3>2 DEF InTurn, NoneLost, Accounted, Succeeded, Busy, GivesUp, CutShort
    <3> QED BY <1>1, <3>3, <3>4 DEF IInv, Memory
  <2>3. CASE ~(At("abort") /\ op.after = "over")
    <3>1. op' = [op EXCEPT !.pc = "abort", !.tries = 0, !.todo = Remaining,
                           !.after = "over", !.stops = stops]
      BY <1>4, <2>3 DEF AirflowTaskTimeout, StopWith
    <3> HIDE DEF stops
    <3> QED BY <1>1, <2>1, <3>1, AbortingInv
  <2> QED BY <2>2, <2>3
<1>5. CASE Sigkill
  <2>1. op' = [op EXCEPT !.pc = "killed"] /\ seen' \in {seen, NotSeen}
    BY <1>1, <1>5 DEF Sigkill
  <2> QED BY <1>1, <2>1, RestInv
<1> QED BY <1>3, <1>4, <1>5

-----------------------------------------------------------------------------
LEMMA InitInv == Init => IInv
<1> SUFFICES ASSUME Init PROVE IInv
  OBVIOUS
<1>1. tasks \in Snapshots /\ Known(tasks) = {}
  BY DEF Init, Snapshots, Known
<1>2. QueueInv(tasks)
  <2>1. 0 \in 0 .. Shards /\ 1 .. 0 = {}
    BY SpaceFacts
  <2> QED BY <1>1, <2>1 DEF QueueInv
<1>3. op.pc = "scheduled" /\ op \in Processes
  <2>1. 1 \in 1 .. Shards /\ 0 \in 0 .. HttpAttempts - 1
    BY SensorAssumption
  <2> QED BY <2>1 DEF Init, Processes
<1>4. Channel /\ Typed
  BY <1>3, SensorAssumption DEF Init, Channel, Typed, NotSeen
<1>5. Memory(tasks)
  BY <1>3 DEF Init, NotSeen, Memory, SeenTrue, InTurn, NoneLost, Accounted, Succeeded, Busy, GivesUp
<1> QED BY <1>2, <1>4, <1>5 DEF IInv

LEMMA NextInv == ASSUME IInv, [Next]_vars PROVE IInv'
<1>1. CASE Poke
  BY <1>1, PokeInv
<1>2. CASE Post
  BY <1>2, PostInv
<1>3. CASE TaskStatus
  BY <1>3, TaskStatusInv
<1>4. CASE Decide
  BY <1>4, DecideInv
<1>5. CASE Abort
  BY <1>5, AbortInv
<1>6. CASE AbortEnds
  BY <1>6, AbortEndsInv
<1>7. CASE Sigterm \/ AirflowTaskTimeout \/ Sigkill
  BY <1>7, StopsInv
<1>8. CASE \E r \in late : LateRequest(r)
  BY <1>8, LateRequestInv
<1>9. CASE \E o \in Owners : Pod(o)
  BY <1>9, PodInv
<1>10. CASE UNCHANGED vars
  <2>1. UNCHANGED <<op, seen, pokes, logs>> /\ Channel'
    BY <1>10 DEF IInv, Channel, vars, logs
  <2>2. GoesOn(tasks, tasks')
    BY <1>10, Stays DEF IInv, vars
  <2> QED BY <2>1, <2>2, ServiceInv
<1> QED BY <1>1, <1>2, <1>3, <1>4, <1>5, <1>6, <1>7, <1>8, <1>9, <1>10 DEF Next, Operator

LEMMA SpecInv == Spec => []IInv
BY InitInv, NextInv, PTL DEF Spec

-----------------------------------------------------------------------------
(* The results.                                                            *)

\* Types are kept, whatever fails, comes late or is stopped; an identifier is
\* always left for the next shard.
THEOREM TypeCorrect == Spec => []TypeOK
<1>1. IInv => TypeOK
  BY DEF IInv, QueueInv, Snapshots, Channel, Wire, Typed, Processes, TypeOK
<1> QED BY <1>1, SpecInv, PTL

\* No shard is started twice, however often its POST is repeated: by a retry,
\* by the next execution, or by a request that arrives after its caller gave up
\* (the uuid5 key of _requests, enqueue).
THEOREM ShardsStartOnce == Spec => []OneTaskPerShard
<1>1. IInv => OneTaskPerShard
  <2> SUFFICES ASSUME QueueInv(tasks), NEW i \in Known(tasks), NEW j \in Known(tasks),
                      tasks[i].request = tasks[j].request
               PROVE  i = j
    BY DEF IInv, OneTaskPerShard
  <2>1. PICK s \in 1 .. Shards : tasks[i].key = KeyOf(s) /\ tasks[i].request = RequestOf[s]
    BY DEF QueueInv
  <2>2. PICK t \in 1 .. Shards : tasks[j].key = KeyOf(t) /\ tasks[j].request = RequestOf[t]
    BY DEF QueueInv
  <2>3. s = t
    BY <2>1, <2>2, ShardsAssumption
  <2> QED BY <2>1, <2>2, <2>3 DEF QueueInv
<1> QED BY <1>1, SpecInv, PTL

\* The operator, which looks at its tasks one after the other and forgets them
\* between executions, succeeds only when all shards are DONE at once (poke).
THEOREM SuccessMeansDone == Spec => []SuccessIsComplete
<1>1. IInv => SuccessIsComplete
  BY DEF IInv, Memory, Succeeded, SuccessIsComplete, At
<1> QED BY <1>1, SpecInv, PTL

\* A task that may outlive a failed operator is told to stop or is named in the
\* log, with its shard when its POST was not answered (_abort_remaining), unless
\* AirflowTaskTimeout cut the execution short.
THEOREM OrphansAreNamed == Spec => []NoSilentOrphan
<1>1. IInv => NoSilentOrphan
  BY DEF IInv, Memory, Accounted, GivesUp, CutShort, NoSilentOrphan, At
<1> QED BY <1>1, SpecInv, PTL

=============================================================================
