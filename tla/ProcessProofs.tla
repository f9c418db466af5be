---------------------------- MODULE ProcessProofs ----------------------------
(***************************************************************************)
(* Proofs about one process of the service.  Service, for any number of    *)
(* requests, tasks and exceptions: types, and that the store is closed     *)
(* after its last user.  TaskRun, for any input, sizes of chunks and       *)
(* batches, and number of runs: two tasks of a process do not overlap, the *)
(* parts follow the input, _SUCCESS stands over a whole result, and the    *)
(* statistics of the sampler are exact.                                    *)
(*                                                                         *)
(* The two specifications share no variable, and neither is used for the   *)
(* other: stopping, in TaskRun, is the event that Service calls stop.      *)
(***************************************************************************)
EXTENDS Service, TaskRun, FiniteSetTheorems, SequenceTheorems, TLAPS

Ended == {"stopped", "failed"}
Early == {"load", "create", "initialize", "install", "start"}

\* lifespan closes the store last, and starts the consumer after the store.
InOrder ==
    /\ store = "closed" => pc \in Ended /\ consumer \in {"none", "ended"}
    /\ pc \in Early => consumer = "none"

\* Uvicorn has answered its requests before lifespan goes on.
Answered == \A r \in Requests : request[r] # "none" => pc \in {"serving", "draining"}

\* The lock belongs to a probe in the middle of its maintenance.
Locked == lock # NoRequest => request[lock] \in {"expire", "clean"}

\* A heartbeat that will call again belongs to the consumer's task.
Beating == \A t \in Tasks : beat[t] = "wait" => t = taken /\ consumer \in {"task", "join"}

IInv == TypeOK /\ InOrder /\ Answered /\ Locked /\ Beating

LEMMA InvGives == IInv => ClosedAfterUse
BY RequestAssumption DEF IInv, TypeOK, InOrder, Answered, Locked, Beating, ClosedAfterUse, Ended

LEMMA InitInv == Init => IInv
<1> SUFFICES ASSUME Init PROVE IInv
  OBVIOUS
<1>1. exiting \in BOOLEAN /\ stop \in BOOLEAN /\ due \in BOOLEAN
  BY Zenon DEF Init
<1>2. faults \in 0 .. MaxFaults /\ taken \in 0 .. MaxTasks
  BY BoundsAssumption DEF Init
<1>3. beat \in [Tasks -> {"none", "wait", "call"}]
  BY DEF Init
<1>4. request \in [Requests -> {"none", "check", "call", "expire", "clean"}]
  BY DEF Init
<1>5. TypeOK
  BY <1>1, <1>2, <1>3, <1>4 DEF Init, TypeOK
<1>6. InOrder /\ Answered /\ Locked /\ Beating
  BY DEF Init, InOrder, Answered, Locked, Beating, Early, Ended
<1> QED BY <1>5, <1>6 DEF IInv

-----------------------------------------------------------------------------
(* What lifespan, signals, the consumer and requests leave alone.          *)

\* The number of exceptions keeps to its bound.
LEMMA FaultsBounded ==
    ASSUME TypeOK, Raises \/ Answers
    PROVE  faults' \in 0 .. MaxFaults
BY BoundsAssumption DEF TypeOK, Raises, Answers

LEMMA StartupInv ==
    ASSUME IInv, LoadSettings \/ CreateStore \/ Initialize \/ InstallHandlers
                 \/ StartConsumer \/ Serve
    PROVE  IInv'
<1> USE DEF IInv
<1>1. faults' \in 0 .. MaxFaults
  BY FaultsBounded DEF LoadSettings, CreateStore, Initialize, InstallHandlers,
     StartConsumer, Serve, Startup
<1>2. CASE LoadSettings
  BY <1>1, <1>2 DEF LoadSettings, Startup, signal, worker, maintenance,
     TypeOK, InOrder, Answered, Locked, Beating, Early, Ended
<1>3. CASE CreateStore
  BY <1>1, <1>3 DEF CreateStore, Startup, signal, worker, maintenance,
     TypeOK, InOrder, Answered, Locked, Beating, Early, Ended
<1>4. CASE Initialize
  BY <1>1, <1>4 DEF Initialize, Startup, signal, worker, maintenance,
     TypeOK, InOrder, Answered, Locked, Beating, Early, Ended
<1>5. CASE InstallHandlers
  BY <1>1, <1>5 DEF InstallHandlers, Startup, signal, worker, maintenance,
     TypeOK, InOrder, Answered, Locked, Beating, Early, Ended
<1>6. CASE StartConsumer
  BY <1>1, <1>6 DEF StartConsumer, Startup, signal, worker, maintenance,
     TypeOK, InOrder, Answered, Locked, Beating, Early, Ended
<1>7. CASE Serve
  BY <1>1, <1>7 DEF Serve, Startup, signal, worker, maintenance,
     TypeOK, InOrder, Answered, Locked, Beating, Early, Ended
<1> QED BY <1>2, <1>3, <1>4, <1>5, <1>6, <1>7

\* A step of the consumer keeps every heartbeat that waits with its task.
LEMMA ConsumerInv == ASSUME IInv, Consumer PROVE IInv'
<1> USE DEF IInv
<1>1. CASE Poll
  BY <1>1 DEF Poll, Up, lifespan, signal, maintenance,
     TypeOK, InOrder, Answered, Locked, Beating, Early, Ended
<1>2. CASE Claim
  <2>1. taken' \in 0 .. MaxTasks /\ consumer' \in {"task", "poll"}
    BY <1>2, BoundsAssumption DEF Claim, TypeOK
  <2>2. beat' \in [Tasks -> {"none", "wait", "call"}] /\ Beating'
    <3>1. CASE UNCHANGED <<taken, beat>>
      BY <1>2, <3>1 DEF Claim, TypeOK, Beating
    <3>2. CASE taken' = taken + 1 /\ beat' = [beat EXCEPT ![taken'] = "wait"] /\ consumer' = "task"
      BY <1>2, <3>2 DEF Claim, TypeOK, Beating
    <3> QED BY <1>2, <3>1, <3>2 DEF Claim
  <2>3. faults' \in 0 .. MaxFaults
    BY <1>2, FaultsBounded DEF Claim
  <2>4. UNCHANGED <<lifespan, signal, maintenance>> /\ Up /\ consumer = "claim"
    BY <1>2 DEF Claim
  <2> QED BY <2>1, <2>2, <2>3, <2>4 DEF Up, lifespan, signal, maintenance,
          TypeOK, InOrder, Answered, Locked, Early, Ended
<1>3. CASE EndTask
  <2>1. faults' \in 0 .. MaxFaults
    BY <1>3, FaultsBounded DEF EndTask
  <2>2. TypeOK'
    BY <1>3, <2>1 DEF EndTask, Up, lifespan, maintenance, TypeOK
  <2>3. Beating'
    BY <1>3 DEF EndTask, TypeOK, Beating
  <2> QED BY <1>3, <2>2, <2>3 DEF EndTask, Up, lifespan, maintenance, TypeOK,
          InOrder, Answered, Locked, Early, Ended
<1>4. CASE JoinHeartbeat
  <2>1. Beating' /\ beat' \in [Tasks -> {"none", "wait", "call"}]
    BY <1>4 DEF JoinHeartbeat, TypeOK, Beating
  <2> QED BY <1>4, <2>1 DEF JoinHeartbeat, Up, lifespan, signal, maintenance,
          TypeOK, InOrder, Answered, Locked, Early, Ended
<1> QED BY <1>1, <1>2, <1>3, <1>4 DEF Consumer

LEMMA HeartbeatInv == ASSUME IInv, NEW t \in Tasks, Heartbeat(t) PROVE IInv'
<1> USE DEF IInv
<1>1. faults' \in 0 .. MaxFaults
  BY FaultsBounded DEF Heartbeat
<1>2. Beating' /\ beat' \in [Tasks -> {"none", "wait", "call"}]
  BY DEF Heartbeat, TypeOK, Beating
<1> QED BY <1>1, <1>2 DEF Heartbeat, lifespan, signal, maintenance,
        TypeOK, InOrder, Answered, Locked

\* A request begins while the process serves, and leaves the lock behind it.
LEMMA RequestInv ==
    ASSUME IInv, NEW r \in Requests, Readiness(r) \/ ApiCall(r) \/ Handle(r)
    PROVE  IInv'
<1> USE DEF IInv
<1>1. UNCHANGED <<lifespan, signal, worker>> /\ due' \in BOOLEAN /\ faults' \in 0 .. MaxFaults
  BY FaultsBounded DEF Readiness, ApiCall, Handle, ApiReturn, Acquire, FailStale, Cleanup,
     Answers, TypeOK
<1>2. /\ request' \in [Requests -> {"none", "check", "call", "expire", "clean"}]
      /\ \A q \in Requests \ {r} : request'[q] = request[q]
      /\ request[r] = "none" => pc = "serving"
  BY DEF Readiness, ApiCall, Handle, ApiReturn, Acquire, FailStale, Cleanup, Release, TypeOK
<1>3. Answered'
  BY <1>1, <1>2 DEF Answered, lifespan
<1>4. lock' \in Requests \cup {NoRequest} /\ Locked'
  BY <1>2, RequestAssumption DEF Readiness, ApiCall, Handle, ApiReturn, Acquire, FailStale,
     Cleanup, Release, TypeOK, Locked
<1> QED BY <1>1, <1>2, <1>3, <1>4 DEF lifespan, signal, worker, TypeOK, InOrder, Beating

-----------------------------------------------------------------------------
LEMMA NextInv == ASSUME IInv, [Next]_vars PROVE IInv'
<1>1. CASE Lifespan
  <2>1. CASE LoadSettings \/ CreateStore \/ Initialize \/ InstallHandlers \/ StartConsumer \/ Serve
    BY <2>1, StartupInv
  <2>2. CASE FailedSet
    BY <2>2 DEF FailedSet, worker, maintenance,
       IInv, TypeOK, InOrder, Answered, Locked, Beating, Early, Ended
  <2>3. CASE FailedUndo
    BY <2>3 DEF FailedUndo, signal, worker, maintenance,
       IInv, TypeOK, InOrder, Answered, Locked, Beating, Early, Ended
  <2>4. CASE Drain
    BY <2>4 DEF Drain, signal, worker, maintenance,
       IInv, TypeOK, InOrder, Answered, Locked, Beating, Early, Ended
  <2>5. CASE StopConsumer
    BY <2>5 DEF StopConsumer, worker, maintenance,
       IInv, TypeOK, InOrder, Answered, Locked, Beating, Early, Ended
  <2>6. CASE Close
    BY <2>6 DEF Close, signal, worker, maintenance,
       IInv, TypeOK, InOrder, Answered, Locked, Beating, Early, Ended
  <2> QED BY <1>1, <2>1, <2>2, <2>3, <2>4, <2>5, <2>6 DEF Lifespan
<1>2. CASE Signal \/ LivenessProbe
  <2>1. exiting' \in BOOLEAN /\ stop' \in BOOLEAN
    BY <1>2, Zenon DEF Signal, LivenessProbe
  <2>2. UNCHANGED <<lifespan, worker, maintenance, faults>>
    BY <1>2 DEF Signal, LivenessProbe
  <2> QED BY <2>1, <2>2 DEF lifespan, worker, maintenance,
          IInv, TypeOK, InOrder, Answered, Locked, Beating
<1>3. CASE Consumer
  BY <1>3, ConsumerInv
<1>4. CASE \E t \in Tasks : Heartbeat(t)
  BY <1>4, HeartbeatInv
<1>5. CASE \E r \in Requests : Readiness(r) \/ ApiCall(r) \/ Handle(r)
  BY <1>5, RequestInv
<1>6. CASE CleanupDue
  BY <1>6 DEF CleanupDue, lifespan, signal, worker,
     IInv, TypeOK, InOrder, Answered, Locked, Beating
<1>7. CASE UNCHANGED vars
  BY <1>7 DEF vars, lifespan, signal, worker, maintenance,
     IInv, TypeOK, InOrder, Answered, Locked, Beating
<1> QED BY <1>1, <1>2, <1>3, <1>4, <1>5, <1>6, <1>7 DEF Next

LEMMA SpecInv == Spec => []IInv
BY InitInv, NextInv, PTL DEF Spec

\* Types are kept, whatever raises and whenever the signal comes.
THEOREM TypeCorrect == Spec => []TypeOK
<1>1. IInv => TypeOK
  BY DEF IInv
<1> QED BY <1>1, SpecInv, PTL

\* However many requests, tasks and exceptions there are, and at whatever step
\* the start fails, nobody but a heartbeat that outlived its task uses a store
\* that is closed.
THEOREM StoreClosedLast == Spec => []ClosedAfterUse
BY InvGives, SpecInv, PTL

-----------------------------------------------------------------------------
(* The runs of tasks.                                                      *)

Quiet == {"none", "ended"}

\* Only the run of the consumer holds a bundle; once its finally is past that,
\* a bundle that could not be closed has stopped the process.
OneBundle ==
    /\ {"at", "id"} \subseteq DOMAIN run
    /\ held \subseteq {run.id}
    /\ run.at \in {"stop", "join", "idle"} /\ held # {} => stopping

\* A session of NVML belongs to a thread that measures, and such a thread to a
\* run between its start and its finally.
OneSampler ==
    /\ {"at", "stop_event"} \subseteq DOMAIN sampler
    /\ nvml => sampler.at \in {"waiting", "reading"}
    /\ run.at \in {"idle", "begin"} => sampler.at \in Quiet

RunInv == OneBundle /\ OneSampler

LEMMA RunInitInv == RunInit => RunInv
BY DEF RunInit, Idle, UtilizationInit, NoSampler, RunInv, OneBundle, OneSampler, Quiet

LEMMA RunInvGives == RunInv => TasksDoNotOverlap
<1> SUFFICES ASSUME RunInv PROVE TasksDoNotOverlap
  OBVIOUS
<1>1. At("idle") => sampler.at \in {"none", "ended"} /\ ~nvml
  BY DEF RunInv, OneSampler, At, Quiet
<1>2. Cardinality(held) <= 1
  <2>1. held = {} \/ held = {run.id}
    BY DEF RunInv, OneBundle
  <2>2. Cardinality({}) = 0 /\ Cardinality({run.id}) = 1
    BY FS_EmptySet, FS_Singleton
  <2> QED BY <2>1, <2>2
<1>3. At("idle") /\ held # {} => stopping
  BY DEF RunInv, OneBundle, At
<1> QED BY <1>1, <1>2, <1>3 DEF TasksDoNotOverlap

-----------------------------------------------------------------------------
\* A step of the middle of a run: the consumer goes on from a stage after the
\* start to one that is not past the close, and touches neither bundle nor sampler.
Middle == {"load", "validate", "count", "inspect", "next", "infer", "write", "complete",
           "publish", "close"}

Advances ==
    /\ run.at \in Middle /\ run'.at \in Middle
    /\ {"at", "id"} \subseteq DOMAIN run' /\ run'.id = run.id
    /\ UNCHANGED <<held, utilizationVars>>

LEMMA MiddleInv == ASSUME RunInv, Advances PROVE RunInv'
BY DEF RunInv, OneBundle, OneSampler, Advances, Middle, Quiet, utilizationVars

\* A run that breaks goes to its finally.
LEMMA BreaksAdvances == ASSUME RunInv, run.at \in Middle, Breaks PROVE Advances
BY DEF RunInv, OneBundle, Breaks, Ends, Goto, Advances, Middle

LEMMA ReaderAdvances == ASSUME RunInv, Validate \/ Count \/ Inspect PROVE Advances
<1> USE DEF At, Advances, Middle
<1>0. CASE Breaks
  BY <1>0, BreaksAdvances DEF Validate, Count, Inspect
<1>1. CASE Validate /\ ~Breaks
  BY <1>1 DEF Validate, Goto, RunInv, OneBundle
<1>2. CASE Count /\ ~Breaks
  BY <1>2 DEF Count, RunInv, OneBundle
<1>3. CASE Inspect /\ ~Breaks
  BY <1>3 DEF Inspect, Goto, RunInv, OneBundle
<1> QED BY <1>0, <1>1, <1>2, <1>3

LEMMA NextChunkAdvances == ASSUME RunInv, NextChunk PROVE Advances
<1> USE DEF At, Advances, Middle
<1>1. run.at = "next"
  BY DEF NextChunk
<1>2. CASE Breaks
  BY <1>1, <1>2, BreaksAdvances
<1>3. CASE ~Breaks
  <2> DEFINE left == IF run.left = None THEN iter_chunks(input) ELSE run.left
  <2>1. run' = IF left = << >> THEN [run EXCEPT !.at = "complete", !.left = left]
               ELSE [run EXCEPT !.at = IF Head(left) = << >> THEN "next" ELSE "infer",
                                !.left = Tail(left), !.chunk = Head(left),
                                !.result = << >>, !.expected = None]
    BY <1>3 DEF NextChunk
  <2>2. UNCHANGED <<held, utilizationVars>>
    BY <1>3 DEF NextChunk
  <2> HIDE DEF left
  <2> QED BY <1>1, <2>1, <2>2 DEF RunInv, OneBundle
<1> QED BY <1>2, <1>3

LEMMA InferAdvances == ASSUME RunInv, Infer PROVE Advances
<1> USE DEF At, Advances, Middle
<1>1. run.at = "infer"
  BY DEF Infer
<1>2. CASE Breaks
  BY <1>1, <1>2, BreaksAdvances
<1>3. CASE ~Breaks
  <2> DEFINE last == Min({Len(run.result) + BatchSize, Len(run.chunk)})
  <2>1. UNCHANGED <<held, utilizationVars>>
    BY <1>3 DEF Infer
  <2>2. \/ Ends
        \/ \E answer \in ResultsFor(SubSeq(run.chunk, Len(run.result) + 1, last)) :
             run' = [run EXCEPT
                       !.at = IF last = Len(run.chunk) THEN "write" ELSE "infer",
                       !.result = @ \o answer.keys,
                       !.expected = answer.dtypes,
                       !.output_dtypes =
                           IF last = Len(run.chunk) THEN answer.dtypes ELSE @]
    BY <1>3 DEF Infer
  <2> HIDE DEF last
  <2> QED BY <1>1, <2>1, <2>2 DEF RunInv, OneBundle, Ends, Goto
<1> QED BY <1>2, <1>3

LEMMA WriterAdvances == ASSUME RunInv, Write PROVE Advances
<1> USE DEF At, Advances, Middle
<1>1. run.at = "write"
  BY DEF Write
<1>2. CASE Breaks
  BY <1>1, <1>2, BreaksAdvances
<1>3. CASE ~Breaks
  <2>1. UNCHANGED <<held, utilizationVars>>
    BY <1>3 DEF Write
  <2>2. PICK schema : write_chunk(schema)
    BY <1>3 DEF Write
  <2> QED BY <1>1, <2>1, <2>2 DEF write_chunk, RunInv, OneBundle, Ends, Goto
<1> QED BY <1>2, <1>3

LEMMA PublisherAdvances == ASSUME RunInv, Complete \/ Publish PROVE Advances
<1> USE DEF At, Advances, Middle
<1>0. CASE Breaks
  BY <1>0, BreaksAdvances DEF Complete, Publish
<1>1. CASE Complete /\ ~Breaks
  BY <1>1 DEF Complete, Goto, RunInv, OneBundle
<1>2. CASE Publish /\ ~Breaks
  BY <1>2 DEF Publish, Ends, Goto, RunInv, OneBundle
<1> QED BY <1>0, <1>1, <1>2

-----------------------------------------------------------------------------
(* The ends of a run, where bundle and sampler come and go.                *)

\* A process that was not stopped holds no bundle when it takes a task.
LEMMA TakeInv == ASSUME RunInv, Take PROVE RunInv'
<1> USE DEF RunInv, OneBundle, OneSampler, At, Idle, NoSampler, Quiet
<1>1. held = {} /\ ~nvml
  BY DEF Take
<1> QED BY <1>1 DEF Take

LEMMA RunBeginInv == ASSUME RunInv, Begin PROVE RunInv'
<1> USE DEF RunInv, OneBundle, OneSampler, At, Quiet
<1>1. run.at = "begin" /\ ~nvml /\ UNCHANGED held
  BY DEF Begin, Breaks
<1>2. /\ run'.at \in {"load", "close"} /\ run'.id = run.id
      /\ {"at", "id"} \subseteq DOMAIN run'
  BY <1>1 DEF Begin, Breaks, Ends, Goto
<1>3. {"at", "stop_event"} \subseteq DOMAIN sampler' /\ ~nvml'
  BY <1>1 DEF Begin, Breaks, utilizationVars
<1> QED BY <1>1, <1>2, <1>3

LEMMA LoadInv == ASSUME RunInv, Load PROVE RunInv'
<1> USE DEF RunInv, OneBundle, OneSampler, At, Quiet
<1>1. run.at = "load" /\ UNCHANGED <<sampler, nvml>>
  BY DEF Load, Breaks, utilizationVars
<1>2. /\ run'.at \in {"validate", "close"} /\ run'.id = run.id
      /\ {"at", "id"} \subseteq DOMAIN run'
  BY <1>1 DEF Load, Breaks, Ends, Goto
<1>3. held' \subseteq held \cup {run.id}
  BY DEF Load, Breaks
<1> QED BY <1>1, <1>2, <1>3

LEMMA FinallyInv == ASSUME RunInv, CloseBundle \/ StopSampler \/ Join PROVE RunInv'
<1> USE DEF RunInv, OneBundle, OneSampler, At, Goto, Quiet
<1>1. CASE CloseBundle
  BY <1>1 DEF CloseBundle, utilizationVars
<1>2. CASE StopSampler
  BY <1>2 DEF StopSampler
<1>3. CASE Join
  BY <1>3 DEF Join, utilizationVars
<1> QED BY <1>1, <1>2, <1>3

-----------------------------------------------------------------------------
(* The thread that measures.                                               *)

\* Nobody but the run starts the thread, so it does not come back by itself.
LEMMA SamplerInv == ASSUME RunInv, Sampler, UNCHANGED runVars PROVE RunInv'
<1> USE DEF RunInv, OneBundle, OneSampler, Thread, Quiet, runVars
<1>1. CASE ProbeStart
  BY <1>1 DEF ProbeStart
<1>2. CASE Due
  BY <1>2 DEF Due
<1>3. CASE Sample
  BY <1>3 DEF Sample
<1>4. CASE Leave
  BY <1>4 DEF Leave
<1> QED BY <1>1, <1>2, <1>3, <1>4 DEF Sampler

-----------------------------------------------------------------------------
LEMMA RunNextInv == ASSUME RunInv, [RunNext]_allRunVars PROVE RunInv'
<1>1. CASE Take
  BY <1>1, TakeInv
<1>2. CASE Begin
  BY <1>2, RunBeginInv
<1>3. CASE Load
  BY <1>3, LoadInv
<1>4. CASE Validate \/ Count \/ Inspect
  BY <1>4, ReaderAdvances, MiddleInv
<1>5. CASE NextChunk
  BY <1>5, NextChunkAdvances, MiddleInv
<1>6. CASE Infer
  BY <1>6, InferAdvances, MiddleInv
<1>7. CASE Write
  BY <1>7, WriterAdvances, MiddleInv
<1>8. CASE Complete \/ Publish
  BY <1>8, PublisherAdvances, MiddleInv
<1>9. CASE CloseBundle \/ StopSampler \/ Join
  BY <1>9, FinallyInv
<1>10. CASE Sampler /\ UNCHANGED runVars
  BY <1>10, SamplerInv
<1>11. CASE Cancel \/ StopRuns \/ ChangeInput \/ ClearOutput
  BY <1>11 DEF Cancel, StopRuns, ChangeInput, ClearOutput, RunInv, OneBundle, OneSampler,
     utilizationVars
<1>12. CASE UNCHANGED allRunVars
  BY <1>12 DEF allRunVars, runVars, utilizationVars, RunInv, OneBundle, OneSampler
<1> QED BY <1>1, <1>2, <1>3, <1>4, <1>5, <1>6, <1>7, <1>8, <1>9, <1>10, <1>11, <1>12
        DEF RunNext, RunTask

\* Between two tasks of a process nothing of the first one is left, wherever
\* its run ended: no bundle beside the next one, no thread that measures, no
\* session of NVML (the finally of run_task, consume_queue).
THEOREM TasksStayApart == RunSpec => []TasksDoNotOverlap
<1>1. RunInit => RunInv
  BY RunInitInv
<1>2. RunInv /\ [RunNext]_allRunVars => RunInv'
  BY RunNextInv
<1>3. RunInv => TasksDoNotOverlap
  BY RunInvGives
<1> QED BY <1>1, <1>2, <1>3, PTL DEF RunSpec

-----------------------------------------------------------------------------
(* Induction over numbers, by the least counterexample.                    *)

(* A set of numbers has a least one.                                       *)
LEMMA LeastNat ==
    ASSUME NEW T \in SUBSET Nat, T # {}
    PROVE  \E x \in T : \A y \in T : x <= y
<1>1. PICK x \in T : \A y \in T : <<y, x>> \notin OpToRel(<, Nat)
  BY WFMin, NatLessThanWellFounded
<1>2. \A y \in T : ~(y < x)
  BY <1>1 DEF OpToRel
<1>3. QED
  BY <1>2

(* Every number, when a number whose predecessor is in T is in T too.      *)
LEMMA AllNat ==
    ASSUME NEW T, 0 \in T, \A n \in Nat : n \in T => n + 1 \in T
    PROVE  Nat \subseteq T
<1> SUFFICES ASSUME Nat \ T # {} PROVE FALSE
  OBVIOUS
<1>1. PICK m \in Nat \ T : \A y \in Nat \ T : m <= y
  BY LeastNat
<1>2. m - 1 \in Nat /\ m - 1 \notin Nat \ T
  BY <1>1
<1> QED BY <1>1, <1>2

\* The concatenation of the first n sequences, as FlattenSeq builds it up.
Flattens(f, s, n) ==
    f = [i \in 1 .. n |-> IF i = 1 THEN s[i] ELSE f[i - 1] \o s[i]]

LEMMA FlattensOne ==
    ASSUME NEW s, NEW n \in Nat, NEW f, Flattens(f, s, n), NEW i \in 1 .. n
    PROVE  f[i] = IF i = 1 THEN s[i] ELSE f[i - 1] \o s[i]
BY Zenon DEF Flattens

LEMMA FlattensExists ==
    ASSUME NEW s, NEW n \in Nat
    PROVE  \E f : Flattens(f, s, n)
<1> DEFINE T == {m \in Nat : \E f : Flattens(f, s, m)}
<1>1. 0 \in T
  <2>1. Flattens([i \in 1 .. 0 |-> 0], s, 0)
    BY DEF Flattens
  <2> QED BY <2>1
<1>2. ASSUME NEW m \in Nat, m \in T PROVE m + 1 \in T
  <2>1. PICK f : Flattens(f, s, m)
    BY <1>2
  <2> DEFINE g == [i \in 1 .. m + 1 |-> IF i = 1 THEN s[i] ELSE f[i - 1] \o s[i]]
  <2>2. \A i \in 1 .. m : f[i] = IF i = 1 THEN s[i] ELSE f[i - 1] \o s[i]
    BY <2>1, FlattensOne
  <2>3. \A i \in 1 .. m : g[i] = f[i]
    <3> TAKE i \in 1 .. m
    <3>1. i \in 1 .. m + 1
      OBVIOUS
    <3> QED BY <2>2, <3>1
  <2>4. \A i \in 1 .. m + 1 : i # 1 => f[i - 1] = g[i - 1]
    <3> TAKE i \in 1 .. m + 1
    <3> HAVE i # 1
    <3>1. i - 1 \in 1 .. m
      OBVIOUS
    <3> HIDE DEF g
    <3> QED BY <2>3, <3>1
  <2>5. g = [i \in 1 .. m + 1 |-> IF i = 1 THEN s[i] ELSE g[i - 1] \o s[i]]
    BY <2>4
  <2> HIDE DEF g
  <2>6. Flattens(g, s, m + 1)
    BY <2>5, Zenon DEF Flattens
  <2> QED BY <2>6
<1> HIDE DEF T
<1>3. n \in T
  BY <1>1, <1>2, AllNat
<1> QED BY <1>3 DEF T

LEMMA FlattenSeqIs ==
    ASSUME NEW s, Len(s) \in Nat \ {0}
    PROVE  \E f : Flattens(f, s, Len(s)) /\ FlattenSeq(s) = f[Len(s)]
<1> DEFINE f == CHOOSE f : f = [i \in 1 .. Len(s) |-> IF i = 1 THEN s[i] ELSE f[i - 1] \o s[i]]
<1>1. FlattenSeq(s) = f[Len(s)]
  BY DEF FlattenSeq
<1>2. \E g : g = [i \in 1 .. Len(s) |-> IF i = 1 THEN s[i] ELSE g[i - 1] \o s[i]]
  BY FlattensExists DEF Flattens
<1>3. f = [i \in 1 .. Len(s) |-> IF i = 1 THEN s[i] ELSE f[i - 1] \o s[i]]
  BY ONLY <1>2, Zenon
<1> HIDE DEF f
<1> QED BY <1>1, <1>3 DEF Flattens

Agree(s, t, n) == \A i \in 1 .. n : s[i] = t[i]

\* The first sequences decide what is built up of them.
LEMMA FlattensSame ==
    ASSUME NEW s, NEW t, NEW m \in Nat, Agree(s, t, m),
           NEW f, Flattens(f, s, m), NEW g, Flattens(g, t, m + 1)
    PROVE  Agree(f, g, m)
<1> DEFINE T == {k \in Nat : k \in 1 .. m => f[k] = g[k]}
<1>1. 0 \in T
  OBVIOUS
<1>2. ASSUME NEW k \in Nat, k \in T PROVE k + 1 \in T
  <2> SUFFICES ASSUME k + 1 \in 1 .. m PROVE f[k + 1] = g[k + 1]
    OBVIOUS
  <2>1. k + 1 \in 1 .. m + 1 /\ m + 1 \in Nat /\ (k + 1) - 1 = k
    OBVIOUS
  <2>2. f[k + 1] = IF k + 1 = 1 THEN s[k + 1] ELSE f[k] \o s[k + 1]
    BY <2>1, FlattensOne
  <2>3. g[k + 1] = IF k + 1 = 1 THEN t[k + 1] ELSE g[k] \o t[k + 1]
    BY <2>1, FlattensOne
  <2>4. k + 1 # 1 => f[k] = g[k]
    BY <1>2
  <2>5. s[k + 1] = t[k + 1]
    BY DEF Agree
  <2> QED BY <2>2, <2>3, <2>4, <2>5
<1> HIDE DEF T
<1>3. Nat \subseteq T
  BY <1>1, <1>2, AllNat
<1> QED BY <1>3 DEF T, Agree

\* A sequence that is not empty has a last element.
LEMMA LastOf ==
    ASSUME NEW S, NEW u \in Seq(S), u # << >>
    PROVE  /\ Front(u) \in Seq(S) /\ Last(u) \in S
           /\ u = Append(Front(u), Last(u))
           /\ Len(Front(u)) = Len(u) - 1
<1>1. PICK v \in Seq(S), x \in S : u = Append(v, x)
  BY SequenceEmptyOrAppend
<1>2. Len(v) \in Nat /\ Len(u) = Len(v) + 1 /\ (\A k \in 1 .. Len(v) : u[k] = v[k])
        /\ u[Len(v) + 1] = x
  BY <1>1, LenProperties, AppendProperties
<1>3. Last(u) = x
  BY <1>2 DEF Last
<1>4. Front(u) = v
  <2>1. Front(u) = SubSeq(u, 1, Len(v))
    BY <1>2 DEF Front
  <2>2. /\ SubSeq(u, 1, Len(v)) \in Seq(S)
        /\ Len(SubSeq(u, 1, Len(v))) = Len(v)
        /\ \A k \in 1 .. Len(v) : SubSeq(u, 1, Len(v))[k] = u[k]
    BY <1>2
  <2>3. SubSeq(u, 1, Len(v)) = v
    BY <1>2, <2>2, SeqEqual
  <2> QED BY <2>1, <2>3
<1> QED BY <1>1, <1>2, <1>3, <1>4

LEMMA FlattenEmpty == FlattenSeq(<< >>) = << >>
BY DEF FlattenSeq

\* FlattenSeq from the right.
LEMMA FlattenAppend ==
    ASSUME NEW S, NEW s \in Seq(Seq(S)), NEW x \in Seq(S)
    PROVE  FlattenSeq(Append(s, x)) = FlattenSeq(s) \o x
<1> DEFINE t == Append(s, x)
           n == Len(s)
<1>1. n \in Nat /\ Len(t) = n + 1 /\ (\A i \in 1 .. n : t[i] = s[i]) /\ t[n + 1] = x
  BY AppendProperties, LenProperties
<1> HIDE DEF t, n
<1>2. PICK g : Flattens(g, t, n + 1) /\ FlattenSeq(t) = g[n + 1]
  BY <1>1, FlattenSeqIs
<1>3. g[n + 1] = IF n + 1 = 1 THEN t[n + 1] ELSE g[n] \o t[n + 1]
  <2>1. n + 1 \in 1 .. n + 1 /\ (n + 1) - 1 = n
    BY <1>1
  <2> QED BY <1>1, <1>2, <2>1, FlattensOne
<1>4. CASE n = 0
  <2>1. s = << >>
    BY <1>4, EmptySeq DEF n
  <2>2. << >> \o x = x
    BY ConcatEmptySeq
  <2> QED BY <1>1, <1>2, <1>3, <1>4, <2>1, <2>2, FlattenEmpty DEF t
<1>5. CASE n # 0
  <2>1. PICK f : Flattens(f, s, n) /\ FlattenSeq(s) = f[n]
    BY <1>1, <1>5, FlattenSeqIs DEF n
  <2>2. f[n] = g[n]
    <3>1. n \in Nat /\ n \in 1 .. n
      BY <1>1, <1>5
    <3>2. Agree(s, t, n)
      BY <1>1 DEF Agree
    <3>4. Flattens(f, s, n) /\ Flattens(g, t, n + 1)
      BY <1>2, <2>1
    <3>3. Agree(f, g, n)
      BY ONLY <3>4, <3>1, <3>2, FlattensSame
    <3> QED BY <3>1, <3>3 DEF Agree
  <2> QED BY <1>1, <1>2, <1>3, <1>5, <2>1, <2>2 DEF t
<1> QED BY <1>4, <1>5

\* What is flattened is a sequence of the same elements.
LEMMA FlattenType ==
    ASSUME NEW S, NEW s \in Seq(Seq(S))
    PROVE  FlattenSeq(s) \in Seq(S)
<1> DEFINE T == {n \in Nat : \A u \in Seq(Seq(S)) : Len(u) = n => FlattenSeq(u) \in Seq(S)}
<1>1. 0 \in T
  BY EmptySeq, FlattenEmpty
<1>2. ASSUME NEW n \in Nat, n \in T PROVE n + 1 \in T
  <2> SUFFICES ASSUME NEW u \in Seq(Seq(S)), Len(u) = n + 1 PROVE FlattenSeq(u) \in Seq(S)
    OBVIOUS
  <2> DEFINE v == Front(u)
             x == Last(u)
  <2>1. u # << >>
    BY EmptySeq
  <2>2. v \in Seq(Seq(S)) /\ x \in Seq(S) /\ u = Append(v, x) /\ Len(v) = Len(u) - 1
    BY <2>1, LastOf
  <2>3. Len(v) = n
    BY <2>2
  <2> HIDE DEF v, x
  <2>4. FlattenSeq(v) \in Seq(S)
    BY <1>2, <2>2, <2>3
  <2> QED BY <2>2, <2>4, FlattenAppend, ConcatProperties
<1> HIDE DEF T
<1>3. Len(s) \in T
  BY <1>1, <1>2, AllNat, LenProperties
<1> QED BY <1>3 DEF T

LEMMA FlattenConcat ==
    ASSUME NEW S, NEW s \in Seq(Seq(S)), NEW t \in Seq(Seq(S))
    PROVE  FlattenSeq(s \o t) = FlattenSeq(s) \o FlattenSeq(t)
<1> DEFINE T == {n \in Nat : \A u \in Seq(Seq(S)) :
                  Len(u) = n => FlattenSeq(s \o u) = FlattenSeq(s) \o FlattenSeq(u)}
<1>1. 0 \in T
  <2> SUFFICES ASSUME NEW u \in Seq(Seq(S)), Len(u) = 0
               PROVE  FlattenSeq(s \o u) = FlattenSeq(s) \o FlattenSeq(u)
    OBVIOUS
  <2>1. u = << >>
    BY EmptySeq
  <2>2. s \o << >> = s /\ FlattenSeq(s) \o << >> = FlattenSeq(s)
    BY ConcatEmptySeq, FlattenType
  <2> QED BY <2>1, <2>2, FlattenEmpty
<1>2. ASSUME NEW n \in Nat, n \in T PROVE n + 1 \in T
  <2> SUFFICES ASSUME NEW u \in Seq(Seq(S)), Len(u) = n + 1
               PROVE  FlattenSeq(s \o u) = FlattenSeq(s) \o FlattenSeq(u)
    OBVIOUS
  <2> DEFINE v == Front(u)
             x == Last(u)
  <2>1. u # << >>
    BY EmptySeq
  <2>2. v \in Seq(Seq(S)) /\ x \in Seq(S) /\ u = Append(v, x) /\ Len(v) = Len(u) - 1
    BY <2>1, LastOf
  <2>3. Len(v) = n
    BY <2>2
  <2> HIDE DEF v, x
  <2>4. FlattenSeq(s \o v) = FlattenSeq(s) \o FlattenSeq(v)
    BY <1>2, <2>2, <2>3
  <2>5. s \o u = Append(s \o v, x) /\ s \o v \in Seq(Seq(S))
    <3>1. u = v \o <<x>> /\ <<x>> \in Seq(Seq(S)) /\ s \o v \in Seq(Seq(S))
      BY <2>2, AppendIsConcat, ConcatProperties
    <3>2. Append(s \o v, x) = (s \o v) \o <<x>>
      BY <3>1, AppendIsConcat
    <3> DEFINE w == <<x>>
    <3> HIDE DEF w
    <3>3. (s \o v) \o w = s \o (v \o w)
      BY <2>2, <3>1, ConcatAssociative, SMTT(30) DEF w
    <3> QED BY <3>1, <3>2, <3>3 DEF w
  <2>6. FlattenSeq(s \o u) = FlattenSeq(s \o v) \o x
    BY <2>2, <2>5, FlattenAppend
  <2>7. FlattenSeq(u) = FlattenSeq(v) \o x
    BY <2>2, FlattenAppend
  <2>8. (FlattenSeq(s) \o FlattenSeq(v)) \o x = FlattenSeq(s) \o (FlattenSeq(v) \o x)
    <3> DEFINE a == FlattenSeq(s)
               b == FlattenSeq(v)
    <3>1. a \in Seq(S) /\ b \in Seq(S) /\ x \in Seq(S)
      BY <2>2, FlattenType
    <3> HIDE DEF a, b
    <3>2. (a \o b) \o x = a \o (b \o x)
      BY ONLY <3>1, ConcatAssociative, SMTT(30)
    <3> QED BY <3>2 DEF a, b
  <2> QED BY <2>4, <2>6, <2>7, <2>8
<1> HIDE DEF T
<1>3. Len(t) \in T
  BY <1>1, <1>2, AllNat, LenProperties
<1> QED BY <1>3 DEF T

\* FlattenSeq from the left.
LEMMA FlattenHeadTail ==
    ASSUME NEW S, NEW s \in Seq(Seq(S)), s # << >>
    PROVE  FlattenSeq(s) = Head(s) \o FlattenSeq(Tail(s))
<1>1. Head(s) \in Seq(S) /\ Tail(s) \in Seq(Seq(S))
  BY HeadTailProperties
<1>2. s = <<Head(s)>> \o Tail(s)
  BY <1>1
<1>3. <<Head(s)>> = Append(<< >>, Head(s)) /\ << >> \in Seq(Seq(S))
  BY <1>1
<1>4. FlattenSeq(<<Head(s)>>) = << >> \o Head(s)
  BY <1>1, <1>3, FlattenAppend, FlattenEmpty
<1>5. FlattenSeq(<<Head(s)>>) = Head(s)
  BY <1>1, <1>4, ConcatEmptySeq
<1>6. FlattenSeq(<<Head(s)>> \o Tail(s)) = FlattenSeq(<<Head(s)>>) \o FlattenSeq(Tail(s))
  <2> DEFINE h == <<Head(s)>>
  <2>1. h \in Seq(Seq(S))
    BY <1>1
  <2> HIDE DEF h
  <2>2. FlattenSeq(h \o Tail(s)) = FlattenSeq(h) \o FlattenSeq(Tail(s))
    BY <1>1, <2>1, FlattenConcat
  <2> QED BY <2>2 DEF h
<1> QED BY <1>2, <1>5, <1>6

\* Sequences cut in pieces, flattened in two steps.
LEMMA FlattenPieces ==
    ASSUME NEW S, NEW F \in Seq(Seq(Seq(S))), NEW G \in Seq(Seq(S)), Len(F) = Len(G),
           \A k \in 1 .. Len(G) : FlattenSeq(F[k]) = G[k]
    PROVE  FlattenSeq(FlattenSeq(F)) = FlattenSeq(G)
<1> DEFINE P(u, v) == \A k \in 1 .. Len(v) : FlattenSeq(u[k]) = v[k]
           T == {n \in Nat : \A u \in Seq(Seq(Seq(S))), v \in Seq(Seq(S)) :
                  Len(u) = n /\ Len(v) = n /\ P(u, v) => FlattenSeq(FlattenSeq(u)) = FlattenSeq(v)}
<1>1. 0 \in T
  <2> SUFFICES ASSUME NEW u \in Seq(Seq(Seq(S))), NEW v \in Seq(Seq(S)), Len(u) = 0, Len(v) = 0
               PROVE  FlattenSeq(FlattenSeq(u)) = FlattenSeq(v)
    OBVIOUS
  <2>1. u = << >> /\ v = << >>
    BY EmptySeq
  <2> QED BY <2>1, FlattenEmpty
<1>2. ASSUME NEW n \in Nat, n \in T PROVE n + 1 \in T
  <2> SUFFICES ASSUME NEW u \in Seq(Seq(Seq(S))), NEW v \in Seq(Seq(S)),
                      Len(u) = n + 1, Len(v) = n + 1, P(u, v)
               PROVE  FlattenSeq(FlattenSeq(u)) = FlattenSeq(v)
    BY DEF P
  <2> DEFINE u1 == Front(u)
             x == Last(u)
             v1 == Front(v)
             y == Last(v)
  <2>1. /\ u1 \in Seq(Seq(Seq(S))) /\ x \in Seq(Seq(S)) /\ u = Append(u1, x)
        /\ Len(u1) = Len(u) - 1
    <3>1. u # << >>
      BY EmptySeq
    <3> QED BY <3>1, LastOf
  <2>2. /\ v1 \in Seq(Seq(S)) /\ y \in Seq(S) /\ v = Append(v1, y)
        /\ Len(v1) = Len(v) - 1
    <3>1. v # << >>
      BY EmptySeq
    <3> QED BY <3>1, LastOf
  <2> HIDE DEF u1, x, v1, y
  <2>3. /\ \A k \in 1 .. n : u[k] = u1[k] /\ v[k] = v1[k]
        /\ u[n + 1] = x /\ v[n + 1] = y
    BY <2>1, <2>2, AppendProperties
  <2>4. P(u1, v1)
    BY <2>2, <2>3
  <2>5. FlattenSeq(FlattenSeq(u1)) = FlattenSeq(v1)
    <3>1. Len(u1) = n /\ Len(v1) = n
      BY <2>1, <2>2
    <3> HIDE DEF P
    <3>2. \A u2 \in Seq(Seq(Seq(S))), v2 \in Seq(Seq(S)) :
            Len(u2) = n /\ Len(v2) = n /\ P(u2, v2) => FlattenSeq(FlattenSeq(u2)) = FlattenSeq(v2)
      BY <1>2, Zenon
    <3> HIDE DEF T
    <3> QED BY <2>1, <2>2, <2>4, <3>1, <3>2
  <2>6. FlattenSeq(x) = y
    <3>1. n + 1 \in 1 .. Len(v)
      OBVIOUS
    <3> QED BY <2>3, <3>1
  <2>7. FlattenSeq(u) = FlattenSeq(u1) \o x /\ FlattenSeq(u1) \in Seq(Seq(S))
    BY <2>1, FlattenAppend, FlattenType
  <2>8. FlattenSeq(FlattenSeq(u1) \o x) = FlattenSeq(FlattenSeq(u1)) \o FlattenSeq(x)
    BY <2>1, <2>7, FlattenConcat
  <2>9. FlattenSeq(v) = FlattenSeq(v1) \o y
    BY <2>2, FlattenAppend
  <2> QED BY <2>5, <2>6, <2>7, <2>8, <2>9
<1> HIDE DEF T
<1>3. Len(G) \in T
  BY <1>1, <1>2, AllNat, LenProperties
<1> QED BY <1>3 DEF T

-----------------------------------------------------------------------------
(* Sums over a bag, as BagCardinality builds them up.                      *)

Adds(g, B, S) == LET elt == CHOOSE e \in S : TRUE IN IF S = {} THEN 0 ELSE B[elt] + g[S \ {elt}]

Sums(g, B, D) == g = [S \in SUBSET D |-> Adds(g, B, S)]

LEMMA SumsOne ==
    ASSUME NEW D, NEW B, NEW g, Sums(g, B, D), NEW S \in SUBSET D
    PROVE  g[S] = Adds(g, B, S)
BY Zenon DEF Sums

LEMMA AddsEmpty == ASSUME NEW g, NEW B PROVE Adds(g, B, {}) = 0
BY DEF Adds

Elt(S) == CHOOSE e \in S : TRUE

LEMMA AddsIs ==
    ASSUME NEW g, NEW B, NEW S, S # {}
    PROVE  Elt(S) \in S /\ Adds(g, B, S) = B[Elt(S)] + g[S \ {Elt(S)}]
<1>1. Elt(S) \in S
  BY DEF Elt
<1> QED BY <1>1 DEF Adds, Elt

LEMMA SumsExist ==
    ASSUME NEW B, NEW D, IsFiniteSet(D)
    PROVE  \E g : Sums(g, B, D)
<1> DEFINE Upto(n) == {S \in SUBSET D : Cardinality(S) <= n}
           P(n) == \E g : g = [S \in Upto(n) |-> Adds(g, B, S)]
           T == {n \in Nat : P(n)}
<1>1. 0 \in T
  <2> DEFINE g == [S \in Upto(0) |-> 0]
  <2>1. \A S \in Upto(0) : S = {}
    BY FS_Subset, FS_EmptySet, FS_CardinalityType
  <2>2. \A S \in Upto(0) : Adds(g, B, S) = 0
    BY <2>1 DEF Adds
  <2>3. g = [S \in Upto(0) |-> Adds(g, B, S)]
    BY <2>2
  <2> HIDE DEF g
  <2> QED BY <2>3
<1>2. ASSUME NEW n \in Nat, n \in T PROVE n + 1 \in T
  <2>1. PICK g : g = [S \in Upto(n) |-> Adds(g, B, S)]
    BY <1>2
  <2> DEFINE h == [S \in Upto(n + 1) |-> Adds(g, B, S)]
  <2>2. \A S \in Upto(n) : g[S] = h[S]
    <3> SUFFICES ASSUME NEW S \in Upto(n) PROVE g[S] = h[S]
      OBVIOUS
    <3>1. S \in Upto(n + 1)
      BY FS_Subset, FS_CardinalityType
    <3>2. g[S] = Adds(g, B, S)
      BY <2>1, Zenon
    <3> HIDE DEF Upto
    <3> QED BY <3>1, <3>2
  <2>3. \A S \in Upto(n + 1) : Adds(g, B, S) = Adds(h, B, S)
    <3> SUFFICES ASSUME NEW S \in Upto(n + 1) PROVE Adds(g, B, S) = Adds(h, B, S)
      OBVIOUS
    <3>1. CASE S = {}
      BY <3>1 DEF Adds
    <3>2. CASE S # {}
      <4> HIDE DEF h
      <4>1. PICK e \in S : /\ Adds(g, B, S) = B[e] + g[S \ {e}]
                           /\ Adds(h, B, S) = B[e] + h[S \ {e}]
        BY <3>2, AddsIs
      <4>3. S \ {e} \in Upto(n)
        <5>1. IsFiniteSet(S) /\ Cardinality(S) \in Nat
          BY FS_Subset, FS_CardinalityType
        <5>2. Cardinality(S \ {e}) = Cardinality(S) - 1
          BY <5>1, FS_RemoveElement
        <5> QED BY <5>1, <5>2
      <4> HIDE DEF Upto
      <4> QED BY <2>2, <4>1, <4>3
    <3> QED BY <3>1, <3>2
  <2>4. h = [S \in Upto(n + 1) |-> Adds(h, B, S)]
    BY <2>3
  <2> HIDE DEF h
  <2> QED BY <2>4
<1> HIDE DEF T
<1>3. Nat \subseteq T
  BY <1>1, <1>2, AllNat
<1>4. Cardinality(D) \in Nat
  BY FS_CardinalityType
<1>5. P(Cardinality(D))
  BY <1>3, <1>4 DEF T
<1>6. Upto(Cardinality(D)) = SUBSET D
  BY FS_Subset
<1> QED BY <1>5, <1>6 DEF Sums

\* Elements may be taken out in any order.
LEMMA SumsTake ==
    ASSUME NEW B, NEW D, IsFiniteSet(D), \A x \in D : B[x] \in Nat, NEW g, Sums(g, B, D),
           NEW S \in SUBSET D
    PROVE  g[S] \in Nat /\ \A x \in S : g[S] = B[x] + g[S \ {x}]
<1> DEFINE P(R) == g[R] \in Nat /\ \A x \in R : g[R] = B[x] + g[R \ {x}]
           T == {n \in Nat : \A R \in SUBSET D : Cardinality(R) <= n => P(R)}
<1>0. \A R \in SUBSET D : IsFiniteSet(R) /\ Cardinality(R) \in Nat
  BY FS_Subset, FS_CardinalityType
<1>1. 0 \in T
  <2> SUFFICES ASSUME NEW R \in SUBSET D, Cardinality(R) <= 0 PROVE P(R)
    OBVIOUS
  <2>1. R = {}
    BY <1>0, FS_EmptySet
  <2>2. g[R] = 0
    BY <2>1, SumsOne, AddsEmpty
  <2> QED BY <2>1, <2>2
<1>2. ASSUME NEW n \in Nat, n \in T PROVE n + 1 \in T
  <2> SUFFICES ASSUME NEW R \in SUBSET D, Cardinality(R) <= n + 1 PROVE P(R)
    <3> HIDE DEF P
    <3> QED OBVIOUS
  <2>1. CASE R = {}
    <3>1. g[R] = 0
      BY <2>1, SumsOne, AddsEmpty
    <3> QED BY <2>1, <3>1
  <2>2. CASE R # {}
    <3>1. PICK e \in R : Adds(g, B, R) = B[e] + g[R \ {e}]
      BY <2>2, AddsIs
    <3>2. g[R] = B[e] + g[R \ {e}]
      BY <3>1, SumsOne
    <3>3. \A x, y \in R : P(R \ {x}) /\ P((R \ {x}) \ {y})
      <4> TAKE x, y \in R
      <4>1. Cardinality(R \ {x}) <= n
        BY <1>0, FS_RemoveElement
      <4>2. Cardinality((R \ {x}) \ {y}) <= n
        BY <1>0, <4>1, FS_Subset
      <4> QED BY <1>2, <4>1, <4>2
    <3>4. g[R] \in Nat
      <4>1. g[R \ {e}] \in Nat
        <5>1. P(R \ {e})
          BY <3>3
        <5> QED BY ONLY <5>1
      <4>2. B[e] \in Nat
        OBVIOUS
      <4> QED BY ONLY <3>2, <4>1, <4>2
    <3>5. ASSUME NEW x \in R, x # e PROVE g[R] = B[x] + g[R \ {x}]
      <4>1. x \in R \ {e} /\ e \in R \ {x} /\ (R \ {e}) \ {x} = (R \ {x}) \ {e}
        BY <3>5
      <4>2. g[R \ {e}] = B[x] + g[(R \ {e}) \ {x}]
        BY <3>3, <4>1
      <4>3. g[R \ {x}] = B[e] + g[(R \ {x}) \ {e}]
        BY <3>3, <4>1
      <4>4. B[x] \in Nat /\ B[e] \in Nat /\ g[(R \ {e}) \ {x}] \in Nat
        BY <3>3
      <4> DEFINE a == g[R \ {e}]
                 b == g[R \ {x}]
                 c == g[(R \ {e}) \ {x}]
      <4>5. g[R] = B[e] + a /\ a = B[x] + c /\ b = B[e] + c
        BY <3>2, <4>1, <4>2, <4>3
      <4>6. c \in Nat
        BY <4>4
      <4> HIDE DEF a, b, c
      <4>7. g[R] = B[x] + b
        BY <4>4, <4>5, <4>6
      <4> QED BY <4>7 DEF b
    <3> QED BY <3>2, <3>4, <3>5
  <2> QED BY <2>1, <2>2
<1> HIDE DEF T
<1>3. Cardinality(S) \in T
  BY <1>0, <1>1, <1>2, AllNat
<1> QED BY <1>3 DEF T

\* What is summed decides the sum.
LEMMA SumsSame ==
    ASSUME NEW B, NEW D, NEW g, Sums(g, B, D), NEW C, NEW E, NEW h, Sums(h, C, E),
           NEW S \in SUBSET D, S \subseteq E, IsFiniteSet(S), \A x \in S : B[x] = C[x]
    PROVE  g[S] = h[S]
<1> DEFINE T == {n \in Nat : \A R \in SUBSET S : Cardinality(R) = n => g[R] = h[R]}
<1>0. \A R \in SUBSET S : IsFiniteSet(R) /\ Cardinality(R) \in Nat /\ g[R] = Adds(g, B, R)
        /\ h[R] = Adds(h, C, R)
  BY FS_Subset, FS_CardinalityType, SumsOne
<1>1. 0 \in T
  <2> SUFFICES ASSUME NEW R \in SUBSET S, Cardinality(R) = 0 PROVE g[R] = h[R]
    OBVIOUS
  <2>1. R = {}
    BY <1>0, FS_EmptySet
  <2> QED BY <1>0, <2>1, AddsEmpty
<1>2. ASSUME NEW n \in Nat, n \in T PROVE n + 1 \in T
  <2> SUFFICES ASSUME NEW R \in SUBSET S, Cardinality(R) = n + 1 PROVE g[R] = h[R]
    OBVIOUS
  <2>1. R # {}
    BY FS_EmptySet
  <2>2. PICK e \in R : /\ Adds(g, B, R) = B[e] + g[R \ {e}]
                       /\ Adds(h, C, R) = C[e] + h[R \ {e}]
    <3> HIDE DEF T
    <3>1. /\ Elt(R) \in R
          /\ Adds(g, B, R) = B[Elt(R)] + g[R \ {Elt(R)}]
          /\ Adds(h, C, R) = C[Elt(R)] + h[R \ {Elt(R)}]
      BY ONLY <2>1, AddsIs
    <3> QED BY <3>1
  <2>4. Cardinality(R \ {e}) = n /\ R \ {e} \in SUBSET S
    BY <1>0, FS_RemoveElement
  <2>5. g[R \ {e}] = h[R \ {e}]
    BY <1>2, <2>4
  <2> QED BY <1>0, <2>2, <2>5
<1> HIDE DEF T
<1>3. Cardinality(S) \in T
  BY <1>0, <1>1, <1>2, AllNat
<1> QED BY <1>3 DEF T

LEMMA CardinalityIs ==
    ASSUME NEW B, IsFiniteSet(DOMAIN B)
    PROVE  \E g : Sums(g, B, DOMAIN B) /\ BagCardinality(B) = g[DOMAIN B]
<1> DEFINE g == CHOOSE g : g = [S \in SUBSET DOMAIN B |->
                                  LET elt == CHOOSE e \in S : TRUE
                                  IN  IF S = {} THEN 0 ELSE B[elt] + g[S \ {elt}]]
<1>1. BagCardinality(B) = g[DOMAIN B]
  BY DEF BagCardinality
<1>2. \E h : h = [S \in SUBSET DOMAIN B |->
                    LET elt == CHOOSE e \in S : TRUE
                    IN  IF S = {} THEN 0 ELSE B[elt] + h[S \ {elt}]]
  <2>1. PICK h : Sums(h, B, DOMAIN B)
    BY SumsExist
  <2> QED BY <2>1, Zenon DEF Sums, Adds
<1>3. g = [S \in SUBSET DOMAIN B |->
             LET elt == CHOOSE e \in S : TRUE
             IN  IF S = {} THEN 0 ELSE B[elt] + g[S \ {elt}]]
  BY ONLY <1>2, Zenon
<1> HIDE DEF g
<1> QED BY <1>1, <1>3 DEF Sums, Adds

-----------------------------------------------------------------------------
(* Heaps.                                                                  *)

Heap(B) == IsABag(B) /\ IsFiniteSet(BagToSet(B)) /\ BagToSet(B) \subseteq Values

LEMMA HeapIs ==
    ASSUME NEW B
    PROVE  Heap(B) <=> /\ B = [x \in DOMAIN B |-> B[x]] /\ \A x \in DOMAIN B : B[x] \in Nat \ {0}
                       /\ IsFiniteSet(DOMAIN B) /\ DOMAIN B \subseteq Values
<1>1. IsABag(B) <=> B \in [DOMAIN B -> {n \in Nat : n > 0}]
  BY DEF IsABag
<1>2. IsABag(B) <=> B = [x \in DOMAIN B |-> B[x]] /\ \A x \in DOMAIN B : B[x] \in Nat \ {0}
  BY <1>1
<1> QED BY <1>2 DEF Heap, BagToSet

LEMMA HeapEmpty == Heap(EmptyBag) /\ BagCardinality(EmptyBag) = 0 /\ BagToSet(EmptyBag) = {}
<1>1. EmptyBag = [x \in {} |-> 1] /\ DOMAIN EmptyBag = {}
  BY DEF EmptyBag, SetToBag
<1>2. IsFiniteSet({})
  BY FS_EmptySet
<1>3. Heap(EmptyBag)
  BY <1>1, <1>2, HeapIs
<1>4. PICK g : Sums(g, EmptyBag, {}) /\ BagCardinality(EmptyBag) = g[{}]
  BY <1>1, <1>2, CardinalityIs
<1>5. g[{}] = 0
  BY <1>4, SumsOne, AddsEmpty
<1> QED BY <1>1, <1>3, <1>4, <1>5 DEF BagToSet

LEMMA PushIs ==
    ASSUME NEW B, Heap(B), NEW v \in Values
    PROVE  /\ Heap(Push(B, v)) /\ BagToSet(Push(B, v)) = BagToSet(B) \cup {v}
           /\ Push(B, v) = [x \in DOMAIN B \cup {v} |->
                              IF x = v THEN (IF v \in DOMAIN B THEN B[v] ELSE 0) + 1 ELSE B[x]]
<1> DEFINE P == [x \in DOMAIN B \cup {v} |->
                   IF x = v THEN (IF v \in DOMAIN B THEN B[v] ELSE 0) + 1 ELSE B[x]]
<1>1. \A x \in DOMAIN B : B[x] \in Nat \ {0}
  BY HeapIs
<1>2. SetToBag({v}) = [x \in {v} |-> 1]
  BY DEF SetToBag
<1>3. Push(B, v) = P
  BY <1>1, <1>2 DEF Push, (+)
<1>4. IsFiniteSet(DOMAIN B \cup {v}) /\ DOMAIN B \cup {v} \subseteq Values
  BY HeapIs, FS_AddElement
<1>5. Heap(P)
  BY <1>1, <1>4, HeapIs
<1> QED BY <1>3, <1>5 DEF BagToSet

LEMMA DropIs ==
    ASSUME NEW B, Heap(B), NEW v \in BagToSet(B)
    PROVE  /\ Heap(Drop(B, v)) /\ BagToSet(Drop(B, v)) \subseteq BagToSet(B)
           /\ BagToSet(B) \subseteq BagToSet(Drop(B, v)) \cup {v}
           /\ v \in BagToSet(Drop(B, v)) <=> B[v] > 1
           /\ Push(Drop(B, v), v) = B
<1> DEFINE R == IF B[v] = 1 THEN DOMAIN B \ {v} ELSE DOMAIN B
           P == [x \in R |-> IF x = v THEN B[v] - 1 ELSE B[x]]
<1>1. /\ \A x \in DOMAIN B : B[x] \in Nat \ {0}
      /\ B = [x \in DOMAIN B |-> B[x]] /\ v \in DOMAIN B /\ v \in Values
  BY HeapIs DEF BagToSet
<1>2. SetToBag({v}) = [x \in {v} |-> 1]
  BY DEF SetToBag
<1> DEFINE L == [x \in DOMAIN B |-> IF x \in DOMAIN SetToBag({v}) THEN B[x] - SetToBag({v})[x]
      ELSE B[x]]
<1>3. Drop(B, v) = [x \in {d \in DOMAIN L : L[d] > 0} |-> L[x]]
  BY DEF Drop, (-)
<1>4. L = [x \in DOMAIN B |-> IF x = v THEN B[v] - 1 ELSE B[x]]
  BY <1>2
<1> HIDE DEF L
<1>5. {d \in DOMAIN L : L[d] > 0} = R
  BY <1>1, <1>4
<1>6. Drop(B, v) = P
  BY <1>3, <1>4, <1>5
<1>7. IsFiniteSet(R) /\ R \subseteq Values
  BY HeapIs, FS_Subset
<1>8. \A x \in R : P[x] \in Nat \ {0}
  BY <1>1
<1>9. Heap(P)
  BY <1>7, <1>8, HeapIs
<1>10. Push(P, v) = [x \in R \cup {v} |-> IF x = v THEN (IF v \in R THEN B[v] - 1 ELSE 0) + 1
         ELSE B[x]]
  <2>1. DOMAIN P = R /\ \A x \in R : P[x] = IF x = v THEN B[v] - 1 ELSE B[x]
    OBVIOUS
  <2>3. Heap(P)
    BY <1>9
  <2> HIDE DEF P, R
  <2>2. Push(P, v) = [x \in R \cup {v} |-> IF x = v THEN (IF v \in R THEN P[v] ELSE 0) + 1
          ELSE P[x]]
    <3>1. v \in Values
      BY <1>1
    <3>2. Push(P, v) = [x \in DOMAIN P \cup {v} |->
            IF x = v THEN (IF v \in DOMAIN P THEN P[v] ELSE 0) + 1 ELSE P[x]]
      BY ONLY <2>3, <3>1, PushIs
    <3> QED BY <2>1, <3>2
  <2> QED BY <2>1, <2>2
<1>11. Push(P, v) = B
  <2>1. R \cup {v} = DOMAIN B
    BY <1>1
  <2>2. (IF v \in R THEN B[v] - 1 ELSE 0) + 1 = B[v]
    BY <1>1
  <2> QED BY <1>1, <1>10, <2>1, <2>2
<1> QED BY <1>1, <1>6, <1>9, <1>11 DEF BagToSet

LEMMA PushCounts ==
    ASSUME NEW B, Heap(B), NEW v \in Values
    PROVE  BagCardinality(B) \in Nat /\ BagCardinality(Push(B, v)) = BagCardinality(B) + 1
<1> DEFINE C == Push(B, v)
           K == DOMAIN B
           E == DOMAIN C
<1>1. IsFiniteSet(K) /\ \A x \in K : B[x] \in Nat \ {0}
  BY HeapIs
<1>2. Heap(C) /\ E = K \cup {v}
  BY PushIs DEF BagToSet
<1>3. C = [x \in K \cup {v} |-> IF x = v THEN (IF v \in K THEN B[v] ELSE 0) + 1 ELSE B[x]]
  BY PushIs
<1> HIDE DEF C, E
<1>4. IsFiniteSet(E) /\ \A x \in E : C[x] \in Nat \ {0}
  BY <1>2, HeapIs DEF E
<1>5. PICK f : Sums(f, B, K) /\ BagCardinality(B) = f[K]
  BY <1>1, CardinalityIs
<1>6. PICK h : Sums(h, C, E) /\ BagCardinality(C) = h[E]
  BY <1>4, CardinalityIs DEF E
<1> HIDE DEF K
<1>7. /\ f[K] \in Nat /\ \A x \in K : f[K] = B[x] + f[K \ {x}]
      /\ h[E] \in Nat /\ \A x \in E : h[E] = C[x] + h[E \ {x}]
  <2>1. K \in SUBSET K /\ E \in SUBSET E /\ (\A x \in K : B[x] \in Nat) /\ \A x \in E : C[x] \in Nat
    BY <1>1, <1>4
  <2>2. f[K] \in Nat /\ \A x \in K : f[K] = B[x] + f[K \ {x}]
    <3>1. IsFiniteSet(K) /\ K \in SUBSET K /\ (\A x \in K : B[x] \in Nat) /\ Sums(f, B, K)
      BY <1>1, <1>5, <2>1
    <3>2. f[K] \in Nat
      BY ONLY <3>1, SumsTake
    <3>3. ASSUME NEW x \in K PROVE f[K] = B[x] + f[K \ {x}]
      BY ONLY <3>1, SumsTake
    <3> QED BY <3>2, <3>3
  <2>3. h[E] \in Nat /\ \A x \in E : h[E] = C[x] + h[E \ {x}]
    <3>1. IsFiniteSet(E) /\ E \in SUBSET E /\ (\A x \in E : C[x] \in Nat) /\ Sums(h, C, E)
      BY <1>4, <1>6, <2>1
    <3> QED BY ONLY <3>1, SumsTake
  <2> QED BY <2>2, <2>3
<1>8. E \ {v} = K \ {v} /\ \A x \in K \ {v} : B[x] = C[x]
  BY <1>2, <1>3
<1>9. f[K \ {v}] = h[K \ {v}]
  <2> DEFINE S == K \ {v}
  <2>1. S \in SUBSET K /\ S \subseteq E /\ IsFiniteSet(S)
    BY <1>1, <1>2, FS_Subset
  <2>2. \A x \in S : B[x] = C[x]
    BY <1>8
  <2> HIDE DEF S
  <2>3. f[S] = h[S]
    BY ONLY <1>5, <1>6, <2>1, <2>2, SumsSame
  <2> QED BY <2>3 DEF S
<1>10. h[E] = C[v] + h[E \ {v}] /\ C[v] = (IF v \in K THEN B[v] ELSE 0) + 1
  BY <1>2, <1>3, <1>7
<1>11. f[K] = (IF v \in K THEN B[v] ELSE 0) + f[K \ {v}]
  <2>1. CASE v \in K
    BY <1>7, <2>1
  <2>2. CASE v \notin K
    <3>1. K \ {v} = K
      BY <2>2
    <3>2. f[K \ {v}] = f[K] /\ f[K] \in Nat
      BY <1>7, <3>1
    <3> QED BY <2>2, <3>2
  <2> QED BY <2>1, <2>2
<1>12. (IF v \in K THEN B[v] ELSE 0) \in Nat
  BY <1>1
<1> DEFINE b == IF v \in K THEN B[v] ELSE 0
           k == f[K \ {v}]
<1>13. f[K] = b + k /\ h[E] = (b + 1) + k /\ b \in Nat /\ f[K] \in Nat /\ h[E] \in Nat
  BY <1>7, <1>8, <1>9, <1>10, <1>11, <1>12
<1>14. k \in Nat
  <2>1. K \ {v} \in SUBSET K /\ \A x \in K : B[x] \in Nat
    BY <1>1
  <2> QED BY <1>1, <1>5, <2>1, SumsTake
<1> HIDE DEF b, k
<1> QED BY <1>5, <1>6, <1>13, <1>14 DEF C

LEMMA DropCounts ==
    ASSUME NEW B, Heap(B), NEW v \in BagToSet(B)
    PROVE  /\ BagCardinality(B) \in Nat
           /\ BagCardinality(Drop(B, v)) \in Nat
           /\ BagCardinality(Drop(B, v)) + 1 = BagCardinality(B)
<1>1. v \in Values
  BY HeapIs DEF BagToSet
<1>2. Heap(Drop(B, v)) /\ Push(Drop(B, v), v) = B
  BY DropIs
<1>3. /\ BagCardinality(Drop(B, v)) \in Nat
      /\ BagCardinality(Push(Drop(B, v), v)) = BagCardinality(Drop(B, v)) + 1
  BY <1>1, <1>2, PushCounts
<1>4. BagCardinality(B) = BagCardinality(Drop(B, v)) + 1
  BY <1>2, <1>3
<1> QED BY <1>3, <1>4

LEMMA HeapCounts ==
    ASSUME NEW B, Heap(B)
    PROVE  BagCardinality(B) \in Nat /\ (BagCardinality(B) = 0 <=> BagToSet(B) = {})
<1>1. CASE BagToSet(B) = {}
  <2>1. DOMAIN B = {} /\ B = [x \in DOMAIN B |-> B[x]]
    BY <1>1, HeapIs DEF BagToSet
  <2>2. B = EmptyBag
    BY <2>1 DEF EmptyBag, SetToBag
  <2> QED BY <1>1, <2>2, HeapEmpty
<1>2. CASE BagToSet(B) # {}
  <2>1. PICK v \in BagToSet(B) : TRUE
    BY <1>2
  <2> QED BY <1>2, DropCounts
<1> QED BY <1>1, <1>2

LEMMA MaxExists ==
    ASSUME NEW S \in SUBSET Nat, S # {}, IsFiniteSet(S)
    PROVE  \E m \in S : \A y \in S : m >= y
<1> DEFINE T == {n \in Nat : \A R \in SUBSET Nat : R # {} /\ IsFiniteSet(R) /\ Cardinality(R) = n =>
                              \E m \in R : \A y \in R : m >= y}
<1>1. 0 \in T
  BY FS_EmptySet
<1>2. ASSUME NEW n \in Nat, n \in T PROVE n + 1 \in T
  <2> SUFFICES ASSUME NEW R \in SUBSET Nat, R # {}, IsFiniteSet(R), Cardinality(R) = n + 1
               PROVE  \E m \in R : \A y \in R : m >= y
    OBVIOUS
  <2>1. PICK x \in R : TRUE
    OBVIOUS
  <2>2. R \ {x} \in SUBSET Nat /\ IsFiniteSet(R \ {x}) /\ Cardinality(R \ {x}) = n
    <3>1. IsFiniteSet(R \ {x}) /\ Cardinality(R \ {x}) = Cardinality(R) - 1
      BY FS_RemoveElement
    <3> QED BY <3>1
  <2>3. CASE R \ {x} = {}
    BY <2>3
  <2>4. CASE R \ {x} # {}
    <3>1. PICK m \in R \ {x} : \A y \in R \ {x} : m >= y
      BY <1>2, <2>2, <2>4
    <3>2. m \in Nat /\ x \in Nat
      OBVIOUS
    <3>3. CASE m >= x
      BY <3>1, <3>3
    <3>4. CASE x > m
      <4>1. \A y \in R : x >= y
        BY <3>1, <3>2, <3>4
      <4> QED BY <4>1
    <3> QED BY <3>2, <3>3, <3>4
  <2> QED BY <2>3, <2>4
<1> HIDE DEF T
<1>3. Nat \subseteq T
  BY <1>1, <1>2, AllNat
<1> QED BY <1>3, FS_CardinalityType DEF T

\* heapq has a largest and a smallest element to give.
LEMMA TopIs ==
    ASSUME NEW B, Heap(B), BagToSet(B) # {}
    PROVE  Top(B) \in BagToSet(B) /\ \A x \in BagToSet(B) : x <= Top(B)
<1>1. BagToSet(B) \in SUBSET Nat /\ IsFiniteSet(BagToSet(B))
  BY UtilizationAssumption, HeapIs DEF BagToSet
<1>2. \E m \in BagToSet(B) : \A y \in BagToSet(B) : m >= y
  BY <1>1, MaxExists
<1>3. Top(B) \in BagToSet(B) /\ \A y \in BagToSet(B) : Top(B) >= y
  BY <1>2 DEF Top, Max
<1> QED BY <1>1, <1>3

LEMMA BottomIs ==
    ASSUME NEW B, Heap(B), BagToSet(B) # {}
    PROVE  Bottom(B) \in BagToSet(B) /\ \A x \in BagToSet(B) : Bottom(B) <= x
<1>1. BagToSet(B) \in SUBSET Nat
  BY UtilizationAssumption, HeapIs DEF BagToSet
<1>2. \E m \in BagToSet(B) : \A y \in BagToSet(B) : m <= y
  BY <1>1, LeastNat
<1> QED BY <1>2 DEF Bottom, Min

-----------------------------------------------------------------------------
(* RunningStatistics.add.                                                  *)

Halves(lower, upper) ==
    /\ Heap(lower) /\ Heap(upper)
    /\ BagCardinality(lower) - BagCardinality(upper) \in {0, 1}
    /\ \A v \in BagToSet(lower), w \in BagToSet(upper) : v <= w

\* What add does when the reading is already in lower.
LEMMA BalancedHalves ==
    ASSUME NEW lower, NEW upper, Halves(lower, upper), NEW v \in Values
    PROVE  Halves(Balanced(Push(lower, v), upper).lower, Balanced(Push(lower, v), upper).upper)
<1> DEFINE pushed == Push(lower, v)
           t == Top(pushed)
           l == Drop(pushed, t)
           u == Push(upper, t)
           b == Bottom(u)
<1>0. Values \subseteq Nat
  BY UtilizationAssumption
<1>1. Heap(lower) /\ Heap(upper) /\ \A x \in BagToSet(lower), w \in BagToSet(upper) : x <= w
  BY DEF Halves
<1>2. BagCardinality(lower) \in Nat /\ BagCardinality(upper) \in Nat
  BY <1>1, HeapCounts
<1>3. Heap(pushed) /\ BagToSet(pushed) = BagToSet(lower) \cup {v}
        /\ BagCardinality(pushed) = BagCardinality(lower) + 1
  BY <1>1, PushIs, PushCounts
<1>4. t \in BagToSet(pushed) /\ \A x \in BagToSet(pushed) : x <= t
  BY <1>3, TopIs
<1>5. t \in Values
  BY <1>3, <1>4 DEF Heap
<1>6. /\ Heap(l) /\ BagToSet(l) \subseteq BagToSet(pushed)
      /\ BagCardinality(l) \in Nat /\ BagCardinality(l) = BagCardinality(lower)
      /\ t \in BagToSet(l) <=> pushed[t] > 1
  BY <1>2, <1>3, <1>4, DropIs, DropCounts
<1>7. Heap(u) /\ BagToSet(u) = BagToSet(upper) \cup {t}
        /\ BagCardinality(u) = BagCardinality(upper) + 1
  BY <1>1, <1>5, PushIs, PushCounts
<1>8. b \in BagToSet(u) /\ \A x \in BagToSet(u) : b <= x
  BY <1>7, BottomIs
<1>9. b \in Values
  BY <1>7, <1>8 DEF Heap
<1>10. t \notin BagToSet(lower) => t \notin BagToSet(l)
  <2> SUFFICES ASSUME t \notin BagToSet(lower) PROVE pushed[t] = 1
    BY <1>6
  <2>1. t = v
    BY <1>3, <1>4
  <2>2. pushed = [x \in DOMAIN lower \cup {v} |->
                    IF x = v THEN (IF v \in DOMAIN lower THEN lower[v] ELSE 0) + 1 ELSE lower[x]]
    BY <1>1, PushIs
  <2> HIDE DEF pushed, t
  <2> QED BY <2>1, <2>2 DEF BagToSet
<1>11. Balanced(pushed, upper) = IF BagCardinality(u) > BagCardinality(l)
                                 THEN [lower |-> Push(l, b), upper |-> Drop(u, b)]
                                 ELSE [lower |-> l, upper |-> u]
  BY DEF Balanced
<1>12. BagCardinality(lower) - BagCardinality(upper) \in {0, 1}
  BY DEF Halves
<1> HIDE DEF pushed, t, l, u, b
<1>13. \A x \in BagToSet(l) : x \in Nat /\ x <= t /\ \A w \in BagToSet(u) : x <= w
  <2> SUFFICES ASSUME NEW x \in BagToSet(l)
      PROVE x \in Nat /\ x <= t /\ \A w \in BagToSet(upper) : x <= w
    BY <1>7
  <2>1. x \in Nat /\ x \in BagToSet(pushed) /\ x <= t
    BY <1>0, <1>4, <1>6 DEF Heap
  <2>2. CASE x \in BagToSet(lower)
    BY <1>1, <2>1, <2>2
  <2>3. CASE x \notin BagToSet(lower)
    <3>1. (x = v /\ x # t) \/ x = t
      BY <1>3, <2>1, <2>3
    <3>2. t \in BagToSet(lower)
      BY <1>3, <1>4, <1>10, <2>3, <3>1
    <3> QED BY <1>0, <1>1, <1>5, <2>1, <3>2 DEF Heap
  <2> QED BY <2>2, <2>3
<1>14. CASE BagCardinality(u) > BagCardinality(l)
  <2>1. Balanced(pushed, upper).lower = Push(l, b) /\ Balanced(pushed, upper).upper = Drop(u, b)
    BY <1>11, <1>14
  <2>2. /\ Heap(Push(l, b)) /\ BagToSet(Push(l, b)) = BagToSet(l) \cup {b}
        /\ BagCardinality(Push(l, b)) = BagCardinality(l) + 1
    BY <1>6, <1>9, PushIs, PushCounts
  <2>3. /\ Heap(Drop(u, b)) /\ BagToSet(Drop(u, b)) \subseteq BagToSet(u)
        /\ BagCardinality(Drop(u, b)) \in Nat /\ BagCardinality(Drop(u, b)) + 1 = BagCardinality(u)
    BY <1>7, <1>8, DropIs, DropCounts
  <2>4. BagCardinality(Push(l, b)) - BagCardinality(Drop(u, b)) \in {0, 1}
    BY <1>2, <1>6, <1>7, <1>12, <1>14, <2>2, <2>3
  <2>5. \A x \in BagToSet(Push(l, b)), w \in BagToSet(Drop(u, b)) : x <= w
    BY <1>8, <1>13, <2>2, <2>3
  <2>6. Halves(Push(l, b), Drop(u, b))
    BY <2>2, <2>3, <2>4, <2>5 DEF Halves
  <2> QED BY <2>1, <2>6 DEF pushed
<1>15. CASE ~(BagCardinality(u) > BagCardinality(l))
  <2>1. Balanced(pushed, upper).lower = l /\ Balanced(pushed, upper).upper = u
    BY <1>11, <1>15
  <2>2. BagCardinality(l) - BagCardinality(u) \in {0, 1}
    BY <1>2, <1>6, <1>7, <1>12, <1>15
  <2>3. Halves(l, u)
    BY <1>6, <1>7, <1>13, <2>2 DEF Halves
  <2> QED BY <2>1, <2>3 DEF pushed
<1> QED BY <1>14, <1>15

LEMMA AddHalves ==
    ASSUME NEW s, Halves(s.lower, s.upper), NEW v \in Values \cup {Unusable}
    PROVE  Halves(Add(s, v).lower, Add(s, v).upper)
<1>1. CASE v = Unusable
  BY <1>1 DEF Add
<1>2. CASE v # Unusable
  <2>1. v \in Values
    BY <1>2
  <2>2. /\ Add(s, v).lower = Balanced(Push(s.lower, v), s.upper).lower
        /\ Add(s, v).upper = Balanced(Push(s.lower, v), s.upper).upper
    BY <1>2 DEF Add
  <2> QED BY <2>1, <2>2, BalancedHalves
<1> QED BY <1>1, <1>2

LEMMA TotalIs ==
    ASSUME NEW r, IsFiniteSet(DOMAIN r)
    PROVE  \E g : Sums(g, r, Usable(r)) /\ MapThenSumSet(LAMBDA i : r[i], Usable(r)) = g[Usable(r)]
<1> DEFINE D == Usable(r)
           g == CHOOSE g : g = [S \in SUBSET D |->
                                  IF S = {} THEN 0
                                  ELSE LET x == CHOOSE x \in S : TRUE IN r[x] + g[S \ {x}]]
<1>1. MapThenSumSet(LAMBDA i : r[i], D) = g[D]
  BY DEF MapThenSumSet, MapThenFoldSet
<1>2. \E h : h = [S \in SUBSET D |->
                    IF S = {} THEN 0
                    ELSE LET x == CHOOSE x \in S : TRUE IN r[x] + h[S \ {x}]]
  <2>1. IsFiniteSet(D)
    BY FS_Subset DEF Usable
  <2>2. PICK h : Sums(h, r, D)
    BY <2>1, SumsExist
  <2> HIDE DEF D
  <2> QED BY <2>2, Zenon DEF Sums, Adds
<1>3. g = [S \in SUBSET D |->
             IF S = {} THEN 0
             ELSE LET x == CHOOSE x \in S : TRUE IN r[x] + g[S \ {x}]]
  BY ONLY <1>2, Zenon
<1> HIDE DEF g
<1> QED BY <1>1, <1>3 DEF Sums, Adds

-----------------------------------------------------------------------------
(* Listings, chunks and rows.                                              *)

LEMMA MinOfTwo ==
    ASSUME NEW a \in Int, NEW b \in Int
    PROVE  Min({a, b}) = IF a <= b THEN a ELSE b
<1> DEFINE m == IF a <= b THEN a ELSE b
<1>1. m \in {a, b} /\ \A y \in {a, b} : m <= y
  OBVIOUS
<1>2. \A x \in {a, b} : (\A y \in {a, b} : x <= y) => x = m
  OBVIOUS
<1> QED BY <1>1, <1>2 DEF Min

\* A finite set of numbers has a listing.
LEMMA ListingExists ==
    ASSUME NEW F \in SUBSET Nat, IsFiniteSet(F)
    PROVE  \E s \in [1 .. Cardinality(F) -> F] : \A i, j \in DOMAIN s : i < j => s[i] < s[j]
<1> DEFINE Listed(G) ==
             \E s \in [1 .. Cardinality(G) -> G] :
                \A i, j \in DOMAIN s : i < j => s[i] < s[j]
           T == {n \in Nat : \A G \in SUBSET Nat :
                   IsFiniteSet(G) /\ Cardinality(G) = n => Listed(G)}
<1>1. 0 \in T
  <2> SUFFICES ASSUME NEW G \in SUBSET Nat, IsFiniteSet(G), Cardinality(G) = 0 PROVE Listed(G)
    OBVIOUS
  <2> DEFINE s == [i \in 1 .. 0 |-> 0]
  <2>1. s \in [1 .. Cardinality(G) -> G] /\ DOMAIN s = {}
    OBVIOUS
  <2> HIDE DEF s
  <2> QED BY <2>1
<1>2. ASSUME NEW n \in Nat, n \in T PROVE n + 1 \in T
  <2> SUFFICES ASSUME NEW G \in SUBSET Nat, IsFiniteSet(G), Cardinality(G) = n + 1 PROVE Listed(G)
    OBVIOUS
  <2>1. G # {}
    BY FS_EmptySet
  <2>2. PICK m \in G : \A y \in G : m <= y
    BY <2>1, LeastNat
  <2>3. IsFiniteSet(G \ {m}) /\ Cardinality(G \ {m}) = n
    <3>1. IsFiniteSet(G \ {m}) /\ Cardinality(G \ {m}) = Cardinality(G) - 1
      BY FS_RemoveElement
    <3> QED BY <3>1
  <2>4. Listed(G \ {m})
    BY <1>2, <2>3
  <2>5. PICK r \in [1 .. n -> G \ {m}] : \A i, j \in DOMAIN r : i < j => r[i] < r[j]
    BY <2>3, <2>4
  <2> DEFINE s == [i \in 1 .. n + 1 |-> IF i = 1 THEN m ELSE r[i - 1]]
  <2>6. \A i \in 1 .. n + 1 : i # 1 => i - 1 \in 1 .. n /\ s[i] = r[i - 1]
    OBVIOUS
  <2>7. s[1] = m /\ s \in [1 .. n + 1 -> G]
    BY <2>2, <2>6
  <2> HIDE DEF s
  <2>8. ASSUME NEW i \in 1 .. n + 1, NEW j \in 1 .. n + 1, i < j PROVE s[i] < s[j]
    <3>1. j # 1 /\ s[j] = r[j - 1] /\ j - 1 \in 1 .. n /\ r[j - 1] \in G \ {m}
      BY <2>6, <2>8
    <3>2. CASE i = 1
      <4>1. s[i] = m /\ m \in Nat /\ s[j] \in Nat /\ s[j] \in G /\ s[j] # m
        BY <2>7, <3>1, <3>2
      <4> QED BY <2>2, <4>1
    <3>3. CASE i # 1
      BY <2>5, <2>6, <2>8, <3>1, <3>3
    <3> QED BY <3>2, <3>3
  <2> QED BY <2>7, <2>8
<1> HIDE DEF T
<1>3. Cardinality(F) \in T
  BY <1>1, <1>2, AllNat, FS_CardinalityType
<1> QED BY <1>3 DEF T

LEMMA ListingIs ==
    ASSUME NEW files \in SUBSET Files
    PROVE  Listing(files) \in Seq(files)
<1>1. files \in SUBSET Nat /\ IsFiniteSet(files)
  BY TaskRunAssumption, FS_Subset
<1>2. Listing(files) \in [1 .. Cardinality(files) -> files]
  BY <1>1, ListingExists DEF Listing
<1>3. Cardinality(files) \in Nat
  BY <1>1, FS_CardinalityType
<1> QED BY <1>2, <1>3

\* The number of chunks of a file.
LEMMA Quotient ==
    ASSUME NEW n \in Nat \ {0}, NEW c \in Nat \ {0}, NEW q, q = (n + c - 1) \div c
    PROVE  /\ q \in Nat \ {0}
           /\ n <= q * c
           /\ \A k \in Nat : k < q => k * c < n
<1>1. q \in Int /\ q * c <= n + c - 1 /\ n + c - 1 < (q + 1) * c
  OBVIOUS
<1>2. (q + 1) * c = q * c + c
  BY <1>1
<1>3. n <= q * c
  BY <1>1, <1>2
<1>4. q > 0
  <2>1. q <= 0 => q * c <= 0 * c
    BY <1>1
  <2> QED BY <1>1, <1>3, <2>1
<1>5. ASSUME NEW k \in Nat, k < q PROVE k * c < n
  <2>1. k <= q - 1
    BY <1>1, <1>5
  <2>2. k * c <= (q - 1) * c
    BY <1>1, <2>1
  <2>3. (q - 1) * c = q * c - c
    BY <1>1
  <2>4. k * c \in Int
    OBVIOUS
  <2> QED BY <1>1, <2>2, <2>3, <2>4
<1> QED BY <1>1, <1>3, <1>4, <1>5

\* Chunks cut a file: nothing is left out, nothing is there twice.
LEMMA ChunksCut ==
    ASSUME NEW rows \in Seq(Nat)
    PROVE  Chunks(rows) \in Seq(Seq(Nat)) /\ FlattenSeq(Chunks(rows)) = rows
<1>1. CASE rows = << >>
  <2>1. Chunks(rows) = Append(<< >>, << >>) /\ << >> \in Seq(Seq(Nat)) /\ << >> \in Seq(Nat)
    BY <1>1 DEF Chunks
  <2>2. FlattenSeq(Append(<< >>, << >>)) = << >> \o << >>
    BY <2>1, FlattenAppend, FlattenEmpty
  <2>3. << >> \o << >> = << >>
    BY <2>1, ConcatEmptySeq
  <2>4. Append(<< >>, << >>) \in Seq(Seq(Nat))
    BY <2>1, AppendProperties
  <2> QED BY <1>1, <2>1, <2>2, <2>3, <2>4
<1>2. CASE rows # << >>
  <2> DEFINE n == Len(rows)
             q == (n + ChunkSize - 1) \div ChunkSize
             End(k) == IF k * ChunkSize <= n THEN k * ChunkSize ELSE n
             piece(k) == SubSeq(rows, (k - 1) * ChunkSize + 1, Min({k * ChunkSize, n}))
             first(k) == [i \in 1 .. k |-> piece(i)]
  <2>1. n \in Nat \ {0} /\ ChunkSize \in Nat \ {0}
    BY <1>2, EmptySeq, LenProperties, TaskRunAssumption
  <2>2. Chunks(rows) = first(q)
    BY <1>2 DEF Chunks
  <2> HIDE DEF n
  <2>3. /\ q \in Nat \ {0}
        /\ n <= q * ChunkSize
        /\ \A k \in Nat : k < q => k * ChunkSize < n
    BY <2>1, Quotient
  <2> HIDE DEF q
  <2>4. ASSUME NEW k \in Nat, k < q
        PROVE  /\ End(k) = k * ChunkSize /\ End(k) \in 0 .. n /\ End(k + 1) \in End(k) .. n
               /\ piece(k + 1) = SubSeq(rows, End(k) + 1, End(k + 1))
    <3> DEFINE a == k * ChunkSize
               b == (k + 1) * ChunkSize
    <3>1. a \in Nat /\ b = a + ChunkSize /\ a < n
      BY <2>1, <2>3, <2>4
    <3>2. Min({b, n}) = IF b <= n THEN b ELSE n
      BY <2>1, <3>1, MinOfTwo
    <3>3. (k + 1) - 1 = k
      OBVIOUS
    <3>4. piece(k + 1) = SubSeq(rows, a + 1, Min({b, n}))
      BY <3>3
    <3> HIDE DEF a, b
    <3>5. End(k) = a /\ End(k + 1) = IF b <= n THEN b ELSE n
      BY <2>1, <3>1 DEF a, b
    <3>6. End(k) = k * ChunkSize
      BY <3>5 DEF a
    <3> HIDE DEF End, piece
    <3>7. End(k) \in 0 .. n /\ End(k + 1) \in End(k) .. n
      BY <2>1, <3>1, <3>5
    <3>8. piece(k + 1) = SubSeq(rows, End(k) + 1, End(k + 1))
      BY ONLY <3>2, <3>4, <3>5
    <3> QED BY <3>6, <3>7, <3>8
  <2> HIDE DEF piece, End
  <2>5. \A k \in 1 .. q : piece(k) \in Seq(Nat)
    <3> TAKE k \in 1 .. q
    <3>1. k - 1 \in Nat /\ k - 1 < q /\ (k - 1) + 1 = k
      BY <2>3
    <3>2. piece(k) = SubSeq(rows, End(k - 1) + 1, End(k)) /\ End(k - 1) \in 0 .. n
            /\ End(k) \in 0 .. n
      BY <2>1, <2>4, <3>1
    <3>3. \A i \in 1 .. n : rows[i] \in Nat
      BY ElementOfSeq DEF n
    <3>4. \A i \in End(k - 1) + 1 .. End(k) : rows[i] \in Nat
      BY <2>1, <3>2, <3>3
    <3> QED BY <3>2, <3>4, SubSeqProperties
  <2>6. \A k \in 0 .. q : first(k) \in Seq(Seq(Nat)) /\ Len(first(k)) = k
    BY <2>3, <2>5
  <2>7. ASSUME NEW k \in Nat, k < q PROVE first(k + 1) = Append(first(k), piece(k + 1))
    <3>1. first(k + 1) \in Seq(Seq(Nat)) /\ first(k) \in Seq(Seq(Nat)) /\ piece(k + 1) \in Seq(Nat)
          /\ Len(first(k)) = k /\ Len(first(k + 1)) = k + 1
      BY <2>3, <2>5, <2>6, <2>7
    <3>2. /\ Append(first(k), piece(k + 1)) \in Seq(Seq(Nat))
          /\ Len(Append(first(k), piece(k + 1))) = k + 1
          /\ \A i \in 1 .. k : Append(first(k), piece(k + 1))[i] = first(k)[i]
          /\ Append(first(k), piece(k + 1))[k + 1] = piece(k + 1)
      BY <3>1, AppendProperties
    <3>3. \A i \in 1 .. k + 1 : first(k + 1)[i] = Append(first(k), piece(k + 1))[i]
      BY <3>2
    <3> QED BY <3>1, <3>2, <3>3, SeqEqual
  <2> DEFINE T == {k \in Nat : k <= q => FlattenSeq(first(k)) = SubSeq(rows, 1, End(k))}
  <2>8. 0 \in T
    <3>1. first(0) = << >>
      OBVIOUS
    <3>2. End(0) = 0
      <4>1. 0 < q /\ 0 * ChunkSize = 0
        BY <2>1, <2>3
      <4> QED BY <2>4, <4>1
    <3>3. SubSeq(rows, 1, 0) = << >>
      BY SubSeqEmpty
    <3> QED BY <3>1, <3>2, <3>3, FlattenEmpty
  <2>9. ASSUME NEW k \in Nat, k \in T PROVE k + 1 \in T
    <3> SUFFICES ASSUME k + 1 <= q PROVE FlattenSeq(first(k + 1)) = SubSeq(rows, 1, End(k + 1))
      OBVIOUS
    <3>1. k < q /\ k \in 0 .. q /\ k + 1 \in 1 .. q
      BY <2>3
    <3>2. FlattenSeq(first(k + 1)) = FlattenSeq(first(k)) \o piece(k + 1)
      <4>1. first(k) \in Seq(Seq(Nat)) /\ piece(k + 1) \in Seq(Nat)
        BY <2>5, <2>6, <3>1
      <4>2. first(k + 1) = Append(first(k), piece(k + 1))
        BY <2>7, <3>1
      <4> HIDE DEF first
      <4> QED BY <4>1, <4>2, FlattenAppend
    <3>3. FlattenSeq(first(k)) = SubSeq(rows, 1, End(k))
      BY <2>9, <3>1
    <3>4. SubSeq(rows, 1, End(k)) \o SubSeq(rows, End(k) + 1, End(k + 1))
            = SubSeq(rows, 1, End(k + 1))
      <4>1. 1 \in 1 .. n + 1 /\ End(k) \in 1 - 1 .. n /\ End(k + 1) \in End(k) .. n
        BY <2>1, <2>4, <3>1
      <4> QED BY <4>1, ConcatAdjacentSubSeq DEF n
    <3> QED BY <2>4, <3>1, <3>2, <3>3, <3>4
  <2> HIDE DEF T
  <2>10. q \in T
    BY <2>3, <2>8, <2>9, AllNat
  <2>11. End(q) = n
    BY <2>1, <2>3 DEF End
  <2>12. SubSeq(rows, 1, n) = rows
    BY SubSeqFull DEF n
  <2>13. FlattenSeq(first(q)) = rows
    <3> HIDE DEF first
    <3>1. FlattenSeq(first(q)) = SubSeq(rows, 1, End(q))
      BY <2>3, <2>10 DEF T
    <3> QED BY <2>11, <2>12, <3>1
  <2> QED BY <2>2, <2>3, <2>6, <2>13
<1> QED BY <1>1, <1>2

\* The chunks of a listing are the rows of a listing.
LEMMA ReaderReads ==
    ASSUME NEW files \in SUBSET Files
    PROVE  /\ iter_chunks(files) \in Seq(Seq(Nat))
           /\ Rows(files) \in Seq(Nat)
           /\ FlattenSeq(iter_chunks(files)) = Rows(files)
<1> DEFINE s == Listing(files)
           F == [k \in DOMAIN s |-> Chunks(Content[s[k]])]
           G == [k \in DOMAIN s |-> Content[s[k]]]
<1>1. s \in Seq(files)
  BY ListingIs
<1>2. iter_chunks(files) = FlattenSeq(F) /\ Rows(files) = FlattenSeq(G)
  BY DEF iter_chunks, Rows
<1> HIDE DEF s
<1>3. Len(s) \in Nat /\ DOMAIN s = 1 .. Len(s) /\ \A k \in 1 .. Len(s) : Content[s[k]] \in Seq(Nat)
  <2>1. Len(s) \in Nat /\ DOMAIN s = 1 .. Len(s)
    BY <1>1, LenProperties
  <2>2. \A k \in 1 .. Len(s) : s[k] \in Files
    BY <1>1, ElementOfSeq
  <2> QED BY <2>1, <2>2, TaskRunAssumption
<1>4. \A k \in 1 .. Len(s) : /\ Chunks(Content[s[k]]) \in Seq(Seq(Nat))
                             /\ FlattenSeq(Chunks(Content[s[k]])) = Content[s[k]]
  BY <1>3, ChunksCut
<1>5. F \in Seq(Seq(Seq(Nat))) /\ G \in Seq(Seq(Nat)) /\ Len(F) = Len(s) /\ Len(G) = Len(s)
  BY <1>3, <1>4
<1>6. \A k \in 1 .. Len(G) : FlattenSeq(F[k]) = G[k]
  BY <1>3, <1>4, <1>5
<1> HIDE DEF F, G
<1>7. FlattenSeq(F) \in Seq(Seq(Nat)) /\ FlattenSeq(G) \in Seq(Nat)
  BY <1>5, FlattenType
<1>8. FlattenSeq(FlattenSeq(F)) = FlattenSeq(G)
  BY <1>5, <1>6, FlattenPieces
<1> QED BY <1>2, <1>7, <1>8

-----------------------------------------------------------------------------
(* The statistics of a sequence of readings, as FoldLeft builds them up.   *)

Fed(f, r, S) == IF S = {} THEN NoStatistics ELSE LET x == Max(S) IN Add(f[S \ {x}], r[x])

Feeds(f, r, D) == f = [S \in SUBSET D |-> Fed(f, r, S)]

LEMMA FeedsOne ==
    ASSUME NEW D, NEW r, NEW f, Feeds(f, r, D), NEW S \in SUBSET D
    PROVE  f[S] = Fed(f, r, S)
BY Zenon DEF Feeds

LEMMA MaxIs ==
    ASSUME NEW S \in SUBSET Nat, NEW m \in S, \A x \in S : x <= m
    PROVE  Max(S) = m
<1>1. \A x \in S : (\A y \in S : x >= y) => x = m
  <2> SUFFICES ASSUME NEW x \in S, \A y \in S : x >= y PROVE x = m
    OBVIOUS
  <2>1. x >= m /\ x <= m /\ x \in Nat /\ m \in Nat
    OBVIOUS
  <2> QED BY <2>1
<1>2. \A y \in S : m >= y
  OBVIOUS
<1> QED BY <1>1, <1>2 DEF Max

LEMMA MinIs ==
    ASSUME NEW S \in SUBSET Nat, NEW m \in S, \A x \in S : m <= x
    PROVE  Min(S) = m
<1>1. \A x \in S : (\A y \in S : x <= y) => x = m
  <2> SUFFICES ASSUME NEW x \in S, \A y \in S : x <= y PROVE x = m
    OBVIOUS
  <2>1. x >= m /\ x <= m /\ x \in Nat /\ m \in Nat
    OBVIOUS
  <2> QED BY <2>1
<1> QED BY <1>1 DEF Min

LEMMA FedEmpty == ASSUME NEW f, NEW r PROVE Fed(f, r, {}) = NoStatistics
BY DEF Fed

LEMMA FedIs ==
    ASSUME NEW f, NEW r, NEW k \in Nat \ {0}
    PROVE  Fed(f, r, 1 .. k) = Add(f[1 .. k - 1], r[k])
<1>1. Max(1 .. k) = k
  BY MaxIs
<1>2. (1 .. k) \ {k} = 1 .. k - 1 /\ 1 .. k # {}
  OBVIOUS
<1> QED BY <1>1, <1>2 DEF Fed

LEMMA FeedsExist ==
    ASSUME NEW r, NEW D \in SUBSET Nat, IsFiniteSet(D)
    PROVE  \E f : Feeds(f, r, D)
<1> DEFINE Upto(n) == {S \in SUBSET D : Cardinality(S) <= n}
           P(n) == \E f : f = [S \in Upto(n) |-> Fed(f, r, S)]
           T == {n \in Nat : P(n)}
<1>0. \A S \in SUBSET D : /\ IsFiniteSet(S) /\ Cardinality(S) \in Nat
                          /\ Cardinality(S) = 0 => S = {}
                          /\ \A x \in S : Cardinality(S \ {x}) = Cardinality(S) - 1
  <2> SUFFICES ASSUME NEW S \in SUBSET D
               PROVE  /\ IsFiniteSet(S) /\ Cardinality(S) \in Nat
                      /\ Cardinality(S) = 0 => S = {}
                      /\ \A x \in S : Cardinality(S \ {x}) = Cardinality(S) - 1
    OBVIOUS
  <2>1. IsFiniteSet(S)
    BY FS_Subset
  <2> QED BY <2>1, FS_CardinalityType, FS_EmptySet, FS_RemoveElement
<1>1. 0 \in T
  <2> DEFINE f == [S \in Upto(0) |-> NoStatistics]
  <2>1. \A S \in Upto(0) : S = {}
    BY <1>0
  <2>2. \A S \in Upto(0) : Fed(f, r, S) = NoStatistics
    BY <2>1 DEF Fed
  <2>3. f = [S \in Upto(0) |-> Fed(f, r, S)]
    BY <2>2
  <2> HIDE DEF f
  <2> QED BY <2>3
<1>2. ASSUME NEW n \in Nat, n \in T PROVE n + 1 \in T
  <2>1. PICK f : f = [S \in Upto(n) |-> Fed(f, r, S)]
    BY <1>2
  <2> DEFINE h == [S \in Upto(n + 1) |-> Fed(f, r, S)]
  <2>2. \A S \in Upto(n) : f[S] = h[S]
    <3> SUFFICES ASSUME NEW S \in Upto(n) PROVE f[S] = h[S]
      OBVIOUS
    <3>1. S \in Upto(n + 1)
      BY <1>0
    <3>2. f[S] = Fed(f, r, S)
      BY <2>1, Zenon
    <3> HIDE DEF Upto
    <3> QED BY <3>1, <3>2
  <2>3. \A S \in Upto(n + 1) : Fed(f, r, S) = Fed(h, r, S)
    <3> SUFFICES ASSUME NEW S \in Upto(n + 1), S # {} PROVE Fed(f, r, S) = Fed(h, r, S)
      BY FedEmpty
    <3>1. Max(S) \in S
      <4>1. S \in SUBSET Nat /\ IsFiniteSet(S)
        BY FS_Subset
      <4>2. \E m \in S : \A y \in S : m >= y
        BY <4>1, MaxExists
      <4> QED BY <4>2 DEF Max
    <3>2. S \ {Max(S)} \in Upto(n)
      <4>1. Cardinality(S) \in Nat /\ Cardinality(S \ {Max(S)}) = Cardinality(S) - 1
        BY <1>0, <3>1
      <4>2. Cardinality(S) <= n + 1 /\ S \ {Max(S)} \in SUBSET D
        OBVIOUS
      <4>3. Cardinality(S \ {Max(S)}) <= n
        BY <4>1, <4>2
      <4> QED BY <4>2, <4>3
    <3>3. f[S \ {Max(S)}] = h[S \ {Max(S)}]
      <4> HIDE DEF h, Upto
      <4> QED BY <2>2, <3>2
    <3> HIDE DEF h, Upto
    <3> QED BY <3>3 DEF Fed
  <2>4. h = [S \in Upto(n + 1) |-> Fed(h, r, S)]
    BY <2>3
  <2> HIDE DEF h, Upto
  <2>5. P(n + 1)
    BY <2>4
  <2> HIDE DEF P
  <2> QED BY <2>5
<1> HIDE DEF T
<1>3. Nat \subseteq T
  BY <1>1, <1>2, AllNat
<1>4. Cardinality(D) \in Nat
  BY FS_CardinalityType
<1>5. P(Cardinality(D))
  BY <1>3, <1>4 DEF T
<1>6. Upto(Cardinality(D)) = SUBSET D
  BY FS_Subset
<1> QED BY <1>5, <1>6 DEF Feeds

LEMMA StatisticsAre ==
    ASSUME NEW r, NEW n \in Nat, DOMAIN r = 1 .. n
    PROVE  \E f : Feeds(f, r, 1 .. n) /\ Statistics(r) = f[1 .. n]
<1> DEFINE D == DOMAIN r
           f == CHOOSE f : f = [S \in SUBSET D |->
                                  IF S = {} THEN NoStatistics
                                  ELSE LET x == Max(S) IN Add(f[S \ {x}], r[x])]
<1>1. Statistics(r) = f[D]
  BY DEF Statistics, FoldLeft, MapThenFoldSet
<1>2. \E h : h = [S \in SUBSET D |->
                    IF S = {} THEN NoStatistics
                    ELSE LET x == Max(S) IN Add(h[S \ {x}], r[x])]
  <2>1. IsFiniteSet(D) /\ D \in SUBSET Nat
    BY FS_Interval
  <2>2. PICK h : Feeds(h, r, D)
    BY <2>1, FeedsExist
  <2> HIDE DEF D
  <2> QED BY <2>2, Zenon DEF Feeds, Fed
<1>3. f = [S \in SUBSET D |->
             IF S = {} THEN NoStatistics
             ELSE LET x == Max(S) IN Add(f[S \ {x}], r[x])]
  BY ONLY <1>2, Zenon
<1> HIDE DEF f
<1>4. Feeds(f, r, D)
  BY <1>3, Zenon DEF Feeds, Fed
<1> QED BY <1>1, <1>4

LEMMA StatisticsEmpty ==
    ASSUME NEW r, DOMAIN r = {}
    PROVE  Statistics(r) = NoStatistics
<1>1. DOMAIN r = 1 .. 0 /\ 0 \in Nat /\ {} = 1 .. 0
  OBVIOUS
<1>2. PICK f : Feeds(f, r, 1 .. 0) /\ Statistics(r) = f[1 .. 0]
  BY <1>1, StatisticsAre
<1> QED BY <1>1, <1>2, FeedsOne, FedEmpty

\* One more reading is one more add.
LEMMA StatisticsNext ==
    ASSUME NEW n \in Nat, NEW r, DOMAIN r = 1 .. n + 1, NEW q, q = [i \in 1 .. n |-> r[i]]
    PROVE  Statistics(r) = Add(Statistics(q), r[n + 1])
<1>1. n + 1 \in Nat \ {0} /\ DOMAIN q = 1 .. n /\ (n + 1) - 1 = n
  OBVIOUS
<1>2. PICK f : Feeds(f, r, 1 .. n + 1) /\ Statistics(r) = f[1 .. n + 1]
  BY <1>1, StatisticsAre
<1>3. PICK h : Feeds(h, q, 1 .. n) /\ Statistics(q) = h[1 .. n]
  BY <1>1, StatisticsAre
<1>4. f[1 .. n + 1] = Add(f[1 .. n], r[n + 1])
  BY <1>1, <1>2, FeedsOne, FedIs
<1> DEFINE T == {k \in Nat : k <= n => f[1 .. k] = h[1 .. k]}
<1>5. 0 \in T
  <2>1. 1 .. 0 = {} /\ {} \in SUBSET (1 .. n + 1) /\ {} \in SUBSET (1 .. n)
    OBVIOUS
  <2>2. f[{}] = NoStatistics /\ h[{}] = NoStatistics
    BY <1>2, <1>3, <2>1, FeedsOne, FedEmpty
  <2> QED BY <2>1, <2>2
<1>6. ASSUME NEW k \in Nat, k \in T PROVE k + 1 \in T
  <2> SUFFICES ASSUME k + 1 <= n PROVE f[1 .. k + 1] = h[1 .. k + 1]
    OBVIOUS
  <2>1. /\ 1 .. k + 1 \in SUBSET (1 .. n + 1) /\ 1 .. k + 1 \in SUBSET (1 .. n)
        /\ k + 1 \in Nat \ {0} /\ (k + 1) - 1 = k /\ r[k + 1] = q[k + 1] /\ k <= n
    OBVIOUS
  <2>2. f[1 .. k + 1] = Add(f[1 .. k], r[k + 1]) /\ h[1 .. k + 1] = Add(h[1 .. k], q[k + 1])
    <3>1. f[1 .. k + 1] = Fed(f, r, 1 .. k + 1) /\ h[1 .. k + 1] = Fed(h, q, 1 .. k + 1)
      BY <1>2, <1>3, <2>1, FeedsOne
    <3>2. /\ Fed(f, r, 1 .. k + 1) = Add(f[1 .. (k + 1) - 1], r[k + 1])
          /\ Fed(h, q, 1 .. k + 1) = Add(h[1 .. (k + 1) - 1], q[k + 1])
      BY <2>1, FedIs
    <3> QED BY <2>1, <3>1, <3>2
  <2>3. f[1 .. k] = h[1 .. k]
    BY <1>6, <2>1
  <2> HIDE DEF T
  <2> QED BY <2>1, <2>2, <2>3
<1> HIDE DEF T
<1>7. n \in T
  BY <1>5, <1>6, AllNat
<1> QED BY <1>2, <1>3, <1>4, <1>7 DEF T

-----------------------------------------------------------------------------
(* How many elements of a heap are at most v.                              *)

Cut(B, v) == [x \in {x \in DOMAIN B : x <= v} |-> B[x]]
Below(B, v) == BagCardinality(Cut(B, v))
One(condition) == IF condition THEN 1 ELSE 0

LEMMA CutIs ==
    ASSUME NEW B, Heap(B), NEW v \in Int
    PROVE  /\ Heap(Cut(B, v)) /\ BagToSet(Cut(B, v)) = {x \in BagToSet(B) : x <= v}
           /\ Below(B, v) \in Nat
<1> DEFINE D == {x \in DOMAIN B : x <= v}
<1>1. /\ \A x \in DOMAIN B : B[x] \in Nat \ {0}
      /\ IsFiniteSet(DOMAIN B) /\ DOMAIN B \subseteq Values
  BY HeapIs
<1>2. IsFiniteSet(D) /\ D \subseteq Values
  BY <1>1, FS_Subset
<1>3. Cut(B, v) = [x \in D |-> B[x]] /\ DOMAIN Cut(B, v) = D
  BY DEF Cut
<1>4. \A x \in D : Cut(B, v)[x] = B[x] /\ B[x] \in Nat \ {0}
  BY <1>1, <1>3
<1> HIDE DEF D
<1>5. Heap(Cut(B, v))
  BY <1>2, <1>3, <1>4, HeapIs
<1> QED BY <1>3, <1>5, HeapCounts DEF D, Below, BagToSet

LEMMA BelowPush ==
    ASSUME NEW B, Heap(B), NEW w \in Values, NEW v \in Int
    PROVE  Below(Push(B, w), v) = Below(B, v) + One(w <= v)
<1>0. w \in Nat /\ DOMAIN B \subseteq Nat
  BY UtilizationAssumption, HeapIs
<1>1. Heap(Cut(B, v)) /\ DOMAIN Cut(B, v) = {x \in DOMAIN B : x <= v} /\ Below(B, v) \in Nat
      /\ \A x \in DOMAIN B : x <= v => Cut(B, v)[x] = B[x]
  BY CutIs DEF BagToSet, Cut
<1>2. Push(B, w) = [x \in DOMAIN B \cup {w} |->
                      IF x = w THEN (IF w \in DOMAIN B THEN B[w] ELSE 0) + 1 ELSE B[x]]
  BY PushIs
<1>3. CASE w <= v
  <2> DEFINE C == Cut(B, v)
  <2>1. Push(C, w) = [x \in DOMAIN C \cup {w} |->
                        IF x = w THEN (IF w \in DOMAIN C THEN C[w] ELSE 0) + 1 ELSE C[x]]
    BY <1>1, PushIs
  <2>2. DOMAIN C \cup {w} = {x \in DOMAIN B \cup {w} : x <= v}
          /\ (w \in DOMAIN C <=> w \in DOMAIN B)
    BY <1>1, <1>3
  <2> HIDE DEF C
  <2>3. Push(C, w) = [x \in {x \in DOMAIN B \cup {w} : x <= v} |->
                        IF x = w THEN (IF w \in DOMAIN B THEN B[w] ELSE 0) + 1 ELSE B[x]]
    BY <1>1, <1>3, <2>1, <2>2 DEF C
  <2>4. Cut(Push(B, w), v) = [x \in {x \in DOMAIN B \cup {w} : x <= v} |->
                                IF x = w THEN (IF w \in DOMAIN B THEN B[w] ELSE 0) + 1 ELSE B[x]]
    BY <1>2 DEF Cut
  <2>5. BagCardinality(Push(C, w)) = BagCardinality(C) + 1
    BY <1>1, PushCounts DEF C
  <2> QED BY <1>3, <2>3, <2>4, <2>5 DEF Below, One, C
<1>4. CASE ~(w <= v)
  <2>1. {x \in DOMAIN B \cup {w} : x <= v} = {x \in DOMAIN B : x <= v}
    BY <1>4
  <2>2. Cut(Push(B, w), v) = Cut(B, v)
    BY <1>2, <1>4, <2>1 DEF Cut
  <2> QED BY <1>1, <1>4, <2>2 DEF Below, One
<1> QED BY <1>3, <1>4

LEMMA BelowDrop ==
    ASSUME NEW B, Heap(B), NEW w \in BagToSet(B), NEW v \in Int
    PROVE  Below(B, v) = Below(Drop(B, w), v) + One(w <= v)
<1>1. w \in Values
  BY HeapIs DEF BagToSet
<1>2. Heap(Drop(B, w)) /\ Push(Drop(B, w), w) = B
  BY DropIs
<1>3. Below(Push(Drop(B, w), w), v) = Below(Drop(B, w), v) + One(w <= v)
  BY <1>1, <1>2, BelowPush
<1> QED BY <1>2, <1>3

LEMMA BelowBound ==
    ASSUME NEW B, Heap(B), NEW v \in Int
    PROVE  Below(B, v) \in Nat /\ Below(B, v) <= BagCardinality(B)
<1> DEFINE T == {n \in Nat : \A C : Heap(C) /\ BagCardinality(C) = n => Below(C, v) <= n}
<1>1. 0 \in T
  <2> SUFFICES ASSUME NEW C, Heap(C), BagCardinality(C) = 0 PROVE Below(C, v) <= 0
    OBVIOUS
  <2>1. BagToSet(C) = {}
    BY HeapCounts
  <2>2. Heap(Cut(C, v)) /\ BagToSet(Cut(C, v)) = {}
    BY <2>1, CutIs
  <2>3. Below(C, v) = 0
    BY <2>2, HeapCounts DEF Below
  <2> QED BY <2>3
<1>2. ASSUME NEW n \in Nat, n \in T PROVE n + 1 \in T
  <2> SUFFICES ASSUME NEW C, Heap(C), BagCardinality(C) = n + 1 PROVE Below(C, v) <= n + 1
    OBVIOUS
  <2>1. PICK w \in BagToSet(C) : TRUE
    BY HeapCounts
  <2>2. Heap(Drop(C, w)) /\ BagCardinality(Drop(C, w)) = n
    BY DropIs, DropCounts
  <2>3. Below(Drop(C, w), v) <= n
    BY <1>2, <2>2
  <2>4. Below(C, v) = Below(Drop(C, w), v) + One(w <= v) /\ Below(Drop(C, w), v) \in Nat
    BY <2>2, BelowDrop, CutIs
  <2>5. One(w <= v) \in {0, 1}
    BY DEF One
  <2> QED BY <2>3, <2>4, <2>5
<1> HIDE DEF T
<1>3. BagCardinality(B) \in T
  BY <1>1, <1>2, AllNat, HeapCounts
<1> QED BY <1>3, CutIs DEF T

LEMMA BelowAll ==
    ASSUME NEW B, Heap(B), NEW v \in Int, \A x \in BagToSet(B) : x <= v
    PROVE  Below(B, v) = BagCardinality(B)
<1>1. B = [x \in DOMAIN B |-> B[x]] /\ {x \in DOMAIN B : x <= v} = DOMAIN B
  BY HeapIs DEF BagToSet
<1>2. Cut(B, v) = B
  BY <1>1 DEF Cut
<1> QED BY <1>2 DEF Below

LEMMA BelowNone ==
    ASSUME NEW B, Heap(B), NEW v \in Int, \A x \in BagToSet(B) : ~(x <= v)
    PROVE  Below(B, v) = 0
<1>1. Heap(Cut(B, v)) /\ BagToSet(Cut(B, v)) = {}
  BY CutIs
<1> QED BY <1>1, HeapCounts DEF Below

\* Together the heaps hold what they held, and the new reading.
Gains(lower, upper, s, v) ==
    /\ Halves(s.lower, s.upper)
    /\ BagToSet(s.lower) \cup BagToSet(s.upper) = BagToSet(lower) \cup BagToSet(upper) \cup {v}
    /\ BagCardinality(s.lower) + BagCardinality(s.upper)
         = BagCardinality(lower) + BagCardinality(upper) + 1
    /\ \A k \in Int : Below(s.lower, k) + Below(s.upper, k)
                        = Below(lower, k) + Below(upper, k) + One(v <= k)

LEMMA BalancedGains ==
    ASSUME NEW lower, NEW upper, Halves(lower, upper), NEW v \in Values
    PROVE  Gains(lower, upper, Balanced(Push(lower, v), upper), v)
<1> DEFINE pushed == Push(lower, v)
           t == Top(pushed)
           l == Drop(pushed, t)
           u == Push(upper, t)
           b == Bottom(u)
           s == Balanced(pushed, upper)
<1>1. Heap(lower) /\ Heap(upper) /\ Halves(s.lower, s.upper)
  BY BalancedHalves DEF Halves
<1>2. BagCardinality(lower) \in Nat /\ BagCardinality(upper) \in Nat
  BY <1>1, HeapCounts
<1>3. /\ Heap(pushed) /\ BagToSet(pushed) = BagToSet(lower) \cup {v}
      /\ BagCardinality(pushed) = BagCardinality(lower) + 1
      /\ \A k \in Int : Below(pushed, k) = Below(lower, k) + One(v <= k)
  BY <1>1, PushIs, PushCounts, BelowPush
<1>4. t \in BagToSet(pushed) /\ t \in Values
  BY <1>3, TopIs DEF Heap
<1>5. /\ Heap(l) /\ BagToSet(l) \cup {t} = BagToSet(pushed)
      /\ BagCardinality(l) \in Nat /\ BagCardinality(pushed) = BagCardinality(l) + 1
      /\ \A k \in Int : Below(pushed, k) = Below(l, k) + One(t <= k)
  <2>1. Heap(l) /\ BagToSet(l) \subseteq BagToSet(pushed)
          /\ BagToSet(pushed) \subseteq BagToSet(l) \cup {t}
    BY <1>3, <1>4, DropIs
  <2>2. BagCardinality(l) \in Nat /\ BagCardinality(pushed) = BagCardinality(l) + 1
    BY <1>3, <1>4, DropCounts
  <2>3. \A k \in Int : Below(pushed, k) = Below(l, k) + One(t <= k)
    BY <1>3, <1>4, BelowDrop
  <2> QED BY <1>4, <2>1, <2>2, <2>3
<1>6. /\ Heap(u) /\ BagToSet(u) = BagToSet(upper) \cup {t}
      /\ BagCardinality(u) = BagCardinality(upper) + 1
      /\ \A k \in Int : Below(u, k) = Below(upper, k) + One(t <= k)
  BY <1>1, <1>4, PushIs, PushCounts, BelowPush
<1>7. b \in BagToSet(u) /\ b \in Values
  BY <1>6, BottomIs DEF Heap
<1>8. s = IF BagCardinality(u) > BagCardinality(l)
          THEN [lower |-> Push(l, b), upper |-> Drop(u, b)]
          ELSE [lower |-> l, upper |-> u]
  BY DEF Balanced
<1> HIDE DEF pushed, t, l, u, b, s
<1>9. \A k \in Int : /\ Below(lower, k) \in Nat /\ Below(upper, k) \in Nat /\ Below(l, k) \in Nat
                     /\ Below(u, k) \in Nat
                     /\ One(v <= k) \in Nat /\ One(t <= k) \in Nat /\ One(b <= k) \in Nat
  BY <1>1, <1>5, <1>6, CutIs DEF One
<1>10. CASE BagCardinality(u) > BagCardinality(l)
  <2>1. s.lower = Push(l, b) /\ s.upper = Drop(u, b)
    BY <1>8, <1>10
  <2>2. /\ BagToSet(Push(l, b)) = BagToSet(l) \cup {b}
        /\ BagCardinality(Push(l, b)) = BagCardinality(l) + 1
        /\ \A k \in Int : Below(Push(l, b), k) = Below(l, k) + One(b <= k)
    <3>1. Heap(l) /\ b \in Values
      BY <1>5, <1>7
    <3>2. BagToSet(Push(l, b)) = BagToSet(l) \cup {b}
      BY ONLY <3>1, PushIs
    <3>3. BagCardinality(Push(l, b)) = BagCardinality(l) + 1
      BY ONLY <3>1, PushCounts
    <3>4. \A k \in Int : Below(Push(l, b), k) = Below(l, k) + One(b <= k)
      BY ONLY <3>1, BelowPush
    <3> QED BY <3>2, <3>3, <3>4
  <2>3. /\ BagToSet(Drop(u, b)) \cup {b} = BagToSet(u)
        /\ BagCardinality(Drop(u, b)) \in Nat /\ BagCardinality(u) = BagCardinality(Drop(u, b)) + 1
        /\ \A k \in Int : Below(u, k) = Below(Drop(u, b), k) + One(b <= k)
        /\ \A k \in Int : Below(Drop(u, b), k) \in Nat
    <3>1. Heap(Drop(u, b)) /\ BagToSet(Drop(u, b)) \subseteq BagToSet(u)
            /\ BagToSet(u) \subseteq BagToSet(Drop(u, b)) \cup {b}
      BY <1>6, <1>7, DropIs
    <3>2. BagCardinality(Drop(u, b)) \in Nat /\ BagCardinality(u) = BagCardinality(Drop(u, b)) + 1
      BY <1>6, <1>7, DropCounts
    <3>3. \A k \in Int : Below(u, k) = Below(Drop(u, b), k) + One(b <= k)
      BY <1>6, <1>7, BelowDrop
    <3>4. \A k \in Int : Below(Drop(u, b), k) \in Nat
      BY <3>1, CutIs
    <3> QED BY <1>7, <3>1, <3>2, <3>3, <3>4
  <2>4. BagToSet(s.lower) \cup BagToSet(s.upper) = BagToSet(lower) \cup BagToSet(upper) \cup {v}
    BY <1>3, <1>4, <1>5, <1>6, <2>1, <2>2, <2>3
  <2>5. BagCardinality(s.lower) + BagCardinality(s.upper)
          = BagCardinality(lower) + BagCardinality(upper) + 1
    BY <1>2, <1>3, <1>5, <1>6, <2>1, <2>2, <2>3
  <2>6. ASSUME NEW k \in Int
        PROVE  Below(s.lower, k) + Below(s.upper, k)
                 = Below(lower, k) + Below(upper, k) + One(v <= k)
    <3>1. /\ Below(lower, k) + One(v <= k) = Below(l, k) + One(t <= k)
          /\ Below(u, k) = Below(upper, k) + One(t <= k)
          /\ Below(s.lower, k) = Below(l, k) + One(b <= k)
          /\ Below(u, k) = Below(s.upper, k) + One(b <= k)
          /\ Below(s.upper, k) \in Nat
      BY <1>3, <1>5, <1>6, <2>1, <2>2, <2>3
    <3> QED BY <1>9, <3>1
  <2> QED BY <1>1, <2>4, <2>5, <2>6 DEF Gains, s, pushed
<1>11. CASE ~(BagCardinality(u) > BagCardinality(l))
  <2>1. s.lower = l /\ s.upper = u
    BY <1>8, <1>11
  <2>4. BagToSet(s.lower) \cup BagToSet(s.upper) = BagToSet(lower) \cup BagToSet(upper) \cup {v}
    BY <1>3, <1>4, <1>5, <1>6, <2>1
  <2>5. BagCardinality(s.lower) + BagCardinality(s.upper)
          = BagCardinality(lower) + BagCardinality(upper) + 1
    BY <1>2, <1>3, <1>5, <1>6, <2>1
  <2>6. ASSUME NEW k \in Int
        PROVE  Below(s.lower, k) + Below(s.upper, k)
                 = Below(lower, k) + Below(upper, k) + One(v <= k)
    <3>1. /\ Below(lower, k) + One(v <= k) = Below(l, k) + One(t <= k)
          /\ Below(u, k) = Below(upper, k) + One(t <= k)
      BY <1>3, <1>5, <1>6
    <3>2. /\ Below(lower, k) \in Nat /\ Below(upper, k) \in Nat /\ Below(l, k) \in Nat
          /\ Below(u, k) \in Nat /\ One(v <= k) \in Nat /\ One(t <= k) \in Nat
      BY <1>9
    <3>3. Below(l, k) + Below(u, k) = Below(lower, k) + Below(upper, k) + One(v <= k)
      BY <3>1, <3>2
    <3> QED BY <2>1, <3>3
  <2> QED BY <1>1, <2>4, <2>5, <2>6 DEF Gains, s, pushed
<1> QED BY <1>10, <1>11

-----------------------------------------------------------------------------
(* What the definitions say of one more reading.                           *)

Seen(r) == {r[i] : i \in Usable(r)}
Total(r) == MapThenSumSet(LAMBDA i : r[i], Usable(r))

LEMMA ReadingsAre ==
    ASSUME NEW n \in Nat, NEW r \in [1 .. n -> Values \cup {Unusable}]
    PROVE  /\ IsFiniteSet(Usable(r)) /\ Cardinality(Usable(r)) \in Nat
           /\ Seen(r) \subseteq Values /\ (Seen(r) = {} <=> Cardinality(Usable(r)) = 0)
           /\ \A i \in Usable(r) : r[i] \in Nat
           /\ \A v \in Int : AtMost(r, v) \in Nat
<1>1. IsFiniteSet(1 .. n) /\ DOMAIN r = 1 .. n
  BY FS_Interval
<1>2. IsFiniteSet(Usable(r)) /\ Cardinality(Usable(r)) \in Nat
  BY <1>1, FS_Subset, FS_CardinalityType DEF Usable
<1>3. Usable(r) = {} <=> Cardinality(Usable(r)) = 0
  BY <1>2, FS_EmptySet
<1>4. \A i \in Usable(r) : r[i] \in Values
  BY <1>1 DEF Usable
<1>5. \A v \in Int : AtMost(r, v) \in Nat
  <2> SUFFICES ASSUME NEW v \in Int PROVE AtMost(r, v) \in Nat
    OBVIOUS
  <2>1. IsFiniteSet({i \in Usable(r) : r[i] <= v})
    BY <1>2, FS_Subset
  <2> QED BY <2>1, FS_CardinalityType DEF AtMost
<1> QED BY <1>2, <1>3, <1>4, <1>5, UtilizationAssumption DEF Seen

LEMMA ReadingsSkip ==
    ASSUME NEW n \in Nat, NEW r \in [1 .. n + 1 -> Values \cup {Unusable}], r[n + 1] = Unusable,
           NEW q, q = [i \in 1 .. n |-> r[i]]
    PROVE  /\ Usable(r) = Usable(q) /\ Seen(r) = Seen(q)
           /\ \A v \in Int : AtMost(r, v) = AtMost(q, v)
<1>1. Usable(r) = Usable(q)
  BY DEF Usable
<1>2. \A i \in Usable(q) : r[i] = q[i]
  BY DEF Usable
<1>3. Seen(r) = Seen(q)
  BY <1>1, <1>2 DEF Seen
<1>4. \A v \in Int : {i \in Usable(r) : r[i] <= v} = {i \in Usable(q) : q[i] <= v}
  BY <1>1, <1>2
<1> QED BY <1>1, <1>3, <1>4 DEF AtMost

LEMMA ReadingsGain ==
    ASSUME NEW n \in Nat, NEW r \in [1 .. n + 1 -> Values \cup {Unusable}], r[n + 1] # Unusable,
           NEW q, q = [i \in 1 .. n |-> r[i]]
    PROVE  /\ Usable(r) = Usable(q) \cup {n + 1} /\ n + 1 \notin Usable(q)
           /\ Seen(r) = Seen(q) \cup {r[n + 1]}
           /\ Cardinality(Usable(r)) = Cardinality(Usable(q)) + 1
           /\ \A v \in Int : AtMost(r, v) = AtMost(q, v) + One(r[n + 1] <= v)
<1>0. n + 1 \in 1 .. n + 1 /\ 1 .. n + 1 = (1 .. n) \cup {n + 1} /\ n + 1 \notin 1 .. n
  OBVIOUS
<1>1. Usable(r) = Usable(q) \cup {n + 1} /\ n + 1 \notin Usable(q)
  BY <1>0 DEF Usable
<1>2. \A i \in Usable(q) : r[i] = q[i]
  BY DEF Usable
<1>3. Seen(r) = Seen(q) \cup {r[n + 1]}
  <2>1. Seen(q) = {r[i] : i \in Usable(q)}
    BY ONLY <1>2, Zenon DEF Seen
  <2> QED BY ONLY <1>1, <2>1, Zenon DEF Seen
<1>4. IsFiniteSet(Usable(q))
  <2>1. Usable(q) \subseteq 1 .. n /\ IsFiniteSet(1 .. n)
    BY FS_Interval DEF Usable
  <2> QED BY <2>1, FS_Subset
<1>5. Cardinality(Usable(r)) = Cardinality(Usable(q)) + 1
  BY <1>1, <1>4, FS_AddElement
<1>6. ASSUME NEW v \in Int PROVE AtMost(r, v) = AtMost(q, v) + One(r[n + 1] <= v)
  <2> DEFINE S == {i \in Usable(q) : q[i] <= v}
  <2>1. IsFiniteSet(S) /\ n + 1 \notin S
    BY <1>1, <1>4, FS_Subset
  <2>2. Cardinality(S \cup {n + 1}) = Cardinality(S) + 1 /\ Cardinality(S) \in Nat
    BY <2>1, FS_AddElement, FS_CardinalityType
  <2>3. {i \in Usable(r) : r[i] <= v} = IF r[n + 1] <= v THEN S \cup {n + 1} ELSE S
    BY <1>1, <1>2
  <2> HIDE DEF S
  <2>4. AtMost(r, v) = IF r[n + 1] <= v THEN Cardinality(S \cup {n + 1}) ELSE Cardinality(S)
    BY <2>3 DEF AtMost
  <2>5. AtMost(q, v) = Cardinality(S)
    BY DEF AtMost, S
  <2> QED BY <2>2, <2>4, <2>5 DEF One
<1> QED BY <1>1, <1>3, <1>5, <1>6

\* Sums over the usable readings.
LEMMA TotalSame ==
    ASSUME NEW n \in Nat, NEW r \in [1 .. n + 1 -> Values \cup {Unusable}],
           NEW q, q = [i \in 1 .. n |-> r[i]]
    PROVE  /\ Total(q) \in Nat
           /\ r[n + 1] = Unusable => Total(r) = Total(q)
           /\ r[n + 1] # Unusable => Total(r) = Total(q) + r[n + 1]
<1> DEFINE D == Usable(q)
           E == Usable(r)
<1>1. q \in [1 .. n -> Values \cup {Unusable}] /\ n + 1 \in Nat /\ n + 1 \in 1 .. n + 1
  OBVIOUS
<1>2. IsFiniteSet(D) /\ (\A i \in D : q[i] \in Nat) /\ IsFiniteSet(E) /\ (\A i \in E : r[i] \in Nat)
  BY <1>1, ReadingsAre
<1>3. IsFiniteSet(DOMAIN q) /\ IsFiniteSet(DOMAIN r)
  BY <1>1, FS_Interval
<1>4. PICK g : Sums(g, q, D) /\ Total(q) = g[D]
  <2>1. \E g : Sums(g, q, Usable(q)) /\ MapThenSumSet(LAMBDA i : q[i], Usable(q)) = g[Usable(q)]
    BY ONLY <1>3, TotalIs
  <2> QED BY <2>1 DEF Total
<1>5. PICK h : Sums(h, r, E) /\ Total(r) = h[E]
  BY <1>3, TotalIs DEF Total
<1>6. D \subseteq E /\ \A i \in D : q[i] = r[i]
  BY <1>1 DEF Usable
<1>7. r[n + 1] = Unusable => E = D
  BY ReadingsSkip
<1>8. r[n + 1] # Unusable => E = D \cup {n + 1} /\ n + 1 \notin D
  BY ReadingsGain
<1> HIDE DEF D, E
<1>9. g[D] = h[D]
  <2>1. D \in SUBSET D
    OBVIOUS
  <2> QED BY ONLY <1>2, <1>4, <1>5, <1>6, <2>1, SumsSame
<1>10. g[D] \in Nat
  <2>1. D \in SUBSET D
    OBVIOUS
  <2> QED BY <1>2, <1>4, <2>1, SumsTake
<1>11. ASSUME r[n + 1] # Unusable PROVE h[E] = h[D] + r[n + 1]
  <2>1. E \in SUBSET E /\ n + 1 \in E /\ E \ {n + 1} = D
    BY <1>8, <1>11
  <2>2. h[E] = r[n + 1] + h[E \ {n + 1}]
    BY <1>2, <1>5, <2>1, SumsTake
  <2>3. r[n + 1] \in Nat /\ h[D] \in Nat
    BY <1>2, <1>9, <1>10, <2>1
  <2>4. h[E] = r[n + 1] + h[D]
    BY <2>1, <2>2
  <2> DEFINE x == r[n + 1]
  <2> HIDE DEF x
  <2> QED BY <2>3, <2>4 DEF x
<1> QED BY <1>4, <1>5, <1>7, <1>9, <1>10, <1>11

-----------------------------------------------------------------------------
(* The statistics of a sequence of readings against its definition.        *)

Told(s, r) ==
    /\ Halves(s.lower, s.upper)
    /\ BagToSet(s.lower) \cup BagToSet(s.upper) = Seen(r)
    /\ BagCardinality(s.lower) + BagCardinality(s.upper) = Cardinality(Usable(r))
    /\ \A v \in Int : Below(s.lower, v) + Below(s.upper, v) = AtMost(r, v)
    /\ s.total = Total(r)
    /\ Seen(r) = {} => s.minimum = Untouched /\ s.maximum = Untouched
    /\ Seen(r) # {} => /\ s.minimum \in Seen(r) /\ \A x \in Seen(r) : s.minimum <= x
                       /\ s.maximum \in Seen(r) /\ \A x \in Seen(r) : x <= s.maximum

LEMMA ToldNothing ==
    ASSUME NEW r, DOMAIN r = {}
    PROVE  Told(NoStatistics, r)
<1>1. Usable(r) = {} /\ Seen(r) = {} /\ \A v \in Int : {i \in Usable(r) : r[i] <= v} = {}
  BY DEF Usable, Seen
<1>2. Cardinality(Usable(r)) = 0 /\ \A v \in Int : AtMost(r, v) = 0
  BY <1>1, FS_EmptySet DEF AtMost
<1>3. Total(r) = 0
  <2>1. PICK g : Sums(g, r, Usable(r)) /\ Total(r) = g[Usable(r)]
    BY FS_EmptySet, TotalIs DEF Total
  <2> QED BY <1>1, <2>1, SumsOne, AddsEmpty
<1>4. Heap(EmptyBag) /\ BagCardinality(EmptyBag) = 0 /\ BagToSet(EmptyBag) = {}
  BY HeapEmpty
<1>5. \A v \in Int : Below(EmptyBag, v) = 0
  BY <1>4, BelowNone
<1>6. Halves(EmptyBag, EmptyBag)
  BY <1>4 DEF Halves
<1> HIDE DEF EmptyBag
<1> QED BY <1>1, <1>2, <1>3, <1>4, <1>5, <1>6 DEF NoStatistics, Told

LEMMA ToldNext ==
    ASSUME NEW n \in Nat, NEW r \in [1 .. n + 1 -> Values \cup {Unusable}],
           NEW q, q = [i \in 1 .. n |-> r[i]], NEW s, Told(s, q)
    PROVE  Told(Add(s, r[n + 1]), r)
<1> DEFINE v == r[n + 1]
           a == Add(s, v)
<1>0. Seen(q) \subseteq Nat
  <2>1. q \in [1 .. n -> Values \cup {Unusable}]
    OBVIOUS
  <2> QED BY <2>1, ReadingsAre, UtilizationAssumption
<1>1. CASE v = Unusable
  <2>1. a = s
    BY <1>1 DEF Add
  <2>2. /\ Usable(r) = Usable(q) /\ Seen(r) = Seen(q)
        /\ \A k \in Int : AtMost(r, k) = AtMost(q, k)
        /\ Total(r) = Total(q)
    BY <1>1, ReadingsSkip, TotalSame
  <2> QED BY <2>1, <2>2 DEF Told
<1>2. CASE v # Unusable
  <2>1. v \in Values /\ v \in Nat
    <3>1. n + 1 \in 1 .. n + 1
      OBVIOUS
    <3> QED BY <1>2, <3>1, UtilizationAssumption
  <2>2. /\ Seen(r) = Seen(q) \cup {v}
        /\ Cardinality(Usable(r)) = Cardinality(Usable(q)) + 1
        /\ \A k \in Int : AtMost(r, k) = AtMost(q, k) + One(v <= k)
        /\ Total(r) = Total(q) + v
    BY <1>2, ReadingsGain, TotalSame
  <2> DEFINE heaps == Balanced(Push(s.lower, v), s.upper)
  <2>3. Gains(s.lower, s.upper, heaps, v)
    BY <2>1, BalancedGains DEF Told
  <2> HIDE DEF heaps
  <2>4. a = [lower |-> heaps.lower, upper |-> heaps.upper, total |-> s.total + v,
             minimum |-> IF s.minimum = Untouched THEN v ELSE Min({s.minimum, v}),
             maximum |-> IF s.maximum = Untouched THEN v ELSE Max({s.maximum, v})]
    BY <1>2 DEF Add, heaps
  <2> HIDE DEF a, v
  <2>5. /\ Halves(a.lower, a.upper)
        /\ BagToSet(a.lower) \cup BagToSet(a.upper) = Seen(r)
        /\ BagCardinality(a.lower) + BagCardinality(a.upper) = Cardinality(Usable(r))
        /\ \A k \in Int : Below(a.lower, k) + Below(a.upper, k) = AtMost(r, k)
    <3>1. a.lower = heaps.lower /\ a.upper = heaps.upper
      BY <2>4
    <3>2. /\ BagToSet(s.lower) \cup BagToSet(s.upper) = Seen(q)
          /\ BagCardinality(s.lower) + BagCardinality(s.upper) = Cardinality(Usable(q))
          /\ \A k \in Int : Below(s.lower, k) + Below(s.upper, k) = AtMost(q, k)
      BY DEF Told
    <3> QED BY <2>2, <2>3, <3>1, <3>2 DEF Gains
  <2>6. a.total = Total(r)
    BY <2>2, <2>4 DEF Told
  <2>7. /\ a.minimum \in Seen(r) /\ \A x \in Seen(r) : a.minimum <= x
        /\ a.maximum \in Seen(r) /\ \A x \in Seen(r) : x <= a.maximum
    <3>1. CASE Seen(q) = {}
      <4>1. a.minimum = v /\ a.maximum = v /\ Seen(r) = {v}
        BY <2>2, <2>4, <3>1 DEF Told
      <4> QED BY <2>1, <4>1
    <3>2. CASE Seen(q) # {}
      <4>1. /\ s.minimum \in Seen(q) /\ \A x \in Seen(q) : s.minimum <= x
            /\ s.maximum \in Seen(q) /\ \A x \in Seen(q) : x <= s.maximum
        BY <3>2 DEF Told
      <4>2. s.minimum \in Nat /\ s.maximum \in Nat /\ s.minimum # Untouched /\ s.maximum # Untouched
        BY <1>0, <4>1 DEF Untouched
      <4>3. a.minimum = Min({s.minimum, v}) /\ a.maximum = Max({s.maximum, v})
        BY <2>4, <4>2
      <4>4. a.minimum = IF s.minimum <= v THEN s.minimum ELSE v
        BY <2>1, <4>2, <4>3, MinOfTwo
      <4>5. a.maximum = IF v <= s.maximum THEN s.maximum ELSE v
        <5>1. CASE v <= s.maximum
          BY <2>1, <4>2, <4>3, <5>1, MaxIs
        <5>2. CASE ~(v <= s.maximum)
          BY <2>1, <4>2, <4>3, <5>2, MaxIs
        <5> QED BY <5>1, <5>2
      <4>6. /\ a.minimum \in Seen(r) /\ a.minimum \in Nat /\ a.minimum <= s.minimum
                 /\ a.minimum <= v
            /\ a.maximum \in Seen(r) /\ a.maximum \in Nat /\ s.maximum <= a.maximum
                 /\ v <= a.maximum
        BY <2>1, <2>2, <4>1, <4>2, <4>4, <4>5
      <4>7. \A x \in Seen(q) : x \in Nat /\ a.minimum <= x /\ x <= a.maximum
        BY <1>0, <4>1, <4>2, <4>6
      <4> QED BY <2>2, <4>6, <4>7
    <3> QED BY <3>1, <3>2
  <2> QED BY <2>2, <2>5, <2>6, <2>7 DEF Told, a, v
<1> QED BY <1>1, <1>2

LEMMA StatisticsTold ==
    ASSUME NEW n \in Nat, NEW r \in [1 .. n -> Values \cup {Unusable}]
    PROVE  Told(Statistics(r), r)
<1> DEFINE T == {k \in Nat : \A p \in [1 .. k -> Values \cup {Unusable}] : Told(Statistics(p), p)}
<1>1. 0 \in T
  <2> SUFFICES ASSUME NEW p \in [1 .. 0 -> Values \cup {Unusable}] PROVE Told(Statistics(p), p)
    OBVIOUS
  <2>1. DOMAIN p = {}
    OBVIOUS
  <2> QED BY <2>1, StatisticsEmpty, ToldNothing
<1>2. ASSUME NEW k \in Nat, k \in T PROVE k + 1 \in T
  <2> SUFFICES ASSUME NEW p \in [1 .. k + 1 -> Values \cup {Unusable}] PROVE Told(Statistics(p), p)
    OBVIOUS
  <2> DEFINE q == [i \in 1 .. k |-> p[i]]
  <2>1. q \in [1 .. k -> Values \cup {Unusable}] /\ DOMAIN p = 1 .. k + 1
    OBVIOUS
  <2>2. Told(Statistics(q), q)
    BY <1>2, <2>1
  <2>3. q = [i \in 1 .. k |-> p[i]]
    OBVIOUS
  <2> HIDE DEF q, T
  <2>4. Statistics(p) = Add(Statistics(q), p[k + 1])
    BY <2>1, <2>3, StatisticsNext
  <2>5. Told(Add(Statistics(q), p[k + 1]), p)
    <3>1. k \in Nat /\ p \in [1 .. k + 1 -> Values \cup {Unusable}]
      OBVIOUS
    <3> QED BY ONLY <2>2, <2>3, <3>1, ToldNext, SMTT(30)
  <2> QED BY <2>4, <2>5
<1> HIDE DEF T
<1>3. n \in T
  BY <1>1, <1>2, AllNat
<1> QED BY <1>3 DEF T

\* At most one reading has a given rank.
LEMMA RankedIs ==
    ASSUME NEW n \in Nat, NEW r \in [1 .. n -> Values \cup {Unusable}], NEW k \in Nat,
           NEW v \in Values, AtMost(r, v) >= k, AtMost(r, v - 1) < k
    PROVE  Ranked(r, k) = v
<1>0. Values \subseteq Nat
  BY UtilizationAssumption
<1>1. ASSUME NEW a \in Int, NEW b \in Int, a <= b PROVE AtMost(r, a) <= AtMost(r, b)
  <2> DEFINE A == {i \in Usable(r) : r[i] <= a}
             B == {i \in Usable(r) : r[i] <= b}
  <2>1. A \subseteq B
    <3>1. \A i \in Usable(r) : r[i] \in Nat
      BY ReadingsAre
    <3> QED BY <1>1, <3>1
  <2>2. IsFiniteSet(B)
    BY ReadingsAre, FS_Subset
  <2>3. Cardinality(A) <= Cardinality(B)
    <3> HIDE DEF A, B
    <3> QED BY <2>1, <2>2, FS_Subset
  <2> QED BY <2>3 DEF AtMost
<1>2. \A a \in Int : AtMost(r, a) \in Nat
  BY ReadingsAre
<1>3. ASSUME NEW w \in Values, AtMost(r, w) >= k, AtMost(r, w - 1) < k PROVE w = v
  <2>1. v \in Int /\ w \in Int /\ v - 1 \in Int /\ w - 1 \in Int
    BY <1>0
  <2>2. ~(v <= w - 1) /\ ~(w <= v - 1)
    <3>1. /\ v <= w - 1 => AtMost(r, v) <= AtMost(r, w - 1)
          /\ w <= v - 1 => AtMost(r, w) <= AtMost(r, v - 1)
      BY <1>1, <2>1
    <3>2. /\ AtMost(r, v) \in Nat /\ AtMost(r, w) \in Nat
          /\ AtMost(r, v - 1) \in Nat /\ AtMost(r, w - 1) \in Nat
      BY <1>2, <2>1
    <3> QED BY <1>3, <3>1, <3>2
  <2> QED BY <2>1, <2>2
<1> QED BY <1>3 DEF Ranked

\* The two tops of the heaps are the two middle readings.
LEMMA MiddleIs ==
    ASSUME NEW n \in Nat, NEW r \in [1 .. n -> Values \cup {Unusable}], NEW s, Told(s, r),
           NEW a, a = BagCardinality(s.lower), NEW c, c = BagCardinality(s.upper), a + c # 0
    PROVE  /\ Ranked(r, a) = Top(s.lower)
           /\ a = c => Ranked(r, a + 1) = Bottom(s.upper)
           /\ a \in Nat \ {0} /\ c \in Nat /\ a - c \in {0, 1}
           /\ Top(s.lower) \in Nat /\ (a = c => Bottom(s.upper) \in Nat)
<1> DEFINE l == s.lower
           u == s.upper
           t == Top(l)
           b == Bottom(u)
<1>1. /\ Heap(l) /\ Heap(u) /\ \A x \in BagToSet(l), w \in BagToSet(u) : x <= w
      /\ a - c \in {0, 1}
      /\ \A v \in Int : Below(l, v) + Below(u, v) = AtMost(r, v)
  BY DEF Told, Halves
<1>2. a \in Nat /\ c \in Nat /\ (a = 0 <=> BagToSet(l) = {}) /\ (c = 0 <=> BagToSet(u) = {})
  BY <1>1, HeapCounts
<1>3. a # 0
  BY <1>1, <1>2
<1>4. Values \subseteq Nat
  BY UtilizationAssumption
<1>5. t \in BagToSet(l) /\ (\A x \in BagToSet(l) : x <= t) /\ t \in Values
  BY <1>1, <1>2, <1>3, TopIs DEF Heap
<1> HIDE DEF l, u, t, b
<1>6. t \in Nat /\ t - 1 \in Int /\ BagToSet(l) \subseteq Nat /\ BagToSet(u) \subseteq Nat
  <2>1. t \in Nat /\ t - 1 \in Int
    BY <1>4, <1>5
  <2>2. BagToSet(l) \subseteq Values /\ BagToSet(u) \subseteq Values
    BY <1>1 DEF Heap
  <2> QED BY <1>4, <2>1, <2>2
<1>7. Ranked(r, a) = t
  <2>1. Below(l, t) = a
    BY <1>1, <1>5, <1>6, BelowAll DEF l
  <2>2. Below(u, t) \in Nat
    <3>1. Heap(u) /\ t \in Int
      BY <1>1, <1>6
    <3> QED BY ONLY <3>1, CutIs
  <2>3. AtMost(r, t) >= a
    <3>1. Below(l, t) + Below(u, t) = AtMost(r, t)
      BY <1>1, <1>6
    <3> QED BY <1>2, <2>1, <2>2, <3>1
  <2>4. Below(l, t - 1) < a
    <3>1. Heap(Drop(l, t)) /\ BagCardinality(Drop(l, t)) \in Nat
            /\ BagCardinality(Drop(l, t)) + 1 = a
      BY <1>1, <1>5, DropIs, DropCounts DEF l
    <3>2. Below(Drop(l, t), t - 1) \in Nat /\ Below(Drop(l, t), t - 1) <= BagCardinality(Drop(l, t))
      BY <1>6, <3>1, BelowBound
    <3>3. Below(l, t - 1) = Below(Drop(l, t), t - 1) + One(t <= t - 1)
      BY <1>1, <1>5, <1>6, BelowDrop
    <3>4. One(t <= t - 1) = 0
      BY <1>6 DEF One
    <3> QED BY <1>2, <3>1, <3>2, <3>3, <3>4
  <2>5. Below(u, t - 1) = 0
    <3>1. \A x \in BagToSet(u) : ~(x <= t - 1)
      <4> SUFFICES ASSUME NEW x \in BagToSet(u) PROVE ~(x <= t - 1)
        OBVIOUS
      <4>1. t <= x /\ x \in Nat
        BY <1>1, <1>5, <1>6
      <4> QED BY <1>6, <4>1
    <3> QED BY <1>1, <1>6, <3>1, BelowNone
  <2>6. AtMost(r, t - 1) < a
    <3>1. Below(l, t - 1) + Below(u, t - 1) = AtMost(r, t - 1) /\ Below(l, t - 1) \in Nat
      BY <1>1, <1>6, CutIs
    <3> QED BY <2>4, <2>5, <3>1
  <2> QED BY <1>2, <1>5, <2>3, <2>6, RankedIs
<1>8. ASSUME a = c PROVE Ranked(r, a + 1) = b /\ b \in Nat
  <2>1. b \in BagToSet(u) /\ (\A x \in BagToSet(u) : b <= x) /\ b \in Values
    BY <1>1, <1>2, <1>3, <1>8, BottomIs DEF Heap, b
  <2>2. b \in Nat /\ b - 1 \in Int
    BY <1>4, <2>1
  <2>3. Below(l, b) = a
    <3>1. \A x \in BagToSet(l) : x <= b
      BY <1>1, <2>1
    <3> QED BY <1>1, <2>2, <3>1, BelowAll DEF l
  <2>4. Below(u, b) >= 1
    <3>1. Heap(Drop(u, b)) /\ Below(Drop(u, b), b) \in Nat
      BY <1>1, <2>1, <2>2, DropIs, CutIs
    <3>2. Below(u, b) = Below(Drop(u, b), b) + One(b <= b)
      BY <1>1, <2>1, <2>2, BelowDrop
    <3>3. One(b <= b) = 1
      BY <2>2 DEF One
    <3> QED BY <3>1, <3>2, <3>3
  <2>5. AtMost(r, b) >= a + 1
    <3>1. Below(l, b) + Below(u, b) = AtMost(r, b)
      BY <1>1, <2>2
    <3>2. Below(u, b) \in Nat
      <4>1. Heap(u) /\ b \in Int
        BY <1>1, <2>2
      <4> QED BY ONLY <4>1, CutIs
    <3> QED BY <1>2, <2>3, <2>4, <3>1, <3>2
  <2>6. AtMost(r, b - 1) < a + 1
    <3>1. Below(l, b - 1) <= a /\ Below(l, b - 1) \in Nat
      BY <1>1, <2>2, BelowBound DEF l
    <3>2. Below(u, b - 1) = 0
      <4>1. \A x \in BagToSet(u) : ~(x <= b - 1)
        <5> SUFFICES ASSUME NEW x \in BagToSet(u) PROVE ~(x <= b - 1)
          OBVIOUS
        <5>1. b <= x /\ x \in Nat
          BY <1>6, <2>1
        <5> QED BY <2>2, <5>1
      <4> QED BY <1>1, <2>2, <4>1, BelowNone
    <3>3. Below(l, b - 1) + Below(u, b - 1) = AtMost(r, b - 1)
      BY <1>1, <2>2
    <3> QED BY <1>2, <3>1, <3>2, <3>3
  <2>7. a + 1 \in Nat
    BY <1>2
  <2> QED BY <2>1, <2>2, <2>5, <2>6, <2>7, RankedIs
<1> QED BY <1>1, <1>2, <1>3, <1>6, <1>7, <1>8 DEF l, u, t, b

LEMMA SnapshotIs ==
    ASSUME NEW n \in Nat, NEW r \in [1 .. n -> Values \cup {Unusable}], NEW s, Told(s, r)
    PROVE  Snapshot(s) = Reference(r)
<1> DEFINE a == BagCardinality(s.lower)
           c == BagCardinality(s.upper)
           m == Cardinality(Usable(r))
<1>1. a + c = m
  BY DEF Told
<1>2. Heap(s.lower) /\ Heap(s.upper)
  BY DEF Told, Halves
<1>3. a \in Nat /\ c \in Nat
  BY <1>2, HeapCounts
<1>4. Snapshot(s) = IF a + c = 0 THEN [samples |-> 0]
                    ELSE [samples |-> a + c, min |-> s.minimum, max |-> s.maximum,
                          total |-> s.total,
                          median2 |-> Top(s.lower)
                                      + IF a = c THEN Bottom(s.upper) ELSE Top(s.lower)]
  BY DEF Snapshot
<1>5. Reference(r) = IF m = 0 THEN [samples |-> 0]
                     ELSE [samples |-> m, min |-> Min(Seen(r)), max |-> Max(Seen(r)),
                           total |-> Total(r),
                           median2 |-> Ranked(r, (m + 1) \div 2) + Ranked(r, m \div 2 + 1)]
  BY DEF Reference, Seen, Total
<1> HIDE DEF a, c, m
<1>6. CASE m = 0
  BY <1>1, <1>4, <1>5, <1>6
<1>7. CASE m # 0
  <2>1. /\ Ranked(r, a) = Top(s.lower)
        /\ a = c => Ranked(r, a + 1) = Bottom(s.upper)
        /\ a - c \in {0, 1}
    <3>1. a + c # 0
      BY <1>1, <1>7
    <3> QED BY <3>1, MiddleIs DEF a, c
  <2>2. /\ (m + 1) \div 2 = a
        /\ m \div 2 + 1 = IF a = c THEN a + 1 ELSE a
    <3>1. CASE a = c
      <4>1. m = 2 * a
        BY <1>1, <1>3, <3>1
      <4> QED BY <1>3, <3>1, <4>1
    <3>2. CASE a = c + 1
      <4>1. m = 2 * a - 1
        BY <1>1, <1>3, <3>2
      <4> QED BY <1>3, <3>2, <4>1
    <3> QED BY <1>3, <2>1, <3>1, <3>2
  <2>3. /\ s.minimum \in Seen(r) /\ \A x \in Seen(r) : s.minimum <= x
        /\ s.maximum \in Seen(r) /\ \A x \in Seen(r) : x <= s.maximum
        /\ Seen(r) \in SUBSET Nat /\ s.total = Total(r)
    BY <1>7, ReadingsAre, UtilizationAssumption DEF Told, m
  <2>4. Min(Seen(r)) = s.minimum /\ Max(Seen(r)) = s.maximum
    BY <2>3, MinIs, MaxIs
  <2>5. Ranked(r, (m + 1) \div 2) + Ranked(r, m \div 2 + 1)
          = Top(s.lower) + IF a = c THEN Bottom(s.upper) ELSE Top(s.lower)
    BY <2>1, <2>2
  <2> QED BY <1>1, <1>4, <1>5, <1>7, <2>3, <2>4, <2>5
<1> QED BY <1>6, <1>7

\* RunningStatistics gives the exact statistics of every sequence of readings.
LEMMA HeapsAgree == HeapsAgreeWithReference
<1> SUFFICES ASSUME NEW n \in 0 .. MaxReadings, NEW r \in [1 .. n -> Values \cup {Unusable}]
             PROVE  Snapshot(Statistics(r)) = Reference(r)
  BY DEF HeapsAgreeWithReference
<1>1. n \in Nat
  BY UtilizationAssumption
<1> QED BY <1>1, StatisticsTold, SnapshotIs

-----------------------------------------------------------------------------
(* The data of a run.                                                      *)

Stages == {"idle", "begin", "load", "validate", "count", "inspect", "next", "infer", "write",
           "complete", "publish", "close", "stop", "join"}
Types == {"double", "string", "int64"}
Runs == 1 .. MaxRuns

RunState ==
    [at : Stages, id : 0 .. MaxRuns, total : {None} \cup Nat, left : {None} \cup Seq(Seq(Nat)),
     chunk : Seq(Nat), result : Seq(Nat), expected : {None} \cup Dtypes,
     output_dtypes : {None} \cup Dtypes, processed : Nat, part : 1 .. MaxParts + 1,
     schema : {None} \cup Types, failed : BOOLEAN, measured : BOOLEAN]

Typed ==
    /\ input \subseteq Files
    /\ word \in {"go", "cancel", "final", "over"}
    /\ stopping \in BOOLEAN
    /\ held \subseteq Runs
    /\ marker \in {None} \cup Runs
    /\ run \in RunState
    /\ run.at = "idle" \/ run.id \in Runs
    /\ out \in [1 .. MaxParts -> {Absent} \cup [run : Runs, rows : Seq(Nat), schema : Types]]
    /\ source \in [rows : Seq(Nat), total : {None} \cup Nat, run : 0 .. MaxRuns]

\* The reader has been opened, and the run is not over.
Reading == run.at \in {"next", "infer", "write", "complete", "publish"} /\ run.left # None

\* Before that the run has done nothing; it opens the reader with a count of
\* rows, and over an output prefix that is empty.
Unopened ==
    /\ run.at \in {"begin", "load", "validate", "count", "inspect"} => run.left = None
    /\ run.at \in {"begin", "load", "validate", "count", "inspect", "next"} /\ run.left = None =>
          run.part = 1 /\ run.processed = 0 /\ run.schema = None /\ ~run.failed
    /\ run.at \in {"infer", "write", "complete", "publish"} => run.left # None
    /\ run.at = "next" /\ run.left = None => Parts = {} /\ marker = None

Current == IF run.at \in {"infer", "write"} THEN run.chunk ELSE << >>

\* From then on the parts are those of this run, and the rows in them, those of
\* the chunk in hand and those of the chunks to come make up the input.
Follows ==
    Reading =>
        /\ marker = None
        /\ source.run = run.id /\ source.total = run.total
        /\ Parts = 1 .. run.part - 1
        /\ \A k \in Parts : out[k].run = run.id /\ out[k].schema = run.schema
        /\ run.processed = Len(Written)
        /\ (Written \o Current) \o FlattenSeq(run.left) = source.rows
        /\ run.part + Len(run.left) + (IF run.at \in {"infer", "write"} THEN 1 ELSE 0)
             <= MaxParts + 1

\* The result of a chunk is its first rows, and all of them at the end.
InHand ==
    /\ run.at = "infer" => /\ run.result = SubSeq(run.chunk, 1, Len(run.result))
                           /\ Len(run.result) < Len(run.chunk)
    /\ run.at = "write" => run.result = run.chunk
    /\ run.at \in {"complete", "publish"} => run.left = << >>
    /\ run.at = "publish" => run.processed = run.total

DataInv == Typed /\ Unopened /\ Follows /\ InHand /\ PartsFollowInput /\ MarkedIsComplete

LEMMA IdleTyped == Idle \in RunState
<1>1. << >> \in Seq(Nat) /\ 0 \in Nat /\ 1 \in 1 .. MaxParts + 1 /\ 0 \in 0 .. MaxRuns
  BY TaskRunAssumption
<1>2. "idle" \in Stages
  BY DEF Stages
<1> QED BY <1>1, <1>2 DEF Idle, RunState

LEMMA DataInit == RunInit => DataInv
<1> SUFFICES ASSUME RunInit PROVE DataInv
  OBVIOUS
<1>1. Parts = {}
  BY DEF RunInit, Parts
<1>2. run = Idle /\ run.at = "idle"
  BY DEF RunInit, Idle
<1>3. << >> \in Seq(Nat)
  OBVIOUS
<1>4. Typed
  <2>1. 0 \in 0 .. MaxRuns
    BY TaskRunAssumption
  <2> QED BY <1>2, <1>3, <2>1, IdleTyped DEF RunInit, Typed
<1>5. PartsFollowInput
  <2>1. Cardinality(Parts) = 0
    BY <1>1, FS_EmptySet
  <2> QED BY <1>1, <2>1 DEF PartsFollowInput
<1>6. Unopened /\ Follows /\ InHand /\ MarkedIsComplete
  BY <1>2 DEF RunInit, Unopened, Follows, Reading, InHand, MarkedIsComplete
<1> QED BY <1>4, <1>5, <1>6 DEF DataInv

\* The types of what the consumer keeps to itself.
LEMMA TypedTake == ASSUME Typed, Take PROVE Typed'
<1>1. run' = [Idle EXCEPT !.at = "begin", !.id = run.id + 1]
  BY DEF Take
<1>2. << >> \in Seq(Nat) /\ run.id \in 0 .. MaxRuns /\ run.id < MaxRuns
  BY DEF Take, Typed, RunState
<1>3. run' \in RunState /\ run'.id \in Runs
  <2>1. run.id + 1 \in Runs /\ run.id + 1 \in 0 .. MaxRuns
    BY <1>2, TaskRunAssumption DEF Runs
  <2>2. run' \in RunState
    BY <1>1, <2>1, IdleTyped DEF Stages, RunState
  <2>3. run'.id = run.id + 1
    BY <1>1, IdleTyped DEF RunState
  <2> QED BY <2>1, <2>2, <2>3
<1> QED BY <1>3 DEF Take, Typed

LEMMA TypedBreaks == ASSUME Typed, Breaks, run.at # "idle" PROVE Typed' /\ run'.at = "close"
<1>1. run' \in RunState /\ run'.at = "close" /\ run'.id = run.id
  BY DEF Breaks, Ends, Goto, Typed, RunState, Stages
<1> QED BY <1>1 DEF Breaks, Ends, Typed

LEMMA TypedGoto ==
    ASSUME Typed, NEW stage \in Stages, Goto(stage), run.at # "idle"
    PROVE  /\ run' \in RunState /\ run'.id \in Runs
           /\ run' = [run EXCEPT !.at = stage]
           /\ run'.at = stage /\ run'.left = run.left /\ run'.part = run.part
           /\ run'.processed = run.processed /\ run'.schema = run.schema /\ run'.failed = run.failed
           /\ run'.id = run.id /\ run'.total = run.total
BY DEF Goto, Typed, RunState

\* What was written stays, and a run that is over keeps no promise of its own.
LEMMA OverInv ==
    ASSUME DataInv, Typed', run'.at \in {"close", "stop", "join", "idle"},
           UNCHANGED <<out, marker, source>>
    PROVE  DataInv'
<1>1. PartsFollowInput' /\ MarkedIsComplete'
  BY DEF DataInv, PartsFollowInput, MarkedIsComplete, Parts, Written
<1>2. Unopened' /\ Follows' /\ InHand'
  BY DEF Unopened, Follows, Reading, InHand
<1> QED BY <1>1, <1>2 DEF DataInv

\* A step before the reader is opened.
LEMMA EarlyInv ==
    ASSUME DataInv, Typed', run'.at \in {"begin", "load", "validate", "count", "inspect"},
           run'.left = None, run'.part = 1, run'.processed = 0, run'.schema = None, ~run'.failed,
           UNCHANGED <<out, marker, source>>
    PROVE  DataInv'
<1>1. PartsFollowInput' /\ MarkedIsComplete'
  BY DEF DataInv, PartsFollowInput, MarkedIsComplete, Parts, Written
<1>2. Unopened' /\ Follows' /\ InHand'
  BY DEF Unopened, Follows, Reading, InHand
<1> QED BY <1>1, <1>2 DEF DataInv

\* A step that leaves the run and what it has written alone.
LEMMA ElsewhereInv ==
    ASSUME DataInv, Typed', UNCHANGED <<run, out, marker, source>>
    PROVE  DataInv'
BY DEF DataInv, Unopened, Follows, Reading, Current, InHand, PartsFollowInput, MarkedIsComplete,
       Parts, Written

LEMMA BreaksData == ASSUME DataInv, Breaks, run.at # "idle" PROVE DataInv'
<1>1. Typed' /\ run'.at = "close"
  BY TypedBreaks DEF DataInv
<1> QED BY <1>1, OverInv DEF Breaks

LEMMA TakeData == ASSUME DataInv, Take PROVE DataInv'
<1>1. Typed'
  BY TypedTake DEF DataInv
<1>2. run' = [Idle EXCEPT !.at = "begin", !.id = run.id + 1]
  BY DEF Take
<1>3. /\ run'.at = "begin" /\ run'.left = None /\ run'.part = 1 /\ run'.processed = 0
      /\ run'.schema = None /\ ~run'.failed
  BY <1>2 DEF Idle
<1> QED BY <1>1, <1>3, EarlyInv DEF Take

LEMMA EarlyData == ASSUME DataInv, Begin \/ Load \/ Validate \/ Count PROVE DataInv'
<1> DEFINE Before == {"begin", "load", "validate", "count"}
<1>1. run.at \in Before /\ Typed
  BY DEF Begin, Load, Validate, Count, At, DataInv
<1>2. CASE Breaks
  BY <1>1, <1>2, BreaksData
<1>3. CASE ~Breaks
  <2>1. UNCHANGED <<input, stopping, out, marker, source>>
    BY <1>3 DEF Begin, Load, Validate, Count
  <2>2. held' \subseteq Runs /\ word' \in {"go", "cancel", "final", "over"}
    BY <1>1, <1>3 DEF Begin, Load, Validate, Count, Typed, Ends, At
  <2>3. /\ run.left = None /\ run.part = 1 /\ run.processed = 0 /\ run.schema = None /\ ~run.failed
    BY <1>1 DEF DataInv, Unopened
  <2>4. \/ \E stage \in {"load", "close", "validate", "count"} : run' = [run EXCEPT !.at = stage]
        \/ \E stage \in {"load", "close"} : run' = [run EXCEPT !.at = stage, !.measured = TRUE]
        \/ run' = [run EXCEPT !.at = "inspect", !.total = count_rows(input)]
    BY <1>3 DEF Begin, Load, Validate, Count, Goto, Ends
  <2>5. count_rows(input) \in Nat
    BY <1>1, ReaderReads, LenProperties DEF count_rows, Typed
  <2>6. /\ run' \in RunState /\ run'.id = run.id
        /\ run'.at \in {"load", "validate", "count", "inspect", "close"}
        /\ run'.left = None /\ run'.part = 1 /\ run'.processed = 0 /\ run'.schema = None
             /\ ~run'.failed
    <3>1. run \in RunState
      BY <1>1 DEF Typed
    <3>2. CASE \E stage \in {"load", "close", "validate", "count"} :
            run' = [run EXCEPT !.at = stage]
      BY <2>3, <3>1, <3>2 DEF RunState, Stages
    <3>3. CASE \E stage \in {"load", "close"} : run' = [run EXCEPT !.at = stage, !.measured = TRUE]
      BY <2>3, <3>1, <3>3 DEF RunState, Stages
    <3>4. CASE run' = [run EXCEPT !.at = "inspect", !.total = count_rows(input)]
      BY <2>3, <2>5, <3>1, <3>4 DEF RunState, Stages
    <3> QED BY <2>4, <3>2, <3>3, <3>4
  <2>7. Typed'
    BY <1>1, <2>1, <2>2, <2>6 DEF Typed
  <2>8. CASE run'.at = "close"
    BY <2>1, <2>7, <2>8, OverInv
  <2>9. CASE run'.at # "close"
    BY <2>1, <2>6, <2>7, <2>9, EarlyInv
  <2> QED BY <2>8, <2>9
<1> QED BY <1>2, <1>3

LEMMA InspectData == ASSUME DataInv, Inspect PROVE DataInv'
<1>1. run.at = "inspect" /\ Typed
  BY DEF Inspect, At, DataInv
<1>2. CASE Breaks
  BY <1>1, <1>2, BreaksData
<1>3. CASE ~Breaks
  <2>1. ~prefix_has_results /\ Goto("next")
          /\ UNCHANGED <<input, word, stopping, held, out, marker, source>>
    BY <1>3 DEF Inspect
  <2>2. Parts = {} /\ marker = None
    BY <2>1 DEF prefix_has_results
  <2>3. /\ run' \in RunState /\ run'.id \in Runs
        /\ run'.at = "next" /\ run'.left = run.left /\ run'.part = run.part
        /\ run'.processed = run.processed /\ run'.schema = run.schema /\ run'.failed = run.failed
    BY <1>1, <2>1, TypedGoto DEF Stages
  <2>4. Typed'
    BY <1>1, <2>1, <2>3 DEF Typed
  <2>5. Parts' = {} /\ marker' = None
    BY <2>1, <2>2 DEF Parts
  <2>6. Unopened' /\ Follows' /\ InHand'
    BY <1>1, <2>3, <2>5 DEF DataInv, Unopened, Follows, Reading, InHand
  <2>7. PartsFollowInput' /\ MarkedIsComplete'
    BY <2>1 DEF DataInv, PartsFollowInput, MarkedIsComplete, Parts, Written
  <2> QED BY <2>4, <2>6, <2>7 DEF DataInv
<1> QED BY <1>2, <1>3

LEMMA FinallyData == ASSUME DataInv, CloseBundle \/ StopSampler \/ Join PROVE DataInv'
<1>1. run.at \in {"close", "stop", "join"} /\ Typed
  BY DEF CloseBundle, StopSampler, Join, At, DataInv
<1>2. PICK stage \in {"stop", "join", "idle"} : Goto(stage)
  BY DEF CloseBundle, StopSampler, Join
<1>3. run' \in RunState /\ run'.id \in Runs /\ run'.at = stage
  BY <1>1, <1>2, TypedGoto DEF Stages
<1>4. UNCHANGED <<input, word, out, marker, source>>
  BY DEF CloseBundle, StopSampler, Join
<1>5. held' \subseteq Runs /\ stopping' \in BOOLEAN
  BY <1>1 DEF CloseBundle, StopSampler, Join, Typed
<1>6. Typed'
  BY <1>1, <1>3, <1>4, <1>5 DEF Typed
<1> QED BY <1>2, <1>3, <1>4, <1>6, OverInv

LEMMA WorldData ==
    ASSUME DataInv, Cancel \/ StopRuns \/ ChangeInput \/ (Sampler /\ UNCHANGED runVars)
    PROVE  DataInv'
<1>1. UNCHANGED <<run, held, out, marker, source>>
  BY DEF Cancel, StopRuns, ChangeInput, runVars
<1>2. /\ input' \subseteq Files /\ stopping' \in BOOLEAN
      /\ word' \in {"go", "cancel", "final", "over"}
  BY DEF Cancel, StopRuns, ChangeInput, runVars, DataInv, Typed
<1>3. Typed'
  BY <1>1, <1>2 DEF DataInv, Typed
<1> QED BY <1>1, <1>3, ElsewhereInv

LEMMA ClearData == ASSUME DataInv, ClearOutput PROVE DataInv'
<1>1. run.at = "idle" /\ UNCHANGED <<input, run, word, stopping, held, source>>
  BY DEF ClearOutput, At
<1>2. out' = [k \in 1 .. MaxParts |-> Absent] /\ marker' = None
  BY DEF ClearOutput
<1>3. Parts' = {}
  BY <1>2 DEF Parts
<1>4. Typed'
  BY <1>1, <1>2 DEF DataInv, Typed
<1>5. PartsFollowInput'
  <2>1. Cardinality(Parts') = 0
    BY <1>3, FS_EmptySet
  <2> QED BY <1>3, <2>1 DEF PartsFollowInput
<1>6. Unopened' /\ Follows' /\ InHand' /\ MarkedIsComplete'
  BY <1>1, <1>2 DEF Unopened, Follows, Reading, InHand, MarkedIsComplete
<1> QED BY <1>4, <1>5, <1>6 DEF DataInv

-----------------------------------------------------------------------------
(* What is written, part by part.                                          *)

LEMMA WrittenIs ==
    ASSUME Typed, NEW n \in Nat, Parts = 1 .. n
    PROVE  /\ Cardinality(Parts) = n /\ n <= MaxParts
           /\ [k \in 1 .. n |-> out[k].rows] \in Seq(Seq(Nat))
           /\ Written = FlattenSeq([k \in 1 .. n |-> out[k].rows])
           /\ Written \in Seq(Nat)
<1>1. Cardinality(Parts) = n
  BY FS_Interval
<1>2. n <= MaxParts
  <2>1. n = 0 \/ n \in Parts
    OBVIOUS
  <2> QED BY <2>1, TaskRunAssumption DEF Parts
<1>3. \A k \in 1 .. n : out[k].rows \in Seq(Nat)
  BY DEF Parts, Typed
<1>4. [k \in 1 .. n |-> out[k].rows] \in Seq(Seq(Nat))
  BY <1>3
<1>5. Written = FlattenSeq([k \in 1 .. n |-> out[k].rows])
  BY <1>1 DEF Written
<1> QED BY <1>1, <1>2, <1>4, <1>5, FlattenType

\* One more part adds its rows at the end.
LEMMA PutPart ==
    ASSUME Typed, Typed', NEW n \in Nat, Parts = 1 .. n, n < MaxParts,
           NEW p \in [run : Runs, rows : Seq(Nat), schema : Types],
           out' = [out EXCEPT ![n + 1] = p]
    PROVE  /\ Parts' = 1 .. n + 1
           /\ Written' = Written \o p.rows
           /\ Written \in Seq(Nat)
           /\ \A k \in 1 .. n : out'[k] = out[k]
           /\ out'[n + 1] = p
<1>1. p # Absent
  <2>1. p.run # 0
    BY DEF Runs
  <2> QED BY <2>1 DEF Absent
<1>2. n + 1 \in 1 .. MaxParts /\ DOMAIN out = 1 .. MaxParts
  BY TaskRunAssumption DEF Typed
<1>3. out'[n + 1] = p /\ \A k \in 1 .. MaxParts : k # n + 1 => out'[k] = out[k]
  BY <1>2
<1>4. \A k \in 1 .. n : out'[k] = out[k] /\ k \in 1 .. MaxParts
  BY <1>2, <1>3, TaskRunAssumption
<1>5. Parts' = 1 .. n + 1
  <2>1. \A k \in 1 .. MaxParts : out[k] # Absent <=> k \in 1 .. n
    BY DEF Parts
  <2>2. \A k \in 1 .. MaxParts : out'[k] # Absent <=> k \in 1 .. n + 1
    BY <1>1, <1>2, <1>3, <2>1
  <2>3. Parts' = {k \in 1 .. MaxParts : out'[k] # Absent}
    BY DEF Parts
  <2> QED BY <1>2, <2>2, <2>3, TaskRunAssumption
<1> DEFINE a == [k \in 1 .. n |-> out[k].rows]
           b == [k \in 1 .. n + 1 |-> out'[k].rows]
<1>6. a \in Seq(Seq(Nat)) /\ Written = FlattenSeq(a) /\ Written \in Seq(Nat)
  BY WrittenIs
<1>7. Written' = FlattenSeq(b)
  <2>1. Cardinality(Parts') = n + 1
    BY <1>5, FS_Interval
  <2>2. Written' = FlattenSeq([k \in 1 .. Cardinality(Parts') |-> out'[k].rows])
    BY DEF Written
  <2> QED BY <2>1, <2>2
<1>8. b = Append(a, p.rows)
  <2>1. Len(a) = n /\ p.rows \in Seq(Nat) /\ \A k \in 1 .. n : a[k] = out[k].rows
    OBVIOUS
  <2>2. \A k \in 1 .. n : out[k].rows \in Seq(Nat)
    BY <1>6, <2>1, ElementOfSeq
  <2>3. b \in Seq(Seq(Nat)) /\ Len(b) = n + 1
    <3>1. \A k \in 1 .. n + 1 : out'[k].rows \in Seq(Nat)
      BY <1>3, <1>4, <2>1, <2>2
    <3> QED BY <3>1
  <2>4. \A k \in 1 .. n + 1 : b[k] = Append(a, p.rows)[k]
    <3> TAKE k \in 1 .. n + 1
    <3>1. b[k] = out'[k].rows
      OBVIOUS
    <3> HIDE DEF a, b
    <3> QED BY <1>3, <1>4, <1>6, <2>1, <3>1, AppendProperties
  <2>5. Append(a, p.rows) \in Seq(Seq(Nat)) /\ Len(Append(a, p.rows)) = n + 1
    <3> HIDE DEF a
    <3> QED BY <1>6, <2>1, AppendProperties
  <2> HIDE DEF a, b
  <2> QED BY <2>3, <2>4, <2>5, SeqEqual
<1> HIDE DEF a, b
<1>9. Written' = Written \o p.rows
  BY <1>6, <1>7, <1>8, FlattenAppend
<1> QED BY <1>3, <1>4, <1>5, <1>6, <1>9

\* The parts of a run that reads.
LEMMA ReadingGives ==
    ASSUME DataInv, Reading
    PROVE  /\ run.part - 1 \in Nat /\ run.part \in Nat
           /\ Parts = 1 .. run.part - 1
           /\ Written \in Seq(Nat) /\ Len(Written) \in Nat
           /\ run.left \in Seq(Seq(Nat)) /\ run.chunk \in Seq(Nat) /\ run.id \in Runs
<1>1. run.part \in 1 .. MaxParts + 1
  BY DEF DataInv, Typed, RunState
<1>2. run.part - 1 \in Nat /\ run.part \in Nat
  BY <1>1
<1>3. Parts = 1 .. run.part - 1
  BY DEF DataInv, Follows
<1>4. Written \in Seq(Nat)
  BY <1>2, <1>3, WrittenIs DEF DataInv
<1>5. run.left \in Seq(Seq(Nat)) /\ run.chunk \in Seq(Nat) /\ run.id \in Runs
  BY DEF Reading, DataInv, Typed, RunState
<1> QED BY <1>2, <1>3, <1>4, <1>5, LenProperties

LEMMA CompleteData == ASSUME DataInv, Complete PROVE DataInv'
<1>1. run.at = "complete" /\ Typed /\ run.left = << >> /\ run.left # None
  BY DEF Complete, At, DataInv, InHand, Unopened
<1>2. CASE Breaks
  BY <1>1, <1>2, BreaksData
<1>3. CASE ~Breaks
  <2>1. /\ run.processed = run.total /\ Goto("publish") /\ word' = "final"
        /\ UNCHANGED <<input, stopping, held, out, marker, source>>
    BY <1>3 DEF Complete
  <2>2. /\ run' \in RunState /\ run'.id \in Runs
        /\ run'.at = "publish" /\ run'.left = run.left /\ run'.part = run.part
        /\ run'.processed = run.processed /\ run'.schema = run.schema
        /\ run'.id = run.id /\ run'.total = run.total
    BY <1>1, <2>1, TypedGoto DEF Stages
  <2>3. Typed'
    BY <1>1, <2>1, <2>2 DEF Typed
  <2>4. Parts' = Parts /\ Written' = Written
    BY <2>1 DEF Parts, Written
  <2>5. Reading /\ Current = << >> /\ Current' = << >>
    BY <1>1, <2>2 DEF Reading, Current
  <2>6. Follows'
    BY <1>1, <2>1, <2>2, <2>4, <2>5 DEF DataInv, Follows
  <2>7. Unopened' /\ InHand'
    BY <1>1, <2>1, <2>2 DEF Unopened, InHand
  <2>8. PartsFollowInput' /\ MarkedIsComplete'
    BY <2>1, <2>4 DEF DataInv, PartsFollowInput, MarkedIsComplete
  <2> QED BY <2>3, <2>6, <2>7, <2>8 DEF DataInv
<1> QED BY <1>2, <1>3

\* The marker is put over all the rows of the input.
LEMMA PublishData == ASSUME DataInv, Publish PROVE DataInv'
<1>1. run.at = "publish" /\ Typed /\ run.left = << >> /\ run.left # None
        /\ run.processed = run.total
  BY DEF Publish, At, DataInv, InHand, Unopened
<1>2. CASE Breaks
  BY <1>1, <1>2, BreaksData
<1>3. CASE ~Breaks
  <2>1. /\ marker' = run.id /\ Goto("close") /\ word' = "over"
        /\ UNCHANGED <<input, stopping, held, out, source>>
    BY <1>3 DEF Publish, Ends
  <2>2. run' \in RunState /\ run'.id \in Runs /\ run'.at = "close" /\ run.id \in Runs
    BY <1>1, <2>1, TypedGoto DEF Stages, Typed
  <2>3. Typed'
    BY <1>1, <2>1, <2>2 DEF Typed
  <2>4. Parts' = Parts /\ Written' = Written
    BY <2>1 DEF Parts, Written
  <2>5. Reading /\ Current = << >>
    BY <1>1 DEF Reading, Current
  <2>6. Written = source.rows
    <3>1. Written \in Seq(Nat)
      BY <2>5, ReadingGives
    <3>2. (Written \o << >>) \o << >> = source.rows
      BY <1>1, <2>5, FlattenEmpty DEF DataInv, Follows
    <3> QED BY <3>1, <3>2, ConcatEmptySeq
  <2>7. source.run = run.id /\ source.total = run.total /\ run.processed = Len(Written)
    BY <2>5 DEF DataInv, Follows
  <2>8. MarkedIsComplete'
    BY <1>1, <2>1, <2>4, <2>6, <2>7 DEF MarkedIsComplete
  <2>9. PartsFollowInput'
    BY <2>1, <2>4 DEF DataInv, PartsFollowInput
  <2>10. Unopened' /\ Follows' /\ InHand'
    BY <2>2 DEF Unopened, Follows, Reading, InHand
  <2> QED BY <2>3, <2>8, <2>9, <2>10 DEF DataInv
<1> QED BY <1>2, <1>3

-----------------------------------------------------------------------------
(* The chunk loop.                                                         *)

LEMMA PrefixOfConcat ==
    ASSUME NEW s \in Seq(Nat), NEW t \in Seq(Nat)
    PROVE  IsPrefix(s, s \o t)
<1>1. Len(s) \in Nat /\ Len(t) \in Nat
  BY LenProperties
<1>2. s \o t \in Seq(Nat) /\ Len(s \o t) = Len(s) + Len(t)
  BY ConcatProperties
<1>3. CASE s = << >>
  <2>1. Len(s) = 0 /\ SubSeq(s, 1, 0) = << >> /\ SubSeq(s \o t, 1, 0) = << >>
    BY <1>3, SubSeqEmpty
  <2> QED BY <1>1, <1>2, <2>1 DEF IsPrefix
<1>4. CASE s # << >>
  <2>1. 1 \in 1 .. Len(s) /\ Len(s) \in 1 .. Len(s)
    BY <1>1, <1>4, EmptySeq
  <2>2. SubSeq(s \o t, 1, Len(s)) = SubSeq(s, 1, Len(s))
    BY <2>1, SubSeqOfConcat1
  <2> QED BY <1>1, <1>2, <2>2 DEF IsPrefix
<1> QED BY <1>3, <1>4

LEMMA NoneApart == None \notin Types /\ None \notin Seq(Seq(Nat)) /\ None \notin Runs
<1>1. None \notin Types
  BY TaskRunAssumption DEF Types
<1>2. None \notin Runs
  BY TaskRunAssumption DEF Runs
<1> QED BY <1>1, <1>2, TaskRunAssumption

\* What the reader will give, once it is open: the new listing at the first
\* call, the rest of it later.
Rest == IF run.left = None THEN iter_chunks(input) ELSE run.left

Opened ==
    /\ Rest \in Seq(Seq(Nat)) /\ Rest # None
    /\ source' \in [rows : Seq(Nat), total : {None} \cup Nat, run : 0 .. MaxRuns]
    /\ source'.run = run.id /\ source'.total = run.total
    /\ Parts = 1 .. run.part - 1
    /\ \A k \in Parts : out[k].run = run.id /\ out[k].schema = run.schema
    /\ run.processed = Len(Written)
    /\ Written \in Seq(Nat)
    /\ Written \o FlattenSeq(Rest) = source'.rows
    /\ run.part + Len(Rest) <= MaxParts + 1
    /\ Parts # {} => source' = source
    /\ marker = None

LEMMA NextOpens ==
    ASSUME DataInv, NextChunk, ~Breaks
    PROVE  Opened
<1>1. run.at = "next" /\ Typed /\ run \in RunState /\ run.id \in Runs
  BY DEF NextChunk, At, DataInv, Typed
<1>2. source' = IF run.left # None THEN source
                ELSE [rows |-> Rows(input), total |-> run.total, run |-> run.id]
  BY DEF NextChunk
<1>3. CASE run.left = None
  <2>1. /\ Parts = {} /\ marker = None /\ run.part = 1 /\ run.processed = 0
    BY <1>1, <1>3 DEF DataInv, Unopened
  <2>2. input \in SUBSET Files
    BY <1>1 DEF Typed
  <2>3. /\ Rest = iter_chunks(input) /\ Rest \in Seq(Seq(Nat)) /\ Rows(input) \in Seq(Nat)
        /\ FlattenSeq(Rest) = Rows(input)
    BY <1>3, <2>2, ReaderReads DEF Rest
  <2>4. Len(Rest) <= MaxParts
    BY <2>2, <2>3, PartsAssumption
  <2>5. Parts = 1 .. 0
    BY <2>1
  <2>6. Written = << >>
    <3>1. Cardinality(Parts) = 0
      BY <2>1, FS_EmptySet
    <3>2. Written = FlattenSeq([k \in 1 .. 0 |-> out[k].rows])
      BY <3>1 DEF Written
    <3>3. [k \in 1 .. 0 |-> out[k].rows] = << >>
      OBVIOUS
    <3> QED BY <3>2, <3>3, FlattenEmpty
  <2>7. source' = [rows |-> Rows(input), total |-> run.total, run |-> run.id]
    BY <1>2, <1>3
  <2>8. source' \in [rows : Seq(Nat), total : {None} \cup Nat, run : 0 .. MaxRuns]
    BY <1>1, <2>3, <2>7 DEF RunState
  <2>9. Written \o FlattenSeq(Rest) = source'.rows
    BY <2>3, <2>6, <2>7, ConcatEmptySeq
  <2>10. run.part + Len(Rest) <= MaxParts + 1
    <3>1. Len(Rest) \in Nat
      BY <2>3, LenProperties
    <3> QED BY <2>1, <2>4, <3>1, TaskRunAssumption
  <2>11. run.processed = Len(Written) /\ Written \in Seq(Nat) /\ run.part - 1 = 0
    BY <2>1, <2>6
  <2> QED BY <2>1, <2>3, <2>5, <2>7, <2>8, <2>9, <2>10, <2>11, NoneApart DEF Opened
<1>4. CASE run.left # None
  <2>1. Reading /\ Current = << >>
    BY <1>1, <1>4 DEF Reading, Current
  <2>2. Rest = run.left /\ source' = source
    BY <1>2, <1>4 DEF Rest
  <2>3. /\ run.part \in Nat /\ Written \in Seq(Nat) /\ run.left \in Seq(Seq(Nat))
    BY <2>1, ReadingGives
  <2>4. Written \o << >> = Written
    BY <2>3, ConcatEmptySeq
  <2>5. Len(run.left) \in Nat
    BY <2>3, LenProperties
  <2>6. /\ marker = None
        /\ source.run = run.id /\ source.total = run.total
        /\ Parts = 1 .. run.part - 1
        /\ \A k \in Parts : out[k].run = run.id /\ out[k].schema = run.schema
        /\ run.processed = Len(Written)
        /\ Written \o FlattenSeq(run.left) = source.rows
        /\ run.part + Len(run.left) <= MaxParts + 1
    BY <1>1, <2>1, <2>3, <2>4, <2>5 DEF DataInv, Follows
  <2> QED BY <1>1, <1>4, <2>2, <2>3, <2>6 DEF Opened, Typed
<1> QED BY <1>3, <1>4

LEMMA NextData == ASSUME DataInv, NextChunk PROVE DataInv'
<1>1. run.at = "next" /\ Typed /\ run \in RunState /\ run.id \in Runs
  BY DEF NextChunk, At, DataInv, Typed
<1>2. CASE Breaks
  BY <1>1, <1>2, BreaksData
<1>3. CASE ~Breaks
  <2>1. Opened
    BY <1>3, NextOpens
  <2>2. UNCHANGED <<input, word, stopping, held, out, marker>>
    BY <1>3 DEF NextChunk
  <2>3. run' = IF Rest = << >> THEN [run EXCEPT !.at = "complete", !.left = Rest]
               ELSE [run EXCEPT !.at = IF Head(Rest) = << >> THEN "next" ELSE "infer",
                                !.left = Tail(Rest), !.chunk = Head(Rest),
                                !.result = << >>, !.expected = None]
    BY <1>3 DEF NextChunk, Rest
  <2>4. Parts' = Parts /\ Written' = Written
    BY <2>2 DEF Parts, Written
  <2>5. PartsFollowInput' /\ MarkedIsComplete'
    BY <2>1, <2>2, <2>4 DEF DataInv, PartsFollowInput, MarkedIsComplete, Opened
  <2>6. \A k \in Parts : out'[k].run = run.id /\ out'[k].schema = run.schema
    BY <2>1, <2>2 DEF Opened
  <2>7. run.part \in Nat /\ MaxParts \in Nat /\ << >> \in Seq(Nat) /\ << >> \in Seq(Seq(Nat))
    BY <1>1, TaskRunAssumption DEF RunState
  <2>8. ASSUME run' \in RunState, run'.id = run.id, run'.total = run.total, run'.part = run.part,
               run'.schema = run.schema, run'.processed = run.processed, run'.left # None,
               run'.at \in {"next", "infer", "complete"},
               (Written \o Current') \o FlattenSeq(run'.left) = source'.rows,
               run.part + Len(run'.left) + (IF run'.at \in {"infer", "write"} THEN 1 ELSE 0)
                 <= MaxParts + 1,
               InHand'
        PROVE  DataInv'
    <3>1. Typed'
      BY <1>1, <2>1, <2>2, <2>8 DEF Typed, Opened
    <3>2. Follows'
      BY <2>1, <2>2, <2>4, <2>6, <2>8 DEF Follows, Opened
    <3>3. Unopened'
      BY <2>8 DEF Unopened
    <3> QED BY <2>5, <2>8, <3>1, <3>2, <3>3 DEF DataInv
  <2>9. CASE Rest = << >>
    <3>1. run' = [run EXCEPT !.at = "complete", !.left = << >>]
      BY <2>3, <2>9
    <3>2. /\ run' \in RunState /\ run'.id = run.id /\ run'.total = run.total /\ run'.part = run.part
          /\ run'.schema = run.schema /\ run'.processed = run.processed /\ run'.left = << >>
          /\ run'.at = "complete"
      BY <1>1, <2>7, <3>1 DEF RunState, Stages
    <3>3. Current' = << >>
      BY <3>2 DEF Current
    <3>4. Written \o << >> = Written
      BY <2>1, ConcatEmptySeq DEF Opened
    <3>5. (Written \o Current') \o FlattenSeq(run'.left) = source'.rows
      BY <2>1, <2>9, <3>2, <3>3, <3>4 DEF Opened
    <3>6. run.part + Len(run'.left) + (IF run'.at \in {"infer", "write"} THEN 1 ELSE 0)
            <= MaxParts + 1
      <4>1. run.part + Len(<< >>) <= MaxParts + 1 /\ Len(<< >>) = 0
        BY <2>1, <2>9 DEF Opened
      <4> QED BY <2>7, <3>2, <4>1
    <3>7. InHand' /\ run'.left # None
      BY <2>1, <2>9, <3>2 DEF InHand, Opened
    <3> QED BY <2>8, <3>2, <3>5, <3>6, <3>7
  <2>10. CASE Rest # << >>
    <3> DEFINE h == Head(Rest)
               t == Tail(Rest)
    <3>1. /\ h \in Seq(Nat) /\ t \in Seq(Seq(Nat)) /\ Len(t) = Len(Rest) - 1
          /\ FlattenSeq(Rest) = h \o FlattenSeq(t) /\ FlattenSeq(t) \in Seq(Nat)
      BY <2>1, <2>10, HeadTailProperties, FlattenHeadTail, FlattenType DEF Opened
    <3>2. run' = [run EXCEPT !.at = IF h = << >> THEN "next" ELSE "infer", !.left = t,
                             !.chunk = h, !.result = << >>, !.expected = None]
      BY <2>3, <2>10
    <3> HIDE DEF h, t
    <3>3. /\ run' \in RunState /\ run'.id = run.id /\ run'.total = run.total /\ run'.part = run.part
          /\ run'.schema = run.schema /\ run'.processed = run.processed /\ run'.left = t
          /\ run'.chunk = h /\ run'.result = << >>
          /\ run'.at = IF h = << >> THEN "next" ELSE "infer"
      <4> DEFINE stage == IF h = << >> THEN "next" ELSE "infer"
      <4>1. stage \in Stages
        BY DEF Stages
      <4>2. run' = [run EXCEPT !.at = stage, !.left = t, !.chunk = h, !.result = << >>,
                         !.expected = None]
        BY <3>2
      <4> HIDE DEF stage
      <4>3. /\ run' \in RunState /\ run'.id = run.id /\ run'.total = run.total
                 /\ run'.part = run.part
            /\ run'.schema = run.schema /\ run'.processed = run.processed /\ run'.left = t
            /\ run'.chunk = h /\ run'.result = << >> /\ run'.at = stage
        BY <1>1, <2>7, <3>1, <4>1, <4>2 DEF RunState
      <4> QED BY <4>3 DEF stage
    <3>4. Current' = h
      BY <3>3 DEF Current
    <3>5. (Written \o Current') \o FlattenSeq(run'.left) = source'.rows
      <4>1. Written \in Seq(Nat) /\ Written \o (h \o FlattenSeq(t)) = source'.rows
        BY <2>1, <3>1 DEF Opened
      <4>2. (Written \o h) \o FlattenSeq(t) = Written \o (h \o FlattenSeq(t))
        <5> DEFINE a == Written
                   b == FlattenSeq(t)
        <5>1. a \in Seq(Nat) /\ b \in Seq(Nat) /\ h \in Seq(Nat)
          BY <3>1, <4>1
        <5> HIDE DEF a, b
        <5>2. (a \o h) \o b = a \o (h \o b)
          BY ONLY <5>1, ConcatAssociative, SMTT(30)
        <5> QED BY <5>2 DEF a, b
      <4> QED BY <3>3, <3>4, <4>1, <4>2
    <3>6. run.part + Len(run'.left) + (IF run'.at \in {"infer", "write"} THEN 1 ELSE 0)
            <= MaxParts + 1
      <4>1. run.part + Len(Rest) <= MaxParts + 1 /\ Len(Rest) \in Nat
        BY <2>1, LenProperties DEF Opened
      <4> QED BY <2>7, <3>1, <3>3, <4>1
    <3>7. InHand'
      <4>1. h # << >> => Len(h) \in Nat \ {0}
        BY <3>1, EmptySeq
      <4>2. SubSeq(h, 1, 0) = << >> /\ Len(<< >>) = 0
        BY SubSeqEmpty
      <4> QED BY <3>3, <4>1, <4>2 DEF InHand
    <3>8. run'.left # None
      BY <3>1, <3>3, NoneApart
    <3> QED BY <2>8, <3>3, <3>5, <3>6, <3>7, <3>8
  <2> QED BY <2>9, <2>10
<1> QED BY <1>2, <1>3

\* The batches of a chunk are adjacent.
LEMMA NextBatch ==
    ASSUME NEW chunk \in Seq(Nat), NEW done \in Nat, done < Len(chunk),
           NEW last, last = Min({done + BatchSize, Len(chunk)})
    PROVE  /\ last \in done + 1 .. Len(chunk)
           /\ SubSeq(chunk, 1, done) \o SubSeq(chunk, done + 1, last) = SubSeq(chunk, 1, last)
           /\ SubSeq(chunk, 1, last) \in Seq(Nat) /\ Len(SubSeq(chunk, 1, last)) = last
<1>1. Len(chunk) \in Nat /\ BatchSize \in Nat \ {0}
  BY LenProperties, TaskRunAssumption
<1>2. last = IF done + BatchSize <= Len(chunk) THEN done + BatchSize ELSE Len(chunk)
  BY <1>1, MinOfTwo
<1>3. last \in done + 1 .. Len(chunk)
  BY <1>1, <1>2
<1>4. SubSeq(chunk, 1, done) \o SubSeq(chunk, done + 1, last) = SubSeq(chunk, 1, last)
  <2>1. 1 \in 1 .. Len(chunk) + 1 /\ done \in 1 - 1 .. Len(chunk) /\ last \in done .. Len(chunk)
    BY <1>1, <1>3
  <2> QED BY <2>1, ConcatAdjacentSubSeq
<1>5. SubSeq(chunk, 1, last) \in Seq(Nat) /\ Len(SubSeq(chunk, 1, last)) = last
  <2>1. \A i \in 1 .. last : chunk[i] \in Nat
    BY <1>1, <1>3, ElementOfSeq
  <2>2. last \in Nat /\ 1 \in Int /\ 1 <= last /\ last - 1 + 1 = last
    BY <1>1, <1>3
  <2>3. /\ SubSeq(chunk, 1, last) \in Seq(Nat)
        /\ Len(SubSeq(chunk, 1, last)) = IF 1 <= last THEN last - 1 + 1 ELSE 0
    BY ONLY <2>1, <2>2, SubSeqProperties
  <2> QED BY <2>2, <2>3
<1> QED BY <1>3, <1>4, <1>5

LEMMA InferData == ASSUME DataInv, Infer PROVE DataInv'
<1>1. /\ run.at = "infer" /\ Typed /\ run \in RunState /\ run.id \in Runs
      /\ run.result = SubSeq(run.chunk, 1, Len(run.result))
      /\ Len(run.result) < Len(run.chunk)
      /\ run.left # None
  BY DEF Infer, At, DataInv, Typed, InHand, Unopened
<1>2. CASE Breaks
  BY <1>1, <1>2, BreaksData
<1>3. CASE ~Breaks
  <2> DEFINE done == Len(run.result)
             last == Min({done + BatchSize, Len(run.chunk)})
             batch == SubSeq(run.chunk, done + 1, last)
             stage == IF last = Len(run.chunk) THEN "write" ELSE "infer"
  <2>1. UNCHANGED <<input, stopping, held, out, marker, source>>
    BY <1>3 DEF Infer
  <2>2. \/ Ends
        \/ \E answer \in ResultsFor(batch) :
              /\ Accepts(answer, batch)
              /\ run' = [run EXCEPT !.at = stage, !.result = @ \o answer.keys,
                                    !.expected = answer.dtypes,
                                    !.output_dtypes = IF last = Len(run.chunk)
                                         THEN answer.dtypes ELSE @]
              /\ UNCHANGED word
    BY <1>3 DEF Infer
  <2>3. CASE Ends
    <3>1. Goto("close") /\ word' = "over"
      BY <2>3 DEF Ends
    <3>2. run' \in RunState /\ run'.id \in Runs /\ run'.at = "close"
      BY <1>1, <3>1, TypedGoto DEF Stages
    <3>3. Typed'
      BY <1>1, <2>1, <3>1, <3>2 DEF Typed
    <3> QED BY <2>1, <3>2, <3>3, OverInv
  <2>4. ASSUME NEW answer \in ResultsFor(batch), Accepts(answer, batch), UNCHANGED word,
               run' = [run EXCEPT !.at = stage, !.result = @ \o answer.keys,
                                  !.expected = answer.dtypes,
                                  !.output_dtypes = IF last = Len(run.chunk)
                                       THEN answer.dtypes ELSE @]
        PROVE  DataInv'
    <3>1. answer.keys = batch /\ answer.dtypes \in Dtypes
      BY <2>4 DEF Accepts, ResultsFor
    <3>2. run.chunk \in Seq(Nat) /\ run.result \in Seq(Nat) /\ done \in Nat
            /\ Len(run.chunk) \in Nat
      BY <1>1, LenProperties DEF RunState
    <3>3. /\ last \in done + 1 .. Len(run.chunk)
          /\ run.result \o batch = SubSeq(run.chunk, 1, last)
          /\ SubSeq(run.chunk, 1, last) \in Seq(Nat) /\ Len(SubSeq(run.chunk, 1, last)) = last
      <4> DEFINE chunk == run.chunk
                 result == run.result
      <4>1. /\ chunk \in Seq(Nat) /\ done \in Nat /\ done < Len(chunk)
            /\ last = Min({done + BatchSize, Len(chunk)})
            /\ batch = SubSeq(chunk, done + 1, last) /\ result = SubSeq(chunk, 1, done)
        BY <1>1, <3>2
      <4> HIDE DEF done, last, batch, chunk, result
      <4>2. /\ last \in done + 1 .. Len(chunk)
            /\ SubSeq(chunk, 1, done) \o SubSeq(chunk, done + 1, last) = SubSeq(chunk, 1, last)
            /\ SubSeq(chunk, 1, last) \in Seq(Nat) /\ Len(SubSeq(chunk, 1, last)) = last
        BY ONLY <4>1, NextBatch
      <4>3. result \o batch = SubSeq(chunk, 1, last)
        BY ONLY <4>1, <4>2
      <4> QED BY <4>2, <4>3 DEF chunk, result
    <3> DEFINE dtypes == IF last = Len(run.chunk) THEN answer.dtypes ELSE run.output_dtypes
    <3>4. dtypes \in {None} \cup Dtypes /\ stage \in Stages /\ stage \in {"infer", "write"}
      BY <1>1, <3>1 DEF RunState, Stages
    <3>5. run' = [run EXCEPT !.at = stage, !.result = run.result \o batch,
                             !.expected = answer.dtypes, !.output_dtypes = dtypes]
      BY <1>1, <2>4, <3>1 DEF RunState
    <3>6. stage = IF last = Len(run.chunk) THEN "write" ELSE "infer"
      OBVIOUS
    <3> HIDE DEF done, last, batch, stage, dtypes
    <3>7. /\ run' \in RunState /\ run'.id = run.id /\ run'.total = run.total /\ run'.part = run.part
          /\ run'.schema = run.schema /\ run'.processed = run.processed /\ run'.left = run.left
          /\ run'.chunk = run.chunk /\ run'.result = run.result \o batch
          /\ run'.at = stage
      BY <1>1, <3>1, <3>3, <3>4, <3>5 DEF RunState
    <3>8. Typed'
      BY <1>1, <2>1, <2>4, <3>7 DEF Typed
    <3>9. Parts' = Parts /\ Written' = Written
      BY <2>1 DEF Parts, Written
    <3>10. Reading /\ Current' = Current
      BY <1>1, <3>4, <3>7 DEF Reading, Current
    <3>11. Follows'
      BY <1>1, <2>1, <3>4, <3>7, <3>9, <3>10 DEF DataInv, Follows
    <3>12. Unopened'
      BY <1>1, <3>4, <3>7 DEF Unopened
    <3>13. InHand'
      <4>1. SubSeq(run.chunk, 1, Len(run.chunk)) = run.chunk
        BY <3>2, SubSeqFull
      <4>2. run'.result = SubSeq(run'.chunk, 1, last) /\ Len(run'.result) = last
        BY <3>3, <3>7
      <4> QED BY <3>2, <3>3, <3>6, <3>7, <4>1, <4>2 DEF InHand
    <3>14. PartsFollowInput' /\ MarkedIsComplete'
      BY <2>1, <3>9 DEF DataInv, PartsFollowInput, MarkedIsComplete
    <3> QED BY <3>8, <3>11, <3>12, <3>13, <3>14 DEF DataInv
  <2> QED BY <2>2, <2>3, <2>4
<1> QED BY <1>2, <1>3

\* write_chunk puts the next part of the run, with the schema of those before.
LEMMA WritePuts ==
    ASSUME DataInv, run.at = "write", NEW schema \in Types, run.schema \in {None, schema},
           out' = [out EXCEPT ![run.part] = Part(schema)], marker' = marker, source' = source,
           run'.at \in {"next", "close"},
           Typed', run'.at = "next" => run'.left = run.left
    PROVE  /\ Parts' = 1 .. run.part
           /\ \A k \in Parts' : out'[k].run = run.id /\ out'[k].schema = schema
           /\ Written' = Written \o run.chunk
           /\ Written' \o FlattenSeq(run.left) = source.rows
           /\ Len(Written') = run.processed + Len(run.chunk)
           /\ run.part + Len(run.left) <= MaxParts
           /\ PartsFollowInput'
<1>1. Typed /\ run.left # None /\ run.result = run.chunk /\ Reading /\ Current = run.chunk
  BY DEF DataInv, Unopened, InHand, Reading, Current
<1>2. /\ run.part - 1 \in Nat /\ run.part \in Nat
      /\ Parts = 1 .. run.part - 1
      /\ Written \in Seq(Nat) /\ Len(Written) \in Nat
      /\ run.left \in Seq(Seq(Nat)) /\ run.chunk \in Seq(Nat) /\ run.id \in Runs
  BY <1>1, ReadingGives
<1>3. /\ source.run = run.id
      /\ \A k \in Parts : out[k].run = run.id /\ out[k].schema = run.schema
      /\ run.processed = Len(Written)
      /\ (Written \o run.chunk) \o FlattenSeq(run.left) = source.rows
      /\ run.part + Len(run.left) + 1 <= MaxParts + 1
  BY <1>1 DEF DataInv, Follows
<1>4. Len(run.left) \in Nat /\ Len(run.chunk) \in Nat /\ MaxParts \in Nat
  BY <1>2, LenProperties, TaskRunAssumption
<1>5. run.part + Len(run.left) <= MaxParts /\ run.part - 1 < MaxParts
  BY <1>2, <1>3, <1>4
<1>6. Part(schema) \in [run : Runs, rows : Seq(Nat), schema : Types]
  BY <1>1, <1>2 DEF Part
<1>7. /\ Part(schema).rows = run.chunk /\ Part(schema).run = run.id /\ Part(schema).schema = schema
  BY <1>1 DEF Part
<1> DEFINE n == run.part - 1
           p == Part(schema)
<1>8. /\ n \in Nat /\ Parts = 1 .. n /\ n < MaxParts /\ n + 1 = run.part
      /\ out' = [out EXCEPT ![n + 1] = p]
      /\ p \in [run : Runs, rows : Seq(Nat), schema : Types]
  <2>1. n \in Nat /\ Parts = 1 .. n /\ n < MaxParts /\ n + 1 = run.part
    BY <1>2, <1>5
  <2> HIDE DEF n
  <2> QED BY <1>6, <2>1
<1> HIDE DEF n, p
<1>9. /\ Parts' = 1 .. n + 1
      /\ Written' = Written \o p.rows
      /\ \A k \in 1 .. n : out'[k] = out[k]
      /\ out'[n + 1] = p
  BY <1>1, <1>8, PutPart
<1>10. Parts' = 1 .. run.part /\ Written' = Written \o run.chunk
  BY <1>7, <1>8, <1>9 DEF p
<1>11. \A k \in 1 .. n : out[k].schema = schema
  <2> SUFFICES ASSUME NEW k \in 1 .. n PROVE out[k].schema = schema
    OBVIOUS
  <2>1. k \in Parts
    BY <1>8
  <2>2. out[k].schema = run.schema
    BY <1>3, <2>1
  <2>3. out[k].schema \in Types
    BY <1>1, <2>1 DEF Typed, Parts
  <2> QED BY <2>2, <2>3, NoneApart
<1>12. \A k \in Parts' : out'[k].run = run.id /\ out'[k].schema = schema
  <2> SUFFICES ASSUME NEW k \in 1 .. n + 1 PROVE out'[k].run = run.id /\ out'[k].schema = schema
    BY <1>9
  <2>1. CASE k = n + 1
    BY <1>7, <1>9, <2>1 DEF p
  <2>2. CASE k # n + 1
    <3>1. k \in 1 .. n
      BY <1>8, <2>2
    <3> QED BY <1>3, <1>8, <1>9, <1>11, <3>1
  <2> QED BY <2>1, <2>2
<1>13. Written' \o FlattenSeq(run.left) = source.rows
  BY <1>3, <1>10
<1>14. Written' \in Seq(Nat) /\ Len(Written') = run.processed + Len(run.chunk)
  BY <1>2, <1>3, <1>10, ConcatProperties
<1>15. PartsFollowInput'
  <2>1. Cardinality(Parts') = n + 1
    BY <1>8, <1>9, FS_Interval
  <2>2. 1 \in Parts'
    BY <1>8, <1>9
  <2>3. FlattenSeq(run.left) \in Seq(Nat)
    BY <1>2, FlattenType
  <2>4. IsPrefix(Written', source.rows)
    <3> DEFINE w == Written'
    <3>1. w \in Seq(Nat)
      BY <1>14
    <3> HIDE DEF w
    <3>2. IsPrefix(w, w \o FlattenSeq(run.left))
      BY <2>3, <3>1, PrefixOfConcat
    <3> QED BY <1>13, <3>2 DEF w
  <2>5. Parts' = 1 .. Cardinality(Parts')
    BY <1>9, <2>1
  <2>6. \A k \in Parts' : out'[k].run = out'[1].run /\ out'[k].schema = out'[1].schema
    BY <1>12, <2>2
  <2>7. out'[1].run = source'.run /\ IsPrefix(Written', source'.rows)
    BY <1>3, <1>12, <2>2, <2>4
  <2> QED BY <2>5, <2>6, <2>7 DEF PartsFollowInput
<1> QED BY <1>5, <1>10, <1>12, <1>13, <1>14, <1>15

LEMMA WriteData == ASSUME DataInv, Write PROVE DataInv'
<1>1. /\ run.at = "write" /\ Typed /\ run \in RunState /\ run.id \in Runs
      /\ run.left # None /\ Reading /\ marker = None
  BY DEF Write, At, DataInv, Typed, Unopened, Reading, Follows
<1>2. CASE Breaks
  BY <1>1, <1>2, BreaksData
<1>3. CASE ~Breaks
  <2>1. UNCHANGED <<input, stopping, held, marker, source>>
    BY <1>3 DEF Write
  <2>2. PICK schema \in ArrowSchema(run.output_dtypes) : write_chunk(schema)
    BY <1>3 DEF Write
  <2>3. schema \in Types
    BY DEF ArrowSchema, Types
  <2>4. CASE /\ run' = [run EXCEPT !.at = "close", !.failed = TRUE]
             /\ word' = "over" /\ UNCHANGED out
    <3>1. run' \in RunState /\ run'.id \in Runs /\ run'.at = "close"
      BY <1>1, <2>4 DEF RunState, Stages
    <3>2. Typed'
      BY <1>1, <2>1, <2>4, <3>1 DEF Typed
    <3> QED BY <2>1, <2>4, <3>1, <3>2, OverInv
  <2>5. CASE /\ run.schema \in {None, schema}
             /\ out' = [out EXCEPT ![run.part] = Part(schema)]
             /\ \/ /\ run' = [run EXCEPT !.at = "next", !.part = run.part + 1, !.schema = schema,
                                         !.processed = run.processed + Len(run.chunk)]
                   /\ UNCHANGED word
                \/ Ends
    <3>2. /\ run.part \in Nat /\ run.part >= 1 /\ run.part <= MaxParts
          /\ Len(run.chunk) \in Nat /\ run.processed \in Nat /\ run.result \in Seq(Nat)
      <4>1. run.part + Len(run.left) + 1 <= MaxParts + 1 /\ run.left \in Seq(Seq(Nat))
        BY <1>1, ReadingGives DEF DataInv, Follows
      <4>2. Len(run.left) \in Nat /\ Len(run.chunk) \in Nat
        BY <1>1, <4>1, LenProperties DEF RunState
      <4> QED BY <1>1, <4>1, <4>2, TaskRunAssumption DEF RunState
    <3>3. out' \in [1 .. MaxParts -> {Absent} \cup [run : Runs, rows : Seq(Nat), schema : Types]]
      <4>1. Part(schema) \in [run : Runs, rows : Seq(Nat), schema : Types]
        BY <1>1, <2>3, <3>2 DEF Part
      <4> QED BY <1>1, <2>5, <4>1 DEF Typed
    <3>4. CASE Ends
      <4>1. Goto("close") /\ word' = "over"
        BY <3>4 DEF Ends
      <4>2. run' \in RunState /\ run'.id \in Runs /\ run'.at = "close"
        BY <1>1, <4>1, TypedGoto DEF Stages
      <4>3. Typed'
        BY <1>1, <2>1, <3>3, <4>1, <4>2 DEF Typed
      <4>4. PartsFollowInput'
        BY <1>1, <2>1, <2>3, <2>5, <4>2, <4>3, WritePuts
      <4>5. Unopened' /\ Follows' /\ InHand' /\ MarkedIsComplete'
        BY <1>1, <2>1, <4>2 DEF Unopened, Follows, Reading, InHand, MarkedIsComplete
      <4> QED BY <4>3, <4>4, <4>5 DEF DataInv
    <3>5. CASE /\ run' = [run EXCEPT !.at = "next", !.part = run.part + 1, !.schema = schema,
                                     !.processed = run.processed + Len(run.chunk)]
               /\ UNCHANGED word
      <4>1. run.part + 1 \in 1 .. MaxParts + 1 /\ run.processed + Len(run.chunk) \in Nat
        BY <3>2, TaskRunAssumption
      <4>2. /\ run' \in RunState /\ run'.id = run.id /\ run'.total = run.total
            /\ run'.part = run.part + 1 /\ run'.schema = schema
            /\ run'.processed = run.processed + Len(run.chunk) /\ run'.left = run.left
            /\ run'.at = "next"
        BY <1>1, <2>3, <3>5, <4>1 DEF RunState, Stages
      <4>3. Typed'
        BY <1>1, <2>1, <3>3, <3>5, <4>2 DEF Typed
      <4>4. /\ Parts' = 1 .. run.part
            /\ \A k \in Parts' : out'[k].run = run.id /\ out'[k].schema = schema
            /\ Written' \o FlattenSeq(run.left) = source.rows
            /\ Written' = Written \o run.chunk
            /\ Len(Written') = run.processed + Len(run.chunk)
            /\ run.part + Len(run.left) <= MaxParts
            /\ PartsFollowInput'
        BY <1>1, <2>1, <2>3, <2>5, <4>2, <4>3, WritePuts
      <4>5. Current' = << >>
        BY <4>2 DEF Current
      <4>6. Written' \o << >> = Written'
        <5> DEFINE w == Written'
        <5>1. w \in Seq(Nat)
          BY <1>1, <4>4, ReadingGives, ConcatProperties
        <5> HIDE DEF w
        <5>2. w \o << >> = w
          BY <5>1, ConcatEmptySeq
        <5> QED BY <5>2 DEF w
      <4>7. Len(run.left) \in Nat
        BY <1>1, ReadingGives, LenProperties
      <4>8. Follows'
        <5>1. marker' = None /\ source'.run = run'.id /\ source'.total = run'.total
          BY <1>1, <2>1, <4>2 DEF DataInv, Follows
        <5>2. Parts' = 1 .. run'.part - 1
          BY <3>2, <4>2, <4>4
        <5>3. (Written' \o Current') \o FlattenSeq(run'.left) = source'.rows
          BY <2>1, <4>2, <4>4, <4>5, <4>6
        <5>4. run'.part + Len(run'.left) + 0 <= MaxParts + 1
          BY <3>2, <4>2, <4>4, <4>7, TaskRunAssumption
        <5>5. \A k \in Parts' : out'[k].run = run'.id /\ out'[k].schema = run'.schema
          BY <4>2, <4>4
        <5>6. run'.processed = Len(Written')
          BY <4>2, <4>4
        <5> QED BY <4>2, <5>1, <5>2, <5>3, <5>4, <5>5, <5>6 DEF Follows
      <4>9. Unopened' /\ InHand' /\ MarkedIsComplete'
        BY <1>1, <2>1, <4>2 DEF Unopened, InHand, MarkedIsComplete
      <4> QED BY <4>3, <4>4, <4>8, <4>9 DEF DataInv
    <3> QED BY <2>5, <3>4, <3>5
  <2> QED BY <2>2, <2>4, <2>5 DEF write_chunk
<1> QED BY <1>2, <1>3

LEMMA DataNext == ASSUME DataInv, [RunNext]_allRunVars PROVE DataInv'
<1>1. CASE UNCHANGED allRunVars
  <2>1. UNCHANGED <<input, run, word, stopping, held, out, marker, source>>
    BY <1>1 DEF allRunVars, runVars
  <2>2. Typed'
    BY <2>1 DEF DataInv, Typed
  <2> QED BY <2>1, <2>2, ElsewhereInv
<1>2. CASE RunTask
  BY <1>2, TakeData, EarlyData, InspectData, NextData, InferData, WriteData, CompleteData,
     PublishData, FinallyData DEF RunTask
<1> QED BY <1>1, <1>2, WorldData, ClearData DEF RunNext

LEMMA SpecData == RunSpec => []DataInv
<1>1. RunInit => DataInv
  BY DataInit
<1>2. DataInv /\ [RunNext]_allRunVars => DataInv'
  BY DataNext
<1> QED BY <1>1, <1>2, PTL DEF RunSpec

\* Whatever the pipeline answers and wherever a run stops, run_task leaves under
\* the output prefix the first rows of the input that the run opened, in order,
\* each once, in parts without gaps, of one schema and of one run.
THEOREM InputIsFollowed == RunSpec => []PartsFollowInput
<1>1. DataInv => PartsFollowInput
  BY DEF DataInv
<1> QED BY <1>1, SpecData, PTL

\* A run puts _SUCCESS over all the rows of the listing that it read, as many
\* as it had counted, and over nothing of another run.
THEOREM MarkedWhole == RunSpec => []MarkedIsComplete
<1>1. DataInv => MarkedIsComplete
  BY DEF DataInv
<1> QED BY <1>1, SpecData, PTL

-----------------------------------------------------------------------------
(* The thread that measures, in the runs of a process.                     *)

HeapInv ==
    /\ sampler \in [at : Phases, stop_event : BOOLEAN]
    /\ nvml \in BOOLEAN
    /\ Halves(stats.lower, stats.upper)

LEMMA NothingHalves == Halves(NoStatistics.lower, NoStatistics.upper)
<1>1. Heap(EmptyBag) /\ BagCardinality(EmptyBag) = 0 /\ BagToSet(EmptyBag) = {}
  BY HeapEmpty
<1>2. NoStatistics.lower = EmptyBag /\ NoStatistics.upper = EmptyBag
  BY DEF NoStatistics
<1> HIDE DEF EmptyBag
<1> QED BY <1>1, <1>2 DEF Halves

LEMMA HeapNext == ASSUME HeapInv, Typed, [RunNext]_allRunVars PROVE HeapInv'
<1>1. CASE UNCHANGED utilizationVars
  BY <1>1 DEF HeapInv, utilizationVars
<1>2. CASE Take
  <2>1. sampler' = NoSampler /\ stats' = NoStatistics /\ nvml' = nvml
    BY <1>2 DEF Take
  <2>2. sampler' \in [at : Phases, stop_event : BOOLEAN]
    BY <2>1 DEF NoSampler, Phases
  <2>3. Halves(stats'.lower, stats'.upper)
    BY <2>1, NothingHalves
  <2> QED BY <2>1, <2>2, <2>3 DEF HeapInv
<1>3. CASE Begin
  BY <1>3 DEF Begin, Breaks, utilizationVars, HeapInv, Phases
<1>4. CASE StopSampler
  <2>1. run.measured \in BOOLEAN
    BY DEF Typed, RunState
  <2> QED BY <1>4, <2>1 DEF StopSampler, HeapInv
<1>5. CASE Sampler
  <2>1. sampler' \in [at : Phases, stop_event : BOOLEAN] /\ nvml' \in BOOLEAN
    BY <1>5 DEF Sampler, ProbeStart, Due, Sample, Leave, Thread, HeapInv, Phases
  <2>2. Halves(stats.lower, stats.upper)'
    <3>1. stats' = stats \/ \E v \in Values \cup {Unusable} : stats' = Add(stats, v)
      BY <1>5 DEF Sampler, ProbeStart, Due, Sample, Leave
    <3>2. CASE stats' = stats
      BY <3>2 DEF HeapInv
    <3>3. ASSUME NEW v \in Values \cup {Unusable}, stats' = Add(stats, v)
          PROVE Halves(stats'.lower, stats'.upper)
      BY <3>3, AddHalves DEF HeapInv
    <3> QED BY <3>1, <3>2, <3>3
  <2> QED BY <2>1, <2>2 DEF HeapInv
<1>6. UNCHANGED utilizationVars \/ Take \/ Begin \/ StopSampler \/ Sampler
  <2>1. CASE UNCHANGED allRunVars
    BY <2>1 DEF allRunVars
  <2>2. CASE RunTask
    BY <2>2 DEF RunTask, Load, Validate, Count, Inspect, NextChunk, Infer, Write, Complete, Publish,
       CloseBundle, Join, Breaks
  <2>3. CASE Cancel \/ StopRuns \/ ChangeInput \/ ClearOutput
    BY <2>3 DEF Cancel, StopRuns, ChangeInput, ClearOutput
  <2> QED BY <2>1, <2>2, <2>3 DEF RunNext
<1> QED BY <1>1, <1>2, <1>3, <1>4, <1>5, <1>6

LEMMA SpecHeaps == RunSpec => []HeapInv
<1>1. RunInit => HeapInv
  <2> SUFFICES ASSUME RunInit PROVE HeapInv
    OBVIOUS
  <2>1. sampler = NoSampler /\ nvml = FALSE /\ stats = NoStatistics
    BY DEF RunInit, UtilizationInit
  <2>2. sampler \in [at : Phases, stop_event : BOOLEAN] /\ nvml \in BOOLEAN
    BY <2>1 DEF NoSampler, Phases
  <2> QED BY <2>1, <2>2, NothingHalves DEF HeapInv
<1>2. HeapInv /\ Typed /\ [RunNext]_allRunVars => HeapInv'
  BY HeapNext
<1>3. DataInv => Typed
  BY DEF DataInv
<1> QED BY <1>1, <1>2, <1>3, SpecData, PTL DEF RunSpec

\* Types are kept by both threads of a run, whatever the pipeline answers and
\* the probe reads.
THEOREM RunTypeCorrect == RunSpec => []RunTypeOK
<1>1. DataInv /\ HeapInv => RunTypeOK
  <2> SUFFICES ASSUME DataInv, HeapInv PROVE RunTypeOK
    OBVIOUS
  <2>1. run.part \in 1 .. MaxParts + 1 /\ run.processed \in Nat
    BY DEF DataInv, Typed, RunState
  <2>2. UtilizationTypeOK
    BY DEF HeapInv, Halves, Heap, UtilizationTypeOK
  <2> QED BY <2>1, <2>2 DEF DataInv, Typed, RunTypeOK, Runs
<1> QED BY <1>1, SpecData, SpecHeaps, PTL

\* RunningStatistics gives the minimum, the maximum, the sum and the median of
\* every sequence of readings as their definitions do, and the heaps of a run
\* are the halves of one order at every moment.
THEOREM ExactStatistics == RunSpec => []StatisticsExact
<1>1. HeapInv => StatisticsExact
  BY HeapsAgree DEF HeapInv, Halves, StatisticsExact, HeapsAreHalves
<1> QED BY <1>1, SpecHeaps, PTL

=============================================================================
