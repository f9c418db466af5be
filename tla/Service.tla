------------------------------ MODULE Service ------------------------------
(***************************************************************************)
(* One process of the service (app/main.py, app/core/shutdown.py and       *)
(* TaskStore.check_queue): start and stop around the consumer thread, the  *)
(* threads that answer requests, the maintenance that readiness runs, the  *)
(* signal of Kubernetes.  What a task does to the queue is in Worker; here *)
(* a task is an occupation of the consumer with a heartbeat thread.        *)
(*                                                                         *)
(* Uvicorn (external) runs lifespan up to its yield, serves requests until *)
(* a signal asks it to exit, waits for the requests under way, then lets   *)
(* lifespan go on; a signal that came before it served may make it leave   *)
(* the process at once.                                                    *)
(***************************************************************************)
EXTENDS Integers, FiniteSets

CONSTANTS
    Requests,    \* threads of the pool that answers requests
    NoRequest,   \* nobody holds the maintenance lock
    MaxTasks,    \* bound: tasks the consumer takes
    MaxFaults    \* bound: calls and steps that raise

ASSUME RequestAssumption == NoRequest \notin Requests
ASSUME BoundsAssumption == MaxTasks \in Nat /\ MaxFaults \in Nat

Tasks == 1 .. MaxTasks

VARIABLES
    pc,          \* lifespan and the server around it
    store,       \* TaskStore and its backend
    handlers,    \* who gets SIGTERM
    exiting,     \* Uvicorn has been asked to exit
    stop,        \* the event shared with the consumer
    consumer,    \* the thread of consume_queue
    taken,       \* number of the consumer's last task
    beat,        \* the heartbeat thread of each task
    request,     \* what each thread of the pool does
    lock,        \* _maintenance_lock
    due,         \* monotonic() >= _next_cleanup
    faults       \* exceptions so far

lifespan == <<pc, store, handlers>>
signal == <<exiting, stop>>
worker == <<consumer, taken, beat>>
maintenance == <<request, lock, due>>
vars == <<lifespan, signal, worker, maintenance, faults>>

Init ==
    /\ pc = "load" /\ store = "none" /\ handlers = "server"
    /\ exiting = FALSE /\ stop = FALSE
    /\ consumer = "none" /\ taken = 0 /\ beat = [t \in Tasks |-> "none"]
    /\ request = [r \in Requests |-> "none"] /\ lock = NoRequest /\ due = TRUE
    /\ faults = 0

Raises == faults < MaxFaults /\ faults' = faults + 1
Answers == UNCHANGED faults

Up == pc \notin {"stopped", "failed", "gone"}

-----------------------------------------------------------------------------
(* lifespan, up to its yield.  Every step may raise.                       *)

Startup(step, next) ==
    /\ pc = step
    /\ \/ pc' = next /\ Answers
       \/ pc' = "failing" /\ Raises

LoadSettings ==
    /\ Startup("load", "create")
    /\ UNCHANGED <<store, handlers, signal, worker, maintenance>>

CreateStore ==
    /\ Startup("create", "initialize")
    /\ store' = IF pc' = "failing" THEN "none" ELSE "open"
    /\ UNCHANGED <<handlers, signal, worker, maintenance>>

Initialize ==
    /\ Startup("initialize", "install")
    /\ UNCHANGED <<store, handlers, signal, worker, maintenance>>

InstallHandlers ==
    /\ Startup("install", "start")
    /\ handlers' = IF pc' = "failing" THEN "server" ELSE "service"
    /\ UNCHANGED <<store, signal, worker, maintenance>>

StartConsumer ==
    /\ Startup("start", "started")
    /\ consumer' = IF pc' = "failing" THEN "none" ELSE "poll"
    /\ UNCHANGED <<store, handlers, signal, taken, beat, maintenance>>

\* Uvicorn serves, or leaves if it was told to exit in the meantime.
Serve ==
    /\ \/ Startup("started", "serving")
       \/ pc = "started" /\ exiting /\ pc' = "gone" /\ Answers
    /\ UNCHANGED <<store, handlers, signal, worker, maintenance>>

-----------------------------------------------------------------------------
(* The except branch of lifespan.                                          *)

FailedSet ==
    /\ pc = "failing"
    /\ stop' = TRUE
    /\ pc' = "undo"
    /\ UNCHANGED <<store, handlers, exiting, worker, maintenance, faults>>

FailedUndo ==
    /\ pc = "undo"
    /\ consumer \in {"none", "ended"}
    /\ pc' = "failed"
    /\ handlers' = "server"
    /\ store' = IF store = "none" THEN "none" ELSE "closed"
    /\ UNCHANGED <<signal, worker, maintenance, faults>>

-----------------------------------------------------------------------------
(* Signals, and the finally branch of lifespan.                            *)

\* The service's handler sets the event and calls Uvicorn's.
Signal ==
    /\ Up /\ ~exiting
    /\ exiting' = TRUE
    /\ stop' = (stop \/ handlers = "service")
    /\ UNCHANGED <<lifespan, worker, maintenance, faults>>

LocallyAlive == consumer \notin {"none", "ended"} /\ ~stop

\* Kubernetes stops a container whose liveness answers 503.
LivenessProbe ==
    /\ pc = "serving" /\ ~LocallyAlive
    /\ Signal

Drain ==
    /\ pc = "serving" /\ exiting
    /\ pc' = "draining"
    /\ UNCHANGED <<store, handlers, signal, worker, maintenance, faults>>

\* Variant: lifespan relies on the handler to set the event.
StopConsumerUnset ==
    /\ pc = "draining"
    /\ \A r \in Requests : request[r] = "none"
    /\ pc' = "joining"
    /\ UNCHANGED <<store, handlers, signal, worker, maintenance, faults>>

StopConsumer ==
    /\ pc = "draining"
    /\ \A r \in Requests : request[r] = "none"
    /\ stop' = TRUE
    /\ pc' = "joining"
    /\ UNCHANGED <<store, handlers, exiting, worker, maintenance, faults>>

\* Variant: the store is closed while the consumer works.
CloseAtOnce ==
    /\ pc = "joining"
    /\ pc' = "stopped" /\ handlers' = "server" /\ store' = "closed"
    /\ UNCHANGED <<signal, worker, maintenance, faults>>

Close ==
    /\ pc = "joining"
    /\ consumer = "ended"
    /\ pc' = "stopped" /\ handlers' = "server" /\ store' = "closed"
    /\ UNCHANGED <<signal, worker, maintenance, faults>>

-----------------------------------------------------------------------------
(* The consumer, and the heartbeat of each task.                           *)

Poll ==
    /\ Up /\ consumer = "poll"
    /\ consumer' = IF stop THEN "ended" ELSE "claim"
    /\ UNCHANGED <<lifespan, signal, taken, beat, maintenance, faults>>

Claim ==
    /\ Up /\ consumer = "claim"
    /\ \/ /\ taken < MaxTasks
          /\ taken' = taken + 1
          /\ beat' = [beat EXCEPT ![taken'] = "wait"]
          /\ consumer' = "task"
          /\ Answers
       \/ consumer' = "poll" /\ UNCHANGED <<taken, beat>> /\ (Answers \/ Raises)
    /\ UNCHANGED <<lifespan, signal, maintenance>>

\* The task is over; a pipeline that cannot be closed stops the process.
EndTask ==
    /\ Up /\ consumer = "task"
    /\ \/ stop' = TRUE /\ Raises
       \/ UNCHANGED stop /\ Answers
    /\ consumer' = "join"
    /\ UNCHANGED <<lifespan, exiting, taken, beat, maintenance>>

\* Variant: the heartbeat thread is left to itself.
JoinNothing ==
    /\ Up /\ consumer = "join"
    /\ consumer' = "poll"
    /\ UNCHANGED <<lifespan, signal, taken, beat, maintenance, faults>>

\* heartbeat_stop is set: a waiting thread ends, and is waited for; one in the
\* middle of a call is given a second, then left behind.
JoinHeartbeat ==
    /\ Up /\ consumer = "join"
    /\ beat' = [beat EXCEPT ![taken] = IF @ = "call" THEN "call" ELSE "none"]
    /\ consumer' = "poll"
    /\ UNCHANGED <<lifespan, signal, taken, maintenance, faults>>

Heartbeat(t) ==
    /\ pc # "gone"
    /\ \/ beat[t] = "wait" /\ beat' = [beat EXCEPT ![t] = "call"] /\ Answers
       \/ /\ beat[t] = "call"
          /\ beat' = [beat EXCEPT ![t] = IF t = taken /\ consumer = "task"
                                         THEN "wait" ELSE "none"]
          /\ Answers \/ Raises
    /\ UNCHANGED <<lifespan, signal, consumer, taken, maintenance>>

-----------------------------------------------------------------------------
(* Requests.  Readiness and the API routes run in threads of a pool.       *)

Readiness(r) ==
    /\ pc = "serving" /\ request[r] = "none" /\ LocallyAlive
    /\ request' = [request EXCEPT ![r] = "check"]
    /\ UNCHANGED <<lifespan, signal, worker, lock, due, faults>>

ApiCall(r) ==
    /\ pc = "serving" /\ request[r] = "none"
    /\ request' = [request EXCEPT ![r] = "call"]
    /\ UNCHANGED <<lifespan, signal, worker, lock, due, faults>>

\* Every exception is answered, by 503 or by 500.
ApiReturn(r) ==
    /\ Up /\ request[r] = "call"
    /\ request' = [request EXCEPT ![r] = "none"]
    /\ Answers \/ Raises
    /\ UNCHANGED <<lifespan, signal, worker, lock, due>>

\* Variant: a second probe waits for the first.
AcquireBlocking(r) ==
    /\ Up /\ request[r] = "check"
    /\ IF lock = NoRequest
       THEN request' = [request EXCEPT ![r] = "expire"] /\ lock' = r
       ELSE request' = [request EXCEPT ![r] = "waits"] /\ UNCHANGED lock
    /\ UNCHANGED <<lifespan, signal, worker, due, faults>>

\* check_queue does not wait: a second probe answers 503.
Acquire(r) ==
    /\ Up /\ request[r] = "check"
    /\ IF lock = NoRequest
       THEN request' = [request EXCEPT ![r] = "expire"] /\ lock' = r
       ELSE request' = [request EXCEPT ![r] = "none"] /\ UNCHANGED lock
    /\ UNCHANGED <<lifespan, signal, worker, due, faults>>

Release(r) == request' = [request EXCEPT ![r] = "none"] /\ lock' = NoRequest

FailStale(r) ==
    /\ Up /\ request[r] = "expire"
    /\ \/ due /\ Answers /\ request' = [request EXCEPT ![r] = "clean"] /\ UNCHANGED lock
       \/ ~due /\ Answers /\ Release(r)
       \/ Raises /\ Release(r)
    /\ UNCHANGED <<lifespan, signal, worker, due>>

\* Variant: an exception leaves the lock taken.
CleanupNoFinally(r) ==
    /\ Up /\ request[r] = "clean"
    /\ \/ Answers /\ due' = FALSE /\ Release(r)
       \/ Raises /\ UNCHANGED <<due, lock>> /\ request' = [request EXCEPT ![r] = "none"]
    /\ UNCHANGED <<lifespan, signal, worker>>

\* The next cleanup is scheduled by one that succeeded.
Cleanup(r) ==
    /\ Up /\ request[r] = "clean"
    /\ \/ Answers /\ due' = FALSE
       \/ Raises /\ UNCHANGED due
    /\ Release(r)
    /\ UNCHANGED <<lifespan, signal, worker>>

CleanupDue ==
    /\ Up /\ ~due /\ due' = TRUE
    /\ UNCHANGED <<lifespan, signal, worker, request, lock, faults>>

-----------------------------------------------------------------------------
Lifespan ==
    \/ LoadSettings \/ CreateStore \/ Initialize \/ InstallHandlers \/ StartConsumer
    \/ Serve \/ FailedSet \/ FailedUndo \/ Drain \/ StopConsumer \/ Close

Consumer == Poll \/ Claim \/ EndTask \/ JoinHeartbeat

Handle(r) == ApiReturn(r) \/ Acquire(r) \/ FailStale(r) \/ Cleanup(r)

Next ==
    \/ Lifespan
    \/ Signal
    \/ LivenessProbe
    \/ Consumer
    \/ \E t \in Tasks : Heartbeat(t)
    \/ \E r \in Requests : Readiness(r) \/ ApiCall(r) \/ Handle(r)
    \/ CleanupDue

\* Threads that can run do; the probes of Kubernetes come again and again.
\* Nothing is assumed of signals, clients and the clock.
Spec ==
    /\ Init /\ [][Next]_vars
    /\ WF_vars(Lifespan)
    /\ WF_vars(Consumer)
    /\ WF_vars(LivenessProbe)
    /\ \A t \in Tasks : WF_vars(Heartbeat(t))
    /\ \A r \in Requests : WF_vars(Handle(r)) /\ SF_vars(Readiness(r))

-----------------------------------------------------------------------------
TypeOK ==
    /\ pc \in {"load", "create", "initialize", "install", "start", "started", "serving",
               "draining", "joining", "stopped", "failing", "undo", "failed", "gone"}
    /\ store \in {"none", "open", "closed"}
    /\ handlers \in {"server", "service"}
    /\ exiting \in BOOLEAN /\ stop \in BOOLEAN /\ due \in BOOLEAN
    /\ consumer \in {"none", "poll", "claim", "task", "join", "ended"}
    /\ taken \in 0 .. MaxTasks
    /\ beat \in [Tasks -> {"none", "wait", "call"}]
    /\ request \in [Requests -> {"none", "check", "call", "expire", "clean"}]
    /\ lock \in Requests \cup {NoRequest}
    /\ faults \in 0 .. MaxFaults

\* The store is closed after its last user, at the end of the process and when
\* its start fails at whatever step: no request, no maintenance and no
\* task is under way, and no heartbeat will start another call.  A call of a
\* heartbeat that outlived its task may still be, and fails.
ClosedAfterUse ==
    store = "closed" =>
        /\ consumer \in {"none", "ended"}
        /\ \A r \in Requests : request[r] = "none"
        /\ lock = NoRequest
        /\ \A t \in Tasks : beat[t] # "wait"

\* A process whose consumer has ended, or that was told to stop, does stop.
ShutdownEnds == pc = "serving" /\ (exiting \/ ~LocallyAlive) ~> pc = "stopped"

\* Retention that is due is done, by whichever probe, unless the process stops.
CleanupDone == due /\ pc = "serving" ~> ~due \/ ~LocallyAlive \/ pc # "serving"

\* A consumer at work in a process that was told to exit has been told as well
\* (README.md:138).  Not so when the signal came while the process started.
ConsumerTold == exiting /\ consumer \in {"claim", "task"} => stop

=============================================================================
