----------------------------- MODULE S3Backend -----------------------------
(***************************************************************************)
(* The queue in one S3 object (app/tasks/backends/s3.py): GET, change in   *)
(* memory, PUT on condition that the ETag is still the same, retries after *)
(* conflicts, errors and timeouts until a deadline.  A PUT whose caller    *)
(* has given up may be lost, or arrive at any later time.                  *)
(*                                                                         *)
(* The content of the queue and the callbacks are parameters.  The ETag is *)
(* a digest of the body, so the body stands for it.                        *)
(***************************************************************************)
EXTENDS Integers

CONSTANTS
    Calls,           \* calls of mutate or initialize, each made once
    Initializers,    \* those of initialize, one in each process
    Contents,        \* snapshots of the queue
    Empty,           \* the empty queue
    NoContent,       \* there is no object
    Change(_, _),    \* the snapshot a callback leaves of a snapshot
    Answer(_, _),    \* what it returns, or raises
    NoAnswer,        \* the call has not returned
    MaxAttempts      \* bound of the model: attempts within cas_timeout_sec

ASSUME CallsAssumption ==
    /\ Initializers \subseteq Calls
    /\ Empty \in Contents
    /\ NoContent \notin Contents
    /\ MaxAttempts \in Nat \ {0}

\* A callback is a function of the snapshot; one that raises leaves it alone.
ASSUME ChangeAssumption ==
    \A k \in Calls, c \in Contents : Change(k, c) \in Contents

VARIABLES
    object,      \* the state object
    calls,       \* per call: where it is in the loop of mutate or initialize
    puts,        \* PUT requests under way
    answer       \* what the calls that returned have returned

vars == <<object, calls, puts, answer>>

Absent == [revision |-> -1, content |-> NoContent]

Init ==
    /\ object = Absent
    /\ calls = [k \in Calls |-> [pc |-> "new", attempt |-> 0]]
    /\ puts = {}
    /\ answer = [k \in Calls |-> NoAnswer]

-----------------------------------------------------------------------------
At(k, pc) == calls[k].pc = pc
Goto(k, pc) == calls' = [calls EXCEPT ![k].pc = pc]
Returns(k, o) ==
    /\ Goto(k, "returned")
    /\ answer' = [answer EXCEPT ![k] = Answer(k, o.content)]

\* Variant: the revision is not part of the body.
AfterSameRevision(k, o) ==
    IF k \in Initializers
    THEN IF o = Absent THEN [revision |-> 0, content |-> Empty] ELSE o
    ELSE [revision |-> o.revision, content |-> Change(k, o.content)]

\* Variant: the first revision is off by one.
AfterMinusOne(k, o) ==
    IF k \in Initializers
    THEN IF o = Absent THEN [revision |-> -1, content |-> Empty] ELSE o
    ELSE IF Change(k, o.content) = o.content THEN o
         ELSE [revision |-> o.revision + 1, content |-> Change(k, o.content)]

\* What a call makes of the object it has read; equal to it: nothing to write.
After(k, o) ==
    IF k \in Initializers
    THEN IF o = Absent THEN [revision |-> 0, content |-> Empty] ELSE o
    ELSE IF Change(k, o.content) = o.content THEN o
         ELSE [revision |-> o.revision + 1, content |-> Change(k, o.content)]

\* A process serves requests after its initialize.
Start(k) ==
    /\ At(k, "new")
    /\ k \in Initializers \/ \E i \in Initializers : At(i, "returned")
    /\ Goto(k, "read")
    /\ UNCHANGED <<object, puts, answer>>

\* GET answers and there is nothing to write.
ReadOnly(k) ==
    /\ At(k, "read")
    /\ object = Absent => k \in Initializers
    /\ After(k, object) = object
    /\ Returns(k, object)
    /\ UNCHANGED <<object, puts>>

\* GET answers and a conditional PUT is sent: If-Match with the ETag read, or
\* If-None-Match when there was no object.
ReadAndPut(k) ==
    /\ At(k, "read")
    /\ object = Absent => k \in Initializers
    /\ After(k, object) # object
    /\ puts' = puts \cup {[call |-> k, attempt |-> calls[k].attempt,
                           match |-> object, body |-> After(k, object)]}
    /\ Goto(k, "wait")
    /\ UNCHANGED <<object, answer>>

\* GET fails.  mutate repeats after 409, 412, 429, 5xx and connection errors;
\* initialize repeats only its PUT.  A missing object is an error for mutate.
ReadFails(k) ==
    /\ At(k, "read")
    /\ \/ Goto(k, "raised")
       \/ k \notin Initializers /\ object # Absent /\ Goto(k, "pause")
    /\ UNCHANGED <<object, puts, answer>>

\* Variant: the PUT is not conditional.
MatchesAny(p) == TRUE

Matches(p) == p.match = object

Awaited(p) == At(p.call, "wait") /\ calls[p.call].attempt = p.attempt

\* S3 stores the body; the answer reaches the caller if it still waits, or is lost.
Land(p) ==
    /\ Matches(p)
    /\ object' = p.body
    /\ puts' = puts \ {p}
    /\ \/ Awaited(p) /\ Returns(p.call, p.match)
       \/ UNCHANGED <<calls, answer>>

\* S3 refuses (409 or 412), fails, or the request is lost; an error that is
\* not retryable is raised.
Refuse(p) ==
    /\ puts' = puts \ {p}
    /\ \/ Awaited(p) /\ (\E pc \in {"pause", "raised"} : Goto(p.call, pc))
       \/ ~Awaited(p) /\ UNCHANGED calls
    /\ UNCHANGED <<object, answer>>

\* Connection error or read timeout: the outcome of the PUT is not known.
GiveUp(k) ==
    /\ At(k, "wait")
    /\ Goto(k, "pause")
    /\ UNCHANGED <<object, puts, answer>>

\* _pause: TimeoutError after the deadline, otherwise one more attempt.
Pause(k) ==
    /\ At(k, "pause")
    /\ \/ Goto(k, "raised")
       \/ /\ calls[k].attempt < MaxAttempts - 1
          /\ calls' = [calls EXCEPT ![k].pc = "read", ![k].attempt = @ + 1]
    /\ UNCHANGED <<object, puts, answer>>

Next ==
    \/ \E k \in Calls : Start(k) \/ ReadOnly(k) \/ ReadAndPut(k) \/ ReadFails(k)
                        \/ GiveUp(k) \/ Pause(k)
    \/ \E p \in puts : Land(p) \/ Refuse(p)

Spec == Init /\ [][Next]_vars

-----------------------------------------------------------------------------
Objects == {Absent} \cup [revision : Nat, content : Contents]
Puts == [call : Calls, attempt : Nat, match : Objects, body : Objects]

TypeOK ==
    /\ object \in Objects
    /\ calls \in [Calls -> [pc : {"new", "read", "wait", "pause", "returned", "raised"},
                            attempt : Nat]]
    /\ puts \subseteq Puts

\* Once a call has returned, no request it has left behind can change the
\* queue any more, although S3 may receive it at any later time: the revision
\* in the body keeps an ETag from coming back.
NoLateEffect ==
    \A p \in puts : At(p.call, "returned") => p.match # object

\* A process that starts never replaces a queue that exists, however late its
\* request arrives, and no writer goes back to an older revision.
NeverReset == [][object # Absent => object'.revision >= object.revision]_vars

\* The variables of the contract.
State ==
    [k \in Calls |->
        IF At(k, "new") THEN "new"
        ELSE IF At(k, "returned") THEN "returned"
        ELSE IF ~At(k, "raised") THEN "pending"
        ELSE IF \E p \in puts : p.call = k /\ p.match = object THEN "raised"
        ELSE "over"]

Atomic == INSTANCE AtomicStore WITH content <- object.content, state <- State

\* Every behaviour of the loop over S3, with its conflicts, lost answers and
\* late requests, is one the contract of mutate allows: no update is lost, no
\* result is returned that did not hold, nothing is written over.
ImplementsContract == Atomic!Spec

=============================================================================
