---------------------------- MODULE AtomicStore ----------------------------
(***************************************************************************)
(* What TaskBackend.mutate promises (app/tasks/backends/base.py): a call   *)
(* takes effect as a whole, between its start and its return, on the       *)
(* content of that moment.  It may take effect more than once while it     *)
(* goes on, so callbacks have to be idempotent; the result that is         *)
(* returned is that of the last time.  A call that raised is "not          *)
(* confirmed": it may have had its effect, and may still have it, but only *)
(* as long as nothing else has been written.                               *)
(***************************************************************************)
CONSTANTS
    Calls,           \* calls of mutate or initialize, each made once
    Initializers,    \* those of initialize
    Contents,        \* snapshots of the queue
    Empty,           \* the empty queue
    NoContent,       \* there is no queue yet
    Change(_, _),    \* the snapshot a call leaves of a snapshot
    Answer(_, _),    \* what its callback returns, or raises
    NoAnswer         \* the call has not returned

VARIABLES content, state, answer

Effect(k, c) ==
    IF k \in Initializers THEN IF c = NoContent THEN Empty ELSE c ELSE Change(k, c)

\* A call of mutate raises, without effect, when there is no queue.
Possible(k, c) == k \in Initializers \/ c # NoContent

Init ==
    /\ content \in {NoContent, Empty}     \* a migration creates the PostgreSQL table
    /\ state = [k \in Calls |-> "new"]
    /\ answer = [k \in Calls |-> NoAnswer]

\* The calls that raised and can still take effect lose it with the next write.
Settled(s) == [k \in Calls |-> IF s[k] = "raised" THEN "over" ELSE s[k]]

Take(k, s) ==
    /\ Possible(k, content)
    /\ content' = Effect(k, content)
    /\ state' = IF content' = content THEN s ELSE Settled(s)

Start(k) ==
    /\ state[k] = "new"
    /\ state' = [state EXCEPT ![k] = "pending"]
    /\ UNCHANGED <<content, answer>>

Apply(k) == state[k] = "pending" /\ Take(k, state) /\ UNCHANGED answer

Return(k) ==
    /\ state[k] = "pending"
    /\ Take(k, [state EXCEPT ![k] = "returned"])
    /\ answer' = [answer EXCEPT ![k] = Answer(k, content)]

Raise(k) ==
    /\ state[k] = "pending"
    /\ \E s \in {"raised", "over"} : state' = [state EXCEPT ![k] = s]
    /\ UNCHANGED <<content, answer>>

Late(k) == state[k] = "raised" /\ Take(k, state) /\ UNCHANGED answer

Drop(k) ==
    /\ state[k] = "raised"
    /\ state' = [state EXCEPT ![k] = "over"]
    /\ UNCHANGED <<content, answer>>

Next == \E k \in Calls : Start(k) \/ Apply(k) \/ Return(k) \/ Raise(k) \/ Late(k) \/ Drop(k)

Spec == Init /\ [][Next]_<<content, state, answer>>

=============================================================================
