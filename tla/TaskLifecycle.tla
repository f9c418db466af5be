--------------------------- MODULE TaskLifecycle ---------------------------
(***************************************************************************)
(* What the queue promises about one task, without clocks, owners or       *)
(* limits: the state diagram docs/diagrams/05-task-states.mmd, extended by *)
(* the removal of finished tasks (S3 retention).  TaskQueue implements it. *)
(***************************************************************************)
CONSTANT TaskIds

VARIABLE phase    \* of every task that ever was or will be

Phases == {"new", "QUEUED", "RUNNING", "ABORTING", "FINALIZING",
           "DONE", "FAILED", "ABORTED", "removed"}

Init == phase = [i \in TaskIds |-> "new"]

Move(i, from, to) ==
    /\ phase[i] \in from
    /\ phase' = [phase EXCEPT ![i] = to]

Accept(i) == Move(i, {"new"}, "QUEUED")
Start(i) == Move(i, {"QUEUED"}, "RUNNING")
RequestCancel(i) == Move(i, {"RUNNING"}, "ABORTING")
Publish(i) == Move(i, {"RUNNING"}, "FINALIZING")
Finish(i) == Move(i, {"FINALIZING"}, "DONE")
Cancel(i) == Move(i, {"QUEUED", "ABORTING"}, "ABORTED")

\* Maintenance deals with several tasks at once.
Fail(I) ==
    /\ \A i \in I : phase[i] \in {"RUNNING", "ABORTING", "FINALIZING"}
    /\ phase' = [i \in TaskIds |-> IF i \in I THEN "FAILED" ELSE phase[i]]
Forget(I) ==
    /\ \A i \in I : phase[i] \in {"DONE", "FAILED", "ABORTED"}
    /\ phase' = [i \in TaskIds |-> IF i \in I THEN "removed" ELSE phase[i]]

Next ==
    \/ \E i \in TaskIds : Accept(i) \/ Start(i) \/ RequestCancel(i) \/ Publish(i)
                          \/ Finish(i) \/ Cancel(i)
    \/ \E I \in SUBSET TaskIds : Fail(I) \/ Forget(I)

Spec == Init /\ [][Next]_phase

=============================================================================
