------------------------------ MODULE MCWorker ------------------------------
(* One or two attempts at one calculation, one or two processes.           *)
EXTENDS Worker

CONSTANTS m1, in1, a

MCRequests == {[model |-> m1, input |-> in1, output |-> <<a>>]}

\* What the actions read: the history variables are left out where no
\* property of the run looks at them.
WithoutHistory == <<tasks, pod, beat, out, faults>>

=============================================================================
