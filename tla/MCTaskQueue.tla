---------------------------- MODULE MCTaskQueue ----------------------------
(* Two small instances of TaskQueue.  Queue: three tasks in a queue of two,*)
(* nested and disjoint output prefixes, two processes of which one serves  *)
(* one of the two models.  Clocks: one task, and pods whose clocks differ  *)
(* by up to two ticks, with time for timeouts on both sides of the skew.   *)
EXTENDS TaskQueue, TLC

CONSTANTS o1, o2, m1, m2, k1, k2, in1, a, b, c

Request(model, output) == [model |-> model, input |-> in1, output |-> output]

QueueRequests == {Request(m1, <<a>>), Request(m2, <<a, b>>), Request(m2, <<c>>)}
TwoProcesses == (o1 :> {m1, m2}) @@ (o2 :> {m1})
KeySymmetry == Permutations({k1, k2})   \* compared for equality only

ClockRequests == {Request(m1, <<a>>)}
ClockProcesses == (o1 :> {m1}) @@ (o2 :> {m1})
ProcessSymmetry == Permutations({o1, o2})

=============================================================================
