-------------------------- MODULE MCAirflowSensor --------------------------
(* Two shards over one pod of the service.                                 *)
EXTENDS AirflowSensor

CONSTANTS m1, in1, a, b, o1

Request(output) == [model |-> m1, input |-> in1, output |-> output]
MCRequests == {Request(<<a>>), Request(<<b>>)}
MCRequestOf == <<Request(<<a>>), Request(<<b>>)>>
MCKeys == (1 .. Shards) \X (0 .. MaxPokes)

=============================================================================
