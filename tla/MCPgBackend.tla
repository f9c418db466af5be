---------------------------- MODULE MCPgBackend ----------------------------
(* TaskStore on PostgreSQL in two processes.  o1 gets a request, then the  *)
(* same request again with a new id (a retry), and one with an overlapping *)
(* output; o2 claims; a client aborts the first task.  The table is made   *)
(* meanwhile.                                                              *)
EXTENDS PgTaskStore, TLC

CONSTANTS o1, o2, m1, in1, a, b, k1, k2, post, repost, other, claim, abort, up

Request(output) == [model |-> m1, input |-> in1, output |-> output]
MCRequests == {Request(<<a>>), Request(<<a, b>>)}

Made(method, id, key, output, owner) ==
    [method |-> method, id |-> id, key |-> key, request |-> Request(output), owner |-> owner,
     models |-> {m1}, rows |-> 0, status |-> "FAILED", error |-> "failure", now |-> 1]

MCCallOf ==
    (post :> Made("enqueue", 1, k1, <<a>>, o1))
    @@ (repost :> Made("enqueue", 2, k1, <<a>>, o1))
    @@ (other :> Made("enqueue", 3, k2, <<a, b>>, o1))
    @@ (claim :> Made("claim_next", 1, k1, <<a>>, o2))
    @@ (abort :> Made("request_abort", 1, k1, <<a>>, o1))

MCProcessOf == [k \in Calls \ Migrations |-> CallOf[k].owner]

=============================================================================
