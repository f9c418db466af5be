----------------------------- MODULE MCService -----------------------------
(* Two requests at a time and two tasks.                                   *)
EXTENDS Service

CONSTANTS probe, other

MCRequests == {probe, other}

=============================================================================
