----------------------------- MODULE MCTaskRun -----------------------------
(* Three input files: one of two chunks, the first of them of two batches, *)
(* one of a single row, and an empty one between them; two successive      *)
(* runs.                                                                   *)
EXTENDS TaskRun, TLC

FileContent == (1 :> <<1, 2, 3, 4>>) @@ (2 :> << >>) @@ (3 :> <<5>>)

=============================================================================
