---------------------------- MODULE MCS3Backend ----------------------------
(* A set of two records, two processes that start, and two calls: one that *)
(* inserts a record and one that removes it or, when it is not there,      *)
(* inserts the other.  Between them they bring back contents that a slow   *)
(* request still expects.                                                  *)
EXTENDS S3Backend, TLC

CONSTANTS init1, init2, insert_y, flip

MCContents == {c : c \in SUBSET {"x", "y"}}

MCChange(k, c) ==
    CASE k = insert_y -> c \cup {"y"}
      [] k = flip -> IF "y" \in c THEN c \ {"y"} ELSE c \cup {"x"}
      [] OTHER -> c

MCAnswer(k, c) == IF k \in Initializers THEN "None" ELSE c

Starters == Permutations({init1, init2})

=============================================================================
