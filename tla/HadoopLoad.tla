---------------------------- MODULE HadoopLoad -----------------------------
(***************************************************************************)
(* HadoopToS3Operator and its Spark driver (airflow_operators/             *)
(* hadoop_to_s3_operator.py, scripts/hadoop_to_s3_script.py).  A task of   *)
(* Airflow writes the result of a query to S3 and then, by a second job    *)
(* that runs the query again, one row of metadata about the load, as       *)
(* parquet or into a CSV that grows from load to load.  A task that fails  *)
(* is retried from its beginning; loads follow one another, since parallel *)
(* updates of one CSV are excluded by docs/hadoop-to-s3-operator.md.       *)
(***************************************************************************)
EXTENDS Integers, FiniteSets, Sequences

CONSTANTS
    MaxAttempts,   \* bound: executions of the operator, over all loads
    Parts,         \* the files of one result: repartition x shards
    Settings,      \* what a DAG may ask for
    NoFile         \* the object does not exist

Modes == {"overwrite", "append", "ignore", "error"}

ASSUME AttemptsAssumption == MaxAttempts \in Nat \ {0}
ASSUME PartsAssumption == IsFiniteSet(Parts) /\ Parts # {}
\* normalize_args refuses clear_s3_path with mode=ignore.
ASSUME SettingsAssumption ==
    Settings \subseteq
        {s \in [mode        : Modes,
                clear       : BOOLEAN,       \* clear_s3_path
                add_load_id : BOOLEAN,
                explicit    : BOOLEAN,       \* load_id is given by the DAG
                query       : BOOLEAN,       \* query_path is given
                meta        : {"none", "parquet", "csv", "boto"}] :
           ~(s.mode = "ignore" /\ s.clear)}

Attempts == 1 .. MaxAttempts

ASSUME FileAssumption == NoFile \notin Seq(Attempts)

VARIABLES
    settings,    \* the arguments of the operator, the same for every load
    source,      \* what the query finds: other systems fill the table
    load,        \* the DAG run
    attempt,     \* the execution of the operator
    phase,       \* which of the two Spark jobs
    pc,          \* its next access to Spark or S3
    dirs,        \* parquet files below the paths of data and metadata
    csv,         \* the named CSV of each path: the attempts of its rows
    staging,     \* the merged CSV of each attempt, while it is not published
    held,        \* rows the boto branch has read
    published,   \* history: which row was ever readable, and where
    loaded,      \* history: attempts whose data were written as a whole
    changed      \* history: attempts during which the source changed

access == <<dirs, csv, staging, held, published, loaded>>
vars == <<settings, source, load, attempt, phase, pc, access, changed>>

-----------------------------------------------------------------------------
(* Paths.  A generated load_id differs in every execution.                 *)

Root == <<"root">>
LoadPaths == {"load"} \X Attempts
Paths == {Root} \cup LoadPaths

destination ==
    IF ~settings.add_load_id THEN Root
    ELSE <<"load", IF settings.explicit THEN load ELSE attempt>>

\* append_csv_boto builds its key without load_id.
CsvPath == IF settings.meta = "boto" THEN Root ELSE destination

File == [attempt : Attempts, part : Parts]

(* What one job writes: all partitions of the data; metadata are one file. *)
Output == [attempt : {attempt},
           part    : IF phase = "data" THEN Parts ELSE {CHOOSE p \in Parts : TRUE}]

Rows(file) == IF file = NoFile THEN <<>> ELSE file
RowSet(file) == {Rows(file)[k] : k \in DOMAIN Rows(file)}

Init ==
    /\ settings \in Settings
    /\ source \in {"empty", "rows"}
    /\ load = 0 /\ attempt = 0
    /\ phase = "data" /\ pc = "idle"
    /\ dirs = [kind \in {"data", "meta"} |-> [p \in Paths |-> {}]]
    /\ csv = [p \in Paths |-> NoFile]
    /\ staging = [a \in Attempts |-> NoFile]
    /\ held = <<>>
    /\ published = {} /\ loaded = {} /\ changed = {}

Running == pc \notin {"idle", "failed", "succeeded"}

\* The job goes on, or raises: the task of Airflow fails.
Goto(next) == pc' = next /\ UNCHANGED <<settings, source, load, attempt, phase, changed>>
Raise == Goto("failed")

PhaseDone ==
    IF phase = "data" /\ settings.meta # "none" /\ settings.query
    THEN /\ phase' = "meta" /\ pc' = "query"
         /\ UNCHANGED <<settings, source, load, attempt, changed>>
    ELSE Goto("count")

-----------------------------------------------------------------------------
(* Airflow: a failed task is retried, or given up for the next DAG run.    *)

Execute(retry) ==
    /\ ~Running
    /\ attempt < MaxAttempts
    /\ retry => pc = "failed"
    /\ attempt' = attempt + 1
    /\ load' = IF retry THEN load ELSE load + 1
    /\ phase' = "data"
    /\ pc' = IF settings.query THEN "query" ELSE "cleanup"
    /\ UNCHANGED <<settings, source, access, changed>>

\* The worker of Airflow or the driver dies.
Die == Running /\ Raise /\ UNCHANGED access

SourceChanges ==
    /\ source' \in {"empty", "rows"} \ {source}
    /\ changed' = IF Running THEN changed \cup {attempt} ELSE changed
    /\ UNCHANGED <<settings, load, attempt, phase, pc, access>>

-----------------------------------------------------------------------------
(* The driver.                                                             *)

\* Without SQL the data job only clears, and must be asked to.
Cleanup ==
    /\ pc = "cleanup"
    /\ Goto(IF settings.clear THEN "clear" ELSE "failed")
    /\ UNCHANGED access

MetadataStep ==
    CASE settings.meta = "parquet" -> "write"
      [] settings.meta = "csv" -> "read"
      [] settings.meta = "boto" -> "get"

\* Variant: the metadata job does not look whether there are data.
QueryMetadataAnyway ==
    /\ pc = "query"
    /\ \/ Raise
       \/ source = "empty" /\ phase = "data" /\ PhaseDone
       \/ /\ source = "rows" \/ phase = "meta"
          /\ Goto(IF phase = "meta" THEN MetadataStep
                  ELSE IF settings.clear THEN "clear" ELSE "write")
    /\ UNCHANGED access

\* Variant: the old data are cleared before the query is known to be good.
QueryAfterClear ==
    /\ pc = "query"
    /\ IF settings.clear /\ phase = "data"
       THEN dirs' = [dirs EXCEPT !["data"][destination] = {}]
       ELSE UNCHANGED dirs
    /\ \/ Raise
       \/ source = "empty" /\ PhaseDone
       \/ /\ source = "rows"
          /\ Goto(IF phase = "meta" THEN MetadataStep
                  ELSE IF settings.clear THEN "clear" ELSE "write")
    /\ UNCHANGED <<csv, staging, held, published, loaded>>

\* SQL and its schema are checked, and the result is not empty, before
\* anything in S3 is touched.
Query ==
    /\ pc = "query"
    /\ \/ Raise
       \/ source = "empty" /\ PhaseDone
       \/ /\ source = "rows"
          /\ Goto(IF phase = "meta" THEN MetadataStep
                  ELSE IF settings.clear THEN "clear" ELSE "write")
    /\ UNCHANGED access

\* A recursive delete that fails may have removed some of the files.
Clear ==
    /\ pc = "clear"
    /\ UNCHANGED <<csv, staging, held, published, loaded>>
    /\ \/ /\ dirs' = [dirs EXCEPT !["data"][destination] = {}]
          /\ IF settings.query THEN Goto("write") ELSE PhaseDone
       \/ \E rest \in SUBSET dirs["data"][destination] :
             dirs' = [dirs EXCEPT !["data"][destination] = rest] /\ Raise

\* What Spark's save mode does with what is there.
Kept(old) == IF settings.mode = "overwrite" THEN {} ELSE old

\* Variant: a job that has failed counts as written.
WriteUnchecked ==
    LET old == dirs[phase][destination]
    IN  /\ pc = "write"
        /\ UNCHANGED <<csv, staging, held, published>>
        /\ \E some \in SUBSET Output :
              /\ dirs' = [dirs EXCEPT ![phase][destination] = Kept(old) \cup some]
              /\ loaded' = IF phase = "data" THEN loaded \cup {attempt} ELSE loaded
              /\ PhaseDone

\* DataFrameWriter.parquet.  The committer publishes files one by one: a job
\* that fails has removed what it replaces and left some of its own.
Write ==
    LET old == dirs[phase][destination]
    IN  /\ pc = "write"
        /\ UNCHANGED <<csv, staging, held, published>>
        /\ \/ /\ settings.mode = "error" /\ old # {}
              /\ Raise /\ UNCHANGED <<dirs, loaded>>
           \/ /\ settings.mode = "ignore" /\ old # {}
              /\ PhaseDone /\ UNCHANGED dirs
              /\ loaded' = IF phase = "data" THEN loaded \cup {attempt} ELSE loaded
           \/ /\ settings.mode \in {"error", "ignore"} => old = {}
              /\ \/ /\ dirs' = [dirs EXCEPT ![phase][destination] = Kept(old) \cup Output]
                    /\ loaded' = IF phase = "data" THEN loaded \cup {attempt} ELSE loaded
                    /\ PhaseDone
                 \/ \E some \in SUBSET Output :
                       /\ dirs' = [dirs EXCEPT ![phase][destination] = Kept(old) \cup some]
                       /\ Raise /\ UNCHANGED loaded

-----------------------------------------------------------------------------
(* append_csv_boto: GET, one more row, PUT.                                *)

\* Variant: any error of GET is taken for a missing file.
GetOrNothing ==
    /\ pc = "get"
    /\ held' \in {Rows(csv[CsvPath]), <<>>} /\ Goto("put")
    /\ UNCHANGED <<dirs, csv, staging, published, loaded>>

\* Variant: a missing file is not made an empty table.
GetRaw ==
    /\ pc = "get"
    /\ \/ held' = csv[CsvPath] /\ Goto("put")
       \/ Raise /\ UNCHANGED held
    /\ UNCHANGED <<dirs, csv, staging, published, loaded>>

Get ==
    /\ pc = "get"
    /\ \/ held' = Rows(csv[CsvPath]) /\ Goto("put")
       \/ Raise /\ UNCHANGED held
    /\ UNCHANGED <<dirs, csv, staging, published, loaded>>

Publish(rows) ==
    /\ csv' = [csv EXCEPT ![CsvPath] = rows]
    /\ published' = published \cup {<<CsvPath, rows[k]>> : k \in DOMAIN rows}

\* A PUT that raises may have been stored.
Put ==
    /\ pc = "put"
    /\ \/ Publish(Append(held, attempt)) /\ (Goto("count") \/ Raise)
       \/ Raise /\ UNCHANGED <<csv, published>>
    /\ UNCHANGED <<dirs, staging, held, loaded>>

-----------------------------------------------------------------------------
(* append_csv_spark: the merged CSV is written beside the old one, which   *)
(* is then deleted, and the new one moved into its place.                  *)

\* Variant: the old CSV is deleted before the merged one is written.
ReadDeleting ==
    /\ pc = "read"
    /\ \/ /\ staging' = [staging EXCEPT ![attempt] = Append(Rows(csv[CsvPath]), attempt)]
          /\ Goto("delete") /\ UNCHANGED csv
       \/ /\ csv' = [csv EXCEPT ![CsvPath] = NoFile]
          /\ Raise /\ UNCHANGED staging
    /\ UNCHANGED <<dirs, held, published, loaded>>

\* exists and the lazy read happen with the write to the staging path.
Read ==
    /\ pc = "read"
    /\ \/ /\ staging' = [staging EXCEPT ![attempt] = Append(Rows(csv[CsvPath]), attempt)]
          /\ Goto("delete")
       \/ Raise /\ UNCHANGED staging
    /\ UNCHANGED <<dirs, csv, held, published, loaded>>

Delete ==
    /\ pc = "delete"
    /\ \/ csv' = [csv EXCEPT ![CsvPath] = NoFile] /\ (Goto("rename") \/ Raise)
       \/ Raise /\ UNCHANGED csv
    /\ UNCHANGED <<dirs, staging, held, published, loaded>>

\* Variant: the staging path is removed when the publication fails.
RenameCleaning ==
    /\ pc = "rename"
    /\ \/ Publish(staging[attempt]) /\ Goto("tidy") /\ UNCHANGED staging
       \/ /\ staging' = [staging EXCEPT ![attempt] = NoFile]
          /\ Raise /\ UNCHANGED <<csv, published>>
    /\ UNCHANGED <<dirs, held, loaded>>

\* S3A renames by a copy and a delete of the original: it may stop between.
Rename ==
    /\ pc = "rename"
    /\ \/ Publish(staging[attempt]) /\ (Goto("tidy") \/ Raise)
       \/ Raise /\ UNCHANGED <<csv, published>>
    /\ UNCHANGED <<dirs, staging, held, loaded>>

\* Variant: an error after the publication repeats it.
TidyAgain ==
    /\ pc = "tidy"
    /\ \/ staging' = [staging EXCEPT ![attempt] = NoFile] /\ Goto("count")
       \/ Goto("read") /\ UNCHANGED staging
    /\ UNCHANGED <<dirs, csv, held, published, loaded>>

\* The row is there already when the removal of the staging path raises; that
\* it answers false is only logged.
Tidy ==
    /\ pc = "tidy"
    /\ \/ staging' = [staging EXCEPT ![attempt] = NoFile] /\ Goto("count")
       \/ (Goto("count") \/ Raise) /\ UNCHANGED staging
    /\ UNCHANGED <<dirs, csv, held, published, loaded>>

\* _count_parquet never fails the task.
CountParquet ==
    /\ pc = "count"
    /\ Goto("succeeded")
    /\ UNCHANGED access

Next ==
    \/ \E retry \in BOOLEAN : Execute(retry)
    \/ Die
    \/ SourceChanges
    \/ Cleanup
    \/ Query
    \/ Clear
    \/ Write
    \/ Get
    \/ Put
    \/ Read
    \/ Delete
    \/ Rename
    \/ Tidy
    \/ CountParquet

Spec == Init /\ [][Next]_vars

-----------------------------------------------------------------------------
TypeOK ==
    /\ settings \in Settings
    /\ source \in {"empty", "rows"}
    /\ load \in 0 .. MaxAttempts
    /\ attempt \in 0 .. MaxAttempts
    /\ phase \in {"data", "meta"}
    /\ pc \in {"idle", "failed", "succeeded", "cleanup", "query", "clear", "write",
               "get", "put", "read", "delete", "rename", "tidy", "count"}
    /\ dirs \in [{"data", "meta"} -> [Paths -> SUBSET File]]
    /\ \A p \in Paths : Rows(csv[p]) \in Seq(Attempts)
    /\ \A a \in Attempts : Rows(staging[a]) \in Seq(Attempts)
    /\ held \in Seq(Attempts)
    /\ published \subseteq Paths \X Attempts
    /\ loaded \subseteq Attempts
    /\ changed \subseteq Attempts

\* A row that could once be read is never lost for good: it is in its CSV, or in
\* a staging file that a failed publication left behind, wherever the operator
\* stopped and however often it was retried.
RowsRecoverable ==
    \A r \in published :
        \/ r[2] \in RowSet(csv[r[1]])
        \/ \E a \in Attempts : r[2] \in RowSet(staging[a])

\* One execution adds its row once, also when the publication of its CSV raised
\* after the file was there, or when a later one starts from a staged file.
OneRowPerAttempt ==
    \A p \in Paths : \A k, m \in DOMAIN Rows(csv[p]) :
        Rows(csv[p])[k] = Rows(csv[p])[m] => k = m

\* Metadata describe data that were loaded: a row, or a metadata file, of an
\* execution appears only when its data job has written the data (or, by
\* mode=ignore, accepted those in place), unless the table was filled between
\* the two jobs, which run the query separately.
MetadataHasData ==
    \A a \in Attempts :
        \/ \E p \in Paths : a \in RowSet(csv[p])
        \/ \E p \in Paths : \E f \in dirs["meta"][p] : f.attempt = a
        => a \in loaded \cup changed

\* What a reader of the metadata relies on: every published row is kept, is
\* there once, and describes data that were loaded.
MetadataIntact == RowsRecoverable /\ OneRowPerAttempt /\ MetadataHasData

\* A task that ends well over a non-empty result has all its files in place; files
\* of other executions are mixed in only where the DAG asked to append.
SuccessIsComplete ==
    pc \in {"count", "succeeded"} /\ attempt \in loaded /\ settings.mode # "ignore" =>
        LET own == [attempt : {attempt}, part : Parts]
        IN  /\ own \subseteq dirs["data"][destination]
            /\ settings.mode # "append" \/ settings.clear => dirs["data"][destination] = own

\* Data of an earlier load go only when there is something to replace them, or
\* when the task was asked for nothing but a cleanup: a query that fails or
\* finds nothing, and every step of the metadata job, leave them alone.
DataKept ==
    [][dirs'["data"] # dirs["data"] =>
          /\ phase = "data"
          /\ pc \in {"clear", "write"}
          /\ settings.query /\ attempt \notin changed => source = "rows"]_vars

=============================================================================
