------------------------------ MODULE TaskRun ------------------------------
(***************************************************************************)
(* What the runs of one process do to the data: run_task of                *)
(* app/tasks/worker.py with the reader and the writer of                   *)
(* app/storage/s3_client.py, the batches of app/models/inference.py, a     *)
(* pipeline that may break its contract (app/models/contracts.py), and the *)
(* sampler thread of Utilization.  The record of the task, with its calls  *)
(* and their failures, is the business of Worker; here it is one word.     *)
(*                                                                         *)
(* Successive runs write to one output prefix, which is cleared between    *)
(* them or not, and read one input prefix, whose files come and go.        *)
(***************************************************************************)
EXTENDS Utilization

CONSTANTS
    Files,        \* names of parquet files, in the order of a listing
    Content,      \* rows of each file
    ChunkSize,    \* parquet_read_chunk_size
    BatchSize,    \* infer_batch_size
    MaxParts,     \* bound of the model: parts in the output prefix
    MaxRuns,      \* bound of the model: tasks the process executes
    MaxChanges,   \* bound of the model: changes of the input
    None          \* Python's None

ASSUME TaskRunAssumption ==
    /\ Files \subseteq Nat /\ IsFiniteSet(Files)
    /\ Content \in [Files -> Seq(Nat)]
    /\ ChunkSize \in Nat \ {0} /\ BatchSize \in Nat \ {0}
    /\ MaxParts \in Nat /\ MaxRuns \in Nat /\ MaxChanges \in Nat
    /\ None \notin Nat /\ None \notin Seq(Seq(Nat)) /\ None \notin {"double", "string", "int64"}

VARIABLES
    input,        \* the files under the input prefix
    changes,      \* changes of the input so far
    run,          \* the consumer thread: locals of run_task and its writer
    word,         \* what the record of the task says
    stopping,      \* the stop event of the process
    held,         \* the runs whose bundle holds memory, of the GPU too
    out,          \* the parts under the output prefix
    marker,       \* the run that wrote _SUCCESS, or None
    source        \* history: the input as the last reader opened it

runVars == <<input, changes, run, word, stopping, held, out, marker, source>>
allRunVars == <<runVars, utilizationVars>>

-----------------------------------------------------------------------------
(* The data.  A result frame is its keys, in order, whether its columns    *)
(* are the expected ones, and its types.                                   *)

\* The storage lists the keys of a prefix in their order.
Listing(files) ==
    CHOOSE s \in [1 .. Cardinality(files) -> files] : \A i, j \in DOMAIN s : i < j => s[i] < s[j]

Rows(files) == FlattenSeq([k \in DOMAIN Listing(files) |-> Content[Listing(files)[k]]])

\* What a bundle may answer to a batch: rows missing or out of order, columns
\* of its own, other types, or a changed input frame.
Dtypes == {"float64", "object"}
ResultsFor(batch) ==
    [keys : {batch, Reverse(batch), Tail(batch)}, columns : BOOLEAN,
     mutated : BOOLEAN, dtypes : Dtypes]

\* Arrow finds the type of an object column in its values.
ArrowSchema(dtypes) == IF dtypes = "float64" THEN {"double"} ELSE {"string", "int64"}

\* batch_size bounds a chunk; chunks do not span files, an empty file gives an
\* empty one.
Chunks(rows) ==
    IF rows = << >> THEN << << >> >>
    ELSE [k \in 1 .. ((Len(rows) + ChunkSize - 1) \div ChunkSize) |->
            SubSeq(rows, (k - 1) * ChunkSize + 1, Min({k * ChunkSize, Len(rows)}))]

iter_chunks(files) ==
    FlattenSeq([k \in DOMAIN Listing(files) |-> Chunks(Content[Listing(files)[k]])])

\* The bound leaves room for the parts of any input.
ASSUME PartsAssumption == \A files \in SUBSET Files : Len(iter_chunks(files)) <= MaxParts

count_rows(files) == Len(Rows(files))

Absent == [run |-> 0]      \* no object under the key
Parts == {k \in 1 .. MaxParts : out[k] # Absent}

prefix_has_results == Parts # {} \/ marker # None

Written == FlattenSeq([k \in 1 .. Cardinality(Parts) |-> out[k].rows])

-----------------------------------------------------------------------------
Idle == [at |-> "idle", id |-> 0, total |-> None, left |-> None, chunk |-> << >>,
         result |-> << >>, expected |-> None, output_dtypes |-> None, processed |-> 0,
         part |-> 1, schema |-> None, failed |-> FALSE, measured |-> FALSE]

RunInit ==
    /\ input \in (SUBSET Files) \ {{}}
    /\ changes = 0
    /\ run = Idle
    /\ word = "over"
    /\ stopping = FALSE
    /\ held = {}
    /\ out = [k \in 1 .. MaxParts |-> Absent]
    /\ marker = None
    /\ source = [rows |-> << >>, total |-> None, run |-> 0]
    /\ UtilizationInit

At(stage) == run.at = stage
Goto(stage) == run' = [run EXCEPT !.at = stage]
Ends == Goto("close") /\ word' = "over"

\* An error, an event or a cancellation ends the run; the record gets its
\* final status (Worker).
Breaks == Ends /\ UNCHANGED <<input, changes, stopping, held, out, marker, source, utilizationVars>>

\* check_shutdown and cancellation_requested: when neither stops the run.
Unstopped == ~stopping /\ word \in {"go", "final"}

\* consume_queue: the previous record is final, the next claim has a task.
Take ==
    /\ At("idle") /\ ~stopping /\ word = "over"
    /\ run.id < MaxRuns
    /\ run' = [Idle EXCEPT !.at = "begin", !.id = run.id + 1]
    /\ word' = "go"
    /\ sampler' = NoSampler /\ stats' = NoStatistics
    /\ UNCHANGED <<input, changes, stopping, held, out, marker, source, nvml>>

-----------------------------------------------------------------------------
(* run_task up to the first chunk.                                         *)

\* The first check, then the sampler when the request asks for it; when no
\* thread can be started the run fails with a sampler that never ran.
Begin ==
    /\ At("begin")
    /\ \/ Breaks
       \/ /\ Unstopped
          /\ \/ Goto("load") /\ UNCHANGED <<word, sampler>>
             \/ /\ run' = [run EXCEPT !.at = "load", !.measured = TRUE]
                /\ sampler' = [sampler EXCEPT !.at = "starting"]
                /\ UNCHANGED word
             \/ /\ run' = [run EXCEPT !.at = "close", !.measured = TRUE]
                /\ word' = "over"
                /\ UNCHANGED sampler
          /\ UNCHANGED <<input, changes, stopping, held, out, marker, source, nvml, stats>>

\* load may break half way, with memory taken.
Load ==
    /\ At("load")
    /\ \/ Breaks
       \/ /\ held' = held \cup {run.id}
          /\ \/ Ends
             \/ Unstopped /\ Goto("validate") /\ UNCHANGED word
          /\ UNCHANGED <<input, changes, stopping, out, marker, source, utilizationVars>>

\* The schema is read first, the rows are counted by a second listing.
Validate ==
    /\ At("validate")
    /\ \/ Breaks
       \/ /\ input # {}
          /\ Goto("count")
          /\ UNCHANGED <<input, changes, word, stopping, held, out, marker, source, utilizationVars>>

Count ==
    /\ At("count")
    /\ \/ Breaks
       \/ /\ Unstopped /\ input # {}
          /\ run' = [run EXCEPT !.at = "inspect", !.total = count_rows(input)]
          /\ UNCHANGED <<input, changes, word, stopping, held, out, marker, source, utilizationVars>>

Inspect ==
    /\ At("inspect")
    /\ \/ Breaks
       \/ /\ ~prefix_has_results
          /\ Goto("next")
          /\ UNCHANGED <<input, changes, word, stopping, held, out, marker, source, utilizationVars>>

-----------------------------------------------------------------------------
(* The chunk loop.                                                         *)

\* Variant: the reader is made anew for every chunk.
NextOfNewReader ==
    /\ At("next")
    /\ \/ Breaks
       \/ /\ Unstopped /\ input # {}
          /\ LET left == iter_chunks(input)
             IN  run' = [run EXCEPT !.at = IF Head(left) = << >> THEN "next" ELSE "infer",
                                    !.left = Tail(left), !.chunk = Head(left),
                                    !.result = << >>, !.expected = None]
          /\ source' = [rows |-> Rows(input), total |-> run.total, run |-> run.id]
          /\ UNCHANGED <<input, changes, word, stopping, held, out, marker, utilizationVars>>

\* next(chunks): the generator lists the input at the first call only; a file
\* that has gone since then may still be read from what was fetched ahead.
NextChunk ==
    /\ At("next")
    /\ \/ Breaks
       \/ /\ Unstopped
          /\ run.left = None => input # {}
          /\ LET left == IF run.left = None THEN iter_chunks(input) ELSE run.left
             IN  run' = IF left = << >> THEN [run EXCEPT !.at = "complete", !.left = left]
                        ELSE [run EXCEPT !.at = IF Head(left) = << >> THEN "next" ELSE "infer",
                                         !.left = Tail(left), !.chunk = Head(left),
                                         !.result = << >>, !.expected = None]
          /\ source' = IF run.left # None THEN source
                       ELSE [rows |-> Rows(input), total |-> run.total, run |-> run.id]
          /\ UNCHANGED <<input, changes, word, stopping, held, out, marker, utilizationVars>>

\* Variant: the keys are compared as a set.
AcceptsAnyOrder(answer, batch) ==
    /\ ~answer.mutated
    /\ Len(answer.keys) = Len(batch)
    /\ answer.columns
    /\ Range(answer.keys) = Range(batch)
    /\ run.expected \in {None, answer.dtypes}

Accepts(answer, batch) ==
    /\ ~answer.mutated
    /\ Len(answer.keys) = Len(batch)
    /\ answer.columns
    /\ answer.keys = batch
    /\ run.expected \in {None, answer.dtypes}

\* One batch of run_inference_on_chunk; after the last one the types of the
\* chunk are compared with those of the chunks before.
Infer ==
    LET done == Len(run.result)
        last == Min({done + BatchSize, Len(run.chunk)})
        batch == SubSeq(run.chunk, done + 1, last)
    IN  /\ At("infer")
        /\ \/ Breaks
           \/ /\ Unstopped
              /\ \E answer \in ResultsFor(batch) :
                    IF /\ Accepts(answer, batch)
                       /\ last = Len(run.chunk) => run.output_dtypes \in {None, answer.dtypes}
                    THEN /\ run' = [run EXCEPT
                                      !.at = IF last = Len(run.chunk) THEN "write" ELSE "infer",
                                      !.result = @ \o answer.keys,
                                      !.expected = answer.dtypes,
                                      !.output_dtypes =
                                          IF last = Len(run.chunk) THEN answer.dtypes ELSE @]
                         /\ UNCHANGED word
                    ELSE Ends
              /\ UNCHANGED <<input, changes, stopping, held, out, marker, source, utilizationVars>>

Part(schema) == [run |-> run.id, rows |-> run.result, schema |-> schema]

\* ParquetPrefixWriter.write_chunk: refuses, or puts the part; a PUT that
\* raises may have stored it.
write_chunk(schema) ==
    \/ /\ run.failed \/ run.schema \notin {None, schema}
       /\ run' = [run EXCEPT !.at = "close", !.failed = TRUE]
       /\ word' = "over"
       /\ UNCHANGED out
    \/ /\ ~run.failed /\ run.schema \in {None, schema}
       /\ out' = [out EXCEPT ![run.part] = Part(schema)]
       /\ \/ /\ run' = [run EXCEPT !.at = "next", !.part = @ + 1, !.schema = schema,
                                   !.processed = @ + Len(run.chunk)]
             /\ UNCHANGED word
          \/ Ends

Write ==
    /\ At("write")
    /\ \/ Breaks
       \/ /\ \E schema \in ArrowSchema(run.output_dtypes) : write_chunk(schema)
          /\ UNCHANGED <<input, changes, stopping, held, marker, source, utilizationVars>>

-----------------------------------------------------------------------------
(* The end of the data.                                                    *)

\* Variant: the number of rows read is not compared with the number counted.
CompleteUncounted ==
    /\ At("complete")
    /\ \/ Breaks
       \/ /\ ~stopping /\ word = "go"
          /\ Goto("publish") /\ word' = "final"
          /\ UNCHANGED <<input, changes, stopping, held, out, marker, source, utilizationVars>>

\* prepare_completion: the last cancellation, or FINALIZING, which no later
\* cancellation undoes.
Complete ==
    /\ At("complete")
    /\ \/ Breaks
       \/ /\ ~stopping /\ word = "go"
          /\ run.processed = run.total
          /\ Goto("publish") /\ word' = "final"
          /\ UNCHANGED <<input, changes, stopping, held, out, marker, source, utilizationVars>>

\* writer.close() and the final status.
Publish ==
    /\ At("publish")
    /\ \/ Breaks
       \/ /\ ~stopping /\ ~run.failed
          /\ marker' = run.id
          /\ Ends
          /\ UNCHANGED <<input, changes, stopping, held, out, source, utilizationVars>>

-----------------------------------------------------------------------------
(* finally: the bundle, then the sampler.                                  *)

\* Variant: a bundle that cannot be closed is only logged.
CloseAndGoOn ==
    /\ At("close")
    /\ Goto("stop")
    /\ \/ held' = held \ {run.id}
       \/ run.id \in held /\ UNCHANGED held
    /\ UNCHANGED <<input, changes, word, stopping, out, marker, source, utilizationVars>>

\* bundle.close(), of a bundle that is there; when it raises the process stops.
CloseBundle ==
    /\ At("close")
    /\ Goto("stop")
    /\ \/ held' = held \ {run.id} /\ UNCHANGED stopping
       \/ run.id \in held /\ stopping' = TRUE /\ UNCHANGED held
    /\ UNCHANGED <<input, changes, word, out, marker, source, utilizationVars>>

\* Variant: the thread is joined and not told to stop.
JoinUntold ==
    /\ At("stop")
    /\ Goto("join")
    /\ UNCHANGED <<input, changes, word, stopping, held, out, marker, source, utilizationVars>>

StopSampler ==
    /\ At("stop")
    /\ sampler' = [sampler EXCEPT !.stop_event = run.measured]
    /\ Goto("join")
    /\ UNCHANGED <<input, changes, word, stopping, held, out, marker, source, nvml, stats>>

\* thread.join() has no timeout; it raises for a thread that never started.
Join ==
    /\ At("join")
    /\ sampler.at \in {"none", "ended"}
    /\ Goto("idle")
    /\ UNCHANGED <<input, changes, word, stopping, held, out, marker, source, utilizationVars>>

RunTask ==
    \/ Take \/ Begin \/ Load \/ Validate \/ Count \/ Inspect
    \/ NextChunk \/ Infer \/ Write \/ Complete \/ Publish
    \/ CloseBundle \/ StopSampler \/ Join

-----------------------------------------------------------------------------
(* The rest of the world.                                                  *)

\* A request to cancel, or the end of the record by a timeout.
Cancel ==
    /\ \/ word = "go" /\ word' \in {"cancel", "over"}
       \/ word \in {"cancel", "final"} /\ word' = "over"
    /\ UNCHANGED <<input, changes, run, stopping, held, out, marker, source, utilizationVars>>

StopRuns ==
    /\ ~stopping
    /\ stopping' = TRUE
    /\ UNCHANGED <<input, changes, run, word, held, out, marker, source, utilizationVars>>

\* Somebody adds or removes a file of the input.
ChangeInput ==
    /\ changes < MaxChanges
    /\ changes' = changes + 1
    /\ \E f \in Files : input' \in {input \cup {f}, input \ {f}} \ {input}
    /\ UNCHANGED <<run, word, stopping, held, out, marker, source, utilizationVars>>

\* Airflow clears the prefix before it asks for the next attempt.
ClearOutput ==
    /\ At("idle") /\ word = "over"
    /\ out' = [k \in 1 .. MaxParts |-> Absent]
    /\ marker' = None
    /\ UNCHANGED <<input, changes, run, word, stopping, held, source, utilizationVars>>

RunNext ==
    \/ RunTask
    \/ Sampler /\ UNCHANGED runVars
    \/ Cancel \/ StopRuns \/ ChangeInput \/ ClearOutput

\* Both threads run; a reading of the sampler returns.
RunSpec ==
    /\ RunInit /\ [][RunNext]_allRunVars
    /\ WF_allRunVars(RunTask) /\ WF_allRunVars(Sampler /\ UNCHANGED runVars)

-----------------------------------------------------------------------------
RunTypeOK ==
    /\ input \subseteq Files
    /\ word \in {"go", "cancel", "final", "over"}
    /\ stopping \in BOOLEAN
    /\ held \subseteq 1 .. MaxRuns
    /\ marker \in {None} \cup 1 .. MaxRuns
    /\ run.part \in 1 .. MaxParts + 1
    /\ run.processed \in Nat
    /\ UtilizationTypeOK

\* Whatever the pipeline answers and wherever a run stops, the prefix holds the
\* first rows of the input that this run opened, in the order of the input,
\* each once, in parts without gaps that have one schema and one author.
PartsFollowInput ==
    /\ Parts = 1 .. Cardinality(Parts)
    /\ \A k \in Parts : out[k].run = out[1].run /\ out[k].schema = out[1].schema
    /\ Parts # {} => out[1].run = source.run /\ IsPrefix(Written, source.rows)

\* _SUCCESS stands over a whole result: all the rows of the listing that was
\* read, as many as the count that the record shows, and nothing of another
\* run, although the files of the input change under the worker.
MarkedIsComplete ==
    marker # None =>
        /\ marker = source.run
        /\ Written = source.rows
        /\ Len(Written) = source.total

\* Between two tasks nothing of the first one is left: no loaded pipeline that
\* would share the GPU with the next one, no thread that measures, no session
\* of NVML; a pipeline that cannot be closed takes no second task beside it.
TasksDoNotOverlap ==
    /\ At("idle") => sampler.at \in {"none", "ended"} /\ ~nvml
    /\ Cardinality(held) <= 1
    /\ At("idle") /\ held # {} => stopping

\* A task that was taken comes to an end and frees the consumer, measured or
\* not.
RunsEnd == ~At("idle") ~> At("idle")

=============================================================================
