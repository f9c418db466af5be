---------------------------- MODULE MCHadoopLoad ---------------------------
(* HadoopLoad with every combination of arguments that matters.            *)
EXTENDS HadoopLoad

CONSTANTS first, second

MCParts == {first, second}

MCSettings ==
    {s \in [mode : Modes, clear : BOOLEAN, add_load_id : BOOLEAN, explicit : BOOLEAN,
            query : BOOLEAN, meta : {"none", "parquet", "csv", "boto"}] :
       /\ ~(s.mode = "ignore" /\ s.clear)
       \* load_id makes no difference where it is not in the path,
       /\ ~s.add_load_id => s.explicit
       \* nor mode and metadata where nothing is written.
       /\ ~s.query => s.mode = "overwrite" /\ s.meta = "parquet"}

=============================================================================
