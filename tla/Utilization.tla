---------------------------- MODULE Utilization ----------------------------
(***************************************************************************)
(* The utilization measurements of one task (app/tasks/utilization.py):    *)
(* the sampler thread with its NVML session, and the exact statistics of   *)
(* one resource kept in two heaps.  The other resources are handled alike  *)
(* and independently.  TaskRun starts the thread, stops it and joins it.   *)
(***************************************************************************)
EXTENDS Integers, Bags, SequencesExt

CONSTANTS
    Values,       \* the usable readings of a probe: finite and not negative
    Unusable,     \* None, NaN, an infinity or a negative number
    MaxSamples,   \* bound of the model: readings taken in one run
    MaxReadings   \* bound of StatisticsExact: readings it goes through

ASSUME UtilizationAssumption ==
    /\ Values \subseteq Nat /\ Values # {}
    /\ Unusable \notin Values
    /\ MaxSamples \in Nat /\ MaxReadings \in Nat

VARIABLES
    sampler,      \* the thread: where it is, and its stop_event
    nvml,         \* ResourceProbe.nvml: a session of NVML is open
    stats         \* RunningStatistics

utilizationVars == <<sampler, nvml, stats>>

-----------------------------------------------------------------------------
(* RunningStatistics: lower is a heap of the smaller half, upper of the    *)
(* larger one; heapq gives the largest of lower and the smallest of upper. *)

Push(heap, v) == heap (+) SetToBag({v})
Drop(heap, v) == heap (-) SetToBag({v})
Top(lower) == Max(BagToSet(lower))
Bottom(upper) == Min(BagToSet(upper))

Untouched == -1      \* minimum and maximum are None

NoStatistics ==
    [lower |-> EmptyBag, upper |-> EmptyBag, total |-> 0,
     minimum |-> Untouched, maximum |-> Untouched]

\* Moves the largest of lower to upper, and one back when upper is the larger.
Balanced(lower, upper) ==
    LET v == Top(lower)
        l == Drop(lower, v)
        u == Push(upper, v)
    IN  IF BagCardinality(u) > BagCardinality(l)
        THEN [lower |-> Push(l, Bottom(u)), upper |-> Drop(u, Bottom(u))]
        ELSE [lower |-> l, upper |-> u]

\* Variant: a reading goes to the heap that is the shorter one.
AddUnsorted(s, v) ==
    LET left == BagCardinality(s.lower) <= BagCardinality(s.upper)
    IN  IF v = Unusable THEN s
        ELSE [lower   |-> IF left THEN Push(s.lower, v) ELSE s.lower,
              upper   |-> IF left THEN s.upper ELSE Push(s.upper, v),
              total   |-> s.total + v,
              minimum |-> IF s.minimum = Untouched THEN v ELSE Min({s.minimum, v}),
              maximum |-> IF s.maximum = Untouched THEN v ELSE Max({s.maximum, v})]

Add(s, v) ==
    LET heaps == Balanced(Push(s.lower, v), s.upper)
    IN  IF v = Unusable THEN s
        ELSE [lower   |-> heaps.lower,
              upper   |-> heaps.upper,
              total   |-> s.total + v,
              minimum |-> IF s.minimum = Untouched THEN v ELSE Min({s.minimum, v}),
              maximum |-> IF s.maximum = Untouched THEN v ELSE Max({s.maximum, v})]

\* The mean is total over samples; the median is doubled to stay an integer.
Snapshot(s) ==
    LET below == BagCardinality(s.lower)
        above == BagCardinality(s.upper)
    IN  IF below + above = 0 THEN [samples |-> 0]
        ELSE [samples |-> below + above,
              min |-> s.minimum, max |-> s.maximum, total |-> s.total,
              median2 |-> Top(s.lower)
                          + IF below = above THEN Bottom(s.upper) ELSE Top(s.lower)]

-----------------------------------------------------------------------------
(* The thread.  A reading and its addition are two steps: the stop_event   *)
(* may be set between them.                                                *)

Phases == {"none", "starting", "waiting", "reading", "ended"}

NoSampler == [at |-> "none", stop_event |-> FALSE]

UtilizationInit ==
    /\ sampler = NoSampler
    /\ nvml = FALSE
    /\ stats = NoStatistics

Thread(from, to) ==
    /\ sampler.at = from
    /\ sampler' = [sampler EXCEPT !.at = to]

\* nvmlInit is called for a CUDA device only and may fail; neither ends the
\* thread.
ProbeStart ==
    /\ Thread("starting", "waiting")
    /\ nvml' \in BOOLEAN
    /\ UNCHANGED stats

\* The wait for the next second returns without the event.
Due ==
    /\ ~sampler.stop_event
    /\ Snapshot(stats).samples < MaxSamples
    /\ Thread("waiting", "reading")
    /\ UNCHANGED <<nvml, stats>>

\* sample() catches every error of psutil and NVML: the value is missing then.
Sample ==
    /\ Thread("reading", "waiting")
    /\ \E v \in Values \cup {Unusable} : stats' = Add(stats, v)
    /\ UNCHANGED nvml

\* The wait is answered by the event; finally closes the probe.
Leave ==
    /\ sampler.stop_event
    /\ Thread("waiting", "ended")
    /\ nvml' = FALSE
    /\ UNCHANGED stats

Sampler == ProbeStart \/ Due \/ Sample \/ Leave

-----------------------------------------------------------------------------
(* What the statistics promise, by the definition of a median.             *)

Usable(readings) == {i \in DOMAIN readings : readings[i] # Unusable}

AtMost(readings, v) == Cardinality({i \in Usable(readings) : readings[i] <= v})

\* The k-th smallest of the usable readings.
Ranked(readings, k) ==
    CHOOSE v \in Values : AtMost(readings, v) >= k /\ AtMost(readings, v - 1) < k

Reference(readings) ==
    LET n == Cardinality(Usable(readings))
        values == {readings[i] : i \in Usable(readings)}
    IN  IF n = 0 THEN [samples |-> 0]
        ELSE [samples |-> n, min |-> Min(values), max |-> Max(values),
              total |-> MapThenSumSet(LAMBDA i : readings[i], Usable(readings)),
              median2 |-> Ranked(readings, (n + 1) \div 2) + Ranked(readings, n \div 2 + 1)]

Statistics(readings) == FoldLeft(Add, NoStatistics, readings)

HeapsAgreeWithReference ==
    \A n \in 0 .. MaxReadings : \A readings \in [1 .. n -> Values \cup {Unusable}] :
        Snapshot(Statistics(readings)) = Reference(readings)

\* In a run the two heaps are the halves of one order.
HeapsAreHalves ==
    /\ BagCardinality(stats.lower) - BagCardinality(stats.upper) \in {0, 1}
    /\ \A v \in BagToSet(stats.lower), w \in BagToSet(stats.upper) : v <= w

\* The statistics of a task are exact whatever the order of its readings, and
\* an unusable reading changes none of them: two heaps, fed one reading at a
\* time, against the definition over every sequence of readings; in a run the
\* heaps stay halves of one order.
StatisticsExact == HeapsAgreeWithReference /\ HeapsAreHalves

UtilizationTypeOK ==
    /\ sampler \in [at : Phases, stop_event : BOOLEAN]
    /\ nvml \in BOOLEAN
    /\ BagToSet(stats.lower) \cup BagToSet(stats.upper) \subseteq Values

=============================================================================
