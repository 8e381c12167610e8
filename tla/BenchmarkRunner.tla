-------------------------- MODULE BenchmarkRunner --------------------------
(***************************************************************************)
(* The benchmark runner (bench/runner.cpp): options, warm-up intervals,    *)
(* measured intervals with six metrics, and one report on standard output, *)
(* which a build redirects to a file.  The clocks, the resource usage and  *)
(* the workload's event counters are the inputs of an interval.            *)
(***************************************************************************)
EXTENDS BenchmarkMath, FiniteSets

CONSTANTS
    Slots,                \* the files reports are redirected to
    Machines,             \* configurations a runner is built for and runs on
    CommandLines,         \* argument lists, as sequences of <<option, value>>
    Workload,             \* the workload name the runner is built with
    MaximumIntervals,     \* maximum_intervals
    MaximumWarmups,       \* maximum_warmup_intervals
    OperationsPerInterval,\* operations_per_interval
    NanosecondsPerSecond, \* nanoseconds_per_second
    Readings              \* what one measured interval can observe

Counters == {"allocation_count", "laghu_syscall_count"}

\* A reading or an option is a sequence: empty when there is none.
Unavailable == << >>

\* How much of a report can be in a file: none of it, a part that is no JSON value,
\* all but the newline after the object, or all of it.
Written == {"none", "part", "object", "all"}

\* A file: the report in it when its text is a JSON value.
NoFile == [exists |-> FALSE, document |-> << >>]

VARIABLES
    run,  \* the runner process
    file  \* what each file holds

runnerVars == <<run, file>>

Idle == [phase |-> "idle"]

Available(value) == [available |-> TRUE, value |-> value]
Lost == [available |-> FALSE, value |-> 0]

----------------------------------------------------------------------------
\* One pair of an argument list; each option is accepted once.
TakeOption(options, pair) ==
    CASE pair[1] = "--workload" /\ options.workload = Unavailable /\ pair[2] = Workload ->
           [options EXCEPT !.workload = <<pair[2]>>]
      [] pair[1] = "--warmup" /\ options.warmup = Unavailable
           /\ pair[2] \in 0..MaximumWarmups ->
           [options EXCEPT !.warmup = <<pair[2]>>]
      [] pair[1] = "--intervals" /\ options.intervals = Unavailable
           /\ pair[2] \in 1..MaximumIntervals ->
           [options EXCEPT !.intervals = <<pair[2]>>]
      [] OTHER -> [options EXCEPT !.invalid = TRUE]

ParseOptions(arguments) ==
    LET none == [workload |-> Unavailable, warmup |-> Unavailable,
                 intervals |-> Unavailable, invalid |-> FALSE]
    IN  FoldLeft(TakeOption, none, arguments)

ValidOptions(options) ==
    /\ ~options.invalid
    /\ Unavailable \notin {options.workload, options.warmup, options.intervals}

----------------------------------------------------------------------------
\* Adds the events of one workload call; a counter that would overflow fails it.
Record(counter, count) ==
    IF count = 0 THEN counter
    ELSE [instrumented |-> TRUE, value |-> counter.value + count]

RecordFits(counter, count) == count <= UMax - counter.value

NoEvents == [c \in Counters |-> [instrumented |-> FALSE, value |-> 0]]

\* A metric of the interval, and the sample it stores: throughput is lost by an
\* interval without elapsed time.
Throughput(metric, duration) ==
    IF duration = 0 \/ OperationsPerInterval > UMax \div NanosecondsPerSecond THEN Lost
    ELSE metric

\* Variant that takes a later good reading for a recovered metric.
CpuTimeRecovers(metric, begin, end) ==
    IF Unavailable \in {begin, end} THEN Lost
    ELSE IF end[1] < begin[1] THEN Lost
    ELSE IF end[1] - begin[1] > UMax - metric.value THEN Lost
    ELSE Available(metric.value + (end[1] - begin[1]))

\* Processor time is lost by an interval whose readings are missing or go back.
CpuTime(metric, begin, end) ==
    IF Unavailable \in {begin, end} THEN Lost
    ELSE IF end[1] < begin[1] \/ ~metric.available THEN Lost
    ELSE IF end[1] - begin[1] > UMax - metric.value THEN Lost
    ELSE Available(metric.value + (end[1] - begin[1]))

\* The largest resident set seen so far.
PeakRss(metric, rss) ==
    IF rss = Unavailable \/ ~metric.available THEN Lost
    ELSE Available(IF rss[1] > metric.value THEN rss[1] ELSE metric.value)

Sample(metric, value) == IF metric.available THEN value ELSE 0

----------------------------------------------------------------------------
\* main up to the first interval: the options, or the exit for invalid ones.  The
\* redirection makes an empty file before the runner starts; a report is kept.
Start(slot, machine, arguments) ==
    LET options == ParseOptions(arguments)
    IN  /\ run.phase = "idle" /\ file[slot].document = << >>
        /\ run' = IF ValidOptions(options)
                  THEN [phase |-> "warmup", slot |-> slot, machine |-> machine,
                        warmup |-> options.warmup[1], intervals |-> options.intervals[1],
                        done |-> 0, counters |-> NoEvents, total |-> 0,
                        durations |-> << >>, samples |-> << >>, seen |-> << >>,
                        throughput |-> Available(0), cpu |-> Available(0),
                        rss |-> Available(0)]
                  ELSE [phase |-> "exited", exit |-> "invalid_arguments"]
        /\ file' = [file EXCEPT ![slot] = [exists |-> TRUE, document |-> << >>]]

Exit(code) == run' = [phase |-> "exited", exit |-> code]

\* A warm-up interval: its counters are not the measured ones.
Warmup(ok) ==
    /\ run.phase = "warmup"
    /\ IF run.done = run.warmup
       THEN ok /\ run' = [run EXCEPT !.phase = "measure", !.done = 0]
       ELSE IF ok THEN run' = [run EXCEPT !.done = @ + 1]
       ELSE Exit("workload_failure")
    /\ UNCHANGED file

\* A measured interval, in the order the readings are taken and checked.  Record never
\* lowers a counter, so the last of the checks never fails.
Measure(reading) ==
    LET duration == reading.end[1] - reading.begin[1]
        fits == \A c \in Counters : RecordFits(run.counters[c], reading.events[c])
        counters == [c \in Counters |-> Record(run.counters[c], reading.events[c])]
        throughput == IF run.throughput.available THEN Throughput(run.throughput, duration)
                      ELSE Lost
        cpu == CpuTime(run.cpu, reading.cpuBegin, reading.cpuEnd)
        rss == PeakRss(run.rss, reading.rss)
        sample ==
          [throughput |-> Sample(throughput,
                            (OperationsPerInterval * NanosecondsPerSecond) \div
                              (IF duration = 0 THEN 1 ELSE duration)),
           cpu |-> IF cpu.available THEN reading.cpuEnd[1] - reading.cpuBegin[1] ELSE 0,
           rss |-> IF rss.available THEN reading.rss[1] ELSE 0,
           events |-> [c \in Counters |-> counters[c].value - run.counters[c].value]]
    IN  /\ run.phase = "measure" /\ run.done < run.intervals
        /\ CASE reading.begin = Unavailable -> Exit("metric_unavailable")
             [] reading.begin # Unavailable /\ (~reading.ok \/ ~fits) -> Exit("workload_failure")
             [] OTHER ->
                  IF reading.end = Unavailable THEN Exit("metric_unavailable")
                  ELSE IF \/ duration < 0 \/ duration > UMax - run.total
                          \/ \E c \in Counters : counters[c].value < run.counters[c].value
                  THEN Exit("metric_unavailable")
                  ELSE run' = [run EXCEPT !.done = @ + 1, !.counters = counters,
                                 !.total = @ + duration,
                                 !.durations = Append(@, duration),
                                 !.samples = Append(@, sample),
                                 !.throughput = throughput, !.cpu = cpu, !.rss = rss,
                                 !.seen = Append(@, reading)]
        /\ UNCHANGED file

\* The throughput over all intervals.
TotalThroughput ==
    LET operations == run.intervals * OperationsPerInterval
    IN  IF run.total = 0 \/ ~run.throughput.available
             \/ operations > UMax \div NanosecondsPerSecond
        THEN Lost
        ELSE Available((operations * NanosecondsPerSecond) \div run.total)

Series(metric, samples) == [available |-> metric.available, value |-> metric.value,
                            samples |-> IF metric.available THEN samples ELSE << >>]

\* What write_report writes; the checksum is that of the seeds that were run.
Report ==
    LET of(name) == [i \in 1..run.intervals |-> run.samples[i][name]]
        counter(c) == Series([available |-> run.counters[c].instrumented,
                              value |-> run.counters[c].value],
                             [i \in 1..run.intervals |-> run.samples[i].events[c]])
    IN  [machine |-> run.machine, workload |-> Workload,
         intervals |-> run.intervals, warmup |-> run.warmup,
         checksum |-> run.warmup + run.intervals,
         percentiles |-> Percentiles(run.durations),
         metrics |-> [m \in Counters |-> counter(m)]
           @@ ("latency_ns_per_interval" :> Series(Available(0), run.durations))
           @@ ("throughput_operations_per_second" :> Series(TotalThroughput, of("throughput")))
           @@ ("cpu_time_ns" :> Series(run.cpu, of("cpu")))
           @@ ("peak_rss_bytes" :> Series(run.rss, of("rss")))]

\* The report is written in pieces; a failed write leaves what was written so far.
WriteAll(written) ==
    [exists |-> TRUE,
     document |-> IF written \in {"object", "all"} THEN <<Report>> ELSE << >>]

\* The report does not fit the writer (nothing is written), is written or fails half way.
WriteReport(written) ==
    /\ run.phase = "measure" /\ run.done = run.intervals
    /\ file' = [file EXCEPT ![run.slot] = WriteAll(written)]
    /\ IF written = "all"
       THEN run' = [phase |-> "exited", exit |-> "success", slot |-> run.slot, seen |-> run.seen]
       ELSE Exit("output_failure")

\* The script that started the runner has seen it exit.
Reap == run.phase = "exited" /\ run' = Idle /\ UNCHANGED file

RunnerInit == run = Idle /\ file = [s \in Slots |-> NoFile]

RunnerNext ==
    \/ \E s \in Slots, m \in Machines, a \in CommandLines : Start(s, m, a)
    \/ \E ok \in BOOLEAN : Warmup(ok)
    \/ \E r \in Readings : Measure(r)
    \/ \E written \in Written : WriteReport(written)
    \/ Reap
=============================================================================
