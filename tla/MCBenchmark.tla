---------------------------- MODULE MCBenchmark ----------------------------
(***************************************************************************)
(* The benchmark programs for TLC: words of five bits, two intervals, four *)
(* configurations, and readings with a missing, a zero, a decreasing and a *)
(* too large value among them; and the reader's documents.                 *)
(***************************************************************************)
EXTENDS BenchmarkEvaluator, JsonDocument

Machine(schema, build, cpu) ==
    [schema |-> schema, target |-> "target", build |-> build, cpu |-> cpu]

MCMachines == {Machine("v1", "one", <<"cpu">>), Machine("v1", "one", << >>),
               Machine("v1", "two", <<"cpu">>), Machine("v0", "one", <<"cpu">>),
               Machine("v1", "one", <<"other">>)}

Line(workload, warmup, intervals) ==
    << <<"--warmup", warmup>>, <<"--workload", workload>>, <<"--intervals", intervals>> >>

MCCommandLines == {Line(1, 0, 2), Line(1, 1, 1), Line(2, 0, 2), Line(1, 0, 0), Line(1, 0, 3),
                   Line(1, 0, 2) \o << <<"--warmup", 0>> >>, << <<"--warmup", 1>> >>}

Reading(begin, end, cpuBegin, cpuEnd, rss, allocations) ==
    [begin |-> begin, end |-> end, cpuBegin |-> cpuBegin, cpuEnd |-> cpuEnd, rss |-> rss,
     events |-> [c \in Counters |-> IF c = "allocation_count" THEN allocations ELSE 0],
     ok |-> TRUE]

Good == {Reading(<<0>>, <<1>>, <<0>>, <<1>>, <<1>>, 1),
         Reading(<<1>>, <<3>>, <<1>>, <<3>>, <<2>>, 0),
         Reading(<<1>>, <<1>>, << >>, <<2>>, <<1>>, 2),
         Reading(<<1>>, <<3>>, <<2>>, <<1>>, << >>, 1),
         Reading(<<0>>, <<20>>, <<0>>, <<20>>, <<1>>, 20)}

MCReadings == Good
    \cup {Reading(<< >>, <<1>>, <<0>>, <<0>>, <<1>>, 0), Reading(<<0>>, << >>, <<0>>, <<0>>, <<1>>, 0),
          Reading(<<2>>, <<1>>, <<0>>, <<0>>, <<1>>, 0),
          [Reading(<<0>>, <<1>>, <<0>>, <<0>>, <<1>>, 0) EXCEPT !.ok = FALSE]}

Percent(whole, fraction) ==
    [whole |-> whole, point |-> fraction # << >>, fraction |-> fraction, stray |-> FALSE]

Rule(workload, metric, direction, allowed, mode) ==
    [comment |-> FALSE, fields |-> 7, workload |-> workload, metric |-> metric,
     direction |-> direction, allowed |-> allowed, noise |-> Percent(<<0>>, <<2>>),
     environmentIsHex |-> TRUE, environment |-> <<"target", <<"cpu">>, "one">>, mode |-> mode]

Latency == Rule(1, "latency_ns_per_interval", "lower", Percent(<<0>>, <<3>>), "hard")
Rate == Rule(1, "throughput_operations_per_second", "higher", Percent(<<0>>, << >>), "hard")
Rss == Rule(1, "peak_rss_bytes", "lower", Percent(<<0>>, << >>), "advisory")
Cpu == Rule(1, "cpu_time_ns", "lower", Percent(<<0>>, << >>), "hard")
Allocations == Rule(1, "allocation_count", "lower", Percent(<<1>>, << >>), "hard")

MCManifests ==
    {<< [comment |-> TRUE] >>, <<Latency, Rate>>, <<Rss, Rate>>, <<Cpu>>, <<Allocations>>,
     <<Latency, [Rate EXCEPT !.workload = 2]>>, <<Latency, Latency>>, <<Rate, Latency>>,
     << [Latency EXCEPT !.fields = 6] >>, << [Latency EXCEPT !.metric = "p50"] >>,
     << [Latency EXCEPT !.direction = "down"] >>, << [Latency EXCEPT !.mode = "soft"] >>,
     << [Latency EXCEPT !.environmentIsHex = FALSE] >>,
     << [Latency EXCEPT !.environment = <<"target", <<"other">>, "one">>] >>,
     << [Latency EXCEPT !.allowed.stray = TRUE] >>,
     << [Latency EXCEPT !.allowed = Percent(<<3>>, << >>)] >>,
     <<Latency, Rss, Rate>>}

----------------------------------------------------------------------------
Keys == {"a", "b"}
Flat == Over({Leaf("number")}, Keys)
Documents == Over(Flat, Keys)
               \cup Over({Leaf(kind) : kind \in {"number", "string", "literal"}}, Keys)
               \cup {Object(<<"a">>, <<Array(<<tree>>)>>) : tree \in Flat}

\* ReaderExact: JsonDocument accepts the text of a JSON value exactly when its keys
\* are distinct and it fits the reader's tables and depth; the look-ups, which
\* search flat tables by parent, then find every member and element of the value;
\* and what is left of an object's text after an interrupted write is refused
\* (parse_value, parse_object, parse_array, field and element in bench/evaluator.cpp).
ReaderExact ==
    Init => \A tree \in Documents :
      LET read == Load(Text(tree))
      IN  /\ read.ok <=> Representable(tree)
          /\ read.ok => View(read, 1, tree) = tree
          /\ tree.kind = "object" =>
               \A n \in 0..Len(Text(tree)) - 1 :
                 LET cut == SubSeq(Text(tree), 1, n)
                 IN  ~Load(cut).ok /\ ~Load(Append(cut, Cut)).ok
=============================================================================
