------------------------- MODULE BenchmarkEvaluator -------------------------
(***************************************************************************)
(* The benchmark evaluator (bench/evaluator.cpp) beside the runners that   *)
(* produce its input: it loads a baseline and a candidate report, refuses  *)
(* to compare what is not comparable, reads the manifest of rules and      *)
(* judges every rule for the workload by a bootstrap interval.             *)
(***************************************************************************)
EXTENDS BenchmarkRunner

CONSTANTS
    Schema,         \* "laghu-benchmark-v1"
    MinimumSamples, \* minimum_samples
    MaximumSamples, \* maximum_samples
    MaximumRules,   \* maximum_rules
    Manifests,      \* manifests, as sequences of lines
    IntervalSizes   \* numbers of resamples the interval's bounds are checked for

VARIABLE eval  \* the evaluator process

vars == <<run, file, eval>>

\* The metrics in the order of their names.
MetricNames == <<"allocation_count", "cpu_time_ns", "laghu_syscall_count",
                 "latency_ns_per_interval", "peak_rss_bytes",
                 "throughput_operations_per_second">>

MetricRank(name) == CHOOSE i \in DOMAIN MetricNames : MetricNames[i] = name

----------------------------------------------------------------------------
\* The samples of a metric are as many as the intervals, within the bounds.
LoadSamples(series, intervals) ==
    Len(series.samples) \in MinimumSamples..MaximumSamples /\ Len(series.samples) = intervals

\* A host metric or a counter: without its samples when it is unavailable.
LoadMetric(series, intervals) == ~series.available \/ LoadSamples(series, intervals)

\* The file is there and no read of it fails; a report fits the storage, which is as
\* large as the runner's writer.
ReadFile(slot, readable) == file[slot].exists /\ readable

\* JsonDocument takes a file that holds one value: not an empty one and not the front
\* of an object (ReaderExact), but the newline after the object may be missing.
LoadDocument(slot, readable) == ReadFile(slot, readable) /\ file[slot].document # << >>

\* The first part of a report that load_artifact refuses, or "none".
ArtifactError(slot, readable) ==
    LET report == file[slot].document[1]
    IN  IF ~LoadDocument(slot, readable) THEN "document"
        ELSE IF report.machine.schema # Schema THEN "schema_version"
        ELSE IF report.intervals \notin MinimumSamples..MaximumSamples THEN "parameters"
        ELSE IF ~LoadSamples(report.metrics["latency_ns_per_interval"], report.intervals)
                \/ \E m \in Range(MetricNames) : ~LoadMetric(report.metrics[m], report.intervals)
        THEN "metrics"
        ELSE "none"

\* The first difference that makes two reports incomparable, or "none".
EqualConfiguration(b, c) ==
    IF b.machine.target # c.machine.target THEN "target"
    ELSE IF b.machine.build # c.machine.build THEN "build"
    ELSE IF Unavailable \in {b.machine.cpu, c.machine.cpu} THEN "hardware_identity_unavailable"
    ELSE IF b.machine.cpu # c.machine.cpu THEN "hardware"
    ELSE IF <<b.workload, b.checksum, b.intervals, b.warmup>>
              # <<c.workload, c.checksum, c.intervals, c.warmup>> THEN "workload"
    ELSE "none"

\* The identity of a configuration; its hash is taken to be free of collisions.
Environment(report) == <<report.machine.target, report.machine.cpu, report.machine.build>>

----------------------------------------------------------------------------
\* The keys of two rules, by workload and then by metric name.
KeyLess(left, right) ==
    \/ left.workload < right.workload
    \/ left.workload = right.workload /\ MetricRank(left.metric) < MetricRank(right.metric)

\* What parse_manifest refuses in a line that is not a comment, or "none".
LineError(rules, line) ==
    IF Len(rules) = MaximumRules THEN "too_many_rules"
    ELSE IF line.fields # 7 THEN "field_count"
    ELSE IF Overflow \in {ParsePercentPpm(line.allowed), ParsePercentPpm(line.noise)}
    THEN "field_value"
    ELSE IF line.metric \notin Range(MetricNames) THEN "metric"
    ELSE IF line.direction \notin {"lower", "higher"} THEN "direction"
    ELSE IF ~line.environmentIsHex THEN "reference_environment"
    ELSE IF line.mode \notin {"hard", "advisory"} THEN "mode"
    ELSE IF rules # << >> THEN
           IF KeyLess(Last(rules), line) THEN "none" ELSE "ordering_or_duplicate"
    ELSE "none"

RuleOf(line) ==
    [workload |-> line.workload, metric |-> line.metric,
     higherIsBetter |-> line.direction = "higher",
     allowed |-> ParsePercentPpm(line.allowed), noise |-> ParsePercentPpm(line.noise),
     environment |-> line.environment, hard |-> line.mode = "hard"]

TakeLine(acc, line) ==
    IF acc.error # "none" \/ line.comment THEN acc
    ELSE IF LineError(acc.rules, line) # "none"
    THEN [acc EXCEPT !.error = LineError(acc.rules, line)]
    ELSE [acc EXCEPT !.rules = Append(@, RuleOf(line))]

----------------------------------------------------------------------------
EvalIdle == [phase |-> "idle"]

Reject(what) == eval' = [phase |-> "exited", exit |-> "invalid_input", error |-> what]

\* The evaluator is started for a comparison, for an identity, or with wrong options.
StartEvaluator(mode) ==
    /\ eval.phase = "idle" /\ run.phase = "idle"
    /\ eval' = CASE mode = "compare" -> [phase |-> "baseline"]
                 [] mode = "environment" -> [phase |-> "environment"]
                 [] OTHER -> [phase |-> "exited", exit |-> "invalid_arguments"]
    /\ UNCHANGED runnerVars

\* --environment: the identity of one report.
WriteEnvironment(readable, written) ==
    /\ eval.phase = "environment"
    /\ IF ArtifactError("baseline", readable) # "none"
       THEN Reject(ArtifactError("baseline", readable))
       ELSE IF file["baseline"].document[1].machine.cpu = Unavailable
       THEN Reject("hardware_identity_unavailable")
       ELSE eval' = [phase |-> "exited",
                     exit |-> IF written THEN "environment" ELSE "output_failure"]
    /\ UNCHANGED runnerVars

LoadBaseline(readable) ==
    /\ eval.phase = "baseline"
    /\ IF ArtifactError("baseline", readable) # "none"
       THEN Reject(ArtifactError("baseline", readable))
       ELSE eval' = [phase |-> "candidate", baseline |-> file["baseline"].document[1]]
    /\ UNCHANGED runnerVars

\* The candidate is loaded and compared with the baseline's configuration.
LoadCandidate(readable) ==
    LET error == EqualConfiguration(eval.baseline, file["candidate"].document[1])
    IN  /\ eval.phase = "candidate"
        /\ IF ArtifactError("candidate", readable) # "none"
           THEN Reject(ArtifactError("candidate", readable))
           ELSE IF error # "none" THEN Reject(error)
           ELSE eval' = [phase |-> "manifest", baseline |-> eval.baseline,
                         candidate |-> file["candidate"].document[1]]
        /\ UNCHANGED runnerVars

\* The manifest; one that cannot be read or does not fit its storage is refused.
ParseManifest(lines, readable) ==
    LET parsed == FoldLeft(TakeLine, [rules |-> << >>, error |-> "none"], lines)
    IN  /\ eval.phase = "manifest"
        /\ IF ~readable THEN Reject("document")
           ELSE IF parsed.error # "none" THEN Reject(parsed.error)
           ELSE eval' = [phase |-> "rules", baseline |-> eval.baseline,
                         candidate |-> eval.candidate, rules |-> parsed.rules,
                         results |-> << >>, hardFailure |-> FALSE]
        /\ UNCHANGED runnerVars

\* The statistic of a metric's resamples.
Statistic(metric, values) ==
    IF metric = "peak_rss_bytes" THEN SampleMax(values) ELSE SampleMean(values)

Nonzero(series) == \E v \in Range(series.samples) : v # 0

\* Variant in which a rule forgets the failures of the rules before it.
JudgedAlone(i, draws, regression) ==
    LET rule == eval.rules[i]
    IN  eval' = [eval EXCEPT !.results = Append(@, [applicable |-> TRUE, draws |-> draws,
                                                    regression |-> regression]),
                             !.hardFailure = rule.hard /\ regression]

Judged(i, draws, regression) ==
    LET rule == eval.rules[i]
    IN  eval' = [eval EXCEPT !.results = Append(@, [applicable |-> TRUE, draws |-> draws,
                                                    regression |-> regression]),
                             !.hardFailure = @ \/ (rule.hard /\ regression)]

\* One rule: draws is a pair of statistics for every resample.
EvaluateRule ==
    LET i == Len(eval.results) + 1
        rule == eval.rules[i]
        baseline == eval.baseline.metrics[rule.metric]
        candidate == eval.candidate.metrics[rule.metric]
        threshold == rule.allowed + rule.noise
    IN  /\ eval.phase = "rules" /\ Len(eval.results) < Len(eval.rules)
        /\ IF rule.workload # eval.baseline.workload
           THEN eval' = [eval EXCEPT !.results = Append(@, [applicable |-> FALSE])]
           ELSE IF rule.environment # Environment(eval.baseline)
           THEN Reject("reference_environment_mismatch")
           ELSE IF ~baseline.available \/ ~candidate.available THEN Reject("metric_unavailable")
           ELSE IF ~Nonzero(baseline) /\ Nonzero(candidate) THEN Reject("zero_baseline_undefined")
           ELSE \E draws \in [1..Resamples ->
                                Statistic(rule.metric, baseline.samples)
                                  \X Statistic(rule.metric, candidate.samples)] :
                  LET ppm == [r \in 1..Resamples |->
                                RegressionPpm(draws[r][1], draws[r][2], rule.higherIsBetter)]
                      interval == ConfidenceInterval(ppm)
                  IN  IF \E r \in 1..Resamples : Overflow \in {draws[r][1], draws[r][2]}
                      THEN Reject("invalid_samples")
                      ELSE IF Overflow \in Range(ppm) THEN Reject("arithmetic_overflow")
                      ELSE IF rule.allowed > UMax - rule.noise THEN Reject("threshold_overflow")
                      ELSE Judged(i, draws, interval.lower > 0 /\ interval.lower > threshold)
        /\ UNCHANGED runnerVars

ExitCode(written) ==
    IF ~written THEN "output_failure"
    ELSE IF eval.hardFailure THEN "hard_regression" ELSE "success"

\* The verdict: a result for every applicable rule, and the exit code.
WriteResult(written) ==
    /\ eval.phase = "rules" /\ Len(eval.results) = Len(eval.rules)
    /\ eval' = [eval EXCEPT !.phase = "exited"] @@ [exit |-> ExitCode(written)]
    /\ UNCHANGED runnerVars

Init == RunnerInit /\ eval = EvalIdle

EvalNext ==
    \/ \E mode \in {"compare", "environment", "invalid"} : StartEvaluator(mode)
    \/ \E readable, written \in BOOLEAN : WriteEnvironment(readable, written)
    \/ \E readable \in BOOLEAN : LoadBaseline(readable)
    \/ \E readable \in BOOLEAN : LoadCandidate(readable)
    \/ \E lines \in Manifests, readable \in BOOLEAN : ParseManifest(lines, readable)
    \/ EvaluateRule
    \/ \E written \in BOOLEAN : WriteResult(written)

Next == (RunnerNext /\ eval.phase = "idle" /\ UNCHANGED eval) \/ EvalNext

Spec == Init /\ [][Next]_vars

----------------------------------------------------------------------------
\* The value at a percentile by its definition: enough samples reach it, and too
\* few stay below it.
IsPercentile(v, perMille, samples) ==
    LET count(P(_)) == 1000 * Cardinality({i \in DOMAIN samples : P(samples[i])})
    IN  /\ count(LAMBDA s : s <= v) >= perMille * Len(samples)
        /\ count(LAMBDA s : s < v) < perMille * Len(samples)

Total(values) == FoldLeft(+, 0, values)

\* ReportFaithful: a report on disk says of every metric exactly what the intervals
\* observed.  A metric is available if and only if every interval could measure it
\* and the total fits its width, never again after one that could not; its value
\* and its samples are those of the measured intervals alone, not of the warm-up
\* (main's interval loop and write_report in bench/runner.cpp).
ReportFaithful ==
    run.phase = "exited" /\ run.exit = "success" =>
      LET report == file[run.slot].document[1]
          seen == run.seen
          each(F(_)) == [i \in DOMAIN seen |-> F(seen[i])]
          durations == each(LAMBDA r : r.end[1] - r.begin[1])
          timed(r) == Unavailable \notin {r.cpuBegin, r.cpuEnd} /\ r.cpuEnd[1] >= r.cpuBegin[1]
          used == each(LAMBDA r : IF timed(r) THEN r.cpuEnd[1] - r.cpuBegin[1] ELSE 0)
          cpu == report.metrics["cpu_time_ns"]
          rss == report.metrics["peak_rss_bytes"]
          throughput == report.metrics["throughput_operations_per_second"]
      IN  /\ Len(seen) = report.intervals
          /\ report.metrics["latency_ns_per_interval"].samples = durations
          /\ \A p \in DOMAIN report.percentiles :
               IsPercentile(report.percentiles[p], p, durations)
          /\ cpu.available <=> (\A i \in DOMAIN seen : timed(seen[i])) /\ Total(used) <= UMax
          /\ cpu.available => cpu.value = Total(used) /\ cpu.samples = used
          /\ rss.available <=> \A i \in DOMAIN seen : seen[i].rss # Unavailable
          /\ rss.available => /\ rss.value = Max({seen[i].rss[1] : i \in DOMAIN seen})
                              /\ rss.samples = each(LAMBDA r : r.rss[1])
          /\ throughput.available <=> 0 \notin Range(durations)
          /\ throughput.available =>
               /\ throughput.value = (OperationsPerInterval * Len(seen) * NanosecondsPerSecond)
                                       \div Total(durations)
               /\ throughput.samples = [i \in DOMAIN seen |->
                    (OperationsPerInterval * NanosecondsPerSecond) \div durations[i]]
          /\ \A c \in Counters :
               LET events == each(LAMBDA r : r.events[c])
               IN  /\ report.metrics[c].value = Total(events)
                   /\ report.metrics[c].available <=> Total(events) > 0
                   /\ report.metrics[c].available => report.metrics[c].samples = events

\* The candidate's statistic c is worse than the baseline's b by more than the
\* threshold, without division; a baseline of zero is worse by SMax.
WorseThan(b, c, rule) ==
    LET beyond == rule.allowed + rule.noise + 1
    IN  IF b = 0 THEN c > 0 /\ ~rule.higherIsBetter /\ SMax >= beyond
        ELSE (IF rule.higherIsBetter THEN b - c ELSE c - b) * Ppm >= beyond * b

\* VerdictSound: the evaluator passes judgement only on two reports of one
\* comparable configuration, each metric is judged once, and the exit code says
\* hard regression exactly when for some hard rule of the workload fewer than 2.5% of
\* the resamples stay within the threshold; then some measured sample of the
\* candidate is worse than some sample of the baseline (main, bootstrap_interval
\* and equal_configuration in bench/evaluator.cpp).
VerdictSound ==
    eval.phase = "exited" /\ eval.exit \in {"success", "hard_regression"} =>
      LET judged == {i \in DOMAIN eval.rules : eval.results[i].applicable}
          within(i) == {r \in 1..Resamples :
                          ~WorseThan(eval.results[i].draws[r][1],
                                     eval.results[i].draws[r][2], eval.rules[i])}
          regressed(i) == 1000 * Cardinality(within(i)) < 25 * Resamples
          hard == {i \in judged : eval.rules[i].hard /\ regressed(i)}
          samples(report, i) == Range(report.metrics[eval.rules[i].metric].samples)
      IN  /\ eval.baseline.machine.cpu # Unavailable
          /\ eval.baseline.machine = eval.candidate.machine
          /\ eval.baseline.intervals = eval.candidate.intervals
          /\ \A i, j \in judged : eval.rules[i].metric = eval.rules[j].metric => i = j
          /\ eval.exit = "hard_regression" <=> hard # {}
          /\ \A i \in hard : \E b \in samples(eval.baseline, i),
                                c \in samples(eval.candidate, i) :
               IF eval.rules[i].higherIsBetter THEN c < b ELSE c > b

\* ArithmeticExact: the long division of regression_ppm gives the whole parts per
\* million for every pair of words, or reports an overflow exactly when they do not
\* fit a signed word, though every step stays in the unsigned width; and
\* parse_percent_ppm accepts a percentage exactly when its parts fit the width.  The
\* bounds of bootstrap_interval are the 2.5% and 97.5% percentiles of its resamples,
\* whatever part of them lies below a value.
ArithmeticExact ==
    Init =>
      /\ \A b, c \in 0..UMax, higher \in BOOLEAN :
           LET apart == IF c > b THEN c - b ELSE b - c
               parts == (apart * Ppm) \div b
               worse == IF higher THEN c < b ELSE c > b
           IN  RegressionPpm(b, c, higher) =
                 IF b = 0 THEN IF c = 0 THEN 0 ELSE IF higher THEN -SMax - 1 ELSE SMax
                 ELSE IF parts > SMax THEN Overflow
                 ELSE IF worse THEN parts ELSE -parts
      /\ \A whole \in UNION {[1..n -> 0..9] : n \in 1..2}, fraction \in [1..FractionDigits -> 0..9] :
           LET value == FoldLeft(LAMBDA acc, d : acc * 10 + d, 0, whole \o fraction)
           IN  ParsePercentPpm([whole |-> whole, point |-> TRUE, fraction |-> fraction,
                                stray |-> FALSE])
                 = IF value > UMax THEN Overflow ELSE value
      /\ \A n \in IntervalSizes : \A low \in 0..n :
           LET samples == [i \in 1..n |-> IF i <= low THEN 0 ELSE 1]
               interval == ConfidenceInterval(Reverse(samples))
           IN  IsPercentile(interval.lower, 25, samples) /\ IsPercentile(interval.upper, 975, samples)
=============================================================================
