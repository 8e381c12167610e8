--------------------------- MODULE BenchmarkMath ---------------------------
(***************************************************************************)
(* The arithmetic of the benchmark programs: nearest-rank percentiles      *)
(* (bench/private/laghu/benchmark/internal/metrics.hpp), and of the        *)
(* evaluator (bench/evaluator.cpp) the percentages of a manifest, the      *)
(* statistics of a resample and the relative regression in parts per       *)
(* million, which is a long division that must not overflow.               *)
(***************************************************************************)
EXTENDS Integers, Sequences, SequencesExt

CONSTANTS
    UMax,           \* the largest std::uint64_t
    SMax,           \* the largest std::int64_t
    Ppm,            \* 1000000, parts per million in a whole
    PercentPpm,     \* percent_ppm, the parts of one percent
    FractionDigits, \* digits a percentage may have after its point
    Resamples       \* bootstrap_resamples

ASSUME MathAssumption ==
    /\ UMax \in Nat /\ SMax \in Nat /\ SMax < UMax
    /\ Ppm \in Nat \ {0} /\ Ppm <= SMax
    /\ FractionDigits \in Nat /\ PercentPpm = 10 ^ FractionDigits
    /\ Resamples \in Nat \ {0}

\* A number no operation below returns: the operation has failed.
Overflow == -SMax - 2

\* Unsigned arithmetic keeps its width.
Wrap(n) == n % (UMax + 1)

----------------------------------------------------------------------------
\* The zero-based index of the nearest-rank percentile.
NearestRankIndex(count, perMille) ==
    IF count = 0 \/ perMille = 0 \/ perMille > 1000 THEN 0
    ELSE (count * perMille + 999) \div 1000 - 1

\* The four percentiles of a sorted copy of the samples.
Percentiles(samples) ==
    LET sorted == SortSeq(samples, <)
    IN  [p \in {500, 950, 990, 999} |-> sorted[NearestRankIndex(Len(samples), p) + 1]]

----------------------------------------------------------------------------
\* A percentage as a manifest spells it: digits, perhaps a point and more digits;
\* stray says that some other character is in the text.
PercentDigit(acc, digit) ==
    IF acc = Overflow \/ acc > (UMax - 9) \div 10 THEN Overflow
    ELSE Wrap(acc * 10 + digit)

RECURSIVE Scaled(_, _)
Scaled(fraction, digits) ==
    IF digits >= FractionDigits THEN fraction ELSE Scaled(Wrap(fraction * 10), digits + 1)

\* Parts per million of a percentage, or Overflow for every text it refuses.
ParsePercentPpm(text) ==
    LET whole == FoldLeft(PercentDigit, 0, text.whole)
        fraction == Scaled(FoldLeft(LAMBDA acc, d : acc * 10 + d, 0, text.fraction),
                           Len(text.fraction))
    IN  IF \/ text.whole = << >> \/ whole = Overflow
           \/ text.stray
           \/ text.point /\ Len(text.fraction) \notin 1..FractionDigits
           \/ whole > (UMax - fraction) \div PercentPpm
        THEN Overflow
        ELSE Wrap(whole * PercentPpm + fraction)

----------------------------------------------------------------------------
\* Doubles the remainder of the long division without leaving its width.
Doubled(acc, baseline) ==
    IF acc.remainder >= baseline - acc.remainder
    THEN [acc EXCEPT !.remainder = @ - (baseline - @), !.carry = 1]
    ELSE [acc EXCEPT !.remainder = Wrap(@ + @), !.carry = 0]

\* Variant that adds before it compares.
PlusFractionLate(acc, baseline, fraction) ==
    LET sum == Wrap(acc.remainder + fraction)
    IN  IF sum >= baseline
        THEN [acc EXCEPT !.remainder = sum - baseline, !.carry = @ + 1]
        ELSE [acc EXCEPT !.remainder = sum]

\* Adds the fraction to the remainder, carrying when it reaches the baseline.
PlusFraction(acc, baseline, fraction) ==
    IF acc.remainder >= baseline - fraction
    THEN [acc EXCEPT !.remainder = @ - (baseline - fraction), !.carry = @ + 1]
    ELSE [acc EXCEPT !.remainder = Wrap(@ + fraction)]

\* One bit of the multiplier, from the most significant one.
RegressionBit(acc, bit, baseline, fraction) ==
    LET doubled == Doubled(acc, baseline)
        next == IF (Ppm \div bit) % 2 = 1 THEN PlusFraction(doubled, baseline, fraction)
                ELSE doubled
    IN  IF acc.failed \/ acc.fractional > (UMax - next.carry) \div 2
        THEN [acc EXCEPT !.failed = TRUE]
        ELSE [next EXCEPT !.fractional = Wrap(@ * 2 + next.carry)]

\* The powers of two up to the multiplier, largest first.
Bits == Reverse(SelectSeq([i \in 1..20 |-> 2 ^ (i - 1)], LAMBDA b : b <= Ppm))

\* How much worse the candidate is, in parts per million of the baseline.
RegressionPpm(baseline, candidate, higherIsBetter) ==
    LET worse == IF higherIsBetter THEN candidate < baseline ELSE candidate > baseline
        difference == IF candidate >= baseline THEN candidate - baseline
                      ELSE baseline - candidate
        whole == difference \div baseline
        start == [remainder |-> 0, carry |-> 0, fractional |-> 0, failed |-> FALSE]
        division == FoldLeft(LAMBDA acc, bit :
                               RegressionBit(acc, bit, baseline, difference % baseline),
                             start, Bits)
        magnitude == whole * Ppm + division.fractional
    IN  IF baseline = 0
        THEN IF candidate = 0 THEN 0 ELSE IF higherIsBetter THEN -SMax - 1 ELSE SMax
        ELSE IF division.failed \/ whole > (SMax - division.fractional) \div Ppm THEN Overflow
        ELSE IF worse THEN magnitude ELSE -magnitude

----------------------------------------------------------------------------
\* The statistics one resample of the series can have: the floor of the mean of
\* as many draws, or Overflow when their sum leaves its width.
SampleMean(values) ==
    {LET total == FoldFunction(+, 0, draw)
     IN  IF total > UMax THEN Overflow ELSE total \div Len(values) :
       draw \in [DOMAIN values -> Range(values)]}

\* The largest draw of a resample.
SampleMax(values) == Range(values)

\* The bounds of the 95% interval of the resampled regressions.
ConfidenceInterval(samples) ==
    LET sorted == SortSeq(samples, <)
        lower == (Len(samples) * 25 + 999) \div 1000
        upper == (Len(samples) * 975 + 999) \div 1000
    IN  [lower |-> sorted[lower], upper |-> sorted[upper]]
=============================================================================
