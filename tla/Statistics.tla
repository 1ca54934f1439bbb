----------------------------- MODULE Statistics -----------------------------
(***************************************************************************)
(* compute_statistics of src/src/tools/builtin/science.rs over integer     *)
(* samples, in exact arithmetic.  Quantities the code computes as f64      *)
(* quotients are kept exact: a mean or a variance is a fraction            *)
(* [num, den], and a median or a percentile, whose denominators divide     *)
(* 100, is kept multiplied by 100.  Square roots (std_dev, sem) are not    *)
(* modelled: no property tells them apart from the variances they are the  *)
(* roots of.                                                               *)
(***************************************************************************)
EXTENDS Integers, Sequences, FiniteSets

(* serde_json's as_f64: a JSON number is kept, anything else is dropped.   *)
IsNumber(x) == x \in Int

(* data.iter().filter_map(|v| v.as_f64()).collect()                        *)
Values(data) == SelectSeq(data, IsNumber)

(* values.iter().sum(), as a recursive function over the prefix length.   *)
SumOf(xs) ==
  LET s[i \in 0..Len(xs)] == IF i = 0 THEN 0 ELSE s[i - 1] + xs[i]
  IN  s[Len(xs)]

(* sorted.sort_by(partial_cmp): position i holds the value v with fewer    *)
(* than i smaller elements and at least i elements not greater.            *)
SortAsc(xs) ==
  [i \in 1..Len(xs) |->
     CHOOSE v \in {xs[j] : j \in DOMAIN xs} :
       /\ Cardinality({j \in DOMAIN xs : xs[j] < v}) < i
       /\ i <= Cardinality({j \in DOMAIN xs : xs[j] <= v})]

(* Plausible fault: the upper middle element taken for every length.     *)
FaultyMedian100(sorted) == 100 * sorted[Len(sorted) \div 2 + 1]

(* 100 * median: the mean of the two middle elements for an even length,   *)
(* the middle element for an odd one (0-based mid becomes 1-based mid+1).  *)
Median100(sorted) ==
  LET mid == Len(sorted) \div 2
  IN  IF Len(sorted) % 2 = 0
        THEN 50 * (sorted[mid] + sorted[mid + 1])
        ELSE 100 * sorted[mid + 1]

(* 100 * percentile(p): rank = p/100 * (n-1); lower = floor, upper = ceil; *)
(* an integral rank returns sorted[lower], otherwise the two neighbours    *)
(* are weighted by (upper - rank) and (rank - lower).  With q = p*(n-1),   *)
(* lower = q \div 100 and the fractional part of rank is (q % 100)/100.    *)
Percentile100(sorted, p) ==
  LET q     == p * (Len(sorted) - 1)
      lower == q \div 100 + 1
      r     == q % 100
  IN  IF r = 0
        THEN 100 * sorted[lower]
        ELSE sorted[lower] * (100 - r) + sorted[lower + 1] * r

(* The percentiles the response reports.                                   *)
ReportedPercentiles == {25, 50, 75, 90, 95, 99}

(* Plausible fault: n counted over the whole data array, non-numeric     *)
(* entries included.                                                       *)
FaultySample(data) ==
  LET values == Values(data)
  IN  [values |-> values, n |-> Len(data), sorted |-> SortAsc(values)]

(* The sample compute_statistics works on: the numbers of data, their      *)
(* count n and the sorted copy.                                            *)
Sample(data) ==
  LET values == Values(data)
  IN  [values |-> values, n |-> Len(values), sorted |-> SortAsc(values)]

(* Plausible fault: the percentile closure indexing values, not sorted.   *)
FaultyPercentiles(smp) ==
  [p \in ReportedPercentiles |-> Percentile100(smp.values, p)]

(* The percentiles block of the response.                                  *)
Percentiles(smp) ==
  [p \in ReportedPercentiles |-> Percentile100(smp.sorted, p)]

(* The numeric part of the statistics response for a non-empty sample.     *)
(* sqdev is sum (x - mean)^2 multiplied by n, i.e. n*sum(x^2) - sum(x)^2,  *)
(* so variance = sqdev / n^2 and sample_variance = sqdev / (n * (n - 1)).  *)
Stats(data) ==
  LET smp    == Sample(data)
      n      == smp.n
      sum    == SumOf(smp.values)
      sorted == smp.sorted
      sqdev  == n * SumOf([i \in 1..Len(smp.values) |-> smp.values[i] * smp.values[i]])
                  - sum * sum
      pct    == Percentiles(smp)
  IN  [n               |-> n,
       sum             |-> sum,
       mean            |-> [num |-> sum, den |-> n],
       median100       |-> Median100(sorted),
       variance        |-> [num |-> sqdev, den |-> n * n],
       sample_variance |-> IF n > 1 THEN [num |-> sqdev, den |-> n * (n - 1)]
                                    ELSE [num |-> 0, den |-> 1],
       min             |-> sorted[1],
       max             |-> sorted[Len(sorted)],
       range           |-> sorted[Len(sorted)] - sorted[1],
       pct100          |-> pct,
       iqr100          |-> pct[75] - pct[25]]
=============================================================================
