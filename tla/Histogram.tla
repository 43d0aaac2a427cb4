------------------------------ MODULE Histogram ------------------------------
(***************************************************************************)
(* src/hist.rs: the line that a snapshot prints for one syscall, made of   *)
(* the counts of its buckets, the sum and the maximum of its durations.    *)
(* Bucket n holds the durations from 2^n up to 2^(n+1), bucket 0 also 0,   *)
(* and the last bucket everything beyond.                                  *)
(***************************************************************************)
EXTENDS Arithmetic

CONSTANT HIST_SLOTS   \* buckets

ASSUME HistogramAssumption == HIST_SLOTS \in 1..64  \* durations have 64 bits

Slots == 0..(HIST_SLOTS - 1)

Percents == {50, 95, 99}

UpperBound(slot) == Pow2[slot + 1]

Total(counts) == SumOver(counts, Slots)

(* The samples in the buckets up to a slot.                                *)
Seen(counts, slot) == SumOver(counts, 0..slot)

MutRank(p, total) == (p * total) \div 100  \* rounded down

Rank(p, total) == (p * total + 99) \div 100

(* The bound of the first bucket at which the count reaches the rank.      *)
Percentile(counts, p) ==
  LET reached == {slot \in Slots : Seen(counts, slot) >= Rank(p, Total(counts))}
  IN  IF Total(counts) = 0 THEN 0
      ELSE UpperBound(CHOOSE slot \in reached : \A other \in reached : slot <= other)

Summarize(counts, sum, max) ==
  [ count |-> Total(counts), sum |-> sum, max |-> max,
    percentile |-> [p \in Percents |-> Percentile(counts, p)] ]
=============================================================================
