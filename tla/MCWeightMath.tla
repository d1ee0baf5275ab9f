---------------------------- MODULE MCWeightMath ----------------------------
(***************************************************************************)
(* Checks median (and get_mid through it) over every sorted sequence of    *)
(* up to MaxLen usize values, with usize narrowed to UsizeBits bits so     *)
(* that sums of two values do wrap.  The state is the sequence; each step  *)
(* appends a value no smaller than the last, so the reachable states are   *)
(* exactly the sorted non-empty sequences up to MaxLen.                    *)
(***************************************************************************)
EXTENDS WeightMath, FiniteSets

CONSTANT MaxLen

VARIABLE sorted

Values == 0..(Modulus - 1)

Init == sorted \in {<<v>> : v \in Values}

\* Extend the sorted input by one value.
Extend ==
    /\ Len(sorted) < MaxLen
    /\ \E v \in Values :
         /\ v >= sorted[Len(sorted)]
         /\ sorted' = Append(sorted, v)

Spec == Init /\ [][Extend]_sorted

\* The k-th smallest element of s (1 <= k <= Len(s)).
OrderStatistic(s, k) ==
    CHOOSE x \in {s[i] : i \in 1..Len(s)} :
        /\ Cardinality({i \in 1..Len(s) : s[i] < x}) < k
        /\ Cardinality({i \in 1..Len(s) : s[i] <= x}) >= k

\* The reference median: the exact floor of the mean of the lower and
\* upper middle elements, computed without any width limit.
ReferenceMedian(s) ==
    (OrderStatistic(s, (Len(s) + 1) \div 2)
        + OrderStatistic(s, Len(s) \div 2 + 1)) \div 2

\* median of the sorted window equals the reference integer median for
\* every length and every pair of middle values, including pairs whose sum
\* exceeds usize::MAX and pairs of mixed parity: get_mid neither overflows
\* nor rounds differently from the reference.
MedianMatchesReference == Median(sorted) = ReferenceMedian(sorted)

=============================================================================
