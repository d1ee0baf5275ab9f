----------------------------- MODULE WeightMath -----------------------------
(***************************************************************************)
(* The pure calculations of consensus/src/block/weight.rs: the penalty     *)
(* free zone, get_mid and median, the effective median and a block's       *)
(* long-term weight, and block_weight.  get_mid, median and block_weight  compute in usize; UsizeBits is    *)
(* its width, so their arithmetic wraps modulo 2^UsizeBits as a release    *)
(* build does.  The other calculations use mathematical integers: with     *)
(* weights far below 2^64 / 50 they never overflow.                        *)
(* Transaction::weight (monero_serai) is delegated: the transactions'      *)
(* weights are inputs.                                                     *)
(***************************************************************************)
EXTENDS Integers, Sequences, HardFork

LOCAL INSTANCE SequencesExt

CONSTANT UsizeBits

Modulus == 2^UsizeBits

\* usize +, - and * as a release build computes them.
UAdd(x, y) == (x + y) % Modulus
USub(x, y) == (x - y) % Modulus
UMul(x, y) == (x * y) % Modulus

PENALTY_FREE_ZONE_1 == 20000
PENALTY_FREE_ZONE_2 == 60000
PENALTY_FREE_ZONE_5 == 300000

\* Mutation of BlockWeight: the miner transaction left out of the sum.
BlockWeightWithoutMinerTx(miner_tx_weight, tx_weights) ==
    FoldLeft(UAdd, 0, tx_weights)

\* block_weight: the weights of the transactions chained with the miner
\* transaction, summed in usize (.sum() wraps in a release build).
BlockWeight(miner_tx_weight, tx_weights) ==
    FoldLeft(UAdd, 0, Append(tx_weights, miner_tx_weight))

MaxOf(x, y) == IF x >= y THEN x ELSE y
MinOf(x, y) == IF x <= y THEN x ELSE y

\* penalty_free_zone.
PenaltyFreeZone(hf) ==
    IF hf = 1 THEN PENALTY_FREE_ZONE_1
    ELSE IF InRange(hf, 2, 5) THEN PENALTY_FREE_ZONE_2
    ELSE PENALTY_FREE_ZONE_5

\* Mutation of GetMid: the average computed as (a + b) / 2.
GetMidNaive(a, b) == UAdd(a, b) \div 2

\* get_mid: a/2 + b/2 + ((a - 2(a/2)) + (b - 2(b/2))) / 2.
GetMid(a, b) ==
    UAdd(UAdd(a \div 2, b \div 2),
         UAdd(USub(a, UMul(2, a \div 2)), USub(b, UMul(2, b \div 2))) \div 2)

\* Mutation of Median: the lower of the two middle elements for an even
\* length.
MedianLow(s) ==
    IF Len(s) % 2 = 0 THEN s[Len(s) \div 2] ELSE s[Len(s) \div 2 + 1]

\* median of a sorted, non-empty sequence (1-based: array[i] is s[i + 1]).
Median(s) ==
    LET mid == Len(s) \div 2
    IN  IF Len(s) = 1 THEN s[1]
        ELSE IF Len(s) % 2 = 0 THEN GetMid(s[mid], s[mid + 1])
        ELSE s[mid + 1]

\* calculate_effective_median_block_weight.
CalculateEffectiveMedianBlockWeight(hf, sorted_short, sorted_long) ==
    IF InRange(hf, 1, 10) THEN Median(sorted_short)
    ELSE
    LET long_term_median  == MaxOf(Median(sorted_long), PENALTY_FREE_ZONE_5)
        short_term_median == Median(sorted_short)
        effective_median  ==
            IF InRange(hf, 10, 15)
            THEN MinOf(MaxOf(PENALTY_FREE_ZONE_5, short_term_median),
                       50 * long_term_median)
            ELSE MinOf(MaxOf(long_term_median, short_term_median),
                       50 * long_term_median)
    IN  MaxOf(effective_median, PenaltyFreeZone(hf))

\* Mutation of ShortTermConstraint: the factors divided first,
\* ltm * (2 / 5), which truncates to 0.
ShortTermConstraintTruncated(hf, ltm) ==
    IF InRange(hf, 10, 15) THEN ltm + ltm * (2 \div 5) ELSE ltm + ltm * (7 \div 10)

\* The short-term constraint of calculate_block_long_term_weight.
ShortTermConstraint(hf, ltm) ==
    IF InRange(hf, 10, 15) THEN ltm + (ltm * 2) \div 5 ELSE ltm + (ltm * 7) \div 10

\* calculate_block_long_term_weight.
CalculateBlockLongTermWeight(hf, block_weight, sorted_long) ==
    IF InRange(hf, 1, 10) THEN block_weight
    ELSE
    LET long_term_median == MaxOf(PenaltyFreeZone(hf), Median(sorted_long))
        stc == ShortTermConstraint(hf, long_term_median)
        adjusted_block_weight ==
            IF InRange(hf, 10, 15) THEN block_weight
            ELSE MaxOf(block_weight, (long_term_median * 10) \div 17)
    IN  MinOf(stc, adjusted_block_weight)

=============================================================================
