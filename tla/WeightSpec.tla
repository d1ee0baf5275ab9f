----------------------------- MODULE WeightSpec -----------------------------
(***************************************************************************)
(* The weight rules as the spec states them (section 4.4): the penalty    *)
(* free zone by fork, a block's weight, the exact integer median, the effective median and  *)
(* a block's long-term weight.  These are the requirements the code's     *)
(* calculations (WeightMath) and the cache's queries (Consensus) are      *)
(* checked against; they are written from the spec's text, not from the  *)
(* code.  Windows are sorted, non-empty sequences.                        *)
(***************************************************************************)
EXTENDS Integers, Sequences

LOCAL Larger(x, y) == IF x >= y THEN x ELSE y
LOCAL Smaller(x, y) == IF x <= y THEN x ELSE y

\* Penalty-free zone: V1 20 000, V2..V4 60 000, V5 and above 300 000.
SpecPenaltyFreeZone(hf) ==
    CASE hf = 1      -> 20000
      [] hf \in 2..4 -> 60000
      [] OTHER       -> 300000

\* The sum of a sequence of weights.
RECURSIVE SumOf(_)
SumOf(s) == IF s = <<>> THEN 0 ELSE Head(s) + SumOf(Tail(s))

\* A block's weight: the coinbase transaction's weight plus those of the
\* other transactions.
SpecBlockWeight(coinbase_tx_weight, other_tx_weights) ==
    coinbase_tx_weight + SumOf(other_tx_weights)

\* The median of a sorted sequence: the middle element, or the floor of the
\* mean of the two middle ones.
ExactMedian(s) ==
    LET n == Len(s)
    IN  IF n % 2 = 1 THEN s[(n + 1) \div 2]
        ELSE (s[n \div 2] + s[n \div 2 + 1]) \div 2

\* The effective median of fork hf over the sorted short- and long-term
\* windows.
SpecEffectiveMedian(hf, short, long) ==
    LET sm == ExactMedian(short)
        lm == Larger(ExactMedian(long), 300000)
    IN  IF hf < 10 THEN sm
        ELSE Larger(IF hf < 15 THEN Smaller(Larger(300000, sm), 50 * lm)
                    ELSE Smaller(Larger(lm, sm), 50 * lm),
                    SpecPenaltyFreeZone(hf))

\* The long-term weight of a block of weight bw and fork hf over the sorted
\* long-term window before it.
SpecLongTermWeight(hf, bw, long) ==
    LET ltm == Larger(SpecPenaltyFreeZone(hf), ExactMedian(long))
    IN  IF hf < 10 THEN bw
        ELSE IF hf < 15 THEN Smaller(ltm + (ltm * 2) \div 5, bw)
        ELSE Smaller(ltm + (ltm * 7) \div 10, Larger(bw, (ltm * 10) \div 17))

====
