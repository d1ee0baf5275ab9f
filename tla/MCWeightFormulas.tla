-------------------------- MODULE MCWeightFormulas --------------------------
(***************************************************************************)
(* calculate_effective_median_block_weight and                            *)
(* calculate_block_long_term_weight at every fork, over sorted windows of *)
(* up to MaxLen weights around the penalty free zones and blocks made of a *)
(* miner transaction and up to MaxTxs others, against the spec's          *)
(* formulas.  Each state is one input: a fork and a sorted short-term and  *)
(* long-term window; a step appends a weight to one of the windows.        *)
(***************************************************************************)
EXTENDS WeightMath, SequencesExt

CONSTANTS
    MaxLen,        \* bound: the longest window
    WindowWeights, \* weights the windows hold
    MaxTxs,        \* bound: transactions of a block besides the miner's
    MinerTxWeights,\* weights of a block's miner transaction
    TxWeights      \* weights of its other transactions

ASSUME MaxLen \in Nat \ {0} /\ MaxTxs \in Nat
ASSUME WindowWeights \cup MinerTxWeights \cup TxWeights \subseteq Nat

VARIABLES hf, sorted_short, sorted_long

\* The blocks a candidate long-term weight is asked for.
Blocks == [miner : MinerTxWeights, txs : BoundedSeq(TxWeights, MaxTxs)]

WS == INSTANCE WeightSpec

\* The spec's scenarios S3, S4 and S5 (section 8).
ASSUME CalculateEffectiveMedianBlockWeight(5, <<1000, 2000, 3000>>, <<1>>) = 2000
ASSUME CalculateEffectiveMedianBlockWeight(15, <<100000>>, <<50000>>) = 300000
ASSUME CalculateBlockLongTermWeight(16, 10000, <<300000>>) = 176470

Init ==
    /\ hf \in HardForks
    /\ sorted_short \in {<<w>> : w \in WindowWeights}
    /\ sorted_long \in {<<w>> : w \in WindowWeights}

\* A weight no smaller than the last is appended to a window.
Extended(s) == {Append(s, w) : w \in {v \in WindowWeights : v >= s[Len(s)]}}

ExtendShort ==
    /\ Len(sorted_short) < MaxLen
    /\ sorted_short' \in Extended(sorted_short)
    /\ UNCHANGED <<hf, sorted_long>>

ExtendLong ==
    /\ Len(sorted_long) < MaxLen
    /\ sorted_long' \in Extended(sorted_long)
    /\ UNCHANGED <<hf, sorted_short>>

Next == ExtendShort \/ ExtendLong

\* calculate_effective_median_block_weight gives the spec's effective median
\* at every fork: the V10 and V15 changes of the rule, the penalty free
\* zone floor and the median of an even window all as the spec states.
EffectiveMedianMatchesSpec ==
    CalculateEffectiveMedianBlockWeight(hf, sorted_short, sorted_long) =
        WS!SpecEffectiveMedian(hf, sorted_short, sorted_long)

\* calculate_block_long_term_weight of block_weight gives the spec's
\* long-term weight of the spec's block weight at every fork and for every
\* candidate block: the miner transaction counted, the identity before V10,
\* the short-term constraint from V10 and the 10/17 floor from V15.
LongTermWeightMatchesSpec ==
    \A b \in Blocks :
        CalculateBlockLongTermWeight(hf, BlockWeight(b.miner, b.txs),
                                     sorted_long) =
            WS!SpecLongTermWeight(hf, WS!SpecBlockWeight(b.miner, b.txs),
                                  sorted_long)

====
