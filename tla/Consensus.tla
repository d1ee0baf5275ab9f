----------------------------- MODULE Consensus ------------------------------
(***************************************************************************)
(* The two caches of consensus/src under one validator, as the spec's      *)
(* system overview puts them: for each new block the validator takes the   *)
(* fork from HardForkState, checks the header with                         *)
(* check_block_version_vote and the block weight against                   *)
(* BlockWeightsCache::next_block_weight_limit, computes the block's        *)
(* long-term weight with next_block_long_term_weight, stores the block and *)
(* feeds it to new_block and new_block_added.  Every chain store call      *)
(* answers here; the failures are the subject of HardForkState and         *)
(* WeightCache.                                                            *)
(*                                                                         *)
(* The chain store holds one record per height with the fields both caches *)
(* read; each cache's module is instantiated on its projection of it.      *)
(***************************************************************************)
EXTENDS Integers, FiniteSets, SequencesExt

CONSTANTS
    Window,            \* HardForkConfig.window
    ShortTermWindow,   \* SHORT_TERM_WINDOW
    LongTermWindow,    \* LONG_TERM_WINDOW
    StartHeights,      \* chain heights both caches may be initialised at
    MajorVersions,     \* major_version bytes the validator may see
    MinorVersions,     \* minor_version (vote) bytes the validator may see
    BlockWeights,      \* block weights a new block may have
    LongTermWeights,   \* long-term weights stored blocks of V10 on may have
    MaxChainLength,    \* bound: blocks held by the modelled chain store
    UsizeBits          \* the width of usize

MaxWindow == Max({Window, ShortTermWindow, LongTermWindow})

ASSUME StartHeights \subseteq {h \in Nat : h > MaxWindow}

VARIABLES
    current_hardfork, next_hardfork, votes, last_height,    \* HardForkState
    short_term_block_weights, long_term_weights, tip_height, \* BlockWeightsCache
    chain  \* the chain store: height -> [version, vote, block_weight,
           \*                             long_term_weight]

vars == <<current_hardfork, next_hardfork, votes, last_height,
          short_term_block_weights, long_term_weights, tip_height, chain>>

HFView(c) ==
    [h \in DOMAIN c |-> [version |-> c[h].version, vote |-> c[h].vote]]
WeightView(c) ==
    [h \in DOMAIN c |-> [block_weight |-> c[h].block_weight,
                         long_term_weight |-> c[h].long_term_weight]]

HF == INSTANCE HardForkState WITH
        chain <- HFView(chain), lastCallFailed <- FALSE, failures <- 0,
        MaxFailures <- 0
WC == INSTANCE WeightCache WITH
        chain <- WeightView(chain), failures <- 0, MaxFailures <- 0,
        Weights <- BlockWeights \cup LongTermWeights
WM == INSTANCE WeightMath
WS == INSTANCE WeightSpec

-----------------------------------------------------------------------------
(* The queries of BlockWeightsCache *)

\* BlockWeightsCache::next_block_long_term_weight.
NextBlockLongTermWeight(hf, block_weight) ==
    WM!CalculateBlockLongTermWeight(hf, block_weight, long_term_weights)

\* Mutation of EffectiveMedianBlockWeight: the deque is not sorted first.
EffectiveMedianUnsorted(hf) ==
    WM!CalculateEffectiveMedianBlockWeight(
        hf, short_term_block_weights, long_term_weights)

\* BlockWeightsCache::effective_median_block_weight: the short-term deque
\* copied into a Vec and sorted, with the sorted long-term window.
EffectiveMedianBlockWeight(hf) ==
    WM!CalculateEffectiveMedianBlockWeight(
        hf, SortSeq(short_term_block_weights, <=), long_term_weights)

\* BlockWeightsCache::next_block_weight_limit.
NextBlockWeightLimit(hf) == 2 * EffectiveMedianBlockWeight(hf)

-----------------------------------------------------------------------------
(* Initialisation *)

\* The records a stored block at height h can have: the scheduled version,
\* a vote the check accepted, and a long-term weight equal to the block
\* weight before V10 and at most it from V10 on.
StoredBlocks(h) ==
    LET hf == HF!ScheduledFork(h)
    IN  {b \in [version : {hf}, vote : HF!StoredVotes(hf),
                block_weight : BlockWeights,
                long_term_weight : BlockWeights \cup LongTermWeights] :
            IF hf < 10 THEN b.long_term_weight = b.block_weight
            ELSE b.long_term_weight <= b.block_weight}

\* The chain stores of height ch both caches may start from.
InitialChains(ch) ==
    LET heights == (ch - MaxWindow)..(ch - 1)
    IN  {c \in [heights -> UNION {StoredBlocks(h) : h \in heights}] :
            \A h \in heights : c[h] \in StoredBlocks(h)}

\* HardForkState::init_from_chain_height and
\* BlockWeightsCache::init_from_chain_height at the same height.
Init ==
    \E ch \in StartHeights : \E c \in InitialChains(ch) :
        LET hfs == HF!InitFromChainHeight(HFView(c), ch)
            wc  == WC!InitFromChainHeight(WeightView(c), ch)
        IN  /\ chain = c
            /\ current_hardfork = hfs.current_hardfork
            /\ next_hardfork = hfs.next_hardfork
            /\ votes = hfs.votes
            /\ last_height = hfs.last_height
            /\ long_term_weights = wc.long
            /\ short_term_block_weights = wc.short
            /\ tip_height = wc.tip

-----------------------------------------------------------------------------
(* The validator *)

\* One block: decode and check the header against the current fork, check
\* the weight against the limit of that fork, compute the long-term weight,
\* store the block, then new_block and new_block_added.
ValidateBlock ==
    /\ Cardinality(DOMAIN chain) < MaxChainLength
    /\ \E major \in MajorVersions, minor \in MinorVersions,
          bw \in BlockWeights :
         LET info == HF!FromMajorMinor(major, minor)
             h    == last_height + 1
             ltw  == NextBlockLongTermWeight(current_hardfork, bw)
         IN  /\ info # HF!InvalidHFInfo
             /\ HF!CheckBlockVersionVote(info)
             /\ bw <= NextBlockWeightLimit(current_hardfork)
             /\ chain' = chain @@ (h :> [version |-> info.version,
                                         vote |-> info.vote,
                                         block_weight |-> bw,
                                         long_term_weight |-> ltw])
             /\ HF!NewBlock(info.vote, h, HF!Excess)
             /\ WC!NewBlockAdded(h, bw, ltw, TRUE)

Next == ValidateBlock

Spec == Init /\ [][Next]_vars

-----------------------------------------------------------------------------
(* Properties *)

\* The chain height both caches were initialised at.
StartedAt == Min(DOMAIN chain) + MaxWindow

\* The values of field f of blocks lo..hi-1 of chain c, sorted.
SortedWindow(c, lo, hi, f) == SortSeq([i \in 1..(hi - lo) |-> c[lo + i - 1][f]], <=)

\* The effective median the validator gets from the cache for the next
\* block is the spec's effective median of the fork the schedule gives
\* that block, over the last SHORT_TERM_WINDOW block weights and the last
\* LONG_TERM_WINDOW long-term weights of the chain store.  It covers the
\* sort of the deque, median, the fork taken from HardForkState and the
\* windows new_block_added keeps; next_block_weight_limit is twice it.
EffectiveMedianMatchesChain ==
    LET n == last_height + 1
    IN  EffectiveMedianBlockWeight(current_hardfork) =
            WS!SpecEffectiveMedian(
                HF!ScheduledFork(n),
                SortedWindow(chain, n - ShortTermWindow, n, "block_weight"),
                SortedWindow(chain, n - LongTermWindow, n, "long_term_weight"))

\* Every block the validator stored carries the spec's long-term weight for
\* the fork of its height and the LONG_TERM_WINDOW long-term weights before
\* it: next_block_long_term_weight was asked with the right fork and the
\* right window, across the V10 and V15 changes of the formula.
LongTermWeightsFollowSpec ==
    \A h \in {g \in DOMAIN chain : g >= StartedAt} :
        chain[h].long_term_weight =
            WS!SpecLongTermWeight(
                HF!ScheduledFork(h), chain[h].block_weight,
                SortedWindow(chain, h - LongTermWindow, h, "long_term_weight"))

====
