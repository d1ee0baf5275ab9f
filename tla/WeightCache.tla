---------------------------- MODULE WeightCache ----------------------------
(***************************************************************************)
(* BlockWeightsCache of consensus/src/block/weight.rs: the last            *)
(* SHORT_TERM_WINDOW block weights in chain order, the last                *)
(* LONG_TERM_WINDOW long-term weights kept sorted, and the tip height,     *)
(* beside the chain store it reads evicted weights from.                   *)
(*                                                                         *)
(* The chain store is `chain`, a function from height to the block's       *)
(* weights.  The validator that feeds the cache is not in the repository;  *)
(* AddBlock models it: it stores a block with some weights and calls       *)
(* new_block_added.  The await on the chain store in new_block_added may   *)
(* fail (ChainStoreError, or the future being dropped); `?` then returns   *)
(* with what the call has already changed.                                 *)
(***************************************************************************)
EXTENDS Integers, FiniteSets, SequencesExt

CONSTANTS
    ShortTermWindow,  \* SHORT_TERM_WINDOW (100)
    LongTermWindow,   \* LONG_TERM_WINDOW (100000)
    StartHeights,     \* chain heights the cache may be initialised at
    Weights,          \* block and long-term weights blocks may have
    MaxChainLength,   \* bound: blocks held by the modelled chain store
    MaxFailures       \* bound: new_block_added calls whose fetch fails

ASSUME ShortTermWindow \in Nat \ {0} /\ LongTermWindow \in Nat \ {0}
ASSUME StartHeights \subseteq Nat \ {0}

VARIABLES
    short_term_block_weights,  \* VecDeque, chain order
    long_term_weights,         \* Vec, sorted
    tip_height,
    chain,                     \* the chain store: height -> BlockWeightInfo
    failures                   \* new_block_added calls that have failed

vars == <<short_term_block_weights, long_term_weights, tip_height, chain,
          failures>>

BlockWeightInfo == [block_weight : Weights, long_term_weight : Weights]

\* u64::saturating_sub.
SaturatingSub(a, b) == IF a > b THEN a - b ELSE 0

-----------------------------------------------------------------------------
(* Reading the chain store *)

\* get_blocks_weight_in_range: the block weights of c over lo..hi-1.
GetBlocksWeightInRange(c, lo, hi) ==
    [i \in 1..(hi - lo) |-> c[lo + i - 1].block_weight]

\* get_long_term_weight_in_range: the long-term weights of c over lo..hi-1.
GetLongTermWeightInRange(c, lo, hi) ==
    [i \in 1..(hi - lo) |-> c[lo + i - 1].long_term_weight]

\* The cache init_from_chain_height(ch) builds from chain store c:
\* the long-term weights sorted with sort_unstable, the short-term weights
\* in chain order, and tip_height = ch - 1.
InitFromChainHeight(c, ch) ==
    [long  |-> SortSeq(GetLongTermWeightInRange(
                   c, SaturatingSub(ch, LongTermWindow), ch), <=),
     short |-> GetBlocksWeightInRange(
                   c, SaturatingSub(ch, ShortTermWindow), ch),
     tip   |-> ch - 1]

\* The chain stores of height ch the cache may start from.
InitialChains(ch) ==
    [SaturatingSub(ch, Max({LongTermWindow, ShortTermWindow}))..(ch - 1)
        -> BlockWeightInfo]

Init ==
    \E ch \in StartHeights : \E c \in InitialChains(ch) :
        LET cache == InitFromChainHeight(c, ch)
        IN  /\ chain = c
            /\ long_term_weights = cache.long
            /\ short_term_block_weights = cache.short
            /\ tip_height = cache.tip
            /\ failures = 0

-----------------------------------------------------------------------------
(* new_block_added *)

\* slice::binary_search on a sorted sequence, 1-based: Ok(i) for a position
\* holding x (which one is unspecified; all give the same insert), or
\* Err(i) for the position x would be inserted at.
BinarySearch(s, x) ==
    IF \E i \in 1..Len(s) : s[i] = x
    THEN [ok |-> TRUE, idx |-> CHOOSE i \in 1..Len(s) : s[i] = x]
    ELSE [ok |-> FALSE, idx |-> Cardinality({i \in 1..Len(s) : s[i] < x}) + 1]

\* match binary_search { Ok(idx) | Err(idx) => insert(idx, w) }.
InsertLongTermWeight(s, w) == InsertAt(s, BinarySearch(s, w).idx, w)

\* Mutation of RemoveLongTermWeight: removes the element after the match.
RemoveLongTermWeightNext(s, w) ==
    RemoveAt(s, Min({BinarySearch(s, w).idx + 1, Len(s)}))

\* The binary_search(..).expect(..) and remove(idx) of an evicted weight.
\* EvictedWeightPresent shows the expect never fires.
RemoveLongTermWeight(s, w) == RemoveAt(s, BinarySearch(s, w).idx)

\* Mutation of HeightToRemove: evicts once block_height > LONG_TERM_WINDOW.
HeightToRemoveLate(block_height) ==
    IF block_height > LongTermWindow
    THEN {block_height - LongTermWindow} ELSE {}

\* block_height.checked_sub(LONG_TERM_WINDOW), as a set of 0 or 1 heights.
HeightToRemove(block_height) ==
    IF block_height >= LongTermWindow
    THEN {block_height - LongTermWindow} ELSE {}

\* Mutation of PushShortTerm: pops only once the deque exceeds the window
\* by two.
PushShortTermLate(s, w) ==
    IF Len(Append(s, w)) > ShortTermWindow + 1 THEN Tail(Append(s, w))
    ELSE Append(s, w)

\* push_back, then pop_front if the deque is longer than the window.
PushShortTerm(s, w) ==
    IF Len(Append(s, w)) > ShortTermWindow THEN Tail(Append(s, w))
    ELSE Append(s, w)

\* BlockWeightsCache::new_block_added(block_height, block_weight,
\* long_term_weight), with the eviction fetch answering or not.  tip_height
\* and the long-term insert happen before the await.
NewBlockAdded(block_height, block_weight, long_term_weight, answered) ==
    LET inserted == InsertLongTermWeight(long_term_weights, long_term_weight)
        evicted  == HeightToRemove(block_height)
    IN  /\ tip_height + 1 = block_height
        /\ tip_height' = block_height
        /\ IF answered
              THEN /\ long_term_weights' =
                        IF evicted = {} THEN inserted
                        ELSE LET h == CHOOSE e \in evicted : TRUE
                             IN  RemoveLongTermWeight(
                                     inserted, chain[h].long_term_weight)
                   /\ short_term_block_weights' =
                        PushShortTerm(short_term_block_weights, block_weight)
                   /\ UNCHANGED failures
              ELSE /\ evicted # {}
                   /\ long_term_weights' = inserted
                   /\ failures' = failures + 1
                   /\ UNCHANGED short_term_block_weights

\* The validator stores a block at the next height and adds it to the cache.
AddBlock(answered) ==
    /\ Cardinality(DOMAIN chain) < MaxChainLength
    /\ \E info \in BlockWeightInfo :
         LET h == tip_height + 1
         IN  /\ chain' = chain @@ (h :> info)
             /\ NewBlockAdded(h, info.block_weight, info.long_term_weight,
                              answered)

\* new_block_added returns Ok.
AddBlockOk == AddBlock(TRUE)

\* The eviction fetch of new_block_added returns a ChainStoreError.
AddBlockFailed == failures < MaxFailures /\ AddBlock(FALSE)

Next == AddBlockOk \/ AddBlockFailed

Spec == Init /\ [][Next]_vars

-----------------------------------------------------------------------------
(* Properties *)

\* The state is well typed; push_back/pop_front keep the deque within
\* SHORT_TERM_WINDOW.
TypeOK ==
    /\ short_term_block_weights \in BoundedSeq(Weights, ShortTermWindow)
    /\ long_term_weights \in Seq(Weights)
    /\ tip_height \in Nat
    /\ failures \in 0..MaxFailures

\* Until a chain store call fails, the cache after any sequence of
\* new_block_added calls equals the one init_from_chain_height builds at
\* the same height: both windows hold exactly the last blocks, the long-term
\* one sorted (the spec's rebuild equivalence).
RebuildEquivalence ==
    failures = 0 =>
        LET fresh == InitFromChainHeight(chain, tip_height + 1)
        IN  /\ long_term_weights = fresh.long
            /\ short_term_block_weights = fresh.short

\* Whatever calls failed, the long-term weight that the next
\* new_block_added will evict is in long_term_weights, so its
\* binary_search(..).expect(..) never panics.
EvictedWeightPresent ==
    \A h \in HeightToRemove(tip_height + 1) :
        \E i \in 1..Len(long_term_weights) :
            long_term_weights[i] = chain[h].long_term_weight

\* The long-term window never holds more than LONG_TERM_WINDOW weights.
LongTermWindowBound == Len(long_term_weights) <= LongTermWindow

=============================================================================
