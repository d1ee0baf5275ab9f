----------------------------- MODULE FreshChain -----------------------------
(***************************************************************************)
(* Both caches of consensus/src started on an empty chain (chain_height    *)
(* 0), in a debug or a release build.  init_from_chain_height computes     *)
(* chain_height - 1 in u64: a debug build panics on the underflow, a       *)
(* release build wraps to u64::MAX.  HardForkState then asks the chain     *)
(* store for block u64::MAX, which does not exist; BlockWeightsCache keeps *)
(* u64::MAX as its tip_height, and new_block_added(0) wraps it back.       *)
(*                                                                         *)
(* u64 is narrowed to U64Bits bits: only the wrap at 0 - 1 and at          *)
(* u64::MAX + 1 matters, and it is the same at every width.                *)
(***************************************************************************)
EXTENDS Integers, FiniteSets, SequencesExt

CONSTANTS
    ShortTermWindow,  \* SHORT_TERM_WINDOW (100)
    LongTermWindow,   \* LONG_TERM_WINDOW (100000)
    Weights,          \* block and long-term weights blocks may have
    MaxChainLength,   \* bound: blocks the validator adds
    U64Bits           \* the width u64 is narrowed to

ASSUME MaxChainLength < 2^U64Bits

VARIABLES
    build,           \* "debug" (overflow checks on) or "release"
    hardfork_state,  \* the result of HardForkState::init_from_chain_height(0)
    weight_cache,    \* the BlockWeightsCache, or the panic that ended it
    chain            \* the chain store: height -> BlockWeightInfo

vars == <<build, hardfork_state, weight_cache, chain>>

WC == INSTANCE WeightCache WITH
        StartHeights <- {1}, MaxFailures <- 0,
        short_term_block_weights <- weight_cache.short,
        long_term_weights <- weight_cache.long,
        tip_height <- weight_cache.tip,
        failures <- 0

Builds == {"debug", "release"}

U64Max == 2^U64Bits - 1

\* The panic of an arithmetic overflow in a debug build.
Overflow == -1

PanicResult == [status |-> "panic"]
ChainStoreError == [status |-> "ChainStoreError"]

\* u64 subtraction and increment as each build computes them.
U64Sub(b, x, y) ==
    IF x >= y THEN x - y ELSE IF b = "debug" THEN Overflow ELSE x - y + U64Max + 1
U64Inc(b, x) ==
    IF x < U64Max THEN x + 1 ELSE IF b = "debug" THEN Overflow ELSE 0

-----------------------------------------------------------------------------
(* Initialisation at chain height 0 *)

\* HardForkState::init_from_chain_height(0): the chain store call for the
\* votes of the empty range 0..0 answers with no votes; then
\* chain_height - 1 either panics or names block u64::MAX, which the chain
\* store does not hold.
HardForkInitOnEmptyChain(b) ==
    IF U64Sub(b, 0, 1) = Overflow THEN PanicResult ELSE ChainStoreError

\* Mutation of WeightCacheInit: tip_height as chain_height.saturating_sub(1).
WeightCacheInitSaturating(b, c, ch) ==
    LET fresh == WC!InitFromChainHeight(c, ch)
    IN  [status |-> "ok", short |-> fresh.short, long |-> fresh.long,
         tip |-> IF ch > 0 THEN ch - 1 ELSE 0]

\* BlockWeightsCache::init_from_chain_height(ch): the windows, then
\* tip_height: chain_height - 1.
WeightCacheInit(b, c, ch) ==
    LET fresh == WC!InitFromChainHeight(c, ch)
        tip   == U64Sub(b, ch, 1)
    IN  IF tip = Overflow THEN PanicResult
        ELSE [status |-> "ok", short |-> fresh.short, long |-> fresh.long,
              tip |-> tip]

\* The empty chain store.
EmptyChain == [h \in {} |-> WC!BlockWeightInfo]

Init ==
    /\ build \in Builds
    /\ chain = EmptyChain
    /\ hardfork_state = HardForkInitOnEmptyChain(build)
    /\ weight_cache = WeightCacheInit(build, EmptyChain, 0)

-----------------------------------------------------------------------------
(* new_block_added *)

\* BlockWeightsCache::new_block_added(block_height, ..) on cache wc with its
\* eviction fetch answered from chain store c: assert_eq!(tip_height + 1,
\* block_height) and tip_height += 1 in u64, then the long-term insert and
\* eviction and the short-term push.
NewBlockAddedFresh(b, wc, block_height, info, c) ==
    LET next     == U64Inc(b, wc.tip)
        inserted == WC!InsertLongTermWeight(wc.long, info.long_term_weight)
        evicted  == WC!HeightToRemove(block_height)
    IN  IF next = Overflow \/ next # block_height THEN PanicResult
        ELSE [status |-> "ok",
              tip    |-> next,
              long   |-> IF evicted = {} THEN inserted
                         ELSE WC!RemoveLongTermWeight(inserted,
                                c[CHOOSE e \in evicted : TRUE].long_term_weight),
              short  |-> WC!PushShortTerm(wc.short, info.block_weight)]

\* The validator stores the block at the chain height and adds it to the
\* cache.
AddBlock ==
    /\ weight_cache.status = "ok"
    /\ Cardinality(DOMAIN chain) < MaxChainLength
    /\ \E info \in WC!BlockWeightInfo :
         LET h == Cardinality(DOMAIN chain)
         IN  /\ chain' = chain @@ (h :> info)
             /\ weight_cache' = NewBlockAddedFresh(build, weight_cache, h,
                                                   info, chain')
    /\ UNCHANGED <<build, hardfork_state>>

Next == AddBlock

Spec == Init /\ [][Next]_vars

-----------------------------------------------------------------------------
(* Properties *)

\* The spec: on a fresh chain (height 0) HardForkState::init yields V1, with
\* V2 next.  The code computes chain_height - 1 for the block to read.
FreshChainStartsAtV1 ==
    hardfork_state = [status |-> "ok", current_hardfork |-> 1,
                      next_hardfork |-> 2]

\* In a release build the weight cache initialised on the empty chain
\* survives its wrapped tip_height: it accepts block 0, and after every
\* block it equals a fresh init_from_chain_height at the chain height, with
\* non-empty windows, so median never sees an empty slice.
ReleaseCacheTracksChain ==
    LET n     == Cardinality(DOMAIN chain)
        fresh == WC!InitFromChainHeight(chain, n)
    IN  build = "release" =>
            /\ weight_cache.status = "ok"
            /\ n > 0 =>
                 /\ weight_cache.tip = n - 1
                 /\ weight_cache.short = fresh.short
                 /\ weight_cache.long = fresh.long
                 /\ Len(weight_cache.short) > 0
                 /\ Len(weight_cache.long) > 0

=============================================================================
