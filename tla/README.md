# TLA+ models of Cuprate's consensus caches

These modules model the two caches in `src/consensus/src` that a Monero node reads for each new block:

* `hardforks.rs`: the hard-fork state. It holds the current fork and the vote window.
* `block/weight.rs`: the block-weight cache. It holds the short-term and long-term weight windows.

The modules are checked with TLC.

## 1. Inventory

### Components

| Component | Source | State | Operations |
|---|---|---|---|
| `HardFork` enum | `hardforks.rs:37-167` | none | `from_version`, `from_vote`, `BlockHFInfo::from_major_minor`, `next_fork`, `fork_threshold`, `votes_needed`, `fork_height` (mainnet table; stagenet/testnet are `todo!()`), `in_range` |
| `HFVotes` | `hardforks.rs:169-226` | `votes: [u64; 16]` | `add_vote_for_hf`, `remove_vote_for_hf`, `votes_for_hf` (sum of the counters for this fork and every later one), `total_votes`; `Display` is for logging only |
| `HardForkState` | `hardforks.rs:228-419` | `current_hardfork`, `next_hardfork`, `config` (network, window), `votes`, `last_height` | `init`/`init_from_chain_height`, `check_block_version_vote`, `new_block`, `check_set_new_hf`, `set_hf`, `get_votes_in_range` |
| `BlockWeightsCache` | `block/weight.rs:55-197` | `short_term_block_weights` (deque in chain order, at most 100), `long_term_weights` (sorted, at most 100 000), `tip_height` | `init`/`init_from_chain_height`, `new_block_added`, queries `effective_median_block_weight`, `next_block_weight_limit`, `next_block_long_term_weight` |
| Weight calculations | `block/weight.rs:19-53, 199-265` | none | `penalty_free_zone`, `calculate_effective_median_block_weight`, `calculate_block_long_term_weight`, `get_mid`, `median` |
| `block_weight` | `block/weight.rs:32-40` | none | sum of `Transaction::weight()` (from monero_serai) |
| Chain store (external) | `crate::Database`, not in `src/` | the chain | `ChainHeight`, `BlockHFInfo(h)`, `BlockHfInfoInRange`, `BlockWeights(h)`, `BlockWeightsInRange` |
| Validator (external) | not in `src/` | none | decodes each header and checks it with `check_block_version_vote`. It stores the block, then calls `new_block` and `new_block_added`. |

### How the components interact

Both caches are independent and talk only to the chain store. The chain store is a `tower` service, and each call to it is an `.await`.

* `HardForkState::new_block` does its work in this order:
  1. It increments `last_height` and adds the vote.
  2. It then awaits one `BlockHFInfo` per height that has left the window (`height - offset` for `offset` in `window..total_votes()`) and removes that block's vote.
  3. It runs `check_set_new_hf`.
* `BlockWeightsCache::new_block_added` does its work in this order:
  1. It increments `tip_height` and inserts the long-term weight at its `binary_search` position.
  2. If `block_height >= 100000`, it awaits `BlockWeights(block_height - 100000)` and removes that weight.
  3. It pushes the block weight onto the short-term deque and pops from the front beyond 100 entries.

Both caches take `&mut self`, so nothing runs concurrently inside a cache. The hard part is partial failure. Any `.await` can return a `ChainStoreError`, and a dropped future has the same effect. `?` then returns with the changes made before the await still in place.

The validator reads `current_hardfork` through `check_block_version_vote` to accept the next header. A stale fork after a failure therefore reaches block acceptance.

### What makes each component correct

* HFVotes / HardForkState:
  * After each block, the tally is exactly the votes of the last `window` blocks.
  * `votes_for_hf` rolls votes up to every earlier fork.
  * `current_hardfork` is the fork the schedule gives the next block (`last_height + 1`).
  * `check_set_new_hf` iterates until it stops (mainnet forks are at least 720 blocks apart, so a call activates at most one).
  * No counter underflows.
  * Every accepted block carries its scheduled version.
* BlockWeightsCache:
  * Ingesting block by block gives the same windows as a fresh `init_from_chain_height` at that height (rebuild equivalence).
  * The long-term window stays sorted and at most `LONG_TERM_WINDOW` long.
  * The weight to evict is always present, so the `expect` never fires.
  * The short-term deque holds the last `SHORT_TERM_WINDOW` weights in chain order.
* Weight calculations:
  * `median`/`get_mid` equal the exact integer median without overflow.
  * The effective median and the long-term weight equal the spec's formulas (section 4.4) at every fork.

The hazards are listed in `PROJECT.json` with their source lines.

## 2. Modules

| Module | Models | State / actions |
|---|---|---|
| `HardFork` | the `HardFork` enum and `BlockHFInfo` decoding | operators only; fork `Vn` is the integer `n` (`#[repr(u8)]`) |
| `HardForkState` | `HFVotes`, `HardForkState` and the validator that drives it | variables: `current_hardfork`, `next_hardfork`, `votes`, `last_height`, `chain` (the chain store), `lastCallFailed`, `failures`. `Init` is `init_from_chain_height`. `AcceptBlockOk` and `AcceptBlockFailed` are one validator step plus `new_block`, which either finishes or fails after `n` of its eviction fetches. `check_set_new_hf` is the RECURSIVE operator `CheckSetNewHf`. |
| `WeightCache` | `BlockWeightsCache` state and the validator that feeds it | variables: `short_term_block_weights`, `long_term_weights`, `tip_height`, `chain`, `failures`. `Init` is `init_from_chain_height`. `AddBlockOk` and `AddBlockFailed` are `new_block_added` with its eviction fetch answering or failing. `binary_search` is `BinarySearch`. |
| `WeightMath` | the pure weight calculations and `block_weight` | operators. `BlockWeight` folds usize addition over the transactions' weights and the miner transaction's. `get_mid` and `median` compute in usize modulo `2^UsizeBits`. |
| `FreshChain` | both caches' `init_from_chain_height(0)` on an empty chain, in a debug and a release build, then `new_block_added` from block 0 | variables: `build`, `hardfork_state` (the init result), `weight_cache` (a cache record or a panic), `chain`. u64 is narrowed to `U64Bits` bits; `U64Sub`/`U64Inc` panic in debug and wrap in release. `AddBlock` is the validator adding the next block. The cache operations are taken from `WeightCache` through `INSTANCE`. |
| `Consensus` | both caches under one validator, and the queries of `BlockWeightsCache` | the variables of both caches plus one chain store whose records carry version, vote, block weight and long-term weight. `HardForkState` and `WeightCache` are instantiated on their projections of it (`HFView`, `WeightView`). `ValidateBlock` checks the header with `check_block_version_vote` and the weight against `NextBlockWeightLimit(current_hardfork)`, computes the long-term weight with `NextBlockLongTermWeight(current_hardfork, ..)`, stores the block and runs `new_block` and `new_block_added` (every chain-store call answers). |
| `WeightSpec` | the spec's weight formulas (section 4.4), written from the spec's text: penalty-free zone, exact median, effective median, long-term weight | operators only; the requirement `MCWeightFormulas` and `Consensus` check the code against |
| `MCWeightFormulas` | `calculate_effective_median_block_weight` and `calculate_block_long_term_weight` over bounded inputs | variables: `hf`, `sorted_short`, `sorted_long`. `Init` picks any fork and one-weight windows; `ExtendShort`/`ExtendLong` append a weight no smaller than the last. The spec's scenarios S3-S5 are `ASSUME`s. |
| `MCHardForkState`, `MCWeightCache`, `MCWeightMath`, `MCConsensus` | TLC instantiations | constant sets for the configs. `MCWeightMath` has one variable, a sorted sequence, which each step extends. |

Modules also contain a few operators named `...Shifted`, `...Early`, `...Late`, `...Next` and `...Naive`. Each is a mutation of the operator that follows it. Each one deliberately introduces a plausible bug, to show that some property detects that bug.

## 3. Runs

| Run | Config | Expect | What it shows |
|---|---|---|---|
| `hardfork_state` | `HardForkState.cfg` | pass | Window 2. The cache starts either on a one-block chain or at height 1787999, two blocks before the V10 activation at 1788000. At most one `new_block` fails. After init and every successful `new_block`, `votes_for_hf(hf)` counts the window's blocks whose vote is `hf` or later. `current_hardfork`/`next_hardfork` follow the schedule, and no counter goes negative. A single failed call is therefore healed by the next successful one. |
| `hardfork_double_failure` | `HardForkDoubleFailure.cfg` | violation of `VotesForMatchesWindow` | Two failures in a row, the second partway through its catch-up loop, make the next call evict the same height twice. The counter goes to -1. |
| `hardfork_stale_fork` | `HardForkStaleFork.cfg` | violation of `AcceptedVersionsFollowSchedule` | `new_block(1787999)` fails, so `check_set_new_hf` does not run. `check_block_version_vote` then accepts block 1788000 with version V9 instead of V10. |
| `weight_cache` | `WeightCache.cfg` | pass | Short-term window 2, long-term window 3, weights {1, 2}. The cache starts on a 1-block chain or a 4-block chain, and at most one fetch fails. Until a fetch fails, the cache equals a fresh init at its height. The evicted weight is always found, even after a failure, and the deque stays within its window. |
| `weight_cache_failed_fetch` | `WeightCacheFailedFetch.cfg` | violation of `LongTermWindowBound` | One failed eviction fetch leaves 4 weights in a window of 3. |
| `fresh_chain` | `FreshChain.cfg` | pass | Both caches start on an empty chain. A debug build panics at `chain_height - 1`. In a release build `tip_height` wraps to u64::MAX, `new_block_added(0)` wraps it back to 0, and after every block the cache equals a fresh init at the chain height with non-empty windows, so `median` never sees an empty slice. |
| `fresh_chain_hardfork` | `FreshChainHardFork.cfg` | violation of `FreshChainStartsAtV1` | `HardForkState::init_from_chain_height(0)` never yields V1, as the spec says it should. A debug build panics on the underflow. A release build asks the chain store for block u64::MAX and fails. |
| `consensus` | `Consensus.cfg` | pass | Windows of 3, `UsizeBits` 30, and weights 100 000 and 700 000. The caches start 3 blocks before V10 or before V15, and 4 blocks are validated across the activation. The effective median the cache gives for the next block (and so the weight limit) equals the spec's formula over the chain's last blocks, for the fork the schedule gives. Every stored long-term weight equals the spec's formula for its height's fork. |
| `weight_formulas` | `WeightFormulas.cfg` | pass | Every fork 1-16, sorted windows of 1 to 3 weights from {20 000, 60 000, 150 001, 300 000, 700 000}, blocks of a miner transaction (10 000 or 300 000) and at most one other (400 000), so block weights 10 000, 300 000, 410 000 and 700 000. The code's effective median, and its long-term weight of `block_weight`'s result, equal `WeightSpec`'s at every input. This covers the V10 and V15 rule changes, the penalty-free-zone floors of V1, V2-V4 and V5+, even-length medians, and both sides of the short-term constraint and of the 10/17 floor. |
| `hardfork_retry` | `HardForkRetry.cfg` | violation of `FailedBlockRetriable` | `new_block` advances `last_height` before its first await. After a failed call, retrying the same block trips `assert_eq!(last_height + 1, height)` (`hardforks.rs:337`). The spec says a `ChainStoreError` is surfaced to the caller with the cache state unchanged (retrying the store call is the collaborator's concern). `new_block_added` does the same with `tip_height` (`weight.rs:138-139`). |
| `weight_median` | `WeightMath.cfg` | pass | Covers every sorted sequence of 1 to 4 values of a 4-bit usize. Sums of two such values wrap. `median` equals the exact reference median, defined by order statistics. |

### Bounds and why they suffice

* **Windows of 2 and 3.**
  * The window arithmetic is symbolic in `Window`, `ShortTermWindow` and `LongTermWindow`. The real values (10080, 100, 100000) only change how long it takes to fill a window.
  * Two or three slots are enough for three things: a window that is filling, a full window, and an eviction of a block whose weight or vote equals another one in the window.
  * Chains of 5 or 6 blocks take each start height through several evictions and through the fork.
* **Real mainnet heights.** The fork schedule keeps its real heights. The V10 start puts the activation inside the few modelled blocks.
* **At most 2 failures.** One failure is enough to show the self-healing of a single failure and the stale fork. Two are needed for the double eviction.
* **4-bit usize for `median`.** `get_mid` is the same expression at every width. 4 bits make sums wrap and give every parity combination.

* **`Consensus` windows of 3.** A short-term window of 3 is the least where sorting the deque changes the median. Weights of 100 000 and 700 000 straddle the V10+ penalty-free zone (300 000). This makes the long-term weight of a 700 000 block the short-term constraint `ltm * 7/5`, and the limit before V10 lets a heavy block in only when the window allows it. The initial chain's long-term weights are either equal to the block weight (before V10) or at most it.
* **Formula inputs.** The windows' weights are the three penalty-free zones, a value between them, and one above all of them. Windows of 1 to 3 give both parities of the median. The block weights lie below, at and above the constraints. All forks are enumerated.
* **u64 narrowed to 4 bits in `FreshChain`.** Only the wrap at `0 - 1` and at `u64::MAX + 1` matters, and it is the same at every width.

### Refinement

There is no refinement check. A `SlidingWindow` specification of the spec's VoteWindow and long-term WeightWindow was checked against `HFVotes` and `long_term_weights` in `Consensus`, where every chain-store call answers. It was removed because in that setting it says no more than `VotesForMatchesWindow` and `RebuildEquivalence`. Under failures it does not hold, which `hardfork_double_failure` and `weight_cache_failed_fetch` already show.

### Fairness and deadlock

No run checks liveness. Nothing in the code makes progress by itself: `check_set_new_hf` is a terminating loop (a RECURSIVE operator TLC evaluates to its end), and everything else happens only when the validator calls in. A fairness assumption would therefore be one about the validator and the network, not about this code. The caches are passive, and they change only when the validator feeds them a block. The system may therefore stop at any point, and the runs set `CHECK_DEADLOCK FALSE`. The chain-length bound ends every behaviour. The pass runs fire every action; TLC's coverage output shows this.

## 4. Not modelled, and why

* `Transaction::weight()` from `monero_serai`: it is not in the repository. `block_weight` is modelled with the transactions' weights as inputs, and `HardForkState`, `WeightCache` and `Consensus` take block weights from a small set.
* `HFVotes`'s `Display` and all `tracing` calls: they are formatting and logging only.
* Stagenet and testnet fork heights: they are `todo!()` and would panic.
* Wrong-variant chain-store responses: these panic, and the models do not produce them.
* A median query before the first block of an empty chain: it panics, and the spec calls such a query a programmer error. `FreshChain` shows the windows are non-empty from block 0 on.
* Chain-store failures in `Consensus`: they are the subject of `HardForkState` and `WeightCache`, and their consequences in the composition follow from the findings there.

What remains of the two source files unmapped is imports, constants given as model constants, `HardForkConfig` (its `window` is the constant `Window`), the `Display` impl and `tracing` calls. None of it changes state. The chain store and the validator stay partly modelled: they are not in the repository, and the models give them only the behaviour the caches depend on.

## 5. Plan

Built in this order; the steps marked *next* are still to do.

1. **Done:** `HardFork`, `HardForkState` with failing chain-store calls. Runs: `hardfork_state`, `hardfork_double_failure`, `hardfork_stale_fork`.
2. **Done:** `WeightCache` with a failing eviction fetch. Runs: `weight_cache`, `weight_cache_failed_fetch`.
3. **Done:** `WeightMath`, with `median`/`get_mid` checked against a reference. Run: `weight_median`.
4. **Done:** `FreshChain`, an empty-chain start of both caches in debug and release builds. Runs: `fresh_chain`, `fresh_chain_hardfork`.
5. **Done:** `Consensus`, which composes `HardForkState`, `WeightCache` and `WeightMath` under one validator with the weight-limit check and the long-term weight. Run: `consensus`.
6. **Removed:** the `SlidingWindow` refinement, which restated `VotesForMatchesWindow` and `RebuildEquivalence` (see Refinement).
7. **Done:** `WeightMath` checks of `calculate_effective_median_block_weight` and `calculate_block_long_term_weight` over bounded inputs, at every fork, against the spec's formulas and scenarios S3–S5. `consensus` covers only the forks around V10 and V15. Run: `weight_formulas`. Also the retry of a failed block: run `hardfork_retry`.
8. **Dropped:** `Consensus` with a failing chain-store call. After `hardfork_stale_fork` the validator would check the weight limit and compute the long-term weight with the stale fork; that is a consequence of the same finding, not a new question (see section 4).
9. **Done:** `block_weight` as `WeightMath!BlockWeight`, checked through the long-term weight of `weight_formulas` against the spec's block weight.
