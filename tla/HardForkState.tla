--------------------------- MODULE HardForkState ---------------------------
(***************************************************************************)
(* HardForkState of consensus/src/hardforks.rs: the current and next fork, *)
(* the HFVotes tally of the last `window` blocks' votes, and last_height,  *)
(* beside the chain store it reads blocks from.                            *)
(*                                                                         *)
(* The chain store is `chain`, a function from height to the BlockHFInfo   *)
(* of that block.  The validator that drives the cache is not in the      *)
(* repository; AcceptBlock models it as the spec describes it: decode the *)
(* header, check it with check_block_version_vote, store the block and    *)
(* call new_block.  Every await on the chain store in new_block may fail  *)
(* (ChainStoreError, or the future being dropped); the `?` then returns   *)
(* with whatever new_block has already changed.                           *)
(***************************************************************************)
EXTENDS Integers, FiniteSets, SequencesExt, HardFork

CONSTANTS
    Window,          \* HardForkConfig.window (10080 on mainnet)
    StartHeights,    \* chain heights the cache may be initialised at
    MajorVersions,   \* major_version bytes the validator may see
    MinorVersions,   \* minor_version (vote) bytes the validator may see
    MaxChainLength,  \* bound: blocks held by the modelled chain store
    MaxFailures      \* bound: new_block calls whose chain store call fails

ASSUME Window \in Nat \ {0}
ASSUME StartHeights \subseteq Nat \ {0}

VARIABLES
    current_hardfork,
    next_hardfork,
    votes,           \* HFVotes.votes, one counter per fork
    last_height,
    chain,           \* the chain store: height -> [version, vote]
    lastCallFailed,  \* the last new_block returned a ChainStoreError
    failures         \* new_block calls that have failed so far

vars == <<current_hardfork, next_hardfork, votes, last_height, chain,
          lastCallFailed, failures>>

-----------------------------------------------------------------------------
(* HFVotes *)

\* HFVotes::default.
NoVotes == [hf \in HardForks |-> 0]

\* HFVotes::add_vote_for_hf.
AddVoteForHf(v, hf) == [v EXCEPT ![hf] = @ + 1]

\* Mutation of RemoveVoteForHf: indexes the counter of the next fork.
RemoveVoteForHfShifted(v, hf) ==
    [v EXCEPT ![IF hf < LatestFork THEN hf + 1 ELSE hf] = @ - 1]

\* HFVotes::remove_vote_for_hf.  A negative counter stands for the u64
\* underflow (a panic in debug builds, a wrap in release builds).
RemoveVoteForHf(v, hf) == [v EXCEPT ![hf] = @ - 1]

\* HFVotes::votes_for_hf: the votes for hf and every later fork.
VotesForHf(v, hf) == SumFunctionOnSet(v, hf..LatestFork)

\* HFVotes::total_votes.
TotalVotes(v) == SumFunction(v)

\* get_votes_in_range: the tally of the votes of blocks lo..hi-1 of chain c.
GetVotesInRange(c, lo, hi) ==
    [hf \in HardForks |-> Cardinality({h \in lo..(hi - 1) : c[h].vote = hf})]

-----------------------------------------------------------------------------
(* Fork activation *)

\* HardForkState::set_hf.
SetHf(new_hf) == [current |-> new_hf, next |-> NextFork(new_hf)]

\* Mutation of CheckSetNewHf: activates at last_height >= fork height.
RECURSIVE CheckSetNewHfLate(_, _, _, _)
CheckSetNewHfLate(cur, nxt, lh, v) ==
    IF /\ nxt # NoFork
       /\ lh >= ForkHeight(nxt)
       /\ VotesForHf(v, nxt) >= VotesNeeded(nxt, Window)
    THEN LET s == SetHf(nxt) IN CheckSetNewHfLate(s.current, s.next, lh, v)
    ELSE [current |-> cur, next |-> nxt]

\* HardForkState::check_set_new_hf: while the next fork's height is reached
\* by the next block and it has enough votes, activate it.  Returns the new
\* (current_hardfork, next_hardfork).
RECURSIVE CheckSetNewHf(_, _, _, _)
CheckSetNewHf(cur, nxt, lh, v) ==
    IF /\ nxt # NoFork
       /\ lh + 1 >= ForkHeight(nxt)
       /\ VotesForHf(v, nxt) >= VotesNeeded(nxt, Window)
    THEN LET s == SetHf(nxt) IN CheckSetNewHf(s.current, s.next, lh, v)
    ELSE [current |-> cur, next |-> nxt]

\* HardForkState::check_block_version_vote.
CheckBlockVersionVote(info) ==
    current_hardfork = info.version /\ info.vote >= current_hardfork

-----------------------------------------------------------------------------
(* Initialisation *)

\* The fork the mainnet schedule gives height h: the greatest fork whose
\* activation height is at most h.
ScheduledFork(h) ==
    CHOOSE hf \in HardForks :
        /\ ForkHeight(hf) <= h
        /\ \A g \in HardForks : ForkHeight(g) <= h => g <= hf

\* The votes a stored block can carry: decoded votes that passed
\* check_block_version_vote when the block was accepted.
StoredVotes(hf) == {v \in {FromVote(m) : m \in MinorVersions} : v >= hf}

\* The chain stores of height ch the cache may start from: the blocks the
\* cache reads, with the scheduled version and a vote the check accepted.
InitialChains(ch) ==
    LET heights == (IF ch > Window THEN ch - Window ELSE 0)..(ch - 1)
    IN  {c \in [heights -> [version : HardForks, vote : HardForks]] :
            \A h \in heights : /\ c[h].version = ScheduledFork(h)
                               /\ c[h].vote \in StoredVotes(c[h].version)}

\* HardForkState::init_from_chain_height(ch) on chain store c, when every
\* chain store call answers: the tally of the last `window` votes, the
\* version of block ch - 1, then check_set_new_hf.
InitFromChainHeight(c, ch) ==
    LET block_start == IF ch > Window THEN ch - Window ELSE 0
        v0          == GetVotesInRange(c, block_start, ch)
        hf          == c[ch - 1].version
        hfs         == CheckSetNewHf(hf, NextFork(hf), ch - 1, v0)
    IN  [current_hardfork |-> hfs.current, next_hardfork |-> hfs.next,
         votes |-> v0, last_height |-> ch - 1]

Init ==
    \E ch \in StartHeights : \E c \in InitialChains(ch) :
        LET hfs == InitFromChainHeight(c, ch)
        IN  /\ chain = c
            /\ votes = hfs.votes
            /\ last_height = hfs.last_height
            /\ current_hardfork = hfs.current_hardfork
            /\ next_hardfork = hfs.next_hardfork
            /\ lastCallFailed = FALSE
            /\ failures = 0

-----------------------------------------------------------------------------
(* new_block *)

\* Mutation of HeightsToRemove: the offsets start one short of the window.
HeightsToRemoveEarly(v, height) ==
    [i \in 1..(TotalVotes(v) - Window) |-> height - (Window + i - 2)]

\* The heights new_block evicts, in loop order: for each offset in
\* window..total_votes() (after the new vote is added), height - offset.
HeightsToRemove(v, height) ==
    [i \in 1..(TotalVotes(v) - Window) |-> height - (Window + i - 1)]

\* The tally after removing the votes of the given evicted heights.
RemoveVotesOf(v, heights) ==
    FoldLeft(LAMBDA acc, h : RemoveVoteForHf(acc, chain[h].vote), v, heights)

\* HardForkState::new_block(vote, height) where the first `fetched` chain
\* store calls of the eviction loop answer.  last_height and the new vote
\* are updated before the first await; when a call fails, `?` returns
\* before check_set_new_hf.
NewBlock(vote, height, fetched) ==
    LET added   == AddVoteForHf(votes, vote)
        evict   == HeightsToRemove(added, height)
        removed == RemoveVotesOf(added, SubSeq(evict, 1, fetched))
        hfs     == CheckSetNewHf(current_hardfork, next_hardfork, height,
                                 removed)
    IN  /\ last_height + 1 = height
        /\ fetched \in 0..Len(evict)
        /\ last_height' = height
        /\ votes' = removed
        \* The debug_assert_eq! on total_votes after the loop is a no-op in
        \* release builds; VotesForMatchesWindow implies it.
        /\ IF fetched = Len(evict)
              THEN /\ current_hardfork' = hfs.current
                   /\ next_hardfork' = hfs.next
                   /\ lastCallFailed' = FALSE
                   /\ UNCHANGED failures
              ELSE /\ lastCallFailed' = TRUE
                   /\ failures' = failures + 1
                   /\ UNCHANGED <<current_hardfork, next_hardfork>>

\* The validator: decode the header, check it against the current fork,
\* store the block and feed its vote to new_block.
AcceptBlock(fetched) ==
    /\ Cardinality(DOMAIN chain) < MaxChainLength
    /\ \E major \in MajorVersions, minor \in MinorVersions :
         LET info == FromMajorMinor(major, minor)
             h    == last_height + 1
         IN  /\ info # InvalidHFInfo
             /\ CheckBlockVersionVote(info)
             /\ chain' = chain @@ (h :> info)
             /\ NewBlock(info.vote, h, fetched)

\* The number of eviction fetches the next new_block makes.
Excess == IF TotalVotes(votes) + 1 > Window
          THEN TotalVotes(votes) + 1 - Window ELSE 0

\* new_block returns Ok: every eviction fetch answered.
AcceptBlockOk == AcceptBlock(Excess)

\* new_block returns a ChainStoreError from one of its eviction fetches.
AcceptBlockFailed ==
    /\ failures < MaxFailures
    /\ \E n \in 0..(Excess - 1) : AcceptBlock(n)

Next == AcceptBlockOk \/ AcceptBlockFailed

Spec == Init /\ [][Next]_vars

-----------------------------------------------------------------------------
(* Properties *)

\* The heights of the vote window after new_block(last_height).
WindowHeights ==
    (IF last_height + 1 > Window THEN last_height + 1 - Window ELSE 0)
        ..last_height

\* The state is well typed; in particular no HFVotes counter has gone
\* below zero (remove_vote_for_hf's u64 underflow).
TypeOK ==
    /\ current_hardfork \in HardForks
    /\ next_hardfork \in HardForks \cup {NoFork}
    /\ votes \in [HardForks -> Nat]
    /\ last_height \in Nat
    /\ lastCallFailed \in BOOLEAN
    /\ failures \in 0..MaxFailures

\* After every new_block that returned Ok (and after init), votes_for_hf(hf)
\* is the number of blocks among the last `window` whose vote is hf or a
\* later fork.  This covers the eviction loop's offsets, including the
\* catch-up of evictions an earlier failed new_block left undone, and the
\* upward roll-up of votes_for_hf.
VotesForMatchesWindow ==
    ~lastCallFailed =>
        \A hf \in HardForks :
            VotesForHf(votes, hf) =
                Cardinality({h \in WindowHeights : chain[h].vote >= hf})

\* After init and every new_block that returned Ok, current_hardfork is the
\* fork the schedule gives the next block (last_height + 1) and
\* next_hardfork is its successor: check_set_new_hf activates at
\* last_height + 1 reaching the fork height, not a block late, also in the
\* call after a failed one.  (Mainnet forks are at least 720 blocks apart,
\* so no call activates more than one.)
CurrentForkFollowsSchedule ==
    ~lastCallFailed =>
        /\ current_hardfork = ScheduledFork(last_height + 1)
        /\ next_hardfork = NextFork(current_hardfork)

\* Every block the validator accepted with check_block_version_vote carries
\* the version the schedule gives its height.
AcceptedVersionsFollowSchedule ==
    \A h \in DOMAIN chain : chain[h].version = ScheduledFork(h)

\* The spec (sections 5 and 6): a ChainStoreError is surfaced to the caller
\* with the cache state unchanged, so after a failed new_block the cache
\* still takes new_block for the same block once the chain store answers.  The code's
\* assert_eq!(last_height + 1, height) is checked against the last_height
\* the failed call already advanced.
FailedBlockRetriable ==
    lastCallFailed => last_height + 1 = Max(DOMAIN chain)

=============================================================================
