------------------------------ MODULE HardFork ------------------------------
(***************************************************************************)
(* The HardFork enumeration of consensus/src/hardforks.rs and its pure     *)
(* operations: decoding a header's major/minor version bytes, the          *)
(* successor of a fork, the vote threshold and the mainnet activation      *)
(* heights.  HardFork::Vn is #[repr(u8)] with discriminant n, so a fork is *)
(* the integer n.                                                          *)
(***************************************************************************)
EXTENDS Integers

HardForks == 1..16

\* The latest fork, the one unknown votes default to.
LatestFork == 16

\* Option::None for next_fork().
NoFork == 0

\* Err(ConsensusError::InvalidHardForkVersion).
InvalidVersion == -1

\* HardFork::from_version: a major version byte outside 1..16 is an error.
FromVersion(version) ==
    IF version \in HardForks THEN version ELSE InvalidVersion

\* HardFork::from_vote: 0 means V1, an unknown vote means the latest fork.
FromVote(vote) ==
    IF vote = 0 THEN 1
    ELSE IF FromVersion(vote) = InvalidVersion THEN LatestFork
    ELSE FromVersion(vote)

\* The Err of BlockHFInfo::from_major_minor.
InvalidHFInfo == [error |-> "InvalidHardForkVersion"]

\* BlockHFInfo::from_major_minor: a record, or the error of from_version.
FromMajorMinor(major_version, minor_version) ==
    IF FromVersion(major_version) = InvalidVersion THEN InvalidHFInfo
    ELSE [version |-> FromVersion(major_version),
          vote    |-> FromVote(minor_version)]

\* HardFork::next_fork: from_version(self + 1).ok().
NextFork(hf) ==
    IF FromVersion(hf + 1) = InvalidVersion THEN NoFork ELSE hf + 1

\* HardFork::fork_threshold: no Monero fork uses voting.
ForkThreshold(hf) == 0

\* HardFork::votes_needed: the threshold percentage of the window, rounded up.
VotesNeeded(hf, window) == (ForkThreshold(hf) * window + 99) \div 100

\* HardFork::mainnet_fork_height, indexed by fork.
MainnetForkHeights ==
    << 0, 1009827, 1141317, 1220516, 1288616, 1400000, 1546000, 1685555,
       1686275, 1788000, 1788720, 1978433, 2210000, 2210720, 2688888,
       2689608 >>

\* HardFork::fork_height on Network::Mainnet, the only network whose table
\* exists (stagenet_fork_height and testnet_fork_height are todo!()).
ForkHeight(hf) == MainnetForkHeights[hf]

\* HardFork::in_range: start <= hf < end.
InRange(hf, start, end) == start <= hf /\ hf < end

=============================================================================
