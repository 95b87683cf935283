-------------------------------- MODULE HMPState --------------------------------
(***************************************************************************)
(* How the node keeps the privilege tracker and the commitment registry in *)
(* step with its active chain (validation.cpp): ConnectBlock with its      *)
(* deferred mutations, DisconnectTip, RebuildHMPState, the rollforward of  *)
(* ReplayBlocks, and restart.                                              *)
(*                                                                         *)
(* A block is the part of it these modules read.  A chain is the sequence  *)
(* of blocks above genesis, so the block at height h is chain[h], and a    *)
(* block hash, which commits to all ancestors, is the chain ending in that *)
(* block.  ConnectBlock and RebuildHMPState run under cs_main; they are    *)
(* several steps here because the loop of the rebuild reads the disk block *)
(* by block, can fail at each, and a crash can strike between any two.     *)
(***************************************************************************)
EXTENDS PrivilegeTracker, CommitmentRegistry

CONSTANTS
    Blocks,         \* the blocks a peer or miner may offer
    MaxHeight,      \* bound on the length of a chain
    MaxRestarts,    \* bound on the number of restarts
    NoBlock,        \* no block is being connected
    NoAnchor        \* the null hash

VARIABLES
    chain,      \* m_chain
    anchor,     \* m_hmp_state_anchor, the chain ending in the anchored block
    pc,         \* what the thread holding cs_main is doing
    pending,    \* the block being connected, NoBlock otherwise
    replay,     \* next height of a rebuild or rollforward loop
    restarts    \* restarts so far

nodeVars == <<chain, anchor, pc, pending, replay, restarts>>
vars     == <<trackerVars, commitments, nodeVars>>

Block == [algo : Algos, miner : Keys \cup {NoKey}, commits : SUBSET Keys, seal : Seals]

ASSUME StateAssumption ==
    /\ Blocks \subseteq Block
    /\ MaxHeight \in Nat /\ MaxRestarts \in Nat
    /\ NoBlock \notin Block /\ NoAnchor \notin Seq(Block)

TypeOK ==
    /\ TrackerTypeOK /\ RegistryTypeOK
    /\ chain \in Seq(Block)
    /\ anchor \in Seq(Block) \cup {NoAnchor}
    /\ pc \in {"idle", "rebuilding", "connecting", "rollforward", "halted"}
    /\ pending \in Block \cup {NoBlock}
    /\ replay \in Nat /\ restarts \in Nat

Init ==
    /\ TrackerInit /\ RegistryInit
    /\ chain = <<>> /\ anchor = NoAnchor
    /\ pc = "idle" /\ pending = NoBlock /\ replay = 0 /\ restarts = 0

-----------------------------------------------------------------------------
(* The tracker entry a block leaves behind *)

SealedAlgoOf(c, h) ==
    IF c[h].seal = NoSeal \/ h <= SealTrailingDepth THEN NoAlgo
    ELSE c[h - SealTrailingDepth].algo

GetVRFTierMultiplier(tier) ==
    CASE tier = "BROOD" -> 4 [] tier = "ELDER" -> 3 [] tier = "NEW" -> 1 [] OTHER -> 0

(* Signers that count towards a seal embedded at height h, for a registry.  *)
FilterSealSigners(reg, seal, h) ==
    LET sealedHeight == IF h < SealTrailingDepth THEN 0 ELSE h - SealTrailingDepth
        keeps(k) == LET tier == GetTier(k, seal[k].algo) IN
            /\ IsCommitted(reg, k, sealedHeight)
            /\ tier # "UNKNOWN"
            /\ IsHMPRearmActive(h) => GetVRFTierMultiplier(tier) >= seal[k].vrf
    IN  {k \in Signers(seal) : keeps(k)}

Restricted(seal, S) == [k \in S |-> seal[k]]

(* The signers credited to the window: the raw on-chain set from DetHeight  *)
(* on, the filtered set before it, none before seals begin.                 *)
CreditedSeal(reg, seal, h) ==
    CASE GetHMPStage(h) < 3 -> NoSeal
      [] GetHMPStage(h) >= 3 /\ IsDeterministicSealActive(h) -> seal
      [] OTHER -> Restricted(seal, FilterSealSigners(reg, seal, h))

TrackerEntry(reg, c, h) ==
    Entry(h, c[h].algo, c[h].miner, CreditedSeal(reg, c[h].seal, h),
          IF GetHMPStage(h) < 3 THEN NoAlgo ELSE SealedAlgoOf(c, h))

(* The block at height h of chain c folded into both trackers, as           *)
(* RebuildHMPState and RollforwardBlock do: the registry first, so the      *)
(* filter reads the registry that already holds this block.                 *)
FoldBlock(c, h) ==
    IF HMPActive(h) /\ GetHMPStage(h) >= 2
    THEN /\ RegistryBlockConnected(h, c[h].miner, c[h].commits)
         /\ PrivilegeBlockConnected(TrackerEntry(commitments', c, h))
    ELSE UNCHANGED <<trackerVars, commitments>>

-----------------------------------------------------------------------------
(* RebuildHMPState *)

(* Mutant: the replay covers the privilege window only. *)
RebuildStartShort(n) ==
    IF n - PrivilegeWindow >= HMPHeight THEN n - PrivilegeWindow + 1 ELSE HMPHeight

RebuildStart(n) ==
    IF n - MaxLookback > HMPHeight THEN n - MaxLookback ELSE HMPHeight

fStrict(c) == IsDeterministicSealActive(Len(c) + 1)

(* Entry of RebuildHMPState for target c: the privilege tracker is cleared, *)
(* the registry is not.                                                     *)
StartRebuild(c) ==
    /\ pc' = "rebuilding"
    /\ replay' = RebuildStart(Len(c))
    /\ PrivilegeClear

(* Mutant: a stage 1 block is skipped before the height is advanced. *)
RebuildStepStuck ==
    /\ pc = "rebuilding" /\ replay <= Len(chain)
    /\ FoldBlock(chain, replay)
    /\ replay' = IF GetHMPStage(replay) = 1 THEN replay ELSE replay + 1
    /\ UNCHANGED <<chain, anchor, pc, pending, restarts>>

RebuildStep ==
    /\ pc = "rebuilding" /\ replay <= Len(chain)
    /\ FoldBlock(chain, replay)
    /\ replay' = replay + 1
    /\ UNCHANGED <<chain, anchor, pc, pending, restarts>>

(* ReadBlockFromDisk fails: a consensus rebuild halts the node, an older    *)
(* one skips the block.                                                     *)
RebuildReadFails ==
    /\ pc = "rebuilding" /\ replay <= Len(chain) /\ GetHMPStage(replay) >= 2
    /\ IF fStrict(chain)
       THEN pc' = "halted" /\ UNCHANGED replay
       ELSE replay' = replay + 1 /\ UNCHANGED pc
    /\ UNCHANGED <<trackerVars, commitments, chain, anchor, pending, restarts>>

RebuildDone ==
    /\ pc = "rebuilding" /\ replay > Len(chain)
    /\ anchor' = chain
    /\ pc' = IF pending = NoBlock THEN "idle" ELSE "connecting"
    /\ UNCHANGED <<trackerVars, commitments, chain, pending, replay, restarts>>

-----------------------------------------------------------------------------
(* ConnectBlock, split where the rebuild loop runs *)

NeedsRebuild(h) ==
    /\ IsDeterministicSealActive(h) /\ anchor # chain
    /\ HMPActive(h - 1)

ConnectBlock(b) ==
    LET h == Len(chain) + 1 IN
    /\ pc = "idle" /\ h <= MaxHeight
    /\ pending' = b
    /\ IF NeedsRebuild(h) THEN StartRebuild(chain)
       ELSE /\ pc' = "connecting"
            /\ IF h = HMPHeight THEN PrivilegeClear ELSE UNCHANGED trackerVars
            /\ UNCHANGED replay
    /\ UNCHANGED <<commitments, chain, anchor, restarts>>

(* Stage 3 requires an identity in the coinbase. *)
HMPValid(b, h) == GetHMPStage(h) >= 3 => b.miner # NoKey

(* The deferred mutations.  The entry was computed before them, from the    *)
(* registry without this block.                                             *)
ApplyMutations(c, h) ==
    /\ IF HMPActive(h) /\ GetHMPStage(h) >= 2
       THEN /\ RegistryBlockConnected(h, c[h].miner, c[h].commits)
            /\ PrivilegeBlockConnected(TrackerEntry(commitments, c, h))
       ELSE UNCHANGED <<trackerVars, commitments>>
    /\ anchor' = c

(* All checks passed, and the block becomes the tip. *)
ApplyDeferred ==
    LET h == Len(chain) + 1
        c == Append(chain, pending)
    IN  /\ pc = "connecting" /\ HMPValid(pending, h)
        /\ ApplyMutations(c, h)
        /\ chain' = c
        /\ pc' = "idle" /\ pending' = NoBlock
        /\ UNCHANGED <<replay, restarts>>

(* The undo data, an index or the Sapling state cannot be written: the      *)
(* trackers have the block, the chain has not, and the node shuts down.     *)
PersistFails ==
    LET h == Len(chain) + 1
        c == Append(chain, pending)
    IN  /\ pc = "connecting" /\ HMPValid(pending, h)
        /\ ApplyMutations(c, h)
        /\ pc' = "halted" /\ pending' = NoBlock
        /\ UNCHANGED <<chain, replay, restarts>>

(* A check of ConnectBlock rejects the block. *)
RejectBlock ==
    /\ pc = "connecting"
    /\ pc' = "idle" /\ pending' = NoBlock
    /\ UNCHANGED <<trackerVars, commitments, chain, anchor, replay, restarts>>

(* Mutant: the anchor is not invalidated. *)
DisconnectKeepsAnchor(h) ==
    /\ RegistryBlockDisconnected(h)
    /\ PrivilegeBlockDisconnected(h)
    /\ UNCHANGED anchor

DisconnectTrackers(h) ==
    /\ RegistryBlockDisconnected(h)
    /\ PrivilegeBlockDisconnected(h)
    /\ anchor' = NoAnchor

DisconnectTip ==
    LET h == Len(chain) IN
    /\ pc = "idle" /\ h > 0
    /\ DisconnectTrackers(h)
    /\ chain' = SubSeq(chain, 1, h - 1)
    /\ UNCHANGED <<pc, pending, replay, restarts>>

(* FlushStateToDisk fails between the trackers and the move of the tip. *)
DisconnectFlushFails ==
    /\ pc = "idle" /\ chain # <<>>
    /\ DisconnectTrackers(Len(chain))
    /\ pc' = "halted"
    /\ UNCHANGED <<chain, pending, replay, restarts>>

-----------------------------------------------------------------------------
(* Restart: the coins database is at a block the node had reached, possibly *)
(* with blocks above height j to roll forward, and both trackers are new.   *)
(* A tip on a branch the node has left since adds nothing: the restart      *)
(* forgets all that happened after that tip.  The Clear of RollforwardBlock *)
(* at the activation height finds the tracker empty.                        *)
StartupRebuild(c) ==
    IF HMPActive(Len(c)) THEN pc' = "rebuilding" /\ replay' = RebuildStart(Len(c))
    ELSE pc' = "idle" /\ UNCHANGED replay

Restart(n, j) ==
    /\ restarts < MaxRestarts
    /\ restarts' = restarts + 1
    /\ chain' = SubSeq(chain, 1, n)
    /\ anchor' = NoAnchor /\ pending' = NoBlock
    /\ PrivilegeClear
    /\ commitments' = [k \in Keys |-> NotCommitted]
    /\ IF j < n THEN pc' = "rollforward" /\ replay' = j + 1
       ELSE StartupRebuild(SubSeq(chain, 1, n))

RollforwardBlock ==
    /\ pc = "rollforward" /\ replay <= Len(chain)
    /\ FoldBlock(chain, replay)
    /\ replay' = replay + 1
    /\ UNCHANGED <<chain, anchor, pc, pending, restarts>>

(* The block cannot be read: startup is abandoned. *)
RollforwardReadFails ==
    /\ pc = "rollforward" /\ replay <= Len(chain)
    /\ pc' = "halted"
    /\ UNCHANGED <<trackerVars, commitments, chain, anchor, pending, replay, restarts>>

RollforwardDone ==
    /\ pc = "rollforward" /\ replay > Len(chain)
    /\ StartupRebuild(chain)
    /\ IF HMPActive(Len(chain)) THEN PrivilegeClear ELSE UNCHANGED trackerVars
    /\ UNCHANGED <<commitments, chain, anchor, pending, restarts>>

-----------------------------------------------------------------------------

Loop == RebuildStep \/ RebuildDone \/ RollforwardBlock \/ RollforwardDone

Next ==
    \/ \E b \in Blocks : ConnectBlock(b)
    \/ ApplyDeferred \/ PersistFails \/ RejectBlock
    \/ DisconnectTip \/ DisconnectFlushFails
    \/ RebuildStep \/ RebuildReadFails \/ RebuildDone
    \/ \E n \in 0..Len(chain) : \E j \in 0..n : Restart(n, j)
    \/ RollforwardBlock \/ RollforwardReadFails \/ RollforwardDone

Spec == Init /\ [][Next]_vars

(* The loops run in the thread that holds cs_main and never wait on another *)
(* thread; ConnectBlock itself returns.                                     *)
FairSpec == Spec /\ WF_vars(Loop) /\ WF_vars(ApplyDeferred \/ RejectBlock)

-----------------------------------------------------------------------------
(* Properties *)

(* What the chain alone says the window should hold for height h. *)
RawEntry(h) ==
    Entry(h, chain[h].algo, chain[h].miner, chain[h].seal, SealedAlgoOf(chain, h))

(* The three windows agree with the chain on the heights from lo to n. *)
WindowsAgree(lo, n) ==
    /\ \A h \in lo..n : n - h < PrivilegeWindow =>
          /\ n - h < Len(window)
          /\ window[Len(window) - (n - h)] = RawEntry(h)
    /\ \A h \in lo..n : n - h < SealLongWindow =>
          /\ n - h < Len(sealLong)
          /\ sealLong[Len(sealLong) - (n - h)] = LongPart(RawEntry(h))
    /\ \A h \in lo..n : n - h < ExtendedWindow =>
          /\ n - h < Len(extended)
          /\ extended[Len(extended) - (n - h)] = ExtendedPart(RawEntry(h))

(* Whenever ConnectBlock is about to weigh a seal from DetHeight on, every  *)
(* window holds exactly what the chain says for the heights from DetHeight  *)
(* on: no reorg, rejected block, restart or interrupted flush changes the   *)
(* Elder set, the tiers or the arming decision the block is weighed with.   *)
WeighedOnChainState ==
    pc = "connecting" /\ IsDeterministicSealActive(Len(chain) + 1)
        => WindowsAgree(DetHeight, Len(chain))

(* Every commitment the registry vouches for is on the active chain at the  *)
(* height it records, so a reorg cannot leave a key committed by a block    *)
(* that is no longer part of the chain.                                     *)
CommitmentsOnChain ==
    pc # "halted" => \A k \in Keys : commitments[k] # NotCommitted =>
        /\ commitments[k] \in 1..Len(chain)
        /\ k \in chain[commitments[k]].commits \cup {chain[commitments[k]].miner}

(* The registry of a node restarted at the tip: the first commitment of     *)
(* each key that the replay sees.  Exact where MaxLookback = EvictionWindow,*)
(* as on every network: nothing seen by the replay is evicted by it.        *)
ColdRegistry ==
    [k \in Keys |->
        LET seen == {h \in RebuildStart(Len(chain))..Len(chain) :
                        /\ GetHMPStage(h) >= 2
                        /\ k \in chain[h].commits \cup {chain[h].miner}}
        IN  IF seen = {} THEN NotCommitted
            ELSE CHOOSE h \in seen : \A g \in seen : h <= g]

(* The comment on FilterSealSigners: it is used on every path "to ensure    *)
(* that nSealWeight / privilege updates are computed from the same filtered *)
(* signer set regardless of code path".  A node that stayed up and a node   *)
(* restarted at the parent keep the same signers of the block being weighed.*)
SameFilterAfterRestart ==
    pc = "connecting" /\ IsDeterministicSealActive(Len(chain) + 1) =>
        LET h == Len(chain) + 1 IN
        FilterSealSigners(commitments, pending.seal, h)
            = FilterSealSigners(ColdRegistry, pending.seal, h)

(* One half of it holds: a signer the running node keeps is kept after the  *)
(* restart as well.  The registry never vouches for a commitment older than *)
(* the replay reaches, so a restart adds signers and takes none away.       *)
RestartKeepsSigners ==
    pc = "connecting" /\ IsDeterministicSealActive(Len(chain) + 1) =>
        LET h == Len(chain) + 1 IN
        FilterSealSigners(commitments, pending.seal, h)
            \subseteq FilterSealSigners(ColdRegistry, pending.seal, h)

(* An anchor names the chain or nothing: m_hmp_state_anchor never claims    *)
(* that the trackers reflect a block that is not the tip.                   *)
AnchorIsTip == pc # "halted" => anchor \in {chain, NoAnchor}

(* Startup and every connect end: the replay loops terminate, in a decision *)
(* or in a halt.                                                            *)
LoopsEnd == pc \in {"rebuilding", "rollforward", "connecting"} ~> pc \in {"idle", "halted"}

=============================================================================
