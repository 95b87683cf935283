-------------------------- MODULE CommitmentRegistry --------------------------
(***************************************************************************)
(* CHMPCommitmentRegistry (hmp/commitment.cpp): the height at which each   *)
(* identity first committed on the chain, by mining a block or by an       *)
(* explicit commitment in a coinbase.  m_heightIndex is the inverse of     *)
(* m_commitments and is not kept as separate state.                        *)
(***************************************************************************)
EXTENDS HMPParams

VARIABLE commitments    \* m_commitments, NotCommitted for an absent key

NotCommitted == -1

RegistryTypeOK == commitments \in [Keys -> Nat \cup {NotCommitted}]

RegistryInit == commitments = [k \in Keys |-> NotCommitted]

(* What the registry holds once the block at height h has been connected:   *)
(* a first commitment is recorded, a later one is ignored, and entries that *)
(* fell behind the eviction window are forgotten.                           *)
Committed(reg, h, miner, explicit) ==
    [k \in Keys |->
        IF reg[k] = NotCommitted /\ k \in explicit \cup {miner} THEN h ELSE reg[k]]

(* Mutant: an entry is kept one block longer than RebuildHMPState replays. *)
EvictOldLate(reg, h) ==
    [k \in Keys |-> IF h > EvictionWindow + 1 /\ reg[k] < h - EvictionWindow - 1
                    THEN NotCommitted ELSE reg[k]]

EvictOld(reg, h) ==
    [k \in Keys |-> IF h > EvictionWindow /\ reg[k] < h - EvictionWindow
                    THEN NotCommitted ELSE reg[k]]

RegistryBlockConnected(h, miner, explicit) ==
    commitments' = EvictOld(Committed(commitments, h, miner, explicit), h)

(* Mutant: the commitments of the disconnected block itself survive. *)
RegistryKeepsDisconnected(h) ==
    commitments' = [k \in Keys |-> IF commitments[k] > h THEN NotCommitted ELSE commitments[k]]

RegistryBlockDisconnected(h) ==
    commitments' = [k \in Keys |-> IF commitments[k] >= h THEN NotCommitted ELSE commitments[k]]

IsCommitted(reg, k, atHeight) ==
    \/ CommitmentOffset = 0
    \/ reg[k] # NotCommitted /\ atHeight - reg[k] >= CommitmentOffset

=============================================================================
