------------------------------ MODULE SealWeight ------------------------------
(***************************************************************************)
(* The weight ConnectBlock gives a block for the seal it embeds, in basis  *)
(* points (hmp/chain_weight.cpp, hmp/negative_proof.cpp and the ladder in  *)
(* validation.cpp), read from the trackers of HMPState at the moment the   *)
(* pending block is weighed.  Weighing changes no tracker, so this module  *)
(* adds operators and no actions.                                          *)
(***************************************************************************)
EXTENDS HMPState

AtMost(x, bound)  == IF x < bound THEN x ELSE bound
AtLeast(x, bound) == IF x > bound THEN x ELSE bound

(* The share of Elders, in percent, that has to sign. *)
GetRequiredAgreement(totalElders) ==
    CASE totalElders <= 1 -> 0
      [] totalElders = 2 -> 100
      [] totalElders = 3 -> 66
      [] totalElders \in 4..5 -> 75
      [] OTHER -> 80

RequiredCount(elderCount) ==
    AtLeast((elderCount * GetRequiredAgreement(elderCount) + 99) \div 100, 1)

(* All Elders present, and a quorum of them. *)
FullMultiplier(present, elderCount) == AtMost(15000 + (present * 3000) \div elderCount, 18000)
QuorumMultiplier(present, required, elderCount) ==
    12000 + ((present - required) * 3000) \div (elderCount - required)

BaseMultiplier(present, elderCount) ==
    IF present >= elderCount THEN FullMultiplier(present, elderCount)
    ELSE IF present >= RequiredCount(elderCount)
         THEN QuorumMultiplier(present, RequiredCount(elderCount), elderCount)
         ELSE 10000

ElderTiers == {"ELDER", "BROOD"}

(* The algorithms for which a signer of one of these tiers signed. *)
AlgosOfTier(seal, tiers) ==
    {seal[k].algo : k \in {k \in Signers(seal) : GetTier(k, seal[k].algo) \in tiers}}

(* Mutant: a quorum of Elders that is not complete counts as an absence. *)
MultiplierAllOrNothing(seal, blockAlgo) ==
    IF Cardinality(GetElderSet(blockAlgo)) <= 1 \/ seal = NoSeal THEN 10000
    ELSE IF GetElderSet(blockAlgo) \subseteq Signers(seal) THEN 18000 ELSE 5000

PresentElders(seal, blockAlgo) ==
    {k \in GetElderSet(blockAlgo) : k \in Signers(seal) /\ seal[k].algo = blockAlgo}

(* No Elder of any algorithm implies none of this one. *)
ComputeSealMultiplier(seal, blockAlgo) ==
    LET elderCount     == Cardinality(GetElderSet(blockAlgo))
        crossAlgoBonus == AtMost(500 * Cardinality(AlgosOfTier(seal, ElderTiers) \ {blockAlgo}), 1500)
        broodBonus     == AtMost(300 * Cardinality(AlgosOfTier(seal, {"BROOD"})), 1200)
    IN  IF seal = NoSeal \/ elderCount <= 1 THEN 10000
        ELSE BaseMultiplier(Cardinality(PresentElders(seal, blockAlgo)), elderCount)
             + crossAlgoBonus + broodBonus

(* The share of signers that no algorithm's privileged set contains. *)
IsStranger(k) == \A a \in Algos : k \notin GetPrivilegedSet(a)
Strangers(seal) == {k \in Signers(seal) : IsStranger(k)}

UnknownBps(seal) ==
    IF seal = NoSeal THEN 0
    ELSE (Cardinality(Strangers(seal)) * 10000) \div Cardinality(Signers(seal))

(* Mutant: the ladder between half and the required share runs downwards. *)
NegativeProofReversed(seal, blockAlgo) ==
    LET elderCount  == Cardinality(GetElderSet(blockAlgo))
        requiredBps == 100 * GetRequiredAgreement(elderCount)
        presentBps  == (Cardinality(PresentElders(seal, blockAlgo)) * 10000) \div elderCount
    IN  IF elderCount = 0 \/ requiredBps = 0 \/ presentBps < 5000 THEN 10000
        ELSE IF presentBps >= requiredBps THEN 10000 ELSE 5000

EvaluateNegativeProof(seal, blockAlgo) ==
    LET elderCount  == Cardinality(GetElderSet(blockAlgo))
        requiredBps == 100 * GetRequiredAgreement(elderCount)
        presentBps  == (Cardinality(PresentElders(seal, blockAlgo)) * 10000) \div elderCount
        unknownBps  == UnknownBps(seal)
    IN  IF elderCount = 0 \/ requiredBps = 0 THEN 10000
        ELSE CASE unknownBps > 5000 -> 1000
               [] unknownBps <= 5000 /\ presentBps >= requiredBps ->
                      IF unknownBps > 3000 /\ elderCount >= 4
                      THEN AtLeast(10000 - unknownBps, 5000) ELSE 10000
               [] unknownBps <= 5000 /\ presentBps < requiredBps /\ presentBps < 5000 -> 1000
               [] OTHER -> AtMost(5000 + ((presentBps - 5000) * 5000) \div (requiredBps - 5000), 10000)

EvaluateMannequinPenalty(seal) == IF UnknownBps(seal) > 5000 THEN 1000 ELSE 10000

(* nSealedAlgo: the algorithm whose Elders a seal in block h of c is held to. *)
SealedAlgo(c, h) ==
    IF SealAlgoFixHeight > 0 /\ h >= SealAlgoFixHeight THEN c[h - SealTrailingDepth].algo
    ELSE c[h].algo

(* The ladder in force from RearmHeight on: seal is filtered, raw is not. *)
RearmWeight(raw, seal, algo) ==
    LET fArmed  == IsPenaltyArmed(algo)
        signers == Cardinality(Signers(seal))
        base    == AtMost(ComputeSealMultiplier(seal, algo), IF fArmed THEN 15000 ELSE 12000)
    IN  CASE signers = 0 -> IF fArmed THEN 6667 ELSE 10000
          [] signers = 1 -> 10000
          [] OTHER -> (base * EvaluateMannequinPenalty(raw)) \div 10000

(* The ladder before it. *)
LegacyWeight(seal, algo, stage) ==
    LET multiplier == IF Cardinality(Signers(seal)) = 1 THEN 10000
                      ELSE ComputeSealMultiplier(seal, algo)
    IN  IF stage < 4 THEN multiplier
        ELSE (AtMost(multiplier, 20000) * AtMost(EvaluateNegativeProof(seal, algo), 20000)) \div 10000

(* nSealWeight of the block at height h of chain c, with raw for its seal. *)
nSealWeight(c, h, raw) ==
    LET seal == Restricted(raw, FilterSealSigners(commitments, raw, h)) IN
    IF ~HMPActive(h) \/ GetHMPStage(h) < 3 THEN 10000
    ELSE IF IsHMPRearmActive(h) THEN RearmWeight(raw, seal, SealedAlgo(c, h))
         ELSE LegacyWeight(seal, SealedAlgo(c, h), GetHMPStage(h))

-----------------------------------------------------------------------------
(* Properties.  Each compares seals the pending block could have carried,   *)
(* weighed on the same trackers.                                            *)

Height  == Len(chain) + 1
Weight(raw) == nSealWeight(Append(chain, pending), Height, raw)

(* ConnectBlock, on the ladder from RearmHeight on: "Monotone: a valid seal *)
(* never weighs less than no seal (mannequin fraud is the deliberate,       *)
(* provable exception)", whoever its signers are, whatever the filter keeps *)
(* of them and whether or not the penalty is armed.                         *)
SealNeverPenalised ==
    pc = "connecting" /\ IsHMPRearmActive(Height) /\ UnknownBps(pending.seal) <= 5000
        => Weight(pending.seal) >= Weight(NoSeal)

(* The seal with the signature of one more key. *)
Joined(seal, k, sig) ==
    [x \in Signers(seal) \cup {k} |-> IF x = k THEN sig ELSE seal[x]]

(* One more signature of a key some algorithm knows never lowers the weight *)
(* of a seal that strangers do not dominate: whichever ladder, tier bonus,  *)
(* filter decision or penalty step the seal is at, and whatever the key     *)
(* signed for, a miner gains nothing by leaving out a share it received.    *)
SignerNeverHurts ==
    pc = "connecting" /\ UnknownBps(pending.seal) <= 5000 =>
        \A k \in Keys \ Signers(pending.seal), sig \in Signature :
            ~IsStranger(k) => Weight(Joined(pending.seal, k, sig)) >= Weight(pending.seal)

=============================================================================
