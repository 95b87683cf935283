------------------------------- MODULE HMPParams -------------------------------
(***************************************************************************)
(* The consensus parameters of the Hivemind Protocol (consensus/params.h,  *)
(* hmp/hmp_params.h), the identities, and the schedule they define.        *)
(***************************************************************************)
EXTENDS Integers, FiniteSets

CONSTANTS
    Keys,                   \* BLS identities
    Algos,                  \* 0 .. NUM_ALGOS - 1
    BroodOperators,         \* keys the masternode list maps to an active BroodNode
    HMPHeight,              \* activation of the protocol
    Stage2Height,           \* commitments open
    Stage3Height,           \* seals begin
    Stage4Height,           \* negative proofs begin
    DetHeight,              \* nHMPDeterministicSealHeight, 0 = never
    SealAlgoFixHeight,      \* nHMPSealAlgoFixHeight, 0 = never
    RearmHeight,            \* nHMPRearmHeight, 0 = never
    SealTrailingDepth,      \* nHMPSealTrailingDepth
    CommitmentOffset,       \* nHMPCommitmentOffset
    PrivilegeWindow,        \* nHMPPrivilegeWindow
    WarmupBlocks,           \* nHMPWarmupBlocks
    MinBlocksSolved,        \* nHMPMinBlocksSolved
    RecalibratedMinBlocks,  \* the threshold from nHMPSealAlgoFixHeight on
    DominanceCatchFloor,    \* nHMPDominanceCatchFloor
    ExtendedWindow,         \* nHMPDominanceCatchMaxLookback
    SealLongWindow,         \* SEAL_LONG_WINDOW
    ArmMinSealed, ArmMinElders, ArmMinDiversity, HoldMinElders

NoKey == "nokey"      \* a BLS key that is not IsValid()

ASSUME ParamsAssumption ==
    /\ IsFiniteSet(Keys) /\ NoKey \notin Keys
    /\ Algos \subseteq Nat
    /\ BroodOperators \subseteq Keys
    /\ HMPHeight \in Nat \ {0}
    /\ Stage2Height \in Nat /\ Stage3Height \in Nat /\ Stage4Height \in Nat
    /\ HMPHeight <= Stage2Height /\ Stage2Height <= Stage3Height
    /\ Stage3Height <= Stage4Height
    /\ DetHeight \in Nat /\ (DetHeight = 0 \/ Stage3Height <= DetHeight)
    /\ SealAlgoFixHeight \in Nat /\ RearmHeight \in Nat
    /\ SealTrailingDepth \in Nat /\ SealTrailingDepth < Stage3Height
    /\ CommitmentOffset \in Nat
    /\ PrivilegeWindow \in Nat \ {0}
    /\ ExtendedWindow \in Nat \ {0}
    /\ SealLongWindow \in Nat \ {0}
    /\ WarmupBlocks \in Nat

HMPActive(h) == h >= HMPHeight

GetHMPStage(h) ==
    CASE h < Stage2Height -> 1
      [] h >= Stage2Height /\ h < Stage3Height -> 2
      [] h >= Stage3Height /\ h < Stage4Height -> 3
      [] OTHER -> 4

IsDeterministicSealActive(h) == DetHeight > 0 /\ h >= DetHeight

IsHMPRearmActive(h) == RearmHeight > 0 /\ h >= RearmHeight

GetEffectiveMinBlocksSolved(h) ==
    IF SealAlgoFixHeight > 0 /\ h >= SealAlgoFixHeight
    THEN RecalibratedMinBlocks ELSE MinBlocksSolved

(* init.cpp constructs the registry with this age limit. *)
EvictionWindow == ExtendedWindow + PrivilegeWindow

Maximum(S) == CHOOSE x \in S : \A y \in S : y <= x

(* How far back RebuildHMPState replays. *)
MaxLookback ==
    Maximum({ExtendedWindow + PrivilegeWindow, PrivilegeWindow + WarmupBlocks,
             SealLongWindow, 2 * CommitmentOffset})

=============================================================================
