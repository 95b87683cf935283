--------------------------- MODULE SealWeightProofs ---------------------------
(***************************************************************************)
(* The seal-weight ladder, for all parameters: on the ladder from          *)
(* RearmHeight on no seal weighs less than no seal, the multiplier the     *)
(* ladder starts from stays between 10000 and 20700, and one more known    *)
(* signer never makes a seal lighter.                                      *)
(***************************************************************************)
EXTENDS SealWeight, HMPStateProofs, FiniteSetTheorems, TLAPS

(* x is a natural number between a and b.  (The provers enumerate a..b.) *)
Between(x, a, b) == x \in Nat /\ a <= x /\ x <= b

(* A quotient of a natural number is a natural number. *)
LEMMA QuotientNat ==
    ASSUME NEW x \in Nat, NEW y \in Nat, y > 0
    PROVE  x \div y \in Nat
BY SMT

LEMMA RequiredNat ==
    ASSUME NEW n \in Nat
    PROVE  RequiredCount(n) \in Nat
<1>1. GetRequiredAgreement(n) \in {0, 100, 66, 75, 80}
  BY SMT DEF GetRequiredAgreement
<1>2. n * GetRequiredAgreement(n) + 99 \in Nat
  BY <1>1, SMT
<1>3. (n * GetRequiredAgreement(n) + 99) \div 100 \in Nat
  BY <1>2, QuotientNat, SMT
<1> QED
  BY <1>3, SMT DEF RequiredCount, AtLeast

LEMMA FullRange ==
    ASSUME NEW present \in Nat, NEW n \in Nat, n > 0
    PROVE  Between(FullMultiplier(present, n), 15000, 18000)
<1> DEFINE q == (present * 3000) \div n
<1>1. present * 3000 \in Nat
  BY SMT
<1>2. q \in Nat
  BY <1>1, QuotientNat
<1>3. FullMultiplier(present, n) = AtMost(15000 + q, 18000)
  BY DEF FullMultiplier
<1> HIDE DEF q
<1> QED
  BY <1>2, <1>3, SMT DEF AtMost, Between

LEMMA QuorumRange ==
    ASSUME NEW present \in Nat, NEW required \in Nat, NEW n \in Nat,
           required <= present, present < n
    PROVE  Between(QuorumMultiplier(present, required, n), 12000, 15000)
<1> DEFINE a == (present - required) * 3000
           r == n - required
           q == a \div r
<1>1. a \in Nat /\ r \in Nat /\ r > 0 /\ a < r * 3000
  BY SMT
<1>2. QuorumMultiplier(present, required, n) = 12000 + q
  BY DEF QuorumMultiplier
<1> HIDE DEF a, r
<1>3. q \in Nat
  BY <1>1, QuotientNat
<1>4. q <= 3000
  BY <1>1, SMT
<1> HIDE DEF q
<1> QED
  BY <1>2, <1>3, <1>4, SMT DEF Between

(* BaseMultiplier never falls below the neutral weight and never exceeds    *)
(* the 1.8x of a full set of Elders.                                        *)
LEMMA BaseRange ==
    ASSUME NEW present \in Nat, NEW n \in Nat, n > 1
    PROVE  Between(BaseMultiplier(present, n), 10000, 18000)
<1>1. RequiredCount(n) \in Nat
  BY RequiredNat
<1>2. CASE present >= n
  <2>1. Between(FullMultiplier(present, n), 15000, 18000)
    BY FullRange, SMT
  <2> QED
    BY <1>2, <2>1, SMT DEF BaseMultiplier, Between
<1>3. CASE present < n /\ present >= RequiredCount(n)
  <2>1. Between(QuorumMultiplier(present, RequiredCount(n), n), 12000, 15000)
    BY <1>1, <1>3, QuorumRange, SMT
  <2> QED
    BY <1>3, <2>1, SMT DEF BaseMultiplier, Between
<1>4. CASE present < n /\ ~(present >= RequiredCount(n))
  BY <1>4, <1>1, SMT DEF BaseMultiplier, Between
<1> QED
  BY <1>1, <1>2, <1>3, <1>4, SMT

(* The keys of a seal and what is counted among them are finite. *)
LEMMA SealFinite ==
    ASSUME NEW seal \in Seals, NEW algo \in Algos, NEW tiers
    PROVE  /\ Cardinality(GetElderSet(algo)) \in Nat
           /\ Cardinality(PresentElders(seal, algo)) \in Nat
           /\ IsFiniteSet(AlgosOfTier(seal, tiers))
<1>1. Signers(seal) \subseteq Keys
  BY DEF Seals, Signers
<1>2. GetElderSet(algo) \subseteq Keys
  BY Zenon DEF GetElderSet, OrganicElders, Backfill
<1>3. IsFiniteSet(GetElderSet(algo)) /\ IsFiniteSet(PresentElders(seal, algo))
  <2>1. PresentElders(seal, algo) \subseteq Keys
    BY <1>2 DEF PresentElders
  <2> QED
    BY <1>2, <2>1, FS_Subset, ParamsAssumption
<1>4. IsFiniteSet(AlgosOfTier(seal, tiers))
  <2> DEFINE S == {k \in Signers(seal) : GetTier(k, seal[k].algo) \in tiers}
             f == [k \in S |-> seal[k].algo]
  <2>1. IsFiniteSet(S)
    BY <1>1, FS_Subset, ParamsAssumption
  <2>2. AlgosOfTier(seal, tiers) = {f[k] : k \in S}
    BY DEF AlgosOfTier
  <2> HIDE DEF S, f
  <2>3. f \in Surjection(S, {f[k] : k \in S})
    BY DEF f, Surjection
  <2>4. IsFiniteSet({f[k] : k \in S})
    BY <2>1, <2>3, FS_Surjection
  <2> QED
    BY <2>2, <2>4
<1> QED
  BY <1>3, <1>4, FS_CardinalityType

(* ComputeSealMultiplier never penalises, and its largest value is 20700,   *)
(* above the 20000 at which ConnectBlock clamps it.                         *)
THEOREM MultiplierRange ==
    ASSUME NEW seal \in Seals, NEW algo \in Algos
    PROVE  Between(ComputeSealMultiplier(seal, algo), 10000, 20700)
<1> DEFINE n == Cardinality(GetElderSet(algo))
           p == Cardinality(PresentElders(seal, algo))
           x == Cardinality(AlgosOfTier(seal, ElderTiers) \ {algo})
           y == Cardinality(AlgosOfTier(seal, {"BROOD"}))
<1>1. n \in Nat /\ p \in Nat
  BY SealFinite
<1>2. x \in Nat
  <2>1. IsFiniteSet(AlgosOfTier(seal, ElderTiers))
    BY SealFinite
  <2>2. IsFiniteSet(AlgosOfTier(seal, ElderTiers) \ {algo})
    BY Zenon, <2>1, FS_Difference
  <2> QED
    BY <2>2, FS_CardinalityType
<1>3. y \in Nat
  BY SealFinite, FS_CardinalityType
<1>4. ComputeSealMultiplier(seal, algo) =
        IF seal = NoSeal \/ n <= 1 THEN 10000
        ELSE BaseMultiplier(p, n) + AtMost(500 * x, 1500) + AtMost(300 * y, 1200)
  BY DEF ComputeSealMultiplier
<1> HIDE DEF n, p, x, y
<1>5. CASE seal = NoSeal \/ n <= 1
  BY <1>4, <1>5, SMT DEF Between
<1>6. CASE ~(seal = NoSeal \/ n <= 1)
  <2>1. Between(BaseMultiplier(p, n), 10000, 18000)
    BY <1>1, <1>6, BaseRange, SMT
  <2>2. Between(AtMost(500 * x, 1500), 0, 1500) /\ Between(AtMost(300 * y, 1200), 0, 1200)
    BY <1>2, <1>3, SMT DEF AtMost, Between
  <2> QED
    BY <1>4, <1>6, <2>1, <2>2, SMT DEF Between
<1> QED
  BY <1>5, <1>6

-----------------------------------------------------------------------------
(* The filter leaves a seal, and nothing of no seal. *)
LEMMA FilteredSeal ==
    ASSUME NEW raw \in Seals, NEW reg, NEW h
    PROVE  Restricted(raw, FilterSealSigners(reg, raw, h)) \in Seals
<1>1. Signers(raw) \in SUBSET Keys /\ raw \in [Signers(raw) -> Signature]
  BY DEF Seals, Signers
<1>2. FilterSealSigners(reg, raw, h) \subseteq Signers(raw)
  BY Zenon DEF FilterSealSigners
<1>3. Restricted(raw, FilterSealSigners(reg, raw, h)) \in [FilterSealSigners(reg, raw, h) -> Signature]
  BY <1>1, <1>2 DEF Restricted
<1> QED
  BY <1>1, <1>2, <1>3 DEF Seals

LEMMA FilteredNothing ==
    ASSUME NEW reg, NEW h
    PROVE  Cardinality(Signers(Restricted(NoSeal, FilterSealSigners(reg, NoSeal, h)))) = 0
<1>1. FilterSealSigners(reg, NoSeal, h) \subseteq Signers(NoSeal)
  BY Zenon DEF FilterSealSigners
<1>2. Signers(NoSeal) = {}
  BY DEF NoSeal, Signers
<1>3. Signers(Restricted(NoSeal, FilterSealSigners(reg, NoSeal, h))) = {}
  BY <1>1, <1>2 DEF Restricted, Signers
<1> QED
  BY <1>3, FS_EmptySet

LEMMA StrangersFinite ==
    ASSUME NEW seal \in Seals
    PROVE  /\ IsFiniteSet(Signers(seal)) /\ IsFiniteSet(Strangers(seal))
           /\ Cardinality(Signers(seal)) \in Nat /\ Cardinality(Strangers(seal)) \in Nat
           /\ seal # NoSeal => Cardinality(Signers(seal)) > 0
<1>1. Signers(seal) \subseteq Keys /\ Strangers(seal) \subseteq Signers(seal)
  BY DEF Seals, Signers, Strangers
<1>2. IsFiniteSet(Signers(seal)) /\ IsFiniteSet(Strangers(seal))
  BY <1>1, FS_Subset, ParamsAssumption
<1>3. Cardinality(Signers(seal)) \in Nat /\ Cardinality(Strangers(seal)) \in Nat
  BY <1>2, FS_CardinalityType
<1>4. ASSUME seal # NoSeal PROVE Cardinality(Signers(seal)) # 0
  <2>1. Signers(seal) # {}
    BY Zenon, <1>4 DEF Seals, Signers, NoSeal
  <2> QED
    BY <1>2, <2>1, FS_EmptySet
<1> QED
  BY <1>2, <1>3, <1>4, SMT

LEMMA UnknownNat ==
    ASSUME NEW seal \in Seals
    PROVE  UnknownBps(seal) \in Nat
<1> DEFINE u == Cardinality(Strangers(seal))
           n == Cardinality(Signers(seal))
<1>1. CASE seal = NoSeal
  BY <1>1, SMT DEF UnknownBps
<1>2. CASE seal # NoSeal
  <2>1. u \in Nat /\ n \in Nat /\ n > 0
    BY <1>2, StrangersFinite
  <2>2. UnknownBps(seal) = (u * 10000) \div n
    BY <1>2 DEF UnknownBps
  <2> HIDE DEF u, n
  <2>3. u * 10000 \in Nat
    BY <2>1, SMT
  <2> QED
    BY <2>1, <2>2, <2>3, QuotientNat
<1> QED
  BY <1>1, <1>2

(* The ladder from RearmHeight on, without strangers among the signers. *)
LEMMA RearmAtLeastUnsealed ==
    ASSUME NEW raw, NEW seal \in Seals, NEW none, NEW noRaw, NEW algo \in Algos,
           UnknownBps(raw) <= 5000, ~(UnknownBps(raw) > 5000),
           Cardinality(Signers(none)) = 0
    PROVE  RearmWeight(raw, seal, algo) >= RearmWeight(noRaw, none, algo)
<1> DEFINE m == ComputeSealMultiplier(seal, algo)
           base == AtMost(m, IF IsPenaltyArmed(algo) THEN 15000 ELSE 12000)
           floor == IF IsPenaltyArmed(algo) THEN 6667 ELSE 10000
<1>1. RearmWeight(noRaw, none, algo) = floor
  BY DEF RearmWeight
<1>2. floor \in Nat /\ floor <= 10000
  BY SMT
<1>3. EvaluateMannequinPenalty(raw) = 10000
  BY DEF EvaluateMannequinPenalty
<1>4. base \in Nat /\ base >= 10000
  <2>1. Between(m, 10000, 20700)
    BY MultiplierRange
  <2> HIDE DEF m
  <2> QED
    BY <2>1, SMT DEF AtMost, Between
<1> DEFINE s == Cardinality(Signers(seal))
<1>5. /\ s = 0 => RearmWeight(raw, seal, algo) = floor
      /\ s = 1 => RearmWeight(raw, seal, algo) = 10000
      /\ s # 0 /\ s # 1 => RearmWeight(raw, seal, algo) = (base * 10000) \div 10000
  <2> USE DEF RearmWeight
  <2>1. s = 0 => RearmWeight(raw, seal, algo) = floor
    OBVIOUS
  <2>2. s = 1 => RearmWeight(raw, seal, algo) = 10000
    OBVIOUS
  <2>3. s # 0 /\ s # 1 => RearmWeight(raw, seal, algo) = (base * EvaluateMannequinPenalty(raw)) \div 10000
    OBVIOUS
  <2> QED
    BY <1>3, <2>1, <2>2, <2>3
<1> HIDE DEF base, floor, s
<1>6. (base * 10000) \div 10000 = base
  BY <1>4, SMT
<1> QED
  BY <1>1, <1>2, <1>4, <1>5, <1>6, SMT

(* The algorithm a pending block's seal is held to is one of the node's. *)
LEMMA SealedAlgoType ==
    ASSUME BaseInv, pc = "connecting", GetHMPStage(Height) >= 3
    PROVE  SealedAlgo(Append(chain, pending), Height) \in Algos
<1> DEFINE c == Append(chain, pending)
<1>1. chain \in Seq(Block) /\ pending \in Block
  BY DEF BaseInv, TypeOK, ControlInv
<1>2. c \in Seq(Block) /\ Len(c) = Height /\ Height \in Nat
  BY <1>1 DEF Height
<1> HIDE DEF c
<1>3. Height >= Stage3Height
  BY <1>2, ParamsAssumption, SMTT(60) DEF GetHMPStage
<1>4. Height \in 1..Len(c) /\ Height - SealTrailingDepth \in 1..Len(c)
  BY <1>2, <1>3, ParamsAssumption, SMT
<1>5. \A h \in 1..Len(c) : c[h].algo \in Algos
  <2>1. \A h \in 1..Len(c) : c[h] \in Block
    BY <1>2
  <2> QED
    BY <2>1 DEF Block
<1> QED
  BY <1>4, <1>5 DEF SealedAlgo, c

LEMMA NeverPenalised == BaseInv => SealNeverPenalised
<1> SUFFICES ASSUME BaseInv, pc = "connecting", IsHMPRearmActive(Height),
                    UnknownBps(pending.seal) <= 5000
             PROVE  Weight(pending.seal) >= Weight(NoSeal)
  BY DEF SealNeverPenalised
<1> DEFINE raw  == pending.seal
           seal == Restricted(raw, FilterSealSigners(commitments, raw, Height))
           none == Restricted(NoSeal, FilterSealSigners(commitments, NoSeal, Height))
           algo == SealedAlgo(Append(chain, pending), Height)
<1>1. CASE ~HMPActive(Height) \/ GetHMPStage(Height) < 3
  <2>1. Weight(raw) = 10000 /\ Weight(NoSeal) = 10000
    BY <1>1 DEF Weight, nSealWeight
  <2> QED
    BY <2>1, SMT
<1>2. CASE HMPActive(Height) /\ ~(GetHMPStage(Height) < 3)
  <2>1. GetHMPStage(Height) \in {1, 2, 3, 4}
    BY SMT DEF GetHMPStage
  <2>2. GetHMPStage(Height) >= 3
    BY <1>2, <2>1, SMT
  <2>3. /\ Weight(raw) = RearmWeight(raw, seal, algo)
        /\ Weight(NoSeal) = RearmWeight(NoSeal, none, algo)
    BY <1>2 DEF Weight, nSealWeight
  <2>4. raw \in Seals
    BY DEF BaseInv, ControlInv, Block
  <2>5. seal \in Seals
    BY <2>4, FilteredSeal
  <2>6. Cardinality(Signers(none)) = 0
    BY FilteredNothing
  <2>7. algo \in Algos
    BY <2>2, SealedAlgoType
  <2>8. ~(UnknownBps(raw) > 5000)
    <3>1. UnknownBps(raw) \in Nat
      BY <2>4, UnknownNat
    <3> QED
      BY <3>1, SMT
  <2> HIDE DEF raw, seal, none, algo
  <2>9. UnknownBps(raw) <= 5000
    BY DEF raw
  <2>10. RearmWeight(raw, seal, algo) >= RearmWeight(NoSeal, none, algo)
    BY <2>5, <2>6, <2>7, <2>8, <2>9, RearmAtLeastUnsealed
  <2> QED
    BY <2>3, <2>10 DEF raw
<1> QED
  BY <1>1, <1>2

(* On the ladder from RearmHeight on, a valid seal without a majority of    *)
(* strangers never weighs less than no seal, for every chain, every set of  *)
(* signers, every Elder set and both states of the penalty.                 *)
THEOREM SealNeverPenalisedCorrect == Spec => []SealNeverPenalised
<1>1. Init => BaseInv
  BY BaseInit
<1>2. BaseInv /\ [Next]_vars => BaseInv'
  BY BaseStep
<1>3. BaseInv => SealNeverPenalised
  BY NeverPenalised
<1> QED
  BY <1>1, <1>2, <1>3, PTL DEF Spec

-----------------------------------------------------------------------------
(* One more signature *)

(* Seal t is seal s with signatures added. *)
Extends(t, s) ==
    /\ s \in Seals /\ t \in Seals
    /\ Signers(s) \subseteq Signers(t)
    /\ \A k \in Signers(s) : t[k] = s[k]

(* Integer division is monotone in the numerator and antitone in the        *)
(* denominator.                                                             *)
LEMMA QuotientBounds ==
    ASSUME NEW x \in Nat, NEW y \in Nat, y > 0
    PROVE  /\ x \div y \in Nat
           /\ (x \div y) * y <= x
           /\ x < ((x \div y) + 1) * y
BY SMT

LEMMA QuotientGap ==
    ASSUME NEW p \in Nat, NEW q \in Nat, NEW d \in Nat, p * d < (q + 1) * d
    PROVE  p <= q
BY SMT

LEMMA QuotientMonotone ==
    ASSUME NEW x \in Nat, NEW y \in Nat, NEW d \in Nat, d > 0, x <= y
    PROVE  x \div d <= y \div d
<1> DEFINE p == x \div d
           q == y \div d
<1>1. p \in Nat /\ p * d <= x
  BY QuotientBounds
<1>2. q \in Nat /\ y < (q + 1) * d
  BY QuotientBounds
<1> HIDE DEF p, q
<1>3. p * d < (q + 1) * d
  BY <1>1, <1>2, SMT
<1>4. p <= q
  BY <1>1, <1>2, <1>3, QuotientGap
<1> QED
  BY <1>4 DEF p, q

LEMMA QuotientAntitone ==
    ASSUME NEW x \in Nat, NEW d \in Nat, NEW e \in Nat, d > 0, d <= e
    PROVE  x \div e <= x \div d
<1> DEFINE p == x \div e
           q == x \div d
<1>1. p \in Nat /\ p * e <= x
  BY QuotientBounds, SMT
<1>2. q \in Nat /\ x < (q + 1) * d
  BY QuotientBounds
<1> HIDE DEF p, q
<1>3. p * d <= p * e
  BY <1>1, SMT
<1>4. p * d < (q + 1) * d
  BY <1>1, <1>2, <1>3, SMT
<1>5. p <= q
  BY <1>1, <1>2, <1>4, QuotientGap
<1> QED
  BY <1>5 DEF p, q

(* One more Elder never lowers the base of the multiplier. *)
LEMMA BaseMonotone ==
    ASSUME NEW p \in Nat, NEW q \in Nat, NEW n \in Nat, n > 1, p <= q
    PROVE  BaseMultiplier(p, n) <= BaseMultiplier(q, n)
<1> DEFINE r == RequiredCount(n)
<1>1. r \in Nat
  BY RequiredNat
<1>2. /\ Between(BaseMultiplier(p, n), 10000, 18000)
      /\ Between(BaseMultiplier(q, n), 10000, 18000)
  BY BaseRange
<1>3. CASE p >= n
  <2>1. q >= n
    BY <1>3, SMT
  <2>2. (p * 3000) \div n <= (q * 3000) \div n
    BY QuotientMonotone, SMT
  <2>3. (p * 3000) \div n \in Nat /\ (q * 3000) \div n \in Nat
    BY QuotientNat, SMT
  <2>4. FullMultiplier(p, n) <= FullMultiplier(q, n)
    <3> DEFINE x == (p * 3000) \div n
               y == (q * 3000) \div n
    <3>1. FullMultiplier(p, n) = AtMost(15000 + x, 18000) /\ FullMultiplier(q, n) = AtMost(15000 + y, 18000)
      BY DEF FullMultiplier
    <3>2. x \in Nat /\ y \in Nat /\ x <= y
      BY <2>2, <2>3
    <3> HIDE DEF x, y
    <3> QED
      BY <3>1, <3>2, SMT DEF AtMost
  <2> QED
    BY <1>3, <2>1, <2>4 DEF BaseMultiplier
<1>4. CASE p < n /\ r <= p /\ q >= n
  <2>1. Between(QuorumMultiplier(p, r, n), 12000, 15000)
    BY <1>1, <1>4, QuorumRange
  <2>2. Between(FullMultiplier(q, n), 15000, 18000)
    BY FullRange, SMT
  <2>3. BaseMultiplier(p, n) = QuorumMultiplier(p, r, n) /\ BaseMultiplier(q, n) = FullMultiplier(q, n)
    BY <1>1, <1>4, SMT DEF BaseMultiplier
  <2> QED
    BY <2>1, <2>2, <2>3, SMT DEF Between
<1>5. CASE p < n /\ r <= p /\ q < n
  <2>1. BaseMultiplier(p, n) = QuorumMultiplier(p, r, n) /\ BaseMultiplier(q, n) = QuorumMultiplier(q, r, n)
    BY <1>1, <1>5, SMT DEF BaseMultiplier
  <2> DEFINE x == (p - r) * 3000
             y == (q - r) * 3000
             d == n - r
  <2>2. x \in Nat /\ y \in Nat /\ d \in Nat /\ d > 0 /\ x <= y
    BY <1>1, <1>5, SMT
  <2>3. QuorumMultiplier(p, r, n) = 12000 + x \div d /\ QuorumMultiplier(q, r, n) = 12000 + y \div d
    BY DEF QuorumMultiplier
  <2> HIDE DEF x, y, d
  <2>4. x \div d <= y \div d
    BY <2>2, QuotientMonotone
  <2>5. x \div d \in Nat /\ y \div d \in Nat
    BY <2>2, QuotientNat
  <2> QED
    BY <2>1, <2>3, <2>4, <2>5, SMT
<1>6. CASE p < n /\ p < r
  <2>1. BaseMultiplier(p, n) = 10000
    BY <1>1, <1>6, SMT DEF BaseMultiplier
  <2> QED
    BY <1>2, <2>1, SMT DEF Between
<1> QED
  BY <1>1, <1>3, <1>4, <1>5, <1>6, SMT

(* What is counted among the signers only grows with the seal. *)
LEMMA ExtendsSigners ==
    ASSUME NEW s, NEW t, Extends(t, s)
    PROVE  Cardinality(Signers(s)) <= Cardinality(Signers(t))
<1>1. t \in Seals /\ Signers(s) \subseteq Signers(t)
  BY DEF Extends
<1>2. IsFiniteSet(Signers(t))
  BY <1>1, StrangersFinite
<1> QED
  BY <1>1, <1>2, FS_Subset

LEMMA ExtendsCounts ==
    ASSUME NEW s, NEW t, Extends(t, s), NEW algo \in Algos, NEW tiers
    PROVE  /\ Cardinality(PresentElders(s, algo)) <= Cardinality(PresentElders(t, algo))
           /\ Cardinality(AlgosOfTier(s, tiers)) <= Cardinality(AlgosOfTier(t, tiers))
           /\ Cardinality(AlgosOfTier(s, tiers) \ {algo}) <= Cardinality(AlgosOfTier(t, tiers) \ {algo})
<1>1. /\ s \in Seals /\ t \in Seals /\ Signers(s) \subseteq Signers(t)
      /\ \A k \in Signers(s) : t[k] = s[k]
  BY DEF Extends
<1>2. PresentElders(s, algo) \subseteq PresentElders(t, algo)
  BY <1>1 DEF PresentElders
<1>3. AlgosOfTier(s, tiers) \subseteq AlgosOfTier(t, tiers)
  BY Zenon, <1>1 DEF AlgosOfTier
<1>4. IsFiniteSet(Signers(t)) /\ IsFiniteSet(AlgosOfTier(t, tiers))
  BY Zenon, <1>1, StrangersFinite, SealFinite
<1>5. IsFiniteSet(PresentElders(t, algo))
  <2>1. PresentElders(t, algo) \subseteq Signers(t)
    BY DEF PresentElders
  <2> QED
    BY <1>4, <2>1, FS_Subset
<1>6. IsFiniteSet(AlgosOfTier(t, tiers) \ {algo})
  BY Zenon, <1>4, FS_Difference
<1>7. AlgosOfTier(s, tiers) \ {algo} \subseteq AlgosOfTier(t, tiers) \ {algo}
  BY <1>3
<1> QED
  BY Zenon, <1>1, <1>2, <1>3, <1>4, <1>5, <1>6, <1>7, FS_Subset

LEMMA MultiplierMonotone ==
    ASSUME NEW s, NEW t, Extends(t, s), NEW algo \in Algos
    PROVE  ComputeSealMultiplier(s, algo) <= ComputeSealMultiplier(t, algo)
<1> DEFINE n == Cardinality(GetElderSet(algo))
           P(z) == Cardinality(PresentElders(z, algo))
           X(z) == Cardinality(AlgosOfTier(z, ElderTiers) \ {algo})
           Y(z) == Cardinality(AlgosOfTier(z, {"BROOD"}))
<1>0. s \in Seals /\ t \in Seals
  BY DEF Extends
<1>1. ASSUME NEW z \in Seals
      PROVE  /\ n \in Nat /\ P(z) \in Nat /\ X(z) \in Nat /\ Y(z) \in Nat
             /\ Between(ComputeSealMultiplier(z, algo), 10000, 20700)
             /\ ComputeSealMultiplier(z, algo) =
                  IF z = NoSeal \/ n <= 1 THEN 10000
                  ELSE BaseMultiplier(P(z), n) + AtMost(500 * X(z), 1500) + AtMost(300 * Y(z), 1200)
  <2>1. n \in Nat /\ P(z) \in Nat
    BY Zenon, SealFinite
  <2>2. IsFiniteSet(AlgosOfTier(z, ElderTiers)) /\ IsFiniteSet(AlgosOfTier(z, {"BROOD"}))
    BY Zenon, SealFinite
  <2>3. IsFiniteSet(AlgosOfTier(z, ElderTiers) \ {algo})
    BY Zenon, <2>2, FS_Difference
  <2>4. X(z) \in Nat /\ Y(z) \in Nat
    BY <2>2, <2>3, FS_CardinalityType
  <2>5. Between(ComputeSealMultiplier(z, algo), 10000, 20700)
    BY MultiplierRange
  <2>6. ComputeSealMultiplier(z, algo) =
          IF z = NoSeal \/ n <= 1 THEN 10000
          ELSE BaseMultiplier(P(z), n) + AtMost(500 * X(z), 1500) + AtMost(300 * Y(z), 1200)
    BY DEF ComputeSealMultiplier
  <2> QED
    BY <2>1, <2>4, <2>5, <2>6
<1>2. P(s) <= P(t) /\ X(s) <= X(t) /\ Y(s) <= Y(t)
  BY ZenonT(60), ExtendsCounts
<1> HIDE DEF n, P, X, Y
<1>3. CASE s = NoSeal \/ n <= 1
  <2>1. ComputeSealMultiplier(s, algo) = 10000
    BY <1>0, <1>1, <1>3
  <2>2. Between(ComputeSealMultiplier(t, algo), 10000, 20700)
    BY <1>0, <1>1
  <2> QED
    BY <2>1, <2>2, SMT DEF Between
<1>4. CASE s # NoSeal /\ ~(n <= 1)
  <2>1. t # NoSeal
    BY Zenon, <1>4 DEF Extends, Seals, Signers, NoSeal
  <2>2. /\ ComputeSealMultiplier(s, algo) =
             BaseMultiplier(P(s), n) + AtMost(500 * X(s), 1500) + AtMost(300 * Y(s), 1200)
        /\ ComputeSealMultiplier(t, algo) =
             BaseMultiplier(P(t), n) + AtMost(500 * X(t), 1500) + AtMost(300 * Y(t), 1200)
    BY <1>0, <1>1, <1>4, <2>1
  <2>3. n \in Nat /\ P(s) \in Nat /\ P(t) \in Nat /\ X(s) \in Nat /\ X(t) \in Nat /\ Y(s) \in Nat /\ Y(t) \in Nat
    BY <1>0, <1>1
  <2>4. n > 1
    BY <1>4, <2>3, SMT
  <2>5. /\ BaseMultiplier(P(s), n) <= BaseMultiplier(P(t), n)
        /\ Between(BaseMultiplier(P(s), n), 10000, 18000)
        /\ Between(BaseMultiplier(P(t), n), 10000, 18000)
    BY <1>2, <2>3, <2>4, BaseMonotone, BaseRange
  <2>6. /\ AtMost(500 * X(s), 1500) <= AtMost(500 * X(t), 1500)
        /\ AtMost(500 * X(s), 1500) \in Nat /\ AtMost(500 * X(t), 1500) \in Nat
    BY <1>2, <2>3, SMT DEF AtMost
  <2>7. /\ AtMost(300 * Y(s), 1200) <= AtMost(300 * Y(t), 1200)
        /\ AtMost(300 * Y(s), 1200) \in Nat /\ AtMost(300 * Y(t), 1200) \in Nat
    BY <1>2, <2>3, SMT DEF AtMost
  <2> QED
    BY <2>2, <2>5, <2>6, <2>7, SMT DEF Between
<1> QED
  BY Zenon, <1>3, <1>4

(* What the filter keeps grows with the seal, and no stranger is kept. *)
LEMMA FilterExtends ==
    ASSUME NEW s, NEW t, Extends(t, s), NEW reg, NEW h
    PROVE  Extends(Restricted(t, FilterSealSigners(reg, t, h)), Restricted(s, FilterSealSigners(reg, s, h)))
<1> DEFINE F(z) == FilterSealSigners(reg, z, h)
<1>1. /\ s \in Seals /\ t \in Seals /\ Signers(s) \subseteq Signers(t)
      /\ \A k \in Signers(s) : t[k] = s[k]
  BY DEF Extends
<1>2. F(s) \subseteq F(t) /\ F(s) \subseteq Signers(s)
  BY <1>1, Zenon DEF FilterSealSigners
<1>3. Restricted(s, F(s)) \in Seals /\ Restricted(t, F(t)) \in Seals
  BY Zenon, <1>1, FilteredSeal
<1> HIDE DEF F
<1>4. /\ Signers(Restricted(s, F(s))) = F(s) /\ Signers(Restricted(t, F(t))) = F(t)
      /\ \A k \in F(s) : Restricted(s, F(s))[k] = s[k]
      /\ \A k \in F(t) : Restricted(t, F(t))[k] = t[k]
  BY Zenon DEF Restricted, Signers
<1>5. \A k \in F(s) : Restricted(t, F(t))[k] = Restricted(s, F(s))[k]
  BY Zenon, <1>1, <1>2, <1>4
<1>6. Extends(Restricted(t, F(t)), Restricted(s, F(s)))
  BY Zenon, <1>2, <1>3, <1>4, <1>5 DEF Extends
<1> QED
  BY Zenon, <1>6 DEF F

LEMMA FilteredKnown ==
    ASSUME NEW raw \in Seals, NEW reg, NEW h
    PROVE  UnknownBps(Restricted(raw, FilterSealSigners(reg, raw, h))) = 0
<1> DEFINE F == FilterSealSigners(reg, raw, h)
           seal == Restricted(raw, F)
<1>1. seal \in Seals
  BY FilteredSeal
<1>2. \A k \in F : k \in Signers(raw) /\ GetTier(k, raw[k].algo) # "UNKNOWN"
  BY Zenon DEF FilterSealSigners
<1>3. \A k \in Signers(raw) : k \in Keys /\ raw[k].algo \in Algos
  BY Zenon DEF Seals, Signers, Signature
<1>4. \A k \in F : ~IsStranger(k)
  <2> TAKE k \in F
  <2>1. PastWarmup(raw[k].algo, k)
    BY <1>2 DEF GetTier
  <2> QED
    BY Zenon, <1>2, <1>3, <2>1 DEF IsStranger, GetPrivilegedSet
<1>5. Signers(seal) = F
  BY DEF Restricted, Signers
<1>6. Strangers(seal) = {}
  BY <1>4, <1>5 DEF Strangers
<1>7. Cardinality(Strangers(seal)) = 0
  BY <1>6, FS_EmptySet
<1> HIDE DEF seal
<1>8. CASE seal = NoSeal
  BY <1>8 DEF UnknownBps, seal
<1>9. CASE seal # NoSeal
  <2>1. Cardinality(Signers(seal)) \in Nat /\ Cardinality(Signers(seal)) > 0
    BY <1>1, <1>9, StrangersFinite
  <2>2. (0 * 10000) \div Cardinality(Signers(seal)) = 0
    <3> DEFINE c == Cardinality(Signers(seal))
    <3>1. c \in Nat /\ c > 0
      BY <2>1
    <3> HIDE DEF c
    <3>2. (0 * 10000) \div c = 0
      BY <3>1, SMT
    <3> QED
      BY <3>2 DEF c
  <2> QED
    BY <1>7, <1>9, <2>2 DEF UnknownBps, seal
<1> QED
  BY <1>8, <1>9

(* The penalty of a seal without strangers, by the share of Elders present. *)
AbsenceLadder(presentBps, requiredBps) ==
    IF presentBps >= requiredBps THEN 10000
    ELSE IF presentBps < 5000 THEN 1000
    ELSE AtMost(5000 + ((presentBps - 5000) * 5000) \div (requiredBps - 5000), 10000)

LEMMA AbsenceMonotone ==
    ASSUME NEW p \in Nat, NEW q \in Nat, NEW r \in Nat, p <= q
    PROVE  /\ Between(AbsenceLadder(p, r), 1000, 10000)
           /\ Between(AbsenceLadder(q, r), 1000, 10000)
           /\ AbsenceLadder(p, r) <= AbsenceLadder(q, r)
<1> DEFINE Step(x) == AtMost(5000 + ((x - 5000) * 5000) \div (r - 5000), 10000)
<1>1. ASSUME NEW x \in Nat, x < r, ~(x < 5000)
      PROVE  Between(Step(x), 5000, 10000)
  <2> DEFINE y == (x - 5000) * 5000
             d == r - 5000
  <2>1. y \in Nat /\ d \in Nat /\ d > 0
    BY <1>1, SMT
  <2> HIDE DEF y, d
  <2>2. y \div d \in Nat
    BY <2>1, QuotientNat
  <2>3. Between(AtMost(5000 + y \div d, 10000), 5000, 10000)
    BY <2>2, SMT DEF AtMost, Between
  <2> QED
    BY <2>3 DEF y, d
<1>2. ASSUME p < r, q < r, ~(p < 5000), ~(q < 5000)
      PROVE  Step(p) <= Step(q)
  <2> DEFINE y == (p - 5000) * 5000
             z == (q - 5000) * 5000
             d == r - 5000
  <2>1. y \in Nat /\ z \in Nat /\ d \in Nat /\ d > 0 /\ y <= z
    BY <1>2, SMT
  <2> HIDE DEF y, z, d
  <2>2. y \div d \in Nat /\ z \div d \in Nat /\ y \div d <= z \div d
    BY <2>1, QuotientNat, QuotientMonotone
  <2>3. AtMost(5000 + y \div d, 10000) <= AtMost(5000 + z \div d, 10000)
    BY <2>2, SMT DEF AtMost
  <2> QED
    BY <2>3 DEF y, z, d
<1>3. \A x \in Nat : AbsenceLadder(x, r) =
          IF x >= r THEN 10000 ELSE IF x < 5000 THEN 1000 ELSE Step(x)
  BY DEF AbsenceLadder
<1> HIDE DEF Step
<1>4. \A x \in Nat : Between(AbsenceLadder(x, r), 1000, 10000)
  <2> TAKE x \in Nat
  <2>1. CASE x >= r \/ x < 5000
    BY <1>3, <2>1, SMT DEF Between
  <2>2. CASE x < r /\ ~(x < 5000)
    BY <1>1, <1>3, <2>2, SMT DEF Between
  <2> QED
    BY <2>1, <2>2, SMT
<1>5. AbsenceLadder(p, r) <= AbsenceLadder(q, r)
  <2>0. Between(AbsenceLadder(p, r), 1000, 10000) /\ Between(AbsenceLadder(q, r), 1000, 10000)
    BY <1>4
  <2>1. CASE q >= r
    BY <1>3, <2>0, <2>1, SMT DEF Between
  <2>2. CASE q < r /\ p < 5000
    BY <1>3, <2>0, <2>2, SMT DEF Between
  <2>3. CASE q < r /\ ~(p < 5000)
    BY <1>2, <1>3, <2>3, SMT
  <2> QED
    BY <2>1, <2>2, <2>3, SMT
<1> QED
  BY <1>4, <1>5

LEMMA NegativeProofMonotone ==
    ASSUME NEW s, NEW t, Extends(t, s), NEW algo \in Algos,
           UnknownBps(s) = 0, UnknownBps(t) = 0
    PROVE  /\ Between(EvaluateNegativeProof(s, algo), 1000, 10000)
           /\ Between(EvaluateNegativeProof(t, algo), 1000, 10000)
           /\ EvaluateNegativeProof(s, algo) <= EvaluateNegativeProof(t, algo)
<1> DEFINE n == Cardinality(GetElderSet(algo))
           r == 100 * GetRequiredAgreement(n)
           P(z) == Cardinality(PresentElders(z, algo))
           bps(z) == (P(z) * 10000) \div n
<1>0. s \in Seals /\ t \in Seals
  BY DEF Extends
<1>1. n \in Nat /\ P(s) \in Nat /\ P(t) \in Nat
  BY Zenon, <1>0, SealFinite
<1>2. P(s) <= P(t)
  BY ZenonT(60), ExtendsCounts
<1>3. r \in Nat
  BY <1>1, SMT DEF GetRequiredAgreement
<1>4. \A z : UnknownBps(z) = 0 => EvaluateNegativeProof(z, algo) =
          IF n = 0 \/ r = 0 THEN 10000
          ELSE CASE 0 > 5000 -> 1000
                 [] 0 <= 5000 /\ bps(z) >= r ->
                      IF 0 > 3000 /\ n >= 4 THEN AtLeast(10000 - 0, 5000) ELSE 10000
                 [] 0 <= 5000 /\ bps(z) < r /\ bps(z) < 5000 -> 1000
                 [] OTHER -> AtMost(5000 + ((bps(z) - 5000) * 5000) \div (r - 5000), 10000)
  BY DEF EvaluateNegativeProof
<1> HIDE DEF r
<1>5. CASE n = 0 \/ r = 0
  <2>1. EvaluateNegativeProof(s, algo) = 10000 /\ EvaluateNegativeProof(t, algo) = 10000
    BY <1>5 DEF EvaluateNegativeProof, r
  <2> QED
    BY <2>1, SMT DEF Between
<1>6. CASE ~(n = 0 \/ r = 0)
  <2>1. bps(s) \in Nat /\ bps(t) \in Nat /\ bps(s) <= bps(t)
    <3> DEFINE x == P(s) * 10000
               y == P(t) * 10000
    <3> HIDE DEF n, P
    <3>1. x \in Nat /\ y \in Nat /\ x <= y /\ n > 0
      BY <1>1, <1>2, <1>6, SMT
    <3> HIDE DEF x, y
    <3>2. x \div n \in Nat /\ y \div n \in Nat /\ x \div n <= y \div n
      BY Zenon, <1>1, <3>1, QuotientNat, QuotientMonotone
    <3> QED
      BY <3>2 DEF x, y
  <2> HIDE DEF n, bps
  <2>2. ASSUME NEW z, UnknownBps(z) = 0, bps(z) \in Nat
        PROVE  EvaluateNegativeProof(z, algo) = AbsenceLadder(bps(z), r)
    BY <1>1, <1>3, <1>4, <1>6, <2>2, SMT DEF AbsenceLadder
  <2>3. /\ EvaluateNegativeProof(s, algo) = AbsenceLadder(bps(s), r)
        /\ EvaluateNegativeProof(t, algo) = AbsenceLadder(bps(t), r)
    BY Zenon, <2>1, <2>2
  <2> QED
    BY <1>3, <2>1, <2>3, AbsenceMonotone
<1> QED
  BY <1>5, <1>6

(* Both ladders are monotone in the seal. *)
LEMMA RearmMonotone ==
    ASSUME NEW s, NEW t, Extends(t, s), NEW rawS, NEW rawT, NEW algo \in Algos,
           EvaluateMannequinPenalty(rawS) = 10000, EvaluateMannequinPenalty(rawT) = 10000
    PROVE  RearmWeight(rawS, s, algo) <= RearmWeight(rawT, t, algo)
<1> DEFINE C(z) == Cardinality(Signers(z))
           cap == IF IsPenaltyArmed(algo) THEN 15000 ELSE 12000
           floor == IF IsPenaltyArmed(algo) THEN 6667 ELSE 10000
           base(z) == AtMost(ComputeSealMultiplier(z, algo), cap)
<1>0. s \in Seals /\ t \in Seals
  BY DEF Extends
<1>1. C(s) \in Nat /\ C(t) \in Nat /\ C(s) <= C(t)
  <2>1. C(s) \in Nat /\ C(t) \in Nat
    BY <1>0, StrangersFinite
  <2>2. C(s) <= C(t)
    BY ExtendsSigners
  <2> QED
    BY <2>1, <2>2
<1>2. /\ Between(ComputeSealMultiplier(s, algo), 10000, 20700)
      /\ Between(ComputeSealMultiplier(t, algo), 10000, 20700)
      /\ ComputeSealMultiplier(s, algo) <= ComputeSealMultiplier(t, algo)
  BY <1>0, MultiplierRange, MultiplierMonotone
<1>3. floor \in {6667, 10000} /\ cap \in {12000, 15000}
  OBVIOUS
<1>4. ASSUME NEW z, NEW raw, EvaluateMannequinPenalty(raw) = 10000
      PROVE  /\ C(z) = 0 => RearmWeight(raw, z, algo) = floor
             /\ C(z) = 1 => RearmWeight(raw, z, algo) = 10000
             /\ C(z) # 0 /\ C(z) # 1 => RearmWeight(raw, z, algo) = (base(z) * 10000) \div 10000
  <2> USE DEF RearmWeight
  <2>1. C(z) = 0 => RearmWeight(raw, z, algo) = floor
    OBVIOUS
  <2>2. C(z) = 1 => RearmWeight(raw, z, algo) = 10000
    OBVIOUS
  <2>3. C(z) # 0 /\ C(z) # 1 =>
            RearmWeight(raw, z, algo) = (base(z) * EvaluateMannequinPenalty(raw)) \div 10000
    OBVIOUS
  <2> QED
    BY <1>4, <2>1, <2>2, <2>3
<1> HIDE DEF floor, cap, C
<1>5. /\ base(s) \in Nat /\ base(t) \in Nat
      /\ 10000 <= base(s) /\ base(s) <= base(t)
  BY <1>2, <1>3, SMT DEF AtMost, Between
<1> HIDE DEF base
<1>6. (base(s) * 10000) \div 10000 = base(s) /\ (base(t) * 10000) \div 10000 = base(t)
  BY <1>5, SMT
<1> DEFINE ws == RearmWeight(rawS, s, algo)
           wt == RearmWeight(rawT, t, algo)
<1>7. /\ C(s) = 0 => ws = floor
      /\ C(s) = 1 => ws = 10000
      /\ C(s) # 0 /\ C(s) # 1 => ws = base(s)
  BY <1>4, <1>6
<1>8. /\ C(t) = 0 => wt = floor
      /\ C(t) = 1 => wt = 10000
      /\ C(t) # 0 /\ C(t) # 1 => wt = base(t)
  BY <1>4, <1>6
<1> HIDE DEF ws, wt
<1>9. ws <= wt
  BY <1>1, <1>3, <1>5, <1>7, <1>8, SMT
<1> QED
  BY <1>9 DEF ws, wt

LEMMA LegacyMonotone ==
    ASSUME NEW s, NEW t, Extends(t, s), NEW algo \in Algos, NEW stage \in Nat,
           UnknownBps(s) = 0, UnknownBps(t) = 0
    PROVE  LegacyWeight(s, algo, stage) <= LegacyWeight(t, algo, stage)
<1> DEFINE C(z) == Cardinality(Signers(z))
           m(z) == IF C(z) = 1 THEN 10000 ELSE ComputeSealMultiplier(z, algo)
           e(z) == EvaluateNegativeProof(z, algo)
<1>0. s \in Seals /\ t \in Seals
  BY Zenon DEF Extends
<1>1. C(s) \in Nat /\ C(t) \in Nat /\ C(s) <= C(t)
  <2>1. C(s) \in Nat /\ C(t) \in Nat
    BY Zenon, <1>0, StrangersFinite
  <2>2. C(s) <= C(t)
    BY Zenon, ExtendsSigners
  <2> QED
    BY Zenon, <2>1, <2>2
<1>2. /\ Between(ComputeSealMultiplier(s, algo), 10000, 20700)
      /\ Between(ComputeSealMultiplier(t, algo), 10000, 20700)
      /\ ComputeSealMultiplier(s, algo) <= ComputeSealMultiplier(t, algo)
  BY <1>0, MultiplierRange, MultiplierMonotone
<1>3. C(s) = 0 => ComputeSealMultiplier(s, algo) = 10000
  <2>1. IsFiniteSet(Signers(s))
    BY Zenon, <1>0, StrangersFinite
  <2>2. C(s) = 0 => Signers(s) = {}
    BY Zenon, <2>1, FS_EmptySet
  <2>3. Signers(s) = {} => s = NoSeal
    BY Zenon, <1>0 DEF Seals, Signers, NoSeal
  <2> QED
    BY <2>2, <2>3 DEF ComputeSealMultiplier
<1>4. /\ Between(e(s), 1000, 10000) /\ Between(e(t), 1000, 10000) /\ e(s) <= e(t)
  BY NegativeProofMonotone
<1>5. ASSUME NEW z
      PROVE  LegacyWeight(z, algo, stage) =
               IF stage < 4 THEN m(z) ELSE (AtMost(m(z), 20000) * AtMost(e(z), 20000)) \div 10000
  BY DEF LegacyWeight
<1> HIDE DEF C
<1>6. m(s) \in Nat /\ m(t) \in Nat /\ 10000 <= m(s) /\ m(s) <= m(t)
  BY <1>1, <1>2, <1>3, SMT DEF Between
<1> HIDE DEF m, e
<1>7. CASE stage < 4
  BY <1>5, <1>6, <1>7
<1>8. CASE ~(stage < 4)
  <2> DEFINE x == AtMost(m(s), 20000)
             y == AtMost(m(t), 20000)
             u == AtMost(e(s), 20000)
             v == AtMost(e(t), 20000)
  <2>1. x \in Nat /\ y \in Nat /\ x <= y
    BY <1>6, SMT DEF AtMost
  <2>2. u \in Nat /\ v \in Nat /\ u <= v
    BY <1>4, SMT DEF AtMost, Between
  <2>3. LegacyWeight(s, algo, stage) = (x * u) \div 10000 /\ LegacyWeight(t, algo, stage) = (y * v) \div 10000
    BY <1>5, <1>8
  <2> HIDE DEF x, y, u, v
  <2>4. x * u <= x * v /\ x * v <= y * v
    BY <2>1, <2>2, SMT
  <2>5. x * u \in Nat /\ x * v \in Nat /\ y * v \in Nat
    BY <2>1, <2>2, SMT
  <2>6. x * u <= y * v
    BY <2>4, <2>5, SMT
  <2>7. (x * u) \div 10000 <= (y * v) \div 10000
    BY <2>5, <2>6, QuotientMonotone, SMT
  <2> QED
    BY <2>3, <2>7
<1> QED
  BY Zenon, <1>7, <1>8

(* A known key's signature makes no seal one that strangers dominate. *)
LEMMA JoinedSeal ==
    ASSUME NEW raw \in Seals, NEW k \in Keys \ Signers(raw), NEW sig \in Signature
    PROVE  /\ Extends(Joined(raw, k, sig), raw)
           /\ Signers(Joined(raw, k, sig)) = Signers(raw) \cup {k}
<1> DEFINE t == Joined(raw, k, sig)
<1>1. Signers(raw) \in SUBSET Keys /\ raw \in [Signers(raw) -> Signature]
  BY Zenon DEF Seals, Signers
<1>2. t \in [Signers(raw) \cup {k} -> Signature] /\ Signers(raw) \cup {k} \in SUBSET Keys
  BY Zenon, <1>1 DEF Joined
<1>3. t \in Seals
  BY Zenon, <1>2 DEF Seals
<1>4. Signers(t) = Signers(raw) \cup {k} /\ \A x \in Signers(raw) : t[x] = raw[x]
  BY Zenon DEF Joined, Signers
<1> HIDE DEF t
<1>5. Extends(t, raw)
  BY Zenon, <1>3, <1>4 DEF Extends
<1> QED
  BY Zenon, <1>4, <1>5 DEF t

LEMMA JoinedKnown ==
    ASSUME NEW raw \in Seals, NEW k \in Keys \ Signers(raw), NEW sig \in Signature,
           ~IsStranger(k), UnknownBps(raw) <= 5000
    PROVE  UnknownBps(Joined(raw, k, sig)) <= 5000
<1> DEFINE t == Joined(raw, k, sig)
           u == Cardinality(Strangers(raw))
           n == Cardinality(Signers(raw))
           c == Cardinality(Signers(t))
<1>1. t \in Seals /\ Signers(t) = Signers(raw) \cup {k}
  BY JoinedSeal DEF Extends
<1>2. Strangers(t) = Strangers(raw)
  BY <1>1 DEF Strangers
<1>3. t # NoSeal
  BY <1>1 DEF NoSeal, Signers
<1>4. u \in Nat /\ n \in Nat /\ c \in Nat /\ c > 0 /\ (raw # NoSeal => n > 0)
  BY <1>1, <1>3, StrangersFinite
<1>5. n <= c
  <2>1. Extends(t, raw)
    BY JoinedSeal
  <2> QED
    BY <2>1, ExtendsSigners
<1>6. UnknownBps(t) = (u * 10000) \div c
  BY <1>2, <1>3 DEF UnknownBps
<1>7. raw # NoSeal => UnknownBps(raw) = (u * 10000) \div n
  BY DEF UnknownBps
<1>8. raw = NoSeal => u = 0
  <2>1. raw = NoSeal => Strangers(raw) = {}
    BY DEF Strangers, Signers, NoSeal
  <2> QED
    BY <2>1, FS_EmptySet
<1>9. UnknownBps(raw) \in Nat
  BY UnknownNat
<1> HIDE DEF t, u, n, c
<1>10. CASE raw = NoSeal
  <2>1. (0 * 10000) \div c = 0
    BY <1>4, SMT
  <2>2. UnknownBps(t) = 0
    BY <1>6, <1>8, <1>10, <2>1
  <2> QED
    BY <2>2, SMT DEF t
<1>11. CASE raw # NoSeal
  <2>1. u * 10000 \in Nat
    BY <1>4, SMT
  <2>2. (u * 10000) \div c <= (u * 10000) \div n
    BY <1>4, <1>5, <1>11, <2>1, QuotientAntitone
  <2>3. (u * 10000) \div c \in Nat
    BY <1>4, <2>1, QuotientNat
  <2>4. UnknownBps(t) <= 5000
    BY <1>6, <1>7, <1>9, <1>11, <2>2, <2>3, SMT
  <2> QED
    BY <2>4 DEF t
<1> QED
  BY <1>10, <1>11

LEMMA NoMannequin ==
    ASSUME NEW seal \in Seals, UnknownBps(seal) <= 5000
    PROVE  EvaluateMannequinPenalty(seal) = 10000
<1>1. UnknownBps(seal) \in Nat
  BY UnknownNat
<1>2. ~(UnknownBps(seal) > 5000)
  BY <1>1, SMT
<1> QED
  BY <1>2 DEF EvaluateMannequinPenalty

LEMMA SignersHelp == BaseInv => SignerNeverHurts
<1> SUFFICES ASSUME BaseInv, pc = "connecting", UnknownBps(pending.seal) <= 5000,
                    NEW k \in Keys \ Signers(pending.seal), NEW sig \in Signature, ~IsStranger(k)
             PROVE  Weight(Joined(pending.seal, k, sig)) >= Weight(pending.seal)
  BY DEF SignerNeverHurts
<1> DEFINE raw  == pending.seal
           more == Joined(raw, k, sig)
           S == Restricted(raw, FilterSealSigners(commitments, raw, Height))
           T == Restricted(more, FilterSealSigners(commitments, more, Height))
           algo == SealedAlgo(Append(chain, pending), Height)
           stage == GetHMPStage(Height)
<1>1. raw \in Seals
  BY DEF BaseInv, ControlInv, Block
<1>2. Extends(more, raw) /\ more \in Seals
  <2>1. Extends(more, raw)
    BY <1>1, JoinedSeal
  <2> QED
    BY <2>1 DEF Extends
<1>3. Extends(T, S)
  BY <1>2, FilterExtends
<1>4. UnknownBps(S) = 0 /\ UnknownBps(T) = 0
  BY <1>1, <1>2, FilteredKnown
<1>5. stage \in {1, 2, 3, 4}
  BY SMT DEF GetHMPStage
<1>6. CASE ~HMPActive(Height) \/ stage < 3
  <2>1. Weight(raw) = 10000 /\ Weight(more) = 10000
    BY <1>6 DEF Weight, nSealWeight
  <2> QED
    BY <2>1, SMT
<1>7. CASE HMPActive(Height) /\ ~(stage < 3)
  <2>1. stage >= 3
    BY <1>5, <1>7, SMT
  <2>2. algo \in Algos
    BY <2>1, SealedAlgoType
  <2>3. CASE IsHMPRearmActive(Height)
    <3>1. /\ Weight(raw) = RearmWeight(raw, S, algo)
          /\ Weight(more) = RearmWeight(more, T, algo)
      BY <1>7, <2>3 DEF Weight, nSealWeight
    <3>2. UnknownBps(more) <= 5000
      BY <1>1, JoinedKnown
    <3>3. EvaluateMannequinPenalty(raw) = 10000 /\ EvaluateMannequinPenalty(more) = 10000
      BY <1>1, <1>2, <3>2, NoMannequin
    <3> HIDE DEF raw, more, S, T, algo
    <3>4. RearmWeight(raw, S, algo) <= RearmWeight(more, T, algo)
      BY <1>3, <2>2, <3>3, RearmMonotone
    <3>5. Weight(raw) <= Weight(more)
      BY <3>1, <3>4
    <3> QED
      BY <3>5 DEF raw, more
  <2>4. CASE ~IsHMPRearmActive(Height)
    <3>1. /\ Weight(raw) = LegacyWeight(S, algo, stage)
          /\ Weight(more) = LegacyWeight(T, algo, stage)
      BY <1>7, <2>4 DEF Weight, nSealWeight
    <3> HIDE DEF raw, more, S, T, algo, stage
    <3>2. stage \in Nat
      BY <1>5, SMT
    <3>3. LegacyWeight(S, algo, stage) <= LegacyWeight(T, algo, stage)
      BY <1>3, <1>4, <2>2, <3>2, LegacyMonotone
    <3>4. Weight(raw) <= Weight(more)
      BY <3>1, <3>3
    <3> QED
      BY <3>4 DEF raw, more
  <2> QED
    BY <2>3, <2>4
<1> QED
  BY <1>6, <1>7

(* One more signature of a known key never lowers the weight of a seal that *)
(* strangers do not dominate, on both ladders, for every number of Elders,  *)
(* every tier, every filter decision and both states of the penalty.        *)
THEOREM SignerNeverHurtsCorrect == Spec => []SignerNeverHurts
<1>1. Init => BaseInv
  BY BaseInit
<1>2. BaseInv /\ [Next]_vars => BaseInv'
  BY BaseStep
<1>3. BaseInv => SignerNeverHurts
  BY SignersHelp
<1> QED
  BY <1>1, <1>2, <1>3, PTL DEF Spec
=============================================================================
