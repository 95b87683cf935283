---------------------------- MODULE ForkChoiceSteps ----------------------------
(***************************************************************************)
(* The first half of the proofs about ForkChoice, for every block tree,    *)
(* weighting, set of invalid blocks and number of restarts.  The inductive *)
(* invariant IInv joins the shape of the index, the verdicts of its        *)
(* blocks, the works of the active chain, the places ActivateBestChain can *)
(* be in, and the rise of the works without the penalty.  Shown here: the  *)
(* order of the candidates, the facts about ancestors and weights, and     *)
(* that accepting headers and blocks, choosing the best candidate and      *)
(* disconnecting the tip keep IInv.                                        *)
(***************************************************************************)
EXTENDS ForkChoice, FiniteSetTheorems, TLAPS

(* What the provers know of sequences, as facts to cite. *)
LEMMA SeqIs ==
    ASSUME NEW S, NEW s \in Seq(S)
    PROVE  Len(s) \in Nat /\ DOMAIN s = 1 .. Len(s) /\ s \in [1 .. Len(s) -> S]
BY SMT

LEMMA EmptyIs ==
    ASSUME NEW S
    PROVE  /\ <<>> \in Seq(S) /\ Len(<<>>) = 0
           /\ \A s \in Seq(S) : s # <<>> => Len(s) \in Nat \ {0}
BY SMT

LEMMA SeqsEqual ==
    ASSUME NEW S, NEW s \in Seq(S), NEW t \in Seq(S),
           Len(s) = Len(t), \A i \in 1 .. Len(s) : s[i] = t[i]
    PROVE  s = t
BY SMT

LEMMA SubSeqIs ==
    ASSUME NEW S, NEW s, NEW m \in Int, NEW n \in Int, \A i \in m .. n : s[i] \in S
    PROVE  /\ SubSeq(s, m, n) \in Seq(S)
           /\ Len(SubSeq(s, m, n)) = IF m <= n THEN n - m + 1 ELSE 0
           /\ \A i \in 1 .. n - m + 1 : SubSeq(s, m, n)[i] = s[m + i - 1]
BY SMT

LEMMA SubSeqWhole ==
    ASSUME NEW S, NEW s \in Seq(S)
    PROVE  SubSeq(s, 1, Len(s)) = s
BY SMT

(* Blocks as sequences: At(b, n) is the ancestor of b at height n. *)
At(b, n) == SubSeq(b, 1, n)

LEMMA AtType ==
    ASSUME NEW b \in Seq(Nat), NEW h \in 0 .. Len(b)
    PROVE  /\ At(b, h) \in Seq(Nat) /\ Len(At(b, h)) = h
           /\ \A i \in 1 .. h : At(b, h)[i] = b[i]
<1>1. h \in Int /\ \A i \in 1 .. h : b[i] \in Nat
  BY SeqIs
<1> QED BY <1>1, SubSeqIs DEF At

LEMMA AtAt ==
    ASSUME NEW b \in Seq(Nat), NEW h \in 0 .. Len(b), NEW k \in 0 .. h
    PROVE  At(At(b, h), k) = At(b, k)
<1>1. Len(b) \in Nat /\ k \in 0 .. Len(b)
  BY SeqIs
<1> DEFINE a == At(b, h)
<1>2. a \in Seq(Nat) /\ Len(a) = h /\ \A i \in 1 .. h : a[i] = b[i]
  BY AtType
<1> HIDE DEF a
<1>3. At(a, k) \in Seq(Nat) /\ Len(At(a, k)) = k /\ \A i \in 1 .. k : At(a, k)[i] = a[i]
  BY Zenon, <1>2, AtType
<1>4. At(b, k) \in Seq(Nat) /\ Len(At(b, k)) = k /\ \A i \in 1 .. k : At(b, k)[i] = b[i]
  BY <1>1, AtType
<1>5. ASSUME NEW i \in 1 .. k PROVE At(a, k)[i] = At(b, k)[i]
  <2>1. i \in 1 .. h
    BY <1>1
  <2>2. At(a, k)[i] = a[i] /\ a[i] = b[i] /\ At(b, k)[i] = b[i]
    BY <1>2, <1>3, <1>4, <2>1, Zenon
  <2> QED BY <2>2
<1>6. At(a, k) = At(b, k)
  BY <1>3, <1>4, <1>5, SeqsEqual
<1> QED BY <1>6 DEF a

LEMMA BlockFacts ==
    /\ Genesis \in Blocks /\ Len(Genesis) = 0
    /\ \A b \in Blocks :
          /\ b \in Seq(Nat) /\ Len(b) \in Nat /\ (b # Genesis => Len(b) > 0)
          /\ At(b, Len(b)) = b /\ At(b, 0) = Genesis
          /\ \A n \in 0 .. Len(b) : Len(At(b, n)) = n
          /\ \A n \in 0 .. Len(b) : \A m \in 0 .. n : At(At(b, n), m) = At(b, m)
          /\ Parent(b) = At(b, Len(b) - 1)
<1>1. Genesis \in Blocks /\ Len(Genesis) = 0 /\ \A b \in Blocks : b \in Seq(Nat)
  BY Zenon, TreeAssumption, EmptyIs DEF Genesis
<1>2. ASSUME NEW b \in Blocks
      PROVE  /\ b \in Seq(Nat) /\ Len(b) \in Nat /\ (b # Genesis => Len(b) > 0)
             /\ At(b, Len(b)) = b /\ At(b, 0) = Genesis
             /\ \A n \in 0 .. Len(b) : Len(At(b, n)) = n
             /\ \A n \in 0 .. Len(b) : \A m \in 0 .. n : At(At(b, n), m) = At(b, m)
             /\ Parent(b) = At(b, Len(b) - 1)
  <2>1. b \in Seq(Nat) /\ Len(b) \in Nat /\ (b # Genesis => Len(b) > 0)
    BY <1>1, EmptyIs, SeqIs DEF Genesis
  <2>2. At(b, Len(b)) = b
    BY <2>1, SubSeqWhole DEF At
  <2>3. 0 \in 0 .. Len(b) /\ At(b, 0) \in Seq(Nat) /\ Len(At(b, 0)) = 0
    BY <2>1, AtType
  <2>4. At(b, 0) = Genesis
    BY <2>3, EmptyIs DEF Genesis
  <2> QED BY <2>1, <2>2, <2>4, AtType, AtAt DEF Parent, At
<1> QED BY <1>1, <1>2

LEMMA ParentFacts ==
    ASSUME NEW b \in Blocks, b # Genesis
    PROVE  /\ Len(b) \in Nat /\ Len(b) - 1 \in 0 .. Len(b) /\ Len(Parent(b)) = Len(b) - 1
           /\ \A m \in 0 .. Len(b) - 1 : At(Parent(b), m) = At(b, m)
<1>1. /\ Len(b) \in Nat /\ Len(b) > 0 /\ Parent(b) = At(b, Len(b) - 1)
      /\ \A n \in 0 .. Len(b) : Len(At(b, n)) = n
      /\ \A n \in 0 .. Len(b) : \A m \in 0 .. n : At(At(b, n), m) = At(b, m)
  BY Zenon, BlockFacts
<1>2. Len(b) - 1 \in 0 .. Len(b)
  BY <1>1
<1>3. Len(Parent(b)) = Len(b) - 1 /\ \A m \in 0 .. Len(b) - 1 : At(Parent(b), m) = At(b, m)
  BY <1>1, <1>2, Zenon
<1> QED BY <1>1, <1>2, <1>3

LEMMA AncestorFacts ==
    ASSUME NEW a \in Blocks, NEW b \in Blocks
    PROVE  /\ IsAncestor(a, b) <=> Len(a) <= Len(b) /\ At(b, Len(a)) = a
           /\ IsAncestor(a, b) => Len(a) \in 0 .. Len(b) /\ \A n \in 0 .. Len(a) : At(a, n) = At(b, n)
           /\ IsAncestor(a, b) /\ a # b => Len(a) < Len(b)
<1>1. IsAncestor(a, b) <=> Len(a) <= Len(b) /\ At(b, Len(a)) = a
  BY DEF IsAncestor, At
<1>2. Len(a) \in Nat /\ Len(b) \in Nat /\ At(b, Len(b)) = b
  BY BlockFacts
<1>3. ASSUME IsAncestor(a, b)
      PROVE  Len(a) \in 0 .. Len(b) /\ \A n \in 0 .. Len(a) : At(a, n) = At(b, n)
  BY <1>1, <1>2, <1>3, BlockFacts
<1> QED BY <1>1, <1>2, <1>3

-----------------------------------------------------------------------------
(* The order of the candidates, and its greatest element. *)
LEMMA WorseOrder ==
    ASSUME NEW ix, NEW S \in SUBSET Blocks, \A x \in S : ix[x] \in Entry
    PROVE  /\ \A x \in S : ~Worse(ix, x, x)
           /\ \A x, y \in S : Worse(ix, x, y) => ~Worse(ix, y, x)
           /\ \A x, y, z \in S : Worse(ix, x, y) /\ Worse(ix, y, z) => Worse(ix, x, z)
           /\ \A x, y \in S : x # y => Worse(ix, x, y) \/ Worse(ix, y, x)
<1>1. \A x \in S : /\ ix[x].nChainSealWork \in Nat /\ ix[x].nChainWork \in Nat
                   /\ ix[x].nSequenceId \in Nat /\ Address[x] \in Nat
  BY Zenon, TreeAssumption DEF Entry
<1>2. \A x, y \in S : Address[x] = Address[y] => x = y
  BY TreeAssumption
<1> QED BY <1>1, <1>2 DEF Worse

LEMMA WorseSame ==
    ASSUME NEW ix, NEW jx, NEW x, NEW y, ix[x] = jx[x], ix[y] = jx[y]
    PROVE  Worse(ix, x, y) <=> Worse(jx, x, y)
BY DEF Worse

(* A finite set has an element that none of it exceeds in a strict order R. *)
LEMMA MaximalExists ==
    ASSUME NEW S, IsFiniteSet(S), S # {}, NEW R,
           \A x \in S : <<x, x>> \notin R,
           \A x, y, z \in S : <<x, y>> \in R /\ <<y, z>> \in R => <<x, z>> \in R
    PROVE  \E x \in S : \A y \in S : <<x, y>> \notin R
<1> DEFINE HasMax(X) == \E x \in X : \A y \in X : <<x, y>> \notin R
           T == {X \in FiniteSubsetsOf(S) : X # {} /\ ~HasMax(X)}
<1>1. T = {}
  <2> SUFFICES ASSUME T # {} PROVE FALSE
    OBVIOUS
  <2>1. PICK X \in T : \A Y \in T : <<Y, X>> \notin StrictSubsetOrdering(S)
    <3>1. T \subseteq FiniteSubsetsOf(S)
      OBVIOUS
    <3> HIDE DEF T
    <3> QED BY <3>1, WFMin, FS_StrictSubsetOrderingWellFounded
  <2>2. PICK x \in X : TRUE
    OBVIOUS
  <2>3. X \in FiniteSubsetsOf(S) /\ X \subseteq S /\ IsFiniteSet(X)
    BY DEF FiniteSubsetsOf
  <2>4. X \ {x} \in FiniteSubsetsOf(S)
    BY <2>3, FS_RemoveElement DEF FiniteSubsetsOf
  <2>5. <<X \ {x}, X>> \in StrictSubsetOrdering(S)
    BY <2>2, <2>3, <2>4 DEF StrictSubsetOrdering
  <2>6. X \ {x} = {} \/ HasMax(X \ {x})
    BY Zenon, <2>1, <2>4, <2>5
  <2>7. CASE X \ {x} = {}
    <3>1. \A y \in X : <<x, y>> \notin R
      BY <2>2, <2>3, <2>7
    <3> QED BY <2>2, <3>1
  <2>8. ASSUME NEW z \in X \ {x}, \A y \in X \ {x} : <<z, y>> \notin R PROVE FALSE
    <3>1. CASE <<z, x>> \in R
      <4>1. \A y \in X : <<x, y>> \notin R
        BY Zenon, <2>2, <2>3, <2>8, <3>1
      <4> QED BY <2>2, <4>1
    <3>2. CASE <<z, x>> \notin R
      BY <2>8, <3>2
    <3> QED BY <3>1, <3>2
  <2> QED BY <2>6, <2>7, <2>8
<1>2. S \in FiniteSubsetsOf(S)
  BY DEF FiniteSubsetsOf
<1> QED BY <1>1, <1>2

-----------------------------------------------------------------------------
(* The inductive invariant.  Shape: the index and the linked blocks are    *)
(* closed under ancestors.                                                 *)
Closed(S) == \A b \in S : \A n \in 0 .. Len(b) : At(b, n) \in S

Shape == TypeOK /\ index \in [DOMAIN index -> Entry] /\ Closed(DOMAIN index) /\ Closed(linked)

(* No block of the active chain is invalid, and a failed block has an      *)
(* invalid ancestor or is one.                                             *)
Valid(b) == \A n \in 1 .. Len(b) : verdict[At(b, n)] = "valid"

Verdicts ==
    /\ Valid(tip) /\ (startingTip # NoBlock => Valid(startingTip))
    /\ \A f \in failed : ~Valid(f)

(* The active chain has been weighed: its work is the sum of its weights   *)
(* and grows from block to block, so a block sorts after its ancestors.    *)
Works ==
    /\ \A b \in DOMAIN index \ {Genesis} :
          index[b].nChainWork = index[Parent(b)].nChainWork + Proof[b]
    /\ \A n \in 1 .. Len(tip) :
          index[At(tip, n)].nChainSealWork =
              index[At(tip, n - 1)].nChainSealWork + Weighted(At(tip, n), index[At(tip, n)].nSealWeight)
    /\ \A n \in 0 .. Len(tip) : \A m \in 0 .. n - 1 :
          /\ index[At(tip, m)].nChainSealWork <= index[At(tip, n)].nChainSealWork
          /\ index[At(tip, m)].nChainWork < index[At(tip, n)].nChainWork

(* Where ActivateBestChain can be.  The tip other threads saw last remains *)
(* a candidate until a better one is connected.                            *)
Control ==
    /\ \A c \in candidates : ~Worse(index, c, tip)
    /\ MainFree => tip \in candidates
    /\ pc = "load" => candidates = {} /\ startingTip = NoBlock /\ loading > 0
    /\ pc \in {"find", "disconnect", "connect"} => startingTip # NoBlock
    /\ pc \in {"find", "disconnect"} =>
          startingTip \in candidates /\ (tip = startingTip \/ Worse(index, tip, startingTip))
    /\ pc \in {"start", "find"} /\ mostWork # NoBlock => IsAncestor(tip, mostWork)
    /\ pc = "find" /\ mostWork # NoBlock => tip \in candidates
    /\ pc = "disconnect" => mostWork # NoBlock /\ ~IsAncestor(mostWork, tip)
    /\ pc = "connect" =>
          /\ mostWork # NoBlock /\ IsAncestor(tip, mostWork) /\ tip # mostWork
          /\ startingTip \in candidates \/ Worse(index, startingTip, tip)
          /\ tip \in candidates \/ Worse(index, tip, startingTip)

(* Without the penalty the work of a block never falls, and the target is  *)
(* at least as good as the tip other threads saw last, or on top of it.    *)
Rising ==
    /\ \A b \in DOMAIN index \ {Genesis} : index[b].nSealWeight \in {Neutral, sealWeight[b]}
    /\ Unpenalised => \A b \in DOMAIN index \ {Genesis} :
          index[b].nChainSealWork <= index[Parent(b)].nChainSealWork + Weighted(b, index[b].nSealWeight)
    /\ Unpenalised /\ pc \in {"find", "disconnect", "connect"} /\ mostWork # NoBlock =>
          ~Worse(index, mostWork, startingTip) \/ IsAncestor(startingTip, mostWork)
    /\ UnpenalisedProgress

IInv == Shape /\ Verdicts /\ Works /\ Control /\ Rising

LEMMA WeightFacts == Neutral \in Nat /\ Neutral > 0 /\ WeightCap \in Nat
BY SMT DEF Neutral, WeightCap

LEMMA WeightedFacts ==
    ASSUME NEW b \in Blocks, NEW v \in Nat, NEW w \in Nat
    PROVE  Weighted(b, v) \in Nat /\ (v <= w => Weighted(b, v) <= Weighted(b, w))
<1> DEFINE c(x) == IF x < WeightCap THEN x ELSE WeightCap
<1>1. Proof[b] \in Nat /\ c(v) \in Nat /\ c(w) \in Nat /\ (v <= w => c(v) <= c(w))
  BY TreeAssumption, WeightFacts
<1>2. \A p, x, y \in Nat : p * x \in Nat /\ (x <= y => p * x <= p * y)
  OBVIOUS
<1>3. Proof[b] * c(v) \in Nat /\ Proof[b] * c(w) \in Nat
      /\ (v <= w => Proof[b] * c(v) <= Proof[b] * c(w))
  <2> HIDE DEF c
  <2> QED BY <1>1, <1>2
<1>4. \A x, y \in Nat : x \div Neutral \in Nat /\ (x <= y => x \div Neutral <= y \div Neutral)
  BY SMT DEF Neutral
<1>5. Weighted(b, v) = (Proof[b] * c(v)) \div Neutral /\ Weighted(b, w) = (Proof[b] * c(w)) \div Neutral
  BY DEF Weighted
<1> HIDE DEF c
<1> QED BY <1>3, <1>4, <1>5

LEMMA ShapeFacts ==
    ASSUME Shape
    PROVE  /\ Genesis \in linked /\ linked \subseteq DOMAIN index /\ DOMAIN index \subseteq Blocks
           /\ \A x \in DOMAIN index :
                 /\ index[x] \in Entry /\ index[x].nSealWeight \in Nat
                 /\ index[x].nChainSealWork \in Nat /\ index[x].nChainWork \in Nat
           /\ \A b \in linked \ {Genesis} : Parent(b) \in linked
           /\ \A b \in DOMAIN index \ {Genesis} : Parent(b) \in DOMAIN index
           /\ \A b \in Blocks \ {Genesis} : sealWeight[b] \in Nat
<1>1. linked \subseteq DOMAIN index /\ DOMAIN index \subseteq Blocks /\ tip \in linked
  BY DEF Shape, TypeOK
<1>2. \A x \in DOMAIN index :
         /\ index[x] \in Entry /\ index[x].nSealWeight \in Nat
         /\ index[x].nChainSealWork \in Nat /\ index[x].nChainWork \in Nat
  BY DEF Shape, TypeOK, Entry
<1>3. \A b \in Blocks \ {Genesis} : Len(b) - 1 \in 0 .. Len(b) /\ Parent(b) = At(b, Len(b) - 1)
  BY BlockFacts
<1>4. Genesis \in linked
  <2>1. 0 \in 0 .. Len(tip) /\ At(tip, 0) = Genesis
    BY <1>1, BlockFacts
  <2> QED BY <1>1, <2>1 DEF Shape, Closed
<1>5. \A b \in Blocks \ {Genesis} : sealWeight[b] \in Nat
  BY TreeAssumption DEF Shape, TypeOK
<1>6. /\ \A b \in linked \ {Genesis} : Parent(b) \in linked
      /\ \A b \in DOMAIN index \ {Genesis} : Parent(b) \in DOMAIN index
  BY Zenon, <1>1, <1>3 DEF Shape, Closed
<1> QED BY <1>1, <1>2, <1>4, <1>5, <1>6

(* A block of the active chain sorts after its ancestors. *)
LEMMA ChainOrder ==
    ASSUME Shape, Works
    PROVE  \A a \in linked : IsAncestor(a, tip) /\ a # tip => Worse(index, a, tip)
<1> SUFFICES ASSUME NEW a \in linked, IsAncestor(a, tip), a # tip PROVE Worse(index, a, tip)
  OBVIOUS
<1>1. a \in Blocks /\ tip \in Blocks /\ tip \in linked
  BY ShapeFacts DEF Shape, TypeOK
<1>2. /\ Len(a) \in Nat /\ Len(tip) \in Nat /\ Len(a) < Len(tip)
      /\ At(tip, Len(a)) = a /\ At(tip, Len(tip)) = tip
  BY <1>1, AncestorFacts, BlockFacts
<1>3. Len(tip) \in 0 .. Len(tip) /\ Len(a) \in 0 .. Len(tip) - 1
  BY <1>2
<1>4. index[a].nChainSealWork <= index[tip].nChainSealWork /\ index[a].nChainWork < index[tip].nChainWork
  BY Zenon, <1>2, <1>3 DEF Works
<1>5. index[a].nChainSealWork \in Nat /\ index[tip].nChainSealWork \in Nat
  BY <1>1, ShapeFacts
<1> QED BY <1>4, <1>5 DEF Worse

LEMMA BestFacts ==
    ASSUME Shape, candidates # {}
    PROVE  Best \in candidates /\ \A d \in candidates \ {Best} : Worse(index, d, Best)
<1>1. /\ candidates \subseteq linked /\ linked \subseteq Blocks /\ IsFiniteSet(candidates)
      /\ \A x \in linked : index[x] \in Entry
  BY Zenon, ShapeFacts, TreeAssumption, FS_Subset DEF Shape, TypeOK
<1>2. /\ \A x \in linked : ~Worse(index, x, x)
      /\ \A x, y, z \in linked : Worse(index, x, y) /\ Worse(index, y, z) => Worse(index, x, z)
      /\ \A x, y \in linked : x # y => Worse(index, x, y) \/ Worse(index, y, x)
  BY Zenon, <1>1, WorseOrder
<1> DEFINE R == {p \in candidates \X candidates : Worse(index, p[1], p[2])}
<1>3. \A x, y \in candidates : <<x, y>> \in R <=> Worse(index, x, y)
  OBVIOUS
<1> HIDE DEF R
<1>4. /\ \A x \in candidates : <<x, x>> \notin R
      /\ \A x, y, z \in candidates : <<x, y>> \in R /\ <<y, z>> \in R => <<x, z>> \in R
  BY <1>1, <1>2, <1>3
<1>5. \E x \in candidates : \A y \in candidates : <<x, y>> \notin R
  BY Zenon, <1>1, <1>4, MaximalExists
<1>6. \E x \in candidates : \A d \in candidates \ {x} : Worse(index, d, x)
  BY Zenon, <1>1, <1>2, <1>3, <1>5
<1> QED BY <1>6 DEF Best

LEMMA ValidFacts ==
    ASSUME NEW a \in Blocks, NEW b \in Blocks, IsAncestor(a, b), Valid(b)
    PROVE  Valid(a)
<1>1. Len(a) \in 0 .. Len(b) /\ Len(b) \in Nat /\ \A n \in 0 .. Len(a) : At(a, n) = At(b, n)
  BY AncestorFacts, BlockFacts
<1>2. ASSUME NEW n \in 1 .. Len(a) PROVE verdict[At(a, n)] = "valid"
  <2>1. n \in 0 .. Len(a) /\ n \in 1 .. Len(b)
    BY <1>1
  <2> QED BY <1>1, <2>1 DEF Valid
<1> QED BY <1>2 DEF Valid

(* The dropped blocks are invalid ones. *)
LEMMA DroppedFacts ==
    ASSUME Shape, Verdicts, candidates # {}, FailedOnPath(Best) # {},
           NEW x, x = CHOOSE z \in FailedOnPath(Best) : \A y \in FailedOnPath(Best) : Len(y) <= Len(z)
    PROVE  x \in failed /\ \A y \in Blocks : IsAncestor(x, y) => ~Valid(y)
<1> DEFINE S == FailedOnPath(Best)
<1>1. S \subseteq failed /\ failed \subseteq Blocks /\ IsFiniteSet(S)
  BY Zenon, TreeAssumption, ShapeFacts, FS_Subset DEF Shape, TypeOK, FailedOnPath
<1>2. \A y \in S : Len(y) \in Nat
  BY <1>1, BlockFacts
<1> HIDE DEF S
<1> DEFINE R == {p \in S \X S : Len(p[1]) < Len(p[2])}
<1>3. \A y, z \in S : <<y, z>> \in R <=> Len(y) < Len(z)
  BY Zenon
<1> HIDE DEF R
<1>4. /\ \A y \in S : <<y, y>> \notin R
      /\ \A u, v, w \in S : <<u, v>> \in R /\ <<v, w>> \in R => <<u, w>> \in R
  BY <1>2, <1>3
<1>5. \E z \in S : \A y \in S : <<z, y>> \notin R
  <2>1. S # {}
    BY DEF S
  <2> QED BY Zenon, <1>1, <1>4, <2>1, MaximalExists
<1>6. \E z \in S : \A y \in S : Len(y) <= Len(z)
  <2>1. PICK z \in S : \A y \in S : <<z, y>> \notin R
    BY <1>5
  <2>2. \A y \in S : ~(Len(z) < Len(y))
    BY Zenon, <1>3, <2>1
  <2>3. \A y \in S : Len(y) <= Len(z)
    BY <1>2, <2>2
  <2> QED BY <2>3
<1>7. x = CHOOSE z \in S : \A y \in S : Len(y) <= Len(z)
  BY DEF S
<1>8. x \in S
  BY <1>6, <1>7, Zenon
<1> QED BY Zenon, <1>1, <1>8, ValidFacts DEF Verdicts

-----------------------------------------------------------------------------
(* A header or a block arrives: the entries of the linked blocks keep      *)
(* their keys, and a new entry builds on its parent's.                     *)
NewEntry(ix, b) ==
    /\ ix[b].nSealWeight = Neutral
    /\ ix[b].nChainSealWork = index[Parent(b)].nChainSealWork + Weighted(b, Neutral)
    /\ ix[b].nChainWork = index[Parent(b)].nChainWork + Proof[b]

Arrives(b) ==
    /\ b \in Blocks \ {Genesis} /\ Parent(b) \in DOMAIN index
    /\ index' \in [DOMAIN index \cup {b} -> Entry]
    /\ \A x \in DOMAIN index :
          /\ index'[x].nSealWeight = index[x].nSealWeight
          /\ index'[x].nChainSealWork = index[x].nChainSealWork
          /\ index'[x].nChainWork = index[x].nChainWork
    /\ \A x \in linked : index'[x] = index[x]
    /\ b \notin DOMAIN index => NewEntry(index', b)
    /\ UNCHANGED <<sealWeight, verdict, tip, pc, mostWork, startingTip>>

LEMMA AddFacts ==
    ASSUME Shape, NEW b \in Blocks \ {Genesis}, Parent(b) \in DOMAIN index
    PROVE  /\ AddToBlockIndex(b) \in [DOMAIN index \cup {b} -> Entry]
           /\ \A x \in DOMAIN index : AddToBlockIndex(b)[x] = index[x]
           /\ b \notin DOMAIN index => NewEntry(AddToBlockIndex(b), b)
<1>0. Weighted(b, Neutral) \in Nat
  <2>1. b \in Blocks /\ Neutral \in Nat
    BY WeightFacts
  <2> QED BY <2>1, WeightedFacts
<1>1. /\ index[Parent(b)].nChainSealWork \in Nat /\ index[Parent(b)].nChainWork \in Nat
      /\ Weighted(b, Neutral) \in Nat /\ Proof[b] \in Nat
  BY Zenon, <1>0, ShapeFacts, TreeAssumption
<1> DEFINE e == [nSealWeight    |-> Neutral,
                 nChainSealWork |-> index[Parent(b)].nChainSealWork + Weighted(b, Neutral),
                 nChainWork     |-> index[Parent(b)].nChainWork + Proof[b],
                 nSequenceId    |-> 0]
<1>2. e \in Entry
  BY <1>1, WeightFacts DEF Entry
<1>3. /\ e.nSealWeight = Neutral
      /\ e.nChainSealWork = index[Parent(b)].nChainSealWork + Weighted(b, Neutral)
      /\ e.nChainWork = index[Parent(b)].nChainWork + Proof[b]
  BY Zenon
<1>4. AddToBlockIndex(b) = [x \in DOMAIN index \cup {b} |-> IF x \in DOMAIN index THEN index[x] ELSE e]
  BY Zenon DEF AddToBlockIndex
<1> HIDE DEF e
<1> QED BY Zenon, <1>2, <1>3, <1>4, ShapeFacts DEF NewEntry

LEMMA ArrivalKeeps ==
    ASSUME IInv, NEW b, Arrives(b)
    PROVE  /\ Closed(DOMAIN index') /\ Works' /\ Rising'
           /\ \A x, y \in linked : Worse(index', x, y) <=> Worse(index, x, y)
<1>0. Shape /\ Verdicts /\ Works /\ Control /\ Rising
  BY DEF IInv
<1>a. DOMAIN index' = DOMAIN index \cup {b} /\ b \in Blocks \ {Genesis} /\ Parent(b) \in DOMAIN index
  BY DEF Arrives
<1>b. /\ Genesis \in DOMAIN index /\ linked \subseteq DOMAIN index /\ tip \in linked /\ DOMAIN index \subseteq Blocks
      /\ {mostWork, startingTip} \subseteq linked \cup {NoBlock}
      /\ \A x \in DOMAIN index \ {Genesis} : Parent(x) \in DOMAIN index
  BY Zenon, <1>0, ShapeFacts DEF Shape, TypeOK
<1>1. Closed(DOMAIN index')
  <2> SUFFICES ASSUME NEW x \in DOMAIN index', NEW n \in 0 .. Len(x) PROVE At(x, n) \in DOMAIN index'
    BY DEF Closed
  <2>1. CASE x \in DOMAIN index
    BY <1>0, <1>a, <2>1 DEF Shape, Closed
  <2>2. CASE x = b /\ n = Len(b)
    BY Zenon, <1>a, <2>2, BlockFacts
  <2>3. CASE x = b /\ n # Len(b)
    <3>1. /\ Len(b) - 1 \in 0 .. Len(b) /\ n \in 0 .. Len(b) - 1
          /\ Len(Parent(b)) = Len(b) - 1 /\ \A m \in 0 .. Len(b) - 1 : At(Parent(b), m) = At(b, m)
      BY <1>a, <2>3, ParentFacts
    <3>2. At(Parent(b), n) = At(b, n)
      BY <3>1
    <3>3. At(Parent(b), n) \in DOMAIN index
      BY Zenon, <1>0, <1>a, <3>1 DEF Shape, Closed
    <3> QED BY <1>a, <2>3, <3>2, <3>3
  <2> QED BY Zenon, <1>a, <2>1, <2>2, <2>3
<1>2. \A x, y \in linked : Worse(index', x, y) <=> Worse(index, x, y)
  BY Zenon, WorseSame DEF Arrives
<1>3. \A n \in 0 .. Len(tip) : At(tip, n) \in linked
  BY <1>0, <1>b DEF Shape, Closed
<1>4. Works'
  <2>1. \A x \in DOMAIN index' \ {Genesis} :
           index'[x].nChainWork = index'[Parent(x)].nChainWork + Proof[x]
    BY Zenon, <1>0, <1>a, <1>b DEF Works, Arrives, NewEntry
  <2>2. Len(tip) \in Nat
    BY Zenon, <1>b, BlockFacts
  <2>3. ASSUME NEW n \in 1 .. Len(tip)
        PROVE  index'[At(tip, n)].nChainSealWork =
                   index'[At(tip, n - 1)].nChainSealWork + Weighted(At(tip, n), index'[At(tip, n)].nSealWeight)
    <3>1. n \in 0 .. Len(tip) /\ n - 1 \in 0 .. Len(tip)
      BY <2>2
    <3>2. index'[At(tip, n)] = index[At(tip, n)] /\ index'[At(tip, n - 1)] = index[At(tip, n - 1)]
      BY Zenon, <1>3, <3>1 DEF Arrives
    <3> QED BY Zenon, <1>0, <3>2 DEF Works
  <2>4. ASSUME NEW n \in 0 .. Len(tip), NEW m \in 0 .. n - 1
        PROVE  /\ index'[At(tip, m)].nChainSealWork <= index'[At(tip, n)].nChainSealWork
               /\ index'[At(tip, m)].nChainWork < index'[At(tip, n)].nChainWork
    <3>1. m \in 0 .. Len(tip)
      BY <2>2
    <3>2. index'[At(tip, n)] = index[At(tip, n)] /\ index'[At(tip, m)] = index[At(tip, m)]
      BY Zenon, <1>3, <3>1 DEF Arrives
    <3> QED BY Zenon, <1>0, <3>2 DEF Works
  <2>5. tip' = tip
    BY Zenon DEF Arrives
  <2> QED BY Zenon, <2>1, <2>3, <2>4, <2>5 DEF Works
<1>5. Rising'
  <2>1. \A x \in DOMAIN index' \ {Genesis} : index'[x].nSealWeight \in {Neutral, sealWeight[x]}
    BY Zenon, <1>0, <1>a DEF Rising, Arrives, NewEntry
  <2>2. ASSUME Unpenalised, NEW x \in DOMAIN index' \ {Genesis}
        PROVE  index'[x].nChainSealWork <= index'[Parent(x)].nChainSealWork + Weighted(x, index'[x].nSealWeight)
    <3>1. CASE x \in DOMAIN index
      BY Zenon, <1>0, <1>b, <2>2, <3>1 DEF Rising, Arrives, NewEntry
    <3>2. CASE x \notin DOMAIN index
      <4>1. x = b /\ index[Parent(b)].nChainSealWork \in Nat /\ Weighted(b, Neutral) \in Nat
        <5>1. x = b /\ Parent(b) \in DOMAIN index /\ b \in Blocks
          BY Zenon, <1>a, <3>2
        <5>2. index[Parent(b)].nChainSealWork \in Nat
          BY Zenon, <1>0, <5>1, ShapeFacts
        <5>3. Weighted(b, Neutral) \in Nat
          BY <5>1, WeightFacts, WeightedFacts
        <5> QED BY Zenon, <5>1, <5>2, <5>3
      <4> QED BY <1>a, <3>2, <4>1 DEF Arrives, NewEntry
    <3> QED BY Zenon, <3>1, <3>2
  <2>3. sealWeight' = sealWeight /\ tip' = tip /\ pc' = pc /\ mostWork' = mostWork /\ startingTip' = startingTip
    BY DEF Arrives
  <2>4. UnpenalisedProgress'
    BY Zenon, <1>0, <1>2, <1>b, <2>3 DEF Rising, UnpenalisedProgress, ForwardProgress, Unpenalised, MainFree
  <2>5. pc \in {"find", "disconnect", "connect"} /\ mostWork # NoBlock => mostWork \in linked /\ startingTip \in linked
    BY Zenon, <1>0, <1>b DEF Control
  <2>6. (Unpenalised /\ pc \in {"find", "disconnect", "connect"} /\ mostWork # NoBlock =>
            ~Worse(index', mostWork, startingTip) \/ IsAncestor(startingTip, mostWork))
    BY Zenon, <1>0, <1>2, <2>5 DEF Rising
  <2> QED BY Zenon, <2>1, <2>2, <2>3, <2>4, <2>6 DEF Rising, Unpenalised
<1> QED BY <1>1, <1>2, <1>4, <1>5

LEMMA HeaderStep == ASSUME IInv, NEW b \in Blocks, AcceptBlockHeader(b) PROVE IInv'
<1>0. Shape /\ Verdicts /\ Works /\ Control /\ Rising
  BY DEF IInv
<1>1. /\ UNCHANGED <<sealWeight, verdict, data, linked, unlinked, failed, failedBlocks, nextSeq, called, pc,
                     mostWork, startingTip, oldTip, loading, restarts, candidates, tip>>
      /\ MainFree
  BY DEF AcceptBlockHeader, oracle, abcVars, loadVars
<1>2. b \in Blocks \ {Genesis} /\ Parent(b) \in DOMAIN index /\ index' = AddToBlockIndex(b)
  BY Zenon DEF AcceptBlockHeader, HeaderAccepted
<1>3. Arrives(b) /\ index' \in [DOMAIN index' -> Entry]
  <2>1. linked \subseteq DOMAIN index
    BY Zenon, <1>0, ShapeFacts
  <2>2. /\ index' \in [DOMAIN index \cup {b} -> Entry] /\ \A x \in DOMAIN index : index'[x] = index[x]
        /\ b \notin DOMAIN index => NewEntry(index', b)
    BY Zenon, <1>0, <1>2, AddFacts
  <2>3. index' \in [DOMAIN index' -> Entry]
    BY <2>2
  <2>4. /\ \A x \in DOMAIN index :
              /\ index'[x].nSealWeight = index[x].nSealWeight
              /\ index'[x].nChainSealWork = index[x].nChainSealWork
              /\ index'[x].nChainWork = index[x].nChainWork
        /\ \A x \in linked : index'[x] = index[x]
    BY Zenon, <2>1, <2>2
  <2> QED BY Zenon, <1>1, <1>2, <2>2, <2>3, <2>4 DEF Arrives
<1>4. Closed(DOMAIN index') /\ Works' /\ Rising' /\ \A x, y \in linked : Worse(index', x, y) <=> Worse(index, x, y)
  BY <1>3, ArrivalKeeps
<1>5. Shape'
  <2>1. DOMAIN index' = DOMAIN index \cup {b} /\ \A x \in DOMAIN index' : index'[x] \in Entry
    BY Zenon, <1>3 DEF Arrives
  <2>2. TypeOK'
    BY Zenon, <1>0, <1>1, <1>2, <2>1 DEF Shape, TypeOK
  <2> QED BY Zenon, <1>0, <1>1, <1>3, <1>4, <2>2 DEF Shape, Closed
<1>6. Verdicts'
  BY Zenon, <1>0, <1>1 DEF Verdicts, Valid
<1>7. Control'
  <2>1. candidates \subseteq linked /\ tip \in linked
    BY <1>0 DEF Shape, TypeOK
  <2> QED BY Zenon, <1>0, <1>1, <1>4, <2>1 DEF Control, MainFree
<1> QED BY <1>4, <1>5, <1>6, <1>7 DEF IInv

LEMMA RejectStep == ASSUME IInv, NEW b \in Blocks, RejectBlockHeader(b) PROVE IInv'
<1>0. Shape /\ Verdicts /\ Works /\ Control /\ Rising
  BY DEF IInv
<1>1. /\ UNCHANGED <<sealWeight, verdict, index, data, linked, unlinked, failedBlocks, nextSeq, called, pc,
                     mostWork, startingTip, oldTip, loading, restarts, candidates, tip>>
  BY Zenon DEF RejectBlockHeader, oracle, abcVars, loadVars
<1>2. PICK f \in failedBlocks :
         failed' = failed \cup {x \in DOMAIN index : IsAncestor(f, x) /\ IsAncestor(x, Parent(b))}
  BY Zenon DEF RejectBlockHeader
<1>3. f \in failed /\ failed \subseteq Blocks /\ ~Valid(f) /\ DOMAIN index \subseteq Blocks
  BY Zenon, <1>0 DEF Shape, TypeOK, Verdicts
<1>4. \A x \in failed' : ~Valid(x)
  BY <1>0, <1>2, <1>3, ValidFacts DEF Verdicts
<1>5. Shape'
  BY Zenon, <1>0, <1>1, <1>2 DEF Shape, TypeOK, Closed
<1>6. Verdicts'
  BY Zenon, <1>0, <1>1, <1>4 DEF Verdicts, Valid
<1>7. Works' /\ Control'
  BY ZenonT(60), <1>0, <1>1 DEF Works, Control, MainFree
<1>8. Rising'
  BY Zenon, <1>0, <1>1 DEF Rising, UnpenalisedProgress, ForwardProgress, Unpenalised, MainFree
<1> QED BY <1>5, <1>6, <1>7, <1>8 DEF IInv

(* The blocks that the arrival of b links. *)
LEMMA ReleasedFacts ==
    ASSUME Shape, NEW b \in Blocks \ {Genesis}, b \notin data, Parent(b) \in linked
    PROVE  /\ Released(b) \subseteq unlinked \cup {b} /\ IsFiniteSet(Released(b))
           /\ Closed(linked \cup Released(b))
<1>1. /\ unlinked \subseteq Blocks /\ linked \subseteq Blocks /\ Closed(linked)
  BY Zenon DEF Shape, TypeOK
<1>2. Released(b) \subseteq unlinked \cup {b}
  BY DEF Released
<1>3. IsFiniteSet(Released(b))
  BY <1>1, <1>2, TreeAssumption, FS_Subset
<1>4. Closed(linked \cup Released(b))
  <2> SUFFICES ASSUME NEW x \in Released(b), NEW n \in 0 .. Len(x) PROVE At(x, n) \in linked \cup Released(b)
    BY <1>1 DEF Closed
  <2>1. x \in Blocks /\ IsAncestor(b, x) /\ \A k \in Len(b) .. Len(x) : At(x, k) \in unlinked \cup {b}
    BY <1>1 DEF Released, At
  <2>2. /\ Len(b) \in 0 .. Len(x) /\ Len(x) \in Nat /\ Len(b) \in Nat /\ At(x, Len(b)) = b
        /\ \A k \in 0 .. Len(b) : At(b, k) = At(x, k)
    BY Zenon, <2>1, AncestorFacts, BlockFacts
  <2>3. CASE n < Len(b)
    <3>1. /\ n \in 0 .. Len(b) - 1 /\ n \in 0 .. Len(Parent(b)) /\ n \in 0 .. Len(b)
          /\ At(Parent(b), n) = At(b, n)
      BY <2>2, <2>3, ParentFacts
    <3>2. At(Parent(b), n) \in linked
      BY Zenon, <1>1, <3>1 DEF Closed
    <3> QED BY <2>2, <3>1, <3>2
  <2>4. CASE n >= Len(b)
    <3> DEFINE y == At(x, n)
    <3>1. n \in Len(b) .. Len(x) /\ y \in unlinked \cup {b} /\ y \in Blocks
      BY <1>1, <2>1, <2>2, <2>4
    <3>2. /\ Len(y) = n /\ \A k \in 0 .. n : At(y, k) = At(x, k)
      BY <2>1, BlockFacts
    <3>3. IsAncestor(b, y)
      <4>1. Len(b) \in 0 .. n
        BY <2>2, <3>1
      <4>2. Len(b) <= Len(y) /\ At(y, Len(b)) = b
        BY <2>2, <3>2, <4>1
      <4> QED BY Zenon, <3>1, <4>2, AncestorFacts
    <3>4. ASSUME NEW k \in Len(b) .. Len(y) PROVE At(y, k) \in unlinked \cup {b}
      <4>1. k \in 0 .. n /\ k \in Len(b) .. Len(x)
        BY <2>2, <3>1, <3>2
      <4> QED BY <2>1, <3>2, <4>1
    <3>5. y \in Released(b)
      BY Zenon, <3>1, <3>3, <3>4 DEF Released, At
    <3> QED BY <3>5
  <2> QED BY <2>2, <2>3, <2>4
<1> QED BY <1>2, <1>3, <1>4

(* ReceivedBlockTransactions changes sequence numbers of new blocks only.  *)
LEMMA ReceivedFacts ==
    ASSUME Shape, NEW b \in Blocks \ {Genesis}, b \notin data, Parent(b) \in DOMAIN index,
           ReceivedBlockTransactions(AddToBlockIndex(b), b)
    PROVE  /\ index' \in [DOMAIN index \cup {b} -> Entry]
           /\ \A x \in DOMAIN index \cup {b} :
                 /\ index'[x].nSealWeight = AddToBlockIndex(b)[x].nSealWeight
                 /\ index'[x].nChainSealWork = AddToBlockIndex(b)[x].nChainSealWork
                 /\ index'[x].nChainWork = AddToBlockIndex(b)[x].nChainWork
           /\ \A x \in linked : index'[x] = index[x]
           /\ data' = data \cup {b} /\ linked \subseteq linked' /\ linked' \subseteq data' /\ Closed(linked')
           /\ unlinked' \subseteq data' \ linked' /\ nextSeq' \in Nat
           /\ candidates \subseteq candidates' /\ candidates' \subseteq candidates \cup linked'
           /\ \A c \in candidates' \ candidates : ~Worse(index', c, tip)
           /\ \A x \in linked' \ linked : x \in candidates' \/ Worse(index', x, tip)
<1> DEFINE ix == AddToBlockIndex(b)
           S  == Released(b)
           jx == [x \in DOMAIN ix |-> IF x \in S
                     THEN [ix[x] EXCEPT !.nSequenceId = nextSeq + Before(S, x)] ELSE ix[x]]
<1>1. /\ ix \in [DOMAIN index \cup {b} -> Entry] /\ \A x \in DOMAIN index : ix[x] = index[x]
  BY Zenon, AddFacts
<1>2. /\ linked \subseteq data /\ data \subseteq DOMAIN index /\ unlinked \subseteq data \ linked /\ nextSeq \in Nat
      /\ candidates \subseteq linked /\ DOMAIN index \subseteq Blocks /\ Closed(linked)
  BY Zenon DEF Shape, TypeOK
<1>3. CASE Parent(b) \notin linked
  <2>1. /\ data' = data \cup {b} /\ index' = ix
        /\ unlinked' = IF Parent(b) \in failed THEN unlinked ELSE unlinked \cup {b}
        /\ linked' = linked /\ nextSeq' = nextSeq /\ candidates' = candidates
    BY <1>3 DEF ReceivedBlockTransactions
  <2> HIDE DEF ix
  <2>2. unlinked' \subseteq data' \ linked'
    BY Zenon, <1>2, <2>1
  <2>3. Closed(linked')
    BY <1>2, <2>1
  <2>4. \A x \in linked : index'[x] = index[x]
    BY Zenon, <1>1, <1>2, <2>1
  <2>5. /\ linked \subseteq linked' /\ linked' \subseteq data' /\ nextSeq' \in Nat
        /\ candidates' \subseteq candidates \cup linked' /\ candidates' \ candidates = {}
        /\ linked' \ linked = {}
    BY Zenon, <1>2, <2>1
  <2> QED BY Zenon, <1>1, <2>1, <2>2, <2>3, <2>4, <2>5 DEF ix
<1>4. CASE Parent(b) \in linked
  <2>1. /\ data' = data \cup {b} /\ index' = jx /\ linked' = linked \cup S /\ unlinked' = unlinked \ S
        /\ nextSeq' = nextSeq + Cardinality(S)
        /\ candidates' = candidates \cup {x \in S : ~Worse(jx, x, tip)}
    BY <1>4 DEF ReceivedBlockTransactions
  <2>2. S \subseteq unlinked \cup {b} /\ IsFiniteSet(S) /\ Closed(linked \cup S)
    BY Zenon, <1>4, ReleasedFacts
  <2>3. Cardinality(S) \in Nat /\ \A x \in S : Before(S, x) \in Nat
    <3>1. \A x : IsFiniteSet({y \in S : Len(y) < Len(x) \/ (Len(y) = Len(x) /\ Address[y] < Address[x])})
      BY Zenon, <2>2, FS_Subset
    <3> QED BY Zenon, <2>2, <3>1, FS_CardinalityType DEF Before
  <2> HIDE DEF ix, S
  <2>4. jx \in [DOMAIN index \cup {b} -> Entry]
    BY <1>1, <1>2, <2>3 DEF Entry
  <2>5. \A x \in DOMAIN index \cup {b} :
           /\ jx[x].nSealWeight = ix[x].nSealWeight
           /\ jx[x].nChainSealWork = ix[x].nChainSealWork
           /\ jx[x].nChainWork = ix[x].nChainWork
    BY <1>1 DEF Entry
  <2>6. \A x \in linked : jx[x] = index[x]
    BY <1>1, <1>2, <2>2
  <2> HIDE DEF jx
  <2>7. /\ linked \subseteq linked' /\ linked' \subseteq data' /\ Closed(linked')
        /\ unlinked' \subseteq data' \ linked' /\ nextSeq' \in Nat
        /\ candidates \subseteq candidates' /\ candidates' \subseteq candidates \cup linked'
    BY <1>2, <2>1, <2>2, <2>3
  <2>8. /\ \A c \in candidates' \ candidates : ~Worse(index', c, tip)
        /\ \A x \in linked' \ linked : x \in candidates' \/ Worse(index', x, tip)
    BY Zenon, <2>1
  <2> QED BY Zenon, <2>1, <2>4, <2>5, <2>6, <2>7, <2>8 DEF ix
<1> QED BY Zenon, <1>3, <1>4

LEMMA BlockStep ==
    ASSUME IInv, NEW b \in Blocks, NEW fRequested \in BOOLEAN, AcceptBlock(b, fRequested) PROVE IInv'
<1>0. Shape /\ Verdicts /\ Works /\ Control /\ Rising
  BY DEF IInv
<1>1. /\ MainFree /\ b \notin data /\ HeaderAccepted(b)
      /\ sealWeight' = sealWeight /\ verdict' = verdict /\ failedBlocks' = failedBlocks /\ tip' = tip
      /\ pc' = pc /\ mostWork' = mostWork /\ startingTip' = startingTip /\ oldTip' = oldTip
      /\ loading' = loading /\ restarts' = restarts
  BY Zenon DEF AcceptBlock, oracle, loadVars
<1>2. b \in Blocks \ {Genesis} /\ Parent(b) \in DOMAIN index
  <2>1. b # Genesis
    BY Zenon, <1>0, <1>1, ShapeFacts DEF Shape, TypeOK
  <2>2. \A x \in DOMAIN index \ {Genesis} : Parent(x) \in DOMAIN index
    BY Zenon, <1>0, ShapeFacts
  <2> QED BY Zenon, <1>1, <2>1, <2>2 DEF HeaderAccepted
<1>3. /\ AddToBlockIndex(b) \in [DOMAIN index \cup {b} -> Entry]
      /\ \A x \in DOMAIN index : AddToBlockIndex(b)[x] = index[x]
      /\ b \notin DOMAIN index => NewEntry(AddToBlockIndex(b), b)
  BY Zenon, <1>0, <1>2, AddFacts
<1>4. linked \subseteq data /\ data \subseteq DOMAIN index /\ candidates \subseteq linked /\ tip \in linked
  BY Zenon, <1>0 DEF Shape, TypeOK
<1>5. CASE verdict[b] = "bad-block"
  <2>1. /\ index' = AddToBlockIndex(b) /\ failed' = failed \cup {b}
        /\ data' = data /\ linked' = linked /\ unlinked' = unlinked /\ nextSeq' = nextSeq
        /\ candidates' = candidates /\ called' = called
    BY Zenon, <1>5 DEF AcceptBlock
  <2>2. /\ \A x \in DOMAIN index :
              /\ index'[x].nSealWeight = index[x].nSealWeight
              /\ index'[x].nChainSealWork = index[x].nChainSealWork
              /\ index'[x].nChainWork = index[x].nChainWork
        /\ \A x \in linked : index'[x] = index[x]
    BY Zenon, <1>3, <1>4, <2>1
  <2>3. Arrives(b)
    BY Zenon, <1>1, <1>2, <1>3, <2>1, <2>2 DEF Arrives
  <2>4. Closed(DOMAIN index') /\ Works' /\ Rising' /\ \A x, y \in linked : Worse(index', x, y) <=> Worse(index, x, y)
    BY <2>3, ArrivalKeeps
  <2>5. DOMAIN index' = DOMAIN index \cup {b} /\ index' \in [DOMAIN index' -> Entry]
    BY Zenon, <1>3, <2>1
  <2>6. Shape'
    <3>1. TypeOK'
      BY Zenon, <1>0, <1>1, <1>2, <2>1, <2>5 DEF Shape, TypeOK
    <3> QED BY Zenon, <1>0, <2>1, <2>4, <2>5, <3>1 DEF Shape, Closed
  <2>7. ~Valid(b)
    <3>1. Len(b) \in 1 .. Len(b) /\ At(b, Len(b)) = b
      BY <1>2, BlockFacts
    <3> QED BY <1>5, <3>1 DEF Valid
  <2>8. Verdicts'
    BY Zenon, <1>0, <1>1, <2>1, <2>7 DEF Verdicts, Valid
  <2>9. Control'
    BY Zenon, <1>0, <1>1, <1>4, <2>1, <2>4 DEF Control, MainFree
  <2> QED BY <2>4, <2>6, <2>8, <2>9 DEF IInv
<1>6. CASE verdict[b] # "bad-block"
  <2>1. ReceivedBlockTransactions(AddToBlockIndex(b), b) /\ called' = TRUE /\ failed' = failed
    BY ZenonT(60), <1>6 DEF AcceptBlock
  <2>2. /\ index' \in [DOMAIN index \cup {b} -> Entry]
        /\ \A x \in DOMAIN index \cup {b} :
              /\ index'[x].nSealWeight = AddToBlockIndex(b)[x].nSealWeight
              /\ index'[x].nChainSealWork = AddToBlockIndex(b)[x].nChainSealWork
              /\ index'[x].nChainWork = AddToBlockIndex(b)[x].nChainWork
        /\ \A x \in linked : index'[x] = index[x]
        /\ data' = data \cup {b} /\ linked \subseteq linked' /\ linked' \subseteq data' /\ Closed(linked')
        /\ unlinked' \subseteq data' \ linked' /\ nextSeq' \in Nat
        /\ candidates \subseteq candidates' /\ candidates' \subseteq candidates \cup linked'
        /\ \A c \in candidates' \ candidates : ~Worse(index', c, tip)
    BY ZenonT(60), <1>0, <1>1, <1>2, <2>1, ReceivedFacts
  <2>3. Arrives(b)
    BY Zenon, <1>1, <1>2, <1>3, <2>2 DEF Arrives, NewEntry
  <2>4. Closed(DOMAIN index') /\ Works' /\ Rising' /\ \A x, y \in linked : Worse(index', x, y) <=> Worse(index, x, y)
    BY <2>3, ArrivalKeeps
  <2>5. DOMAIN index' = DOMAIN index \cup {b} /\ index' \in [DOMAIN index' -> Entry]
    BY Zenon, <2>2
  <2>6. Shape'
    <3>1. TypeOK'
      BY SMTT(60), <1>0, <1>1, <1>2, <2>1, <2>2, <2>5 DEF Shape, TypeOK
    <3> QED BY Zenon, <2>2, <2>4, <2>5, <3>1 DEF Shape
  <2>8. Verdicts'
    BY Zenon, <1>0, <1>1, <2>1 DEF Verdicts, Valid
  <2>9. Control'
    BY ZenonT(60), <1>0, <1>1, <1>4, <2>2, <2>4 DEF Control, MainFree
  <2> QED BY <2>4, <2>6, <2>8, <2>9 DEF IInv
<1> QED BY <1>5, <1>6

-----------------------------------------------------------------------------
(* ActivateBestChain. *)
LEMMA ActivateStep == ASSUME IInv, ActivateBestChain PROVE IInv'
<1>0. Shape /\ Verdicts /\ Works /\ Control /\ Rising
  BY DEF IInv
<1>1. /\ UNCHANGED <<sealWeight, verdict, index, data, linked, unlinked, failed, failedBlocks, nextSeq,
                     startingTip, oldTip, loading, restarts, candidates, tip>>
      /\ pc = "idle" /\ pc' = "start" /\ mostWork' = NoBlock /\ called' = FALSE
  BY Zenon DEF ActivateBestChain, oracle, treeVars, loadVars
<1>2. Shape'
  BY Zenon, <1>0, <1>1 DEF Shape, TypeOK, Closed
<1>3. Verdicts' /\ Works' /\ Control'
  BY ZenonT(60), <1>0, <1>1 DEF Verdicts, Valid, Works, Control, MainFree
<1>4. Rising'
  BY Zenon, <1>0, <1>1 DEF Rising, UnpenalisedProgress, ForwardProgress, Unpenalised, MainFree
<1> QED BY <1>2, <1>3, <1>4 DEF IInv

LEMMA LockStep == ASSUME IInv, LockMain PROVE IInv'
<1>0. Shape /\ Verdicts /\ Works /\ Control /\ Rising
  BY DEF IInv
<1>1. /\ UNCHANGED <<sealWeight, verdict, index, data, linked, unlinked, failed, failedBlocks, nextSeq,
                     called, mostWork, loading, restarts, candidates, tip>>
      /\ pc = "start" /\ pc' = "find" /\ startingTip' = tip /\ oldTip' = NoBlock
  BY Zenon DEF LockMain, oracle, treeVars, loadVars
<1>2. Shape'
  BY Zenon, <1>0, <1>1 DEF Shape, TypeOK, Closed
<1>3. Verdicts' /\ Works'
  BY Zenon, <1>0, <1>1 DEF Verdicts, Valid, Works
<1>4. tip # NoBlock
  BY Zenon, <1>0, TreeAssumption DEF Shape, TypeOK
<1>5. Control'
  BY Zenon, <1>0, <1>1, <1>4 DEF Control, MainFree
<1>6. Rising'
  BY Zenon, <1>0, <1>1 DEF Rising, Control, UnpenalisedProgress, ForwardProgress, Unpenalised, MainFree
<1> QED BY <1>2, <1>3, <1>5, <1>6 DEF IInv

LEMMA DropStep == ASSUME IInv, DropFailedCandidate PROVE IInv'
<1>0. Shape /\ Verdicts /\ Works /\ Control /\ Rising
  BY DEF IInv
<1>1. /\ UNCHANGED <<sealWeight, verdict, index, data, linked, unlinked, failedBlocks, nextSeq, called, pc,
                     mostWork, startingTip, oldTip, loading, restarts, tip>>
      /\ pc = "find" /\ mostWork = NoBlock /\ FailedOnPath(Best) # {}
  BY Zenon DEF DropFailedCandidate, oracle, abcVars, loadVars
<1>2. candidates # {} /\ startingTip \in candidates /\ startingTip # NoBlock /\ Valid(startingTip)
  BY Zenon, <1>0, <1>1 DEF Control, Verdicts
<1> DEFINE x == CHOOSE x \in FailedOnPath(Best) : \A y \in FailedOnPath(Best) : Len(y) <= Len(x)
           dropped == {y \in DOMAIN index : IsAncestor(x, y) /\ IsAncestor(y, Best)}
<1>3. failed' = failed \cup dropped /\ candidates' = candidates \ dropped
  BY DEF DropFailedCandidate
<1>4. x \in failed /\ \A y \in Blocks : IsAncestor(x, y) => ~Valid(y)
  BY ZenonT(60), <1>0, <1>1, <1>2, DroppedFacts
<1>5. dropped \subseteq DOMAIN index /\ \A y \in dropped : ~Valid(y)
  BY Zenon, <1>0, <1>4, ShapeFacts
<1> HIDE DEF x, dropped
<1>6. Shape'
  BY Zenon, <1>0, <1>1, <1>3, <1>5 DEF Shape, TypeOK, Closed
<1>7. Verdicts' /\ Works'
  BY Zenon, <1>0, <1>1, <1>3, <1>5 DEF Verdicts, Valid, Works
<1>8. startingTip \in candidates' /\ candidates' \subseteq candidates
  BY <1>2, <1>3, <1>5
<1>9. Control'
  BY Zenon, <1>0, <1>1, <1>8 DEF Control, MainFree
<1>10. Rising'
  BY Zenon, <1>0, <1>1 DEF Rising, UnpenalisedProgress, ForwardProgress, Unpenalised, MainFree
<1> QED BY <1>6, <1>7, <1>9, <1>10 DEF IInv

LEMMA FindStep == ASSUME IInv, FindMostWorkChain PROVE IInv'
<1>0. Shape /\ Verdicts /\ Works /\ Control /\ Rising
  BY DEF IInv
<1>1. /\ UNCHANGED <<sealWeight, verdict, index, data, linked, unlinked, failed, failedBlocks, nextSeq,
                     called, startingTip, loading, restarts, candidates, tip>>
      /\ pc = "find" /\ mostWork' = IF mostWork = NoBlock THEN Best ELSE mostWork
      /\ IF mostWork' = tip THEN pc' = "idle" /\ oldTip' = oldTip ELSE pc' = "disconnect" /\ oldTip' = tip
  BY Zenon DEF FindMostWorkChain, oracle, treeVars, loadVars
<1>2. /\ startingTip \in candidates /\ (tip = startingTip \/ Worse(index, tip, startingTip))
      /\ startingTip # NoBlock /\ (mostWork # NoBlock => IsAncestor(tip, mostWork) /\ tip \in candidates)
      /\ candidates # {} /\ \A c \in candidates : ~Worse(index, c, tip)
  BY Zenon, <1>0, <1>1 DEF Control
<1>3. Best \in candidates /\ \A d \in candidates \ {Best} : Worse(index, d, Best)
  BY SMTT(60), <1>0, <1>2, BestFacts
<1>4. /\ candidates \subseteq linked /\ tip \in linked /\ mostWork \in linked \cup {NoBlock}
      /\ linked \subseteq Blocks /\ NoBlock \notin linked /\ \A x \in linked : index[x] \in Entry
  BY Zenon, <1>0, ShapeFacts, TreeAssumption DEF Shape, TypeOK
<1>5. /\ \A x \in linked : ~Worse(index, x, x)
      /\ \A x, y \in linked : Worse(index, x, y) => ~Worse(index, y, x)
  BY Zenon, <1>4, WorseOrder
<1>6. mostWork' \in linked /\ mostWork' # NoBlock
  BY Zenon, <1>1, <1>3, <1>4
<1>7. mostWork' = tip => tip \in candidates
  BY Zenon, <1>1, <1>2, <1>3
<1>8. mostWork' # tip => ~IsAncestor(mostWork', tip)
  <2>1. CASE mostWork = NoBlock
    BY Zenon, <1>0, <1>1, <1>2, <1>3, <1>4, <2>1, ChainOrder
  <2>2. CASE mostWork # NoBlock
    <3>1. /\ IsAncestor(tip, mostWork) /\ tip # mostWork => Len(tip) < Len(mostWork)
          /\ IsAncestor(mostWork, tip) => Len(mostWork) <= Len(tip)
          /\ Len(tip) \in Nat /\ Len(mostWork) \in Nat
      BY Zenon, <1>4, <2>2, AncestorFacts, BlockFacts
    <3> QED BY SMTT(60), <1>1, <1>2, <2>2, <3>1
  <2> QED BY <2>1, <2>2
<1>9. Unpenalised => ~Worse(index, mostWork', startingTip) \/ IsAncestor(startingTip, mostWork')
  <2>1. CASE mostWork = NoBlock
    BY Zenon, <1>1, <1>2, <1>3, <1>4, <1>5, <2>1
  <2>2. CASE mostWork # NoBlock
    BY Zenon, <1>0, <1>1, <2>2 DEF Rising
  <2> QED BY <2>1, <2>2
<1>10. Unpenalised /\ mostWork' = tip => ~Worse(index, tip, startingTip)
  <2>1. IsAncestor(startingTip, tip) /\ startingTip # tip => Worse(index, startingTip, tip)
    BY Zenon, <1>0, <1>2, <1>4, ChainOrder
  <2> QED BY Zenon, <1>2, <1>4, <1>5, <1>9, <2>1
<1>11. Shape'
  BY Zenon, <1>0, <1>1, <1>4, <1>6 DEF Shape, TypeOK, Closed
<1>12. Verdicts' /\ Works'
  BY Zenon, <1>0, <1>1 DEF Verdicts, Valid, Works
<1>13. Control'
  BY Zenon, <1>1, <1>2, <1>6, <1>7, <1>8 DEF Control, MainFree
<1>14. Rising'
  BY Zenon, <1>0, <1>1, <1>9, <1>10 DEF Rising, UnpenalisedProgress, ForwardProgress, Unpenalised, MainFree
<1> QED BY <1>11, <1>12, <1>13, <1>14 DEF IInv

LEMMA DisconnectStep == ASSUME IInv, DisconnectTip PROVE IInv'
<1>0. Shape /\ Verdicts /\ Works /\ Control /\ Rising
  BY DEF IInv
<1>1. /\ UNCHANGED <<sealWeight, verdict, index, data, linked, unlinked, failed, failedBlocks, nextSeq,
                     called, pc, mostWork, startingTip, oldTip, loading, restarts, candidates>>
      /\ pc = "disconnect" /\ ~IsAncestor(tip, mostWork) /\ tip' = Parent(tip)
  BY Zenon DEF DisconnectTip, oracle, treeVars, abcVars, loadVars
<1>2. /\ mostWork # NoBlock /\ ~IsAncestor(mostWork, tip) /\ startingTip # NoBlock
      /\ startingTip \in candidates /\ (tip = startingTip \/ Worse(index, tip, startingTip))
      /\ \A c \in candidates : ~Worse(index, c, tip)
  BY Zenon, <1>0, <1>1 DEF Control
<1>3. /\ candidates \subseteq linked /\ tip \in linked /\ mostWork \in linked
      /\ linked \subseteq Blocks /\ \A x \in linked : index[x] \in Entry
  BY Zenon, <1>0, <1>2, ShapeFacts DEF Shape, TypeOK
<1>4. tip # Genesis
  <2>1. /\ IsAncestor(Genesis, mostWork) <=> Len(Genesis) <= Len(mostWork) /\ At(mostWork, Len(Genesis)) = Genesis
        /\ Len(Genesis) = 0 /\ Len(mostWork) \in Nat /\ At(mostWork, 0) = Genesis
    BY Zenon, <1>3, AncestorFacts, BlockFacts
  <2> QED BY <1>1, <2>1
<1> DEFINE p == Parent(tip)
<1>5. p \in linked /\ p \in Blocks
  BY Zenon, <1>0, <1>3, <1>4, ShapeFacts
<1>6. /\ Len(tip) \in Nat /\ Len(tip) - 1 \in 0 .. Len(tip) /\ Len(p) = Len(tip) - 1
      /\ \A m \in 0 .. Len(tip) - 1 : At(p, m) = At(tip, m)
  BY Zenon, <1>3, <1>4, ParentFacts
<1>7. IsAncestor(p, tip) /\ p # tip
  <2>1. At(tip, Len(tip) - 1) = p
    BY Zenon, <1>3, BlockFacts
  <2>2. IsAncestor(p, tip) <=> Len(p) <= Len(tip) /\ At(tip, Len(p)) = p
    BY Zenon, <1>3, <1>5, AncestorFacts
  <2> QED BY <1>6, <2>1, <2>2
<1>8. Worse(index, p, tip)
  BY Zenon, <1>0, <1>5, <1>7, ChainOrder
<1>9. \A x, y, z \in linked : Worse(index, x, y) /\ Worse(index, y, z) => Worse(index, x, z)
  BY Zenon, <1>3, WorseOrder
<1>10. ~IsAncestor(mostWork, p)
  <2> SUFFICES ASSUME IsAncestor(mostWork, p) PROVE FALSE
    OBVIOUS
  <2>1. Len(mostWork) \in 0 .. Len(p) /\ At(p, Len(mostWork)) = mostWork
    BY Zenon, <1>3, <1>5, AncestorFacts
  <2>2. Len(mostWork) <= Len(tip) /\ At(tip, Len(mostWork)) = mostWork
    BY <1>6, <2>1
  <2>3. IsAncestor(mostWork, tip)
    BY Zenon, <1>3, <2>2, AncestorFacts
  <2> QED BY <1>2, <2>3
<1>11. Shape'
  BY Zenon, <1>0, <1>1, <1>5 DEF Shape, TypeOK, Closed
<1>12. Verdicts'
  <2>1. Valid(p)
    BY Zenon, <1>0, <1>3, <1>5, <1>7, ValidFacts DEF Verdicts
  <2> QED BY Zenon, <1>0, <1>1, <2>1 DEF Verdicts, Valid
<1> HIDE DEF p
<1>13. tip' = p
  BY Zenon, <1>1 DEF p
<1>14. Works'
  <2>1. ASSUME NEW n \in 1 .. Len(p)
        PROVE  index[At(p, n)].nChainSealWork =
                   index[At(p, n - 1)].nChainSealWork + Weighted(At(p, n), index[At(p, n)].nSealWeight)
    <3>1. n \in 1 .. Len(tip) /\ At(p, n) = At(tip, n) /\ At(p, n - 1) = At(tip, n - 1)
      BY <1>6
    <3> QED BY Zenon, <1>0, <3>1 DEF Works
  <2>2. ASSUME NEW n \in 0 .. Len(p), NEW m \in 0 .. n - 1
        PROVE  /\ index[At(p, m)].nChainSealWork <= index[At(p, n)].nChainSealWork
               /\ index[At(p, m)].nChainWork < index[At(p, n)].nChainWork
    <3>1. n \in 0 .. Len(tip) /\ At(p, n) = At(tip, n) /\ At(p, m) = At(tip, m)
      BY <1>6
    <3> QED BY Zenon, <1>0, <3>1 DEF Works
  <2>3. \A b \in DOMAIN index \ {Genesis} : index[b].nChainWork = index[Parent(b)].nChainWork + Proof[b]
    BY Zenon, <1>0 DEF Works
  <2> QED BY Zenon, <1>1, <1>13, <2>1, <2>2, <2>3 DEF Works
<1>15. Control'
  <2>1. \A c \in candidates : ~Worse(index, c, p)
    BY Zenon, <1>2, <1>3, <1>5, <1>8, <1>9
  <2>2. Worse(index, p, startingTip)
    BY Zenon, <1>2, <1>3, <1>5, <1>8, <1>9
  <2> QED BY Zenon, <1>1, <1>2, <1>10, <1>13, <2>1, <2>2 DEF Control, MainFree
<1>16. Rising'
  BY Zenon, <1>0, <1>1 DEF Rising, UnpenalisedProgress, ForwardProgress, Unpenalised, MainFree
<1> QED BY <1>11, <1>12, <1>14, <1>15, <1>16 DEF IInv

LEMMA ForkStep == ASSUME IInv, ForkReached PROVE IInv'
<1>0. Shape /\ Verdicts /\ Works /\ Control /\ Rising
  BY DEF IInv
<1>1. /\ UNCHANGED <<sealWeight, verdict, index, data, linked, unlinked, failed, failedBlocks, nextSeq,
                     called, mostWork, startingTip, oldTip, loading, restarts, candidates, tip>>
      /\ pc = "disconnect" /\ IsAncestor(tip, mostWork) /\ pc' = "connect"
  BY Zenon DEF ForkReached, oracle, treeVars, loadVars
<1>2. tip # mostWork
  <2>1. tip \in Blocks
    BY Zenon, <1>0, ShapeFacts DEF Shape, TypeOK
  <2>2. IsAncestor(tip, tip)
    BY <2>1, AncestorFacts, BlockFacts
  <2> QED BY Zenon, <1>0, <1>1, <2>2 DEF Control
<1>3. Shape'
  BY Zenon, <1>0, <1>1 DEF Shape, TypeOK, Closed
<1>4. Verdicts' /\ Works'
  BY ZenonT(60), <1>0, <1>1 DEF Verdicts, Valid, Works
<1>5. Control'
  BY Zenon, <1>0, <1>1, <1>2 DEF Control, MainFree
<1>6. Rising'
  BY Zenon, <1>0, <1>1 DEF Rising, UnpenalisedProgress, ForwardProgress, Unpenalised, MainFree
<1> QED BY <1>3, <1>4, <1>5, <1>6 DEF IInv

=============================================================================
