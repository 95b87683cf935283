---------------------------- MODULE ForkChoiceProofs ----------------------------
(***************************************************************************)
(* ForkChoice for every block tree, weighting, set of invalid blocks and   *)
(* number of restarts: types, the tip among the candidates, no candidate   *)
(* behind the tip and, without the penalty, forward progress, no candidate *)
(* lost and the best chain chosen.  Connecting blocks, failures and        *)
(* restarts keep the invariant IInv of ForkChoiceSteps; Complete and       *)
(* Chosen, over IInv, say which blocks may be missing from the candidates  *)
(* and what the search of FindMostWorkChain has settled at every point of  *)
(* an activation.                                                          *)
(***************************************************************************)
EXTENDS ForkChoiceSteps

(* More work at no less seal work puts a block behind another; more seal   *)
(* work does not take it from behind.                                      *)
LEMMA BehindByWork ==
    ASSUME NEW ix, NEW x, NEW y,
           ix[x].nChainSealWork \in Nat, ix[y].nChainSealWork \in Nat,
           ix[x].nChainSealWork <= ix[y].nChainSealWork, ix[x].nChainWork < ix[y].nChainWork
    PROVE  Worse(ix, x, y)
<1>1. ix[x].nChainSealWork < ix[y].nChainSealWork \/ ix[x].nChainSealWork = ix[y].nChainSealWork
  BY SMTT(60)
<1> QED BY Zenon, <1>1 DEF Worse

LEMMA BehindStays ==
    ASSUME NEW ix, NEW jx, NEW x, NEW y, Worse(ix, x, y), jx[x] = ix[x],
           jx[y].nChainWork = ix[y].nChainWork, jx[y].nSequenceId = ix[y].nSequenceId,
           ix[x].nChainSealWork \in Nat, ix[y].nChainSealWork \in Nat, jx[y].nChainSealWork \in Nat,
           ix[y].nChainSealWork <= jx[y].nChainSealWork
    PROVE  Worse(jx, x, y)
<1> DEFINE sx == ix[x].nChainSealWork
           sy == ix[y].nChainSealWork
           sj == jx[y].nChainSealWork
<1>1. sx \in Nat /\ sy \in Nat /\ sj \in Nat /\ sy <= sj
  OBVIOUS
<1>2. sx < sy \/ sx = sy
  BY Zenon DEF Worse
<1> HIDE DEF sx, sy, sj
<1>3. sx < sj \/ (sx = sy /\ sx = sj)
  BY <1>1, <1>2
<1> QED BY Zenon, <1>1, <1>3 DEF Worse, sx, sy, sj

LEMMA AheadStays ==
    ASSUME NEW ix, NEW new, NEW b, NEW t, new[t] = ix[t],
           ix[b].nChainSealWork <= new[b].nChainSealWork,
           new[b].nChainWork = ix[b].nChainWork, new[b].nSequenceId = ix[b].nSequenceId,
           ix[t].nChainSealWork \in Nat, ix[b].nChainSealWork \in Nat, new[b].nChainSealWork \in Nat,
           Worse(new, b, t)
    PROVE  Worse(ix, b, t)
BY SMTT(60) DEF Worse

LEMMA NatRises ==
    ASSUME NEW m \in Nat, NEW n \in Nat
    PROVE  m <= m + n /\ (n # 0 => m < m + n)
BY SMTT(60)

(* The block that is connected next. *)
LEMMA NextBlock ==
    ASSUME Shape, mostWork \in linked, IsAncestor(tip, mostWork), tip # mostWork,
           NEW b, b = SubSeq(mostWork, 1, Len(tip) + 1)
    PROVE  /\ b \in linked /\ b # Genesis /\ b # tip /\ Parent(b) = tip /\ Len(b) = Len(tip) + 1
           /\ \A n \in 0 .. Len(tip) : At(b, n) = At(tip, n) /\ At(b, n) # b
           /\ IsAncestor(b, mostWork)
<1>1. tip \in Blocks /\ mostWork \in Blocks /\ linked \subseteq Blocks
  BY ShapeFacts DEF Shape, TypeOK
<1>2. /\ Len(tip) \in Nat /\ Len(mostWork) \in Nat /\ Len(tip) < Len(mostWork)
      /\ \A n \in 0 .. Len(tip) : At(tip, n) = At(mostWork, n)
  BY <1>1, AncestorFacts, BlockFacts
<1>3. b = At(mostWork, Len(tip) + 1) /\ Len(tip) + 1 \in 0 .. Len(mostWork)
  BY <1>2 DEF At
<1>4. b \in linked /\ b \in Blocks
  BY Zenon, <1>1, <1>3 DEF Shape, Closed
<1>5. Len(b) = Len(tip) + 1 /\ \A m \in 0 .. Len(tip) + 1 : At(b, m) = At(mostWork, m)
  <2>1. \A n \in 0 .. Len(mostWork) :
           Len(At(mostWork, n)) = n /\ \A m \in 0 .. n : At(At(mostWork, n), m) = At(mostWork, m)
    BY <1>1, BlockFacts
  <2> QED BY <1>3, <2>1, Zenon
<1>6. \A n \in 0 .. Len(tip) : At(b, n) = At(tip, n)
  BY <1>2, <1>5
<1>7. ASSUME NEW n \in 0 .. Len(tip) PROVE At(b, n) # b
  <2>1. n \in 0 .. Len(b)
    BY <1>2, <1>5
  <2>2. Len(At(b, n)) = n
    BY Zenon, <1>4, <2>1, BlockFacts
  <2> QED BY <1>2, <1>5, <2>2
<1>8. b # Genesis /\ b # tip
  BY <1>2, <1>5, BlockFacts
<1>9. Parent(b) = tip
  <2>1. Parent(b) = At(b, Len(b) - 1) /\ At(tip, Len(tip)) = tip
    BY Zenon, <1>1, <1>4, BlockFacts
  <2>2. Len(b) - 1 = Len(tip) /\ Len(tip) \in 0 .. Len(tip)
    BY <1>2, <1>5
  <2> QED BY <1>6, <2>1, <2>2
<1>10. IsAncestor(b, mostWork)
  <2>1. Len(b) <= Len(mostWork) /\ At(mostWork, Len(b)) = b
    BY <1>2, <1>3, <1>5
  <2> QED BY Zenon, <1>1, <1>4, <2>1, AncestorFacts
<1> QED BY SMTT(60), <1>4, <1>5, <1>6, <1>7, <1>8, <1>9, <1>10

(* ConnectBlock weighs b or fails before: no other entry changes, and      *)
(* without the penalty the work of b does not fall.                        *)
Weighs(b) ==
    /\ index' \in [DOMAIN index -> Entry]
    /\ \A x \in DOMAIN index \ {b} : index'[x] = index[x]
    /\ index'[b].nChainWork = index[b].nChainWork /\ index'[b].nSequenceId = index[b].nSequenceId
    /\ \/ index'[b] = index[b]
       \/ /\ index'[b].nSealWeight = sealWeight[b]
          /\ index'[b].nChainSealWork = index[Parent(b)].nChainSealWork + Weighted(b, sealWeight[b])

LEMMA ConnectedFacts ==
    ASSUME Shape, NEW b \in linked \ {Genesis}, index' = ConnectedIndex(b)
    PROVE  /\ Weighs(b) /\ index'[b].nSealWeight = sealWeight[b]
           /\ index'[b].nChainSealWork = index[Parent(b)].nChainSealWork + Weighted(b, sealWeight[b])
<1>1. /\ b \in DOMAIN index /\ index[b] \in Entry /\ index \in [DOMAIN index -> Entry]
      /\ sealWeight[b] \in Nat /\ index[Parent(b)].nChainSealWork \in Nat /\ b \in Blocks
  BY ShapeFacts DEF Shape
<1>2. Weighted(b, sealWeight[b]) \in Nat
  BY <1>1, WeightedFacts
<1> DEFINE w == index[Parent(b)].nChainSealWork + Weighted(b, sealWeight[b])
<1>3. w \in Nat
  BY <1>1, <1>2
<1>4. index' = [index EXCEPT ![b].nSealWeight = sealWeight[b], ![b].nChainSealWork = w]
  BY DEF ConnectedIndex
<1> HIDE DEF w
<1>5. /\ index' \in [DOMAIN index -> Entry] /\ \A x \in DOMAIN index \ {b} : index'[x] = index[x]
      /\ index'[b].nChainWork = index[b].nChainWork /\ index'[b].nSequenceId = index[b].nSequenceId
      /\ index'[b].nSealWeight = sealWeight[b] /\ index'[b].nChainSealWork = w
  <2> DEFINE e == [[index[b] EXCEPT !.nSealWeight = sealWeight[b]] EXCEPT !.nChainSealWork = w]
  <2>1. index' = [index EXCEPT ![b] = e]
    BY Zenon, <1>1, <1>4
  <2>2. /\ e \in Entry /\ e.nChainWork = index[b].nChainWork /\ e.nSequenceId = index[b].nSequenceId
        /\ e.nSealWeight = sealWeight[b] /\ e.nChainSealWork = w
    BY ZenonT(60), <1>1, <1>3 DEF Entry
  <2> HIDE DEF e
  <2> QED BY <1>1, <2>1, <2>2
<1> QED BY <1>5 DEF Weighs, w

LEMMA WeighsKeeps ==
    ASSUME Shape, Works, Rising, NEW b \in linked \ {Genesis}, Weighs(b)
    PROVE  /\ DOMAIN index' = DOMAIN index /\ \A x \in DOMAIN index : index'[x] \in Entry
           /\ \A x \in DOMAIN index \ {Genesis} :
                 index'[x].nChainWork = index'[Parent(x)].nChainWork + Proof[x]
           /\ \A x \in DOMAIN index \ {Genesis} : index'[x].nSealWeight \in {Neutral, sealWeight[x]}
           /\ \A x, y \in linked \ {b} : Worse(index', x, y) <=> Worse(index, x, y)
           /\ Unpenalised => index[b].nChainSealWork <= index'[b].nChainSealWork
           /\ Unpenalised => \A x \in DOMAIN index \ {Genesis} :
                 index'[x].nChainSealWork <= index'[Parent(x)].nChainSealWork + Weighted(x, index'[x].nSealWeight)
<1>1. DOMAIN index' = DOMAIN index /\ \A x \in DOMAIN index : index'[x] \in Entry
  BY DEF Weighs
<1>2. /\ b \in DOMAIN index \ {Genesis} /\ linked \subseteq DOMAIN index /\ b \in Blocks
      /\ DOMAIN index \subseteq Blocks
      /\ \A x \in DOMAIN index \ {Genesis} : Parent(x) \in DOMAIN index
      /\ \A x \in DOMAIN index : index[x].nChainSealWork \in Nat /\ index[x].nSealWeight \in Nat
      /\ \A x \in DOMAIN index \ {Genesis} : sealWeight[x] \in Nat
  BY ShapeFacts
<1>3. \A x \in DOMAIN index : index'[x].nChainWork = index[x].nChainWork
  BY Zenon DEF Weighs
<1>4. \A x \in DOMAIN index \ {Genesis} :
         index'[x].nChainWork = index'[Parent(x)].nChainWork + Proof[x]
  BY Zenon, <1>2, <1>3 DEF Works
<1>5. \A x \in DOMAIN index \ {Genesis} : index'[x].nSealWeight \in {Neutral, sealWeight[x]}
  BY Zenon, <1>2 DEF Weighs, Rising
<1>6. \A x, y \in linked \ {b} : Worse(index', x, y) <=> Worse(index, x, y)
  BY <1>2, WorseSame DEF Weighs
<1>7. Parent(b) # b
  <2>1. Len(Parent(b)) = Len(b) - 1 /\ Len(b) \in Nat
    BY <1>2, ParentFacts
  <2> QED BY <2>1
<1>8. ASSUME Unpenalised PROVE index[b].nChainSealWork <= index'[b].nChainSealWork
  <2>1. CASE index'[b] = index[b]
    BY <1>2, <2>1
  <2>2. CASE index'[b].nChainSealWork = index[Parent(b)].nChainSealWork + Weighted(b, sealWeight[b])
    <3>1. index[b].nSealWeight <= sealWeight[b]
      BY <1>2, <1>8 DEF Rising, Unpenalised
    <3>2. /\ Weighted(b, index[b].nSealWeight) <= Weighted(b, sealWeight[b])
          /\ Weighted(b, index[b].nSealWeight) \in Nat /\ Weighted(b, sealWeight[b]) \in Nat
      BY SMTT(60), <1>2, <3>1, WeightedFacts
    <3>3. index[b].nChainSealWork <= index[Parent(b)].nChainSealWork + Weighted(b, index[b].nSealWeight)
      BY <1>2, <1>8 DEF Rising
    <3>4. index[b].nChainSealWork \in Nat /\ index[Parent(b)].nChainSealWork \in Nat
      BY <1>2
    <3> QED BY SMTT(60), <2>2, <3>2, <3>3, <3>4
  <2> QED BY <2>1, <2>2 DEF Weighs
<1>9. ASSUME Unpenalised, NEW x \in DOMAIN index \ {Genesis}
      PROVE  index'[x].nChainSealWork <= index'[Parent(x)].nChainSealWork + Weighted(x, index'[x].nSealWeight)
  <2>1. /\ Parent(x) \in DOMAIN index /\ index[x].nChainSealWork \in Nat /\ index[Parent(x)].nChainSealWork \in Nat
        /\ index'[Parent(x)].nChainSealWork \in Nat /\ index[Parent(x)].nChainSealWork <= index'[Parent(x)].nChainSealWork
    BY SMTT(60), <1>1, <1>2, <1>8, <1>9 DEF Weighs, Entry
  <2>2. index[x].nChainSealWork <= index[Parent(x)].nChainSealWork + Weighted(x, index[x].nSealWeight)
    BY <1>9 DEF Rising
  <2>3. Weighted(x, index[x].nSealWeight) \in Nat
    BY <1>2, WeightedFacts
  <2>4. CASE index'[x] = index[x]
    BY SMTT(60), <2>1, <2>2, <2>3, <2>4
  <2>5. CASE index'[x] # index[x]
    <3>1. /\ x = b /\ index'[Parent(b)] = index[Parent(b)] /\ index'[b].nSealWeight = sealWeight[b]
          /\ index'[b].nChainSealWork = index[Parent(b)].nChainSealWork + Weighted(b, sealWeight[b])
      BY SMTT(60), <1>7, <2>1, <2>5 DEF Weighs
    <3>2. index'[b].nChainSealWork \in Nat
      BY <1>1, <1>2 DEF Entry
    <3> QED BY SMTT(60), <3>1, <3>2
  <2> QED BY SMTT(60), <2>4, <2>5
<1> QED BY Zenon, <1>1, <1>4, <1>5, <1>6, <1>8, <1>9

LEMMA ConnectStep == ASSUME IInv, ConnectTip PROVE IInv'
<1>0. Shape /\ Verdicts /\ Works /\ Control /\ Rising
  BY DEF IInv
<1>1. PICK b : b = SubSeq(mostWork, 1, Len(tip) + 1)
  BY ZenonT(60)
<1>2. /\ sealWeight' = sealWeight /\ verdict' = verdict /\ data' = data /\ linked' = linked
      /\ unlinked' = unlinked /\ failed' = failed /\ failedBlocks' = failedBlocks /\ nextSeq' = nextSeq
      /\ called' = called /\ startingTip' = startingTip /\ oldTip' = oldTip
      /\ loading' = loading /\ restarts' = restarts
      /\ pc = "connect" /\ verdict[b] = "valid" /\ index' = ConnectedIndex(b) /\ tip' = b
  BY Zenon, <1>1 DEF ConnectTip, oracle, loadVars
<1>3. /\ candidates' = {c \in candidates \cup {b} : ~Worse(index', c, b)}
      /\ mostWork' = mostWork
      /\ \/ pc' = "connect" /\ b # mostWork
         \/ pc' = IF Worse(index', b, startingTip) THEN "find" ELSE IF b # mostWork THEN "start" ELSE "idle"
  BY ZenonT(60), <1>1, <1>2 DEF ConnectTip, PruneBlockIndexCandidates, AfterStep
<1>4. /\ mostWork # NoBlock /\ IsAncestor(tip, mostWork) /\ tip # mostWork /\ startingTip # NoBlock
      /\ startingTip \in candidates \/ Worse(index, startingTip, tip)
  BY Zenon, <1>0, <1>2 DEF Control
<1>5. /\ mostWork \in linked /\ startingTip \in linked /\ tip \in linked /\ candidates \subseteq linked
      /\ linked \subseteq DOMAIN index /\ linked \subseteq Blocks
  BY Zenon, <1>0, <1>4, ShapeFacts DEF Shape, TypeOK
<1>6. /\ b \in linked /\ b # Genesis /\ b # tip /\ Parent(b) = tip /\ Len(b) = Len(tip) + 1
      /\ \A n \in 0 .. Len(tip) : At(b, n) = At(tip, n) /\ At(b, n) # b
      /\ IsAncestor(b, mostWork)
  BY ZenonT(60), <1>0, <1>1, <1>4, <1>5, NextBlock
<1>7. /\ Weighs(b) /\ index'[b].nSealWeight = sealWeight[b]
      /\ index'[b].nChainSealWork = index[tip].nChainSealWork + Weighted(b, sealWeight[b])
  BY Zenon, <1>0, <1>2, <1>6, ConnectedFacts
<1>8. /\ DOMAIN index' = DOMAIN index /\ \A x \in DOMAIN index : index'[x] \in Entry
      /\ \A x \in DOMAIN index \ {Genesis} :
            index'[x].nChainWork = index'[Parent(x)].nChainWork + Proof[x]
      /\ \A x \in DOMAIN index \ {Genesis} : index'[x].nSealWeight \in {Neutral, sealWeight[x]}
      /\ \A x, y \in linked \ {b} : Worse(index', x, y) <=> Worse(index, x, y)
      /\ Unpenalised => index[b].nChainSealWork <= index'[b].nChainSealWork
      /\ Unpenalised => \A x \in DOMAIN index \ {Genesis} :
            index'[x].nChainSealWork <= index'[Parent(x)].nChainSealWork + Weighted(x, index'[x].nSealWeight)
  BY ZenonT(60), <1>0, <1>6, <1>7, WeighsKeeps
<1>9. index' \in [DOMAIN index' -> Entry] /\ \A x \in DOMAIN index \ {b} : index'[x] = index[x]
  BY Zenon, <1>7 DEF Weighs
<1>10. /\ \A x \in linked : ~Worse(index', x, x)
       /\ \A x, y \in linked : Worse(index', x, y) => ~Worse(index', y, x)
       /\ \A x, y, z \in linked : Worse(index', x, y) /\ Worse(index', y, z) => Worse(index', x, z)
  <2>1. linked \in SUBSET Blocks /\ \A x \in linked : index'[x] \in Entry
    BY <1>5, <1>8
  <2> QED BY <2>1, WorseOrder
<1>11. Len(tip) \in Nat /\ At(tip, Len(tip)) = tip /\ At(b, Len(b)) = b /\ \A n \in 0 .. Len(tip) : At(tip, n) \in linked
  <2>1. tip \in Blocks /\ b \in Blocks
    BY <1>5, <1>6
  <2>2. Len(tip) \in Nat /\ At(tip, Len(tip)) = tip /\ At(b, Len(b)) = b
    BY <2>1, BlockFacts
  <2>3. \A n \in 0 .. Len(tip) : At(tip, n) \in linked
    BY SMTT(60), <1>0, <1>5 DEF Shape, Closed
  <2> QED BY <2>2, <2>3
<1>12. /\ index[tip].nChainSealWork \in Nat /\ index[tip].nChainWork \in Nat /\ Proof[b] \in Nat \ {0}
       /\ Weighted(b, sealWeight[b]) \in Nat /\ index'[b].nChainSealWork >= index[tip].nChainSealWork
       /\ index'[b].nChainWork > index[tip].nChainWork
  <2>1. b \in Blocks /\ sealWeight[b] \in Nat
    BY Zenon, <1>0, <1>5, <1>6, ShapeFacts
  <2>2. Weighted(b, sealWeight[b]) \in Nat
    BY <2>1, WeightedFacts
  <2>3. index[tip].nChainSealWork \in Nat /\ index[tip].nChainWork \in Nat /\ Proof[b] \in Nat \ {0}
    BY Zenon, <1>0, <1>5, <2>1, ShapeFacts, TreeAssumption
  <2>4. index'[b].nChainWork = index[tip].nChainWork + Proof[b]
    BY Zenon, <1>5, <1>6, <1>8, <1>9
  <2>5. index'[b].nChainSealWork >= index[tip].nChainSealWork
    BY SMTT(60), <1>7, <2>2, <2>3
  <2>6. index'[b].nChainWork > index[tip].nChainWork
    BY SMTT(60), <2>3, <2>4
  <2> QED BY ZenonT(60), <2>2, <2>3, <2>5, <2>6
<1>13. Shape'
  <2>1. TypeOK'
    <3>1. candidates' \subseteq linked /\ tip' \in linked /\ pc' \in {"connect", "find", "start", "idle"}
      BY Zenon, <1>2, <1>3, <1>5, <1>6
    <3> QED BY Zenon, <1>0, <1>2, <1>3, <1>8, <3>1 DEF Shape, TypeOK
  <2>2. Closed(DOMAIN index') /\ Closed(linked')
    BY Zenon, <1>0, <1>2, <1>8 DEF Shape
  <2> QED BY SMTT(60), <1>9, <2>1, <2>2 DEF Shape
<1>14. Verdicts'
  <2>1. Valid(b)
    <3> SUFFICES ASSUME NEW n \in 1 .. Len(b) PROVE verdict[At(b, n)] = "valid"
      BY DEF Valid
    <3>1. CASE n = Len(b)
      BY <1>2, <1>11, <3>1
    <3>2. CASE n # Len(b)
      <4>1. n \in 1 .. Len(tip) /\ n \in 0 .. Len(tip)
        BY SMTT(60), <1>6, <1>11, <3>2
      <4> QED BY <1>0, <1>6, <4>1 DEF Verdicts, Valid
    <3> QED BY <3>1, <3>2
  <2> QED BY Zenon, <1>0, <1>2, <2>1 DEF Verdicts, Valid
<1>15. Works'
  <2>1. ASSUME NEW n \in 1 .. Len(b)
        PROVE  index'[At(b, n)].nChainSealWork =
                   index'[At(b, n - 1)].nChainSealWork + Weighted(At(b, n), index'[At(b, n)].nSealWeight)
    <3>1. CASE n = Len(b)
      <4>1. At(b, n) = b /\ n - 1 = Len(tip) /\ At(b, n - 1) = tip
        BY <1>6, <1>11, <3>1
      <4>2. index'[tip] = index[tip]
        BY Zenon, <1>5, <1>6, <1>9
      <4> QED BY Zenon, <1>7, <4>1, <4>2
    <3>2. CASE n # Len(b)
      <4>1. n \in 1 .. Len(tip) /\ n \in 0 .. Len(tip) /\ n - 1 \in 0 .. Len(tip)
        BY <1>6, <1>11, <3>2
      <4>2. /\ At(b, n) = At(tip, n) /\ At(b, n - 1) = At(tip, n - 1)
            /\ index'[At(tip, n)] = index[At(tip, n)] /\ index'[At(tip, n - 1)] = index[At(tip, n - 1)]
        BY Zenon, <1>5, <1>6, <1>9, <1>11, <4>1
      <4> QED BY Zenon, <1>0, <4>1, <4>2 DEF Works
    <3> QED BY Zenon, <3>1, <3>2
  <2>2. ASSUME NEW n \in 0 .. Len(b), NEW m \in 0 .. n - 1
        PROVE  /\ index'[At(b, m)].nChainSealWork <= index'[At(b, n)].nChainSealWork
               /\ index'[At(b, m)].nChainWork < index'[At(b, n)].nChainWork
    <3>1. m \in 0 .. Len(tip) /\ At(b, m) = At(tip, m) /\ At(tip, m) \in linked \ {b}
      BY <1>6, <1>11
    <3>2. index'[At(b, m)] = index[At(tip, m)]
      BY <1>5, <1>9, <3>1
    <3>3. CASE n = Len(b)
      <4>1. At(b, n) = b
        BY <1>11, <3>3
      <4>2. /\ index[At(tip, m)].nChainSealWork <= index[tip].nChainSealWork
            /\ index[At(tip, m)].nChainWork <= index[tip].nChainWork
        <5>1. CASE m = Len(tip)
          BY SMTT(60), <1>11, <1>12, <5>1
        <5>2. CASE m # Len(tip)
          <6>1. m \in 0 .. Len(tip) - 1 /\ Len(tip) \in 0 .. Len(tip)
            BY SMTT(60), <1>11, <3>1, <5>2
          <6>2. /\ index[At(tip, m)].nChainSealWork <= index[tip].nChainSealWork
                /\ index[At(tip, m)].nChainWork < index[tip].nChainWork
            BY Zenon, <1>0, <1>11, <6>1 DEF Works
          <6>3. index[At(tip, m)].nChainWork \in Nat
            BY Zenon, <1>0, <1>5, <3>1, ShapeFacts
          <6> QED BY <1>12, <6>2, <6>3
        <5> QED BY Zenon, <5>1, <5>2
      <4>3. index[At(tip, m)].nChainSealWork \in Nat /\ index[At(tip, m)].nChainWork \in Nat
        BY Zenon, <1>0, <1>5, <3>1, ShapeFacts
      <4>4. index'[b].nChainSealWork \in Nat /\ index'[b].nChainWork \in Nat
        BY Zenon, <1>5, <1>6, <1>8 DEF Entry
      <4>5. /\ index[At(tip, m)].nChainSealWork <= index'[b].nChainSealWork
            /\ index[At(tip, m)].nChainWork < index'[b].nChainWork
        <5>1. \A i, j, k \in Nat : (i <= j /\ k >= j => i <= k) /\ (i <= j /\ k > j => i < k)
          BY SMTT(60)
        <5> QED BY <1>12, <4>2, <4>3, <4>4, <5>1, Zenon
      <4> QED BY <3>2, <4>1, <4>5
    <3>4. CASE n # Len(b)
      <4>1. n \in 0 .. Len(tip) /\ At(b, n) = At(tip, n) /\ At(tip, n) \in linked \ {b}
        BY <1>6, <1>11, <3>4
      <4>2. index'[At(b, n)] = index[At(tip, n)]
        BY Zenon, <1>5, <1>9, <4>1
      <4> QED BY Zenon, <1>0, <3>2, <4>1, <4>2 DEF Works
    <3> QED BY ZenonT(60), <3>3, <3>4
  <2> QED BY ZenonT(60), <1>2, <1>8, <2>1, <2>2 DEF Works
<1>16. Worse(index', tip, b)
  <2>1. index'[tip] = index[tip] /\ index'[b].nChainSealWork \in Nat /\ index'[b].nChainWork \in Nat
    BY Zenon, <1>5, <1>6, <1>8, <1>9 DEF Entry
  <2> QED BY SMTT(60), <1>12, <2>1 DEF Worse
<1>17. b \in candidates'
  BY Zenon, <1>3, <1>6, <1>10
<1>18. startingTip \in candidates' \/ Worse(index', startingTip, b)
  <2>1. CASE startingTip = b
    BY SMTT(60), <1>17, <2>1
  <2>2. CASE startingTip # b /\ Worse(index, startingTip, tip)
    BY Zenon, <1>5, <1>6, <1>8, <1>10, <1>16, <2>2
  <2>3. CASE startingTip # b /\ startingTip \in candidates
    BY <1>3, <2>3
  <2> QED BY <1>4, <2>1, <2>2, <2>3
<1>19. Worse(index', b, startingTip) => startingTip \in candidates'
  BY Zenon, <1>5, <1>6, <1>10, <1>18
<1>20. Control'
  BY Zenon, <1>2, <1>3, <1>4, <1>6, <1>17, <1>18, <1>19 DEF Control, MainFree
<1>21. Unpenalised => ~Worse(index', mostWork, startingTip) \/ IsAncestor(startingTip, mostWork)
  <2> SUFFICES ASSUME Unpenalised, ~IsAncestor(startingTip, mostWork), Worse(index', mostWork, startingTip)
               PROVE  FALSE
    BY Zenon, SMTT(60)
  <2>1. ~Worse(index, mostWork, startingTip)
    BY Zenon, <1>0, <1>2, <1>4 DEF Rising
  <2>2. startingTip # b
    BY SMTT(60), <1>6
  <2>3. CASE mostWork # b
    BY Zenon, <1>5, <1>8, <2>1, <2>2, <2>3
  <2>4. CASE mostWork = b
    <3>1. /\ index'[startingTip] = index[startingTip] /\ index[b].nChainSealWork <= index'[b].nChainSealWork
          /\ index'[b].nChainWork = index[b].nChainWork /\ index'[b].nSequenceId = index[b].nSequenceId
      BY Zenon, <1>5, <1>7, <1>8, <1>9, <2>2 DEF Weighs
    <3>2. /\ index[startingTip].nChainSealWork \in Nat /\ index[b].nChainSealWork \in Nat
          /\ index'[b].nChainSealWork \in Nat
      BY Zenon, <1>0, <1>5, <1>6, <1>8, ShapeFacts DEF Entry
    <3>3. Worse(index', b, startingTip) => Worse(index, b, startingTip)
      BY Zenon, <3>1, <3>2, AheadStays
    <3> QED BY SMTT(60), <2>1, <2>4, <3>3
  <2> QED BY Zenon, <2>3, <2>4
<1>22. Rising'
  <2>1. UnpenalisedProgress'
    BY Zenon, <1>2, <1>3 DEF UnpenalisedProgress, ForwardProgress, MainFree
  <2> QED BY ZenonT(60), <1>2, <1>3, <1>8, <1>21, <2>1 DEF Rising, Unpenalised
<1> QED BY <1>13, <1>14, <1>15, <1>20, <1>22 DEF IInv

LEMMA FailStep == ASSUME IInv, ConnectTipFails PROVE IInv'
<1>0. Shape /\ Verdicts /\ Works /\ Control /\ Rising
  BY DEF IInv
<1>1. PICK b : b = SubSeq(mostWork, 1, Len(tip) + 1)
  BY Zenon
<1>2. /\ sealWeight' = sealWeight /\ verdict' = verdict /\ data' = data /\ linked' = linked
      /\ unlinked' = unlinked /\ nextSeq' = nextSeq /\ tip' = tip
      /\ called' = called /\ startingTip' = startingTip /\ oldTip' = oldTip
      /\ loading' = loading /\ restarts' = restarts
      /\ pc = "connect" /\ verdict[b] # "valid" /\ index' \in {index, ConnectedIndex(b)}
      /\ failed' = failed \cup {b} /\ failedBlocks' = failedBlocks \cup {b} /\ candidates' = candidates \ {b}
      /\ mostWork' = NoBlock
      /\ pc' = IF Worse(index', tip, startingTip) THEN "find" ELSE IF tip # NoBlock THEN "start" ELSE "idle"
  BY Zenon, <1>1 DEF ConnectTipFails, AfterStep, oracle, loadVars
<1>3. /\ mostWork # NoBlock /\ IsAncestor(tip, mostWork) /\ tip # mostWork /\ startingTip # NoBlock
      /\ startingTip \in candidates \/ Worse(index, startingTip, tip)
      /\ tip \in candidates \/ Worse(index, tip, startingTip)
      /\ \A c \in candidates : ~Worse(index, c, tip)
  BY Zenon, <1>0, <1>2 DEF Control
<1>4. /\ mostWork \in linked /\ startingTip \in linked /\ tip \in linked /\ candidates \subseteq linked
      /\ linked \subseteq DOMAIN index /\ linked \subseteq Blocks /\ \A x \in linked : index[x] \in Entry
  BY Zenon, <1>0, <1>3, ShapeFacts DEF Shape, TypeOK
<1>5. /\ b \in linked /\ b # Genesis /\ b # tip /\ Parent(b) = tip /\ Len(b) = Len(tip) + 1
      /\ \A n \in 0 .. Len(tip) : At(b, n) = At(tip, n) /\ At(b, n) # b
  BY ZenonT(60), <1>0, <1>1, <1>3, <1>4, NextBlock
<1>6. Weighs(b)
  <2>1. CASE index' = ConnectedIndex(b)
    BY Zenon, <1>0, <1>5, <2>1, ConnectedFacts
  <2>2. CASE index' = index
    BY Zenon, <1>0, <2>2 DEF Shape, Weighs
  <2> QED BY SMTT(60), <1>2, <2>1, <2>2
<1>7. /\ DOMAIN index' = DOMAIN index /\ \A x \in DOMAIN index : index'[x] \in Entry
      /\ \A x \in DOMAIN index \ {Genesis} :
            index'[x].nChainWork = index'[Parent(x)].nChainWork + Proof[x]
      /\ \A x \in DOMAIN index \ {Genesis} : index'[x].nSealWeight \in {Neutral, sealWeight[x]}
      /\ \A x, y \in linked \ {b} : Worse(index', x, y) <=> Worse(index, x, y)
      /\ Unpenalised => \A x \in DOMAIN index \ {Genesis} :
            index'[x].nChainSealWork <= index'[Parent(x)].nChainSealWork + Weighted(x, index'[x].nSealWeight)
  BY ZenonT(60), <1>0, <1>5, <1>6, WeighsKeeps
<1>8. index' \in [DOMAIN index' -> Entry] /\ \A x \in DOMAIN index \ {b} : index'[x] = index[x]
  BY Zenon, <1>6 DEF Weighs
<1>9. ~Valid(b)
  <2>1. Len(b) \in Nat /\ Len(b) > 0 /\ At(b, Len(b)) = b
    BY Zenon, <1>4, <1>5, BlockFacts
  <2>2. Len(b) \in 1 .. Len(b)
    BY <2>1
  <2> QED BY Zenon, <1>2, <2>1, <2>2 DEF Valid
<1>10. startingTip # b /\ NoBlock \notin linked
  BY Zenon, <1>0, <1>3, <1>4, <1>9, TreeAssumption DEF Verdicts
<1>11. \A n \in 0 .. Len(tip) : index'[At(tip, n)] = index[At(tip, n)]
  <2> TAKE n \in 0 .. Len(tip)
  <2>1. At(tip, n) \in linked /\ At(tip, n) # b
    BY Zenon, <1>0, <1>4, <1>5 DEF Shape, Closed
  <2> QED BY Zenon, <1>4, <1>8, <2>1
<1>12. Shape'
  <2>1. TypeOK'
    <3>1. candidates' \subseteq linked /\ pc' \in {"find", "start", "idle"} /\ b \in DOMAIN index
      BY Zenon, <1>2, <1>4, <1>5
    <3> QED BY SMTT(60), <1>0, <1>2, <1>7, <3>1 DEF Shape, TypeOK
  <2>2. Closed(DOMAIN index') /\ Closed(linked')
    BY Zenon, <1>0, <1>2, <1>7 DEF Shape
  <2> QED BY <1>8, <2>1, <2>2 DEF Shape
<1>13. Verdicts'
  BY Zenon, <1>0, <1>2, <1>9 DEF Verdicts, Valid
<1>14. Works'
  <2>1. Len(tip) \in Nat
    BY Zenon, <1>4, BlockFacts
  <2>2. ASSUME NEW n \in 1 .. Len(tip)
        PROVE  index'[At(tip, n)].nChainSealWork =
                   index'[At(tip, n - 1)].nChainSealWork + Weighted(At(tip, n), index'[At(tip, n)].nSealWeight)
    <3>1. n \in 0 .. Len(tip) /\ n - 1 \in 0 .. Len(tip)
      BY SMTT(60), <2>1
    <3> QED BY Zenon, <1>0, <1>11, <3>1 DEF Works
  <2>3. ASSUME NEW n \in 0 .. Len(tip), NEW m \in 0 .. n - 1
        PROVE  /\ index'[At(tip, m)].nChainSealWork <= index'[At(tip, n)].nChainSealWork
               /\ index'[At(tip, m)].nChainWork < index'[At(tip, n)].nChainWork
    <3>1. m \in 0 .. Len(tip)
      BY <2>1
    <3> QED BY Zenon, <1>0, <1>11, <3>1 DEF Works
  <2> QED BY ZenonT(60), <1>2, <1>7, <2>2, <2>3 DEF Works
<1>15. \A x, y \in linked : Worse(index, x, y) => ~Worse(index, y, x)
  BY Zenon, <1>4, WorseOrder
<1>16. Worse(index', tip, startingTip) <=> Worse(index, tip, startingTip)
  BY Zenon, <1>4, <1>5, <1>7, <1>10
<1>17. Control'
  <2>1. \A c \in candidates' : ~Worse(index', c, tip)
    BY ZenonT(60), <1>2, <1>3, <1>4, <1>5, <1>7
  <2>2. pc' = "find" => startingTip \in candidates' /\ Worse(index', tip, startingTip)
    BY ZenonT(60), <1>2, <1>3, <1>4, <1>10, <1>15, <1>16
  <2>3. pc' = "start" => tip \in candidates'
    BY Zenon, <1>2, <1>3, <1>5, <1>16
  <2>4. pc' \in {"find", "start"}
    BY Zenon, <1>2, <1>4, <1>10
  <2> QED BY Zenon, <1>2, <1>3, <2>1, <2>2, <2>3, <2>4 DEF Control, MainFree
<1>18. Rising'
  <2>1. UnpenalisedProgress'
    BY Zenon, <1>2 DEF UnpenalisedProgress, ForwardProgress, MainFree
  <2> QED BY ZenonT(60), <1>2, <1>7, <2>1 DEF Rising, Unpenalised
<1> QED BY <1>12, <1>13, <1>14, <1>17, <1>18 DEF IInv

-----------------------------------------------------------------------------
(* Shutdown and start. *)
LEMMA RestartStep == ASSUME IInv, Restart PROVE IInv'
<1>0. Shape /\ Verdicts /\ Works /\ Control /\ Rising
  BY DEF IInv
<1>1. /\ sealWeight' = sealWeight /\ verdict' = verdict /\ data' = data /\ linked' = linked
      /\ failed' = failed /\ tip' = tip /\ restarts' = restarts + 1
      /\ pc' = "load" /\ loading' = 1 /\ unlinked' = {} /\ failedBlocks' = {} /\ nextSeq' = 1
      /\ candidates' = {} /\ called' = FALSE
      /\ startingTip' = NoBlock /\ oldTip' = NoBlock /\ mostWork' = NoBlock
      /\ index' = [b \in DOMAIN index |-> [index[b] EXCEPT !.nSequenceId = 0]]
  BY DEF Restart, oracle
<1>2. /\ DOMAIN index' = DOMAIN index /\ index' \in [DOMAIN index' -> Entry]
      /\ \A x \in DOMAIN index : index'[x] \in Entry
  BY <1>0, <1>1 DEF Shape, TypeOK, Entry
<1>3. \A x \in DOMAIN index : /\ index'[x].nSealWeight = index[x].nSealWeight
                              /\ index'[x].nChainSealWork = index[x].nChainSealWork
                              /\ index'[x].nChainWork = index[x].nChainWork
  BY Zenon, <1>0, <1>1 DEF Shape, TypeOK, Entry
<1>4. /\ \A x \in DOMAIN index \ {Genesis} : Parent(x) \in DOMAIN index
      /\ Len(tip) \in Nat /\ \A n \in 0 .. Len(tip) : At(tip, n) \in DOMAIN index
  BY ZenonT(60), <1>0, ShapeFacts, BlockFacts DEF Shape, TypeOK, Closed
<1>5. Shape'
  <2>1. /\ sealWeight' = sealWeight /\ verdict' = verdict /\ data' = data /\ linked' = linked
        /\ failed' = failed /\ tip' = tip /\ restarts' = restarts + 1 /\ pc' = "load" /\ loading' = 1
        /\ unlinked' = {} /\ failedBlocks' = {} /\ nextSeq' = 1 /\ candidates' = {} /\ called' = FALSE
        /\ startingTip' = NoBlock /\ oldTip' = NoBlock /\ mostWork' = NoBlock
    BY <1>1
  <2>2. TypeOK'
    <3>1. TypeOK
      BY <1>0 DEF Shape
    <3>2. /\ DOMAIN index' \subseteq Blocks /\ data' \subseteq DOMAIN index' /\ linked' \subseteq data'
          /\ unlinked' \subseteq data' \ linked' /\ failedBlocks' \subseteq failed'
          /\ failed' \subseteq DOMAIN index' /\ candidates' \subseteq linked' /\ tip' \in linked'
      BY Zenon, <1>2, <2>1, <3>1 DEF TypeOK
    <3>3. nextSeq' \in Nat /\ loading' \in Nat /\ restarts' \in Nat
      BY <2>1, <3>1 DEF TypeOK
    <3>4. called' \in BOOLEAN
      BY <2>1, Zenon
    <3>5. {mostWork', startingTip', oldTip'} \subseteq linked' \cup {NoBlock}
      BY <2>1
    <3> QED BY Zenon, <1>2, <2>1, <3>1, <3>2, <3>3, <3>4, <3>5 DEF TypeOK
  <2> QED BY Zenon, <1>0, <1>2, <2>1, <2>2 DEF Shape, Closed
<1>6. Verdicts'
  BY <1>0, <1>1 DEF Verdicts, Valid
<1>7. Works'
  <2>1. \A x \in DOMAIN index' \ {Genesis} : index'[x].nChainWork = index'[Parent(x)].nChainWork + Proof[x]
    BY ZenonT(60), <1>0, <1>2, <1>3, <1>4 DEF Works
  <2>2. ASSUME NEW n \in 1 .. Len(tip)
        PROVE  index'[At(tip, n)].nChainSealWork =
                   index'[At(tip, n - 1)].nChainSealWork + Weighted(At(tip, n), index'[At(tip, n)].nSealWeight)
    <3>1. n \in 0 .. Len(tip) /\ n - 1 \in 0 .. Len(tip)
      BY SMTT(60), <1>4
    <3> QED BY Zenon, <1>0, <1>3, <1>4, <3>1 DEF Works
  <2>3. ASSUME NEW n \in 0 .. Len(tip), NEW m \in 0 .. n - 1
        PROVE  /\ index'[At(tip, m)].nChainSealWork <= index'[At(tip, n)].nChainSealWork
               /\ index'[At(tip, m)].nChainWork < index'[At(tip, n)].nChainWork
    <3>1. m \in 0 .. Len(tip)
      BY <1>4
    <3> QED BY Zenon, <1>0, <1>3, <1>4, <3>1 DEF Works
  <2> QED BY ZenonT(60), <1>1, <2>1, <2>2, <2>3 DEF Works
<1>8. Control'
  BY <1>1 DEF Control, MainFree
<1>9. Rising'
  <2>1. \A x \in DOMAIN index' \ {Genesis} : index'[x].nSealWeight \in {Neutral, sealWeight[x]}
    BY Zenon, <1>0, <1>2, <1>3 DEF Rising
  <2>2. Unpenalised => \A x \in DOMAIN index' \ {Genesis} :
           index'[x].nChainSealWork <= index'[Parent(x)].nChainSealWork + Weighted(x, index'[x].nSealWeight)
    BY Zenon, <1>0, <1>2, <1>3, <1>4 DEF Rising
  <2> QED BY Zenon, <1>1, <2>1, <2>2 DEF Rising, UnpenalisedProgress, ForwardProgress, Unpenalised, MainFree
<1> QED BY <1>5, <1>6, <1>7, <1>8, <1>9 DEF IInv

(* Loading a height leaves the active chain as it is and, without the      *)
(* penalty, raises the work of the others at most.                         *)
LEMMA LoadStep == ASSUME IInv, LoadBlockIndex PROVE IInv'
<1>0. Shape /\ Verdicts /\ Works /\ Control /\ Rising
  BY DEF IInv
<1>1. /\ UNCHANGED <<sealWeight, verdict, data, linked, failedBlocks, nextSeq, called, pc, mostWork,
                     startingTip, oldTip, candidates, tip, restarts>>
      /\ pc = "load" /\ loading' = loading + 1
      /\ failed' = failed \cup {b \in Level : Parent(b) \in failed}
      /\ unlinked' = unlinked \cup (Level \cap (data \ linked))
      /\ index' = [b \in DOMAIN index |-> IF b \in Level THEN Reloaded(b) ELSE index[b]]
  BY Zenon DEF LoadBlockIndex, oracle, abcVars
<1>2. candidates = {} /\ startingTip = NoBlock /\ loading > 0 /\ loading \in Nat
  BY Zenon, <1>0, <1>1 DEF Control, Shape, TypeOK
<1>3. /\ Level \subseteq DOMAIN index \ {Genesis} /\ DOMAIN index \subseteq Blocks /\ tip \in linked
      /\ linked \subseteq DOMAIN index /\ \A b \in Level : Len(b) = loading
      /\ \A b \in DOMAIN index \ {Genesis} : Parent(b) \in DOMAIN index
      /\ \A x \in DOMAIN index : /\ index[x] \in Entry /\ index[x].nChainSealWork \in Nat
                                 /\ index[x].nSealWeight \in Nat
  <2>1. Len(Genesis) = 0
    BY Zenon, BlockFacts
  <2>2. Level \subseteq DOMAIN index \ {Genesis} /\ \A b \in Level : Len(b) = loading
    BY <1>2, <2>1 DEF Level
  <2> QED BY Zenon, <1>0, <2>2, ShapeFacts DEF Shape, TypeOK
<1>4. \A b \in DOMAIN index \ {Genesis} : Weighted(b, index[b].nSealWeight) \in Nat
  BY Zenon, <1>3, WeightedFacts
<1>5. ASSUME NEW b \in Level
      PROVE  /\ index'[b] \in Entry /\ index'[b].nSealWeight = index[b].nSealWeight
             /\ index'[b].nChainWork = index[b].nChainWork
             /\ index'[b].nChainSealWork = index[Parent(b)].nChainSealWork + Weighted(b, index[b].nSealWeight)
             /\ Parent(b) \in DOMAIN index \ Level
  <2>1. index'[b] = Reloaded(b) /\ b \in DOMAIN index \ {Genesis} /\ b \in Blocks
    BY Zenon, <1>1, <1>3
  <2>2. index[b] \in Entry /\ index[Parent(b)].nChainSealWork + Weighted(b, index[b].nSealWeight) \in Nat
    BY SMTT(60), <1>3, <1>4, <2>1
  <2>3. Len(Parent(b)) = Len(b) - 1 /\ Len(b) \in Nat
    BY Zenon, <2>1, ParentFacts
  <2>4. Parent(b) \in DOMAIN index \ Level
    BY <1>3, <2>1, <2>3
  <2> QED BY Zenon, <2>1, <2>2, <2>4 DEF Reloaded, Entry
<1>6. \A x \in DOMAIN index \ Level : index'[x] = index[x]
  BY Zenon, <1>1
<1>7. /\ DOMAIN index' = DOMAIN index /\ \A x \in DOMAIN index : index'[x] \in Entry
      /\ index' \in [DOMAIN index' -> Entry]
  <2>1. DOMAIN index' = DOMAIN index
    BY Zenon, <1>1
  <2>2. \A x \in DOMAIN index : index'[x] \in Entry
    BY Zenon, <1>3, <1>5, <1>6
  <2>3. index' = [x \in DOMAIN index |-> index'[x]]
    BY Zenon, <1>1
  <2> QED BY Zenon, <2>1, <2>2, <2>3
<1>8. \A x \in DOMAIN index : /\ index'[x].nSealWeight = index[x].nSealWeight
                              /\ index'[x].nChainWork = index[x].nChainWork
  BY Zenon, <1>5, <1>6
<1>9. Len(tip) \in Nat /\ \A n \in 0 .. Len(tip) : At(tip, n) \in linked /\ Len(At(tip, n)) = n
  <2>1. tip \in Blocks
    BY Zenon, <1>3
  <2>2. Len(tip) \in Nat /\ \A n \in 0 .. Len(tip) : Len(At(tip, n)) = n
    BY Zenon, <2>1, BlockFacts
  <2>3. \A n \in 0 .. Len(tip) : At(tip, n) \in linked
    BY Zenon, <1>0, <1>3 DEF Shape, Closed
  <2> QED BY Zenon, <2>2, <2>3
<1>10. \A n \in 0 .. Len(tip) : index'[At(tip, n)].nChainSealWork = index[At(tip, n)].nChainSealWork
  <2> TAKE n \in 0 .. Len(tip)
  <2>1. CASE At(tip, n) \notin Level
    BY Zenon, <1>3, <1>6, <1>9, <2>1
  <2>2. CASE At(tip, n) \in Level
    <3>1. n = loading /\ n \in 1 .. Len(tip) /\ n - 1 \in 0 .. n
      BY <1>2, <1>3, <1>9, <2>2
    <3>2. Parent(At(tip, n)) = At(tip, n - 1)
      <4>1. At(tip, n) \in Blocks /\ tip \in Blocks
        BY Zenon, <1>3, <1>9
      <4>2. Parent(At(tip, n)) = At(At(tip, n), n - 1)
        BY <1>9, <4>1, BlockFacts
      <4>3. \A m \in 0 .. n : At(At(tip, n), m) = At(tip, m)
        BY ZenonT(60), <4>1, BlockFacts
      <4> QED BY Zenon, <3>1, <4>2, <4>3
    <3>3. index[At(tip, n)].nChainSealWork =
              index[At(tip, n - 1)].nChainSealWork + Weighted(At(tip, n), index[At(tip, n)].nSealWeight)
      BY Zenon, <1>0, <3>1 DEF Works
    <3> QED BY Zenon, <1>5, <2>2, <3>2, <3>3
  <2> QED BY Zenon, <2>1, <2>2
<1>11. Shape'
  <2>1. TypeOK'
    <3>1. /\ unlinked' \subseteq data \ linked /\ failed' \subseteq DOMAIN index /\ failedBlocks \subseteq failed'
          /\ loading' \in Nat
      BY <1>0, <1>1, <1>2, <1>3 DEF Shape, TypeOK
    <3> QED BY Zenon, <1>0, <1>1, <1>7, <3>1 DEF Shape, TypeOK
  <2>2. Closed(DOMAIN index') /\ Closed(linked')
    BY Zenon, <1>0, <1>1, <1>7 DEF Shape
  <2> QED BY Zenon, <1>7, <2>1, <2>2 DEF Shape
<1>12. Verdicts'
  <2>1. ASSUME NEW b \in Level, Parent(b) \in failed PROVE ~Valid(b)
    <3>1. b \in Blocks /\ b # Genesis /\ Parent(b) \in Blocks /\ ~Valid(Parent(b))
      BY Zenon, <1>0, <1>3, <2>1 DEF Verdicts
    <3>2. IsAncestor(Parent(b), b)
      <4>1. /\ Len(Parent(b)) <= Len(b) /\ At(b, Len(Parent(b))) = Parent(b)
        <5>1. Len(Parent(b)) = Len(b) - 1 /\ Len(b) \in Nat /\ Parent(b) = At(b, Len(b) - 1)
          BY Zenon, <3>1, ParentFacts, BlockFacts
        <5> QED BY <5>1
      <4> QED BY Zenon, <3>1, <4>1, AncestorFacts
    <3> QED BY Zenon, <3>1, <3>2, ValidFacts
  <2>2. \A f \in failed' : ~Valid(f)
    BY Zenon, <1>0, <1>1, <2>1 DEF Verdicts
  <2> QED BY Zenon, <1>0, <1>1, <2>2 DEF Verdicts, Valid
<1>13. Works'
  <2>1. \A x \in DOMAIN index' \ {Genesis} : index'[x].nChainWork = index'[Parent(x)].nChainWork + Proof[x]
    BY Zenon, <1>0, <1>3, <1>7, <1>8 DEF Works
  <2>2. ASSUME NEW n \in 1 .. Len(tip)
        PROVE  index'[At(tip, n)].nChainSealWork =
                   index'[At(tip, n - 1)].nChainSealWork + Weighted(At(tip, n), index'[At(tip, n)].nSealWeight)
    <3>1. n \in 0 .. Len(tip) /\ n - 1 \in 0 .. Len(tip) /\ At(tip, n) \in DOMAIN index
      BY SMTT(60), <1>3, <1>9
    <3> QED BY Zenon, <1>0, <1>8, <1>10, <3>1 DEF Works
  <2>3. ASSUME NEW n \in 0 .. Len(tip), NEW m \in 0 .. n - 1
        PROVE  /\ index'[At(tip, m)].nChainSealWork <= index'[At(tip, n)].nChainSealWork
               /\ index'[At(tip, m)].nChainWork < index'[At(tip, n)].nChainWork
    <3>1. m \in 0 .. Len(tip) /\ At(tip, n) \in DOMAIN index /\ At(tip, m) \in DOMAIN index
      BY SMTT(60), <1>3, <1>9
    <3> QED BY ZenonT(60), <1>0, <1>8, <1>10, <3>1 DEF Works
  <2> QED BY ZenonT(60), <1>1, <2>1, <2>2, <2>3 DEF Works
<1>14. Control'
  BY SMTT(60), <1>0, <1>1, <1>2 DEF Control, MainFree
<1>15. ASSUME Unpenalised, NEW x \in DOMAIN index \ {Genesis}
       PROVE  index'[x].nChainSealWork <= index'[Parent(x)].nChainSealWork + Weighted(x, index'[x].nSealWeight)
  <2>1. \A y \in DOMAIN index \ {Genesis} :
           index[y].nChainSealWork <= index[Parent(y)].nChainSealWork + Weighted(y, index[y].nSealWeight)
    BY ZenonT(60), <1>0, <1>15 DEF Rising
  <2>2. /\ Parent(x) \in DOMAIN index /\ index[Parent(x)].nChainSealWork \in Nat /\ index[x].nChainSealWork \in Nat
        /\ index'[Parent(x)].nChainSealWork \in Nat /\ index'[x].nChainSealWork \in Nat
        /\ Weighted(x, index[x].nSealWeight) \in Nat /\ index'[x].nSealWeight = index[x].nSealWeight
    BY Zenon, <1>3, <1>4, <1>7, <1>8 DEF Entry
  <2>3. CASE x \in Level
    BY SMTT(60), <1>5, <1>6, <2>2, <2>3
  <2>4. CASE x \notin Level
    <3>1. index[Parent(x)].nChainSealWork <= index'[Parent(x)].nChainSealWork
      <4>1. CASE Parent(x) \in Level
        BY Zenon, <1>3, <1>5, <2>1, <4>1
      <4>2. CASE Parent(x) \notin Level
        <5>1. index'[Parent(x)] = index[Parent(x)]
          BY Zenon, <1>6, <2>2, <4>2
        <5> QED BY <2>2, <5>1
      <4> QED BY Zenon, <4>1, <4>2
    <3>2. index'[x] = index[x]
      BY Zenon, <1>6, <2>4
    <3> QED BY SMTT(60), <2>1, <2>2, <3>1, <3>2
  <2> QED BY Zenon, <2>3, <2>4
<1>16. Rising'
  <2>1. \A x \in DOMAIN index' \ {Genesis} : index'[x].nSealWeight \in {Neutral, sealWeight[x]}
    BY Zenon, <1>0, <1>7, <1>8 DEF Rising
  <2> QED BY ZenonT(60), <1>1, <1>2, <1>7, <1>15, <2>1
      DEF Rising, UnpenalisedProgress, ForwardProgress, Unpenalised, MainFree
<1> QED BY <1>11, <1>12, <1>13, <1>14, <1>16 DEF IInv

LEMMA LoadTipStep == ASSUME IInv, LoadChainTip PROVE IInv'
<1>0. Shape /\ Verdicts /\ Works /\ Control /\ Rising
  BY DEF IInv
<1>1. /\ UNCHANGED <<sealWeight, verdict, index, data, linked, unlinked, failed, failedBlocks, nextSeq,
                     mostWork, startingTip, oldTip, loading, restarts, tip>>
      /\ pc = "load" /\ pc' = "idle" /\ called' = TRUE
      /\ candidates' = {c \in linked \ failed : ~Worse(index, c, tip)}
  BY Zenon DEF LoadChainTip, PruneBlockIndexCandidates, oracle, treeVars, loadVars
<1>2. startingTip = NoBlock
  BY Zenon, <1>0, <1>1 DEF Control
<1>3. tip \in candidates'
  <2>1. tip \in linked /\ tip \notin failed
    BY Zenon, <1>0 DEF Verdicts, Shape, TypeOK
  <2>2. linked \in SUBSET Blocks /\ \A x \in linked : index[x] \in Entry
    BY Zenon, <1>0, ShapeFacts
  <2>3. ~Worse(index, tip, tip)
    BY Zenon, <2>1, <2>2, WorseOrder
  <2> QED BY Zenon, <1>1, <2>1, <2>3
<1>4. Shape'
  BY Zenon, <1>0, <1>1 DEF Shape, TypeOK, Closed
<1>5. Verdicts' /\ Works'
  BY ZenonT(60), <1>0, <1>1 DEF Verdicts, Valid, Works
<1>6. Control'
  BY Zenon, <1>1, <1>3 DEF Control, MainFree
<1>7. Rising'
  BY Zenon, <1>0, <1>1, <1>2 DEF Rising, UnpenalisedProgress, ForwardProgress, Unpenalised, MainFree
<1> QED BY Zenon, <1>4, <1>5, <1>6, <1>7 DEF IInv

-----------------------------------------------------------------------------
LEMMA InitInv == Init => IInv
<1> SUFFICES ASSUME Init PROVE IInv
  OBVIOUS
<1>1. /\ Genesis \in Blocks /\ Len(Genesis) = 0 /\ At(Genesis, 0) = Genesis
      /\ Proof[Genesis] \in Nat /\ Genesis # NoBlock
  BY Zenon, BlockFacts, TreeAssumption
<1>2. DOMAIN index = {Genesis} /\ index[Genesis] \in Entry /\ index \in [DOMAIN index -> Entry]
  BY Zenon, <1>1, WeightFacts DEF Init, Entry
<1>3. Shape
  <2>0. /\ sealWeight \in Weightings
        /\ verdict \in [Blocks \ {Genesis} -> {"valid", "bad-block", "bad-connect"}]
        /\ data = {Genesis} /\ linked = {Genesis} /\ unlinked = {} /\ failed = {} /\ failedBlocks = {}
        /\ candidates = {Genesis} /\ tip = Genesis /\ nextSeq = 1 /\ called = FALSE /\ loading = 0
        /\ restarts = 0 /\ pc = "idle" /\ mostWork = NoBlock /\ startingTip = NoBlock /\ oldTip = NoBlock
    BY Zenon DEF Init
  <2>1. TypeOK
    BY ZenonT(60), <1>1, <1>2, <2>0 DEF TypeOK
  <2> QED BY SMTT(60), <1>1, <1>2, <2>1 DEF Init, Shape, Closed
<1>4. Verdicts
  BY SMTT(60), <1>1 DEF Init, Verdicts, Valid
<1>5. Works
  BY <1>1, <1>2 DEF Init, Works
<1>6. ~Worse(index, Genesis, Genesis)
  <2>1. {Genesis} \in SUBSET Blocks /\ \A x \in {Genesis} : index[x] \in Entry
    BY Zenon, <1>1, <1>2
  <2> QED BY ZenonT(60), <2>1, WorseOrder
<1>7. Control
  BY Zenon, <1>6 DEF Init, Control, MainFree
<1>8. Rising
  BY Zenon, <1>2 DEF Init, Rising, UnpenalisedProgress, ForwardProgress
<1> QED BY <1>3, <1>4, <1>5, <1>7, <1>8 DEF IInv

LEMMA StepInv == IInv /\ [Next]_vars => IInv'
<1> SUFFICES ASSUME IInv, [Next]_vars PROVE IInv'
  BY Zenon
<1>1. CASE UNCHANGED vars
  <2>1. UNCHANGED <<sealWeight, verdict, index, data, linked, unlinked, failed, failedBlocks, nextSeq, called, pc,
                    mostWork, startingTip, oldTip, loading, restarts, candidates, tip>>
    BY Zenon, <1>1 DEF vars, oracle, treeVars, abcVars, loadVars
  <2>2. Shape' /\ Verdicts' /\ Works' /\ Control'
    BY ZenonT(60), <2>1 DEF IInv, Shape, TypeOK, Closed, Verdicts, Valid, Works, Control, MainFree
  <2>3. Rising'
    BY ZenonT(60), <2>1 DEF IInv, Rising, UnpenalisedProgress, ForwardProgress, Unpenalised, MainFree
  <2> QED BY Zenon, <2>2, <2>3 DEF IInv
<1>2. CASE Next
  BY Zenon, <1>2, HeaderStep, RejectStep, BlockStep, ActivateStep, LockStep, DropStep, FindStep, DisconnectStep,
     ForkStep, ConnectStep, FailStep, RestartStep, LoadStep, LoadTipStep DEF Next, Activation, Loading
<1> QED BY Zenon, <1>1, <1>2

LEMMA Invariant == Spec => []IInv
BY InitInv, StepInv, PTL DEF Spec

(* The index, the data sets and the candidates keep their types, the       *)
(* candidates and the tip are linked to genesis, and a block waits for its *)
(* parent only while it is not.                                            *)
THEOREM ForkType == Spec => []TypeOK
<1>1. IInv => TypeOK
  BY Zenon DEF IInv, Shape
<1> QED BY <1>1, Invariant, PTL

(* Whenever cs_main is free the tip is in setBlockIndexCandidates, for     *)
(* every block tree, every weighting and any invalid blocks.               *)
THEOREM ForkTipIsCandidate == Spec => []TipIsCandidate
<1>1. IInv => TipIsCandidate
  BY Zenon DEF IInv, Control, TipIsCandidate
<1> QED BY <1>1, Invariant, PTL

(* No candidate sorts before the tip, although ConnectBlock moves blocks   *)
(* in the order.                                                           *)
THEOREM ForkNoWorseCandidate == Spec => []NoWorseCandidate
<1>1. IInv => NoWorseCandidate
  BY Zenon DEF IInv, Control, Shape, TypeOK, NoWorseCandidate
<1> QED BY <1>1, Invariant, PTL

(* Without the penalty cs_main is never released on a tip that is worse    *)
(* than the one other threads saw before.                                  *)
THEOREM ForkProgress == Spec => []UnpenalisedProgress
<1>1. IInv => UnpenalisedProgress
  BY Zenon DEF IInv, Rising
<1> QED BY <1>1, Invariant, PTL

-----------------------------------------------------------------------------
(* The best chain.  Without the penalty a block that is no candidate is on *)
(* an invalid branch or worse than the tip, or than the tip that the       *)
(* running activation started from; and unless a new call waits, no        *)
(* candidate off the way to the target is better than the target.          *)
Tainted(b) == \E f \in failed : IsAncestor(f, b)

Searching == pc \in {"find", "disconnect", "connect"}

Complete ==
    Unpenalised /\ pc # "load" => \A b \in linked \ candidates :
        Tainted(b) \/ Worse(index, b, tip) \/ (Searching /\ Worse(index, b, startingTip))

Chosen ==
    Unpenalised /\ ~called =>
        /\ (Searching \/ pc = "start") /\ mostWork # NoBlock => \A c \in candidates :
              Worse(index, mostWork, c) => IsAncestor(c, mostWork) \/ Tainted(c)
        /\ pc = "idle" => \A c \in candidates : Worse(index, tip, c) => Tainted(c)

LEMMA Ordered ==
    ASSUME Shape
    PROVE  /\ linked \subseteq Blocks /\ linked \subseteq DOMAIN index /\ candidates \subseteq linked
           /\ tip \in linked /\ NoBlock \notin linked
           /\ startingTip # NoBlock => startingTip \in linked
           /\ mostWork # NoBlock => mostWork \in linked
           /\ \A x \in linked : ~Worse(index, x, x)
           /\ \A x, y \in linked : Worse(index, x, y) => ~Worse(index, y, x)
           /\ \A x, y, z \in linked : Worse(index, x, y) /\ Worse(index, y, z) => Worse(index, x, z)
           /\ \A x, y \in linked : x # y => Worse(index, x, y) \/ Worse(index, y, x)
<1>1. /\ linked \subseteq Blocks /\ linked \subseteq DOMAIN index /\ candidates \subseteq linked
      /\ tip \in linked /\ NoBlock \notin linked /\ \A x \in linked : index[x] \in Entry
      /\ startingTip # NoBlock => startingTip \in linked
      /\ mostWork # NoBlock => mostWork \in linked
  BY Zenon, ShapeFacts, TreeAssumption DEF Shape, TypeOK
<1> QED BY Zenon, <1>1, WorseOrder

(* A step that moves neither the order nor the activation, and takes only  *)
(* invalid blocks from the candidates.                                     *)
LEMMA Fading ==
    ASSUME IInv, Complete, Chosen,
           UNCHANGED <<sealWeight, linked, tip, pc, mostWork, startingTip, called>>,
           failed \subseteq failed', candidates' \subseteq candidates,
           candidates \ candidates' \subseteq failed',
           \A x, y \in linked : Worse(index', x, y) <=> Worse(index, x, y)
    PROVE  Complete' /\ Chosen'
<1>1. /\ linked \subseteq Blocks /\ candidates \subseteq linked /\ tip \in linked /\ NoBlock \notin linked
      /\ Searching => startingTip \in linked
      /\ mostWork # NoBlock => mostWork \in linked
  BY Zenon, Ordered DEF IInv, Control, Searching
<1>2. \A x : Tainted(x) => Tainted(x)'
  BY Zenon DEF Tainted, IsAncestor
<1>3. \A x \in linked : x \in failed' => Tainted(x)'
  <2>1. \A x \in linked : IsAncestor(x, x)
    <3>1. \A x \in linked : Len(x) \in Nat /\ At(x, Len(x)) = x
      BY Zenon, <1>1, BlockFacts
    <3> QED BY <3>1 DEF IsAncestor, At
  <2> QED BY Zenon, <2>1 DEF Tainted, IsAncestor
<1>4. (Unpenalised' <=> Unpenalised) /\ (Searching' <=> Searching)
  BY Zenon DEF Unpenalised, Searching
<1>5. Complete'
  <2>1. SUFFICES ASSUME Unpenalised, pc # "load", NEW x \in linked, x \notin candidates'
                 PROVE  \/ Tainted(x)' \/ Worse(index', x, tip)
                        \/ Searching /\ Worse(index', x, startingTip)
    BY Zenon, <1>4 DEF Complete
  <2>2. CASE x \in candidates
    BY Zenon, <1>3, <2>1, <2>2
  <2>3. CASE x \notin candidates
    BY Zenon, <1>1, <1>2, <2>1, <2>3 DEF Complete
  <2> QED BY Zenon, <2>2, <2>3
<1>6. Chosen'
  BY Zenon, <1>1, <1>2, <1>4 DEF Chosen
<1> QED BY Zenon, <1>5, <1>6

LEMMA FadingSteps ==
    ASSUME IInv, Complete, Chosen,
           \/ UNCHANGED vars
           \/ \E b \in Blocks : AcceptBlockHeader(b) \/ RejectBlockHeader(b)
           \/ DropFailedCandidate
    PROVE  Complete' /\ Chosen'
<1>0. Shape /\ linked \subseteq DOMAIN index /\ candidates \subseteq linked
  BY Zenon, Ordered DEF IInv
<1>1. CASE UNCHANGED vars
  <2>1. UNCHANGED <<sealWeight, linked, tip, pc, mostWork, startingTip, called, failed, candidates, index>>
    BY Zenon, <1>1 DEF vars, oracle, treeVars, abcVars
  <2> QED BY Zenon, <2>1, Fading
<1>2. ASSUME NEW b \in Blocks, AcceptBlockHeader(b) PROVE Complete' /\ Chosen'
  <2>1. /\ UNCHANGED <<sealWeight, linked, tip, pc, mostWork, startingTip, called, failed, candidates>>
        /\ index' = AddToBlockIndex(b) /\ b \in Blocks \ {Genesis} /\ Parent(b) \in DOMAIN index
    BY Zenon, <1>2 DEF AcceptBlockHeader, HeaderAccepted, oracle, abcVars
  <2>2. \A x \in linked : index'[x] = index[x]
    BY ZenonT(60), <1>0, <2>1, AddFacts
  <2>3. \A x, y \in linked : Worse(index', x, y) <=> Worse(index, x, y)
    BY Zenon, <2>2, WorseSame
  <2> QED BY Zenon, <2>1, <2>3, Fading
<1>3. ASSUME NEW b \in Blocks, RejectBlockHeader(b) PROVE Complete' /\ Chosen'
  <2>1. /\ UNCHANGED <<sealWeight, linked, tip, pc, mostWork, startingTip, called, candidates, index>>
        /\ failed \subseteq failed'
    BY Zenon, <1>3 DEF RejectBlockHeader, oracle, abcVars
  <2> QED BY Zenon, <2>1, Fading
<1>4. CASE DropFailedCandidate
  <2>1. /\ UNCHANGED <<sealWeight, linked, tip, pc, mostWork, startingTip, called, index>>
        /\ failed \subseteq failed' /\ candidates' \subseteq candidates
        /\ candidates \ candidates' \subseteq failed'
    BY Zenon, <1>4 DEF DropFailedCandidate, oracle, abcVars
  <2> QED BY Zenon, <2>1, Fading
<1> QED BY Zenon, <1>1, <1>2, <1>3, <1>4

LEMMA BlockBest ==
    ASSUME IInv, Complete, Chosen, NEW b \in Blocks, NEW fRequested \in BOOLEAN, AcceptBlock(b, fRequested)
    PROVE  Complete' /\ Chosen'
<1>0. /\ Shape /\ linked \subseteq DOMAIN index /\ candidates \subseteq linked /\ tip \in linked
      /\ linked \subseteq data
  BY Zenon, Ordered DEF IInv, Shape, TypeOK
<1>1. /\ MainFree /\ b \notin data /\ HeaderAccepted(b)
      /\ UNCHANGED <<sealWeight, tip, pc, mostWork, startingTip>>
  BY Zenon DEF AcceptBlock, oracle
<1>2. b \in Blocks \ {Genesis} /\ Parent(b) \in DOMAIN index
  <2>1. b # Genesis
    BY ZenonT(60), <1>0, <1>1, ShapeFacts
  <2>2. \A x \in DOMAIN index \ {Genesis} : Parent(x) \in DOMAIN index
    BY ZenonT(60), <1>0, ShapeFacts
  <2> QED BY Zenon, <1>1, <2>1, <2>2 DEF HeaderAccepted
<1>3. CASE verdict[b] = "bad-block"
  <2>1. /\ index' = AddToBlockIndex(b) /\ failed \subseteq failed'
        /\ UNCHANGED <<linked, candidates, called>>
    BY ZenonT(60), <1>3 DEF AcceptBlock
  <2>2. \A x \in linked : index'[x] = index[x]
    BY ZenonT(60), <1>0, <1>2, <2>1, AddFacts
  <2>3. \A x, y \in linked : Worse(index', x, y) <=> Worse(index, x, y)
    BY Zenon, <2>2, WorseSame
  <2> QED BY Zenon, <1>1, <2>1, <2>3, Fading
<1>4. CASE verdict[b] # "bad-block"
  <2>1. ReceivedBlockTransactions(AddToBlockIndex(b), b) /\ called' = TRUE /\ failed' = failed
    BY Zenon, <1>4 DEF AcceptBlock
  <2>2. /\ \A x \in linked : index'[x] = index[x]
        /\ candidates \subseteq candidates'
        /\ \A x \in linked' \ linked : x \in candidates' \/ Worse(index', x, tip)
    BY ZenonT(60), <1>0, <1>1, <1>2, <2>1, ReceivedFacts
  <2>3. \A x, y \in linked : Worse(index', x, y) <=> Worse(index, x, y)
    BY Zenon, <2>2, WorseSame
  <2>4. ~Searching /\ ~Searching' /\ (Unpenalised' <=> Unpenalised) /\ pc # "load"
    BY Zenon, <1>1 DEF Searching, MainFree, Unpenalised
  <2>5. \A x : Tainted(x)' <=> Tainted(x)
    BY Zenon, <2>1 DEF Tainted
  <2>6. ASSUME Unpenalised, NEW x \in linked', x \notin candidates'
        PROVE  Tainted(x) \/ Worse(index', x, tip)
    BY Zenon, <1>0, <2>2, <2>3, <2>4, <2>6 DEF Complete
  <2>7. Complete'
    BY Zenon, <1>1, <2>4, <2>5, <2>6 DEF Complete
  <2>8. Chosen'
    BY Zenon, <2>1 DEF Chosen
  <2> QED BY Zenon, <2>7, <2>8
<1> QED BY Zenon, <1>3, <1>4

(* When cs_main is released the tip is not worse than the starting tip, so *)
(* what is worse than the one is worse than the other.                     *)
LEMMA WorseThanBoth ==
    ASSUME Shape, startingTip \in linked, ~Worse(index, tip, startingTip),
           NEW x \in linked, Worse(index, x, startingTip)
    PROVE  Worse(index, x, tip)
<1>1. tip = startingTip \/ Worse(index, startingTip, tip)
  BY Zenon, Ordered
<1> QED BY Zenon, <1>1, Ordered

LEMMA FindBest ==
    ASSUME IInv, IInv', Complete, Chosen, FindMostWorkChain
    PROVE  Complete' /\ Chosen'
<1>0. Shape /\ Verdicts /\ Works /\ Control /\ Rising'
  BY DEF IInv
<1>1. /\ UNCHANGED <<sealWeight, index, linked, failed, called, startingTip, candidates, tip>>
      /\ pc = "find" /\ mostWork' = IF mostWork = NoBlock THEN Best ELSE mostWork
      /\ pc' = IF mostWork' = tip THEN "idle" ELSE "disconnect"
  BY Zenon DEF FindMostWorkChain, oracle, treeVars
<1>2. startingTip # NoBlock /\ startingTip \in candidates
  BY Zenon, <1>0, <1>1 DEF Control
<1>3. /\ (Unpenalised' <=> Unpenalised) /\ Searching /\ (Searching' <=> mostWork' # tip)
      /\ \A x : Tainted(x)' <=> Tainted(x)
  BY Zenon, <1>1 DEF Unpenalised, Searching, Tainted
<1>4. Complete'
  <2>1. SUFFICES ASSUME Unpenalised, NEW x \in linked, x \notin candidates, ~Tainted(x),
                        ~Worse(index, x, tip), mostWork' = tip
                 PROVE  FALSE
    BY Zenon, <1>1, <1>3 DEF Complete
  <2>2. Worse(index, x, startingTip)
    BY Zenon, <1>1, <1>3, <2>1 DEF Complete
  <2>3. ~Worse(index, tip, startingTip)
    BY ZenonT(60), <1>0, <1>1, <1>2, <1>3, <2>1 DEF Rising, UnpenalisedProgress, ForwardProgress, MainFree
  <2>4. startingTip \in linked
    BY Zenon, <1>0, <1>2, Ordered
  <2> QED BY Zenon, <1>0, <2>1, <2>2, <2>3, <2>4, WorseThanBoth
<1>5. CASE mostWork = NoBlock
  <2>1. mostWork' = Best /\ Best \in candidates /\ \A d \in candidates \ {Best} : Worse(index, d, Best)
    BY Zenon, <1>0, <1>1, <1>2, <1>5, BestFacts
  <2>2. \A c \in candidates : ~Worse(index, mostWork', c)
    BY Zenon, <1>0, <2>1, Ordered
  <2>3. \A c \in candidates' : ~Worse(index', mostWork', c) /\ (pc' = "idle" => ~Worse(index', tip', c))
    BY Zenon, <1>1, <2>2
  <2> QED BY Zenon, <1>4, <2>3 DEF Chosen
<1>6. CASE mostWork # NoBlock
  <2>1. mostWork' = mostWork
    BY Zenon, <1>1, <1>6
  <2>2. ASSUME Unpenalised, ~called, NEW c \in candidates, Worse(index, mostWork, c)
        PROVE  IsAncestor(c, mostWork) \/ Tainted(c)
    BY Zenon, <1>3, <1>6, <2>2 DEF Chosen
  <2>3. ASSUME Unpenalised, ~called, NEW c \in candidates, Worse(index, tip, c), mostWork = tip
        PROVE  Tainted(c)
    <3>1. c \in linked /\ c # tip /\ tip \in linked /\ ~Worse(index, c, tip)
      BY Zenon, <1>0, <2>3, Ordered
    <3>2. ~IsAncestor(c, tip)
      BY Zenon, <1>0, <3>1, ChainOrder
    <3> QED BY Zenon, <2>2, <2>3, <3>2
  <2>4. Chosen'
    BY Zenon, <1>1, <1>3, <2>1, <2>2, <2>3 DEF Chosen
  <2> QED BY <1>4, <2>4
<1> QED BY Zenon, <1>5, <1>6

LEMMA WalkBest ==
    ASSUME IInv, IInv', Complete, Chosen,
           ActivateBestChain \/ LockMain \/ DisconnectTip \/ ForkReached
    PROVE  Complete' /\ Chosen'
<1>0. Shape /\ Control
  BY Zenon DEF IInv
<1>1. /\ UNCHANGED <<sealWeight, index, linked, failed, candidates>>
      /\ (Unpenalised' <=> Unpenalised) /\ \A x : Tainted(x)' <=> Tainted(x)
  BY Zenon DEF ActivateBestChain, LockMain, DisconnectTip, ForkReached, oracle, treeVars, Unpenalised, Tainted
<1>2. CASE ActivateBestChain
  <2>1. pc = "idle" /\ pc' = "start" /\ mostWork' = NoBlock /\ tip' = tip /\ ~Searching /\ ~Searching'
    BY Zenon, <1>2 DEF ActivateBestChain, Searching
  <2> QED BY Zenon, <1>1, <2>1 DEF Complete, Chosen
<1>3. CASE LockMain
  <2>1. /\ pc = "start" /\ pc' = "find" /\ startingTip' = tip /\ tip' = tip /\ called' = called
        /\ mostWork' = mostWork /\ ~Searching /\ Searching'
    BY Zenon, <1>3 DEF LockMain, Searching
  <2> QED BY Zenon, <1>1, <2>1 DEF Complete, Chosen
<1>4. CASE ForkReached
  <2>1. /\ pc = "disconnect" /\ pc' = "connect" /\ tip' = tip /\ called' = called
        /\ mostWork' = mostWork /\ startingTip' = startingTip /\ Searching /\ Searching'
    BY Zenon, <1>4 DEF ForkReached, Searching
  <2> QED BY Zenon, <1>1, <2>1 DEF Complete, Chosen
<1>5. CASE DisconnectTip
  <2>1. /\ pc = "disconnect" /\ pc' = pc /\ called' = called /\ mostWork' = mostWork
        /\ startingTip' = startingTip /\ Searching /\ Searching'
    BY Zenon, <1>5 DEF DisconnectTip, Searching, abcVars
  <2>2. Chosen'
    BY Zenon, <1>1, <2>1 DEF Chosen
  <2>3. startingTip \in candidates /\ (tip = startingTip \/ Worse(index, tip, startingTip))
    BY Zenon, <1>0, <2>1 DEF Control
  <2>4. startingTip \in linked /\ tip \in linked
    BY Zenon, <1>0, <2>3, Ordered
  <2>5. \A x \in linked : Worse(index, x, tip) => Worse(index, x, startingTip)
    BY Zenon, <1>0, <2>3, <2>4, Ordered
  <2>6. Complete'
    BY Zenon, <1>1, <2>1, <2>5 DEF Complete
  <2> QED BY <2>2, <2>6
<1> QED BY Zenon, <1>2, <1>3, <1>4, <1>5

LEMMA StartBest ==
    ASSUME IInv, Restart \/ Loading
    PROVE  Complete' /\ Chosen'
<1>1. CASE Restart \/ LoadBlockIndex
  <2>1. pc' = "load"
    BY <1>1 DEF Restart, LoadBlockIndex, abcVars
  <2> QED BY Zenon, <2>1 DEF Complete, Chosen, Searching
<1>2. CASE LoadChainTip
  <2>1. /\ UNCHANGED <<index, linked, failed, tip>> /\ called' = TRUE
        /\ candidates' = {c \in linked \ failed : ~Worse(index, c, tip)}
    BY Zenon, <1>2 DEF LoadChainTip, treeVars, PruneBlockIndexCandidates
  <2>2. \A x \in linked : IsAncestor(x, x)
    <3>1. linked \subseteq Blocks
      BY Zenon, Ordered DEF IInv
    <3>2. \A x \in linked : Len(x) \in Nat /\ At(x, Len(x)) = x
      BY Zenon, <3>1, BlockFacts
    <3> QED BY <3>2 DEF IsAncestor, At
  <2>3. \A x \in linked : x \in failed => Tainted(x)'
    BY Zenon, <2>1, <2>2 DEF Tainted
  <2> QED BY Zenon, <2>1, <2>3 DEF Complete, Chosen
<1> QED BY Zenon, <1>1, <1>2 DEF Loading

(* The block that is connected moves up only, and no other block moves. *)
Placed(b) ==
    /\ mostWork # NoBlock /\ mostWork \in linked /\ startingTip \in linked /\ tip \in linked
    /\ b \in linked /\ b # Genesis /\ b # tip /\ Parent(b) = tip /\ IsAncestor(b, mostWork)
    /\ \A x, y \in linked \ {b} : Worse(index', x, y) <=> Worse(index, x, y)
    /\ Unpenalised => \A x \in linked \ {b} : Worse(index, x, b) => Worse(index', x, b)
    /\ \A x \in linked : ~Worse(index', x, x)
    /\ \A x, y \in linked : Worse(index', x, y) => ~Worse(index', y, x)
    /\ \A x, y, z \in linked : Worse(index', x, y) /\ Worse(index', y, z) => Worse(index', x, z)
    /\ \A x, y \in linked : x # y => Worse(index', x, y) \/ Worse(index', y, x)

LEMMA Connecting ==
    ASSUME IInv, pc = "connect", NEW b, b = SubSeq(mostWork, 1, Len(tip) + 1), Weighs(b)
    PROVE  Placed(b)
<1>0. Shape /\ Works /\ Control /\ Rising
  BY DEF IInv
<1>1. /\ mostWork # NoBlock /\ IsAncestor(tip, mostWork) /\ tip # mostWork /\ startingTip # NoBlock
  BY Zenon, <1>0 DEF Control
<1>2. mostWork \in linked /\ startingTip \in linked /\ tip \in linked
      /\ linked \subseteq Blocks /\ linked \subseteq DOMAIN index
  BY Zenon, <1>0, <1>1, Ordered
<1>3. b \in linked /\ b # Genesis /\ b # tip /\ Parent(b) = tip /\ IsAncestor(b, mostWork)
  BY ZenonT(60), <1>0, <1>1, <1>2, NextBlock
<1>4. /\ \A x \in DOMAIN index : index'[x] \in Entry
      /\ \A x, y \in linked \ {b} : Worse(index', x, y) <=> Worse(index, x, y)
      /\ Unpenalised => index[b].nChainSealWork <= index'[b].nChainSealWork
  BY Zenon, <1>0, <1>3, WeighsKeeps
<1>5. /\ \A x \in linked : ~Worse(index', x, x)
      /\ \A x, y \in linked : Worse(index', x, y) => ~Worse(index', y, x)
      /\ \A x, y, z \in linked : Worse(index', x, y) /\ Worse(index', y, z) => Worse(index', x, z)
      /\ \A x, y \in linked : x # y => Worse(index', x, y) \/ Worse(index', y, x)
  <2>1. linked \in SUBSET Blocks /\ \A x \in linked : index'[x] \in Entry
    BY Zenon, <1>2, <1>4
  <2> QED BY Zenon, <2>1, WorseOrder
<1>6. ASSUME Unpenalised, NEW x \in linked \ {b}, Worse(index, x, b) PROVE Worse(index', x, b)
  <2>1. /\ index'[x] = index[x] /\ index'[b].nChainWork = index[b].nChainWork
        /\ index'[b].nSequenceId = index[b].nSequenceId
        /\ index[b].nChainSealWork <= index'[b].nChainSealWork
    BY Zenon, <1>2, <1>4, <1>6 DEF Weighs
  <2>2. /\ index[x].nChainSealWork \in Nat /\ index[b].nChainSealWork \in Nat
        /\ index'[b].nChainSealWork \in Nat
    BY ZenonT(60), <1>0, <1>2, <1>3, <1>4, ShapeFacts DEF Entry
  <2> QED BY Zenon, <1>6, <2>1, <2>2, BehindStays
<1> QED BY ZenonT(60), <1>1, <1>2, <1>3, <1>4, <1>5, <1>6 DEF Placed

LEMMA ConnectBest ==
    ASSUME IInv, Complete, Chosen, ConnectTip
    PROVE  Complete' /\ Chosen'
<1>0. Shape /\ Works /\ Control /\ Rising
  BY DEF IInv
<1>1. PICK b : b = SubSeq(mostWork, 1, Len(tip) + 1)
  BY ZenonT(60)
<1>2. /\ UNCHANGED <<sealWeight, linked, failed, called, startingTip, mostWork>>
      /\ pc = "connect" /\ index' = ConnectedIndex(b) /\ tip' = b
      /\ candidates' = {c \in candidates \cup {b} : ~Worse(index', c, b)}
      /\ \/ pc' = "connect" /\ b # mostWork
         \/ pc' = IF Worse(index', b, startingTip) THEN "find" ELSE IF b # mostWork THEN "start" ELSE "idle"
  BY Zenon, <1>1 DEF ConnectTip, oracle, PruneBlockIndexCandidates, AfterStep
<1>3. /\ mostWork # NoBlock /\ IsAncestor(tip, mostWork) /\ tip # mostWork
  BY Zenon, <1>0, <1>2 DEF Control
<1>4. b \in linked \ {Genesis} /\ Parent(b) = tip /\ Len(b) = Len(tip) + 1
      /\ \A n \in 0 .. Len(tip) : At(b, n) = At(tip, n)
  BY ZenonT(60), <1>0, <1>1, <1>3, NextBlock, Ordered
<1>5. Weighs(b) /\ index'[b].nChainSealWork = index[tip].nChainSealWork + Weighted(b, sealWeight[b])
  BY Zenon, <1>0, <1>2, <1>4, ConnectedFacts
<1>6. /\ mostWork \in linked /\ startingTip \in linked /\ tip \in linked
      /\ b \in linked /\ b # tip /\ IsAncestor(b, mostWork)
      /\ \A x, y \in linked \ {b} : Worse(index', x, y) <=> Worse(index, x, y)
      /\ Unpenalised => \A x \in linked \ {b} : Worse(index, x, b) => Worse(index', x, b)
      /\ \A x \in linked : ~Worse(index', x, x)
      /\ \A x, y \in linked : Worse(index', x, y) => ~Worse(index', y, x)
      /\ \A x, y, z \in linked : Worse(index', x, y) /\ Worse(index', y, z) => Worse(index', x, z)
      /\ \A x, y \in linked : x # y => Worse(index', x, y) \/ Worse(index', y, x)
  <2>1. Placed(b)
    BY ZenonT(60), <1>1, <1>2, <1>5, Connecting
  <2> QED BY Zenon, <2>1 DEF Placed
<1>7. Worse(index', tip, b)
  <2>1. index'[tip] = index[tip] /\ index'[b].nChainWork = index[b].nChainWork
        /\ index[b].nChainWork = index[tip].nChainWork + Proof[b]
    BY ZenonT(60), <1>0, <1>4, <1>5, <1>6, ShapeFacts DEF Weighs, Works
  <2>2. Weighted(b, sealWeight[b]) \in Nat /\ Proof[b] \in Nat \ {0}
    <3>1. b \in Blocks /\ sealWeight[b] \in Nat
      BY Zenon, <1>0, <1>4, ShapeFacts
    <3> QED BY ZenonT(60), <3>1, WeightedFacts, TreeAssumption
  <2>3. index[tip].nChainSealWork \in Nat /\ index[tip].nChainWork \in Nat
    BY ZenonT(60), <1>0, <1>6, ShapeFacts
  <2>4. /\ index'[tip].nChainSealWork <= index'[b].nChainSealWork
        /\ index'[tip].nChainWork < index'[b].nChainWork
    BY Zenon, <1>5, <2>1, <2>2, <2>3, NatRises
  <2>5. index'[tip].nChainSealWork \in Nat /\ index'[b].nChainSealWork \in Nat
    BY SMTT(60), <1>5, <2>1, <2>2, <2>3
  <2> QED BY Zenon, <2>4, <2>5, BehindByWork
<1>8. /\ candidates \subseteq linked /\ (Unpenalised' <=> Unpenalised) /\ Searching
      /\ \A x : Tainted(x)' <=> Tainted(x)
      /\ Searching' \/ ~Worse(index', b, startingTip)
  BY Zenon, <1>0, <1>2, Ordered DEF Unpenalised, Searching, Tainted
<1>9. ASSUME Unpenalised, NEW x \in linked, x \notin candidates', ~Tainted(x)
      PROVE  Worse(index', x, b) \/ (Searching' /\ Worse(index', x, startingTip))
  <2>1. x # b
    BY <1>2, <1>6, <1>9
  <2>2. CASE x \in candidates
    BY Zenon, <1>2, <1>9, <2>2
  <2>3. CASE x \notin candidates
    <3>1. Worse(index, x, tip) \/ Worse(index, x, startingTip)
      BY Zenon, <1>2, <1>9, <2>3 DEF Complete
    <3>2. CASE Worse(index, x, tip)
      <4>1. Worse(index', x, tip)
        BY Zenon, <1>6, <2>1, <3>2
      <4> QED BY Zenon, <1>6, <1>7, <4>1
    <3>3. CASE Worse(index, x, startingTip)
      <4>1. Worse(index', x, startingTip)
        BY <1>6, <1>9, <2>1, <3>3
      <4>2. CASE Searching'
        BY Zenon, <4>1, <4>2
      <4>3. CASE ~Worse(index', b, startingTip)
        <5>1. startingTip = b \/ Worse(index', startingTip, b)
          BY Zenon, <1>6, <4>3
        <5> QED BY Zenon, <1>6, <4>1, <5>1
      <4> QED BY Zenon, <1>8, <4>2, <4>3
    <3> QED BY Zenon, <3>1, <3>2, <3>3
  <2> QED BY Zenon, <2>2, <2>3
<1>10. Complete'
  BY Zenon, <1>2, <1>8, <1>9 DEF Complete
<1>11. ASSUME Unpenalised, ~called, NEW c \in candidates', Worse(index', mostWork, c)
       PROVE  IsAncestor(c, mostWork) \/ Tainted(c)
  <2>1. SUFFICES ASSUME c # b PROVE IsAncestor(c, mostWork) \/ Tainted(c)
    BY Zenon, <1>6
  <2>2. c \in candidates /\ c \in linked
    BY Zenon, <1>2, <1>8, <2>1
  <2>3. Worse(index, mostWork, c)
    <3>1. CASE mostWork # b
      BY Zenon, <1>6, <1>11, <2>1, <2>2, <3>1
    <3>2. CASE mostWork = b
      <4>1. ~Worse(index, c, b)
        BY Zenon, <1>6, <1>11, <2>1, <2>2, <3>2
      <4> QED BY Zenon, <1>0, <1>6, <2>1, <2>2, <3>2, <4>1, Ordered
    <3> QED BY Zenon, <3>1, <3>2
  <2> QED BY Zenon, <1>3, <1>8, <1>11, <2>2, <2>3 DEF Chosen
<1>12. ASSUME Unpenalised, ~called, NEW c \in candidates', Worse(index', b, c), mostWork = b
       PROVE  Tainted(c)
  <2>1. SUFFICES ASSUME IsAncestor(c, b) PROVE FALSE
    BY Zenon, <1>11, <1>12
  <2>2. c # b /\ c \in linked /\ ~Worse(index', c, b)
    BY SMTT(60), <1>2, <1>6, <1>8, <1>12
  <2>3. c = tip \/ (IsAncestor(c, tip) /\ c # tip)
    <3>1. c \in Blocks /\ b \in Blocks /\ tip \in Blocks
      BY Zenon, <1>0, <1>6, <2>2, Ordered
    <3>2. Len(c) \in Nat /\ Len(tip) \in Nat /\ Len(c) < Len(b) /\ At(b, Len(c)) = c
      BY Zenon, <2>1, <2>2, <3>1, AncestorFacts, BlockFacts
    <3>3. Len(c) \in 0 .. Len(tip)
      BY <1>4, <3>2
    <3>4. At(tip, Len(c)) = c
      BY Zenon, <1>4, <3>2, <3>3
    <3> QED BY SMTT(60), <3>1, <3>2, <3>3, <3>4, AncestorFacts
  <2>4. c # tip
    BY Zenon, <1>7, <2>2
  <2>5. Worse(index, c, tip)
    BY Zenon, <1>0, <2>2, <2>3, <2>4, ChainOrder
  <2>6. Worse(index', c, tip)
    BY Zenon, <1>6, <2>2, <2>5
  <2> QED BY Zenon, <1>6, <1>7, <2>2, <2>6
<1>13. pc' = "idle" => mostWork = b
  BY Zenon, <1>2
<1>14. Chosen'
  BY Zenon, <1>2, <1>8, <1>11, <1>12, <1>13 DEF Chosen
<1> QED BY <1>10, <1>14

LEMMA FailBest ==
    ASSUME IInv, Complete, ConnectTipFails
    PROVE  Complete' /\ Chosen'
<1>0. Shape /\ Verdicts /\ Control
  BY DEF IInv
<1>1. PICK b : b = SubSeq(mostWork, 1, Len(tip) + 1)
  BY ZenonT(60)
<1>2. /\ UNCHANGED <<sealWeight, linked, startingTip, tip>> /\ mostWork' = NoBlock
      /\ pc = "connect" /\ index' \in {index, ConnectedIndex(b)} /\ verdict[b] # "valid"
      /\ failed' = failed \cup {b} /\ candidates' = candidates \ {b}
      /\ pc' = IF Worse(index', tip, startingTip) THEN "find" ELSE IF tip # NoBlock THEN "start" ELSE "idle"
  BY Zenon, <1>1 DEF ConnectTipFails, oracle, AfterStep
<1>3. /\ mostWork # NoBlock /\ IsAncestor(tip, mostWork) /\ tip # mostWork
  BY Zenon, <1>0, <1>2 DEF Control
<1>4. b \in linked \ {Genesis} /\ Parent(b) = tip
  BY ZenonT(60), <1>0, <1>1, <1>3, NextBlock, Ordered
<1>5. Weighs(b)
  <2>1. CASE index' = index
    BY Zenon, <1>0, <2>1 DEF Weighs, Shape
  <2>2. CASE index' = ConnectedIndex(b)
    BY Zenon, <1>0, <1>4, <2>2, ConnectedFacts
  <2> QED BY Zenon, <1>2, <2>1, <2>2
<1>6. /\ startingTip \in linked /\ tip \in linked /\ b # tip
      /\ \A x, y \in linked \ {b} : Worse(index', x, y) <=> Worse(index, x, y)
      /\ \A x, y, z \in linked : Worse(index', x, y) /\ Worse(index', y, z) => Worse(index', x, z)
      /\ \A x, y \in linked : x # y => Worse(index', x, y) \/ Worse(index', y, x)
  <2>1. Placed(b)
    BY ZenonT(60), <1>1, <1>2, <1>5, Connecting
  <2> QED BY Zenon, <2>1 DEF Placed
<1>7. /\ tip # NoBlock /\ startingTip # NoBlock /\ linked \subseteq Blocks
  BY Zenon, <1>0, <1>6, Ordered
<1>8. startingTip # b
  <2>1. ~Valid(b)
    <3>1. Len(b) \in 1 .. Len(b) /\ At(b, Len(b)) = b
      BY SMTT(60), <1>4, <1>7, BlockFacts
    <3> QED BY Zenon, <1>2, <3>1 DEF Valid
  <2> QED BY Zenon, <1>0, <1>7, <2>1 DEF Verdicts
<1>9. Tainted(b)' /\ \A x : Tainted(x) => Tainted(x)'
  <2>1. IsAncestor(b, b)
    <3>1. Len(b) \in Nat /\ At(b, Len(b)) = b
      BY Zenon, <1>4, <1>7, BlockFacts
    <3> QED BY <3>1 DEF IsAncestor, At
  <2> QED BY Zenon, <1>2, <2>1 DEF Tainted
<1>10. ASSUME Unpenalised, NEW x \in linked, x \notin candidates', ~Tainted(x)'
       PROVE  Worse(index', x, tip) \/ (Searching' /\ Worse(index', x, startingTip))
  <2>1. x # b /\ x \notin candidates /\ ~Tainted(x)
    BY Zenon, <1>2, <1>9, <1>10
  <2>2. Worse(index, x, tip) \/ Worse(index, x, startingTip)
    BY Zenon, <1>2, <1>10, <2>1 DEF Complete
  <2>3. CASE Worse(index, x, tip)
    BY Zenon, <1>6, <2>1, <2>3
  <2>4. CASE Worse(index, x, startingTip)
    <3>1. Worse(index', x, startingTip)
      BY Zenon, <1>6, <1>8, <2>1, <2>4
    <3>2. CASE pc' = "find"
      BY Zenon, <3>1, <3>2 DEF Searching
    <3>3. CASE ~Worse(index', tip, startingTip)
      BY Zenon, <1>6, <3>1, <3>3
    <3> QED BY Zenon, <1>2, <3>2, <3>3
  <2> QED BY Zenon, <2>2, <2>3, <2>4
<1>11. Unpenalised' <=> Unpenalised
  BY Zenon, <1>2 DEF Unpenalised
<1>12. Complete'
  BY Zenon, <1>2, <1>10, <1>11 DEF Complete
<1>13. Chosen'
  BY Zenon, <1>2, <1>7 DEF Chosen
<1> QED BY Zenon, <1>12, <1>13

LEMMA BestStep == IInv /\ Complete /\ Chosen /\ [Next]_vars => Complete' /\ Chosen'
<1> SUFFICES ASSUME IInv, Complete, Chosen, [Next]_vars PROVE Complete' /\ Chosen'
  BY Zenon
<1>1. IInv'
  BY StepInv
<1>2. \/ \E b \in Blocks : AcceptBlockHeader(b) \/ RejectBlockHeader(b)
      \/ \E b \in Blocks, fRequested \in BOOLEAN : AcceptBlock(b, fRequested)
      \/ ActivateBestChain \/ LockMain \/ DropFailedCandidate \/ FindMostWorkChain
      \/ DisconnectTip \/ ForkReached \/ ConnectTip \/ ConnectTipFails
      \/ Restart \/ Loading \/ UNCHANGED vars
  BY Zenon DEF Next, Activation
<1> QED BY Zenon, <1>1, <1>2, FadingSteps, BlockBest, FindBest, WalkBest, ConnectBest, FailBest, StartBest

LEMMA BestInvariant == Spec => [](IInv /\ Complete /\ Chosen)
<1>1. Init => Complete /\ Chosen
  <2>1. SUFFICES ASSUME Init PROVE Complete /\ Chosen
    BY SMTT(60)
  <2>2. linked = {Genesis} /\ candidates = {Genesis} /\ tip = Genesis /\ pc = "idle" /\ Shape
    BY ZenonT(60), <2>1, InitInv DEF Init, IInv
  <2>3. ~Worse(index, Genesis, Genesis)
    BY Zenon, <2>2, Ordered
  <2> QED BY Zenon, <2>2, <2>3 DEF Complete, Chosen, Searching
<1> QED BY <1>1, InitInv, StepInv, BestStep, PTL DEF Spec

(* Without the penalty, between activations every linked block that sorts  *)
(* at least as good as the tip, and is not known to be invalid, is in      *)
(* setBlockIndexCandidates, although ConnectBlock moves blocks in the      *)
(* order and PruneBlockIndexCandidates runs in between.                    *)
THEOREM ForkCandidatesComplete == Spec => []CandidatesComplete
<1>1. Complete => CandidatesComplete
  BY Zenon DEF Complete, CandidatesComplete, Tainted, Searching
<1> QED BY <1>1, BestInvariant, PTL

(* Without the penalty, once every caller of ActivateBestChain has         *)
(* returned, the tip is the best candidate that is not known to be         *)
(* invalid, whatever arrived or failed while cs_main was released.         *)
THEOREM ForkTipIsBest == Spec => []TipIsBest
<1>1. ASSUME IInv, Chosen PROVE TipIsBest
  <2>1. SUFFICES ASSUME Unpenalised, pc = "idle", ~called, NEW c \in candidates, Worse(index, tip, c)
                 PROVE  FailedOnPath(c) # {}
    BY Zenon DEF TipIsBest, Settled
  <2>2. PICK f \in failed : IsAncestor(f, c)
    BY Zenon, <1>1, <2>1 DEF Chosen, Tainted
  <2>3. f \in Blocks /\ tip \in Blocks /\ ~Valid(f) /\ Valid(tip)
    BY Zenon, <1>1, <2>2 DEF IInv, Shape, TypeOK, Verdicts
  <2>4. ~IsAncestor(f, tip)
    BY Zenon, <2>3, ValidFacts
  <2> QED BY Zenon, <2>2, <2>4 DEF FailedOnPath
<1> QED BY <1>1, BestInvariant, PTL
=============================================================================
