-------------------------- MODULE ShieldedStateProofs --------------------------
(***************************************************************************)
(* CSaplingState under block connection, flushes, crashes and replays, for *)
(* every block tree and activation height: types, the exactness of the     *)
(* stored ledger and of the value pool, the tip on it, the refinement of   *)
(* ShieldedLedger, that only a crash leads to a fault, and that an honest  *)
(* block is accepted.  The inductive invariant is Types /\ LedgerInv; the  *)
(* later results add one conjunct each to it.                              *)
(***************************************************************************)
EXTENDS ShieldedState, WellFoundedInduction, TLAPS

(* What the provers know of sequences, as facts to cite. *)
LEMMA SeqIs ==
    ASSUME NEW S, NEW s \in Seq(S)
    PROVE  Len(s) \in Nat /\ DOMAIN s = 1 .. Len(s) /\ s \in [1 .. Len(s) -> S]
BY SMT

LEMMA EmptyIs ==
    ASSUME NEW S
    PROVE  /\ <<>> \in Seq(S) /\ Len(<<>>) = 0
           /\ \A s \in Seq(S) : s # <<>> => Len(s) \in Nat \ {0}
BY SMT

LEMMA SeqsEqual ==
    ASSUME NEW S, NEW s \in Seq(S), NEW t \in Seq(S),
           Len(s) = Len(t), \A i \in 1 .. Len(s) : s[i] = t[i]
    PROVE  s = t
BY SMT

LEMMA AppendIs ==
    ASSUME NEW S, NEW s \in Seq(S), NEW x \in S
    PROVE  /\ Append(s, x) \in Seq(S) /\ Append(s, x) # <<>>
           /\ Len(Append(s, x)) = Len(s) + 1 /\ Append(s, x)[Len(s) + 1] = x
           /\ \A i \in 1 .. Len(s) : Append(s, x)[i] = s[i]
BY SMT

LEMMA ConcatIs ==
    ASSUME NEW S, NEW s \in Seq(S), NEW t \in Seq(S)
    PROVE  /\ s \o t \in Seq(S) /\ Len(s \o t) = Len(s) + Len(t)
           /\ \A i \in 1 .. Len(s) + Len(t) :
                 (s \o t)[i] = IF i <= Len(s) THEN s[i] ELSE t[i - Len(s)]
BY SMT

LEMMA SubSeqIs ==
    ASSUME NEW S, NEW s, NEW m \in Int, NEW n \in Int, \A i \in m .. n : s[i] \in S
    PROVE  /\ SubSeq(s, m, n) \in Seq(S)
           /\ Len(SubSeq(s, m, n)) = IF m <= n THEN n - m + 1 ELSE 0
           /\ \A i \in 1 .. n - m + 1 : SubSeq(s, m, n)[i] = s[m + i - 1]
BY SMT

LEMMA SubSeqNone ==
    ASSUME NEW s, NEW m \in Int, NEW n \in Int, n < m
    PROVE  SubSeq(s, m, n) = <<>>
BY SMT

LEMMA SubSeqWhole ==
    ASSUME NEW S, NEW s \in Seq(S)
    PROVE  SubSeq(s, 1, Len(s)) = s
BY SMT

(* Blocks as sequences: ancestors, parents and heights. *)
LEMMA AncestorType ==
    ASSUME NEW b \in Seq(Nat), NEW h \in 0 .. Len(b)
    PROVE  /\ Ancestor(b, h) \in Seq(Nat) /\ Len(Ancestor(b, h)) = h
           /\ \A i \in 1 .. h : Ancestor(b, h)[i] = b[i]
<1>1. h \in Int /\ \A i \in 1 .. h : b[i] \in Nat
  BY SeqIs
<1> QED BY <1>1, SubSeqIs DEF Ancestor

LEMMA AncestorFull == ASSUME NEW b \in Seq(Nat) PROVE Ancestor(b, Len(b)) = b
BY SubSeqWhole DEF Ancestor

LEMMA AncestorAncestor ==
    ASSUME NEW b \in Seq(Nat), NEW h \in 0 .. Len(b), NEW k \in 0 .. h
    PROVE  Ancestor(Ancestor(b, h), k) = Ancestor(b, k)
<1>1. Len(b) \in Nat /\ k \in 0 .. Len(b)
  BY SeqIs
<1> DEFINE a == Ancestor(b, h)
<1>2. a \in Seq(Nat) /\ Len(a) = h /\ \A i \in 1 .. h : a[i] = b[i]
  BY AncestorType
<1> HIDE DEF a
<1>3. /\ Ancestor(a, k) \in Seq(Nat) /\ Len(Ancestor(a, k)) = k
      /\ \A i \in 1 .. k : Ancestor(a, k)[i] = a[i]
  BY Zenon, <1>2, AncestorType
<1>4. /\ Ancestor(b, k) \in Seq(Nat) /\ Len(Ancestor(b, k)) = k
      /\ \A i \in 1 .. k : Ancestor(b, k)[i] = b[i]
  BY <1>1, AncestorType
<1>5. ASSUME NEW i \in 1 .. k PROVE Ancestor(a, k)[i] = Ancestor(b, k)[i]
  <2>1. i \in 1 .. h
    BY <1>1
  <2>2. Ancestor(a, k)[i] = a[i] /\ a[i] = b[i] /\ Ancestor(b, k)[i] = b[i]
    BY <1>2, <1>3, <1>4, <2>1, Zenon
  <2> QED BY <2>2
<1>6. Ancestor(a, k) = Ancestor(b, k)
  BY <1>3, <1>4, <1>5, SeqsEqual
<1> QED BY <1>6 DEF a

LEMMA ParentType ==
    ASSUME NEW b \in Seq(Nat), b # Genesis
    PROVE  /\ Len(b) \in Nat \ {0} /\ Parent(b) = Ancestor(b, Len(b) - 1)
           /\ Parent(b) \in Seq(Nat) /\ Len(Parent(b)) = Len(b) - 1
           /\ \A h \in 0 .. Len(b) - 1 : Ancestor(Parent(b), h) = Ancestor(b, h)
<1>1. Len(b) \in Nat \ {0} /\ Len(b) - 1 \in 0 .. Len(b)
  BY EmptyIs, SeqIs DEF Genesis
<1>2. Parent(b) = Ancestor(b, Len(b) - 1)
  BY DEF Parent, Ancestor
<1> QED BY ZenonT(60), <1>1, <1>2, AncestorType, AncestorAncestor

LEMMA IsAncestorFacts ==
    ASSUME NEW a \in Seq(Nat), NEW b \in Seq(Nat), IsAncestor(a, b)
    PROVE  /\ Len(a) \in Nat /\ Len(b) \in Nat /\ Len(a) <= Len(b)
           /\ a = Ancestor(b, Len(a))
           /\ Len(a) = Len(b) => a = b
           /\ \A h \in 0 .. Len(a) : Ancestor(a, h) = Ancestor(b, h)
           /\ \A h \in 0 .. Len(a) : IsAncestor(Ancestor(a, h), b)
           /\ a # b => b # Genesis /\ IsAncestor(a, Parent(b))
<1>1. Len(a) \in Nat /\ Len(b) \in Nat /\ Len(a) <= Len(b) /\ a = Ancestor(b, Len(a))
  BY SeqIs DEF IsAncestor, Ancestor
<1>2. Len(a) \in 0 .. Len(b)
  BY <1>1
<1>3. Len(a) = Len(b) => a = b
  BY <1>1, AncestorFull
<1>4. \A h \in 0 .. Len(a) : Ancestor(a, h) = Ancestor(b, h)
  BY <1>1, <1>2, AncestorAncestor
<1>5. ASSUME NEW h \in 0 .. Len(a) PROVE IsAncestor(Ancestor(a, h), b)
  <2>1. h \in 0 .. Len(b) /\ Len(Ancestor(a, h)) = h /\ Ancestor(b, h) = Ancestor(a, h)
    BY <1>1, <1>4, AncestorType
  <2> QED BY <1>1, <2>1 DEF IsAncestor, Ancestor
<1>6. ASSUME a # b PROVE b # Genesis /\ IsAncestor(a, Parent(b))
  <2>1. Len(a) < Len(b)
    BY <1>1, <1>3, <1>6
  <2>2. b # Genesis
    BY <1>1, <2>1, EmptyIs DEF Genesis
  <2>3. Len(Parent(b)) = Len(b) - 1 /\ Ancestor(Parent(b), Len(a)) = Ancestor(b, Len(a))
    BY <1>1, <2>1, <2>2, ParentType
  <2> QED BY <1>1, <2>1, <2>2, <2>3 DEF IsAncestor, Ancestor
<1> QED BY <1>1, <1>3, <1>4, <1>5, <1>6

LEMMA IsAncestorSelf == ASSUME NEW b \in Seq(Nat) PROVE IsAncestor(b, b)
BY AncestorFull, SeqIs DEF IsAncestor, Ancestor

LEMMA MaxHeightInterval ==
    ASSUME NEW a \in Nat, NEW b \in Int
    PROVE  MaxHeight(a .. b) = IF a <= b THEN b ELSE -1
<1>1. CASE a <= b
  <2>1. b \in a .. b /\ \A k \in a .. b : k <= b
    BY <1>1
  <2>2. \A h \in a .. b : (\A k \in a .. b : k <= h) => h = b
    BY <2>1
  <2>3. (CHOOSE h \in a .. b : \A k \in a .. b : k <= h) = b
    BY <2>1, <2>2
  <2> QED BY <1>1, <2>1, <2>3 DEF MaxHeight
<1>2. CASE ~(a <= b)
  BY <1>2 DEF MaxHeight
<1> QED BY <1>1, <1>2

(* A set of naturals has a least element, and a greatest if it is bounded. *)
LEMMA Least ==
    ASSUME NEW S \in SUBSET Nat, S # {}
    PROVE  \E m \in S : \A k \in S : m <= k
<1>1. PICK m \in S : \A k \in S : ~(<<k, m>> \in OpToRel(<, Nat))
  BY Zenon, NatLessThanWellFounded, WFMin
<1>2. \A k \in S : ~(k < m)
  BY Zenon, <1>1 DEF OpToRel
<1> QED BY <1>2

LEMMA Greatest ==
    ASSUME NEW S \in SUBSET Nat, S # {}, NEW b \in Nat, \A k \in S : k <= b
    PROVE  \E m \in S : \A k \in S : k <= m
<1> DEFINE T == {n \in Nat : b - n \in S}
<1>1. T # {} /\ T \in SUBSET Nat
  <2>1. PICK s \in S : TRUE
    BY Zenon
  <2>2. b - s \in Nat /\ b - (b - s) = s
    BY <2>1
  <2> QED BY <2>1, <2>2
<1>2. PICK t \in T : \A k \in T : t <= k
  <2> HIDE DEF T
  <2> QED BY <1>1, Least
<1>3. ASSUME NEW k \in S PROVE k <= b - t
  <2>1. b - k \in Nat /\ b - (b - k) = k
    OBVIOUS
  <2>2. b - k \in T
    BY <2>1
  <2> QED BY <1>2, <2>2
<1> QED BY <1>2, <1>3

(* Finite sets are those a sequence enumerates. *)
LEMMA FiniteEmpty == IsFiniteSet({})
<1>1. <<>> \in Seq({})
  BY EmptyIs
<1> QED BY Zenon, <1>1 DEF IsFiniteSet

LEMMA FiniteAdd == ASSUME NEW S, IsFiniteSet(S), NEW x PROVE IsFiniteSet(S \cup {x})
<1>1. PICK s \in Seq(S) : \A y \in S : \E n \in 1 .. Len(s) : s[n] = y
  BY DEF IsFiniteSet
<1> DEFINE t == Append(s, x)
<1>2. s \in Seq(S \cup {x})
  BY <1>1
<1>3. /\ t \in Seq(S \cup {x}) /\ Len(t) = Len(s) + 1 /\ t[Len(s) + 1] = x
      /\ Len(s) \in Nat /\ \A n \in 1 .. Len(s) : t[n] = s[n]
  BY <1>2, AppendIs, SeqIs
<1> HIDE DEF t
<1>4. \A y \in S \cup {x} : \E n \in 1 .. Len(t) : t[n] = y
  BY SMTT(60), <1>1, <1>3
<1> QED BY Zenon, <1>3, <1>4 DEF IsFiniteSet

LEMMA FiniteRemove == ASSUME NEW S, IsFiniteSet(S), NEW x PROVE IsFiniteSet(S \ {x})
<1>1. PICK s \in Seq(S) : \A y \in S : \E n \in 1 .. Len(s) : s[n] = y
  BY DEF IsFiniteSet
<1>2. CASE S \ {x} = {}
  BY Zenon, <1>2, FiniteEmpty
<1>3. CASE S \ {x} # {}
  <2>1. PICK z \in S \ {x} : TRUE
    BY <1>3
  <2> DEFINE t == [n \in 1 .. Len(s) |-> IF s[n] = x THEN z ELSE s[n]]
  <2>2. Len(s) \in Nat /\ \A n \in 1 .. Len(s) : s[n] \in S
    BY <1>1, SeqIs
  <2>3. t \in Seq(S \ {x}) /\ Len(t) = Len(s)
    BY <2>1, <2>2
  <2>4. \A y \in S \ {x} : \E n \in 1 .. Len(t) : t[n] = y
    <3> TAKE y \in S \ {x}
    <3>1. PICK n \in 1 .. Len(s) : s[n] = y
      BY Zenon, <1>1
    <3>2. t[n] = y /\ n \in 1 .. Len(t)
      BY Zenon, <2>3, <3>1
    <3> QED BY Zenon, <3>2
  <2> QED BY Zenon, <2>3, <2>4 DEF IsFiniteSet
<1> QED BY <1>2, <1>3

(* The greatest height of a finite set of heights: were the enumeration    *)
(* unbounded, a shortest unbounded part of it would be an entry longer     *)
(* than a bounded one.                                                     *)
LEMMA MaxHeightType ==
    ASSUME NEW H \in SUBSET Nat, IsFiniteSet(H)
    PROVE  MaxHeight(H) \in H \cup {-1}
<1>1. PICK s \in Seq(H) : \A y \in H : \E n \in 1 .. Len(s) : s[n] = y
  BY DEF IsFiniteSet
<1>2. Len(s) \in Nat /\ \A n \in 1 .. Len(s) : s[n] \in Nat
  BY Zenon, <1>1, SeqIs
<1> DEFINE Bounded(n) == \E b \in Nat : \A i \in 1 .. n : s[i] <= b
           U == {n \in 0 .. Len(s) : ~Bounded(n)}
<1>3. U = {}
  <2>1. SUFFICES ASSUME U # {} PROVE FALSE
    BY Zenon
  <2>2. PICK m \in U : \A k \in U : m <= k
    <3>1. U \in SUBSET Nat
      OBVIOUS
    <3> HIDE DEF U
    <3> QED BY <2>1, <3>1, Least
  <2>3. m # 0
    <3>1. 0 \in Nat /\ \A i \in 1 .. 0 : s[i] <= 0
      OBVIOUS
    <3>2. Bounded(0)
      BY Zenon, <3>1
    <3> QED BY <3>2
  <2>4. m - 1 \in 0 .. Len(s) /\ m \in 1 .. Len(s) /\ ~(m <= m - 1)
    BY <1>2, <2>2, <2>3
  <2>5. PICK b \in Nat : \A i \in 1 .. m - 1 : s[i] <= b
    <3>1. m - 1 \notin U
      <4> HIDE DEF U
      <4> QED BY Zenon, <2>2, <2>4
    <3> QED BY Zenon, <2>4, <3>1
  <2>6. b + s[m] \in Nat /\ \A i \in 1 .. m : s[i] <= b + s[m]
    <3>1. s[m] \in Nat /\ b \in Nat
      BY <1>2, <2>4, <2>5
    <3> HIDE DEF U
    <3>2. ASSUME NEW i \in 1 .. m PROVE s[i] <= b + s[m]
      <4>1. s[i] \in Nat
        BY <1>2, <2>4
      <4>2. i = m \/ i \in 1 .. m - 1
        BY <2>4
      <4>3. s[i] <= b \/ s[i] = s[m]
        BY Zenon, <2>5, <4>2
      <4> QED BY <3>1, <4>1, <4>3
    <3> QED BY <3>1, <3>2
  <2>7. Bounded(m)
    BY Zenon, <2>6
  <2> QED BY Zenon, <2>2, <2>7
<1>4. PICK b \in Nat : \A i \in 1 .. Len(s) : s[i] <= b
  <2>1. Len(s) \in 0 .. Len(s)
    BY <1>2
  <2> QED BY Zenon, <1>3, <2>1
<1>5. \A k \in H : k <= b
  BY <1>1, <1>4
<1>6. CASE H # {}
  <2>1. \E m \in H : \A k \in H : k <= m
    BY Zenon, <1>5, <1>6, Greatest
  <2>2. (CHOOSE h \in H : \A k \in H : k <= h) \in H
    BY Zenon, <2>1
  <2> QED BY <1>6, <2>2 DEF MaxHeight
<1>7. CASE H = {}
  BY <1>7 DEF MaxHeight
<1> QED BY <1>6, <1>7

-----------------------------------------------------------------------------
(* Types.  The index in memory is prefix-closed, the last frontier is one  *)
(* of those in SaplingDB, and heads are left behind only by a flush.       *)
SaplingType ==
    /\ DOMAIN nullifiers \subseteq Nullifiers
    /\ \A n \in DOMAIN nullifiers : nullifiers[n] \in Nat
    /\ DOMAIN roots \subseteq Nat /\ IsFiniteSet(DOMAIN roots)
    /\ \A h \in DOMAIN roots : roots[h] \in Seq(Notes)
    /\ best \in Blocks \cup {NoBlock} /\ pool \in Nat
    /\ lastFrontierHeight \in DOMAIN roots \cup {-1}

IndexType ==
    /\ known \subseteq Blocks /\ failed \subseteq known /\ PrefixClosed(known)
    /\ {tip, replayed, coins, evo} \subseteq known
    /\ heads = <<>> \/ heads \in known \X known
    /\ mode \in {"up", "flush", "evo", "stopping", "down", "replay", "load", "held"}

Flow ==
    /\ heads # <<>> => mode \in {"flush", "down", "replay", "held"}
    /\ mode = "flush" /\ heads # <<>> => heads[1] = tip
    /\ mode = "replay" => heads # <<>>

Types ==
    /\ SaplingType /\ IndexType /\ Flow
    /\ pending \in Batch \cup {NoBatch}
    /\ strayed \in BOOLEAN /\ crashes \in Nat

LEMMA TypesTypeOK == Types => TypeOK
BY DEF Types, SaplingType, IndexType, TypeOK

LEMMA BlockFacts ==
    ASSUME NEW b \in Blocks
    PROVE  /\ b \in Seq(Nat) /\ Len(b) \in Nat
           /\ SpentIn(b) \subseteq Nullifiers
           /\ Outputs[b] \in Seq(Notes) /\ ValueBalance[b] \in Int
           /\ NoData(b) => SpentIn(b) = {} /\ Outputs[b] = <<>> /\ ValueBalance[b] = 0
           /\ b # Genesis => Parent(b) \in Blocks
<1>1. b \in Seq(Nat) /\ Len(b) \in Nat /\ Spends[b] \in Seq(Nullifiers)
  BY ShieldedAssumption, SeqIs
<1>2. SpentIn(b) \subseteq Nullifiers
  BY <1>1, SeqIs DEF SpentIn
<1>3. Outputs[b] \in Seq(Notes) /\ ValueBalance[b] \in Int
  BY ShieldedAssumption
<1>4. NoData(b) => SpentIn(b) = {} /\ Outputs[b] = <<>> /\ ValueBalance[b] = 0
  BY ShieldedAssumption DEF NoData, SpentIn
<1>5. b # Genesis => Parent(b) \in Blocks
  BY SMTT(60), <1>1, ParentType, ShieldedAssumption DEF PrefixClosed
<1> QED BY <1>1, <1>2, <1>3, <1>4, <1>5

LEMMA QueuedType ==
    ASSUME SaplingType, pending \in Batch \cup {NoBatch}, NEW b \in Blocks
    PROVE  /\ Queued(b) \in Batch \cup {NoBatch}
           /\ SpendsValid(b) => NewBatch(b) \in Batch
<1>1. Frontier \in Seq(Notes)
  BY EmptyIs DEF Frontier, SaplingType
<1>2. Frontier \o Outputs[b] \in Seq(Notes)
  BY <1>1, BlockFacts, ConcatIs
<1>3. SpendsValid(b) => pool - ValueBalance[b] \in Nat
  BY BlockFacts DEF SpendsValid, SaplingType
<1>4. SpendsValid(b) => NewBatch(b) \in Batch
  BY <1>2, <1>3 DEF NewBatch, Batch
<1> QED BY <1>4 DEF Queued

LEMMA CommitType ==
    ASSUME SaplingType, NEW batch \in Batch \cup {NoBatch}, CommitBlock(batch)
    PROVE  SaplingType'
<1>1. CASE batch = NoBatch
  BY <1>1 DEF CommitBlock, SaplingType, saplingDisk
<1>2. CASE batch # NoBatch
  <2> DEFINE b == batch.block
             h == Len(b)
  <2>1. b \in Blocks /\ batch.root \in Seq(Notes) /\ batch.pool \in Nat
    BY <1>2 DEF Batch
  <2>2. h \in Nat /\ SpentIn(b) \subseteq Nullifiers
    BY <2>1, BlockFacts
  <2>3. /\ nullifiers' = [n \in DOMAIN nullifiers \cup SpentIn(b) |->
                             IF n \in SpentIn(b) THEN h ELSE nullifiers[n]]
        /\ roots' = [k \in DOMAIN roots \cup {h} |-> IF k = h THEN batch.root ELSE roots[k]]
        /\ best' = b /\ pool' = batch.pool
        /\ lastFrontierHeight' = IF h > lastFrontierHeight THEN h ELSE lastFrontierHeight
    BY Zenon, <1>2 DEF CommitBlock
  <2> HIDE DEF b, h
  <2>4. IsFiniteSet(DOMAIN roots \cup {h})
    BY Zenon, FiniteAdd DEF SaplingType
  <2>5. /\ DOMAIN nullifiers' \subseteq Nullifiers
        /\ \A n \in DOMAIN nullifiers' : nullifiers'[n] \in Nat
    BY <2>2, <2>3 DEF SaplingType
  <2>6. /\ DOMAIN roots' \subseteq Nat /\ IsFiniteSet(DOMAIN roots')
        /\ \A k \in DOMAIN roots' : roots'[k] \in Seq(Notes)
        /\ lastFrontierHeight' \in DOMAIN roots' \cup {-1}
    BY Zenon, <2>1, <2>2, <2>3, <2>4 DEF SaplingType
  <2> QED BY Zenon, <2>1, <2>3, <2>5, <2>6 DEF SaplingType
<1> QED BY <1>1, <1>2

LEMMA UndoType ==
    ASSUME SaplingType, NEW b \in Blocks, b # Genesis, UndoOK(b), UndoBlock(b)
    PROVE  SaplingType'
<1>1. CASE ~Active(b)
  BY <1>1 DEF UndoBlock, SaplingType, saplingDisk
<1>2. CASE Active(b)
  <2>1. /\ nullifiers' = [n \in DOMAIN nullifiers \ SpentIn(b) |-> nullifiers[n]]
        /\ roots' = [k \in DOMAIN roots \ {Len(b)} |-> roots[k]]
        /\ best' = Parent(b) /\ pool' = pool + ValueBalance[b]
        /\ lastFrontierHeight' = IF Len(b) >= lastFrontierHeight
                                 THEN MaxHeight(DOMAIN roots \ {Len(b)})
                                 ELSE lastFrontierHeight
    BY <1>2 DEF UndoBlock
  <2>2. Len(b) \in Nat /\ Parent(b) \in Blocks /\ pool' \in Nat
    BY <1>2, <2>1, BlockFacts DEF UndoOK, SaplingType
  <2>3. /\ DOMAIN roots' = DOMAIN roots \ {Len(b)} /\ IsFiniteSet(DOMAIN roots')
        /\ DOMAIN roots' \subseteq Nat
    BY Zenon, <2>1, FiniteRemove DEF SaplingType
  <2>4. MaxHeight(DOMAIN roots') \in DOMAIN roots' \cup {-1}
    BY <2>3, MaxHeightType
  <2>5. lastFrontierHeight' \in DOMAIN roots' \cup {-1}
    BY <2>1, <2>2, <2>3, <2>4 DEF SaplingType
  <2>6. /\ DOMAIN nullifiers' \subseteq Nullifiers
        /\ \A n \in DOMAIN nullifiers' : nullifiers'[n] \in Nat
        /\ \A k \in DOMAIN roots' : roots'[k] \in Seq(Notes)
    BY Zenon, <2>1 DEF SaplingType
  <2> QED BY Zenon, <2>1, <2>2, <2>3, <2>5, <2>6 DEF SaplingType
<1> QED BY <1>1, <1>2

LEMMA TypesStep == Types /\ [Next]_vars => Types'
<1> SUFFICES ASSUME Types, [Next]_vars PROVE Types'
  OBVIOUS
<1> USE DEF vars, indexVars, diskVars, saplingVars, saplingDisk
<1>0. /\ SaplingType /\ IndexType /\ Flow /\ pending \in Batch \cup {NoBatch}
      /\ strayed \in BOOLEAN /\ crashes \in Nat
  BY DEF Types
<1>a. /\ Genesis \in Blocks /\ Blocks \subseteq Seq(Nat) /\ known \subseteq Blocks
      /\ {tip, replayed, coins, evo} \subseteq Blocks
      /\ heads # <<>> => {heads[1], heads[2]} \subseteq known
  BY Zenon, <1>0, ShieldedAssumption DEF IndexType
<1>1. ASSUME NEW b \in Blocks, Receive(b) PROVE Types'
  <2>1. PrefixClosed(known')
    <3> SUFFICES ASSUME NEW c \in known', NEW h \in 0 .. Len(c)
                 PROVE  Ancestor(c, h) \in known'
      BY DEF PrefixClosed
    <3>1. CASE c \in known
      BY <1>0, <1>1, <3>1 DEF IndexType, PrefixClosed, Receive
    <3>2. CASE c = b
      <4>1. Genesis \in known
        <5>1. tip \in known /\ tip \in Seq(Nat) /\ 0 \in 0 .. Len(tip)
          BY <1>0, <1>a, SeqIs DEF IndexType
        <5>2. Ancestor(tip, 0) = Genesis
          BY <5>1, AncestorType, EmptyIs DEF Genesis
        <5> QED BY <1>0, <5>1, <5>2 DEF IndexType, PrefixClosed
      <4>2. b # Genesis /\ b \in Seq(Nat)
        BY <1>1, <1>a, <4>1 DEF Receive
      <4>3. CASE h = Len(b)
        BY Zenon, <1>1, <3>2, <4>2, <4>3, AncestorFull DEF Receive
      <4>4. CASE h # Len(b)
        <5>1. h \in 0 .. Len(b) - 1 /\ h \in 0 .. Len(Parent(b))
          BY <3>2, <4>2, <4>4, ParentType
        <5>2. Ancestor(Parent(b), h) \in known
          BY Zenon, <1>0, <1>1, <5>1 DEF IndexType, PrefixClosed, Receive
        <5> QED BY Zenon, <1>1, <3>2, <4>2, <5>1, <5>2, ParentType DEF Receive
      <4> QED BY <4>3, <4>4
    <3> QED BY <1>1, <3>1, <3>2 DEF Receive
  <2> QED BY Zenon, <1>0, <1>1, <2>1 DEF Types, SaplingType, IndexType, Flow, Receive
<1>2. ASSUME NEW b \in Blocks, Connects(b) PROVE b \in known
  <2>1. PICK t \in Targets : IsAncestor(b, t)
    BY <1>2 DEF Connects
  <2>2. t \in known /\ t \in Seq(Nat) /\ b \in Seq(Nat)
    BY Zenon, <1>a DEF Targets
  <2>3. b = Ancestor(t, Len(b)) /\ Len(b) \in 0 .. Len(t)
    BY <2>1, <2>2, IsAncestorFacts
  <2> QED BY <1>0, <2>2, <2>3 DEF IndexType, PrefixClosed
<1>3. ASSUME NEW b \in Blocks, Connect(b) PROVE Types'
  <2>1. b \in known
    BY <1>2, <1>3 DEF Connect
  <2>2. SaplingType'
    BY Zenon, <1>0, <1>3, QueuedType, CommitType DEF Connect
  <2> QED BY Zenon, <1>0, <1>3, <2>1, <2>2 DEF Types, IndexType, Flow, Connect, Connects
<1>4. ASSUME NEW b \in Blocks, ConnectFails(b) PROVE Types'
  <2>1. b \in known
    BY Zenon, <1>2, <1>4 DEF ConnectFails
  <2>2. pending' \in Batch \cup {NoBatch}
    BY Zenon, <1>0, <1>4, QueuedType DEF ConnectFails
  <2> QED BY ZenonT(60), <1>0, <1>4, <2>1, <2>2 DEF Types, SaplingType, IndexType, Flow, ConnectFails
<1>5. ASSUME NEW b \in Blocks, JustCheck(b) PROVE Types'
  BY Zenon, <1>0, <1>5 DEF Types, SaplingType, IndexType, Flow, JustCheck
<1>6. ASSUME NEW b \in known, b # Genesis PROVE Parent(b) \in known
  BY <1>0, <1>6, <1>a, ParentType DEF IndexType, PrefixClosed
<1>7. CASE DisconnectTip
  <2>1. tip \in Blocks /\ tip # Genesis /\ Parent(tip) \in known
    BY Zenon, <1>0, <1>a, <1>6, <1>7 DEF DisconnectTip, Disconnects, IndexType
  <2>2. SaplingType'
    BY <1>0, <1>7, <2>1, UndoType DEF DisconnectTip
  <2> QED BY Zenon, <1>0, <1>7, <2>1, <2>2
        DEF Types, IndexType, Flow, DisconnectTip, Disconnects
<1>8. CASE DisconnectFails
  BY Zenon, <1>0, <1>8 DEF Types, SaplingType, IndexType, Flow, DisconnectFails, Disconnects, OffDuty
<1>9. CASE BeginFlush \/ WritePartialBatch \/ WriteFinalBatch \/ CommitEvoDB \/ Stop
  <2>1. SaplingType' /\ IndexType'
    BY <1>0, <1>9 DEF SaplingType, IndexType, BeginFlush, WritePartialBatch,
       WriteFinalBatch, CommitEvoDB, Stop
  <2>2. Flow'
    BY <1>0, <1>9 DEF Flow, BeginFlush, WritePartialBatch, WriteFinalBatch, CommitEvoDB, Stop
  <2> QED BY Zenon, <1>0, <1>9, <2>1, <2>2 DEF Types, BeginFlush, WritePartialBatch,
       WriteFinalBatch, CommitEvoDB, Stop
<1>b. Genesis \in known
  <2>1. tip \in known /\ tip \in Seq(Nat) /\ 0 \in 0 .. Len(tip)
    BY <1>0, <1>a, SeqIs DEF IndexType
  <2>2. Ancestor(tip, 0) = Genesis
    BY ZenonT(60), <2>1, AncestorType, EmptyIs DEF Genesis
  <2> QED BY <1>0, <2>1, <2>2 DEF IndexType, PrefixClosed
<1>10. CASE Shutdown
  BY Zenon, <1>0, <1>10, <1>b DEF Types, SaplingType, IndexType, Flow, Shutdown
<1>11. CASE Crash
  <2>1. IndexType'
    BY <1>0, <1>11 DEF IndexType, Crash, OnDisk
  <2> QED BY <1>0, <1>11, <2>1 DEF Types, SaplingType, Flow, Crash
<1>12. CASE BeginReplay
  <2>1. SaplingType'
    BY Zenon, <1>0, <1>12, MaxHeightType DEF SaplingType, BeginReplay, Open
  <2> QED BY Zenon, <1>0, <1>a, <1>12, <2>1 DEF Types, IndexType, Flow, BeginReplay, Open, OffDuty
<1>13. CASE RollBack
  <2>1. replayed # Genesis
    <3>1. heads # <<>> /\ heads[1] \in Seq(Nat)
      BY Zenon, <1>0, <1>a, <1>13 DEF RollBack, RollsBack, Flow
    <3>2. IsAncestor(Genesis, heads[1])
      BY <3>1, SeqIs, EmptyIs, SubSeqNone DEF IsAncestor, Genesis
    <3> QED BY <1>13, <3>2 DEF RollBack, RollsBack
  <2>2. Parent(replayed) \in known
    BY <1>0, <1>6, <2>1 DEF IndexType
  <2>3. SaplingType'
    BY Zenon, <1>0, <1>a, <1>13, <2>1, UndoType DEF RollBack
  <2> QED BY Zenon, <1>0, <1>13, <2>2, <2>3 DEF Types, IndexType, Flow, RollBack
<1>14. CASE RollforwardBlock
  <2>1. NextReplayed \in known
    <3>1. /\ heads # <<>> /\ heads[1] \in Seq(Nat) /\ heads[1] \in known
          /\ replayed \in Seq(Nat) /\ IsAncestor(replayed, heads[1]) /\ replayed # heads[1]
      BY Zenon, <1>0, <1>a, <1>14 DEF RollforwardBlock, RollsForward, Flow
    <3>2. Len(replayed) + 1 \in 0 .. Len(heads[1])
      BY <3>1, IsAncestorFacts
    <3> QED BY Zenon, <1>0, <3>1, <3>2 DEF NextReplayed, IndexType, PrefixClosed
  <2>2. SaplingType'
    BY Zenon, <1>0, <1>a, <1>14, <2>1, QueuedType, CommitType DEF RollforwardBlock
  <2> QED BY Zenon, <1>0, <1>14, <2>1, <2>2 DEF Types, IndexType, Flow, RollforwardBlock
<1>15. CASE ReplayFails
  BY Zenon, <1>0, <1>15 DEF Types, SaplingType, IndexType, Flow, ReplayFails, RollsBack,
     RollsForward, OffDuty
<1>16. CASE FinishReplay
  BY Zenon, <1>0, <1>a, <1>16 DEF Types, SaplingType, IndexType, Flow, FinishReplay
<1>17. CASE LoadAfterReplay
  BY Zenon, <1>0, <1>17 DEF Types, SaplingType, IndexType, Flow, LoadAfterReplay, Start, OffDuty
<1>18. CASE Load
  <2>1. SaplingType'
    BY Zenon, <1>0, <1>18, MaxHeightType DEF SaplingType, Load, Open
  <2> QED BY Zenon, <1>0, <1>18, <2>1 DEF Types, IndexType, Flow, Load, Open, Start, OffDuty
<1>19. CASE UNCHANGED vars
  BY ZenonT(60), <1>0, <1>19 DEF Types, SaplingType, IndexType, Flow
<1> QED BY Zenon, <1>1, <1>3, <1>4, <1>5, <1>7, <1>8, <1>9, <1>10, <1>11, <1>12, <1>13, <1>14,
           <1>15, <1>16, <1>17, <1>18, <1>19 DEF Next

LEMMA TypesInit == Init => Types
<1> SUFFICES ASSUME Init PROVE Types
  OBVIOUS
<1>1. DOMAIN nullifiers = {} /\ DOMAIN roots = {} /\ IsFiniteSet(DOMAIN roots)
  BY FiniteEmpty DEF Init
<1>2. SaplingType
  BY Zenon, <1>1 DEF Init, SaplingType
<1>3. PrefixClosed({Genesis})
  <2>1. Genesis \in Seq(Nat) /\ Len(Genesis) = 0
    BY EmptyIs DEF Genesis
  <2>2. Ancestor(Genesis, Len(Genesis)) = Genesis
    BY Zenon, <2>1, AncestorFull
  <2>3. \A h \in 0 .. Len(Genesis) : h = Len(Genesis)
    BY <2>1
  <2> QED BY <2>2, <2>3, Zenon DEF PrefixClosed
<1>4. IndexType
  BY Zenon, <1>3, ShieldedAssumption DEF Init, IndexType
<1> QED BY Zenon, <1>2, <1>4 DEF Init, Types, Flow

(* Every variable of ShieldedState keeps its type, also after SaplingDB    *)
(* has strayed: the value pool never goes below zero, and every height it  *)
(* is asked for has a frontier.                                            *)
THEOREM ShieldedType == Spec => []TypeOK
BY TypesInit, TypesStep, TypesTypeOK, PTL DEF Spec

-----------------------------------------------------------------------------
(* The ledger of the chain to H: what LedgerExact says of SaplingDB, for   *)
(* any frontiers r and nullifiers nf.                                      *)
Exact(r, nf, H) ==
    /\ DOMAIN r = SaplingHeight .. Len(H)
    /\ \A h \in DOMAIN r :
          r[h] = (IF h = SaplingHeight THEN <<>> ELSE r[h - 1]) \o Outputs[Ancestor(H, h)]
    /\ \A n \in DOMAIN nf : nf[n] \in DOMAIN r /\ n \in SpentIn(Ancestor(H, nf[n]))
    /\ \A h \in DOMAIN r : \A n \in SpentIn(Ancestor(H, h)) : n \in DOMAIN nf /\ nf[n] = h

(* The block below b on the ledger. *)
Below(b) == IF Len(b) = SaplingHeight THEN Genesis ELSE Parent(b)

LEMMA BelowFacts ==
    ASSUME NEW b \in Blocks, Active(b)
    PROVE  /\ b # Genesis /\ Len(b) \in Nat /\ Below(b) \in Blocks
           /\ SaplingHeight \in Nat \ {0} /\ SaplingHeight <= Len(b)
           /\ Ancestor(b, Len(b)) = b
           /\ SaplingHeight .. Len(Below(b)) = (SaplingHeight .. Len(b)) \ {Len(b)}
           /\ \A h \in SaplingHeight .. Len(Below(b)) : Ancestor(Below(b), h) = Ancestor(b, h)
           /\ Below(b) = IF Active(Parent(b)) THEN Parent(b) ELSE Genesis
<1>1. /\ b \in Seq(Nat) /\ Len(b) \in Nat /\ SaplingHeight \in Nat \ {0}
      /\ SaplingHeight <= Len(b) /\ Len(Genesis) = 0 /\ Genesis \in Blocks
  BY Zenon, BlockFacts, ShieldedAssumption, EmptyIs DEF Active, Genesis
<1>2. b # Genesis
  BY <1>1
<1>3. /\ Parent(b) \in Blocks /\ Len(Parent(b)) = Len(b) - 1
      /\ \A h \in 0 .. Len(b) - 1 : Ancestor(Parent(b), h) = Ancestor(b, h)
  BY Zenon, <1>1, <1>2, BlockFacts, ParentType
<1>4. Ancestor(b, Len(b)) = b
  BY <1>1, AncestorFull
<1>5. Below(b) = IF Active(Parent(b)) THEN Parent(b) ELSE Genesis
  BY <1>1, <1>3 DEF Below, Active
<1>6. SaplingHeight .. Len(Below(b)) = (SaplingHeight .. Len(b)) \ {Len(b)}
  BY SMTT(60), <1>1, <1>3 DEF Below
<1>7. \A h \in SaplingHeight .. Len(Below(b)) : Ancestor(Below(b), h) = Ancestor(b, h)
  BY SMTT(60), <1>1, <1>3 DEF Below
<1> QED BY Zenon, <1>1, <1>2, <1>3, <1>4, <1>5, <1>6, <1>7 DEF Below

LEMMA ExactApply ==
    ASSUME NEW r, NEW nf, NEW b \in Blocks, Active(b), Exact(r, nf, Below(b)),
           SpentIn(b) \cap DOMAIN nf = {},
           NEW r2, r2 = [k \in DOMAIN r \cup {Len(b)} |->
                           IF k = Len(b)
                           THEN (IF Len(b) = SaplingHeight THEN <<>> ELSE r[Len(b) - 1])
                                \o Outputs[b]
                           ELSE r[k]],
           NEW nf2, nf2 = [n \in DOMAIN nf \cup SpentIn(b) |->
                             IF n \in SpentIn(b) THEN Len(b) ELSE nf[n]]
    PROVE  Exact(r2, nf2, b)
<1> DEFINE H == Below(b)
           S == SaplingHeight .. Len(H)
           F == IF Len(b) = SaplingHeight THEN <<>> ELSE r[Len(b) - 1]
<1>1. /\ Len(b) \in Nat /\ SaplingHeight \in Nat \ {0} /\ SaplingHeight <= Len(b)
      /\ Ancestor(b, Len(b)) = b
      /\ S = (SaplingHeight .. Len(b)) \ {Len(b)}
      /\ \A h \in S : Ancestor(H, h) = Ancestor(b, h)
  BY Zenon, BelowFacts
<1>2. /\ DOMAIN r = S
      /\ \A h \in S :
            r[h] = (IF h = SaplingHeight THEN <<>> ELSE r[h - 1]) \o Outputs[Ancestor(b, h)]
      /\ \A n \in DOMAIN nf : nf[n] \in S /\ n \in SpentIn(Ancestor(b, nf[n]))
      /\ \A h \in S : \A n \in SpentIn(Ancestor(b, h)) : n \in DOMAIN nf /\ nf[n] = h
  BY Zenon, <1>1 DEF Exact
<1> HIDE DEF S
<1>3. DOMAIN r2 = SaplingHeight .. Len(b) /\ DOMAIN nf2 = DOMAIN nf \cup SpentIn(b)
  BY <1>1, <1>2
<1>4. /\ r2[Len(b)] = F \o Outputs[b]
      /\ \A h \in S : h # Len(b) /\ r2[h] = r[h]
      /\ \A n \in SpentIn(b) : nf2[n] = Len(b)
      /\ \A n \in DOMAIN nf : n \notin SpentIn(b) /\ nf2[n] = nf[n]
  BY Zenon, <1>1, <1>2
<1>5. ASSUME NEW h \in DOMAIN r2
      PROVE  r2[h] = (IF h = SaplingHeight THEN <<>> ELSE r2[h - 1]) \o Outputs[Ancestor(b, h)]
  <2>1. h # SaplingHeight => h - 1 \in S /\ r2[h - 1] = r[h - 1]
    BY SMTT(60), <1>1, <1>3, <1>4
  <2>2. CASE h = Len(b)
    BY ZenonT(60), <1>1, <1>4, <2>1, <2>2
  <2>3. CASE h # Len(b)
    <3>1. h \in S
      BY Zenon, <1>1, <1>3, <2>3
    <3> QED BY Zenon, <1>2, <1>4, <2>1, <3>1
  <2> QED BY Zenon, <2>2, <2>3
<1>6. ASSUME NEW n \in DOMAIN nf2
      PROVE  nf2[n] \in DOMAIN r2 /\ n \in SpentIn(Ancestor(b, nf2[n]))
  BY Zenon, <1>1, <1>2, <1>3, <1>4
<1>7. ASSUME NEW h \in DOMAIN r2, NEW n \in SpentIn(Ancestor(b, h))
      PROVE  n \in DOMAIN nf2 /\ nf2[n] = h
  <2>1. CASE h = Len(b)
    BY Zenon, <1>1, <1>3, <1>4, <2>1
  <2>2. CASE h # Len(b)
    <3>1. h \in S
      BY Zenon, <1>1, <1>3, <2>2
    <3> QED BY Zenon, <1>2, <1>3, <1>4, <3>1
  <2> QED BY Zenon, <2>1, <2>2
<1> QED BY Zenon, <1>3, <1>5, <1>6, <1>7 DEF Exact

LEMMA ExactRevert ==
    ASSUME NEW r, NEW nf, NEW b \in Blocks, Active(b), Exact(r, nf, b),
           NEW r2, r2 = [k \in DOMAIN r \ {Len(b)} |-> r[k]],
           NEW nf2, nf2 = [n \in DOMAIN nf \ SpentIn(b) |-> nf[n]]
    PROVE  /\ Exact(r2, nf2, Below(b))
           /\ SpentIn(b) \subseteq DOMAIN nf
           /\ r[Len(b)] = (IF Len(b) = SaplingHeight THEN <<>> ELSE r2[Len(b) - 1]) \o Outputs[b]
<1> DEFINE H == Below(b)
           S == SaplingHeight .. Len(H)
<1>1. /\ Len(b) \in Nat /\ SaplingHeight \in Nat \ {0} /\ SaplingHeight <= Len(b)
      /\ Ancestor(b, Len(b)) = b
      /\ S = (SaplingHeight .. Len(b)) \ {Len(b)}
      /\ \A h \in S : Ancestor(H, h) = Ancestor(b, h)
  BY Zenon, BelowFacts
<1>2. /\ DOMAIN r = SaplingHeight .. Len(b)
      /\ \A h \in DOMAIN r :
            r[h] = (IF h = SaplingHeight THEN <<>> ELSE r[h - 1]) \o Outputs[Ancestor(b, h)]
      /\ \A n \in DOMAIN nf : nf[n] \in DOMAIN r /\ n \in SpentIn(Ancestor(b, nf[n]))
      /\ \A h \in DOMAIN r : \A n \in SpentIn(Ancestor(b, h)) : n \in DOMAIN nf /\ nf[n] = h
  BY Zenon DEF Exact
<1> HIDE DEF S, H
<1>3. DOMAIN r2 = S /\ DOMAIN nf2 = DOMAIN nf \ SpentIn(b)
  BY Zenon, <1>1, <1>2
<1>4. /\ \A h \in S : h \in DOMAIN r /\ h # Len(b) /\ r2[h] = r[h]
      /\ \A n \in DOMAIN nf2 : n \in DOMAIN nf /\ n \notin SpentIn(b) /\ nf2[n] = nf[n]
      /\ \A n \in SpentIn(b) : n \in DOMAIN nf /\ nf[n] = Len(b)
  BY <1>1, <1>2, <1>3
<1>5. ASSUME NEW h \in S
      PROVE  r2[h] = (IF h = SaplingHeight THEN <<>> ELSE r2[h - 1]) \o Outputs[Ancestor(H, h)]
  <2>1. h # SaplingHeight => h - 1 \in S
    BY <1>1
  <2>2. h # SaplingHeight => r2[h - 1] = r[h - 1]
    BY Zenon, <1>4, <2>1
  <2>3. h \in DOMAIN r /\ r2[h] = r[h] /\ Ancestor(H, h) = Ancestor(b, h)
    BY Zenon, <1>1, <1>4
  <2> QED BY <1>2, <2>2, <2>3, Zenon
<1>6. ASSUME NEW n \in DOMAIN nf2
      PROVE  nf2[n] \in S /\ n \in SpentIn(Ancestor(H, nf2[n]))
  <2>0. n \in DOMAIN nf /\ n \notin SpentIn(b) /\ nf2[n] = nf[n]
    BY Zenon, <1>4
  <2>a. nf[n] \in DOMAIN r /\ n \in SpentIn(Ancestor(b, nf[n]))
    BY <1>2, <2>0, Zenon
  <2>1. n \in DOMAIN nf /\ nf2[n] = nf[n] /\ nf[n] \in DOMAIN r /\ nf[n] # Len(b)
    BY Zenon, <1>1, <2>0, <2>a
  <2>2. nf[n] \in S
    BY Zenon, <1>1, <1>2, <2>1
  <2> QED BY Zenon, <1>1, <1>2, <2>1, <2>2
<1>7. ASSUME NEW h \in S, NEW n \in SpentIn(Ancestor(H, h))
      PROVE  n \in DOMAIN nf2 /\ nf2[n] = h
  <2>1. n \in DOMAIN nf /\ nf[n] = h /\ h # Len(b)
    BY Zenon, <1>1, <1>2, <1>4
  <2>2. n \notin SpentIn(b)
    BY Zenon, <1>4, <2>1
  <2> QED BY Zenon, <1>3, <1>4, <2>1, <2>2
<1>8. Exact(r2, nf2, H)
  BY Zenon, <1>3, <1>5, <1>6, <1>7 DEF Exact, S
<1>9. r[Len(b)] = (IF Len(b) = SaplingHeight THEN <<>> ELSE r2[Len(b) - 1]) \o Outputs[b]
  <2>1. Len(b) # SaplingHeight => Len(b) - 1 \in S
    BY <1>1
  <2>2. Len(b) \in DOMAIN r
    BY <1>1, <1>2
  <2>3. r[Len(b)] = (IF Len(b) = SaplingHeight THEN <<>> ELSE r[Len(b) - 1]) \o Outputs[b]
    BY <1>1, <1>2, <2>2, Zenon
  <2>4. Len(b) # SaplingHeight => r2[Len(b) - 1] = r[Len(b) - 1]
    BY Zenon, <1>4, <2>1
  <2> QED BY Zenon, <2>3, <2>4
<1> QED BY Zenon, <1>4, <1>8, <1>9 DEF H

-----------------------------------------------------------------------------
(* The steps of SaplingDB as steps of the ledger. *)

LEMMA LedgerHeights ==
    ASSUME SaplingType, Exact(roots, nullifiers, LedgerHead)
    PROVE  /\ LedgerHead \in Blocks /\ Len(LedgerHead) \in Nat
           /\ LedgerHead = Genesis \/ Active(LedgerHead)
           /\ MaxHeight(DOMAIN roots)
                = IF LedgerHead = Genesis THEN -1 ELSE Len(LedgerHead)
           /\ LedgerNotes = IF LedgerHead = Genesis THEN <<>> ELSE roots[Len(LedgerHead)]
<1>1. /\ LedgerHead \in Blocks /\ (LedgerHead = Genesis \/ Active(LedgerHead))
      /\ SaplingHeight \in Nat \ {0}
  BY Zenon, ShieldedAssumption DEF LedgerHead, SaplingType
<1>2. Len(LedgerHead) \in Nat /\ Len(Genesis) = 0
  BY Zenon, <1>1, BlockFacts, EmptyIs DEF Genesis
<1>3. /\ DOMAIN roots = SaplingHeight .. Len(LedgerHead)
      /\ LedgerHead = Genesis <=> ~(SaplingHeight <= Len(LedgerHead))
  BY <1>1, <1>2 DEF Exact, Active
<1>4. MaxHeight(DOMAIN roots) = IF LedgerHead = Genesis THEN -1 ELSE Len(LedgerHead)
  BY <1>1, <1>2, <1>3, MaxHeightInterval
<1>5. DOMAIN roots = {} <=> LedgerHead = Genesis
  BY SMTT(60), <1>1, <1>2, <1>3
<1> QED BY Zenon, <1>1, <1>2, <1>4, <1>5 DEF LedgerNotes

(* A block is committed on top of the ledger: Ledger!Apply. *)
LEMMA CommitLedger ==
    ASSUME Types, Exact(roots, nullifiers, LedgerHead),
           lastFrontierHeight = MaxHeight(DOMAIN roots),
           NEW b \in Blocks, Active(b), LedgerHead = Below(b),
           SpendsValid(b), CommitBlock(NewBatch(b))
    PROVE  /\ Exact(roots', nullifiers', LedgerHead') /\ best' = b /\ LedgerHead' = b
           /\ lastFrontierHeight' = MaxHeight(DOMAIN roots')
           /\ SpentIn(b) \cap DOMAIN nullifiers = {} /\ pool >= ValueBalance[b]
           /\ DOMAIN nullifiers' = DOMAIN nullifiers \cup SpentIn(b)
           /\ LedgerNotes' = LedgerNotes \o Outputs[b]
           /\ pool' = pool - ValueBalance[b]
<1>0. SaplingType /\ NewBatch(b) \in Batch /\ NewBatch(b) # NoBatch
  BY QueuedType, ShieldedAssumption DEF Types
<1>1. /\ Len(b) \in Nat /\ b # Genesis /\ b # NoBlock /\ SaplingHeight \in Nat \ {0}
      /\ SaplingHeight <= Len(b)
      /\ SaplingHeight .. Len(Below(b)) = (SaplingHeight .. Len(b)) \ {Len(b)}
  BY Zenon, BelowFacts, ShieldedAssumption
<1>2. /\ lastFrontierHeight = IF LedgerHead = Genesis THEN -1 ELSE Len(LedgerHead)
      /\ LedgerNotes = IF LedgerHead = Genesis THEN <<>> ELSE roots[Len(LedgerHead)]
      /\ Len(LedgerHead) \in Nat
  BY Zenon, <1>0, LedgerHeights
<1>3. IF Len(b) = SaplingHeight THEN LedgerHead = Genesis
      ELSE LedgerHead # Genesis /\ Len(LedgerHead) = Len(b) - 1
  <2>1. Len(b) # SaplingHeight => Len(Parent(b)) = Len(b) - 1
    BY Zenon, <1>1, BlockFacts, ParentType
  <2>2. Len(Genesis) = 0
    BY SMTT(60), EmptyIs DEF Genesis
  <2> QED BY SMTT(60), <1>1, <2>1, <2>2 DEF Below
<1>4. /\ Frontier = IF Len(b) = SaplingHeight THEN <<>> ELSE roots[Len(b) - 1]
      /\ Frontier = LedgerNotes
      /\ Len(b) > lastFrontierHeight
  BY SMTT(60), <1>1, <1>2, <1>3 DEF Frontier
<1>5. SpentIn(b) \cap DOMAIN nullifiers = {} /\ pool >= ValueBalance[b]
  <2>1. pool \in Int /\ pool >= 0
    BY <1>0 DEF SaplingType
  <2>2. ValueBalance[b] \in Int /\ (NoData(b) => SpentIn(b) = {} /\ ValueBalance[b] = 0)
    BY Zenon, BlockFacts
  <2> QED BY <2>1, <2>2 DEF SpendsValid
<1>6. /\ NewBatch(b).block = b /\ NewBatch(b).root = Frontier \o Outputs[b]
      /\ NewBatch(b).pool = pool - ValueBalance[b]
  BY Zenon DEF NewBatch
<1>7. /\ nullifiers' = [n \in DOMAIN nullifiers \cup SpentIn(b) |->
                          IF n \in SpentIn(b) THEN Len(b) ELSE nullifiers[n]]
      /\ roots' = [k \in DOMAIN roots \cup {Len(b)} |->
                     IF k = Len(b) THEN Frontier \o Outputs[b] ELSE roots[k]]
      /\ best' = b /\ pool' = pool - ValueBalance[b]
      /\ lastFrontierHeight' = IF Len(b) > lastFrontierHeight THEN Len(b) ELSE lastFrontierHeight
  BY <1>0, <1>6, Zenon DEF CommitBlock
<1>8. LedgerHead' = b
  BY Zenon, <1>1, <1>7 DEF LedgerHead, Active
<1>9. Exact(roots', nullifiers', b)
  <2>1. Exact(roots, nullifiers, Below(b))
    OBVIOUS
  <2>2. roots' = [k \in DOMAIN roots \cup {Len(b)} |->
                    IF k = Len(b)
                    THEN (IF Len(b) = SaplingHeight THEN <<>> ELSE roots[Len(b) - 1])
                         \o Outputs[b]
                    ELSE roots[k]]
    BY Zenon, <1>4, <1>7
  <2>3. nullifiers' = [n \in DOMAIN nullifiers \cup SpentIn(b) |->
                         IF n \in SpentIn(b) THEN Len(b) ELSE nullifiers[n]]
    BY Zenon, <1>7
  <2> QED BY Zenon, <1>5, <2>1, <2>2, <2>3, ExactApply
<1>10. /\ DOMAIN roots' = SaplingHeight .. Len(b)
       /\ roots'[Len(b)] = Frontier \o Outputs[b]
       /\ DOMAIN nullifiers' = DOMAIN nullifiers \cup SpentIn(b)
  <2>1. DOMAIN roots' = SaplingHeight .. Len(b)
    BY ZenonT(60), <1>9 DEF Exact
  <2> QED BY Zenon, <1>7, <2>1
<1>11. MaxHeight(DOMAIN roots') = Len(b) /\ DOMAIN roots' # {}
  BY SMTT(60), <1>1, <1>10, MaxHeightInterval
<1>12. LedgerNotes' = LedgerNotes \o Outputs[b]
  BY ZenonT(60), <1>4, <1>10, <1>11 DEF LedgerNotes
<1> QED BY Zenon, <1>4, <1>5, <1>7, <1>8, <1>9, <1>10, <1>11, <1>12

(* The last block is taken back: Ledger!Revert. *)
LEMMA UndoLedger ==
    ASSUME Types, Exact(roots, nullifiers, LedgerHead),
           lastFrontierHeight = MaxHeight(DOMAIN roots),
           NEW b \in Blocks, Active(b), b = best, UndoBlock(b)
    PROVE  /\ Exact(roots', nullifiers', LedgerHead') /\ best' = Parent(b)
           /\ LedgerHead = b /\ b # Genesis /\ LedgerHead' = Below(b)
           /\ lastFrontierHeight' = MaxHeight(DOMAIN roots')
           /\ SpentIn(b) \subseteq DOMAIN nullifiers
           /\ DOMAIN nullifiers' = DOMAIN nullifiers \ SpentIn(b)
           /\ LedgerNotes = LedgerNotes' \o Outputs[b]
           /\ pool' = pool + ValueBalance[b]
<1>0. SaplingType /\ b # NoBlock
  BY Zenon, ShieldedAssumption DEF Types
<1>1. /\ b # Genesis /\ Len(b) \in Nat /\ Below(b) \in Blocks /\ Parent(b) \in Blocks
      /\ Below(b) = IF Active(Parent(b)) THEN Parent(b) ELSE Genesis
      /\ SaplingHeight .. Len(Below(b)) = (SaplingHeight .. Len(b)) \ {Len(b)}
      /\ SaplingHeight \in Nat \ {0} /\ SaplingHeight <= Len(b)
  BY Zenon, BelowFacts, BlockFacts
<1>2. /\ nullifiers' = [n \in DOMAIN nullifiers \ SpentIn(b) |-> nullifiers[n]]
      /\ roots' = [k \in DOMAIN roots \ {Len(b)} |-> roots[k]]
      /\ best' = Parent(b) /\ pool' = pool + ValueBalance[b]
      /\ lastFrontierHeight' = IF Len(b) >= lastFrontierHeight
                               THEN MaxHeight(DOMAIN roots \ {Len(b)})
                               ELSE lastFrontierHeight
  BY Zenon DEF UndoBlock
<1>3. LedgerHead = b
  BY Zenon, <1>0 DEF LedgerHead
<1>4. lastFrontierHeight = Len(b) /\ LedgerNotes = roots[Len(b)]
  BY Zenon, <1>0, <1>1, <1>3, LedgerHeights
<1>5. LedgerHead' = Below(b)
  BY Zenon, <1>1, <1>2, ShieldedAssumption DEF LedgerHead, Active
<1>6. /\ Exact(roots', nullifiers', Below(b))
      /\ SpentIn(b) \subseteq DOMAIN nullifiers
      /\ roots[Len(b)]
            = (IF Len(b) = SaplingHeight THEN <<>> ELSE roots'[Len(b) - 1]) \o Outputs[b]
  <2>1. Exact(roots, nullifiers, b)
    BY Zenon, <1>3
  <2>2. DOMAIN roots' = DOMAIN roots \ {Len(b)}
    BY Zenon, <1>2
  <2> QED BY ZenonT(60), <1>2, <2>1, ExactRevert
<1>7. /\ DOMAIN roots' = DOMAIN roots \ {Len(b)}
      /\ DOMAIN nullifiers' = DOMAIN nullifiers \ SpentIn(b)
  BY Zenon, <1>2
<1>8. lastFrontierHeight' = MaxHeight(DOMAIN roots')
  BY <1>1, <1>2, <1>4, <1>7
<1>9. LedgerNotes' = IF Len(b) = SaplingHeight THEN <<>> ELSE roots'[Len(b) - 1]
  <2>0. (SaplingHeight .. Len(b)) \ {Len(b)} = SaplingHeight .. Len(b) - 1
    BY SMTT(60), <1>1
  <2>1. DOMAIN roots' = SaplingHeight .. Len(b) - 1
    BY Zenon, <1>3, <1>7, <2>0 DEF Exact
  <2>2. MaxHeight(DOMAIN roots') = IF SaplingHeight <= Len(b) - 1 THEN Len(b) - 1 ELSE -1
    BY <1>1, <2>1, MaxHeightInterval
  <2> QED BY <1>1, <2>1, <2>2 DEF LedgerNotes
<1> QED BY ZenonT(60), <1>1, <1>2, <1>3, <1>4, <1>5, <1>6, <1>7, <1>8, <1>9

-----------------------------------------------------------------------------
(* The invariant.  While SaplingDB has not strayed it is an exact ledger,  *)
(* its cache is at its last height while it is open, and the blocks that   *)
(* the rest of the node stands on or will go back to are on its chain.     *)
OnLedger(b) == Active(b) => best # NoBlock /\ IsAncestor(b, best)

LedgerInv ==
    ~strayed =>
        /\ Exact(roots, nullifiers, LedgerHead)
        /\ mode \in {"up", "flush", "evo", "stopping", "replay", "load"}
              => lastFrontierHeight = MaxHeight(DOMAIN roots)
        /\ mode \in {"up", "flush", "evo", "stopping"} => OnLedger(tip)
        /\ heads # <<>> => OnLedger(heads[1])
        /\ Active(coins) => best # NoBlock

LEMMA ExactLedger == (~strayed => Exact(roots, nullifiers, LedgerHead)) <=> LedgerExact
BY Zenon DEF Exact, LedgerExact

(* A block above the last height of a ledger its parent is on follows the  *)
(* last block of the ledger.                                               *)
LEMMA NextOnLedger ==
    ASSUME Types, Exact(roots, nullifiers, LedgerHead),
           lastFrontierHeight = MaxHeight(DOMAIN roots),
           NEW b \in Blocks, b # Genesis, OnLedger(Parent(b)), ~Skipped(b)
    PROVE  Active(b) /\ LedgerHead = Below(b)
<1>1. Active(b)
  BY Zenon DEF Skipped
<1>2. /\ Len(b) \in Nat /\ SaplingHeight \in Nat \ {0} /\ SaplingHeight <= Len(b)
      /\ Parent(b) \in Blocks /\ Len(Parent(b)) = Len(b) - 1
      /\ Below(b) = IF Active(Parent(b)) THEN Parent(b) ELSE Genesis
      /\ Parent(b) \in Seq(Nat)
  BY Zenon, <1>1, BelowFacts, BlockFacts, ParentType
<1>3. /\ lastFrontierHeight = IF LedgerHead = Genesis THEN -1 ELSE Len(LedgerHead)
      /\ LedgerHead \in Blocks /\ Len(LedgerHead) \in Nat
      /\ LedgerHead = Genesis \/ Active(LedgerHead)
      /\ Len(Genesis) = 0
  BY LedgerHeights, EmptyIs DEF Types, Genesis
<1>4. lastFrontierHeight < Len(b)
  BY <1>1, <1>2, <1>3 DEF Skipped
<1>5. CASE Active(Parent(b))
  <2>1. best # NoBlock /\ best \in Blocks /\ IsAncestor(Parent(b), best)
    BY Zenon, <1>5 DEF OnLedger, Types, SaplingType
  <2>2. best \in Seq(Nat)
    BY Zenon, <2>1, BlockFacts
  <2>3. Len(Parent(b)) <= Len(best) /\ (Len(Parent(b)) = Len(best) => Parent(b) = best)
        /\ Len(best) \in Nat
    BY Zenon, <1>2, <2>1, <2>2, IsAncestorFacts
  <2>4. Active(best)
    BY <1>2, <1>5, <2>3 DEF Active
  <2>5. LedgerHead = best /\ best # Genesis
    BY <1>2, <1>3, <2>1, <2>4 DEF LedgerHead, Active
  <2> QED BY <1>1, <1>2, <1>3, <1>4, <1>5, <2>3, <2>5
<1>6. CASE ~Active(Parent(b))
  <2>1. Len(b) = SaplingHeight
    BY <1>2, <1>6 DEF Active
  <2> QED BY <1>1, <1>2, <1>3, <1>4, <1>6, <2>1 DEF Active
<1> QED BY Zenon, <1>5, <1>6

(* What a connected or replayed block does to a ledger its parent is on:   *)
(* nothing, if the block is already there, and otherwise it is applied.    *)
LEMMA ConnectLedger ==
    ASSUME Types, Exact(roots, nullifiers, LedgerHead),
           lastFrontierHeight = MaxHeight(DOMAIN roots),
           NEW b \in Blocks, b # Genesis, OnLedger(Parent(b)),
           ProcessOK(b), ~SkipStrays(b), ~CommitStrays(b), CommitBlock(Queued(b))
    PROVE  \/ UNCHANGED <<saplingDisk, lastFrontierHeight>> /\ OnLedger(b)
           \/ /\ Active(b) /\ LedgerHead = Below(b)
              /\ SpendsValid(b) /\ CommitBlock(NewBatch(b))
<1>1. CASE Skipped(b)
  <2>1. pending = NoBatch /\ Queued(b) = NoBatch
    BY Zenon, <1>1 DEF CommitStrays, Queued
  <2>2. UNCHANGED <<saplingDisk, lastFrontierHeight>>
    BY Zenon, <2>1 DEF CommitBlock
  <2>3. OnLedger(b)
    BY Zenon, <1>1 DEF Skipped, SkipStrays, OnLedger
  <2> QED BY Zenon, <2>2, <2>3
<1>2. CASE ~Skipped(b)
  <2>1. Active(b) /\ LedgerHead = Below(b)
    BY Zenon, <1>2, NextOnLedger
  <2>2. SpendsValid(b) /\ Queued(b) = NewBatch(b)
    BY Zenon, <1>2 DEF ProcessOK, Queued
  <2> QED BY Zenon, <2>1, <2>2
<1> QED BY Zenon, <1>1, <1>2

(* SaplingDB and strayed unchanged are a stuttering step of the ledger. *)
LEMMA LedgerStutters ==
    UNCHANGED <<saplingDisk, strayed>> => UNCHANGED Ledger!vars /\ LedgerHead' = LedgerHead
BY DEF saplingDisk, Ledger!vars, LedgerHead, LedgerNotes, Active

(* A block that passes has no nullifier twice. *)
LEMMA NoDuplicates ==
    ASSUME NEW b \in Blocks, SpendsValid(b)
    PROVE  ~Duplicates(b)
<1>1. Spends[b] = <<>> => DOMAIN Spends[b] = {}
  BY SMTT(60)
<1> QED BY Zenon, <1>1 DEF SpendsValid, Duplicates, NoData

LEMMA CommitRefines ==
    ASSUME Types, LedgerInv, ~strayed, strayed' = strayed, mode \in {"up", "replay"},
           NEW b \in Blocks, b # Genesis, OnLedger(Parent(b)),
           ProcessOK(b), ~SkipStrays(b), ~CommitStrays(b), CommitBlock(Queued(b))
    PROVE  /\ [Ledger!Next]_(Ledger!vars)
           /\ Exact(roots', nullifiers', LedgerHead')
           /\ lastFrontierHeight' = MaxHeight(DOMAIN roots')
           /\ OnLedger(b)' /\ (best' = NoBlock => best = NoBlock)
           /\ UNCHANGED saplingDisk \/ best' = b
<1>0. /\ Exact(roots, nullifiers, LedgerHead)
      /\ lastFrontierHeight = MaxHeight(DOMAIN roots) /\ strayed' = strayed
  BY Zenon DEF LedgerInv, Types
<1>1. CASE UNCHANGED <<saplingDisk, lastFrontierHeight>> /\ OnLedger(b)
  <2>1. UNCHANGED Ledger!vars /\ LedgerHead' = LedgerHead
    BY Zenon, <1>0, <1>1, LedgerStutters
  <2>2. roots' = roots /\ nullifiers' = nullifiers /\ best' = best
    BY Zenon, <1>1 DEF saplingDisk
  <2>3. OnLedger(b)'
    BY Zenon, <1>1, <2>2 DEF OnLedger, Active
  <2> QED BY Zenon, <1>0, <1>1, <2>1, <2>2, <2>3
<1>2. CASE /\ Active(b) /\ LedgerHead = Below(b)
           /\ SpendsValid(b) /\ CommitBlock(NewBatch(b))
  <2>1. /\ Exact(roots', nullifiers', LedgerHead') /\ best' = b /\ LedgerHead' = b
        /\ lastFrontierHeight' = MaxHeight(DOMAIN roots')
        /\ SpentIn(b) \cap DOMAIN nullifiers = {} /\ pool >= ValueBalance[b]
        /\ DOMAIN nullifiers' = DOMAIN nullifiers \cup SpentIn(b)
        /\ LedgerNotes' = LedgerNotes \o Outputs[b]
        /\ pool' = pool - ValueBalance[b]
    BY ZenonT(60), <1>0, <1>2, CommitLedger
  <2>2. Ledger!Follows(b)
    <3>1. Len(b) \in Nat /\ SaplingHeight \in Nat /\ SaplingHeight <= Len(b)
      BY Zenon, <1>2, BelowFacts
    <3> QED BY <1>2, <3>1 DEF Ledger!Follows, Below, Genesis, Parent, Ledger!Parent
  <2>3. Ledger!Apply(b)
    <3>1. ~Duplicates(b)
      BY Zenon, <1>2, NoDuplicates
    <3>2. (~strayed)' = ~strayed
      BY <1>0
    <3> QED BY Zenon, <2>1, <2>2, <3>1, <3>2 DEF Ledger!Apply
  <2>4. OnLedger(b)'
    <3>1. b \in Seq(Nat) /\ b # NoBlock
      BY Zenon, BlockFacts, ShieldedAssumption
    <3> QED BY ZenonT(60), <2>1, <3>1, IsAncestorSelf DEF OnLedger, Active
  <2>5. best' # NoBlock
    BY ZenonT(60), <2>1, ShieldedAssumption
  <2> QED BY ZenonT(60), <2>1, <2>3, <2>4, <2>5 DEF Ledger!Next
<1> QED BY Zenon, <1>0, <1>1, <1>2, ConnectLedger

LEMMA UndoRefines ==
    ASSUME Types, LedgerInv, ~strayed, strayed' = strayed, mode \in {"up", "replay"},
           NEW b \in Blocks, b # Genesis, UndoBlock(b), ~UndoStrays(b)
    PROVE  /\ [Ledger!Next]_(Ledger!vars)
           /\ Exact(roots', nullifiers', LedgerHead')
           /\ lastFrontierHeight' = MaxHeight(DOMAIN roots')
           /\ OnLedger(Parent(b))' /\ (best' = NoBlock => best = NoBlock)
           /\ UNCHANGED saplingDisk \/ (best = b /\ best' = Parent(b))
<1>0. /\ Exact(roots, nullifiers, LedgerHead)
      /\ lastFrontierHeight = MaxHeight(DOMAIN roots) /\ strayed' = strayed
  BY Zenon DEF LedgerInv, Types
<1>a. /\ Len(b) \in Nat \ {0} /\ Parent(b) \in Blocks /\ Parent(b) \in Seq(Nat)
      /\ Len(Parent(b)) = Len(b) - 1
  BY Zenon, BlockFacts, ParentType
<1>1. CASE ~Active(b)
  <2>1. UNCHANGED <<saplingDisk, lastFrontierHeight>>
    BY Zenon, <1>1 DEF UndoBlock
  <2>2. UNCHANGED Ledger!vars /\ LedgerHead' = LedgerHead
    BY Zenon, <1>0, <2>1, LedgerStutters
  <2>3. roots' = roots /\ nullifiers' = nullifiers /\ best' = best
    BY Zenon, <2>1 DEF saplingDisk
  <2>4. OnLedger(Parent(b))'
    BY SMTT(60), <1>1, <1>a, ShieldedAssumption DEF OnLedger, Active
  <2> QED BY Zenon, <1>0, <2>1, <2>2, <2>3, <2>4
<1>2. CASE Active(b)
  <2>1. b = best
    BY Zenon, <1>2 DEF UndoStrays
  <2>2. /\ Exact(roots', nullifiers', LedgerHead') /\ best' = Parent(b)
        /\ LedgerHead = b /\ LedgerHead' = Below(b)
        /\ lastFrontierHeight' = MaxHeight(DOMAIN roots')
        /\ SpentIn(b) \subseteq DOMAIN nullifiers
        /\ DOMAIN nullifiers' = DOMAIN nullifiers \ SpentIn(b)
        /\ LedgerNotes = LedgerNotes' \o Outputs[b]
        /\ pool' = pool + ValueBalance[b]
    BY ZenonT(60), <1>0, <1>2, <2>1, UndoLedger
  <2>3. Ledger!Revert
    <3>1. LedgerHead # <<>>
      BY Zenon, <2>2 DEF Genesis
    <3>2. LedgerHead' = IF Len(LedgerHead) = SaplingHeight THEN <<>> ELSE Ledger!Parent(LedgerHead)
      BY Zenon, <2>2 DEF Below, Genesis, Parent, Ledger!Parent
    <3>3. /\ SpentIn(LedgerHead) \subseteq DOMAIN nullifiers
          /\ (DOMAIN nullifiers)' = DOMAIN nullifiers \ SpentIn(LedgerHead)
      BY Zenon, <2>2
    <3>4. LedgerNotes = LedgerNotes' \o Outputs[LedgerHead] /\ pool' = pool + ValueBalance[LedgerHead]
      BY Zenon, <2>2
    <3>5. (~strayed)' = ~strayed
      BY SMTT(60), <1>0
    <3> QED BY Zenon, <3>1, <3>2, <3>3, <3>4, <3>5 DEF Ledger!Revert
  <2>4. OnLedger(Parent(b))' /\ best' # NoBlock
    <3>1. Parent(b) \in Blocks /\ Parent(b) # NoBlock
      BY Zenon, <1>a, ShieldedAssumption
    <3>2. IsAncestor(Parent(b), Parent(b))
      BY Zenon, <1>a, IsAncestorSelf
    <3> QED BY Zenon, <2>2, <3>1, <3>2 DEF OnLedger, Active
  <2> QED BY Zenon, <2>1, <2>2, <2>3, <2>4 DEF Ledger!Next
<1> QED BY Zenon, <1>1, <1>2

LEMMA LedgerStep ==
    Types /\ LedgerInv /\ [Next]_vars => LedgerInv' /\ [Ledger!Next]_(Ledger!vars)
<1> SUFFICES ASSUME Types, LedgerInv, [Next]_vars
             PROVE  LedgerInv' /\ [Ledger!Next]_(Ledger!vars)
  OBVIOUS
<1> USE DEF vars, indexVars, diskVars, saplingVars
<1>a. Types' /\ strayed \in BOOLEAN /\ strayed' \in BOOLEAN
  BY Zenon, TypesStep DEF Types
<1>0. /\ SaplingType /\ IndexType /\ Flow
      /\ {tip, replayed, coins, evo} \subseteq Blocks
      /\ heads # <<>> => {heads[1], heads[2]} \subseteq Blocks
      /\ Blocks \subseteq Seq(Nat) /\ NoBlock \notin Blocks
  BY Zenon, ShieldedAssumption DEF Types, IndexType
<1>m. strayed => strayed'
  BY Zenon DEF Next, Receive, Connect, ConnectFails, JustCheck, DisconnectTip, DisconnectFails,
     BeginFlush, WritePartialBatch, WriteFinalBatch, CommitEvoDB, Stop, Shutdown, Crash,
     BeginReplay, RollBack, RollforwardBlock, ReplayFails, FinishReplay, LoadAfterReplay,
     Load
<1>s. CASE strayed'
  <2>1. LedgerInv'
    BY Zenon, <1>s DEF LedgerInv
  <2>2. Ledger!Next
    BY Zenon, <1>s DEF Ledger!Next
  <2> QED BY Zenon, <2>1, <2>2
<1>t. CASE ~strayed /\ ~strayed'
  <2>0. /\ Exact(roots, nullifiers, LedgerHead) /\ strayed' = strayed
        /\ mode \in {"up", "flush", "evo", "stopping", "replay", "load"}
              => lastFrontierHeight = MaxHeight(DOMAIN roots)
        /\ mode \in {"up", "flush", "evo", "stopping"} => OnLedger(tip)
        /\ heads # <<>> => OnLedger(heads[1])
        /\ Active(coins) => best # NoBlock
    BY Zenon, <1>a, <1>t DEF LedgerInv
  <2>u. ASSUME UNCHANGED saplingDisk
        PROVE  /\ [Ledger!Next]_(Ledger!vars)
               /\ Exact(roots', nullifiers', LedgerHead') /\ UNCHANGED <<best, roots>>
               /\ \A b : OnLedger(b)' <=> OnLedger(b)
    <3>1. UNCHANGED Ledger!vars /\ LedgerHead' = LedgerHead
      BY Zenon, <2>0, <2>u, LedgerStutters
    <3>2. UNCHANGED <<nullifiers, roots, best>>
      BY Zenon, <2>u DEF saplingDisk
    <3>3. \A b : OnLedger(b)' <=> OnLedger(b)
      BY Zenon, <3>2 DEF OnLedger, Active
    <3> QED BY Zenon, <2>0, <3>1, <3>2, <3>3
  <2>1. ASSUME NEW b \in Blocks, Receive(b) \/ ConnectFails(b) \/ JustCheck(b)
        PROVE  LedgerInv' /\ [Ledger!Next]_(Ledger!vars)
    <3>1. /\ UNCHANGED <<saplingDisk, lastFrontierHeight, mode, heads, coins, tip>>
          /\ mode = "up"
      BY ZenonT(60), <2>1 DEF Receive, ConnectFails, Connects, JustCheck
    <3> QED BY Zenon, <2>0, <2>u, <3>1 DEF LedgerInv, Active
  <2>2. ASSUME NEW b \in Blocks, Connect(b)
        PROVE  LedgerInv' /\ [Ledger!Next]_(Ledger!vars)
    <3>1. /\ mode = "up" /\ mode' = mode /\ b # Genesis /\ Parent(b) = tip /\ tip' = b
          /\ heads = <<>> /\ heads' = heads /\ coins' = coins
          /\ ProcessOK(b) /\ CommitBlock(Queued(b))
      BY Zenon, <1>0, <2>2 DEF Connect, Connects, Flow
    <3>2. ~SkipStrays(b) /\ ~CommitStrays(b)
      BY ZenonT(60), <1>t, <2>2 DEF Connect
    <3>3. /\ [Ledger!Next]_(Ledger!vars)
          /\ Exact(roots', nullifiers', LedgerHead')
          /\ lastFrontierHeight' = MaxHeight(DOMAIN roots')
          /\ OnLedger(b)' /\ (best' = NoBlock => best = NoBlock)
      BY Zenon, <1>t, <2>0, <3>1, <3>2, CommitRefines
    <3>4. OnLedger(tip)'
      BY Zenon, <3>1, <3>3 DEF OnLedger, Active
    <3> QED BY Zenon, <2>0, <3>1, <3>3, <3>4 DEF LedgerInv, Active
  <2>3. CASE DisconnectTip
    <3>1. /\ mode = "up" /\ mode' = mode /\ tip # Genesis /\ tip \in Blocks
          /\ tip' = Parent(tip) /\ heads = <<>> /\ heads' = heads /\ coins' = coins
          /\ UndoBlock(tip)
      BY Zenon, <1>0, <2>3 DEF DisconnectTip, Disconnects, Flow
    <3>2. ~UndoStrays(tip)
      BY ZenonT(60), <1>t, <2>3 DEF DisconnectTip
    <3>3. /\ [Ledger!Next]_(Ledger!vars)
          /\ Exact(roots', nullifiers', LedgerHead')
          /\ lastFrontierHeight' = MaxHeight(DOMAIN roots')
          /\ (Active(Parent(tip)) => best' # NoBlock /\ IsAncestor(Parent(tip), best'))
          /\ (best' = NoBlock => best = NoBlock)
      <4> DEFINE b == tip
      <4>1. b \in Blocks /\ b # Genesis /\ UndoBlock(b) /\ ~UndoStrays(b)
        BY Zenon, <3>1, <3>2
      <4> QED BY Zenon, <1>t, <2>0, <3>1, <4>1, UndoRefines DEF OnLedger, Active
    <3>4. OnLedger(tip)'
      BY Zenon, <3>1, <3>3 DEF OnLedger, Active
    <3> QED BY Zenon, <2>0, <3>1, <3>3, <3>4 DEF LedgerInv, Active
  <2>4. CASE DisconnectFails \/ BeginFlush \/ WritePartialBatch \/ WriteFinalBatch
             \/ CommitEvoDB \/ Stop
    <3>1. /\ UNCHANGED <<saplingDisk, lastFrontierHeight, tip>>
          /\ mode \in {"up", "flush", "evo"}
      BY Zenon, <2>4 DEF DisconnectFails, Disconnects, BeginFlush, WritePartialBatch,
         WriteFinalBatch, CommitEvoDB, Stop
    <3>2. /\ heads' = heads \/ heads' = <<>> \/ heads' = <<tip, coins>>
          /\ coins' \in {coins, tip}
      BY Zenon, <2>4 DEF DisconnectFails, BeginFlush, WritePartialBatch, WriteFinalBatch,
         CommitEvoDB, Stop
    <3>3. OnLedger(tip) /\ (Active(tip) => best # NoBlock)
      BY Zenon, <2>0, <3>1 DEF OnLedger
    <3>4. OnLedger(tip)' /\ (heads' # <<>> => OnLedger(heads[1])')
      BY SMTT(60), <2>0, <2>u, <3>1, <3>2, <3>3 DEF OnLedger
    <3> QED BY Zenon, <2>0, <2>u, <3>1, <3>2, <3>3, <3>4 DEF LedgerInv, Active
  <2>5. CASE Shutdown
    <3>1. /\ UNCHANGED saplingDisk /\ mode = "stopping" /\ mode' = "down"
          /\ heads' = <<>> /\ coins' = tip
      BY Zenon, <2>5 DEF Shutdown
    <3>2. Active(tip) => best # NoBlock
      BY Zenon, <2>0, <3>1 DEF OnLedger
    <3> QED BY Zenon, <2>0, <2>u, <3>1, <3>2 DEF LedgerInv, Active
  <2>6. CASE Crash
    <3>1. /\ UNCHANGED <<saplingDisk, heads, coins>> /\ mode' = "down"
      BY Zenon, <2>6 DEF Crash
    <3>2. heads' # <<>> => OnLedger(heads[1])'
      BY Zenon, <2>0, <2>u, <3>1 DEF OnLedger
    <3> QED BY Zenon, <2>0, <2>u, <3>1, <3>2 DEF LedgerInv, Active
  <2>7. CASE BeginReplay
    <3>1. /\ UNCHANGED <<saplingDisk, heads, coins>> /\ mode' \in {"replay", "held", "down"}
          /\ lastFrontierHeight' = MaxHeight(DOMAIN roots)
      BY Zenon, <2>7 DEF BeginReplay, Open, OffDuty
    <3>2. heads' # <<>> => OnLedger(heads[1])'
      BY Zenon, <2>0, <2>u, <3>1 DEF OnLedger
    <3> QED BY Zenon, <2>0, <2>u, <3>1, <3>2 DEF LedgerInv, Active
  <2>8. CASE RollBack
    <3>1. /\ mode = "replay" /\ mode' = mode /\ heads # <<>> /\ heads' = heads
          /\ coins' = coins /\ replayed \in Blocks /\ heads[1] \in Blocks
          /\ ~IsAncestor(replayed, heads[1]) /\ UndoBlock(replayed)
      BY Zenon, <1>0, <2>8 DEF RollBack, RollsBack, Flow
    <3>2. ~UndoStrays(replayed)
      BY ZenonT(60), <1>t, <2>8 DEF RollBack
    <3>3. replayed # Genesis
      <4>1. IsAncestor(Genesis, heads[1])
        BY <1>0, <3>1, SeqIs, EmptyIs, SubSeqNone DEF IsAncestor, Genesis
      <4> QED BY Zenon, <3>1, <4>1
    <3>4. /\ [Ledger!Next]_(Ledger!vars)
          /\ Exact(roots', nullifiers', LedgerHead')
          /\ lastFrontierHeight' = MaxHeight(DOMAIN roots')
          /\ (best' = NoBlock => best = NoBlock)
          /\ UNCHANGED saplingDisk \/ (best = replayed /\ best' = Parent(replayed))
      BY Zenon, <1>t, <2>0, <3>1, <3>2, <3>3, UndoRefines
    <3>5. OnLedger(heads[1])'
      <4>1. CASE UNCHANGED saplingDisk
        BY Zenon, <2>0, <2>u, <3>1, <4>1 DEF OnLedger
      <4>2. CASE best = replayed /\ best' = Parent(replayed)
        <5>1. Active(heads[1]) => IsAncestor(heads[1], replayed) /\ heads[1] # replayed
          <6>1. IsAncestor(heads[1], heads[1])
            BY Zenon, <1>0, <3>1, IsAncestorSelf
          <6> QED BY Zenon, <2>0, <3>1, <4>2, <6>1 DEF OnLedger
        <5>2. Active(heads[1]) => IsAncestor(heads[1], Parent(replayed))
          BY Zenon, <1>0, <3>1, <5>1, IsAncestorFacts
        <5>3. Parent(replayed) # NoBlock
          BY Zenon, <1>0, <3>1, <3>3, BlockFacts
        <5> QED BY Zenon, <3>1, <4>2, <5>2, <5>3 DEF OnLedger, Active
      <4> QED BY Zenon, <3>4, <4>1, <4>2
    <3> QED BY Zenon, <2>0, <3>1, <3>4, <3>5 DEF LedgerInv, Active
  <2>9. CASE RollforwardBlock
    <3> DEFINE b == NextReplayed
    <3>1. /\ mode = "replay" /\ mode' = mode /\ heads # <<>> /\ heads' = heads
          /\ coins' = coins /\ replayed \in Seq(Nat) /\ heads[1] \in Seq(Nat)
          /\ heads[1] \in Blocks
          /\ IsAncestor(replayed, heads[1]) /\ replayed # heads[1]
          /\ ProcessOK(b) /\ CommitBlock(Queued(b))
      BY Zenon, <1>0, <2>9 DEF RollforwardBlock, RollsForward, Flow
    <3>2. ~SkipStrays(b) /\ ~CommitStrays(b)
      BY ZenonT(60), <1>t, <2>9 DEF RollforwardBlock
    <3>3. /\ Len(replayed) + 1 \in 0 .. Len(heads[1]) /\ Len(replayed) \in Nat
          /\ Len(heads[1]) \in Nat /\ replayed = Ancestor(heads[1], Len(replayed))
      BY <3>1, IsAncestorFacts
    <3>4. b \in Blocks /\ b \in Seq(Nat) /\ Len(b) = Len(replayed) + 1
      BY Zenon, <3>1, <3>3, AncestorType, ShieldedAssumption DEF NextReplayed, PrefixClosed
    <3>5. b # Genesis /\ Parent(b) = replayed
      <4>1. Len(replayed) \in 0 .. Len(replayed) + 1
        BY <3>3
      <4>2. b # Genesis
        BY <3>3, <3>4, EmptyIs DEF Genesis
      <4>3. Parent(b) = Ancestor(b, Len(replayed))
        <5>1. Parent(b) = Ancestor(b, Len(b) - 1)
          BY Zenon, <3>4, <4>2, ParentType
        <5>2. Len(b) - 1 = Len(replayed)
          BY <3>3, <3>4
        <5> QED BY Zenon, <5>1, <5>2
      <4> QED BY Zenon, <3>1, <3>3, <4>1, <4>2, <4>3, AncestorAncestor DEF NextReplayed
    <3> HIDE DEF b
    <3>6. ASSUME Active(heads[1])
          PROVE  /\ best \in Blocks /\ IsAncestor(replayed, best)
                 /\ lastFrontierHeight >= Len(b)
      <4>1. best \in Blocks /\ best \in Seq(Nat) /\ best # NoBlock /\ IsAncestor(heads[1], best)
        BY Zenon, <1>0, <2>0, <3>1, <3>6 DEF OnLedger, SaplingType
      <4>2. /\ Len(heads[1]) <= Len(best) /\ Len(best) \in Nat
            /\ \A h \in 0 .. Len(heads[1]) : IsAncestor(Ancestor(heads[1], h), best)
        BY Zenon, <3>1, <4>1, IsAncestorFacts
      <4>3. IsAncestor(replayed, best)
        BY <3>3, <4>2
      <4>4. LedgerHead = best /\ best # Genesis
        <5>1. Active(best)
          BY <3>3, <3>6, <4>2, ShieldedAssumption DEF Active
        <5>2. best # Genesis
          BY SMTT(60), <3>3, <4>2, EmptyIs DEF Genesis
        <5> QED BY Zenon, <4>1, <5>1, <5>2 DEF LedgerHead
      <4>5. lastFrontierHeight = Len(best)
        BY ZenonT(60), <1>0, <2>0, <3>1, <4>4, LedgerHeights
      <4> QED BY SMTT(60), <3>3, <3>4, <4>1, <4>2, <4>3, <4>5
    <3>7. OnLedger(Parent(b))
      <4>1. Active(Parent(b)) => Active(heads[1])
        BY SMTT(60), <3>3, <3>5, ShieldedAssumption DEF Active
      <4> QED BY Zenon, <1>0, <3>5, <3>6, <4>1 DEF OnLedger
    <3>8. /\ [Ledger!Next]_(Ledger!vars)
          /\ Exact(roots', nullifiers', LedgerHead')
          /\ lastFrontierHeight' = MaxHeight(DOMAIN roots')
          /\ (best' = NoBlock => best = NoBlock)
      BY Zenon, <1>t, <2>0, <3>1, <3>2, <3>4, <3>5, <3>7, CommitRefines
    <3>9. OnLedger(heads[1])'
      <4>1. CASE Active(heads[1])
        <5>1. Queued(b) = NoBatch
          BY Zenon, <3>2, <3>6, <4>1 DEF Queued, Skipped, CommitStrays
        <5>2. UNCHANGED saplingDisk
          BY Zenon, <3>1, <5>1 DEF CommitBlock
        <5> QED BY Zenon, <2>0, <2>u, <3>1, <5>2 DEF OnLedger
      <4>2. CASE ~Active(heads[1])
        BY Zenon, <3>1, <4>2 DEF OnLedger, Active
      <4> QED BY Zenon, <4>1, <4>2
    <3> QED BY Zenon, <2>0, <3>1, <3>8, <3>9 DEF LedgerInv, Active
  <2>10. CASE ReplayFails
    <3>1. /\ UNCHANGED <<saplingDisk, heads, coins>> /\ mode' \in {"held", "down"}
      BY Zenon, <2>10 DEF ReplayFails, OffDuty
    <3>2. heads' # <<>> => OnLedger(heads[1])'
      BY Zenon, <2>0, <2>u, <3>1 DEF OnLedger
    <3> QED BY Zenon, <2>0, <2>u, <3>1, <3>2 DEF LedgerInv, Active
  <2>11. CASE FinishReplay
    <3>1. /\ UNCHANGED <<saplingDisk, lastFrontierHeight>> /\ mode = "replay"
          /\ mode' = "load" /\ heads # <<>> /\ heads' = <<>> /\ coins' = heads[1]
      BY Zenon, <1>0, <2>11 DEF FinishReplay, Flow
    <3>2. Active(heads[1]) => best # NoBlock
      BY Zenon, <2>0, <3>1 DEF OnLedger
    <3> QED BY Zenon, <2>0, <2>u, <3>1, <3>2 DEF LedgerInv, Active
  <2>12. CASE LoadAfterReplay \/ Load
    <3>1. /\ UNCHANGED <<saplingDisk, heads, coins>>
          /\ heads = <<>> /\ lastFrontierHeight' = MaxHeight(DOMAIN roots)
      BY Zenon, <1>0, <2>0, <2>12 DEF LoadAfterReplay, Load, Open, Flow
    <3>2. \/ mode' \in {"load", "held", "down"}
          \/ DriftFree(coins) /\ tip' = coins
      BY Zenon, <2>12 DEF LoadAfterReplay, Load, Start, OffDuty
    <3>3. DriftFree(coins) => OnLedger(coins)
      <4>1. IsAncestor(coins, coins) /\ NoBlock \notin known
        BY Zenon, <1>0, IsAncestorSelf DEF IndexType
      <4> QED BY Zenon, <2>0, <4>1 DEF DriftFree, VerifyBestBlock, Ahead, OnLedger
    <3>4. mode' \in {"load", "held", "down"} \/ OnLedger(tip)'
      BY Zenon, <2>u, <3>1, <3>2, <3>3 DEF OnLedger
    <3> QED BY Zenon, <2>0, <2>u, <3>1, <3>4 DEF LedgerInv, Active
  <2>13. CASE UNCHANGED vars
    <3>1. UNCHANGED <<saplingDisk, lastFrontierHeight, mode, heads, coins, tip>>
      BY Zenon, <2>13 DEF saplingDisk
    <3>2. OnLedger(tip)' = OnLedger(tip) /\ OnLedger(heads[1])' = OnLedger(heads[1])
      BY Zenon, <2>u, <3>1 DEF OnLedger, saplingDisk
    <3> QED BY Zenon, <2>0, <2>u, <3>1, <3>2 DEF LedgerInv, Active
  <2> QED BY Zenon, <2>1, <2>2, <2>3, <2>4, <2>5, <2>6, <2>7, <2>8, <2>9, <2>10, <2>11, <2>12,
             <2>13 DEF Next
<1> QED BY Zenon, <1>a, <1>m, <1>s, <1>t
LEMMA LedgerInit ==
    ASSUME Init
    PROVE  LedgerInv /\ Ledger!Init
<1>1. /\ SaplingHeight \in Nat \ {0} /\ NoBlock \notin Blocks
  BY Zenon, ShieldedAssumption
<1>2. /\ nullifiers = <<>> /\ roots = <<>> /\ best = NoBlock /\ pool = 0
      /\ coins = Genesis /\ tip = Genesis /\ heads = <<>> /\ lastFrontierHeight = -1 /\ strayed = FALSE
  BY DEF Init
<1>3. /\ DOMAIN roots = {} /\ DOMAIN nullifiers = {} /\ MaxHeight(DOMAIN roots) = -1
  BY <1>2 DEF MaxHeight
<1>4. LedgerHead = Genesis /\ Len(Genesis) = 0 /\ ~Active(Genesis)
  BY <1>1, <1>2, EmptyIs DEF LedgerHead, Active, Genesis
<1>5. Exact(roots, nullifiers, LedgerHead)
  <2>1. SaplingHeight .. Len(LedgerHead) = {}
    BY <1>1, <1>4
  <2> QED BY Zenon, <1>3, <2>1 DEF Exact
<1>6. LedgerInv
  BY Zenon, <1>2, <1>3, <1>4, <1>5 DEF LedgerInv, OnLedger
<1>7. Ledger!Init
  BY Zenon, <1>2, <1>3, <1>4 DEF Ledger!Init, LedgerNotes, Genesis
<1> QED BY <1>6, <1>7

LEMMA LedgerInvariant == Spec => [](Types /\ LedgerInv)
<1>1. Init => Types /\ LedgerInv
  BY TypesInit, LedgerInit
<1>2. Types /\ LedgerInv /\ [Next]_vars => (Types /\ LedgerInv)'
  BY Zenon, LedgerStep, TypesStep
<1> QED BY <1>1, <1>2, PTL DEF Spec

(* Safety of the ledger: while no crash left SaplingDB on another branch  *)
(* than the one the node then took (strayed), its roots and nullifiers    *)
(* are those of one branch of the block tree, from the activation height  *)
(* to its best block, whatever flushes, reorganisations, crashes and      *)
(* replays came before.                                                   *)
THEOREM ShieldedLedgerExact == Spec => []LedgerExact
<1>1. LedgerInv => LedgerExact
  BY Zenon, ExactLedger DEF LedgerInv
<1> QED BY <1>1, LedgerInvariant, PTL

(* A node on duty validates on a ledger that contains its tip. *)
THEOREM ShieldedTipOnLedger == Spec => []TipOnLedger
<1>1. ASSUME Types, LedgerInv PROVE TipOnLedger
  <2>1. SUFFICES ASSUME ~strayed, OnDuty, Active(tip)
                 PROVE  IsAncestor(tip, LedgerHead)
    BY DEF TipOnLedger
  <2>2. best # NoBlock /\ IsAncestor(tip, best)
    BY Zenon, <1>1, <2>1 DEF LedgerInv, OnLedger, OnDuty
  <2>3. tip \in Seq(Nat) /\ best \in Seq(Nat)
    BY ZenonT(60), <1>1, <2>2, BlockFacts DEF Types, SaplingType, IndexType
  <2>4. Active(best)
    BY <2>1, <2>2, <2>3, ShieldedAssumption, SeqIs DEF Active, IsAncestor
  <2> QED BY Zenon, <2>2, <2>4 DEF LedgerHead
<1> QED BY <1>1, LedgerInvariant, PTL

(* Refinement: SaplingDB under block connection, disconnection, two-stage  *)
(* flushes, crashes and replays implements the ledger of ShieldedLedger,   *)
(* which only ever applies the next block of a branch or reverts the last. *)
THEOREM ShieldedRefines == Spec => LedgerRefined
<1>1. Init => Ledger!Init
  BY LedgerInit
<1>2. Types /\ LedgerInv /\ [Next]_vars => [Ledger!Next]_(Ledger!vars)
  BY Zenon, LedgerStep
<1> QED BY <1>1, <1>2, LedgerInvariant, PTL DEF Spec, LedgerRefined, Ledger!Spec

-----------------------------------------------------------------------------
(* Without a crash.  SaplingDB is at the tip itself, or winds back to      *)
(* where it began; a flush that has begun also ends; and a node that went  *)
(* down left its coins and EvoDB at the same block.                        *)
AtLedger(b) == IF Active(b) THEN best = b ELSE best = NoBlock \/ ~Active(best)

Uncrashed ==
    crashes = 0 /\ ~strayed =>
        /\ mode \in {"up", "flush", "evo", "stopping", "down"}
        /\ mode # "flush" => heads = <<>>
        /\ mode \in {"up", "flush", "evo", "stopping"} => AtLedger(tip)
        /\ mode = "down" => coins = evo /\ AtLedger(coins)

LEMMA ParentActive ==
    ASSUME NEW b \in Blocks, b # Genesis
    PROVE  /\ Parent(b) \in Blocks /\ Len(Parent(b)) = Len(b) - 1 /\ Len(b) \in Nat
           /\ Active(Parent(b)) => Active(b) /\ Parent(b) # Genesis
<1>1. Parent(b) \in Blocks /\ Len(Parent(b)) = Len(b) - 1 /\ Len(b) \in Nat
  BY Zenon, BlockFacts, ParentType
<1>2. Len(Genesis) = 0 /\ SaplingHeight \in Nat \ {0}
  BY Zenon, EmptyIs, ShieldedAssumption DEF Genesis
<1> QED BY <1>1, <1>2 DEF Active

LEMMA ConnectAtLedger ==
    ASSUME Types, Exact(roots, nullifiers, LedgerHead),
           lastFrontierHeight = MaxHeight(DOMAIN roots),
           NEW b \in Blocks, b # Genesis, AtLedger(Parent(b)),
           ProcessOK(b), ~CommitStrays(b), CommitBlock(Queued(b))
    PROVE  IF Active(b) THEN best' = b ELSE best' = NoBlock \/ ~Active(best')
<1>0. /\ Parent(b) \in Blocks /\ Len(Parent(b)) = Len(b) - 1 /\ Len(b) \in Nat
      /\ Active(Parent(b)) => Active(b) /\ Parent(b) # Genesis
  BY Zenon, ParentActive
<1>1. CASE Active(b)
  <2>1. lastFrontierHeight = IF LedgerHead = Genesis THEN -1 ELSE Len(LedgerHead)
    BY ZenonT(60), LedgerHeights DEF Types
  <2>2. LedgerHead = IF Active(Parent(b)) THEN Parent(b) ELSE Genesis
    BY Zenon, <1>0, ShieldedAssumption DEF AtLedger, LedgerHead
  <2>3. lastFrontierHeight < Len(b)
    BY <1>0, <2>1, <2>2
  <2>4. ~Skipped(b)
    BY <1>0, <1>1, <2>1, <2>2, <2>3 DEF Skipped
  <2>5. SpendsValid(b) /\ Queued(b) = NewBatch(b)
    BY Zenon, <2>4 DEF ProcessOK, Queued
  <2>6. NewBatch(b) # NoBatch
    BY <2>5, QueuedType, ShieldedAssumption DEF Types
  <2>7. best' = NewBatch(b).block
    BY <2>5, <2>6, Zenon DEF CommitBlock
  <2> QED BY Zenon, <1>1, <2>7 DEF NewBatch
<1>2. CASE ~Active(b)
  <2>1. Queued(b) = NoBatch
    BY Zenon, <1>2 DEF Queued, Skipped, CommitStrays
  <2>2. best' = best
    BY Zenon, <2>1 DEF CommitBlock, saplingDisk
  <2> QED BY Zenon, <1>0, <1>2, <2>2 DEF AtLedger
<1> QED BY Zenon, <1>1, <1>2

LEMMA UndoAtLedger ==
    ASSUME NEW b \in Blocks, b # Genesis, AtLedger(b), UndoBlock(b)
    PROVE  IF Active(Parent(b)) THEN best' = Parent(b) ELSE best' = NoBlock \/ ~Active(best')
<1>0. Active(Parent(b)) => Active(b)
  BY Zenon, ParentActive
<1>1. CASE Active(b)
  BY Zenon, <1>1 DEF UndoBlock
<1>2. CASE ~Active(b)
  <2>1. best' = best
    BY Zenon, <1>2 DEF UndoBlock, saplingDisk
  <2> QED BY Zenon, <1>0, <1>2, <2>1 DEF AtLedger
<1> QED BY Zenon, <1>1, <1>2

LEMMA UncrashedStep == Types /\ LedgerInv /\ Uncrashed /\ [Next]_vars => Uncrashed'
<1> SUFFICES ASSUME Types, LedgerInv, Uncrashed, [Next]_vars, crashes' = 0, ~strayed'
             PROVE  /\ mode' \in {"up", "flush", "evo", "stopping", "down"}
                    /\ mode' # "flush" => heads' = <<>>
                    /\ mode' \in {"up", "flush", "evo", "stopping"} => AtLedger(tip)'
                    /\ mode' = "down" => coins' = evo' /\ AtLedger(coins)'
  BY Zenon DEF Uncrashed
<1> USE DEF vars, indexVars, diskVars, saplingVars
<1>0. /\ SaplingType /\ crashes \in Nat /\ strayed \in BOOLEAN
      /\ {tip, coins, evo} \subseteq Blocks
  BY Zenon DEF Types, IndexType
<1>1. crashes = 0 /\ ~strayed /\ ~Crash
  <2>1. strayed => strayed'
    BY ZenonT(60) DEF Next, Receive, Connect, ConnectFails, JustCheck, DisconnectTip, DisconnectFails,
       BeginFlush, WritePartialBatch, WriteFinalBatch, CommitEvoDB, Stop, Shutdown, Crash,
       BeginReplay, RollBack, RollforwardBlock, ReplayFails, FinishReplay, LoadAfterReplay,
       Load
  <2>2. crashes' = crashes \/ Crash
    BY Zenon DEF Next, Receive, Connect, ConnectFails, JustCheck, DisconnectTip, DisconnectFails,
       BeginFlush, WritePartialBatch, WriteFinalBatch, CommitEvoDB, Stop, Shutdown,
       BeginReplay, RollBack, RollforwardBlock, ReplayFails, FinishReplay, LoadAfterReplay,
       Load
  <2>3. ~Crash
    BY <1>0 DEF Crash
  <2> QED BY Zenon, <2>1, <2>2, <2>3
<1>2. /\ mode \in {"up", "flush", "evo", "stopping", "down"}
      /\ mode # "flush" => heads = <<>>
      /\ mode \in {"up", "flush", "evo", "stopping"} => AtLedger(tip)
      /\ mode = "down" => coins = evo /\ AtLedger(coins)
  BY Zenon, <1>1 DEF Uncrashed
<1>3. /\ Exact(roots, nullifiers, LedgerHead)
      /\ mode = "up" => lastFrontierHeight = MaxHeight(DOMAIN roots)
  BY Zenon, <1>1 DEF LedgerInv
<1>4. \A b : Active(b)' <=> Active(b)
  BY Zenon DEF Active
<1>5. ASSUME NEW b \in Blocks, Receive(b) \/ ConnectFails(b) \/ JustCheck(b)
      PROVE  UNCHANGED <<mode, heads, tip, coins, evo, best>>
  BY Zenon, <1>5 DEF Receive, ConnectFails, Connects, JustCheck, saplingDisk
<1>6. ASSUME NEW b \in Blocks, Connect(b)
      PROVE  mode = "up" /\ mode' = "up" /\ heads' = heads /\ AtLedger(tip)'
  <2>1. /\ mode = "up" /\ mode' = mode /\ heads' = heads /\ tip' = b
        /\ b # Genesis /\ Parent(b) = tip
        /\ ProcessOK(b) /\ CommitBlock(Queued(b)) /\ ~CommitStrays(b)
    BY ZenonT(60), <1>6 DEF Connect, Connects
  <2>2. AtLedger(Parent(b)) /\ lastFrontierHeight = MaxHeight(DOMAIN roots)
    BY Zenon, <1>2, <1>3, <2>1
  <2>3. IF Active(b) THEN best' = b ELSE best' = NoBlock \/ ~Active(best')
    BY Zenon, <1>3, <2>1, <2>2, ConnectAtLedger
  <2> QED BY Zenon, <2>1, <2>3 DEF AtLedger, Active
<1>7. CASE DisconnectTip
  <2>1. /\ mode = "up" /\ mode' = mode /\ heads' = heads /\ tip' = Parent(tip)
        /\ tip # Genesis /\ UndoBlock(tip)
    BY Zenon, <1>7 DEF DisconnectTip, Disconnects
  <2>2. IF Active(Parent(tip)) THEN best' = Parent(tip) ELSE best' = NoBlock \/ ~Active(best')
    BY Zenon, <1>0, <1>2, <2>1, UndoAtLedger
  <2>3. AtLedger(tip)'
    BY Zenon, <2>1, <2>2 DEF AtLedger, Active
  <2> QED BY Zenon, <1>2, <2>1, <2>3
<1>8. CASE DisconnectFails
  <2>1. mode = "up" /\ UNCHANGED <<heads, tip, best>>
    BY Zenon, <1>8 DEF DisconnectFails, Disconnects, saplingDisk
  <2>2. ~Drifted(tip)
    BY Zenon, <1>2, <2>1 DEF Drifted, AtLedger, VerifyBestBlock
  <2>3. mode' = "stopping"
    BY Zenon, <1>8, <2>2 DEF DisconnectFails
  <2> QED BY Zenon, <1>2, <2>1, <2>3 DEF AtLedger, Active
<1>9. CASE BeginFlush \/ WritePartialBatch \/ WriteFinalBatch \/ CommitEvoDB \/ Stop
  <2>1. /\ UNCHANGED <<tip, best>> /\ mode \in {"up", "flush", "evo"}
        /\ mode' \in {"up", "flush", "evo", "stopping"}
        /\ mode' # "flush" => heads' = <<>>
    BY Zenon, <1>2, <1>9 DEF BeginFlush, WritePartialBatch, WriteFinalBatch, CommitEvoDB, Stop, saplingDisk
  <2> QED BY Zenon, <1>2, <2>1 DEF AtLedger, Active
<1>10. CASE Shutdown
  <2>1. /\ mode = "stopping" /\ mode' = "down" /\ heads' = <<>> /\ best' = best
        /\ coins' = tip /\ evo' = tip
    BY Zenon, <1>10 DEF Shutdown, saplingDisk
  <2> QED BY Zenon, <1>2, <2>1 DEF AtLedger, Active
<1>11. ~(BeginReplay \/ RollBack \/ RollforwardBlock \/ ReplayFails \/ FinishReplay \/ LoadAfterReplay)
  BY Zenon, <1>2 DEF BeginReplay, RollBack, RollforwardBlock, ReplayFails, FinishReplay, LoadAfterReplay,
     RollsBack, RollsForward
<1>12. CASE Load
  <2>1. mode = "down" /\ heads = <<>> /\ UNCHANGED <<heads, coins, evo, best>> /\ Start(coins)
    BY Zenon, <1>12 DEF Load, saplingDisk
  <2>2. DriftFree(coins)
    BY Zenon, <1>2, <2>1 DEF DriftFree, AtLedger, VerifyBestBlock
  <2>3. (mode' = "up" /\ tip' = coins) \/ mode' = "down"
    BY Zenon, <2>1, <2>2 DEF Start
  <2> QED BY Zenon, <1>2, <2>1, <2>3 DEF AtLedger, Active
<1>13. CASE UNCHANGED vars
  BY Zenon, <1>2, <1>13 DEF AtLedger, Active, saplingDisk
<1> QED BY ZenonT(60), <1>1, <1>2, <1>5, <1>6, <1>7, <1>8, <1>9, <1>10, <1>11, <1>12, <1>13
        DEF Next, AtLedger, Active

(* Only a crash, or a SaplingDB that has strayed, can make the disconnect, *)
(* replay and startup checks hold the node: stops, failed blocks, flushes  *)
(* and reorganisations of any length never do.                             *)
THEOREM ShieldedFaultsNeedCrash == Spec => []FaultsNeedCrash
<1>1. Init => Uncrashed
  <2>1. SUFFICES ASSUME Init PROVE Uncrashed
    OBVIOUS
  <2>2. ~Active(Genesis)
    BY EmptyIs, ShieldedAssumption DEF Active, Genesis
  <2> QED BY Zenon, <2>1, <2>2 DEF Init, Uncrashed, AtLedger
<1>2. Types /\ LedgerInv /\ Uncrashed /\ [Next]_vars => Uncrashed'
  BY UncrashedStep
<1>3. Types /\ Uncrashed => FaultsNeedCrash
  BY DEF Types, Uncrashed, FaultsNeedCrash
<1> QED BY <1>1, <1>2, <1>3, LedgerInvariant, PTL DEF Spec

-----------------------------------------------------------------------------
(* The value pool.  IsPool unfolds the recursion of PoolAlong once; that    *)
(* it has exactly one solution is shown on a least height without one.      *)
IsPool(g, b) ==
    g = [h \in 0 .. Len(b) |->
            IF h < SaplingHeight THEN 0 ELSE g[h - 1] - ValueBalance[Ancestor(b, h)]]

LEMMA PoolUnique ==
    ASSUME NEW b \in Blocks, NEW f, NEW g, IsPool(f, b), IsPool(g, b)
    PROVE  \A h \in 0 .. Len(b) : f[h] = g[h]
<1> DEFINE S == {h \in 0 .. Len(b) : f[h] # g[h]}
<1>0. Len(b) \in Nat /\ SaplingHeight \in Nat \ {0}
  BY Zenon, BlockFacts, ShieldedAssumption
<1>1. \A h \in 0 .. Len(b) :
         /\ f[h] = IF h < SaplingHeight THEN 0 ELSE f[h - 1] - ValueBalance[Ancestor(b, h)]
         /\ g[h] = IF h < SaplingHeight THEN 0 ELSE g[h - 1] - ValueBalance[Ancestor(b, h)]
  BY Zenon DEF IsPool
<1>2. SUFFICES ASSUME S # {} PROVE FALSE
  BY Zenon
<1>3. PICK m \in S : \A k \in S : m <= k
  <2>1. S \in SUBSET Nat
    BY <1>0
  <2> HIDE DEF S
  <2> QED BY Zenon, <1>2, <2>1, Least
<1>4. m \in 0 .. Len(b) /\ f[m] # g[m] /\ ~(m < SaplingHeight)
  BY Zenon, <1>1, <1>3
<1>5. m - 1 \in 0 .. Len(b) /\ m - 1 \notin S
  BY <1>0, <1>3, <1>4
<1>6. f[m - 1] = g[m - 1]
  BY Zenon, <1>5
<1> QED BY Zenon, <1>1, <1>4, <1>6

LEMMA PoolExtends ==
    ASSUME NEW b \in Blocks, b # Genesis,
           NEW f \in [0 .. Len(Parent(b)) -> Int], IsPool(f, Parent(b))
    PROVE  \E g \in [0 .. Len(b) -> Int] : IsPool(g, b)
<1> DEFINE G(h) == IF h < Len(b) THEN f[h]
                   ELSE IF h < SaplingHeight THEN 0 ELSE f[h - 1] - ValueBalance[b]
           g == [h \in 0 .. Len(b) |-> G(h)]
<1>0. /\ b \in Seq(Nat) /\ Len(b) \in Nat \ {0} /\ SaplingHeight \in Nat \ {0}
      /\ Len(Parent(b)) = Len(b) - 1 /\ Ancestor(b, Len(b)) = b
      /\ \A h \in 0 .. Len(b) - 1 : Ancestor(Parent(b), h) = Ancestor(b, h)
      /\ ValueBalance[b] \in Int
  BY Zenon, BlockFacts, ParentType, AncestorFull, ShieldedAssumption
<1>1. \A h \in 0 .. Len(b) - 1 :
         f[h] = IF h < SaplingHeight THEN 0 ELSE f[h - 1] - ValueBalance[Ancestor(b, h)]
  BY Zenon, <1>0 DEF IsPool
<1>2. \A h \in 0 .. Len(b) : G(h) \in Int
  <2> TAKE h \in 0 .. Len(b)
  <2>1. CASE h < Len(b)
    <3>1. h \in 0 .. Len(Parent(b))
      BY <1>0, <2>1
    <3>2. f[h] \in Int
      BY Zenon, <3>1
    <3> QED BY Zenon, <2>1, <3>2
  <2>2. CASE h = Len(b)
    <3>1. h - 1 \in 0 .. Len(Parent(b))
      BY <1>0, <2>2
    <3>2. f[h - 1] \in Int
      BY Zenon, <3>1
    <3>3. f[h - 1] - ValueBalance[b] \in Int /\ ~(h < Len(b))
      BY SMTT(60), <1>0, <2>2, <3>2
    <3> QED BY <3>3
  <2> QED BY <1>0, <2>1, <2>2
<1>3. \A h \in 0 .. Len(b) :
         G(h) = IF h < SaplingHeight THEN 0 ELSE g[h - 1] - ValueBalance[Ancestor(b, h)]
  <2> TAKE h \in 0 .. Len(b)
  <2>1. CASE h < SaplingHeight
    BY <1>0, <1>1, <2>1
  <2>2. CASE ~(h < SaplingHeight)
    <3>1. h - 1 \in 0 .. Len(b) /\ h - 1 < Len(b)
      BY <1>0, <2>2
    <3>2. g[h - 1] = f[h - 1]
      BY Zenon, <3>1
    <3>3. G(h) = f[h - 1] - ValueBalance[Ancestor(b, h)]
      BY <1>0, <1>1, <2>2
    <3> HIDE DEF g, G
    <3> QED BY Zenon, <2>2, <3>2, <3>3
  <2> QED BY Zenon, <2>1, <2>2
<1>4. g \in [0 .. Len(b) -> Int]
  BY Zenon, <1>2
<1>5. IsPool(g, b)
  <2> DEFINE E(h) == IF h < SaplingHeight THEN 0 ELSE g[h - 1] - ValueBalance[Ancestor(b, h)]
  <2>1. \A h \in 0 .. Len(b) : G(h) = E(h)
    BY Zenon, <1>3
  <2>2. g = [h \in 0 .. Len(b) |-> G(h)]
    BY Zenon
  <2>3. [h \in 0 .. Len(b) |-> G(h)] = [h \in 0 .. Len(b) |-> E(h)]
    <3> HIDE DEF G, E
    <3> QED BY Zenon, <2>1
  <2>4. g = [h \in 0 .. Len(b) |-> E(h)]
    <3> HIDE DEF g, E
    <3> QED BY Zenon, <2>2, <2>3
  <2> HIDE DEF g
  <2> QED BY Zenon, <2>4 DEF IsPool
<1> QED BY Zenon, <1>4, <1>5

LEMMA PoolExists ==
    ASSUME NEW b \in Blocks
    PROVE  \E g \in [0 .. Len(b) -> Int] : IsPool(g, b)
<1> DEFINE Has(c) == \E g \in [0 .. Len(c) -> Int] : IsPool(g, c)
           S == {Len(c) : c \in {d \in Blocks : ~Has(d)}}
<1>1. SUFFICES ASSUME ~Has(b) PROVE FALSE
  OBVIOUS
<1>2. S # {} /\ S \in SUBSET Nat
  <2>1. Len(b) \in S
    BY SMTT(60), <1>1
  <2>2. \A c \in Blocks : Len(c) \in Nat
    BY Zenon, BlockFacts
  <2> HIDE DEF Has
  <2> QED BY Zenon, <2>1, <2>2
<1>3. PICK m \in S : \A k \in S : m <= k
  <2> HIDE DEF S
  <2> QED BY <1>2, Least
<1>4. PICK c \in Blocks : ~Has(c) /\ m = Len(c)
  <2> HIDE DEF Has
  <2> QED BY <1>3
<1>5. SaplingHeight \in Nat \ {0}
  BY Zenon, ShieldedAssumption
<1>6. CASE c = Genesis
  <2> DEFINE g == [h \in 0 .. Len(c) |-> 0]
  <2>1. 0 .. Len(c) = {0}
    BY <1>6, EmptyIs DEF Genesis
  <2>2. \A h \in 0 .. Len(c) : h < SaplingHeight
    BY <1>5, <2>1
  <2>3. g \in [0 .. Len(c) -> Int]
    OBVIOUS
  <2>4. IsPool(g, c)
    BY Zenon, <2>2 DEF IsPool
  <2> QED BY Zenon, <1>4, <2>3, <2>4
<1>7. CASE c # Genesis
  <2>1. Parent(c) \in Blocks /\ Len(Parent(c)) = Len(c) - 1 /\ Len(c) \in Nat
    BY Zenon, <1>7, BlockFacts, ParentType
  <2>2. Len(Parent(c)) \notin S
    <3> HIDE DEF S
    <3> QED BY <1>3, <1>4, <2>1
  <2>3. Has(Parent(c))
    <3> HIDE DEF Has
    <3> QED BY Zenon, <2>1, <2>2
  <2>4. Has(c)
    BY Zenon, <1>7, <2>3, PoolExtends
  <2> QED BY Zenon, <1>4, <2>4
<1> QED BY Zenon, <1>6, <1>7

LEMMA PoolAlongFacts ==
    ASSUME NEW b \in Blocks
    PROVE  PoolAlong(b) \in [0 .. Len(b) -> Int] /\ IsPool(PoolAlong(b), b)
<1>1. PICK f \in [0 .. Len(b) -> Int] : IsPool(f, b)
  BY PoolExists
<1>2. PoolAlong(b) = CHOOSE g : IsPool(g, b)
  BY Zenon DEF PoolAlong, IsPool
<1>3. IsPool(PoolAlong(b), b)
  BY Zenon, <1>1, <1>2
<1> DEFINE g == PoolAlong(b)
<1>4. \A h \in 0 .. Len(b) : g[h] = f[h]
  <2> HIDE DEF g
  <2>1. IsPool(g, b)
    BY Zenon, <1>3 DEF g
  <2> QED BY <1>1, <2>1, PoolUnique
<1>5. g = [h \in 0 .. Len(b) |-> g[h]]
  <2>1. IsPool(g, b)
    BY <1>3
  <2> HIDE DEF g
  <2> QED BY Zenon, <2>1 DEF IsPool
<1>6. g = f
  <2> HIDE DEF g
  <2> QED BY Zenon, <1>1, <1>4, <1>5
<1> QED BY Zenon, <1>1, <1>3, <1>6

(* One block more or less changes the pool by the block's value balance.   *)
LEMMA PoolStep ==
    /\ PoolOf(Genesis) = 0
    /\ \A b \in Blocks :
          /\ PoolOf(b) \in Int
          /\ Len(b) < SaplingHeight => PoolOf(b) = 0
          /\ Active(b) => PoolOf(b) = PoolOf(Below(b)) - ValueBalance[b]
<1>0. SaplingHeight \in Nat \ {0} /\ Genesis \in Blocks /\ Len(Genesis) = 0
  BY Zenon, ShieldedAssumption, EmptyIs DEF Genesis
<1>1. ASSUME NEW b \in Blocks
      PROVE  /\ PoolOf(b) \in Int
             /\ Len(b) < SaplingHeight => PoolOf(b) = 0
             /\ Active(b) => PoolOf(b) = PoolAlong(b)[Len(b) - 1] - ValueBalance[b]
  <2> DEFINE g == PoolAlong(b)
  <2>1. /\ Len(b) \in Nat /\ Len(b) \in 0 .. Len(b) /\ Ancestor(b, Len(b)) = b
    BY BlockFacts, AncestorFull
  <2>2. g \in [0 .. Len(b) -> Int] /\ IsPool(g, b)
    BY Zenon, PoolAlongFacts
  <2>3. PoolOf(b) = g[Len(b)]
    BY DEF PoolOf
  <2> HIDE DEF g
  <2>4. g[Len(b)] = IF Len(b) < SaplingHeight THEN 0
                    ELSE g[Len(b) - 1] - ValueBalance[Ancestor(b, Len(b))]
    BY Zenon, <2>1, <2>2 DEF IsPool
  <2>5. Active(b) => ~(Len(b) < SaplingHeight)
    BY <1>0, <2>1 DEF Active
  <2> QED BY Zenon, <2>1, <2>2, <2>3, <2>4, <2>5 DEF g
<1>2. ASSUME NEW b \in Blocks, Active(b)
      PROVE  PoolAlong(b)[Len(b) - 1] = PoolOf(Below(b))
  <2> DEFINE g == PoolAlong(b)
  <2>1. /\ b \in Seq(Nat) /\ b # Genesis /\ Len(b) \in Nat /\ SaplingHeight <= Len(b)
        /\ Parent(b) \in Blocks /\ Len(Parent(b)) = Len(b) - 1
        /\ \A h \in 0 .. Len(b) - 1 : Ancestor(Parent(b), h) = Ancestor(b, h)
    BY Zenon, <1>2, BelowFacts, BlockFacts, ParentType
  <2>2. g \in [0 .. Len(b) -> Int] /\ IsPool(g, b)
    BY PoolAlongFacts
  <2>g. g = PoolAlong(b)
    OBVIOUS
  <2> HIDE DEF g
  <2>3. \A h \in 0 .. Len(b) :
           g[h] = IF h < SaplingHeight THEN 0 ELSE g[h - 1] - ValueBalance[Ancestor(b, h)]
    BY Zenon, <2>2 DEF IsPool
  <2>4. CASE Len(b) = SaplingHeight
    <3>1. Len(b) - 1 \in 0 .. Len(b) /\ Len(b) - 1 < SaplingHeight
      BY <1>0, <2>1, <2>4
    <3>2. g[Len(b) - 1] = 0
      BY Zenon, <2>3, <3>1
    <3>3. Below(b) = Genesis /\ PoolOf(Genesis) = 0
      BY SMTT(60), <1>0, <1>1, <2>4 DEF Below
    <3> QED BY Zenon, <2>g, <3>2, <3>3
  <2>5. CASE Len(b) # SaplingHeight
    <3> DEFINE f == [h \in 0 .. Len(b) - 1 |-> g[h]]
    <3>1. \A h \in 0 .. Len(b) - 1 :
             f[h] = IF h < SaplingHeight THEN 0 ELSE f[h - 1] - ValueBalance[Ancestor(Parent(b), h)]
      <4> TAKE h \in 0 .. Len(b) - 1
      <4>1. h \in 0 .. Len(b) /\ f[h] = g[h] /\ Ancestor(Parent(b), h) = Ancestor(b, h)
        BY <2>1
      <4>2. h >= SaplingHeight => h - 1 \in 0 .. Len(b) - 1
        BY <1>0, <2>1
      <4>3. h >= SaplingHeight => f[h - 1] = g[h - 1]
        BY Zenon, <4>2
      <4> HIDE DEF f
      <4> QED BY <1>0, <2>1, <2>3, <4>1, <4>3
    <3>2. f = [h \in 0 .. Len(b) - 1 |-> f[h]]
      BY Zenon
    <3>3. IsPool(f, Parent(b))
      <4> DEFINE E(h) == IF h < SaplingHeight THEN 0
                         ELSE f[h - 1] - ValueBalance[Ancestor(Parent(b), h)]
      <4>1. \A h \in 0 .. Len(b) - 1 : f[h] = E(h)
        BY Zenon, <3>1
      <4>2. f = [h \in 0 .. Len(b) - 1 |-> E(h)]
        <5> HIDE DEF f, E
        <5> QED BY Zenon, <3>2, <4>1
      <4>3. f = [h \in 0 .. Len(Parent(b)) |-> E(h)]
        <5> HIDE DEF f, E
        <5> QED BY Zenon, <2>1, <4>2
      <4> HIDE DEF f
      <4> QED BY Zenon, <4>3 DEF IsPool
    <3>4. Len(b) - 1 \in 0 .. Len(Parent(b)) /\ Len(b) - 1 \in 0 .. Len(b) - 1
      BY <1>0, <2>1
    <3>5. f[Len(b) - 1] = g[Len(b) - 1]
      BY Zenon, <3>4
    <3>6. f[Len(b) - 1] = PoolAlong(Parent(b))[Len(b) - 1]
      <4>1. IsPool(PoolAlong(Parent(b)), Parent(b))
        BY Zenon, <2>1, PoolAlongFacts
      <4> HIDE DEF f
      <4> QED BY SMTT(60), <2>1, <3>3, <3>4, <4>1, PoolUnique
    <3>7. PoolOf(Below(b)) = PoolAlong(Parent(b))[Len(b) - 1]
      BY Zenon, <2>1, <2>5 DEF Below, PoolOf
    <3> HIDE DEF f
    <3> QED BY Zenon, <2>g, <3>5, <3>6, <3>7
  <2> QED BY Zenon, <2>4, <2>5
<1>3. PoolOf(Genesis) = 0
  BY <1>0, <1>1
<1>4. ASSUME NEW b \in Blocks, Active(b)
      PROVE  PoolOf(b) = PoolOf(Below(b)) - ValueBalance[b]
  BY Zenon, <1>1, <1>2, <1>4
<1> QED BY Zenon, <1>1, <1>3, <1>4

LEMMA PoolInit == Init => PoolExact
<1>1. SUFFICES ASSUME Init PROVE PoolExact
  OBVIOUS
<1>2. best = NoBlock /\ pool = 0
  BY Zenon, <1>1 DEF Init
<1>3. LedgerHead = Genesis
  BY Zenon, <1>2 DEF LedgerHead
<1> QED BY Zenon, <1>2, <1>3, PoolStep DEF PoolExact

(* A step moves the ledger by one block, or not at all. *)
LEMMA LedgerMoves ==
    ASSUME Types, LedgerInv, [Next]_vars, ~strayed'
    PROVE  /\ ~strayed /\ LedgerHead \in Blocks /\ pool \in Nat /\ pool' \in Nat
           /\ \/ LedgerHead' = LedgerHead /\ pool' = pool
              \/ \E b \in Blocks : /\ Active(b) /\ ~Duplicates(b) /\ LedgerHead = Below(b)
                                   /\ LedgerHead' = b /\ pool' = pool - ValueBalance[b]
              \/ /\ Active(LedgerHead) /\ LedgerHead' = Below(LedgerHead)
                 /\ pool' = pool + ValueBalance[LedgerHead]
<1>2. Types' /\ [Ledger!Next]_(Ledger!vars)
  BY Zenon, LedgerStep, TypesStep
<1>4. ~strayed /\ pool \in Nat /\ pool' \in Nat /\ LedgerHead \in Blocks
      /\ SaplingHeight \in Nat \ {0} /\ (LedgerHead = Genesis \/ Active(LedgerHead))
  <2>1. ~strayed
    BY Zenon DEF Next, vars, Receive, Connect, ConnectFails, JustCheck, DisconnectTip,
       DisconnectFails, BeginFlush, WritePartialBatch, WriteFinalBatch, CommitEvoDB, Stop,
       Shutdown, Crash, BeginReplay, RollBack, RollforwardBlock, ReplayFails, FinishReplay,
       LoadAfterReplay, Load
  <2>2. pool \in Nat /\ best \in Blocks \cup {NoBlock} /\ pool' \in Nat
    BY Zenon, <1>2 DEF Types, SaplingType
  <2>3. Genesis \in Blocks /\ SaplingHeight \in Nat \ {0}
    BY Zenon, ShieldedAssumption
  <2> QED BY Zenon, <2>1, <2>2, <2>3 DEF LedgerHead
<1>6. CASE UNCHANGED Ledger!vars
  BY Zenon, <1>4, <1>6 DEF Ledger!vars
<1>7. ASSUME NEW b \in Blocks, Ledger!Apply(b)
      PROVE  /\ Active(b) /\ ~Duplicates(b) /\ LedgerHead = Below(b)
             /\ LedgerHead' = b /\ pool' = pool - ValueBalance[b]
  <2>1. /\ LedgerHead' = b /\ pool' = pool - ValueBalance[b] /\ ~Duplicates(b)
        /\ IF Len(b) = SaplingHeight THEN LedgerHead = <<>>
           ELSE Len(b) > SaplingHeight /\ LedgerHead = Parent(b)
    BY Zenon, <1>7 DEF Ledger!Apply, Ledger!Follows, Ledger!Parent, Parent
  <2>2. Active(b)
    BY SMTT(60), <1>4, <2>1, BlockFacts DEF Active
  <2> QED BY Zenon, <2>1, <2>2 DEF Below, Genesis
<1>8. CASE Ledger!Revert
  <2>1. /\ LedgerHead # Genesis /\ pool' = pool + ValueBalance[LedgerHead]
        /\ LedgerHead' = Below(LedgerHead)
    BY Zenon, <1>8 DEF Ledger!Revert, Ledger!Parent, Parent, Below, Genesis
  <2> QED BY Zenon, <1>4, <2>1
<1>9. \/ UNCHANGED Ledger!vars \/ (\E b \in Blocks : Ledger!Apply(b)) \/ Ledger!Revert
  BY Zenon, <1>2, <1>4 DEF Ledger!Next
<1> QED BY Zenon, <1>4, <1>6, <1>7, <1>8, <1>9

LEMMA PoolKept == Types /\ LedgerInv /\ PoolExact /\ [Next]_vars => PoolExact'
<1>1. SUFFICES ASSUME Types, LedgerInv, PoolExact, [Next]_vars, ~strayed'
               PROVE  pool' = PoolOf(LedgerHead')
  BY Zenon DEF PoolExact, PoolOf, PoolAlong
<1>2. /\ ~strayed /\ LedgerHead \in Blocks /\ pool \in Nat /\ pool' \in Nat
      /\ \/ LedgerHead' = LedgerHead /\ pool' = pool
         \/ \E b \in Blocks : /\ Active(b) /\ LedgerHead = Below(b)
                              /\ LedgerHead' = b /\ pool' = pool - ValueBalance[b]
         \/ /\ Active(LedgerHead) /\ LedgerHead' = Below(LedgerHead)
            /\ pool' = pool + ValueBalance[LedgerHead]
  BY Zenon, <1>1, LedgerMoves
<1>3. pool = PoolOf(LedgerHead)
  BY Zenon, <1>1, <1>2 DEF PoolExact
<1>4. ASSUME Active(LedgerHead), LedgerHead' = Below(LedgerHead), pool' = pool + ValueBalance[LedgerHead]
      PROVE  pool' = PoolOf(LedgerHead')
  <2>1. /\ pool = PoolOf(Below(LedgerHead)) - ValueBalance[LedgerHead]
        /\ PoolOf(Below(LedgerHead)) \in Int /\ ValueBalance[LedgerHead] \in Int
    BY Zenon, <1>2, <1>3, <1>4, PoolStep, BlockFacts, BelowFacts
  <2> QED BY <1>4, <2>1
<1> QED BY Zenon, <1>2, <1>3, <1>4, PoolStep

(* The value pool of SaplingDB is the sum of the value balances of exactly *)
(* the blocks on its ledger (CommitBlock, UndoBlock), over reorganisations *)
(* and crashes: value is neither created nor lost on the way.              *)
THEOREM ShieldedPoolExact == Spec => []PoolExact
BY PoolInit, PoolKept, LedgerInvariant, PTL DEF Spec

-----------------------------------------------------------------------------
(* What the checks of ProcessBlock let onto the ledger: no block of it      *)
(* spends a nullifier twice or takes the pool below zero.                   *)
SoundChain(b) ==
    \A h \in SaplingHeight .. Len(b) : ~Duplicates(Ancestor(b, h)) /\ PoolOf(Ancestor(b, h)) >= 0

Sound == ~strayed => SoundChain(LedgerHead)

LEMMA SoundApply ==
    ASSUME NEW b \in Blocks, Active(b), SoundChain(Below(b)), ~Duplicates(b), PoolOf(b) >= 0
    PROVE  SoundChain(b)
<1>1. /\ Ancestor(b, Len(b)) = b
      /\ SaplingHeight .. Len(Below(b)) = (SaplingHeight .. Len(b)) \ {Len(b)}
      /\ \A h \in SaplingHeight .. Len(Below(b)) : Ancestor(Below(b), h) = Ancestor(b, h)
  BY Zenon, BelowFacts
<1>2. ASSUME NEW h \in SaplingHeight .. Len(b)
      PROVE  ~Duplicates(Ancestor(b, h)) /\ PoolOf(Ancestor(b, h)) >= 0
  <2>1. CASE h = Len(b)
    BY Zenon, <1>1, <2>1
  <2>2. CASE h # Len(b)
    <3>1. h \in SaplingHeight .. Len(Below(b))
      BY Zenon, <1>1, <2>2
    <3>2. ~Duplicates(Ancestor(Below(b), h)) /\ PoolOf(Ancestor(Below(b), h)) >= 0
      BY Zenon, <3>1 DEF SoundChain
    <3>3. Ancestor(Below(b), h) = Ancestor(b, h)
      BY Zenon, <1>1, <3>1
    <3> QED BY Zenon, <3>2, <3>3
  <2> QED BY Zenon, <2>1, <2>2
<1> QED BY Zenon, <1>2 DEF SoundChain

LEMMA SoundRevert ==
    ASSUME NEW b \in Blocks, Active(b), SoundChain(b)
    PROVE  SoundChain(Below(b))
<1>1. /\ SaplingHeight .. Len(Below(b)) = (SaplingHeight .. Len(b)) \ {Len(b)}
      /\ \A h \in SaplingHeight .. Len(Below(b)) : Ancestor(Below(b), h) = Ancestor(b, h)
  BY Zenon, BelowFacts
<1>2. ASSUME NEW h \in SaplingHeight .. Len(Below(b))
      PROVE  ~Duplicates(Ancestor(Below(b), h)) /\ PoolOf(Ancestor(Below(b), h)) >= 0
  <2>1. h \in SaplingHeight .. Len(b) /\ Ancestor(Below(b), h) = Ancestor(b, h)
    BY Zenon, <1>1
  <2>2. ~Duplicates(Ancestor(b, h)) /\ PoolOf(Ancestor(b, h)) >= 0
    BY Zenon, <2>1 DEF SoundChain
  <2> QED BY Zenon, <2>1, <2>2
<1> QED BY Zenon, <1>2 DEF SoundChain

LEMMA SoundInit == Init => Sound
<1>1. SUFFICES ASSUME Init PROVE SoundChain(Genesis)
  BY Zenon DEF Init, Sound, LedgerHead
<1>2. SaplingHeight .. Len(Genesis) = {}
  BY EmptyIs, ShieldedAssumption DEF Genesis
<1> QED BY Zenon, <1>2 DEF SoundChain

LEMMA SoundKept == Types /\ LedgerInv /\ PoolExact /\ Sound /\ [Next]_vars => Sound'
<1>1. SUFFICES ASSUME Types, LedgerInv, PoolExact, Sound, [Next]_vars, ~strayed'
               PROVE  SoundChain(LedgerHead')
  BY Zenon DEF Sound, SoundChain, PoolOf, PoolAlong, Duplicates, Ancestor
<1>2. /\ ~strayed /\ LedgerHead \in Blocks /\ pool' \in Nat
      /\ \/ LedgerHead' = LedgerHead
         \/ \E b \in Blocks : Active(b) /\ ~Duplicates(b) /\ LedgerHead = Below(b) /\ LedgerHead' = b
         \/ Active(LedgerHead) /\ LedgerHead' = Below(LedgerHead)
  BY Zenon, <1>1, LedgerMoves
<1>3. SoundChain(LedgerHead)
  BY Zenon, <1>1, <1>2 DEF Sound
<1>4. PoolOf(LedgerHead') >= 0
  <2>1. pool' = PoolOf(LedgerHead')
    <3>1. PoolExact'
      BY Zenon, <1>1, PoolKept
    <3> QED BY Zenon, <1>1, <3>1 DEF PoolExact, PoolOf, PoolAlong
  <2>2. pool' >= 0
    BY <1>2
  <2> QED BY Zenon, <2>1, <2>2
<1> QED BY Zenon, <1>2, <1>3, <1>4, SoundApply, SoundRevert

(* A chain on such a ledger, or still below activation, is sound itself:   *)
(* the height kept with a nullifier is that of the one block that has it.  *)
LEMMA SoundTip ==
    ASSUME NEW b \in Blocks, NEW H \in Blocks, NEW r, NEW nf, Exact(r, nf, H), SoundChain(H),
           Active(b) => IsAncestor(b, H)
    PROVE  SpendsOnce(b) /\ \A h \in 0 .. Len(b) : PoolOf(Ancestor(b, h)) >= 0
<1>0. /\ b \in Seq(Nat) /\ H \in Seq(Nat) /\ Len(b) \in Nat /\ Len(H) \in Nat
      /\ SaplingHeight \in Nat \ {0}
  BY Zenon, BlockFacts, ShieldedAssumption
<1>1. ASSUME NEW h \in 0 .. Len(b), h >= SaplingHeight
      PROVE  /\ h \in SaplingHeight .. Len(H) /\ Ancestor(b, h) = Ancestor(H, h)
             /\ ~Duplicates(Ancestor(b, h)) /\ PoolOf(Ancestor(b, h)) >= 0
  <2>1. Active(b)
    BY <1>0, <1>1 DEF Active
  <2>2. Len(b) <= Len(H) /\ Ancestor(b, h) = Ancestor(H, h)
    <3>1. IsAncestor(b, H)
      BY Zenon, <2>1
    <3>2. Len(b) <= Len(H) /\ \A k \in 0 .. Len(b) : Ancestor(b, k) = Ancestor(H, k)
      BY Zenon, <1>0, <3>1, IsAncestorFacts
    <3> QED BY Zenon, <3>2
  <2>3. h \in SaplingHeight .. Len(H)
    BY <1>0, <1>1, <2>2
  <2> QED BY Zenon, <2>2, <2>3 DEF SoundChain
<1>2. ASSUME NEW h \in 0 .. Len(b), ~(h >= SaplingHeight)
      PROVE  DOMAIN Spends[Ancestor(b, h)] = {} /\ PoolOf(Ancestor(b, h)) >= 0
  <2>1. Ancestor(b, h) \in Blocks /\ Len(Ancestor(b, h)) = h
    BY Zenon, <1>0, AncestorType, ShieldedAssumption DEF PrefixClosed
  <2>2. ~Active(Ancestor(b, h)) /\ Len(Ancestor(b, h)) < SaplingHeight
    BY <1>0, <1>2, <2>1 DEF Active
  <2>3. Spends[Ancestor(b, h)] = <<>>
    BY Zenon, <2>1, <2>2, ShieldedAssumption DEF NoData
  <2>4. DOMAIN Spends[Ancestor(b, h)] = {}
    BY SMTT(60), <2>3
  <2>5. PoolOf(Ancestor(b, h)) = 0
    BY Zenon, <2>1, <2>2, PoolStep
  <2> QED BY <2>4, <2>5
<1>3. ASSUME NEW h \in 1 .. Len(b), NEW i \in DOMAIN Spends[Ancestor(b, h)]
      PROVE  /\ ~Duplicates(Ancestor(b, h))
             /\ nf[Spends[Ancestor(b, h)][i]] = h
  <2>1. h \in 0 .. Len(b)
    BY <1>0
  <2>2. h \in DOMAIN r /\ Ancestor(b, h) = Ancestor(H, h) /\ ~Duplicates(Ancestor(b, h))
    BY Zenon, <1>1, <1>2, <2>1 DEF Exact
  <2>3. Spends[Ancestor(b, h)][i] \in SpentIn(Ancestor(H, h))
    BY Zenon, <2>2 DEF SpentIn
  <2> QED BY Zenon, <2>2, <2>3 DEF Exact
<1>4. SpendsOnce(b)
  <2>1. SUFFICES ASSUME NEW h \in 1 .. Len(b), NEW k \in 1 .. Len(b),
                        NEW i \in DOMAIN Spends[Ancestor(b, h)], NEW j \in DOMAIN Spends[Ancestor(b, k)],
                        Spends[Ancestor(b, h)][i] = Spends[Ancestor(b, k)][j]
                 PROVE  h = k /\ i = j
    BY Zenon DEF SpendsOnce
  <2>2. h = k /\ ~Duplicates(Ancestor(b, h))
    BY Zenon, <1>3, <2>1
  <2> QED BY Zenon, <2>1, <2>2 DEF Duplicates
<1> QED BY Zenon, <1>1, <1>2, <1>4

LEMMA TipAlong ==
    ASSUME Types, LedgerInv, ~strayed, OnDuty
    PROVE  /\ Exact(roots, nullifiers, LedgerHead) /\ tip \in Blocks /\ LedgerHead \in Blocks
           /\ Active(tip) => IsAncestor(tip, LedgerHead)
<1>1. /\ Exact(roots, nullifiers, LedgerHead) /\ OnLedger(tip)
      /\ tip \in Blocks /\ best \in Blocks \cup {NoBlock} /\ Genesis \in Blocks
  BY Zenon, ShieldedAssumption DEF LedgerInv, OnDuty, Types, SaplingType, IndexType
<1>2. ASSUME Active(tip) PROVE IsAncestor(tip, LedgerHead)
  <2>1. best # NoBlock /\ IsAncestor(tip, best)
    BY Zenon, <1>1, <1>2 DEF OnLedger
  <2>2. Len(tip) \in Nat /\ Len(best) \in Nat /\ Len(tip) <= Len(best)
    BY Zenon, <1>1, <2>1, BlockFacts DEF IsAncestor
  <2>3. Active(best)
    BY SMTT(60), <1>2, <2>2, ShieldedAssumption DEF Active
  <2> QED BY Zenon, <2>1, <2>3 DEF LedgerHead
<1> QED BY Zenon, <1>1, <1>2 DEF LedgerHead

(* No nullifier is spent twice on the active chain, and at none of its     *)
(* blocks has more value left the pool than went in, whatever crashes,     *)
(* skipped blocks and replays SaplingDB went through.                      *)
THEOREM ShieldedTipSound == Spec => []TipSound
<1>1. Types /\ LedgerInv /\ Sound => TipSound
  <2>1. SUFFICES ASSUME Types, LedgerInv, Sound, ~strayed, OnDuty
                 PROVE  SpendsOnce(tip) /\ \A h \in 0 .. Len(tip) : PoolOf(Ancestor(tip, h)) >= 0
    BY Zenon DEF TipSound
  <2>2. SoundChain(LedgerHead)
    BY Zenon, <2>1 DEF Sound
  <2> QED BY Zenon, <2>1, <2>2, TipAlong, SoundTip
<1> QED BY <1>1, SoundInit, SoundKept, ShieldedPoolExact, LedgerInvariant, PTL DEF Spec

(* Until SaplingDB strays, the nullifiers of the active chain are all in   *)
(* it, whichever branch the node is on: what the run shielded_reorg sees   *)
(* violated needs one of the steps that set strayed.                       *)
THEOREM ShieldedNullifiersRecorded == Spec => [](~strayed => NullifiersRecorded)
<1>1. Types /\ LedgerInv => (~strayed => NullifiersRecorded)
  <2>1. SUFFICES ASSUME Types, LedgerInv, ~strayed, OnDuty, NEW h \in SaplingHeight .. Len(tip)
                 PROVE  SpentIn(Ancestor(tip, h)) \subseteq DOMAIN nullifiers
    BY Zenon DEF NullifiersRecorded
  <2>2. /\ Exact(roots, nullifiers, LedgerHead) /\ tip \in Blocks /\ LedgerHead \in Blocks
        /\ Active(tip) => IsAncestor(tip, LedgerHead)
    BY Zenon, <2>1, TipAlong
  <2>3. /\ tip \in Seq(Nat) /\ LedgerHead \in Seq(Nat) /\ Len(tip) \in Nat
        /\ Len(LedgerHead) \in Nat /\ SaplingHeight \in Nat \ {0}
    BY Zenon, <2>2, BlockFacts, ShieldedAssumption
  <2>4. Active(tip) /\ h \in 0 .. Len(tip)
    BY SMTT(60), <2>1, <2>3 DEF Active
  <2>5. Len(tip) <= Len(LedgerHead) /\ Ancestor(tip, h) = Ancestor(LedgerHead, h)
    <3>1. IsAncestor(tip, LedgerHead)
      BY Zenon, <2>2, <2>4
    <3>2. /\ Len(tip) <= Len(LedgerHead)
          /\ \A k \in 0 .. Len(tip) : Ancestor(tip, k) = Ancestor(LedgerHead, k)
      BY Zenon, <2>3, <3>1, IsAncestorFacts
    <3> QED BY Zenon, <2>4, <3>2
  <2>6. h \in SaplingHeight .. Len(LedgerHead)
    BY <2>1, <2>3, <2>5
  <2> QED BY Zenon, <2>2, <2>5, <2>6 DEF Exact
<1> QED BY <1>1, LedgerInvariant, PTL

-----------------------------------------------------------------------------
(* The first block of the pool is accepted on every branch: the heights    *)
(* are not yet strict there (mainnet, testnet), or every branch starts the *)
(* pool on genesis (regtest).                                              *)
TolerantStart == SaplingHeight = 1 \/ SaplingHeight < nSaplingStrictnessHeight

LEMMA HonestConsistent ==
    ASSUME TolerantStart, Types, Exact(roots, nullifiers, LedgerHead),
           lastFrontierHeight = MaxHeight(DOMAIN roots),
           NEW b \in Blocks, b # Genesis, OnLedger(Parent(b)), ~Skipped(b)
    PROVE  ~Inconsistent(b)
<1>1. Active(b) /\ LedgerHead = Below(b)
  BY Zenon, NextOnLedger
<1>2. /\ Below(b) = IF Active(Parent(b)) THEN Parent(b) ELSE Genesis
      /\ Len(b) \in Nat /\ Len(Parent(b)) = Len(b) - 1 /\ Len(Genesis) = 0
      /\ SaplingHeight \in Nat \ {0} /\ nSaplingStrictnessHeight \in Nat
      /\ b \in Seq(Nat) /\ Parent(b) \in Blocks
  BY ZenonT(60), <1>1, BelowFacts, BlockFacts, ParentType, EmptyIs, ShieldedAssumption DEF Genesis
<1>3. CASE Active(Parent(b))
  <2>1. Parent(b) # Genesis
    BY <1>2, <1>3 DEF Active
  <2>2. best = Parent(b)
    BY Zenon, <1>1, <1>2, <1>3, <2>1 DEF LedgerHead
  <2> QED BY Zenon, <2>2 DEF Inconsistent, VerifyBestBlock
<1>4. CASE ~Active(Parent(b))
  <2>1. Len(b) = SaplingHeight
    BY <1>1, <1>2, <1>4 DEF Active
  <2>2. CASE SaplingHeight < nSaplingStrictnessHeight
    BY <1>2, <2>1, <2>2 DEF Inconsistent
  <2>3. CASE SaplingHeight = 1
    <3>1. Parent(b) = Genesis
      BY <1>2, <2>1, <2>3, BlockFacts, EmptyIs DEF Genesis
    <3>2. LedgerHead = Genesis
      BY Zenon, <1>1, <1>2, <1>4
    <3>3. best = NoBlock \/ best = Genesis
      <4>1. SUFFICES ASSUME best # NoBlock PROVE best = Genesis
        BY Zenon
      <4>2. best \in Blocks
        BY Zenon, <4>1 DEF Types, SaplingType
      <4>3. CASE Active(best)
        BY Zenon, <3>2, <4>1, <4>3 DEF LedgerHead
      <4>4. CASE ~Active(best)
        <5>1. Len(best) = 0 /\ best \in Seq(Nat)
          BY <2>3, <4>2, <4>4, BlockFacts DEF Active
        <5> QED BY Zenon, <5>1, EmptyIs DEF Genesis
      <4> QED BY Zenon, <4>3, <4>4
    <3> QED BY Zenon, <3>1, <3>3 DEF Inconsistent, VerifyBestBlock
  <2> QED BY Zenon, <2>2, <2>3 DEF TolerantStart
<1> QED BY Zenon, <1>3, <1>4

LEMMA HonestSpends ==
    ASSUME Types, Exact(roots, nullifiers, LedgerHead), pool = PoolOf(LedgerHead),
           NEW b \in Blocks, Active(b), LedgerHead = Below(b),
           SpendsOnce(b), PoolOf(b) >= 0
    PROVE  SpendsValid(b)
<1>0. /\ Len(b) \in Nat /\ Ancestor(b, Len(b)) = b /\ Len(b) \in 1 .. Len(b)
      /\ SaplingHeight \in Nat \ {0}
      /\ SaplingHeight .. Len(Below(b)) = (SaplingHeight .. Len(b)) \ {Len(b)}
      /\ \A h \in SaplingHeight .. Len(Below(b)) : Ancestor(Below(b), h) = Ancestor(b, h)
  BY BelowFacts
<1>1. pool - ValueBalance[b] >= 0
  BY Zenon, PoolStep
<1>2. ~Duplicates(b)
  <2>1. \A i, j \in DOMAIN Spends[b] : Spends[b][i] = Spends[b][j] => i = j
    BY <1>0 DEF SpendsOnce
  <2> QED BY Zenon, <2>1 DEF Duplicates
<1>3. SpentIn(b) \cap DOMAIN nullifiers = {}
  <2>1. SUFFICES ASSUME NEW n \in SpentIn(b), n \in DOMAIN nullifiers PROVE FALSE
    BY Zenon
  <2> DEFINE h == nullifiers[n]
  <2>2. h \in SaplingHeight .. Len(Below(b)) /\ n \in SpentIn(Ancestor(Below(b), h))
    BY Zenon, <2>1 DEF Exact
  <2>3. h \in 1 .. Len(b) /\ h # Len(b) /\ n \in SpentIn(Ancestor(b, h))
    <3> HIDE DEF h
    <3> QED BY <1>0, <2>2
  <2> HIDE DEF h
  <2>4. PICK i \in DOMAIN Spends[Ancestor(b, h)] : n = Spends[Ancestor(b, h)][i]
    BY ZenonT(60), <2>3 DEF SpentIn
  <2>5. PICK j \in DOMAIN Spends[b] : n = Spends[b][j]
    BY Zenon, <2>1 DEF SpentIn
  <2> QED BY ZenonT(60), <1>0, <2>3, <2>4, <2>5 DEF SpendsOnce
<1> QED BY Zenon, <1>1, <1>2, <1>3 DEF SpendsValid

LEMMA HonestKept ==
    TolerantStart /\ Types /\ LedgerInv /\ PoolExact /\ HonestAccepted /\ [Next]_vars
        => HonestAccepted'
<1>1. SUFFICES ASSUME TolerantStart, Types, LedgerInv, PoolExact, HonestAccepted, [Next]_vars,
                      ~strayed', NEW b \in failed',
                      Verdict[b] = "valid", SpendsOnce(b), PoolOf(b) >= 0
               PROVE  FALSE
  BY Zenon DEF HonestAccepted, SpendsOnce, PoolOf, PoolAlong, Ancestor
<1>2. ~strayed
  BY Zenon, <1>1 DEF Next, vars, Receive, Connect, ConnectFails, JustCheck, DisconnectTip,
     DisconnectFails, BeginFlush, WritePartialBatch, WriteFinalBatch, CommitEvoDB, Stop,
     Shutdown, Crash, BeginReplay, RollBack, RollforwardBlock, ReplayFails, FinishReplay,
     LoadAfterReplay, Load
<1>3. b \notin failed
  BY Zenon, <1>1, <1>2 DEF HonestAccepted
<1>4. b \in Blocks /\ ConnectFails(b)
  BY ZenonT(60), <1>1, <1>3 DEF Next, vars, indexVars, Receive, Connect, ConnectFails, JustCheck,
     DisconnectTip, DisconnectFails, BeginFlush, WritePartialBatch, WriteFinalBatch,
     CommitEvoDB, Stop, Shutdown, Crash, BeginReplay, RollBack, RollforwardBlock, ReplayFails,
     FinishReplay, LoadAfterReplay, Load
<1>5. /\ ~ProcessOK(b) /\ mode = "up" /\ b # Genesis /\ Parent(b) = tip
  BY Zenon, <1>1, <1>4 DEF ConnectFails, Connects
<1>6. /\ Exact(roots, nullifiers, LedgerHead) /\ pool = PoolOf(LedgerHead)
      /\ lastFrontierHeight = MaxHeight(DOMAIN roots) /\ OnLedger(Parent(b))
  BY Zenon, <1>1, <1>2, <1>5 DEF LedgerInv, PoolExact
<1>7. ~Skipped(b)
  <2>0. DOMAIN roots \subseteq Nat /\ lastFrontierHeight \in DOMAIN roots \cup {-1}
    BY Zenon, <1>1 DEF Types, SaplingType
  <2>1. lastFrontierHeight \in Int /\ Len(b) \in Nat
    BY <1>4, <2>0, BlockFacts
  <2> QED BY SMTT(60), <1>5, <2>1 DEF ProcessOK, Skipped, Inconsistent
<1>8. ~Inconsistent(b)
  BY Zenon, <1>1, <1>4, <1>5, <1>6, <1>7, HonestConsistent
<1>9. SpendsValid(b)
  <2>1. Active(b) /\ LedgerHead = Below(b)
    BY Zenon, <1>1, <1>4, <1>5, <1>6, <1>7, NextOnLedger
  <2> QED BY Zenon, <1>1, <1>4, <1>6, <2>1, HonestSpends
<1> QED BY Zenon, <1>5, <1>8, <1>9 DEF ProcessOK

(* With the heights of mainnet, testnet and regtest, no block that is      *)
(* valid on its own chain is ever marked failed by ProcessBlock, whatever  *)
(* reorganisations, crashes and replays SaplingDB went through.            *)
THEOREM ShieldedHonestAccepted ==
    ASSUME TolerantStart
    PROVE  Spec => []HonestAccepted
<1>1. Init => HonestAccepted
  BY Zenon DEF Init, HonestAccepted
<1>2. TolerantStart
  OBVIOUS
<1>3. Types /\ LedgerInv /\ PoolExact /\ HonestAccepted /\ [Next]_vars => HonestAccepted'
  BY Zenon, <1>2, HonestKept
<1> QED BY <1>1, <1>3, ShieldedPoolExact, LedgerInvariant, PTL DEF Spec
=============================================================================
