---------------------------- MODULE HMPStateProofs ----------------------------
(***************************************************************************)
(* What the operations of the privilege tracker do to its windows and      *)
(* records, and the invariants of HMPState, proved for every set of keys,  *)
(* algorithms and blocks, every window size and every activation schedule  *)
(* that ParamsAssumption and StateAssumption admit.                        *)
(***************************************************************************)
EXTENDS HMPState, FiniteSetTheorems, WellFoundedInduction, TLAPS

(* What the provers know of sequences, as facts to cite. *)
LEMMA SeqIs ==
    ASSUME NEW S, NEW s \in Seq(S)
    PROVE  Len(s) \in Nat /\ DOMAIN s = 1 .. Len(s) /\ s \in [1 .. Len(s) -> S]
BY SMT

LEMMA SeqElement ==
    ASSUME NEW S, NEW s \in Seq(S), NEW i \in 1 .. Len(s)
    PROVE  s[i] \in S
BY SMT

LEMMA EmptyIs ==
    ASSUME NEW S
    PROVE  /\ <<>> \in Seq(S) /\ Len(<<>>) = 0
           /\ \A s \in Seq(S) : s # <<>> => Len(s) \in Nat \ {0}
BY SMT

LEMMA AppendIs ==
    ASSUME NEW S, NEW s \in Seq(S), NEW x \in S
    PROVE  /\ Append(s, x) \in Seq(S) /\ Append(s, x) # <<>>
           /\ Len(Append(s, x)) = Len(s) + 1 /\ Append(s, x)[Len(s) + 1] = x
           /\ \A i \in 1 .. Len(s) : Append(s, x)[i] = s[i]
BY SMT

LEMMA SubSeqIs ==
    ASSUME NEW S, NEW s, NEW m \in Int, NEW n \in Int, \A i \in m .. n : s[i] \in S
    PROVE  /\ SubSeq(s, m, n) \in Seq(S)
           /\ Len(SubSeq(s, m, n)) = IF m <= n THEN n - m + 1 ELSE 0
           /\ \A i \in 1 .. n - m + 1 : SubSeq(s, m, n)[i] = s[m + i - 1]
BY SMT

-----------------------------------------------------------------------------
(* Least and greatest elements *)

(* A non-empty set of naturals has a least element. *)
LEMMA LeastNatural ==
    ASSUME NEW S \in SUBSET Nat, S # {}
    PROVE  \E m \in S : \A x \in S : m <= x
<1> DEFINE R == {ss \in Nat \X Nat : ss[1] < ss[2]}
<1>1. OpToRel(<, Nat) = R
  BY Zenon DEF OpToRel
<1>2. IsWellFoundedOn(R, Nat)
  BY <1>1, NatLessThanWellFounded, Zenon
<1>3. PICK m \in S : \A y \in S : ~ (<<y, m>> \in R)
  <2> HIDE DEF R
  <2> QED BY <1>2, WFMin, Zenon
<1>4. \A y \in S : ~ (y < m)
  BY Zenon, <1>3
<1> QED BY <1>4

(* A non-empty set of naturals with an upper bound has a greatest element. *)
LEMMA GreatestNatural ==
    ASSUME NEW S \in SUBSET Nat, S # {}, NEW b \in Nat, \A x \in S : x <= b
    PROVE  \E m \in S : \A x \in S : x <= m
<1> DEFINE T == {n \in Nat : b - n \in S}
<1>1. PICK s \in S : TRUE
  BY Zenon
<1>2. b - s \in T
  BY <1>1
<1>3. PICK t \in T : \A x \in T : t <= x
  <2> HIDE DEF T
  <2>1. T # {} BY <1>2
  <2>2. T \in SUBSET Nat BY DEF T
  <2> QED BY <2>1, <2>2, LeastNatural
<1>4. \A x \in S : x <= b - t
  <2> TAKE x \in S
  <2>1. b - x \in Nat /\ b - (b - x) = x OBVIOUS
  <2>2. b - x \in T BY <2>1
  <2>3. t \in Nat /\ t <= b - x
    BY Zenon, <2>2, <1>3
  <2> QED BY <2>3
<1> QED BY <1>3, <1>4

-----------------------------------------------------------------------------
(* The windows *)

(* What is left of a window after pop_front: how many entries, *)
LEMMA PushProperties ==
    ASSUME NEW E, NEW s \in Seq(E), NEW e \in E, NEW n \in Nat \ {0},
           NEW t, t = Newest(Append(s, e), n)
    PROVE  /\ t \in Seq(E)
           /\ Len(t) = IF Len(s) + 1 > n THEN n ELSE Len(s) + 1
<1> DEFINE u == Append(s, e)
<1>1. u \in Seq(E) /\ Len(u) = Len(s) + 1 /\ Len(s) \in Nat
  BY AppendIs, SeqIs
<1> HIDE DEF u
<1>2. CASE Len(u) > n
  <2> DEFINE m == Len(u) - n + 1
  <2>1. \A i \in m..Len(u) : u[i] \in E
    BY <1>1, <1>2, SeqElement
  <2>2. m \in Int /\ Len(u) \in Int /\ m <= Len(u) /\ Len(u) - m + 1 = n
    BY <1>1, <1>2
  <2>3. t = SubSeq(u, m, Len(u))
    BY Zenon, <1>2 DEF Newest, u
  <2> HIDE DEF m
  <2> QED BY <1>1, <1>2, <2>1, <2>2, <2>3, SubSeqIs
<1>3. CASE ~(Len(u) > n)
  <2>1. t = u BY <1>3 DEF Newest, u
  <2> QED BY <2>1, <1>1, <1>3
<1> QED BY <1>2, <1>3

(* and which: the entry d below the newest is the one it was. *)
At(s, d) == s[Len(s) - d]

Pushed(E, s, e, n, t) ==
    s \in Seq(E) /\ e \in E /\ n \in Nat \ {0} /\ t = Newest(Append(s, e), n)

LEMMA PushedLength ==
    ASSUME NEW E, NEW s, NEW e, NEW n, NEW t, Pushed(E, s, e, n, t)
    PROVE  /\ Len(s) \in Nat /\ n \in Nat \ {0}
           /\ Len(Append(s, e)) = Len(s) + 1
           /\ Len(t) = IF Len(s) + 1 > n THEN n ELSE Len(s) + 1
BY SMTT(60), PushProperties, AppendIs, SeqIs DEF Pushed

LEMMA PushedEntry ==
    ASSUME NEW E, NEW s, NEW e, NEW n, NEW t, Pushed(E, s, e, n, t),
           NEW d \in Nat, d < Len(t)
    PROVE  At(t, d) = At(Append(s, e), d)
<1> DEFINE u == Append(s, e)
<1>1. /\ Len(u) = Len(s) + 1 /\ Len(s) \in Nat /\ n \in Nat \ {0}
      /\ Len(t) = IF Len(s) + 1 > n THEN n ELSE Len(s) + 1
  BY PushedLength
<1>2. u \in Seq(E) /\ t = Newest(u, n)
  BY AppendIs DEF Pushed
<1> HIDE DEF u
<1>3. CASE Len(u) > n
  <2> DEFINE m == Len(u) - n + 1
  <2>1. \A i \in m..Len(u) : u[i] \in E
    BY <1>1, <1>2, <1>3, SeqElement
  <2>2. m \in Int /\ Len(u) \in Int /\ m <= Len(u) /\ Len(u) - m + 1 = n
    BY <1>1, <1>3
  <2>3. t = SubSeq(u, m, Len(u))
    BY Zenon, <1>2, <1>3 DEF Newest
  <2>4. n - d \in 1..n /\ m + (n - d) - 1 = Len(u) - d /\ Len(t) = n
    BY <1>1, <1>3
  <2>5. \A i \in 1..n : SubSeq(u, m, Len(u))[i] = u[m + i - 1]
    <3> HIDE DEF m
    <3> QED BY <2>1, <2>2, SubSeqIs
  <2>6. SubSeq(u, m, Len(u))[n - d] = u[m + (n - d) - 1]
    BY Zenon, <2>4, <2>5
  <2> HIDE DEF m
  <2>7. At(t, d) = At(u, d)
    BY Zenon, <2>3, <2>4, <2>6 DEF At
  <2> QED BY <2>7 DEF u
<1>4. CASE ~(Len(u) > n)
  <2>1. t = u BY <1>2, <1>4 DEF Newest
  <2> QED BY <2>1 DEF u
<1> QED BY <1>3, <1>4

(* The newest entry is the pushed one. *)
LEMMA PushNewest ==
    ASSUME NEW E, NEW s, NEW e, NEW n, NEW t, Pushed(E, s, e, n, t)
    PROVE  0 < Len(t) /\ At(t, 0) = e
<1>1. Append(s, e)[Len(s) + 1] = e
  BY AppendIs, SeqIs DEF Pushed
<1>2. /\ Len(s) \in Nat /\ n \in Nat \ {0} /\ Len(Append(s, e)) = Len(s) + 1
      /\ Len(t) = IF Len(s) + 1 > n THEN n ELSE Len(s) + 1
  BY PushedLength
<1>3. 0 < Len(t)
  BY <1>2
<1>4. At(t, 0) = At(Append(s, e), 0)
  BY <1>3, PushedEntry
<1>5. At(Append(s, e), 0) = e
  BY <1>1, <1>2 DEF At
<1> QED BY <1>3, <1>4, <1>5

(* Pushing moves what lay d below the newest entry to d + 1 below it. *)
LEMMA PushMoves ==
    ASSUME NEW E, NEW s, NEW e, NEW n, NEW t, Pushed(E, s, e, n, t),
           NEW d \in Nat, d < Len(s), d + 1 < n
    PROVE  d + 1 < Len(t) /\ At(t, d + 1) = At(s, d)
<1>1. /\ Len(s) \in Nat /\ n \in Nat \ {0} /\ Len(Append(s, e)) = Len(s) + 1
      /\ Len(t) = IF Len(s) + 1 > n THEN n ELSE Len(s) + 1
  BY PushedLength
<1>2. d + 1 \in Nat /\ d + 1 < Len(t)
  BY <1>1
<1>3. At(t, d + 1) = At(Append(s, e), d + 1)
  BY <1>2, PushedEntry
<1>4. At(Append(s, e), d + 1) = At(s, d)
  <2>1. Len(s) + 1 - (d + 1) = Len(s) - d /\ Len(s) - d \in 1..Len(s)
    BY <1>1
  <2>2. Append(s, e)[Len(s) - d] = s[Len(s) - d]
    BY <2>1, AppendIs DEF Pushed
  <2> QED BY <1>1, <2>1, <2>2 DEF At
<1> QED BY <1>2, <1>3, <1>4

(* pop_back leaves a prefix. *)
LEMMA BelowProperties ==
    ASSUME NEW E, NEW s \in Seq(E), NEW h \in Int,
           \A e \in E : e.height \in Nat
    PROVE  /\ Below(s, h) \in Seq(E)
           /\ Len(Below(s, h)) <= Len(s)
<1> DEFINE P(n) == /\ n = 0 \/ s[n].height < h
                   /\ \A i \in (n + 1)..Len(s) : s[i].height >= h
           K == {n \in 0..Len(s) : n = 0 \/ s[n].height < h}
<1>1. Len(s) \in Nat /\ \A i \in 1..Len(s) : s[i] \in E /\ s[i].height \in Nat
  BY SeqIs, SeqElement
<1>2. PICK m \in K : \A x \in K : x <= m
  <2>1. K \in SUBSET Nat /\ 0 \in K /\ \A x \in K : x <= Len(s)
    BY <1>1
  <2> HIDE DEF K
  <2> QED BY Zenon, <2>1, <1>1, GreatestNatural
<1>3. m \in 0..Len(s) /\ P(m)
  <2>1. ASSUME NEW i \in (m + 1)..Len(s) PROVE s[i].height >= h
    <3>1. i \notin K BY <1>1, <1>2
    <3>2. i \in 1..Len(s) BY <1>1, <1>2
    <3> QED BY <3>1, <3>2, <1>1
  <2> QED BY <2>1, <1>2
<1> DEFINE n == CHOOSE n \in 0..Len(s) : P(n)
<1>4. n \in 0..Len(s) /\ P(n)
  BY <1>3, Zenon
<1>5. Below(s, h) = SubSeq(s, 1, n)
  BY Zenon DEF Below
<1>6. /\ SubSeq(s, 1, n) \in Seq(E)
      /\ Len(SubSeq(s, 1, n)) = IF 1 <= n THEN n - 1 + 1 ELSE 0
  <2> HIDE DEF n
  <2>1. \A i \in 1..n : s[i] \in E BY <1>1, <1>4
  <2> QED BY <2>1, <1>1, <1>4, SubSeqIs
<1> HIDE DEF n
<1> QED BY <1>4, <1>5, <1>6, <1>1

-----------------------------------------------------------------------------
(* The records *)

(* A window entry added at the end changes a count of matching entries by   *)
(* at most one.                                                             *)
LEMMA CountAppend ==
    ASSUME NEW n \in Nat, NEW A \in SUBSET (1..n), NEW B \in SUBSET (1..(n + 1)),
           B \cap (1..n) = A
    PROVE  /\ Cardinality(A) \in Nat
           /\ Cardinality(B) = Cardinality(A) + (IF n + 1 \in B THEN 1 ELSE 0)
<1>1. IsFiniteSet(A) /\ Cardinality(A) \in Nat
  <2>1. IsFiniteSet(1..n) BY FS_Interval
  <2>2. IsFiniteSet(A) BY <2>1, FS_Subset
  <2> QED BY <2>2, FS_CardinalityType
<1>2. n + 1 \notin A /\ 1..(n + 1) = (1..n) \cup {n + 1}
  OBVIOUS
<1>3. CASE n + 1 \in B
  <2>1. B = A \cup {n + 1}
    BY <1>2, <1>3, Zenon
  <2> QED BY SMTT(60), <2>1, <1>1, <1>2, <1>3, FS_AddElement
<1>4. CASE n + 1 \notin B
  <2>1. B = A
    BY <1>2, <1>4, Zenon
  <2> QED BY <2>1, <1>1, <1>4
<1> QED BY <1>3, <1>4

(* The index FirstSeen chooses. *)
LEMMA FirstTouched ==
    ASSUME NEW w \in Seq(WindowEntry), NEW a, NEW k, Touched(w, a, k) # {}
    PROVE  \E i \in Touched(w, a, k) :
              /\ \A j \in Touched(w, a, k) : i <= j
              /\ FirstSeen(w, a, k) = w[i].height
<1> DEFINE T == Touched(w, a, k)
           i == CHOOSE i \in T : \A j \in T : i <= j
<1>1. T \in SUBSET (1..Len(w)) /\ Len(w) \in Nat
  BY SeqIs DEF Touched
<1>2. \E m \in T : \A x \in T : m <= x
  <2> HIDE DEF T
  <2>1. T \in SUBSET Nat BY <1>1
  <2>2. T # {} BY DEF T
  <2> QED BY <2>1, <2>2, LeastNatural
<1>3. i \in T /\ \A j \in T : i <= j
  <2> HIDE DEF T
  <2> QED BY <1>2, Zenon
<1>4. FirstSeen(w, a, k) = w[i].height
  BY Zenon DEF FirstSeen
<1> HIDE DEF i
<1> QED BY <1>3, <1>4

(* Folding one more entry: the incremental update of BlockConnected gives   *)
(* exactly the records RebuildFromWindow would compute from the longer      *)
(* window.                                                                  *)
LEMMA CreditIsRebuild ==
    ASSUME NEW w \in Seq(WindowEntry), NEW e \in WindowEntry
    PROVE  RebuildFromWindow(Append(w, e)) = CreditEntry(RebuildFromWindow(w), e)
<1> DEFINE n == Len(w)
           u == Append(w, e)
<1>1. /\ n \in Nat /\ Len(u) = n + 1 /\ u[n + 1] = e
      /\ \A i \in 1..n : u[i] = w[i]
      /\ \A i \in 1..n : w[i] \in WindowEntry
      /\ u \in Seq(WindowEntry)
  BY AppendIs, SeqIs, SeqElement
<1> HIDE DEF u, n
<1>2. ASSUME NEW a \in Algos, NEW k \in Keys
      PROVE  /\ Cardinality({i \in 1..Len(u) : Mined(u[i], a, k)})
                   = Cardinality({i \in 1..n : Mined(w[i], a, k)})
                       + (IF Mined(e, a, k) THEN 1 ELSE 0)
             /\ Cardinality({i \in 1..Len(u) : Sealed(u[i], a, k)})
                   = Cardinality({i \in 1..n : Sealed(w[i], a, k)})
                       + (IF Sealed(e, a, k) THEN 1 ELSE 0)
             /\ FirstSeen(u, a, k) = IF FirstSeen(w, a, k) < 0 /\ Touches(e, a, k)
                                     THEN e.height ELSE FirstSeen(w, a, k)
  <2>1. Cardinality({i \in 1..Len(u) : Mined(u[i], a, k)})
          = Cardinality({i \in 1..n : Mined(w[i], a, k)}) + (IF Mined(e, a, k) THEN 1 ELSE 0)
    <3> DEFINE A == {i \in 1..n : Mined(w[i], a, k)}
               B == {i \in 1..Len(u) : Mined(u[i], a, k)}
    <3>1. A \in SUBSET (1..n) /\ B \in SUBSET (1..(n + 1))
      BY <1>1
    <3>2. B \cap (1..n) = A
      BY <1>1
    <3>3. n + 1 \in B <=> Mined(e, a, k)
      BY <1>1
    <3> HIDE DEF A, B
    <3>4. Cardinality(B) = Cardinality(A) + (IF n + 1 \in B THEN 1 ELSE 0)
      <4>1. n \in Nat BY <1>1
      <4> QED BY <4>1, <3>1, <3>2, CountAppend, SMTT(30)
    <3>5. Cardinality(B) = Cardinality(A) + (IF Mined(e, a, k) THEN 1 ELSE 0)
      BY <3>3, <3>4
    <3> QED BY <3>5 DEF A, B
  <2>2. Cardinality({i \in 1..Len(u) : Sealed(u[i], a, k)})
          = Cardinality({i \in 1..n : Sealed(w[i], a, k)}) + (IF Sealed(e, a, k) THEN 1 ELSE 0)
    <3> DEFINE A == {i \in 1..n : Sealed(w[i], a, k)}
               B == {i \in 1..Len(u) : Sealed(u[i], a, k)}
    <3>1. A \in SUBSET (1..n) /\ B \in SUBSET (1..(n + 1))
      BY <1>1
    <3>2. B \cap (1..n) = A
      BY <1>1
    <3>3. n + 1 \in B <=> Sealed(e, a, k)
      BY <1>1
    <3> HIDE DEF A, B
    <3>4. Cardinality(B) = Cardinality(A) + (IF n + 1 \in B THEN 1 ELSE 0)
      <4>1. n \in Nat BY <1>1
      <4> QED BY <4>1, <3>1, <3>2, CountAppend, SMTT(30)
    <3>5. Cardinality(B) = Cardinality(A) + (IF Sealed(e, a, k) THEN 1 ELSE 0)
      BY <3>3, <3>4
    <3> QED BY <3>5 DEF A, B
  <2>3. FirstSeen(u, a, k) = IF FirstSeen(w, a, k) < 0 /\ Touches(e, a, k)
                             THEN e.height ELSE FirstSeen(w, a, k)
    <3> DEFINE T == Touched(w, a, k)
               U == Touched(u, a, k)
    <3>1. /\ T \in SUBSET (1..n) /\ U \in SUBSET (1..(n + 1)) /\ U \cap (1..n) = T
          /\ n + 1 \in U <=> Touches(e, a, k)
      BY <1>1 DEF Touched, n
    <3>2. CASE T = {}
      <4>1. FirstSeen(w, a, k) = -1 BY <3>2 DEF FirstSeen
      <4>2. CASE Touches(e, a, k)
        <5>1. U # {} /\ \A i \in U : i = n + 1
          BY <1>1, <3>1, <3>2, <4>2
        <5>2. FirstSeen(u, a, k) = e.height
          BY Zenon, <1>1, <5>1, FirstTouched
        <5> QED BY <5>2, <4>1, <4>2
      <4>3. CASE ~Touches(e, a, k)
        <5>1. U = {} BY <1>1, <3>1, <3>2, <4>3
        <5>2. FirstSeen(u, a, k) = -1 BY <5>1 DEF FirstSeen
        <5> QED BY <5>2, <4>1, <4>3
      <4> QED BY <4>2, <4>3
    <3>3. CASE T # {}
      <4>1. PICK i \in T : (\A j \in T : i <= j) /\ FirstSeen(w, a, k) = w[i].height
        BY <3>3, FirstTouched
      <4>2. PICK g \in U : (\A j \in U : g <= j) /\ FirstSeen(u, a, k) = u[g].height
        <5>1. U # {} BY <3>1, <3>3
        <5> QED BY Zenon, <5>1, <1>1, FirstTouched
      <4>3. i = g
        BY <1>1, <3>1, <4>1, <4>2
      <4>4. u[i] = w[i] /\ w[i].height \in Nat
        BY Zenon, <1>1, <3>1, <4>1 DEF WindowEntry
      <4> QED BY <4>1, <4>2, <4>3, <4>4
    <3> QED BY <3>2, <3>3
  <2> QED BY Zenon, <2>1, <2>2, <2>3
<1> QED BY SMTT(60), <1>2 DEF RebuildFromWindow, CreditEntry, u, n

(* The records of any window are well formed. *)
LEMMA RebuildType ==
    ASSUME NEW w \in Seq(WindowEntry)
    PROVE  RebuildFromWindow(w) \in [Algos -> [Keys -> Record]]
<1>1. ASSUME NEW T \in SUBSET (1..Len(w)) PROVE Cardinality(T) \in Nat
  <2>1. Len(w) \in Nat BY SeqIs
  <2>2. IsFiniteSet(1..Len(w)) BY <2>1, FS_Interval
  <2> QED BY Zenon, <2>2, FS_Subset, FS_CardinalityType
<1>2. ASSUME NEW a \in Algos, NEW k \in Keys
      PROVE  FirstSeen(w, a, k) \in Nat \cup {-1}
  <2>1. CASE Touched(w, a, k) = {}
    BY <2>1 DEF FirstSeen
  <2>2. CASE Touched(w, a, k) # {}
    <3>1. PICK i \in Touched(w, a, k) : FirstSeen(w, a, k) = w[i].height
      BY <2>2, FirstTouched
    <3>2. w[i] \in WindowEntry
      BY <3>1, SeqElement DEF Touched
    <3> QED BY <3>1, <3>2 DEF WindowEntry
  <2> QED BY <2>1, <2>2
<1>3. ASSUME NEW a \in Algos, NEW k \in Keys
      PROVE  /\ Cardinality({i \in 1..Len(w) : Mined(w[i], a, k)}) \in Nat
             /\ Cardinality({i \in 1..Len(w) : Sealed(w[i], a, k)}) \in Nat
  <2> DEFINE A == {i \in 1..Len(w) : Mined(w[i], a, k)}
             B == {i \in 1..Len(w) : Sealed(w[i], a, k)}
  <2>1. A \in SUBSET (1..Len(w)) /\ B \in SUBSET (1..Len(w)) OBVIOUS
  <2> HIDE DEF A, B
  <2>2. Cardinality(A) \in Nat /\ Cardinality(B) \in Nat BY <2>1, <1>1
  <2> QED BY <2>2 DEF A, B
<1> QED BY Zenon, <1>2, <1>3 DEF RebuildFromWindow, Record

(* No entry, no credit. *)
LEMMA RebuildEmpty == RebuildFromWindow(<<>>) = EmptyRecords
<1>1. ASSUME NEW a \in Algos, NEW k \in Keys
      PROVE  /\ {i \in 1..Len(<<>>) : Mined(<<>>[i], a, k)} = {}
             /\ {i \in 1..Len(<<>>) : Sealed(<<>>[i], a, k)} = {}
             /\ Touched(<<>>, a, k) = {}
  BY DEF Touched
<1>2. Cardinality({}) = 0
  BY FS_EmptySet
<1>3. ASSUME NEW a \in Algos, NEW k \in Keys
      PROVE  FirstSeen(<<>>, a, k) = -1
  BY <1>1 DEF FirstSeen
<1> QED BY <1>1, <1>2, <1>3 DEF RebuildFromWindow, EmptyRecords, EmptyRecord

-----------------------------------------------------------------------------
(* The operations *)

(* BlockConnected keeps the tracker well formed and its records exact. *)
LEMMA ConnectedInv ==
    ASSUME TrackerTypeOK, RecordsMatchWindow,
           NEW e \in WindowEntry, PrivilegeBlockConnected(e)
    PROVE  TrackerTypeOK' /\ RecordsMatchWindow'
<1> USE ParamsAssumption
<1>1. /\ window' \in Seq(WindowEntry) /\ Len(window') <= PrivilegeWindow
  <2>1. window \in Seq(WindowEntry) /\ PrivilegeWindow \in Nat \ {0} /\ Len(window) \in Nat
    BY SeqIs DEF TrackerTypeOK
  <2>2. window' = Newest(Append(window, e), PrivilegeWindow)
    BY DEF PrivilegeBlockConnected
  <2> QED BY ONLY <2>1, <2>2, e \in WindowEntry, PushProperties
<1>2. /\ sealLong' \in Seq(LongEntry) /\ Len(sealLong') <= SealLongWindow
  <2>1. LongPart(e) \in LongEntry BY DEF LongPart, LongEntry, WindowEntry
  <2> QED BY SMTT(60), <2>1, PushProperties DEF TrackerTypeOK, PrivilegeBlockConnected
<1>3. /\ extended' \in Seq(ExtendedEntry) /\ Len(extended') <= ExtendedWindow
  <2>1. CASE e.miner = NoKey
    BY Zenon, <2>1 DEF TrackerTypeOK, PrivilegeBlockConnected
  <2>2. CASE e.miner # NoKey
    <3>1. ExtendedPart(e) \in ExtendedEntry
      BY Zenon, <2>2 DEF ExtendedPart, ExtendedEntry, WindowEntry
    <3> QED BY SMTT(60), <3>1, <2>2, PushProperties DEF TrackerTypeOK, PrivilegeBlockConnected
  <2> QED BY <2>1, <2>2
<1>4. RecordsMatchWindow'
  <2>1. CASE Len(window) + 1 > PrivilegeWindow
    BY <2>1 DEF PrivilegeBlockConnected, RecordsMatchWindow
  <2>2. CASE ~(Len(window) + 1 > PrivilegeWindow)
    <3>1. window \in Seq(WindowEntry) BY DEF TrackerTypeOK
    <3>2. window' = Append(window, e)
      BY Zenon, <2>2, <3>1, AppendIs DEF PrivilegeBlockConnected, Newest
    <3>3. records' = CreditEntry(RebuildFromWindow(window), e)
      BY <2>2 DEF PrivilegeBlockConnected, RecordsMatchWindow
    <3> QED BY <3>1, <3>2, <3>3, CreditIsRebuild DEF RecordsMatchWindow
  <2> QED BY <2>1, <2>2
<1>5. records' \in [Algos -> [Keys -> Record]]
  BY <1>1, <1>4, RebuildType DEF RecordsMatchWindow
<1> QED BY Zenon, <1>1, <1>2, <1>3, <1>4, <1>5 DEF TrackerTypeOK

(* BlockDisconnected keeps the tracker well formed and its records exact. *)
LEMMA DisconnectedInv ==
    ASSUME TrackerTypeOK, NEW h \in Int, PrivilegeBlockDisconnected(h)
    PROVE  TrackerTypeOK' /\ RecordsMatchWindow'
<1> USE ParamsAssumption
<1>1. /\ window' \in Seq(WindowEntry) /\ Len(window') <= PrivilegeWindow
  <2>1. \A e \in WindowEntry : e.height \in Nat BY DEF WindowEntry
  <2>2. window' \in Seq(WindowEntry) /\ Len(window') <= Len(window)
    BY Zenon, <2>1, BelowProperties DEF TrackerTypeOK, PrivilegeBlockDisconnected
  <2> QED BY <2>2, SeqIs DEF TrackerTypeOK
<1>2. /\ sealLong' \in Seq(LongEntry) /\ Len(sealLong') <= SealLongWindow
  <2>1. \A e \in LongEntry : e.height \in Nat BY DEF LongEntry
  <2>2. sealLong' \in Seq(LongEntry) /\ Len(sealLong') <= Len(sealLong)
    BY Zenon, <2>1, BelowProperties DEF TrackerTypeOK, PrivilegeBlockDisconnected
  <2> QED BY <2>2, SeqIs DEF TrackerTypeOK
<1>3. /\ extended' \in Seq(ExtendedEntry) /\ Len(extended') <= ExtendedWindow
  <2>1. \A e \in ExtendedEntry : e.height \in Nat BY DEF ExtendedEntry
  <2>2. extended' \in Seq(ExtendedEntry) /\ Len(extended') <= Len(extended)
    BY Zenon, <2>1, BelowProperties DEF TrackerTypeOK, PrivilegeBlockDisconnected
  <2> QED BY <2>2, SeqIs DEF TrackerTypeOK
<1>4. RecordsMatchWindow'
  BY DEF PrivilegeBlockDisconnected, RecordsMatchWindow
<1>5. records' \in [Algos -> [Keys -> Record]]
  BY <1>1, <1>4, RebuildType DEF RecordsMatchWindow
<1> QED BY Zenon, <1>1, <1>2, <1>3, <1>4, <1>5 DEF TrackerTypeOK

(* Clear leaves an empty tracker, whose records are those of no block. *)
LEMMA ClearedInv ==
    ASSUME PrivilegeClear
    PROVE  TrackerTypeOK' /\ RecordsMatchWindow'
<1> USE ParamsAssumption
<1>1. EmptyRecords \in [Algos -> [Keys -> Record]]
  BY Zenon DEF EmptyRecords, EmptyRecord, Record
<1> QED BY <1>1, RebuildEmpty DEF PrivilegeClear, TrackerTypeOK, RecordsMatchWindow

(* The tracker starts empty. *)
LEMMA TrackerInitInv ==
    ASSUME TrackerInit
    PROVE  TrackerTypeOK /\ RecordsMatchWindow
<1> USE ParamsAssumption
<1>1. EmptyRecords \in [Algos -> [Keys -> Record]]
  BY DEF EmptyRecords, EmptyRecord, Record
<1> QED BY <1>1, RebuildEmpty DEF TrackerInit, TrackerTypeOK, RecordsMatchWindow

-----------------------------------------------------------------------------
(* The inductive invariant *)

(* Where the thread holding cs_main is, and what it works on: the chain     *)
(* holds valid blocks only, a block is valid while it is being connected,   *)
(* and the loops stay on the chain.                                         *)
ControlInv ==
    /\ \A h \in 1..Len(chain) : HMPValid(chain[h], h)
    /\ pc = "connecting" \/ (pc = "rebuilding" /\ pending # NoBlock)
          => pending \in Block
    /\ pc = "rebuilding" => /\ HMPActive(Len(chain))
                            /\ replay \in RebuildStart(Len(chain))..(Len(chain) + 1)
    /\ pc = "rollforward" => pending = NoBlock /\ replay \in 1..(Len(chain) + 1)
    /\ AnchorIsTip

BaseInv == TypeOK /\ RecordsMatchWindow /\ ControlInv

(* Where the windows must already agree with the chain: at the tip when the *)
(* anchor says so, up to the replayed height during a rebuild.              *)
RebuildFrom == IF RebuildStart(Len(chain)) > DetHeight THEN RebuildStart(Len(chain)) ELSE DetHeight

AgreeInv ==
    DetHeight > 0 =>
    /\ pc \in {"idle", "connecting"} /\ anchor = chain => WindowsAgree(DetHeight, Len(chain))
    /\ pc = "rebuilding" => WindowsAgree(RebuildFrom, replay - 1)
    /\ pc = "connecting" /\ DetHeight <= Len(chain) => anchor = chain

-----------------------------------------------------------------------------
(* Parameters *)

(* The replay covers every window. *)
LEMMA LookbackCovers ==
    /\ MaxLookback \in Nat
    /\ PrivilegeWindow <= MaxLookback
    /\ ExtendedWindow <= MaxLookback
    /\ SealLongWindow <= MaxLookback
<1> DEFINE a == ExtendedWindow + PrivilegeWindow
           b == PrivilegeWindow + WarmupBlocks
           c == SealLongWindow
           d == 2 * CommitmentOffset
           S == {a, b, c, d}
<1>1. a \in Nat /\ b \in Nat /\ c \in Nat /\ d \in Nat /\ ExtendedWindow <= a /\ PrivilegeWindow <= a
  BY ParamsAssumption
<1>2. MaxLookback = Maximum(S)
  BY DEF MaxLookback
<1> HIDE DEF a, b, c, d
<1>3. \E x \in S : \A y \in S : y <= x
  BY <1>1
<1>4. Maximum(S) \in S /\ \A y \in S : y <= Maximum(S)
  <2> HIDE DEF S
  <2> QED BY <1>3, Zenon DEF Maximum
<1>5. Maximum(S) \in Nat /\ a <= Maximum(S) /\ c <= Maximum(S)
  BY <1>1, <1>4
<1> QED BY <1>1, <1>2, <1>5, ParamsAssumption DEF c

(* Where the replay starts. *)
LEMMA RebuildStartProperties ==
    ASSUME NEW n \in Nat
    PROVE  /\ RebuildStart(n) \in Nat
           /\ HMPHeight <= RebuildStart(n)
           /\ HMPActive(n) => RebuildStart(n) <= n
           /\ RebuildStart(n) = HMPHeight \/ RebuildStart(n) = n - MaxLookback
BY LookbackCovers, ParamsAssumption DEF RebuildStart, HMPActive

-----------------------------------------------------------------------------
(* Types *)

(* The entry a block leaves in the tracker is a window entry. *)
LEMMA EntryType ==
    ASSUME NEW c \in Seq(Block), NEW h \in 1..Len(c), NEW reg
    PROVE  TrackerEntry(reg, c, h) \in WindowEntry
<1>1. c[h] \in Block /\ Len(c) \in Nat
  BY SeqElement, SeqIs
<1>2. SealedAlgoOf(c, h) \in Algos \cup {NoAlgo}
  <2>1. CASE c[h].seal = NoSeal \/ h <= SealTrailingDepth
    BY <2>1 DEF SealedAlgoOf
  <2>2. CASE ~(c[h].seal = NoSeal \/ h <= SealTrailingDepth)
    <3>1. h - SealTrailingDepth \in 1..Len(c)
      BY <2>2, <1>1, ParamsAssumption
    <3>2. c[h - SealTrailingDepth] \in Block
      BY <3>1, SeqElement
    <3> QED BY Zenon, <2>2, <3>2 DEF SealedAlgoOf, Block
  <2> QED BY <2>1, <2>2
<1>3. CreditedSeal(reg, c[h].seal, h) \in Seals
  <2> DEFINE s == c[h].seal
             F == FilterSealSigners(reg, s, h)
  <2>1. s \in Seals
    BY Zenon, <1>1 DEF Block
  <2>2. PICK S \in SUBSET Keys : s \in [S -> Signature]
    BY Zenon, <2>1 DEF Seals
  <2>3. NoSeal \in Seals
    <3>1. NoSeal \in [{} -> Signature] BY DEF NoSeal
    <3> QED BY Zenon, <3>1 DEF Seals
  <2>4. Restricted(s, F) \in Seals
    <3>1. F \in SUBSET S
      BY Zenon, <2>2 DEF FilterSealSigners, Signers
    <3> HIDE DEF F
    <3>2. Restricted(s, F) \in [F -> Signature]
      BY <2>2, <3>1 DEF Restricted
    <3> QED BY Zenon, <3>1, <3>2, <2>2 DEF Seals
  <2> QED BY <2>1, <2>3, <2>4 DEF CreditedSeal
<1> QED BY <1>1, <1>2, <1>3 DEF TrackerEntry, Entry, WindowEntry, Block

(* Connecting a block keeps the registry well formed. *)
LEMMA RegistryConnectedType ==
    ASSUME RegistryTypeOK, NEW h \in Nat, NEW miner, NEW explicit,
           RegistryBlockConnected(h, miner, explicit)
    PROVE  RegistryTypeOK'
BY Zenon, ParamsAssumption DEF RegistryTypeOK, RegistryBlockConnected, EvictOld, Committed, NotCommitted

(* Folding a block of the chain keeps both trackers well formed. *)
LEMMA FoldInv ==
    ASSUME TypeOK, RecordsMatchWindow, NEW h \in 1..Len(chain), FoldBlock(chain, h)
    PROVE  TrackerTypeOK' /\ RecordsMatchWindow' /\ RegistryTypeOK'
<1>1. chain \in Seq(Block) /\ h \in Nat
  BY SeqIs DEF TypeOK
<1>2. CASE HMPActive(h) /\ GetHMPStage(h) >= 2
  <2>1. PICK e \in WindowEntry : PrivilegeBlockConnected(e)
    <3>1. TrackerEntry(commitments', chain, h) \in WindowEntry
      BY <1>1, EntryType
    <3> QED BY Zenon, <1>2, <3>1 DEF FoldBlock
  <2>2. TrackerTypeOK' /\ RecordsMatchWindow'
    BY Zenon, <2>1, ConnectedInv DEF TypeOK
  <2>3. RegistryBlockConnected(h, chain[h].miner, chain[h].commits)
    BY Zenon, <1>2 DEF FoldBlock
  <2> QED BY Zenon, <2>2, <2>3, <1>1, RegistryConnectedType DEF TypeOK
<1>3. CASE ~(HMPActive(h) /\ GetHMPStage(h) >= 2)
  <2>1. UNCHANGED <<trackerVars, commitments>>
    BY Zenon, <1>3 DEF FoldBlock
  <2> QED BY ZenonT(60), <2>1 DEF trackerVars, TypeOK, TrackerTypeOK, RegistryTypeOK, RecordsMatchWindow,
                      RebuildFromWindow, FirstSeen, Touched
<1> QED BY <1>2, <1>3

(* Unchanged trackers stay well formed. *)
LEMMA UnchangedTracker ==
    ASSUME TrackerTypeOK, RecordsMatchWindow, UNCHANGED trackerVars
    PROVE  TrackerTypeOK' /\ RecordsMatchWindow'
BY ZenonT(60) DEF trackerVars, TrackerTypeOK, RecordsMatchWindow, RebuildFromWindow, FirstSeen, Touched

-----------------------------------------------------------------------------
(* The base invariant, action by action *)

LEMMA BaseInit == Init => BaseInv
<1> SUFFICES ASSUME Init PROVE BaseInv
  OBVIOUS
<1>1. TrackerTypeOK /\ RecordsMatchWindow
  BY TrackerInitInv DEF Init
<1>2. RegistryTypeOK
  BY DEF Init, RegistryInit, RegistryTypeOK
<1>3. TypeOK
  BY <1>1, <1>2 DEF Init, TypeOK
<1>4. ControlInv
  BY DEF Init, ControlInv, AnchorIsTip
<1> QED BY <1>1, <1>3, <1>4 DEF BaseInv

LEMMA BaseRebuildStep == BaseInv /\ RebuildStep => BaseInv'
<1> SUFFICES ASSUME BaseInv, RebuildStep PROVE BaseInv'
  OBVIOUS
<1>1. Len(chain) \in Nat /\ replay \in 1..Len(chain)
  BY SeqIs, RebuildStartProperties, ParamsAssumption
     DEF BaseInv, TypeOK, ControlInv, RebuildStep
<1>2. TrackerTypeOK' /\ RecordsMatchWindow' /\ RegistryTypeOK'
  BY Zenon, <1>1, FoldInv DEF BaseInv, RebuildStep
<1>3. TypeOK'
  BY <1>2 DEF BaseInv, TypeOK, RebuildStep
<1>4. ControlInv'
  BY <1>1, RebuildStartProperties DEF BaseInv, TypeOK, ControlInv, RebuildStep, AnchorIsTip
<1> QED BY <1>2, <1>3, <1>4 DEF BaseInv

LEMMA BaseRollforward == BaseInv /\ RollforwardBlock => BaseInv'
<1> SUFFICES ASSUME BaseInv, RollforwardBlock PROVE BaseInv'
  OBVIOUS
<1>1. Len(chain) \in Nat /\ replay \in 1..Len(chain)
  BY SeqIs DEF BaseInv, TypeOK, ControlInv, RollforwardBlock
<1>2. TrackerTypeOK' /\ RecordsMatchWindow' /\ RegistryTypeOK'
  BY Zenon, <1>1, FoldInv DEF BaseInv, RollforwardBlock
<1>3. TypeOK'
  BY <1>2 DEF BaseInv, TypeOK, RollforwardBlock
<1>4. ControlInv'
  BY <1>1 DEF BaseInv, TypeOK, ControlInv, RollforwardBlock, AnchorIsTip
<1> QED BY <1>2, <1>3, <1>4 DEF BaseInv

(* Steps that leave both trackers alone. *)
LEMMA BaseQuiet ==
    BaseInv /\ (RebuildReadFails \/ RebuildDone \/ RejectBlock \/ RollforwardReadFails) => BaseInv'
<1> SUFFICES ASSUME BaseInv,
                    RebuildReadFails \/ RebuildDone \/ RejectBlock \/ RollforwardReadFails
             PROVE  BaseInv'
  OBVIOUS
<1> USE DEF BaseInv
<1>1. UNCHANGED trackerVars /\ UNCHANGED commitments /\ UNCHANGED chain
  BY Zenon DEF RebuildReadFails, RebuildDone, RejectBlock, RollforwardReadFails
<1>2. TrackerTypeOK' /\ RecordsMatchWindow' /\ RegistryTypeOK'
  BY Zenon, <1>1, UnchangedTracker DEF TypeOK, RegistryTypeOK
<1>3. Len(chain) \in Nat
  BY SeqIs DEF TypeOK
<1>4. TypeOK'
  BY <1>2 DEF TypeOK, RebuildReadFails, RebuildDone, RejectBlock, RollforwardReadFails
<1>5. ControlInv'
  <2>1. CASE RebuildReadFails
    <3>1. RebuildStart(Len(chain)) \in Nat /\ replay \in Nat /\ replay <= Len(chain)
      BY Zenon, <2>1, <1>3, RebuildStartProperties DEF TypeOK, RebuildReadFails
    <3>2. /\ UNCHANGED <<chain, anchor, pending>> /\ pc = "rebuilding"
          /\ \/ pc' = "halted"
             \/ pc' = "rebuilding" /\ replay' = replay + 1
      BY Zenon, <2>1 DEF RebuildReadFails
    <3> QED BY <3>1, <3>2, <1>3 DEF ControlInv, AnchorIsTip
  <2>2. CASE RebuildDone
    BY Zenon, <2>2, <1>3 DEF TypeOK, ControlInv, RebuildDone, AnchorIsTip
  <2>3. CASE RejectBlock
    BY Zenon, <2>3, <1>3 DEF TypeOK, ControlInv, RejectBlock, AnchorIsTip
  <2>4. CASE RollforwardReadFails
    BY Zenon, <2>4, <1>3 DEF TypeOK, ControlInv, RollforwardReadFails, AnchorIsTip
  <2> QED BY <2>1, <2>2, <2>3, <2>4
<1> QED BY <1>2, <1>4, <1>5

LEMMA BaseConnect ==
    ASSUME BaseInv, NEW b \in Blocks, ConnectBlock(b)
    PROVE  BaseInv'
<1> USE DEF BaseInv
<1>1. UNCHANGED commitments /\ UNCHANGED chain /\ UNCHANGED anchor /\ b \in Block /\ pending' = b
  BY StateAssumption DEF ConnectBlock
<1>2. PrivilegeClear \/ UNCHANGED trackerVars
  BY DEF ConnectBlock, StartRebuild
<1>3. TrackerTypeOK' /\ RecordsMatchWindow' /\ RegistryTypeOK'
  BY Zenon, <1>1, <1>2, UnchangedTracker, ClearedInv DEF TypeOK, RegistryTypeOK
<1>4. Len(chain) \in Nat
  BY SeqIs DEF TypeOK
<1>5. \/ pc' = "connecting" /\ replay' = replay
      \/ pc' = "rebuilding" /\ replay' = RebuildStart(Len(chain)) /\ HMPActive(Len(chain))
  <2>1. CASE NeedsRebuild(Len(chain) + 1)
    BY <2>1, <1>4 DEF NeedsRebuild, ConnectBlock, StartRebuild
  <2>2. CASE ~NeedsRebuild(Len(chain) + 1)
    BY <2>2 DEF ConnectBlock
  <2> QED BY <2>1, <2>2
<1>6. TypeOK'
  BY Zenon, <1>1, <1>3, <1>4, <1>5, RebuildStartProperties DEF TypeOK, ConnectBlock
<1>7. ControlInv'
  <2>1. HMPActive(Len(chain)) => RebuildStart(Len(chain)) \in RebuildStart(Len(chain))..(Len(chain) + 1)
    BY <1>4, RebuildStartProperties
  <2>2. pc = "idle" BY DEF ConnectBlock
  <2> QED BY Zenon, <1>1, <1>5, <2>1, <2>2 DEF ControlInv, AnchorIsTip
<1> QED BY <1>3, <1>6, <1>7

(* The chain once the pending block is on it. *)
LEMMA AppendedChain ==
    ASSUME NEW c \in Seq(Block), NEW b \in Block
    PROVE  /\ Append(c, b) \in Seq(Block)
           /\ Len(c) \in Nat
           /\ Len(Append(c, b)) = Len(c) + 1
           /\ Append(c, b)[Len(c) + 1] = b
           /\ \A h \in 1..Len(c) : Append(c, b)[h] = c[h]
BY AppendIs, SeqIs

(* A prefix of the chain. *)
LEMMA PrefixOfChain ==
    ASSUME NEW c \in Seq(Block), NEW n \in 0..Len(c)
    PROVE  /\ SubSeq(c, 1, n) \in Seq(Block)
           /\ Len(SubSeq(c, 1, n)) = n /\ n \in Nat
           /\ \A h \in 1..n : SubSeq(c, 1, n)[h] = c[h]
<1>1. Len(c) \in Nat /\ \A i \in 1..n : c[i] \in Block
  BY SeqIs, SeqElement
<1>2. n \in Nat BY <1>1
<1>3. SubSeq(c, 1, n) \in Seq(Block) /\ Len(SubSeq(c, 1, n)) = n
  BY <1>1, <1>2, SubSeqIs
<1> QED BY <1>1, <1>2, <1>3, SubSeqIs

(* The deferred mutations keep both trackers well formed. *)
LEMMA MutationsInv ==
    ASSUME TypeOK, RecordsMatchWindow, NEW c \in Seq(Block), NEW h \in 1..Len(c),
           ApplyMutations(c, h)
    PROVE  TrackerTypeOK' /\ RecordsMatchWindow' /\ RegistryTypeOK'
<1>1. CASE HMPActive(h) /\ GetHMPStage(h) >= 2
  <2>1. TrackerEntry(commitments, c, h) \in WindowEntry
    BY EntryType
  <2>2. PICK e \in WindowEntry : PrivilegeBlockConnected(e)
    BY Zenon, <1>1, <2>1 DEF ApplyMutations
  <2>3. RegistryBlockConnected(h, c[h].miner, c[h].commits) /\ h \in Nat
    BY <1>1 DEF ApplyMutations
  <2> QED BY Zenon, <2>2, <2>3, ConnectedInv, RegistryConnectedType DEF TypeOK
<1>2. CASE ~(HMPActive(h) /\ GetHMPStage(h) >= 2)
  <2>1. UNCHANGED trackerVars /\ UNCHANGED commitments
    BY Zenon, <1>2 DEF ApplyMutations
  <2> QED BY Zenon, <2>1, UnchangedTracker DEF TypeOK, RegistryTypeOK
<1> QED BY <1>1, <1>2

LEMMA BaseApply == BaseInv /\ (ApplyDeferred \/ PersistFails) => BaseInv'
<1> SUFFICES ASSUME BaseInv, ApplyDeferred \/ PersistFails PROVE BaseInv'
  OBVIOUS
<1> USE DEF BaseInv
<1> DEFINE c == Append(chain, pending)
           h == Len(chain) + 1
<1>1. /\ chain \in Seq(Block) /\ pending \in Block /\ pc = "connecting"
      /\ HMPValid(pending, h)
  BY Zenon DEF TypeOK, ControlInv, ApplyDeferred, PersistFails
<1>2. /\ c \in Seq(Block) /\ Len(chain) \in Nat /\ Len(c) = h /\ c[h] = pending
      /\ h \in 1..Len(c) /\ \A i \in 1..Len(chain) : c[i] = chain[i]
  BY <1>1, AppendedChain
<1>3. /\ anchor' = c /\ pending' = NoBlock /\ UNCHANGED <<replay, restarts>>
      /\ ApplyMutations(c, h)
      /\ \/ chain' = c /\ pc' = "idle"
         \/ chain' = chain /\ pc' = "halted"
  BY Zenon DEF ApplyDeferred, PersistFails, ApplyMutations
<1> HIDE DEF c, h
<1>4. TrackerTypeOK' /\ RecordsMatchWindow' /\ RegistryTypeOK'
  BY Zenon, <1>2, <1>3, MutationsInv
<1>5. TypeOK'
  BY Zenon, <1>1, <1>2, <1>3, <1>4 DEF TypeOK
<1>6. ControlInv'
  <2>1. \A i \in 1..Len(c) : HMPValid(c[i], i)
    BY <1>1, <1>2 DEF ControlInv, h
  <2> QED BY Zenon, <1>3, <2>1 DEF ControlInv, AnchorIsTip
<1> QED BY <1>4, <1>5, <1>6

LEMMA BaseDisconnect == BaseInv /\ (DisconnectTip \/ DisconnectFlushFails) => BaseInv'
<1> SUFFICES ASSUME BaseInv, DisconnectTip \/ DisconnectFlushFails PROVE BaseInv'
  OBVIOUS
<1> USE DEF BaseInv
<1> DEFINE n == Len(chain)
<1>1. chain \in Seq(Block) /\ n \in Nat /\ n > 0
  BY SeqIs, EmptyIs DEF TypeOK, DisconnectTip, DisconnectFlushFails
<1>2. /\ DisconnectTrackers(n) /\ anchor' = NoAnchor /\ pc = "idle"
      /\ UNCHANGED <<pending, replay, restarts>>
      /\ \/ chain' = SubSeq(chain, 1, n - 1) /\ pc' = "idle"
         \/ chain' = chain /\ pc' = "halted"
  BY Zenon DEF DisconnectTip, DisconnectFlushFails, DisconnectTrackers
<1>3. /\ chain' \in Seq(Block)
      /\ \A h \in 1..Len(chain') : h \in 1..n /\ chain'[h] = chain[h]
  <2>1. n - 1 \in 0..Len(chain) BY <1>1
  <2>2. CASE chain' = chain
    BY <1>1, <2>2
  <2>3. CASE chain' = SubSeq(chain, 1, n - 1)
    <3>1. chain' \in Seq(Block) /\ Len(chain') = n - 1 /\ \A h \in 1..(n - 1) : chain'[h] = chain[h]
      <4> HIDE DEF n
      <4> QED BY Zenon, <1>1, <2>1, <2>3, PrefixOfChain
    <3> QED BY <3>1, <1>1
  <2> QED BY Zenon, <1>2, <2>2, <2>3
<1>4. TrackerTypeOK' /\ RecordsMatchWindow'
  <2>1. PICK h \in Int : PrivilegeBlockDisconnected(h)
    BY <1>1, <1>2 DEF DisconnectTrackers
  <2> QED BY Zenon, <2>1, DisconnectedInv DEF TypeOK
<1>5. RegistryTypeOK'
  BY Zenon, <1>1, <1>2 DEF TypeOK, DisconnectTrackers, RegistryBlockDisconnected, RegistryTypeOK, NotCommitted
<1>6. TypeOK'
  BY Zenon, <1>2, <1>3, <1>4, <1>5 DEF TypeOK
<1>7. ControlInv'
  BY Zenon, <1>1, <1>2, <1>3 DEF ControlInv, AnchorIsTip
<1> QED BY <1>4, <1>6, <1>7

LEMMA BaseRestart ==
    ASSUME BaseInv, NEW n \in 0..Len(chain), NEW j \in 0..n, Restart(n, j)
    PROVE  BaseInv'
<1> USE DEF BaseInv
<1>1. chain \in Seq(Block) /\ n \in Nat /\ j \in Nat /\ Len(chain) \in Nat
  BY SeqIs DEF TypeOK
<1>2. /\ chain' = SubSeq(chain, 1, n) /\ anchor' = NoAnchor /\ pending' = NoBlock
      /\ restarts' = restarts + 1
  BY Zenon DEF Restart
<1>3. chain' \in Seq(Block) /\ Len(chain') = n /\ \A h \in 1..n : chain'[h] = chain[h]
  BY Zenon, <1>1, <1>2, PrefixOfChain
<1>4. TrackerTypeOK' /\ RecordsMatchWindow'
  BY Zenon, ClearedInv DEF Restart
<1>5. RegistryTypeOK'
  BY Zenon DEF Restart, RegistryTypeOK
<1>6. \/ pc' = "rollforward" /\ replay' = j + 1
      \/ pc' = "rebuilding" /\ replay' = RebuildStart(n) /\ HMPActive(n)
      \/ pc' = "idle" /\ replay' = replay
  BY Zenon, <1>2, <1>3 DEF Restart, StartupRebuild
<1>7. RebuildStart(n) \in Nat /\ (HMPActive(n) => RebuildStart(n) <= n)
  BY ONLY Zenon, <1>1, RebuildStartProperties
<1>8. TypeOK'
  BY <1>1, <1>2, <1>3, <1>4, <1>5, <1>6, <1>7 DEF TypeOK
<1>9. ControlInv'
  <2>1. \A h \in 1..n : HMPValid(chain'[h], h)
    BY <1>1, <1>3 DEF ControlInv
  <2>2. HMPActive(n) => RebuildStart(n) \in RebuildStart(n)..(n + 1)
    BY <1>1, <1>7
  <2>3. j + 1 \in 1..(n + 1)
    BY <1>1
  <2> QED BY Zenon, <1>2, <1>3, <1>6, <2>1, <2>2, <2>3 DEF ControlInv, AnchorIsTip
<1> QED BY Zenon, <1>4, <1>8, <1>9

LEMMA BaseRollforwardDone == BaseInv /\ RollforwardDone => BaseInv'
<1> SUFFICES ASSUME BaseInv, RollforwardDone PROVE BaseInv'
  OBVIOUS
<1> USE DEF BaseInv
<1>1. /\ UNCHANGED <<commitments, chain, anchor, pending, restarts>>
      /\ \/ pc' = "rebuilding" /\ replay' = RebuildStart(Len(chain)) /\ HMPActive(Len(chain))
         \/ pc' = "idle" /\ replay' = replay
      /\ PrivilegeClear \/ UNCHANGED trackerVars
  BY Zenon DEF RollforwardDone, StartupRebuild
<1>2. TrackerTypeOK' /\ RecordsMatchWindow' /\ RegistryTypeOK'
  BY Zenon, <1>1, UnchangedTracker, ClearedInv DEF TypeOK, RegistryTypeOK
<1>3. Len(chain) \in Nat
  BY Zenon, SeqIs DEF TypeOK
<1>4. TypeOK'
  BY Zenon, <1>1, <1>2, <1>3, RebuildStartProperties DEF TypeOK
<1>5. ControlInv'
  <2>1. HMPActive(Len(chain)) => RebuildStart(Len(chain)) \in RebuildStart(Len(chain))..(Len(chain) + 1)
    BY <1>3, RebuildStartProperties
  <2> QED BY Zenon, <1>1, <2>1 DEF RollforwardDone, ControlInv, AnchorIsTip
<1> QED BY <1>2, <1>4, <1>5

(* Every step keeps the base invariant. *)
LEMMA BaseStep == BaseInv /\ [Next]_vars => BaseInv'
<1> SUFFICES ASSUME BaseInv, [Next]_vars PROVE BaseInv'
  OBVIOUS
<1>1. ASSUME NEW b \in Blocks, ConnectBlock(b) PROVE BaseInv'
  BY Zenon, <1>1, BaseConnect
<1>2. ASSUME NEW n \in 0..Len(chain), NEW j \in 0..n, Restart(n, j) PROVE BaseInv'
  BY Zenon, <1>2, BaseRestart
<1>3. CASE UNCHANGED vars
  <2>1. UNCHANGED trackerVars /\ UNCHANGED commitments /\ UNCHANGED nodeVars
    BY <1>3 DEF vars
  <2>2. TrackerTypeOK' /\ RecordsMatchWindow'
    BY Zenon, <2>1, UnchangedTracker DEF BaseInv, TypeOK
  <2>3. TypeOK' /\ ControlInv'
    BY Zenon, <2>1, <2>2 DEF BaseInv, TypeOK, RegistryTypeOK, nodeVars, ControlInv, AnchorIsTip
  <2> QED BY Zenon, <2>2, <2>3 DEF BaseInv
<1> QED BY Zenon, <1>1, <1>2, <1>3, BaseApply, BaseDisconnect, BaseRebuildStep, BaseRollforward,
           BaseQuiet, BaseRollforwardDone DEF Next

(* The trackers and the control state have their types on every path of     *)
(* ConnectBlock, DisconnectTip, RebuildHMPState, rollforward and restart.   *)
THEOREM TypeCorrect == Spec => []TypeOK
<1>1. BaseInv => TypeOK
  BY DEF BaseInv
<1> QED BY <1>1, BaseInit, BaseStep, PTL DEF Spec

(* CHMPPrivilegeTracker: the records are the fold of the window, whichever  *)
(* sequence of incremental updates, rebuilds and rollbacks wrote them.      *)
THEOREM RecordsCorrect == Spec => []RecordsMatchWindow
<1>1. BaseInv => RecordsMatchWindow
  BY DEF BaseInv
<1> QED BY <1>1, BaseInit, BaseStep, PTL DEF Spec

(* m_hmp_state_anchor never names a block other than the tip. *)
THEOREM AnchorCorrect == Spec => []AnchorIsTip
<1>1. BaseInv => AnchorIsTip
  BY Zenon DEF BaseInv, ControlInv
<1> QED BY <1>1, BaseInit, BaseStep, PTL DEF Spec

-----------------------------------------------------------------------------
(* The registry and the chain *)

(* One block connected: every commitment is old or the block's own. *)
LEMMA RegistryConnected ==
    ASSUME RegistryTypeOK, NEW h \in Nat, NEW miner, NEW explicit,
           RegistryBlockConnected(h, miner, explicit), NEW k \in Keys
    PROVE  \/ commitments'[k] = NotCommitted
           \/ commitments'[k] = commitments[k]
           \/ commitments'[k] = h /\ k \in explicit \cup {miner}
BY Zenon DEF RegistryTypeOK, RegistryBlockConnected, EvictOld, Committed

LEMMA CommitmentsFold ==
    ASSUME BaseInv, CommitmentsOnChain, pc # "halted", NEW h \in 1..Len(chain),
           FoldBlock(chain, h), UNCHANGED chain
    PROVE  CommitmentsOnChain'
<1>1. RegistryTypeOK /\ Len(chain) \in Nat
  BY Zenon, SeqIs DEF BaseInv, TypeOK
<1>2. CASE HMPActive(h) /\ GetHMPStage(h) >= 2
  <2>1. RegistryBlockConnected(h, chain[h].miner, chain[h].commits)
    BY Zenon, <1>2 DEF FoldBlock
  <2>2. \A k \in Keys : \/ commitments'[k] = NotCommitted
                        \/ commitments'[k] = commitments[k]
                        \/ commitments'[k] = h /\ k \in chain[h].commits \cup {chain[h].miner}
    BY SMTT(60), <1>1, <2>1, RegistryConnected
  <2> QED BY Zenon, <2>2 DEF CommitmentsOnChain
<1>3. CASE ~(HMPActive(h) /\ GetHMPStage(h) >= 2)
  BY Zenon, <1>3 DEF FoldBlock, CommitmentsOnChain
<1> QED BY Zenon, <1>2, <1>3

LEMMA CommitmentsStep == BaseInv /\ CommitmentsOnChain /\ [Next]_vars => CommitmentsOnChain'
<1> SUFFICES ASSUME BaseInv, CommitmentsOnChain, [Next]_vars PROVE CommitmentsOnChain'
  OBVIOUS
<1>0. RegistryTypeOK /\ chain \in Seq(Block) /\ Len(chain) \in Nat
  BY Zenon, SeqIs DEF BaseInv, TypeOK
<1>1. CASE ApplyDeferred
  <2> DEFINE h == Len(chain) + 1
  <2>1. pending \in Block /\ chain' = Append(chain, pending) /\ pc = "connecting"
    BY Zenon, <1>1 DEF BaseInv, ControlInv, ApplyDeferred
  <2>2. /\ Len(chain') = h /\ chain'[h] = pending /\ h \in Nat
        /\ \A i \in 1..Len(chain) : chain'[i] = chain[i]
    BY <1>0, <2>1, AppendedChain
  <2>3. \A k \in Keys : \/ commitments'[k] = NotCommitted
                        \/ commitments'[k] = commitments[k]
                        \/ commitments'[k] = h /\ k \in pending.commits \cup {pending.miner}
    <3>1. CASE RegistryBlockConnected(h, pending.miner, pending.commits)
      BY Zenon, <1>0, <2>2, <3>1, RegistryConnected
    <3>2. CASE UNCHANGED commitments
      BY Zenon, <3>2
    <3>3. Append(chain, pending)[h] = pending
      BY Zenon, <2>1, <2>2
    <3> QED BY Zenon, <1>1, <3>1, <3>2, <3>3 DEF ApplyDeferred, ApplyMutations
  <2>4. ASSUME NEW k \in Keys, commitments'[k] # NotCommitted
        PROVE  /\ commitments'[k] \in 1..Len(chain')
               /\ k \in chain'[commitments'[k]].commits \cup {chain'[commitments'[k]].miner}
    <3>1. CASE commitments'[k] = commitments[k]
      <4>1. /\ commitments[k] \in 1..Len(chain)
            /\ k \in chain[commitments[k]].commits \cup {chain[commitments[k]].miner}
        BY Zenon, <2>1, <2>4, <3>1 DEF CommitmentsOnChain
      <4>2. commitments[k] \in 1..Len(chain') /\ chain'[commitments[k]] = chain[commitments[k]]
        BY <1>0, <2>2, <4>1
      <4> QED BY Zenon, <3>1, <4>1, <4>2
    <3>2. CASE commitments'[k] = h /\ k \in pending.commits \cup {pending.miner}
      <4>1. h \in 1..Len(chain')
        BY <1>0, <2>2
      <4> QED BY Zenon, <2>2, <3>2, <4>1
    <3> QED BY Zenon, <2>3, <2>4, <3>1, <3>2
  <2> QED BY Zenon, <2>4 DEF CommitmentsOnChain
<1>2. CASE DisconnectTip
  <2> DEFINE n == Len(chain)
  <2>1. chain' = SubSeq(chain, 1, n - 1) /\ n > 0 /\ pc = "idle"
    BY <1>2 DEF DisconnectTip
  <2>2. Len(chain') = n - 1 /\ \A h \in 1..(n - 1) : chain'[h] = chain[h]
    <3>1. n - 1 \in 0..Len(chain) BY <1>0, <2>1
    <3> HIDE DEF n
    <3> QED BY Zenon, <1>0, <2>1, <3>1, PrefixOfChain
  <2>3. \A k \in Keys : \/ commitments'[k] = NotCommitted
                        \/ commitments'[k] = commitments[k] /\ commitments[k] < n
    BY <1>0, <1>2 DEF DisconnectTip, DisconnectTrackers, RegistryBlockDisconnected, RegistryTypeOK, NotCommitted
  <2> QED BY <1>0, <2>1, <2>2, <2>3 DEF CommitmentsOnChain
<1>3. CASE RebuildStep \/ RollforwardBlock
  <2>1. replay \in 1..Len(chain) /\ FoldBlock(chain, replay) /\ UNCHANGED chain /\ pc # "halted"
    <3>1. CASE RebuildStep
      <4>1. /\ replay \in RebuildStart(Len(chain))..(Len(chain) + 1) /\ replay <= Len(chain)
            /\ pc = "rebuilding"
        BY Zenon, <3>1 DEF BaseInv, ControlInv, RebuildStep
      <4>2. RebuildStart(Len(chain)) \in Nat /\ HMPHeight <= RebuildStart(Len(chain))
        BY Zenon, <1>0, RebuildStartProperties
      <4> QED BY <1>0, <3>1, <4>1, <4>2, ParamsAssumption DEF RebuildStep
    <3>2. CASE RollforwardBlock
      BY SMTT(60), <1>0, <3>2 DEF BaseInv, ControlInv, RollforwardBlock
    <3> QED BY <1>3, <3>1, <3>2
  <2> QED BY <2>1, CommitmentsFold
<1>4. CASE \E n \in 0..Len(chain) : \E j \in 0..n : Restart(n, j)
  BY Zenon, <1>4 DEF Restart, CommitmentsOnChain
<1>5. CASE pc' = "halted"
  BY Zenon, <1>5 DEF CommitmentsOnChain
<1>6. CASE pc # "halted" /\ UNCHANGED chain /\ UNCHANGED commitments
  BY Zenon, <1>6 DEF CommitmentsOnChain
<1>7. CASE UNCHANGED vars
  BY Zenon, <1>7 DEF vars, nodeVars, CommitmentsOnChain
<1> QED BY Zenon, <1>1, <1>2, <1>3, <1>4, <1>5, <1>6, <1>7
        DEF Next, PersistFails, DisconnectFlushFails, ConnectBlock, RejectBlock,
            RebuildReadFails, RebuildDone, RollforwardReadFails, RollforwardDone

(* CHMPCommitmentRegistry vouches only for keys the active chain committed. *)
THEOREM CommitmentsCorrect == Spec => []CommitmentsOnChain
<1>1. Init => CommitmentsOnChain
  BY Zenon DEF Init, RegistryInit, CommitmentsOnChain
<1> QED BY <1>1, BaseInit, BaseStep, CommitmentsStep, PTL DEF Spec

(* How far back the registry reaches.  Stage 2 opens commitments; what is   *)
(* connected or replayed at a height forgets what is older than the replay  *)
(* of RebuildHMPState reaches from there.                                   *)
Reached == IF pc = "rollforward" THEN replay - 1 ELSE Len(chain)

RecentAt(reg, n) ==
    \A k \in Keys : reg[k] # NotCommitted => Stage2Height <= reg[k] /\ n <= reg[k] + MaxLookback

RegistryRecent == pc # "halted" => RecentAt(commitments, Reached)

LEMMA Stages == \A h \in Int : GetHMPStage(h) >= 2 <=> h >= Stage2Height
BY SMTT(60), ParamsAssumption DEF GetHMPStage

LEMMA EvictionCovered == EvictionWindow \in Nat /\ EvictionWindow <= MaxLookback
<1> DEFINE a == ExtendedWindow + PrivilegeWindow
           b == PrivilegeWindow + WarmupBlocks
           d == 2 * CommitmentOffset
           S == {a, b, SealLongWindow, d}
<1>1. a \in Nat /\ b \in Nat /\ SealLongWindow \in Nat /\ d \in Nat
  BY ParamsAssumption
<1>2. MaxLookback = Maximum(S) /\ EvictionWindow = a
  BY Zenon DEF MaxLookback, EvictionWindow
<1> HIDE DEF a, b, d
<1>3. \E x \in S : \A y \in S : y <= x
  BY <1>1
<1>4. \A y \in S : y <= Maximum(S)
  <2> HIDE DEF S
  <2> QED BY Zenon, <1>3 DEF Maximum
<1> QED BY Zenon, <1>1, <1>2, <1>4

(* A block connected at h leaves only what the replay from h would see. *)
LEMMA ConnectedRecent ==
    ASSUME RegistryTypeOK, NEW h \in Nat, Stage2Height <= h, NEW miner, NEW explicit,
           RegistryBlockConnected(h, miner, explicit),
           \A k \in Keys : commitments[k] # NotCommitted => Stage2Height <= commitments[k]
    PROVE  RecentAt(commitments', h)
<1>1. SUFFICES ASSUME NEW k \in Keys, commitments'[k] # NotCommitted
               PROVE  Stage2Height <= commitments'[k] /\ h <= commitments'[k] + MaxLookback
  BY Zenon DEF RecentAt
<1>2. /\ commitments'[k] \in Nat
      /\ ~(h > EvictionWindow /\ commitments'[k] < h - EvictionWindow)
  <2> DEFINE c == IF commitments[k] = NotCommitted /\ k \in explicit \cup {miner} THEN h ELSE commitments[k]
  <2>1. commitments'[k] = IF h > EvictionWindow /\ c < h - EvictionWindow THEN NotCommitted ELSE c
    BY Zenon DEF RegistryBlockConnected, EvictOld, Committed
  <2>2. c \in Nat \cup {NotCommitted}
    BY Zenon DEF RegistryTypeOK
  <2> HIDE DEF c
  <2> QED BY Zenon, <1>1, <2>1, <2>2
<1>3. h <= commitments'[k] + MaxLookback
  BY <1>2, EvictionCovered, LookbackCovers
<1>4. commitments'[k] = commitments[k] \/ commitments'[k] = h
  BY Zenon, <1>1, RegistryConnected
<1> QED BY Zenon, <1>1, <1>3, <1>4

(* A block below stage 2 comes before every commitment. *)
LEMMA UnstagedRecent ==
    ASSUME RegistryTypeOK, NEW h \in Nat, ~(HMPActive(h) /\ GetHMPStage(h) >= 2),
           \A k \in Keys : commitments[k] # NotCommitted => Stage2Height <= commitments[k]
    PROVE  RecentAt(commitments, h)
<1>1. h < Stage2Height
  BY SMTT(60), Stages, ParamsAssumption DEF HMPActive
<1>2. ASSUME NEW k \in Keys, commitments[k] # NotCommitted
      PROVE  Stage2Height <= commitments[k] /\ h <= commitments[k] + MaxLookback
  <2>1. commitments[k] \in Nat /\ Stage2Height <= commitments[k]
    BY Zenon, <1>2 DEF RegistryTypeOK
  <2> QED BY <1>1, <2>1, LookbackCovers, ParamsAssumption
<1> QED BY Zenon, <1>2 DEF RecentAt

LEMMA FoldRecent ==
    ASSUME RegistryTypeOK, NEW c, NEW h \in Nat, FoldBlock(c, h),
           \A k \in Keys : commitments[k] # NotCommitted => Stage2Height <= commitments[k]
    PROVE  RecentAt(commitments', h)
<1>1. CASE HMPActive(h) /\ GetHMPStage(h) >= 2
  <2>1. Stage2Height <= h /\ RegistryBlockConnected(h, c[h].miner, c[h].commits)
    <3>1. RegistryBlockConnected(h, c[h].miner, c[h].commits)
      BY Zenon, <1>1 DEF FoldBlock
    <3>2. Stage2Height <= h
      BY SMTT(60), <1>1, Stages, ParamsAssumption
    <3> QED BY Zenon, <3>1, <3>2
  <2> QED BY Zenon, <2>1, ConnectedRecent
<1>2. CASE ~(HMPActive(h) /\ GetHMPStage(h) >= 2)
  <2>1. commitments' = commitments
    BY Zenon, <1>2 DEF FoldBlock
  <2> QED BY Zenon, <1>2, <2>1, UnstagedRecent
<1> QED BY Zenon, <1>1, <1>2

LEMMA RecentStep == BaseInv /\ RegistryRecent /\ [Next]_vars => RegistryRecent'
<1> SUFFICES ASSUME BaseInv, RegistryRecent, [Next]_vars, pc' # "halted"
             PROVE  RecentAt(commitments', Reached')
  BY Zenon DEF RegistryRecent, RecentAt
<1>0. /\ RegistryTypeOK /\ chain \in Seq(Block) /\ Len(chain) \in Nat /\ replay \in Nat
      /\ MaxLookback \in Nat /\ Stage2Height \in Nat
  BY Zenon, SeqIs, LookbackCovers, ParamsAssumption DEF BaseInv, TypeOK
<1>a. ASSUME pc # "halted"
      PROVE  \A k \in Keys : commitments[k] # NotCommitted => Stage2Height <= commitments[k]
  BY Zenon, <1>a DEF RegistryRecent, RecentAt
<1>1. CASE ApplyDeferred
  <2> DEFINE h == Len(chain) + 1
             c == Append(chain, pending)
  <2>1. /\ pending \in Block /\ chain' = c /\ pc = "connecting" /\ pc' = "idle"
        /\ ApplyMutations(c, h)
    BY Zenon, <1>1 DEF BaseInv, ControlInv, ApplyDeferred
  <2>2. Reached' = h /\ h \in Nat
    BY <1>0, <2>1, AppendedChain DEF Reached
  <2> HIDE DEF h, c
  <2>3. \A k \in Keys : commitments[k] # NotCommitted => Stage2Height <= commitments[k]
    BY Zenon, <1>a, <2>1
  <2>4. CASE HMPActive(h) /\ GetHMPStage(h) >= 2
    <3>1. RegistryBlockConnected(h, c[h].miner, c[h].commits)
      BY Zenon, <2>1, <2>4 DEF ApplyMutations
    <3>2. Stage2Height <= h
      BY SMTT(60), <1>0, <2>2, <2>4, Stages
    <3> QED BY Zenon, <1>0, <2>2, <2>3, <3>1, <3>2, ConnectedRecent
  <2>5. CASE ~(HMPActive(h) /\ GetHMPStage(h) >= 2)
    <3>1. commitments' = commitments
      BY Zenon, <2>1, <2>5 DEF ApplyMutations
    <3> QED BY Zenon, <1>0, <2>2, <2>3, <2>5, <3>1, UnstagedRecent
  <2> QED BY Zenon, <2>4, <2>5
<1>2. CASE DisconnectTip
  <2>1. /\ chain' = SubSeq(chain, 1, Len(chain) - 1) /\ Len(chain) > 0 /\ pc = "idle" /\ pc' = "idle"
        /\ \A k \in Keys : commitments'[k] = NotCommitted \/ commitments'[k] = commitments[k]
    BY Zenon, <1>0, <1>2 DEF DisconnectTip, DisconnectTrackers, RegistryBlockDisconnected, RegistryTypeOK
  <2>2. Len(chain) - 1 \in 0..Len(chain)
    BY <1>0, <2>1
  <2>3. Reached = Len(chain) /\ Reached' = Len(chain) - 1
    BY Zenon, <1>0, <2>1, <2>2, PrefixOfChain DEF Reached
  <2>4. ASSUME NEW k \in Keys, commitments'[k] # NotCommitted
        PROVE  Stage2Height <= commitments'[k] /\ Reached' <= commitments'[k] + MaxLookback
    <3>1. /\ commitments'[k] = commitments[k] /\ commitments[k] \in Nat
          /\ Stage2Height <= commitments[k] /\ Reached <= commitments[k] + MaxLookback
      BY Zenon, <1>0, <2>1, <2>4 DEF RegistryRecent, RecentAt, RegistryTypeOK
    <3> QED BY <1>0, <2>3, <3>1
  <2> QED BY Zenon, <2>4 DEF RecentAt
<1>3. CASE RebuildStep
  <2>1. /\ pc = "rebuilding" /\ pc' = "rebuilding" /\ FoldBlock(chain, replay) /\ UNCHANGED chain
        /\ replay \in RebuildStart(Len(chain))..(Len(chain) + 1)
    BY Zenon, <1>3 DEF BaseInv, ControlInv, RebuildStep
  <2>2. Reached = Len(chain) /\ Reached' = Len(chain)
    BY Zenon, <2>1 DEF Reached
  <2>3. Len(chain) <= replay + MaxLookback
    <3>1. /\ RebuildStart(Len(chain)) = IF Len(chain) - MaxLookback > HMPHeight
                                        THEN Len(chain) - MaxLookback ELSE HMPHeight
          /\ HMPHeight \in Nat
      BY Zenon, ParamsAssumption DEF RebuildStart
    <3> QED BY <1>0, <2>1, <3>1
  <2>4. RecentAt(commitments', replay)
    BY Zenon, <1>0, <1>a, <2>1, FoldRecent
  <2>5. ASSUME NEW k \in Keys, commitments'[k] # NotCommitted
        PROVE  Stage2Height <= commitments'[k] /\ Reached' <= commitments'[k] + MaxLookback
    <3>1. Stage2Height <= commitments'[k]
      BY Zenon, <2>4, <2>5 DEF RecentAt
    <3>2. commitments'[k] = commitments[k] \/ commitments'[k] = replay
      <4>1. CASE HMPActive(replay) /\ GetHMPStage(replay) >= 2
        <5>1. RegistryBlockConnected(replay, chain[replay].miner, chain[replay].commits)
          BY Zenon, <2>1, <4>1 DEF FoldBlock
        <5> QED BY Zenon, <1>0, <2>5, <5>1, RegistryConnected
      <4>2. CASE ~(HMPActive(replay) /\ GetHMPStage(replay) >= 2)
        BY Zenon, <2>1, <4>2 DEF FoldBlock
      <4> QED BY Zenon, <4>1, <4>2
    <3>3. commitments'[k] = commitments[k] => Reached <= commitments[k] + MaxLookback
      BY Zenon, <2>1, <2>5 DEF RegistryRecent, RecentAt
    <3> QED BY Zenon, <2>2, <2>3, <3>1, <3>2, <3>3
  <2> QED BY Zenon, <2>5 DEF RecentAt
<1>4. CASE RollforwardBlock
  <2>1. pc = "rollforward" /\ pc' = "rollforward" /\ FoldBlock(chain, replay) /\ replay' = replay + 1
    BY Zenon, <1>4 DEF RollforwardBlock
  <2>2. Reached' = replay
    BY <1>0, <2>1 DEF Reached
  <2> QED BY Zenon, <1>0, <1>a, <2>1, <2>2, FoldRecent
<1>5. CASE RollforwardDone
  <2>1. /\ pc = "rollforward" /\ pc' # "rollforward" /\ replay > Len(chain) /\ UNCHANGED <<chain, commitments>>
        /\ replay \in 1..(Len(chain) + 1)
    BY Zenon, <1>5 DEF RollforwardDone, StartupRebuild, BaseInv, ControlInv
  <2>2. replay - 1 = Len(chain)
    BY <1>0, <2>1
  <2>3. Reached' = Reached
    BY Zenon, <2>1, <2>2 DEF Reached
  <2> QED BY Zenon, <2>1, <2>3 DEF RegistryRecent
<1>6. CASE \E n \in 0..Len(chain) : \E j \in 0..n : Restart(n, j)
  BY Zenon, <1>6 DEF Restart, RecentAt
<1>7. CASE /\ pc # "halted" /\ pc # "rollforward" /\ pc' # "rollforward"
           /\ UNCHANGED chain /\ UNCHANGED commitments
  BY Zenon, <1>7 DEF RegistryRecent, Reached
<1>8. CASE UNCHANGED vars
  BY Zenon, <1>8 DEF vars, nodeVars, RegistryRecent, Reached
<1> QED BY Zenon, <1>1, <1>2, <1>3, <1>4, <1>5, <1>6, <1>7, <1>8
        DEF Next, PersistFails, DisconnectFlushFails, ConnectBlock, StartRebuild, RejectBlock,
            RebuildReadFails, RebuildDone, RollforwardReadFails

LEMMA SealedHeight ==
    ASSUME NEW h \in Nat
    PROVE  (IF h < SealTrailingDepth THEN 0 ELSE h - SealTrailingDepth) \in Nat
BY ParamsAssumption

(* What the running registry holds, the replay of a restart finds, at the   *)
(* same height or an earlier one.                                           *)
LEMMA ColdEarlier ==
    ASSUME BaseInv, CommitmentsOnChain, RegistryRecent, pc = "connecting",
           NEW k \in Keys, commitments[k] # NotCommitted
    PROVE  /\ ColdRegistry[k] \in Nat /\ ColdRegistry[k] <= commitments[k]
           /\ ColdRegistry[k] # NotCommitted /\ commitments[k] \in Nat
<1> DEFINE n == Len(chain)
           c == commitments[k]
           seen == {h \in RebuildStart(n)..n : /\ GetHMPStage(h) >= 2
                                               /\ k \in chain[h].commits \cup {chain[h].miner}}
<1>1. /\ n \in Nat /\ c \in 1..n /\ k \in chain[c].commits \cup {chain[c].miner}
      /\ Stage2Height <= c /\ n <= c + MaxLookback
  BY Zenon, SeqIs DEF BaseInv, TypeOK, CommitmentsOnChain, RegistryRecent, RecentAt, Reached
<1>2. ColdRegistry[k] = IF seen = {} THEN NotCommitted
                        ELSE CHOOSE h \in seen : \A g \in seen : h <= g
  BY Zenon DEF ColdRegistry
<1>3. c \in seen
  <2>1. /\ RebuildStart(n) = IF n - MaxLookback > HMPHeight THEN n - MaxLookback ELSE HMPHeight
        /\ HMPHeight \in Nat /\ HMPHeight <= Stage2Height /\ Stage2Height \in Nat /\ MaxLookback \in Nat
    BY Zenon, ParamsAssumption, LookbackCovers DEF RebuildStart
  <2>2. c \in RebuildStart(n)..n /\ c \in Int /\ c >= Stage2Height
    <3> HIDE DEF n, c
    <3> QED BY <1>1, <2>1
  <2>3. GetHMPStage(c) >= 2
    BY Zenon, <2>2, Stages
  <2> QED BY Zenon, <1>1, <2>2, <2>3
<1>4. seen \in SUBSET Nat
  <2>1. RebuildStart(n) \in Nat
    BY Zenon, <1>1, RebuildStartProperties
  <2>2. \A h \in RebuildStart(n)..n : h \in Nat
    <3> HIDE DEF n
    <3> QED BY <1>1, <2>1
  <2> QED BY Zenon, <2>2
<1>5. ColdRegistry[k] \in seen /\ ColdRegistry[k] <= c
  <2> HIDE DEF seen, c
  <2>1. \E h \in seen : \A g \in seen : h <= g
    BY Zenon, <1>3, <1>4, LeastNatural
  <2>2. ColdRegistry[k] = CHOOSE h \in seen : \A g \in seen : h <= g
    BY Zenon, <1>2, <1>3
  <2> QED BY Zenon, <1>3, <2>1, <2>2
<1>6. ColdRegistry[k] \in Nat /\ c \in Nat
  BY Zenon, <1>3, <1>4, <1>5
<1>7. \A h \in Nat : h # NotCommitted
  BY DEF NotCommitted
<1> QED BY Zenon, <1>5, <1>6, <1>7

(* A restart takes no signer away: each one the running node counts for a   *)
(* block from DetHeight on is counted by a node that was restarted at the   *)
(* parent.  The converse, that both count the same, fails (hmp_filter).     *)
THEOREM RestartCorrect == Spec => []RestartKeepsSigners
<1>1. Init => RegistryRecent
  BY Zenon DEF Init, RegistryInit, RegistryRecent, RecentAt
<1>2. BaseInv /\ CommitmentsOnChain /\ RegistryRecent => RestartKeepsSigners
  <2> DEFINE h == Len(chain) + 1
             sealed == IF h < SealTrailingDepth THEN 0 ELSE h - SealTrailingDepth
  <2>1. SUFFICES ASSUME BaseInv, CommitmentsOnChain, RegistryRecent, pc = "connecting",
                        NEW k \in FilterSealSigners(commitments, pending.seal, h)
                 PROVE  k \in FilterSealSigners(ColdRegistry, pending.seal, h)
    BY Zenon DEF RestartKeepsSigners
  <2>2. k \in Keys
    <3>1. pending.seal \in Seals /\ k \in DOMAIN pending.seal
      BY Zenon, <2>1 DEF BaseInv, ControlInv, Block, FilterSealSigners, Signers
    <3> QED BY Zenon, <3>1 DEF Seals
  <2>3. IsCommitted(commitments, k, sealed)
    BY Zenon, <2>1 DEF FilterSealSigners
  <2>4. IsCommitted(ColdRegistry, k, sealed)
    <3>1. CASE CommitmentOffset = 0
      BY Zenon, <3>1 DEF IsCommitted
    <3>2. CASE CommitmentOffset # 0
      <4>1. commitments[k] # NotCommitted /\ sealed - commitments[k] >= CommitmentOffset
        BY Zenon, <2>3, <3>2 DEF IsCommitted
      <4>2. /\ ColdRegistry[k] \in Nat /\ ColdRegistry[k] <= commitments[k]
            /\ ColdRegistry[k] # NotCommitted /\ commitments[k] \in Nat
        BY Zenon, <2>1, <2>2, <4>1, ColdEarlier
      <4>3. sealed \in Nat /\ CommitmentOffset \in Nat
        <5>1. Len(chain) \in Nat /\ CommitmentOffset \in Nat
          BY Zenon, <2>1, SeqIs, ParamsAssumption DEF BaseInv, TypeOK
        <5>2. Len(chain) + 1 \in Nat
          BY <5>1
        <5> QED BY Zenon, <5>1, <5>2, SealedHeight
      <4>4. sealed - ColdRegistry[k] >= CommitmentOffset
        <5> HIDE DEF sealed
        <5> QED BY <4>1, <4>2, <4>3
      <4> QED BY Zenon, <4>2, <4>4 DEF IsCommitted
    <3> QED BY Zenon, <3>1, <3>2
  <2> QED BY Zenon, <2>1, <2>4 DEF FilterSealSigners
<1> QED BY <1>1, <1>2, BaseInit, BaseStep, RecentStep, CommitmentsCorrect, PTL DEF Spec

-----------------------------------------------------------------------------
(* The windows and the chain *)

(* Windows that agree with the chain up to n agree up to n + 1 once the     *)
(* entry of that block has been pushed.                                     *)
LEMMA PushAgree ==
    ASSUME TrackerTypeOK, NEW lo \in Nat, NEW n \in Nat, WindowsAgree(lo, n),
           NEW e \in WindowEntry, e.miner # NoKey, PrivilegeBlockConnected(e),
           RawEntry(n + 1)' = e,
           \A h \in lo..n : RawEntry(h)' = RawEntry(h)
    PROVE  WindowsAgree(lo, n + 1)'
<1>1. LongPart(e) \in LongEntry /\ ExtendedPart(e) \in ExtendedEntry
  BY Zenon DEF LongPart, ExtendedPart, LongEntry, ExtendedEntry, WindowEntry
<1>2. /\ Pushed(WindowEntry, window, e, PrivilegeWindow, window')
      /\ Pushed(LongEntry, sealLong, LongPart(e), SealLongWindow, sealLong')
      /\ Pushed(ExtendedEntry, extended, ExtendedPart(e), ExtendedWindow, extended')
  BY Zenon, <1>1, ParamsAssumption DEF PrivilegeBlockConnected, TrackerTypeOK, Pushed
<1>3. (n + 1) - (n + 1) = 0
  OBVIOUS
<1>4. ASSUME NEW h \in lo..(n + 1), h # n + 1
      PROVE  h \in lo..n /\ n - h \in Nat /\ (n + 1) - h = (n - h) + 1
  BY <1>4
<1>5. ASSUME NEW h \in lo..(n + 1), (n + 1) - h < PrivilegeWindow
      PROVE  (n + 1) - h < Len(window') /\ At(window', (n + 1) - h) = RawEntry(h)'
  <2>1. CASE h = n + 1
    <3>1. 0 < Len(window') /\ At(window', 0) = e
      BY <1>2, PushNewest
    <3> QED BY Zenon, <2>1, <3>1, <1>3
  <2>2. CASE h # n + 1
    <3>1. h \in lo..n /\ n - h \in Nat /\ (n + 1) - h = (n - h) + 1
      BY Zenon, <2>2, <1>4
    <3>2. PICK d \in Nat : d = n - h
      BY Zenon, <3>1
    <3>3. d < Len(window) /\ At(window, d) = RawEntry(h) /\ d + 1 < PrivilegeWindow
      BY <1>5, <3>1, <3>2, ParamsAssumption DEF WindowsAgree, At
    <3>4. d + 1 < Len(window') /\ At(window', d + 1) = At(window, d)
      BY <1>2, <3>3, PushMoves
    <3> QED BY Zenon, <3>1, <3>2, <3>3, <3>4
  <2> QED BY Zenon, <2>1, <2>2
<1>6. ASSUME NEW h \in lo..(n + 1), (n + 1) - h < SealLongWindow
      PROVE  (n + 1) - h < Len(sealLong') /\ At(sealLong', (n + 1) - h) = LongPart(RawEntry(h)')
  <2>1. CASE h = n + 1
    <3>1. 0 < Len(sealLong') /\ At(sealLong', 0) = LongPart(e)
      BY <1>2, PushNewest
    <3> QED BY Zenon, <2>1, <3>1, <1>3
  <2>2. CASE h # n + 1
    <3>1. h \in lo..n /\ n - h \in Nat /\ (n + 1) - h = (n - h) + 1
      BY <2>2, <1>4
    <3>2. PICK d \in Nat : d = n - h
      BY <3>1
    <3>3. d < Len(sealLong) /\ At(sealLong, d) = LongPart(RawEntry(h)) /\ d + 1 < SealLongWindow
      BY <1>6, <3>1, <3>2, ParamsAssumption DEF WindowsAgree, At
    <3>4. d + 1 < Len(sealLong') /\ At(sealLong', d + 1) = At(sealLong, d)
      BY SMTT(60), <1>2, <3>3, PushMoves
    <3> QED BY Zenon, <3>1, <3>2, <3>3, <3>4
  <2> QED BY Zenon, <2>1, <2>2
<1>7. ASSUME NEW h \in lo..(n + 1), (n + 1) - h < ExtendedWindow
      PROVE  (n + 1) - h < Len(extended') /\ At(extended', (n + 1) - h) = ExtendedPart(RawEntry(h)')
  <2>1. CASE h = n + 1
    <3>1. 0 < Len(extended') /\ At(extended', 0) = ExtendedPart(e)
      BY SMTT(60), <1>2, PushNewest
    <3> QED BY <2>1, <3>1, <1>3
  <2>2. CASE h # n + 1
    <3>1. h \in lo..n /\ n - h \in Nat /\ (n + 1) - h = (n - h) + 1
      BY <2>2, <1>4
    <3>2. PICK d \in Nat : d = n - h
      BY <3>1
    <3>3. d < Len(extended) /\ At(extended, d) = ExtendedPart(RawEntry(h)) /\ d + 1 < ExtendedWindow
      BY <1>7, <3>1, <3>2, ParamsAssumption DEF WindowsAgree, At
    <3>4. d + 1 < Len(extended') /\ At(extended', d + 1) = At(extended, d)
      BY <1>2, <3>3, PushMoves
    <3> QED BY <3>1, <3>2, <3>3, <3>4
  <2> QED BY <2>1, <2>2
<1> QED BY Zenon, <1>5, <1>6, <1>7 DEF WindowsAgree, At

(* From DetHeight on a block is credited with exactly what it carries. *)
LEMMA TrackedIsRaw ==
    ASSUME DetHeight > 0, NEW h \in Nat, DetHeight <= h, NEW c, NEW reg
    PROVE  /\ GetHMPStage(h) >= 3 /\ HMPActive(h)
           /\ TrackerEntry(reg, c, h)
                 = Entry(h, c[h].algo, c[h].miner, c[h].seal, SealedAlgoOf(c, h))
<1>1. GetHMPStage(h) >= 3 /\ HMPActive(h)
  BY ParamsAssumption DEF GetHMPStage, HMPActive
<1>2. GetHMPStage(h) \in Nat
  BY ParamsAssumption DEF GetHMPStage
<1>3. IsDeterministicSealActive(h)
  BY DEF IsDeterministicSealActive
<1>4. CreditedSeal(reg, c[h].seal, h) = c[h].seal
  BY <1>1, <1>2, <1>3 DEF CreditedSeal
<1> QED BY <1>1, <1>2, <1>4 DEF TrackerEntry

(* What the chain says of height h depends on the blocks up to h only. *)
LEMMA SealedAlgoPrefix ==
    ASSUME NEW c, NEW d, NEW h \in Nat \ {0}, \A i \in 1..h : c[i] = d[i]
    PROVE  SealedAlgoOf(c, h) = SealedAlgoOf(d, h)
<1>1. h \in 1..h OBVIOUS
<1>2. h <= SealTrailingDepth \/ h - SealTrailingDepth \in 1..h
  BY ParamsAssumption
<1> QED BY Zenon, <1>1, <1>2 DEF SealedAlgoOf

(* A replayed block. *)
LEMMA AgreeRebuildStep == BaseInv /\ AgreeInv /\ RebuildStep => AgreeInv'
<1> SUFFICES ASSUME BaseInv, AgreeInv, RebuildStep, DetHeight > 0 PROVE AgreeInv'
  BY Zenon DEF AgreeInv
<1>1. Len(chain) \in Nat /\ replay \in 1..Len(chain) /\ RebuildStart(Len(chain)) \in Nat
  BY SeqIs, RebuildStartProperties, ParamsAssumption
     DEF BaseInv, TypeOK, ControlInv, RebuildStep
<1>2. /\ pc = "rebuilding" /\ pc' = "rebuilding" /\ replay' = replay + 1
      /\ UNCHANGED <<chain, anchor, pending>> /\ FoldBlock(chain, replay)
  BY Zenon DEF RebuildStep
<1>3. RebuildFrom' = RebuildFrom /\ RebuildFrom \in Nat /\ DetHeight <= RebuildFrom
  BY <1>1, <1>2, ParamsAssumption DEF RebuildFrom
<1>4. PICK lo \in Nat : lo = RebuildFrom
  BY <1>3
<1>5. PICK n \in Nat : n + 1 = replay
  <2>1. replay - 1 \in Nat /\ (replay - 1) + 1 = replay BY <1>1
  <2> QED BY <2>1
<1>6. WindowsAgree(lo, n)
  <2>1. n = replay - 1 BY <1>5, <1>1
  <2> QED BY Zenon, <1>2, <1>4, <2>1 DEF AgreeInv
<1>7. WindowsAgree(lo, n + 1)'
  <2>1. CASE n + 1 < lo
    BY <2>1 DEF WindowsAgree
  <2>2. CASE lo <= n + 1
    <3>1. DetHeight <= replay /\ replay \in Nat
      BY <2>2, <1>1, <1>3, <1>4, <1>5, ParamsAssumption
    <3>2. /\ GetHMPStage(replay) >= 3 /\ HMPActive(replay)
          /\ TrackerEntry(commitments', chain, replay) = RawEntry(replay)
      BY Zenon, <3>1, TrackedIsRaw DEF RawEntry
    <3>3. TrackerEntry(commitments', chain, replay) \in WindowEntry
      BY Zenon, <1>1, EntryType DEF BaseInv, TypeOK
    <3>4. GetHMPStage(replay) >= 2
      BY <3>1, ParamsAssumption DEF GetHMPStage
    <3>5. PICK e \in WindowEntry : e = RawEntry(replay) /\ PrivilegeBlockConnected(e)
      BY Zenon, <1>2, <3>2, <3>3, <3>4 DEF FoldBlock
    <3>6. e.miner # NoKey
      <4>1. HMPValid(chain[replay], replay)
        BY Zenon, <1>1 DEF BaseInv, ControlInv
      <4> QED BY Zenon, <4>1, <3>2, <3>5 DEF HMPValid, RawEntry, Entry
    <3>7. \A h : RawEntry(h)' = RawEntry(h)
      BY Zenon, <1>2 DEF RawEntry, SealedAlgoOf
    <3>8. RawEntry(n + 1)' = e
      BY Zenon, <1>5, <3>5, <3>7
    <3>9. TrackerTypeOK BY Zenon DEF BaseInv, TypeOK
    <3> QED BY Zenon, <1>6, <3>5, <3>6, <3>7, <3>8, <3>9, PushAgree
  <2> QED BY <2>1, <2>2
<1>8. RebuildFrom' = lo /\ replay' - 1 = n + 1
  BY SMTT(60), <1>1, <1>2, <1>3, <1>4, <1>5
<1>9. WindowsAgree(RebuildFrom, replay - 1)'
  BY Zenon, <1>7, <1>8 DEF WindowsAgree
<1> QED BY Zenon, <1>2, <1>9 DEF AgreeInv

(* The connected block. *)
LEMMA AgreeApply == BaseInv /\ AgreeInv /\ ApplyDeferred => AgreeInv'
<1> SUFFICES ASSUME BaseInv, AgreeInv, ApplyDeferred, DetHeight > 0 PROVE AgreeInv'
  BY DEF AgreeInv
<1> DEFINE c == Append(chain, pending)
<1>1. /\ chain \in Seq(Block) /\ pending \in Block /\ pc = "connecting"
      /\ HMPValid(pending, Len(chain) + 1)
      /\ chain' = c /\ pc' = "idle"
  BY Zenon DEF BaseInv, TypeOK, ControlInv, ApplyDeferred, ApplyMutations
<1>2. PICK n \in Nat : n = Len(chain)
  BY Zenon, <1>1, SeqIs
<1>3. /\ c \in Seq(Block) /\ Len(c) = n + 1 /\ c[n + 1] = pending
      /\ \A i \in 1..n : c[i] = chain[i]
  BY Zenon, <1>1, <1>2, AppendedChain
<1>4. WindowsAgree(DetHeight, n + 1)'
  <2>1. CASE n + 1 < DetHeight
    BY <2>1, ParamsAssumption DEF WindowsAgree
  <2>2. CASE DetHeight <= n + 1
    <3>1. WindowsAgree(DetHeight, n)
      <4>1. CASE DetHeight <= n
        BY Zenon, <4>1, <1>1, <1>2 DEF AgreeInv
      <4>2. CASE n < DetHeight
        BY <4>2, ParamsAssumption DEF WindowsAgree
      <4> QED BY <4>1, <4>2, ParamsAssumption
    <3>2. /\ GetHMPStage(n + 1) >= 3 /\ HMPActive(n + 1)
          /\ TrackerEntry(commitments, c, n + 1) = RawEntry(n + 1)'
      <4> HIDE DEF c
      <4>0. PICK h \in Nat : h = n + 1
        OBVIOUS
      <4>1. /\ GetHMPStage(h) >= 3 /\ HMPActive(h)
            /\ TrackerEntry(commitments, c, h)
                 = Entry(h, c[h].algo, c[h].miner, c[h].seal, SealedAlgoOf(c, h))
        <5>1. DetHeight <= h BY <2>2, <4>0
        <5> QED BY Zenon, <5>1, TrackedIsRaw
      <4> QED BY Zenon, <4>0, <4>1, <1>1 DEF RawEntry, SealedAlgoOf
    <3>3. TrackerEntry(commitments, c, n + 1) \in WindowEntry
      <4>1. n + 1 \in 1..Len(c) BY <1>3
      <4> HIDE DEF c
      <4> QED BY Zenon, <1>3, <4>1, EntryType
    <3>4. GetHMPStage(n + 1) >= 2
      BY <2>2, ParamsAssumption DEF GetHMPStage
    <3>5. PICK e \in WindowEntry : e = RawEntry(n + 1)' /\ PrivilegeBlockConnected(e)
      BY Zenon, <1>2, <3>2, <3>3, <3>4 DEF ApplyDeferred, ApplyMutations
    <3>6. e.miner # NoKey
      <4> HIDE DEF c
      <4>1. e.miner = pending.miner
        BY ZenonT(60), <1>1, <1>3, <3>5 DEF RawEntry, Entry
      <4> QED BY Zenon, <4>1, <1>1, <1>2, <3>2 DEF HMPValid
    <3>7. \A h \in DetHeight..n : RawEntry(h)' = RawEntry(h)
      <4> HIDE DEF c
      <4> TAKE h \in DetHeight..n
      <4>0. h \in Nat \ {0} /\ h \in 1..n
        BY ParamsAssumption
      <4>1. h \in Nat \ {0} /\ h \in 1..n /\ \A i \in 1..h : c[i] = chain[i]
        BY <1>3, <4>0
      <4>2. SealedAlgoOf(c, h) = SealedAlgoOf(chain, h)
        BY Zenon, <4>1, SealedAlgoPrefix
      <4>3. SealedAlgoOf(chain, h)' = SealedAlgoOf(c, h)
        BY Zenon, <1>1 DEF SealedAlgoOf
      <4> QED BY Zenon, <1>1, <1>3, <4>1, <4>2, <4>3 DEF RawEntry
    <3>8. TrackerTypeOK /\ DetHeight \in Nat
      BY Zenon, ParamsAssumption DEF BaseInv, TypeOK
    <3> QED BY Zenon, <3>1, <3>5, <3>6, <3>7, <3>8, PushAgree
  <2> QED BY <2>1, <2>2, ParamsAssumption
<1>5. WindowsAgree(DetHeight, Len(chain))'
  BY Zenon, <1>1, <1>3, <1>4 DEF WindowsAgree
<1> QED BY Zenon, <1>1, <1>5 DEF AgreeInv

(* The end of a replay: what it skipped has left every window. *)
LEMMA AgreeRebuildDone == BaseInv /\ AgreeInv /\ RebuildDone => AgreeInv'
<1> SUFFICES ASSUME BaseInv, AgreeInv, RebuildDone, DetHeight > 0 PROVE AgreeInv'
  BY DEF AgreeInv
<1>1. /\ UNCHANGED <<window, sealLong, extended, records>> /\ UNCHANGED chain
      /\ anchor' = chain /\ pc = "rebuilding" /\ pc' \in {"idle", "connecting"}
  BY Zenon DEF RebuildDone, trackerVars
<1>2. Len(chain) \in Nat /\ replay = Len(chain) + 1 /\ replay - 1 = Len(chain)
  BY SeqIs DEF BaseInv, TypeOK, ControlInv, RebuildDone
<1>3. WindowsAgree(RebuildFrom, Len(chain))
  BY Zenon, <1>1, <1>2 DEF AgreeInv
<1>4. ASSUME NEW h \in DetHeight..Len(chain), h \notin RebuildFrom..Len(chain)
      PROVE  /\ ~(Len(chain) - h < PrivilegeWindow)
             /\ ~(Len(chain) - h < SealLongWindow)
             /\ ~(Len(chain) - h < ExtendedWindow)
  <2>1. /\ RebuildStart(Len(chain)) \in Nat /\ HMPHeight <= RebuildStart(Len(chain))
        /\ RebuildStart(Len(chain)) = HMPHeight \/ RebuildStart(Len(chain)) = Len(chain) - MaxLookback
    BY Zenon, <1>2, RebuildStartProperties
  <2>2. RebuildStart(Len(chain)) > h
    BY <1>2, <1>4, <2>1, ParamsAssumption DEF RebuildFrom
  <2> QED BY <1>2, <1>4, <2>1, <2>2, LookbackCovers, ParamsAssumption
<1>5. WindowsAgree(DetHeight, Len(chain))
  BY Zenon, <1>3, <1>4 DEF WindowsAgree
<1>6. WindowsAgree(DetHeight, Len(chain))'
  BY ZenonT(60), <1>1, <1>5 DEF WindowsAgree, RawEntry, SealedAlgoOf
<1> QED BY Zenon, <1>1, <1>6 DEF AgreeInv

(* The start of a replay: nothing is claimed yet. *)
LEMMA ReplayStarts ==
    ASSUME BaseInv', pc' = "rebuilding", replay' = RebuildStart(Len(chain)')
    PROVE  AgreeInv'
<1>1. Len(chain') \in Nat
  BY Zenon, SeqIs DEF BaseInv, TypeOK
<1>2. RebuildStart(Len(chain')) \in Nat
  BY Zenon, <1>1, RebuildStartProperties
<1>3. \A h \in RebuildFrom'..(replay' - 1) : FALSE
  BY <1>2, ParamsAssumption DEF RebuildFrom
<1> QED BY Zenon, <1>3 DEF AgreeInv, WindowsAgree

LEMMA AgreeConnect ==
    ASSUME BaseInv, BaseInv', AgreeInv, NEW b \in Blocks, ConnectBlock(b)
    PROVE  AgreeInv'
<1>1. Len(chain) \in Nat /\ UNCHANGED chain /\ UNCHANGED anchor
  BY Zenon, SeqIs DEF BaseInv, TypeOK, ConnectBlock
<1>2. CASE NeedsRebuild(Len(chain) + 1)
  <2>1. pc' = "rebuilding" /\ replay' = RebuildStart(Len(chain)')
    BY Zenon, <1>1, <1>2 DEF ConnectBlock, StartRebuild
  <2> QED BY Zenon, <2>1, ReplayStarts
<1>3. CASE ~NeedsRebuild(Len(chain) + 1)
  <2>1. pc = "idle" /\ pc' = "connecting"
    BY Zenon, <1>3 DEF ConnectBlock
  <2> SUFFICES ASSUME DetHeight > 0
               PROVE  /\ anchor = chain => WindowsAgree(DetHeight, Len(chain))'
                      /\ DetHeight <= Len(chain) => anchor = chain
    BY Zenon, <1>1, <2>1 DEF AgreeInv
  <2>2. DetHeight <= Len(chain) => anchor = chain
    BY <1>1, <1>3, ParamsAssumption DEF NeedsRebuild, IsDeterministicSealActive, HMPActive
  <2>3. CASE Len(chain) < DetHeight
    BY <2>3, <1>1, ParamsAssumption DEF WindowsAgree
  <2>4. CASE DetHeight <= Len(chain)
    <3>1. UNCHANGED <<window, sealLong, extended, records>>
      BY <1>1, <1>3, <2>4, ParamsAssumption DEF ConnectBlock, trackerVars
    <3>2. WindowsAgree(DetHeight, Len(chain))
      BY Zenon, <2>1, <2>2, <2>4 DEF AgreeInv
    <3>3. WindowsAgree(DetHeight, Len(chain))'
      <4>1. UNCHANGED chain
        BY Zenon, <1>1 DEF ConnectBlock
      <4> QED BY Zenon, <3>1, <3>2, <4>1 DEF WindowsAgree, RawEntry, SealedAlgoOf
    <3> QED BY Zenon, <2>2, <3>3
  <2> QED BY <1>1, <2>2, <2>3, <2>4, ParamsAssumption
<1> QED BY Zenon, <1>2, <1>3

LEMMA AgreeStep == BaseInv /\ BaseInv' /\ AgreeInv /\ [Next]_vars => AgreeInv'
<1> SUFFICES ASSUME BaseInv, BaseInv', AgreeInv, [Next]_vars PROVE AgreeInv'
  BY Zenon
<1>0. Len(chain) \in Nat /\ chain' \in Seq(Block)
  BY Zenon, SeqIs DEF BaseInv, TypeOK
<1>1. ASSUME NEW b \in Blocks, ConnectBlock(b) PROVE AgreeInv'
  BY Zenon, <1>1, AgreeConnect
<1>2. CASE RejectBlock
  BY ZenonT(60), <1>2 DEF RejectBlock, trackerVars, AgreeInv, WindowsAgree, RawEntry, SealedAlgoOf
<1>3. CASE DisconnectTip \/ DisconnectFlushFails \/ PersistFails
  BY Zenon, <1>0, <1>3, StateAssumption
     DEF DisconnectTip, DisconnectFlushFails, PersistFails, DisconnectTrackers, AgreeInv
<1>4. CASE RebuildReadFails
  <2> SUFFICES ASSUME DetHeight > 0, pc' = "rebuilding"
               PROVE  WindowsAgree(RebuildFrom, replay - 1)'
    BY Zenon, <1>4 DEF AgreeInv, RebuildReadFails
  <2>1. replay' = replay + 1 /\ replay <= Len(chain) /\ UNCHANGED chain /\ ~fStrict(chain)
    BY Zenon, <1>4 DEF RebuildReadFails
  <2>2. RebuildStart(Len(chain)) \in Nat /\ replay \in Nat
    BY Zenon, <1>0, RebuildStartProperties DEF BaseInv, TypeOK
  <2>3. \A h \in RebuildFrom'..(replay' - 1) : FALSE
    BY <1>0, <2>1, <2>2, ParamsAssumption DEF RebuildFrom, fStrict, IsDeterministicSealActive
  <2> QED BY Zenon, <2>3 DEF WindowsAgree
<1>5. ASSUME NEW n \in 0..Len(chain), NEW j \in 0..n, Restart(n, j) PROVE AgreeInv'
  <2>1. CASE pc' = "rebuilding"
    <3>1. n \in Nat /\ Len(chain') = n
      BY Zenon, <1>0, <1>5, PrefixOfChain DEF Restart, BaseInv, TypeOK
    <3>2. replay' = RebuildStart(Len(chain)')
      BY Zenon, <1>5, <2>1, <3>1 DEF Restart, StartupRebuild
    <3> QED BY Zenon, <2>1, <3>2, ReplayStarts
  <2>2. CASE pc' # "rebuilding"
    BY Zenon, <1>0, <1>5, <2>2, StateAssumption DEF Restart, StartupRebuild, AgreeInv
  <2> QED BY Zenon, <2>1, <2>2
<1>6. CASE RollforwardBlock \/ RollforwardReadFails
  BY Zenon, <1>6 DEF RollforwardBlock, RollforwardReadFails, AgreeInv
<1>7. CASE RollforwardDone
  <2>1. CASE HMPActive(Len(chain))
    <3>1. pc' = "rebuilding" /\ replay' = RebuildStart(Len(chain)')
      BY Zenon, <1>7, <2>1 DEF RollforwardDone, StartupRebuild
    <3> QED BY Zenon, <3>1, ReplayStarts
  <2>2. CASE ~HMPActive(Len(chain))
    <3>1. pc' = "idle" /\ UNCHANGED chain
      BY Zenon, <1>7, <2>2 DEF RollforwardDone, StartupRebuild
    <3>2. DetHeight > 0 => \A h \in DetHeight..Len(chain') : FALSE
      BY <1>0, <2>2, <3>1, ParamsAssumption DEF HMPActive
    <3> QED BY Zenon, <3>1, <3>2 DEF AgreeInv, WindowsAgree
  <2> QED BY Zenon, <2>1, <2>2
<1>8. CASE UNCHANGED vars
  <2>1. UNCHANGED <<window, sealLong, extended>> /\ UNCHANGED <<chain, anchor, pc, replay>>
    BY Zenon, <1>8 DEF vars, trackerVars, nodeVars
  <2>2. WindowsAgree(DetHeight, Len(chain)) => WindowsAgree(DetHeight, Len(chain))'
    BY ZenonT(60), <2>1 DEF WindowsAgree, RawEntry, SealedAlgoOf
  <2>3. WindowsAgree(RebuildFrom, replay - 1) => WindowsAgree(RebuildFrom, replay - 1)'
    <3>1. RebuildFrom' = RebuildFrom BY Zenon, <2>1 DEF RebuildFrom
    <3> QED BY ZenonT(60), <2>1, <3>1 DEF WindowsAgree, RawEntry, SealedAlgoOf
  <2> QED BY Zenon, <2>1, <2>2, <2>3 DEF AgreeInv
<1> QED BY Zenon, <1>1, <1>2, <1>3, <1>4, <1>5, <1>6, <1>7, <1>8,
           AgreeApply, AgreeRebuildStep, AgreeRebuildDone DEF Next

(* ConnectBlock weighs every seal from nHMPDeterministicSealHeight on with  *)
(* windows that are a function of the chain alone, after any sequence of    *)
(* reorgs, rejected blocks, restarts, rollforwards and failed reads.        *)
THEOREM WeighedCorrect == Spec => []WeighedOnChainState
<1>1. Init => AgreeInv
  <2>1. <<>> \in Seq(Block)
    OBVIOUS
  <2> QED BY Zenon, <2>1, StateAssumption DEF Init, AgreeInv
<1>2. BaseInv /\ AgreeInv => WeighedOnChainState
  <2> SUFFICES ASSUME BaseInv, AgreeInv, pc = "connecting",
                      IsDeterministicSealActive(Len(chain) + 1)
               PROVE  WindowsAgree(DetHeight, Len(chain))
    BY Zenon DEF WeighedOnChainState
  <2>1. Len(chain) \in Nat /\ DetHeight > 0
    BY Zenon, SeqIs DEF BaseInv, TypeOK, IsDeterministicSealActive
  <2>2. CASE DetHeight <= Len(chain)
    BY Zenon, <2>1, <2>2 DEF AgreeInv
  <2>3. CASE Len(chain) < DetHeight
    BY <2>1, <2>3, ParamsAssumption DEF WindowsAgree
  <2> QED BY <2>1, <2>2, <2>3, ParamsAssumption
<1> QED BY <1>1, <1>2, BaseInit, BaseStep, AgreeStep, PTL DEF Spec

=============================================================================
