--------------------------- MODULE PrivilegeTracker ---------------------------
(***************************************************************************)
(* The privilege tracker of the Hivemind Protocol (hmp/privilege.cpp):     *)
(* three sliding windows over the connected blocks and the per-algorithm   *)
(* records folded from the shortest of them.  Tiers, the Elder set and the *)
(* arming decision are read from these windows.                            *)
(*                                                                         *)
(* A seal is a function from its signers to what each declared: the        *)
(* algorithm signed for and the least tier multiplier at which the         *)
(* signer's VRF output is selected.  The empty function is "no seal".      *)
(* A record that m_records does not hold is one with first_seen_height -1. *)
(***************************************************************************)
EXTENDS HMPParams, Sequences

VARIABLES
    window,     \* m_window
    sealLong,   \* m_sealLong
    extended,   \* m_extendedWindow
    records     \* m_records

trackerVars == <<window, sealLong, extended, records>>

NoAlgo == -1
NoSeal == [k \in {} |-> 0]

(* A VRF output is selected from the multiplier 1, 3 or 4 on, or never (5). *)
Signature == [algo : Algos, vrf : {1, 3, 4, 5}]
Seals     == UNION {[S -> Signature] : S \in SUBSET Keys}
Signers(seal) == DOMAIN seal

WindowEntry   == [height : Nat, algo : Algos, miner : Keys \cup {NoKey},
                  seal : Seals, sealedAlgo : Algos \cup {NoAlgo}]
LongEntry     == [height : Nat, algo : Algos, sealedAlgo : Algos \cup {NoAlgo}]
ExtendedEntry == [height : Nat, algo : Algos, miner : Keys]
Record        == [blocks_solved : Nat, seal_participations : Nat,
                  first_seen_height : Nat \cup {-1}]

EmptyRecord  == [blocks_solved |-> 0, seal_participations |-> 0, first_seen_height |-> -1]
EmptyRecords == [a \in Algos |-> [k \in Keys |-> EmptyRecord]]

TrackerTypeOK ==
    /\ window   \in Seq(WindowEntry)   /\ Len(window)   <= PrivilegeWindow
    /\ sealLong \in Seq(LongEntry)     /\ Len(sealLong) <= SealLongWindow
    /\ extended \in Seq(ExtendedEntry) /\ Len(extended) <= ExtendedWindow
    /\ records  \in [Algos -> [Keys -> Record]]

-----------------------------------------------------------------------------
(* Folding a window into records *)

Mined(e, a, k)   == e.miner = k /\ e.algo = a
Sealed(e, a, k)  == k \in Signers(e.seal) /\ e.seal[k].algo = a
Touches(e, a, k) == Mined(e, a, k) \/ Sealed(e, a, k)

Touched(w, a, k) == {i \in 1..Len(w) : Touches(w[i], a, k)}

FirstSeen(w, a, k) ==
    IF Touched(w, a, k) = {} THEN -1
    ELSE w[CHOOSE i \in Touched(w, a, k) : \A j \in Touched(w, a, k) : i <= j].height

RebuildFromWindow(w) ==
    [a \in Algos |-> [k \in Keys |->
        [blocks_solved       |-> Cardinality({i \in 1..Len(w) : Mined(w[i], a, k)}),
         seal_participations |-> Cardinality({i \in 1..Len(w) : Sealed(w[i], a, k)}),
         first_seen_height   |-> FirstSeen(w, a, k)]]]

(* Mutant: a signer is credited under the algorithm of the enclosing block. *)
CreditEntryBlockAlgo(recs, e) ==
    [a \in Algos |-> [k \in Keys |->
        LET seals == k \in Signers(e.seal) /\ e.algo = a IN
        [blocks_solved       |-> recs[a][k].blocks_solved + (IF Mined(e, a, k) THEN 1 ELSE 0),
         seal_participations |-> recs[a][k].seal_participations + (IF seals THEN 1 ELSE 0),
         first_seen_height   |-> IF recs[a][k].first_seen_height < 0 /\ (Mined(e, a, k) \/ seals)
                                 THEN e.height
                                 ELSE recs[a][k].first_seen_height]]]

(* The incremental update, taken when nothing left the window. *)
CreditEntry(recs, e) ==
    [a \in Algos |-> [k \in Keys |->
        [blocks_solved       |-> recs[a][k].blocks_solved + (IF Mined(e, a, k) THEN 1 ELSE 0),
         seal_participations |-> recs[a][k].seal_participations + (IF Sealed(e, a, k) THEN 1 ELSE 0),
         first_seen_height   |-> IF recs[a][k].first_seen_height < 0 /\ Touches(e, a, k)
                                 THEN e.height
                                 ELSE recs[a][k].first_seen_height]]]

-----------------------------------------------------------------------------
(* Operations that change the tracker *)

(* Mutant: the trim keeps one entry too many. *)
NewestOffByOne(s, n) == IF Len(s) > n + 1 THEN SubSeq(s, Len(s) - n, Len(s)) ELSE s

(* pop_front until at most n entries are left *)
Newest(s, n) == IF Len(s) > n THEN SubSeq(s, Len(s) - n + 1, Len(s)) ELSE s

(* pop_back while the last entry is at or above height h *)
Below(s, h) ==
    LET n == CHOOSE n \in 0..Len(s) :
                 /\ n = 0 \/ s[n].height < h
                 /\ \A i \in (n + 1)..Len(s) : s[i].height >= h
    IN  SubSeq(s, 1, n)

Entry(h, algo, miner, seal, sealedAlgo) ==
    [height |-> h, algo |-> algo, miner |-> miner, seal |-> seal, sealedAlgo |-> sealedAlgo]
LongPart(e)     == [height |-> e.height, algo |-> e.algo, sealedAlgo |-> e.sealedAlgo]
ExtendedPart(e) == [height |-> e.height, algo |-> e.algo, miner |-> e.miner]

PrivilegeBlockConnected(e) ==
    /\ window'   = Newest(Append(window, e), PrivilegeWindow)
    /\ sealLong' = Newest(Append(sealLong, LongPart(e)), SealLongWindow)
    /\ extended' = IF e.miner = NoKey THEN extended
                   ELSE Newest(Append(extended, ExtendedPart(e)), ExtendedWindow)
    /\ records'  = IF Len(window) + 1 > PrivilegeWindow
                   THEN RebuildFromWindow(window')
                   ELSE CreditEntry(records, e)

PrivilegeBlockDisconnected(h) ==
    /\ window'   = Below(window, h)
    /\ extended' = Below(extended, h)
    /\ sealLong' = Below(sealLong, h)
    /\ records'  = RebuildFromWindow(window')

PrivilegeClear ==
    /\ window' = <<>> /\ sealLong' = <<>> /\ extended' = <<>>
    /\ records' = EmptyRecords

TrackerInit ==
    /\ window = <<>> /\ sealLong = <<>> /\ extended = <<>>
    /\ records = EmptyRecords

-----------------------------------------------------------------------------
(* Reads *)

GetTipHeight == IF window = <<>> THEN -1 ELSE window[Len(window)].height

PastWarmup(a, k) ==
    /\ records[a][k].first_seen_height >= 0
    /\ GetTipHeight - records[a][k].first_seen_height >= WarmupBlocks

Qualifies(a, k, minBlocks) ==
    /\ PastWarmup(a, k)
    /\ records[a][k].blocks_solved >= minBlocks
    /\ records[a][k].seal_participations > 0

GetTier(k, a) ==
    CASE ~PastWarmup(a, k) -> "UNKNOWN"
      [] PastWarmup(a, k) /\ ~Qualifies(a, k, GetEffectiveMinBlocksSolved(GetTipHeight)) -> "NEW"
      [] OTHER -> IF k \in BroodOperators THEN "BROOD" ELSE "ELDER"

OrganicElders(a) == {k \in Keys : Qualifies(a, k, GetEffectiveMinBlocksSolved(GetTipHeight))}

(* Position of k's newest block of algorithm a in the extended window, 0 if none. *)
LastSolved(a, k) ==
    LET S == {i \in 1..Len(extended) : extended[i].algo = a /\ extended[i].miner = k}
    IN  IF S = {} THEN 0 ELSE CHOOSE i \in S : \A j \in S : j <= i

(* Solvers of the extended window, newest first, fill the set up to the floor. *)
Backfill(a) ==
    LET minBlocks == IF IsHMPRearmActive(GetTipHeight)
                     THEN GetEffectiveMinBlocksSolved(GetTipHeight) ELSE 1
        candidates == {k \in Keys \ OrganicElders(a) :
                          LastSolved(a, k) > 0 /\ Qualifies(a, k, minBlocks)}
        newer(k) == {c \in candidates : LastSolved(a, c) > LastSolved(a, k)}
    IN  {k \in candidates :
            Cardinality(OrganicElders(a)) + Cardinality(newer(k)) < DominanceCatchFloor}

GetElderSet(a) == OrganicElders(a) \cup Backfill(a)

GetPrivilegedSet(a) == {k \in Keys : PastWarmup(a, k)}

IsPenaltyArmed(a) ==
    LET organicElders == Cardinality(OrganicElders(a))
        seals100  == {i \in 1..Len(window) : window[i].sealedAlgo = a}
        blocks100 == Cardinality({i \in 1..Len(window) : window[i].algo = a})
        signers100 == UNION {Signers(window[i].seal) : i \in seals100}
        sealed400 == Cardinality({i \in 1..Len(sealLong) : sealLong[i].sealedAlgo = a})
        blocks400 == Cardinality({i \in 1..Len(sealLong) : sealLong[i].algo = a})
        arm  == /\ organicElders >= ArmMinElders
                /\ Cardinality(seals100) >= ArmMinSealed
                /\ blocks100 > 0
                /\ Cardinality(seals100) * 100 >= blocks100 * 60
                /\ Cardinality(signers100) >= ArmMinDiversity
        hold == /\ organicElders >= HoldMinElders
                /\ blocks400 > 0
                /\ sealed400 * 100 >= blocks400 * 45
    IN  arm \/ hold

-----------------------------------------------------------------------------
(* The records GetTier, GetElderSet and IsPenaltyArmed read are the fold of  *)
(* the window, whichever of the incremental update and RebuildFromWindow     *)
(* last wrote them: no credit outlives the block it came from, and none is   *)
(* lost or doubled when the window moves.                                    *)
RecordsMatchWindow == records = RebuildFromWindow(window)

=============================================================================
