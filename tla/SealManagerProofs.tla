--------------------------- MODULE SealManagerProofs ---------------------------
(***************************************************************************)
(* CSealManager among its threads, for every block tree, set of signers,   *)
(* window and limit: types, the bound on the shares of a session, the      *)
(* shares of an assembled session, the own signatures of one visit to a    *)
(* height, and the insertion order that covers the cached seals.  The      *)
(* inductive invariant is TypeInv /\ SignInv.                              *)
(***************************************************************************)
EXTENDS SealManager, FiniteSetTheorems, WellFoundedInduction, TLAPS

(* What the provers know of sequences, as facts to cite. *)
LEMMA SeqIs ==
    ASSUME NEW S, NEW s \in Seq(S)
    PROVE  Len(s) \in Nat /\ DOMAIN s = 1 .. Len(s) /\ s \in [1 .. Len(s) -> S]
BY SMT

LEMMA EmptyIs ==
    ASSUME NEW S
    PROVE  /\ <<>> \in Seq(S) /\ Len(<<>>) = 0
           /\ \A s \in Seq(S) : s # <<>> => Len(s) \in Nat \ {0}
BY SMT

LEMMA SeqsEqual ==
    ASSUME NEW S, NEW s \in Seq(S), NEW t \in Seq(S),
           Len(s) = Len(t), \A i \in 1 .. Len(s) : s[i] = t[i]
    PROVE  s = t
BY SMT

LEMMA AppendIs ==
    ASSUME NEW S, NEW s \in Seq(S), NEW x \in S
    PROVE  /\ Append(s, x) \in Seq(S) /\ Append(s, x) # <<>>
           /\ Len(Append(s, x)) = Len(s) + 1 /\ Append(s, x)[Len(s) + 1] = x
           /\ \A i \in 1 .. Len(s) : Append(s, x)[i] = s[i]
BY SMT

LEMMA ConcatIs ==
    ASSUME NEW S, NEW s \in Seq(S), NEW t \in Seq(S)
    PROVE  /\ s \o t \in Seq(S) /\ Len(s \o t) = Len(s) + Len(t)
           /\ \A i \in 1 .. Len(s) + Len(t) :
                 (s \o t)[i] = IF i <= Len(s) THEN s[i] ELSE t[i - Len(s)]
BY SMT

LEMMA SubSeqIs ==
    ASSUME NEW S, NEW s, NEW m \in Int, NEW n \in Int, \A i \in m .. n : s[i] \in S
    PROVE  /\ SubSeq(s, m, n) \in Seq(S)
           /\ Len(SubSeq(s, m, n)) = IF m <= n THEN n - m + 1 ELSE 0
           /\ \A i \in 1 .. n - m + 1 : SubSeq(s, m, n)[i] = s[m + i - 1]
BY SMT

LEMMA SubSeqWhole ==
    ASSUME NEW S, NEW s \in Seq(S)
    PROVE  SubSeq(s, 1, Len(s)) = s
BY SMT

-----------------------------------------------------------------------------
(* Blocks and maps *)

LEMMA BlockFacts ==
    ASSUME NEW b \in Blocks
    PROVE  /\ b \in Seq(Nat) /\ Len(b) \in Nat
           /\ b # Root => Parent(b) \in Blocks /\ Len(Parent(b)) = Len(b) - 1
<1>1. b \in Seq(Nat) /\ Len(b) \in Nat
  BY Zenon, ParametersAssumption, EmptyIs, SeqIs DEF Root
<1>2. ASSUME b # Root PROVE Len(Parent(b)) = Len(b) - 1 /\ Parent(b) \in Blocks
  <2>1. Len(b) \in Nat \ {0}
    BY <1>1, <1>2, EmptyIs DEF Root
  <2>2. ASSUME NEW h \in 0 .. Len(b) PROVE Len(SubSeq(b, 1, h)) = h
    <3>1. h \in Int /\ \A i \in 1 .. h : b[i] \in Nat
      BY <1>1, SeqIs
    <3> QED BY <3>1, SubSeqIs
  <2>3. Len(b) - 1 \in 0 .. Len(b)
    BY <2>1
  <2>4. Len(SubSeq(b, 1, Len(b) - 1)) = Len(b) - 1
    BY Zenon, <2>2, <2>3
  <2> QED BY <1>2, <2>4, ParametersAssumption DEF Parent
<1> QED BY <1>1, <1>2

-----------------------------------------------------------------------------
(* Sessions *)

(* What the shares of a session are. *)
SessionOK(x) ==
    x \in [elapsed : Int, shares : SUBSET Signers, assembled : BOOLEAN]

SessionType ==
    /\ \A b \in DOMAIN sessions : SessionOK(sessions[b])
    /\ net # NoMsg => net \in Message /\ net.signers # {}
    /\ restarts \in Nat

(* What a step may do to the sessions: open one, drop some, insert a share *)
(* that is still wanted, or change the clock and the assembled flags.      *)
Opens ==
    \A b \in DOMAIN sessions' :
        \/ b \in DOMAIN sessions /\ sessions'[b] = sessions[b]
        \/ (b \notin DOMAIN sessions \/ restarts' # restarts) /\ sessions'[b] = Fresh
Inserts(b, s) == ShareWanted(b, s) /\ InsertShare(b, s)
Ages == /\ DOMAIN sessions' \subseteq DOMAIN sessions
        /\ \A b \in DOMAIN sessions' :
              SessionOK(sessions'[b]) /\ sessions'[b].shares = sessions[b].shares

LEMMA FreshOK == SessionOK(Fresh) /\ Fresh.shares = {} /\ ~Fresh.assembled
BY DEF SessionOK, Fresh

LEMMA InsertOK ==
    ASSUME NEW b, NEW s \in Signers, SessionType, Inserts(b, s)
    PROVE  /\ DOMAIN sessions' = DOMAIN sessions /\ b \in DOMAIN sessions
           /\ \A c \in DOMAIN sessions : SessionOK(sessions'[c])
           /\ \A c \in DOMAIN sessions \ {b} : sessions'[c] = sessions[c]
           /\ sessions'[b].shares = sessions[b].shares \cup {s}
           /\ ~sessions[b].assembled /\ s \notin sessions[b].shares
           /\ Cardinality(sessions[b].shares) < MaxShares
<1>1. /\ b \in DOMAIN sessions /\ ~sessions[b].assembled /\ s \notin sessions[b].shares
      /\ Cardinality(sessions[b].shares) < MaxShares
      /\ sessions' = [sessions EXCEPT ![b].shares = @ \cup {s}]
  BY Zenon DEF Inserts, ShareWanted, InsertShare
<1>2. DOMAIN sessions' = DOMAIN sessions /\ \A c \in DOMAIN sessions \ {b} : sessions'[c] = sessions[c]
  BY Zenon, <1>1
<1>3. sessions'[b] = [sessions[b] EXCEPT !.shares = @ \cup {s}]
  BY Zenon, <1>1
<1>4. SessionOK(sessions'[b]) /\ sessions'[b].shares = sessions[b].shares \cup {s}
  BY <1>1, <1>3 DEF SessionType, SessionOK
<1> QED BY Zenon, <1>1, <1>2, <1>4 DEF SessionType

LEMMA AgesOK ==
    /\ WorkerTick /\ SessionType => Ages
    /\ Clock /\ SessionType => Ages
<1>1. ASSUME WorkerTick, SessionType PROVE Ages
  <2> DEFINE now == [b \in DOMAIN sessions |->
                        IF b \in Due THEN [sessions[b] EXCEPT !.assembled = TRUE] ELSE sessions[b]]
             gone == {b \in DOMAIN now : Expired(now[b])}
  <2>1. sessions' = Without(now, gone)
    BY Zenon, <1>1 DEF WorkerTick
  <2>2. \A b \in DOMAIN sessions : SessionOK(now[b]) /\ now[b].shares = sessions[b].shares
    BY Zenon, <1>1 DEF SessionType, SessionOK
  <2>3. DOMAIN now = DOMAIN sessions
    OBVIOUS
  <2> HIDE DEF now, gone
  <2> QED BY Zenon, <2>1, <2>2, <2>3 DEF Ages, Without
<1>2. ASSUME Clock, SessionType PROVE Ages
  <2>1. sessions' = [b \in DOMAIN sessions |-> [sessions[b] EXCEPT !.elapsed = Min({@ + 1, Stale})]]
    BY Zenon, <1>2 DEF Clock
  <2>2. ASSUME NEW x \in Int PROVE Min({x, Stale}) \in Int
    <3>1. Stale \in Int
      BY ParametersAssumption DEF Stale
    <3>2. \E y \in {x, Stale} : \A z \in {x, Stale} : y <= z
      BY <3>1
    <3> QED BY Zenon, <3>1, <3>2 DEF Min
  <2>3. ASSUME NEW b \in DOMAIN sessions
        PROVE  SessionOK(sessions'[b]) /\ sessions'[b].shares = sessions[b].shares
    <3>1. SessionOK(sessions[b]) /\ sessions[b].elapsed + 1 \in Int
      BY <1>2 DEF SessionType, SessionOK
    <3>2. Min({sessions[b].elapsed + 1, Stale}) \in Int
      BY Zenon, <2>2, <3>1
    <3>3. sessions'[b] = [sessions[b] EXCEPT !.elapsed = Min({sessions[b].elapsed + 1, Stale})]
      BY Zenon, <2>1
    <3> QED BY Zenon, <3>1, <3>2, <3>3 DEF SessionOK
  <2>4. DOMAIN sessions' = DOMAIN sessions
    BY Zenon, <2>1
  <2> QED BY Zenon, <2>3, <2>4 DEF Ages
<1> QED BY Zenon, <1>1, <1>2

LEMMA NewBlocksOpen == ASSUME NEW S, OnNewBlocks(S) PROVE Opens
<1> DEFINE new == S \ DOMAIN sessions
<1>1. sessions' = Overlay([b \in new |-> Fresh], sessions)
  BY Zenon DEF OnNewBlocks
<1> QED BY Zenon, <1>1 DEF Opens, Overlay

(* Every step in those terms. *)
LEMMA SessionCases ==
    ASSUME SessionType, [Next]_vars
    PROVE  \/ Opens
           \/ \E b : \E s \in Signers : Inserts(b, s)
           \/ Ages
<1>1. CASE UNCHANGED sessions
  BY Zenon, <1>1 DEF Opens
<1>2. ASSUME NEW b \in Blocks, ConnectBlock(b) PROVE Opens
  BY Zenon, <1>2, NewBlocksOpen DEF ConnectBlock
<1>3. CASE AddOwnShare
  <2>1. CASE ShareStillWanted(val.block, Me)
    <3>1. Inserts(val.block, Me) /\ Me \in Signers
      BY Zenon, <1>3, <2>1, ParametersAssumption DEF AddOwnShare, ShareStillWanted, Inserts
    <3> QED BY Zenon, <3>1
  <2> QED BY Zenon, <1>1, <1>3, <2>1 DEF AddOwnShare
<1>4. CASE AddShare
  <2> DEFINE s == CHOOSE x \in net.signers : TRUE
  <2>1. s \in Signers
    BY Zenon, <1>4 DEF AddShare, SessionType, Message
  <2>2. CASE ShareStillWanted(net.block, s)
    <3>1. Inserts(net.block, s)
      BY Zenon, <1>4, <2>2 DEF AddShare, ShareStillWanted, Inserts
    <3> QED BY <2>1, <3>1
  <2> QED BY Zenon, <1>1, <1>4, <2>2 DEF AddShare
<1>5. CASE DisconnectTip
  <2>1. sessions' = Without(sessions, {tip})
    BY Zenon, <1>5 DEF DisconnectTip, BlockDisconnected
  <2> QED BY Zenon, <2>1 DEF Opens, Without
<1>6. CASE Restart
  BY <1>6 DEF Restart, Opens, SessionType
<1>7. CASE WorkerTick \/ Clock
  BY Zenon, <1>7, AgesOK
<1>8. CASE SignBlock \/ DoNotSign \/ CheckOwnShare \/ FinishConnect
  BY Zenon, <1>1, <1>8 DEF SignBlock, DoNotSign, CheckOwnShare, FinishConnect
<1>9. CASE \/ \E b \in Blocks, s \in Signers : RecvShare(b, s)
           \/ \E b \in Blocks, S \in SUBSET Signers : RecvSeal(b, S)
           \/ CheckSeal \/ AddSeal \/ Invalid
  BY Zenon, <1>1, <1>9 DEF RecvShare, RecvSeal, CheckSeal, AddSeal, Invalid
<1>10. CASE UNCHANGED vars
  BY Zenon, <1>1, <1>10 DEF vars
<1> QED BY Zenon, <1>2, <1>3, <1>4, <1>5, <1>6, <1>7, <1>8, <1>9, <1>10 DEF Next, Validation, MessageHandler

LEMMA MessageStep ==
    ASSUME SessionType, [Next]_vars
    PROVE  net' # NoMsg => net' \in Message /\ net'.signers # {}
<1>1. CASE net' = net \/ net' = NoMsg
  BY Zenon, <1>1 DEF SessionType
<1>2. ASSUME NEW b \in Blocks, NEW s \in Signers, RecvShare(b, s)
      PROVE  net' \in Message /\ net'.signers # {}
  BY Zenon, <1>2 DEF RecvShare, Share, Message
<1>3. ASSUME NEW b \in Blocks, NEW S \in SUBSET Signers, RecvSeal(b, S)
      PROVE  net' \in Message /\ net'.signers # {}
  BY Zenon, <1>3 DEF RecvSeal, Message
<1>4. CASE CheckSeal
  <2>1. net \in Message /\ net.signers # {}
    BY Zenon, <1>4 DEF CheckSeal, SessionType
  <2>2. /\ [net EXCEPT !.kind = "checked"] \in Message
        /\ [net EXCEPT !.kind = "checked"].signers # {}
    BY Zenon, <2>1 DEF Message
  <2> QED BY Zenon, <1>1, <1>4, <2>2 DEF CheckSeal
<1>5. CASE Validation
  BY Zenon, <1>1, <1>5 DEF Validation, ConnectBlock, SignBlock, DoNotSign, CheckOwnShare, AddOwnShare,
                    FinishConnect, DisconnectTip
<1>6. CASE AddShare \/ AddSeal \/ Invalid \/ WorkerTick \/ Clock \/ Restart
  BY Zenon, <1>1, <1>6 DEF AddShare, AddSeal, Invalid, WorkerTick, Clock, Restart
<1>7. CASE UNCHANGED vars
  BY Zenon, <1>1, <1>7 DEF vars
<1> QED BY Zenon, <1>1, <1>2, <1>3, <1>4, <1>5, <1>6, <1>7 DEF Next, MessageHandler

LEMMA SessionTypeStep ==
    ASSUME SessionType, [Next]_vars
    PROVE  SessionType'
<1>1. net' # NoMsg => net' \in Message /\ net'.signers # {}
  BY Zenon, MessageStep
<1>2. \A b \in DOMAIN sessions' : SessionOK(sessions'[b])
  <2>1. CASE Opens
    BY Zenon, <2>1, FreshOK DEF Opens, SessionType
  <2>2. CASE \E b : \E s \in Signers : Inserts(b, s)
    BY Zenon, <2>2, InsertOK
  <2>3. CASE Ages
    BY Zenon, <2>3 DEF Ages
  <2> QED BY Zenon, <2>1, <2>2, <2>3, SessionCases
<1>3. restarts' \in Nat
  <2>1. CASE Validation
    BY Zenon, <2>1 DEF SessionType, Validation, ConnectBlock, SignBlock, DoNotSign, CheckOwnShare,
                AddOwnShare, FinishConnect, DisconnectTip, chainVars
  <2>2. CASE MessageHandler
    BY Zenon, <2>2 DEF SessionType, MessageHandler, RecvShare, RecvSeal, AddShare, CheckSeal, AddSeal,
                Invalid, chainVars
  <2>3. CASE WorkerTick \/ Clock \/ Restart \/ UNCHANGED vars
    BY <2>3 DEF SessionType, WorkerTick, Clock, Restart, chainVars, vars
  <2> QED BY Zenon, <2>1, <2>2, <2>3 DEF Next
<1> QED BY Zenon, <1>1, <1>2, <1>3 DEF SessionType, SessionOK

LEMMA SessionTypeInit == Init => SessionType
BY DEF Init, SessionType

LEMMA QuotaStep ==
    ASSUME SessionType, ShareQuota, [Next]_vars
    PROVE  ShareQuota'
<1>0. MaxShares \in Nat /\ IsFiniteSet(Signers) /\ Cardinality({}) = 0
  BY Zenon, ParametersAssumption, FS_EmptySet
<1>1. CASE Opens
  BY SMTT(60), <1>0, <1>1, FreshOK DEF Opens, ShareQuota
<1>2. ASSUME NEW b, NEW s \in Signers, Inserts(b, s)
      PROVE  ShareQuota'
  <2>1. sessions[b].shares \subseteq Signers
    BY Zenon, <1>2, InsertOK DEF SessionType, SessionOK
  <2>2. IsFiniteSet(sessions[b].shares)
    BY Zenon, <1>0, <2>1, FS_Subset
  <2>3. /\ Cardinality(sessions[b].shares) \in Nat
        /\ Cardinality(sessions[b].shares \cup {s}) = Cardinality(sessions[b].shares) + 1
    BY Zenon, <1>2, <2>2, InsertOK, FS_AddElement, FS_CardinalityType
  <2>4. Cardinality(sessions'[b].shares) <= MaxShares
    <3>1. Cardinality(sessions[b].shares) < MaxShares
      BY Zenon, <1>2, InsertOK
    <3>2. Cardinality(sessions'[b].shares) = Cardinality(sessions[b].shares) + 1
      BY Zenon, <1>2, <2>3, InsertOK
    <3> QED BY <1>0, <2>3, <3>1, <3>2
  <2> QED BY Zenon, <1>2, <2>4, InsertOK DEF ShareQuota
<1>3. CASE Ages
  BY Zenon, <1>3 DEF Ages, ShareQuota
<1> QED BY Zenon, <1>1, <1>2, <1>3, SessionCases

(* The quota of AddSealShare: MAX_SEAL_SIGNERS is never exceeded, although *)
(* both threads pass the first check before either inserts.                *)
THEOREM SealQuota == Spec => []ShareQuota
<1>1. Init => SessionType /\ ShareQuota
  BY SessionTypeInit DEF Init, ShareQuota
<1>2. SessionType /\ ShareQuota /\ [Next]_vars => (SessionType /\ ShareQuota)'
  BY Zenon, SessionTypeStep, QuotaStep
<1> QED BY <1>1, <1>2, PTL DEF Spec

(* A share that AddSealShare accepts is in the seal that is broadcast: the *)
(* second check of AddSealShare sees the assembled flag, so an assembled   *)
(* session takes none.                                                     *)
THEOREM SealFrozen == Spec => AssembledFrozen
<1>1. ASSUME SessionType, [Next]_vars
      PROVE  [\A b \in DOMAIN sessions \cap DOMAIN sessions' :
                 sessions[b].assembled /\ restarts' = restarts
                     => sessions'[b].shares = sessions[b].shares]_vars
  <2>1. CASE Opens
    BY Zenon, <2>1 DEF Opens
  <2>2. ASSUME NEW c, NEW s \in Signers, Inserts(c, s)
        PROVE  \A b \in DOMAIN sessions \cap DOMAIN sessions' :
                  sessions[b].assembled => sessions'[b].shares = sessions[b].shares
    BY Zenon, <1>1, <2>2, InsertOK
  <2>3. CASE Ages
    BY Zenon, <2>3 DEF Ages
  <2> QED BY Zenon, <1>1, <2>1, <2>2, <2>3, SessionCases
<1> QED BY <1>1, SessionTypeInit, SessionTypeStep, PTL DEF Spec, AssembledFrozen

-----------------------------------------------------------------------------
(* Own signatures *)

(* Where validation is, and the record that keeps it from signing twice: a *)
(* block that is about to be signed while its session lives, and every     *)
(* live signature above the tip, is recorded.                              *)
RecordedAs(b) == Len(b) \in DOMAIN signed /\ signed[Len(b)] = b

ValidationType ==
    /\ tip \in Blocks
    /\ val \in [pc : {"idle", "opened", "share", "checked", "finish"}, block : Blocks]
    /\ val.pc # "idle" => val.block # Root /\ Parent(val.block) = tip
    /\ published \subseteq [block : Blocks, live : BOOLEAN]

SignInv ==
    /\ val.pc \in {"share", "checked"} /\ val.block \in DOMAIN sessions => RecordedAs(val.block)
    /\ \A p \in published : p.live /\ Len(p.block) > Len(tip) => RecordedAs(p.block)
    /\ OneSignaturePerVisit

LEMMA ValidationFacts ==
    ASSUME ValidationType
    PROVE  /\ Len(tip) \in Nat
           /\ val.pc # "idle" => Len(val.block) = Len(tip) + 1
           /\ \A p \in published : p.block \in Blocks /\ Len(p.block) \in Nat /\ p.live \in BOOLEAN
<1>1. Len(tip) \in Nat /\ Len(val.block) \in Nat
  BY Zenon, BlockFacts DEF ValidationType
<1>2. val.pc # "idle" => Len(tip) = Len(val.block) - 1
  BY Zenon, BlockFacts DEF ValidationType
<1> QED BY <1>1, <1>2, BlockFacts DEF ValidationType

(* Steps that leave validation, its record and the signatures alone, and   *)
(* open no session.                                                        *)
LEMMA SignFramed ==
    ASSUME ValidationType, SignInv, UNCHANGED <<tip, val, signed, published>>,
           DOMAIN sessions' \subseteq DOMAIN sessions
    PROVE  ValidationType' /\ SignInv'
BY Zenon DEF ValidationType, SignInv, RecordedAs, OneSignaturePerVisit

LEMMA SignConnect ==
    ASSUME ValidationType, SignInv, NEW b \in Blocks, ConnectBlock(b)
    PROVE  ValidationType' /\ SignInv'
<1>1. /\ b # Root /\ Parent(b) = tip /\ val' = [pc |-> "opened", block |-> b]
      /\ UNCHANGED <<tip, signed, published>>
  BY Zenon DEF ConnectBlock
<1> QED BY Zenon, <1>1 DEF ValidationType, SignInv, RecordedAs, OneSignaturePerVisit

LEMMA SignSignBlock ==
    ASSUME ValidationType, SignInv, SignBlock
    PROVE  ValidationType' /\ SignInv'
<1> DEFINE b == val.block
           h == Len(b)
<1>1. /\ val.pc = "opened" /\ ~Refused(b) /\ signed' = Recorded(b)
      /\ val' \in {[val EXCEPT !.pc = "share"], [val EXCEPT !.pc = "finish"]}
      /\ UNCHANGED <<tip, sessions, published>>
  BY Zenon DEF SignBlock, chainVars
<1>2. val'.block = b /\ val'.pc \in {"share", "finish"} /\ ValidationType'
  BY Zenon, <1>1 DEF ValidationType
<1>3. /\ h = Len(tip) + 1 /\ Len(tip) \in Nat /\ SignedKept \in Nat
      /\ \A p \in published : Len(p.block) \in Nat
  BY Zenon, <1>1, ValidationFacts, ParametersAssumption
<1>4. CASE KnownHeight(b)
  <2> DEFINE kept == {k \in DOMAIN signed : h <= SignedKept \/ k >= h - SignedKept}
             old == Without(signed, DOMAIN signed \ kept)
  <2>1. signed' = Put(old, h, b)
    BY Zenon, <1>1, <1>4 DEF Recorded
  <2>2. DOMAIN old = kept /\ \A k \in kept : old[k] = signed[k]
    BY Zenon DEF Without
  <2>3. h \in DOMAIN signed => signed[h] = b
    BY Zenon, <1>1, <1>4 DEF Refused, SignedElsewhere
  <2> HIDE DEF old
  <2>4. /\ DOMAIN signed' = kept \cup {h} /\ signed'[h] = b
        /\ \A k \in kept \ {h} : signed'[k] = signed[k]
    BY Zenon, <2>1, <2>2 DEF Put, Overlay
  <2>5. ASSUME NEW p \in published, p.live, Len(p.block) > Len(tip)
        PROVE  Len(p.block) \in DOMAIN signed' /\ signed'[Len(p.block)] = p.block
    <3>1. Len(p.block) \in DOMAIN signed /\ signed[Len(p.block)] = p.block
      BY Zenon, <2>5 DEF SignInv, RecordedAs
    <3>2. Len(p.block) >= h - SignedKept
      BY <1>3, <2>5
    <3>3. Len(p.block) \in kept
      BY Zenon, <3>1, <3>2
    <3> HIDE DEF h, kept
    <3> QED BY Zenon, <2>3, <2>4, <3>1, <3>3
  <2>6. RecordedAs(val.block)'
    <3>1. val'.block = b
      BY Zenon, <1>2
    <3>2. Len(b) \in DOMAIN signed' /\ signed'[Len(b)] = b
      BY Zenon, <2>4
    <3> QED BY Zenon, <3>1, <3>2 DEF RecordedAs
  <2> QED BY Zenon, <1>1, <1>2, <2>5, <2>6 DEF SignInv, OneSignaturePerVisit, RecordedAs
<1>5. CASE ~KnownHeight(b)
  <2>1. signed' = signed /\ b \notin DOMAIN sessions
    BY Zenon, <1>1, <1>5 DEF Recorded, KnownHeight
  <2> QED BY <1>1, <1>2, <2>1 DEF SignInv, OneSignaturePerVisit, RecordedAs
<1> QED BY Zenon, <1>4, <1>5

LEMMA SignMoves ==
    ASSUME ValidationType, SignInv, DoNotSign \/ CheckOwnShare
    PROVE  ValidationType' /\ SignInv'
<1>1. /\ val.pc # "idle" /\ UNCHANGED <<tip, sessions, signed, published>>
      /\ \/ val' = [val EXCEPT !.pc = "finish"]
         \/ val.pc = "share" /\ val' = [val EXCEPT !.pc = "checked"]
  BY Zenon DEF DoNotSign, CheckOwnShare, chainVars
<1>2. /\ val'.block = val.block /\ ValidationType'
      /\ val'.pc = "finish" \/ (val.pc = "share" /\ val'.pc = "checked")
  BY Zenon, <1>1 DEF ValidationType
<1> QED BY Zenon, <1>1, <1>2 DEF SignInv, OneSignaturePerVisit, RecordedAs

LEMMA SignOwnShare ==
    ASSUME SessionType, ValidationType, SignInv, AddOwnShare
    PROVE  ValidationType' /\ SignInv'
<1> DEFINE b == val.block
           new == [block |-> b, live |-> TRUE]
<1>1. /\ val.pc = "checked" /\ val' = [val EXCEPT !.pc = "finish"]
      /\ UNCHANGED <<tip, signed>>
      /\ \/ UNCHANGED published
         \/ b \in DOMAIN sessions /\ published' = published \cup {new}
  BY Zenon DEF AddOwnShare, chainVars, ShareStillWanted, ShareWanted
<1>2. val'.pc = "finish" /\ val'.block = b /\ b \in Blocks
  BY Zenon, <1>1 DEF ValidationType
<1>3. new \in [block : Blocks, live : BOOLEAN] /\ new.block = b /\ new.live
  BY Zenon, <1>2
<1>4. ValidationType'
  BY Zenon, <1>1, <1>2, <1>3 DEF ValidationType
<1>5. CASE UNCHANGED published
  BY Zenon, <1>1, <1>2, <1>4, <1>5 DEF SignInv, OneSignaturePerVisit, RecordedAs
<1>6. CASE b \in DOMAIN sessions /\ published' = published \cup {new}
  <2>1. RecordedAs(b) /\ Len(b) > Len(tip)
    BY <1>1, <1>6, ValidationFacts DEF SignInv
  <2>2. \A p \in published' : p.live /\ Len(p.block) > Len(tip) => RecordedAs(p.block)
    BY Zenon, <1>3, <1>6, <2>1 DEF SignInv
  <2>3. \A p \in published : p.live /\ Len(p.block) = Len(b) => p.block = b
    BY Zenon, <2>1 DEF SignInv, RecordedAs
  <2>4. OneSignaturePerVisit'
    BY <1>3, <1>6, <2>3 DEF SignInv, OneSignaturePerVisit
  <2> QED BY Zenon, <1>1, <1>2, <1>4, <2>2, <2>4 DEF SignInv, RecordedAs
<1> QED BY Zenon, <1>1, <1>5, <1>6

LEMMA SignFinish ==
    ASSUME ValidationType, SignInv, FinishConnect
    PROVE  ValidationType' /\ SignInv'
<1>1. /\ val.pc = "finish" /\ val' = Idle /\ tip' \in {tip, val.block}
      /\ UNCHANGED <<signed, published>>
  BY Zenon DEF FinishConnect
<1>2. ValidationType'
  BY Zenon, <1>1, ParametersAssumption DEF ValidationType, Idle
<1>3. /\ Len(tip) \in Nat /\ Len(tip') \in {Len(tip), Len(tip) + 1}
      /\ \A p \in published : Len(p.block) \in Nat
  BY Zenon, <1>1, ValidationFacts
<1>4. \A p \in published : Len(p.block) > Len(tip') => Len(p.block) > Len(tip)
  BY <1>3
<1> QED BY Zenon, <1>1, <1>2, <1>4 DEF SignInv, OneSignaturePerVisit, RecordedAs, Idle

LEMMA SignDisconnect ==
    ASSUME ValidationType, SignInv, DisconnectTip
    PROVE  ValidationType' /\ SignInv'
<1> DEFINE Dead(p) == IF Len(p.block) = Len(tip) THEN [p EXCEPT !.live = FALSE] ELSE p
<1>1. /\ val = Idle /\ val' = val /\ tip # Root /\ tip' = Parent(tip)
      /\ signed' = Without(signed, {Len(tip)})
      /\ published' = {Dead(p) : p \in published}
  BY Zenon DEF DisconnectTip, BlockDisconnected
<1>2. /\ tip' \in Blocks /\ Len(tip) \in Nat /\ Len(tip') = Len(tip) - 1
      /\ \A p \in published : Len(p.block) \in Nat /\ p \in [block : Blocks, live : BOOLEAN]
  BY Zenon, <1>1, BlockFacts, ValidationFacts DEF ValidationType
<1>3. \A q \in published' :
        /\ q \in [block : Blocks, live : BOOLEAN]
        /\ \E p \in published : q.block = p.block /\ (q.live => p.live /\ Len(p.block) # Len(tip))
  <2> TAKE q \in published'
  <2>1. PICK p \in published : q = Dead(p)
    BY Zenon, <1>1
  <2>2. p \in [block : Blocks, live : BOOLEAN]
    BY Zenon, <1>2
  <2>3. CASE Len(p.block) = Len(tip)
    <3>1. q = [p EXCEPT !.live = FALSE]
      BY Zenon, <2>1, <2>3
    <3> QED BY ZenonT(60), <2>2, <3>1
  <2>4. CASE Len(p.block) # Len(tip)
    BY Zenon, <2>1, <2>2, <2>4
  <2> QED BY Zenon, <2>3, <2>4
<1>4. \A k \in DOMAIN signed : k # Len(tip) => k \in DOMAIN signed' /\ signed'[k] = signed[k]
  BY Zenon, <1>1 DEF Without
<1>5. ValidationType'
  <2>1. published' \subseteq [block : Blocks, live : BOOLEAN]
    BY Zenon, <1>3
  <2> QED BY Zenon, <1>1, <1>2, <2>1 DEF ValidationType, Idle
<1>6. ASSUME NEW q \in published', q.live, Len(q.block) > Len(tip')
      PROVE  Len(q.block) \in DOMAIN signed' /\ signed'[Len(q.block)] = q.block
  <2>1. PICK p \in published : p.live /\ Len(p.block) # Len(tip) /\ q.block = p.block
    BY Zenon, <1>3, <1>6
  <2>2. Len(p.block) > Len(tip)
    BY <1>2, <1>6, <2>1
  <2>3. Len(p.block) \in DOMAIN signed /\ signed[Len(p.block)] = p.block
    BY Zenon, <2>1, <2>2 DEF SignInv, RecordedAs
  <2> QED BY Zenon, <1>4, <2>1, <2>3
<1>7. OneSignaturePerVisit'
  <2>1. SUFFICES ASSUME NEW q \in published', NEW r \in published', q.live, r.live,
                        Len(q.block) = Len(r.block)
                 PROVE  q.block = r.block
    BY Zenon DEF OneSignaturePerVisit
  <2>2. PICK p \in published : p.live /\ q.block = p.block
    BY Zenon, <1>3, <2>1
  <2>3. PICK o \in published : o.live /\ r.block = o.block
    BY Zenon, <1>3, <2>1
  <2> QED BY Zenon, <2>1, <2>2, <2>3 DEF SignInv, OneSignaturePerVisit
<1> QED BY Zenon, <1>1, <1>5, <1>6, <1>7 DEF SignInv, Idle, RecordedAs

LEMMA SignRestart ==
    ASSUME ValidationType, SignInv, Restart
    PROVE  ValidationType' /\ SignInv'
<1>1. /\ tip' \in Blocks /\ val' = Idle
      /\ published' = {[p EXCEPT !.live = FALSE] : p \in published}
  BY Zenon DEF Restart
<1>2. \A p \in published' : p \in [block : Blocks, live : BOOLEAN] /\ ~p.live
  BY ZenonT(60), <1>1 DEF ValidationType
<1> QED BY Zenon, <1>1, <1>2, ParametersAssumption DEF ValidationType, SignInv, OneSignaturePerVisit, Idle

LEMMA SignStep ==
    ASSUME SessionType, ValidationType, SignInv, [Next]_vars
    PROVE  ValidationType' /\ SignInv'
<1>1. CASE Validation
  <2>1. ASSUME NEW b \in Blocks, ConnectBlock(b) PROVE ValidationType' /\ SignInv'
    BY Zenon, <2>1, SignConnect
  <2>2. CASE SignBlock
    BY Zenon, <2>2, SignSignBlock
  <2>3. CASE DoNotSign \/ CheckOwnShare
    BY Zenon, <2>3, SignMoves
  <2>4. CASE AddOwnShare
    BY Zenon, <2>4, SignOwnShare
  <2>5. CASE FinishConnect
    BY <2>5, SignFinish
  <2>6. CASE DisconnectTip
    BY <2>6, SignDisconnect
  <2> QED BY Zenon, <1>1, <2>1, <2>2, <2>3, <2>4, <2>5, <2>6 DEF Validation
<1>2. CASE MessageHandler \/ UNCHANGED vars
  <2>1. UNCHANGED <<tip, val, signed, published>>
    BY Zenon, <1>2 DEF MessageHandler, RecvShare, RecvSeal, AddShare, CheckSeal, AddSeal, Invalid, chainVars, vars
  <2>2. UNCHANGED sessions \/ AddShare
    BY Zenon, <1>2 DEF MessageHandler, RecvShare, RecvSeal, CheckSeal, AddSeal, Invalid, vars
  <2>3. ASSUME AddShare PROVE DOMAIN sessions' = DOMAIN sessions
    <3> DEFINE s == CHOOSE x \in net.signers : TRUE
    <3>1. InsertShare(net.block, s) \/ UNCHANGED sessions
      BY Zenon, <2>3 DEF AddShare
    <3> HIDE DEF s
    <3> QED BY Zenon, <3>1 DEF InsertShare
  <2> QED BY Zenon, <2>1, <2>2, <2>3, SignFramed
<1>3. CASE WorkerTick \/ Clock
  <2>1. UNCHANGED <<tip, val, signed, published>>
    BY Zenon, <1>3 DEF WorkerTick, Clock, chainVars
  <2>2. DOMAIN sessions' \subseteq DOMAIN sessions
    BY Zenon, <1>3, AgesOK DEF Ages
  <2> QED BY Zenon, <2>1, <2>2, SignFramed
<1>4. CASE Restart
  BY <1>4, SignRestart
<1> QED BY Zenon, <1>1, <1>2, <1>3, <1>4 DEF Next

(* SignBlock does not sign two blocks of one height between two disconnects *)
(* of that height: neither a block rejected after it was signed, nor the    *)
(* eviction of old records, nor a session that ended meanwhile undoes it.   *)
THEOREM SealOneSignature == Spec => []OneSignaturePerVisit
<1>1. Init => SessionType /\ ValidationType /\ SignInv
  BY SessionTypeInit, ParametersAssumption
     DEF Init, ValidationType, SignInv, OneSignaturePerVisit, Idle
<1>2. SessionType /\ ValidationType /\ SignInv /\ [Next]_vars
        => (SessionType /\ ValidationType /\ SignInv)'
  BY Zenon, SessionTypeStep, SignStep
<1>3. SignInv => OneSignaturePerVisit
  BY DEF SignInv
<1> QED BY <1>1, <1>2, <1>3, PTL DEF Spec

-----------------------------------------------------------------------------
(* The insertion order.  A property of every element of a sequence is      *)
(* shown of the least index at which it could fail.                        *)

LEMMA Least ==
    ASSUME NEW S \in SUBSET Nat, S # {}
    PROVE  \E m \in S : \A k \in S : m <= k
<1>1. PICK m \in S : \A k \in S : ~(<<k, m>> \in OpToRel(<, Nat))
  BY ZenonT(60), NatLessThanWellFounded, WFMin
<1>2. \A k \in S : ~(k < m)
  BY ZenonT(60), <1>1 DEF OpToRel
<1> QED BY <1>2

(* The recursion of ErasedUpTo, up to the index n. *)
Erasing(f, q, S, i) == IF i = 0 THEN <<>> ELSE IF q[i] \in S THEN f[i - 1] ELSE Append(f[i - 1], q[i])
IsErasure(f, q, S, n) == f = [i \in 0 .. n |-> Erasing(f, q, S, i)]

LEMMA ErasureExtends ==
    ASSUME NEW q, NEW S, NEW n \in Nat, NEW f, IsErasure(f, q, S, n)
    PROVE  \E g : IsErasure(g, q, S, n + 1)
<1> DEFINE G(i) == IF i <= n THEN f[i] ELSE Erasing(f, q, S, i)
           g == [i \in 0 .. n + 1 |-> G(i)]
<1>1. ASSUME NEW i \in 0 .. n + 1 PROVE G(i) = Erasing(f, q, S, i)
  <2>1. CASE i <= n
    <3>1. i \in 0 .. n
      BY <2>1
    <3>2. f[i] = Erasing(f, q, S, i)
      BY Zenon, <3>1 DEF IsErasure
    <3> QED BY Zenon, <2>1, <3>2
  <2> QED BY Zenon, <2>1
<1>2. ASSUME NEW i \in 0 .. n + 1 PROVE Erasing(f, q, S, i) = Erasing(g, q, S, i)
  <2>1. CASE i = 0
    BY Zenon, <2>1 DEF Erasing
  <2>2. CASE i # 0
    <3>1. i - 1 \in 0 .. n + 1 /\ i - 1 <= n
      BY <2>2
    <3>2. g[i - 1] = f[i - 1]
      BY Zenon, <3>1
    <3> HIDE DEF g
    <3> QED BY Zenon, <3>2 DEF Erasing
  <2> QED BY Zenon, <2>1, <2>2
<1>3. g = [i \in 0 .. n + 1 |-> Erasing(g, q, S, i)]
  <2>1. \A i \in 0 .. n + 1 : G(i) = Erasing(g, q, S, i)
    <3> HIDE DEF G, g
    <3> QED BY Zenon, <1>1, <1>2
  <2>2. g = [i \in 0 .. n + 1 |-> G(i)]
    BY Zenon
  <2> HIDE DEF G, g
  <2> QED BY Zenon, <2>1, <2>2
<1>4. IsErasure(g, q, S, n + 1)
  <2> HIDE DEF g
  <2> QED BY Zenon, <1>3 DEF IsErasure
<1> QED BY Zenon, <1>4

LEMMA ErasureExists ==
    ASSUME NEW q, NEW S, NEW n \in Nat
    PROVE  \E g : IsErasure(g, q, S, n)
<1> DEFINE Has(k) == \E g : IsErasure(g, q, S, k)
           Bad == {k \in Nat : ~Has(k)}
<1>1. SUFFICES ASSUME ~Has(n) PROVE FALSE
  BY Zenon
<1>2. PICK m \in Bad : \A k \in Bad : m <= k
  <2>1. Bad # {} /\ Bad \in SUBSET Nat
    BY Zenon, <1>1
  <2> HIDE DEF Bad
  <2> QED BY Zenon, <2>1, Least
<1>3. CASE m = 0
  <2> DEFINE g == [i \in 0 .. 0 |-> <<>>]
  <2>1. \A i \in 0 .. 0 : Erasing(g, q, S, i) = <<>>
    BY DEF Erasing
  <2>2. IsErasure(g, q, S, 0)
    BY Zenon, <2>1 DEF IsErasure
  <2> QED BY Zenon, <1>2, <1>3, <2>2
<1>4. CASE m # 0
  <2>1. m - 1 \in Nat /\ m \in Nat
    BY <1>2, <1>4
  <2>2. m - 1 \notin Bad
    <3> HIDE DEF Bad
    <3> QED BY <1>2, <2>1
  <2>3. Has(m - 1)
    BY Zenon, <2>1, <2>2
  <2>4. PICK f : IsErasure(f, q, S, m - 1)
    BY Zenon, <2>3
  <2>5. \E g : IsErasure(g, q, S, (m - 1) + 1)
    BY Zenon, <2>1, <2>4, ErasureExtends
  <2>6. (m - 1) + 1 = m
    BY <2>1
  <2>7. Has(m)
    BY Zenon, <2>5, <2>6
  <2> QED BY Zenon, <1>2, <2>7
<1> QED BY Zenon, <1>3, <1>4

(* What appending adds to the elements of a sequence of blocks. *)
LEMMA AppendTo ==
    ASSUME NEW q \in Seq(Blocks), NEW b \in Blocks
    PROVE  /\ Append(q, b) \in Seq(Blocks)
           /\ b \in ToSet(Append(q, b)) /\ ToSet(q) \subseteq ToSet(Append(q, b))
<1> DEFINE e == Append(q, b)
<1>1. /\ e \in Seq(Blocks) /\ Len(e) = Len(q) + 1 /\ e[Len(q) + 1] = b
      /\ \A i \in 1 .. Len(q) : e[i] = q[i]
  BY AppendIs
<1> HIDE DEF e
<1>2. Len(q) \in Nat /\ DOMAIN q = 1 .. Len(q) /\ DOMAIN e = 1 .. Len(q) + 1
  BY Zenon, <1>1, SeqIs
<1>3. \A i \in 1 .. Len(q) : i \in 1 .. Len(q) + 1
  BY <1>2
<1>4. Len(q) + 1 \in 1 .. Len(q) + 1
  BY <1>2
<1>5. b \in ToSet(e) /\ ToSet(q) \subseteq ToSet(e)
  BY Zenon, <1>1, <1>2, <1>3, <1>4 DEF ToSet
<1> QED BY Zenon, <1>1, <1>5 DEF e

(* Erased keeps, in a sequence of blocks, the blocks outside S. *)
LEMMA ErasedFacts ==
    ASSUME NEW q \in Seq(Blocks), NEW S
    PROVE  Erased(q, S) \in Seq(Blocks) /\ ToSet(q) \ S \subseteq ToSet(Erased(q, S))
<1> DEFINE f == ErasedUpTo(q, S)
           Good(i) == /\ f[i] \in Seq(Blocks)
                      /\ \A j \in 1 .. i : q[j] \in S \/ q[j] \in ToSet(f[i])
           Bad == {i \in 0 .. Len(q) : ~Good(i)}
<1>0. Len(q) \in Nat /\ DOMAIN q = 1 .. Len(q) /\ \A i \in 1 .. Len(q) : q[i] \in Blocks
  BY Zenon, SeqIs
<1>1. IsErasure(f, q, S, Len(q))
  <2>1. f = CHOOSE g : IsErasure(g, q, S, Len(q))
    BY Zenon DEF ErasedUpTo, IsErasure, Erasing
  <2> HIDE DEF f
  <2> QED BY ZenonT(60), <1>0, <2>1, ErasureExists
<1> HIDE DEF f
<1>2. \A i \in 0 .. Len(q) : f[i] = Erasing(f, q, S, i)
  BY Zenon, <1>1 DEF IsErasure
<1>3. ASSUME Bad # {} PROVE FALSE
  <2>1. PICK m \in Bad : \A k \in Bad : m <= k
    <3>1. Bad \in SUBSET Nat
      BY <1>0
    <3> HIDE DEF Bad
    <3> QED BY Zenon, <1>3, <3>1, Least
  <2>2. m \in 0 .. Len(q) /\ ~Good(m)
    BY Zenon, <2>1
  <2>3. CASE m = 0
    <3>1. f[0] = <<>> /\ 1 .. 0 = {}
      BY <1>0, <1>2 DEF Erasing
    <3>2. Good(0)
      BY Zenon, <3>1, EmptyIs
    <3> QED BY Zenon, <2>2, <2>3, <3>2
  <2>4. CASE m # 0
    <3>1. m - 1 \in 0 .. Len(q) /\ m \in 1 .. Len(q) /\ 1 .. m = (1 .. m - 1) \cup {m}
      BY <1>0, <2>2, <2>4
    <3>2. m - 1 \notin Bad
      <4>1. m - 1 < m
        BY <2>2
      <4> HIDE DEF Bad
      <4> QED BY SMTT(60), <1>0, <2>1, <2>2, <3>1, <4>1
    <3>3. Good(m - 1)
      BY Zenon, <3>1, <3>2
    <3>4. f[m - 1] \in Seq(Blocks) /\ q[m] \in Blocks
      BY Zenon, <1>0, <3>1, <3>3
    <3>5. f[m] = IF q[m] \in S THEN f[m - 1] ELSE Append(f[m - 1], q[m])
      BY Zenon, <1>2, <2>2, <2>4 DEF Erasing
    <3>6. CASE q[m] \in S
      <4>1. f[m] = f[m - 1]
        BY Zenon, <3>5, <3>6
      <4>2. Good(m)
        BY Zenon, <3>1, <3>3, <3>6, <4>1
      <4> QED BY Zenon, <2>2, <4>2
    <3>7. CASE q[m] \notin S
      <4> DEFINE e == Append(f[m - 1], q[m])
      <4>1. /\ e \in Seq(Blocks) /\ q[m] \in ToSet(e) /\ ToSet(f[m - 1]) \subseteq ToSet(e)
        BY Zenon, <3>4, AppendTo
      <4>2. f[m] = e
        BY Zenon, <3>5, <3>7
      <4> HIDE DEF e
      <4>3. Good(m)
        BY Zenon, <3>1, <3>3, <4>1, <4>2
      <4> QED BY <2>2, <4>3
    <3> QED BY Zenon, <3>6, <3>7
  <2> QED BY Zenon, <2>3, <2>4
<1>4. Good(Len(q))
  BY <1>0, <1>3
<1>5. Erased(q, S) = f[Len(q)]
  BY Zenon DEF Erased, f
<1>6. ToSet(q) = {q[i] : i \in 1 .. Len(q)}
  BY Zenon, <1>0 DEF ToSet
<1> QED BY Zenon, <1>4, <1>5, <1>6

(* A prefix of a sequence of blocks and what follows it. *)
LEMMA Split ==
    ASSUME NEW q \in Seq(Blocks), NEW n \in 0 .. Len(q)
    PROVE  /\ SubSeq(q, 1, n) \in Seq(Blocks) /\ Len(SubSeq(q, 1, n)) = n
           /\ SubSeq(q, n + 1, Len(q)) \in Seq(Blocks)
           /\ ToSet(q) \ ToSet(SubSeq(q, 1, n)) \subseteq ToSet(SubSeq(q, n + 1, Len(q)))
<1>0. Len(q) \in Nat /\ DOMAIN q = 1 .. Len(q) /\ \A i \in 1 .. Len(q) : q[i] \in Blocks
  BY Zenon, SeqIs
<1>1. /\ n \in Int /\ 1 \in Int /\ Len(q) \in Int /\ n + 1 \in Int /\ n \in Nat
      /\ \A i \in 1 .. n : q[i] \in Blocks
      /\ \A i \in n + 1 .. Len(q) : q[i] \in Blocks
  BY <1>0
<1> DEFINE p == SubSeq(q, 1, n)
           r == SubSeq(q, n + 1, Len(q))
<1>2. /\ p \in Seq(Blocks) /\ Len(p) = IF 1 <= n THEN n - 1 + 1 ELSE 0
      /\ \A i \in 1 .. n - 1 + 1 : p[i] = q[1 + i - 1]
  BY <1>1, SubSeqIs
<1>3. /\ r \in Seq(Blocks) /\ Len(r) = IF n + 1 <= Len(q) THEN Len(q) - (n + 1) + 1 ELSE 0
      /\ \A i \in 1 .. Len(q) - (n + 1) + 1 : r[i] = q[n + 1 + i - 1]
  BY <1>1, SubSeqIs
<1> HIDE DEF p, r
<1>4. Len(p) = n /\ Len(r) = Len(q) - n
  <2>1. Len(p) = IF 1 <= n THEN n - 1 + 1 ELSE 0
    BY Zenon, <1>2
  <2>2. Len(r) = IF n + 1 <= Len(q) THEN Len(q) - (n + 1) + 1 ELSE 0
    BY Zenon, <1>3
  <2>3. n \in Nat /\ Len(q) \in Nat /\ n <= Len(q)
    BY <1>0
  <2> QED BY SMTT(60), <2>1, <2>2, <2>3
<1>5. DOMAIN p = 1 .. n /\ DOMAIN r = 1 .. Len(q) - n
  BY Zenon, <1>2, <1>3, <1>4, SeqIs
<1>6. ASSUME NEW i \in 1 .. Len(q) PROVE q[i] \in ToSet(p) \/ q[i] \in ToSet(r)
  <2>1. CASE i <= n
    <3>1. i \in 1 .. n /\ i \in 1 .. n - 1 + 1 /\ 1 + i - 1 = i
      BY <1>1, <2>1
    <3>2. p[i] = q[i]
      BY Zenon, <1>2, <3>1
    <3> QED BY Zenon, <1>5, <3>1, <3>2 DEF ToSet
  <2>2. CASE ~(i <= n)
    <3>1. /\ i - n \in 1 .. Len(q) - n /\ i - n \in 1 .. Len(q) - (n + 1) + 1
          /\ n + 1 + (i - n) - 1 = i
      BY <1>0, <1>1, <2>2
    <3>2. r[i - n] = q[i]
      BY Zenon, <1>3, <3>1
    <3> QED BY Zenon, <1>5, <3>1, <3>2 DEF ToSet
  <2> QED BY Zenon, <2>1, <2>2
<1>7. ToSet(q) = {q[i] : i \in 1 .. Len(q)}
  BY Zenon, <1>0 DEF ToSet
<1>8. ToSet(q) \ ToSet(p) \subseteq ToSet(r)
  BY Zenon, <1>6, <1>7
<1> QED BY Zenon, <1>2, <1>3, <1>4, <1>8 DEF p, r

(* The loops that pop the front end: when every cached seal is in the      *)
(* order there is a first prefix after which the cache fits.               *)
LEMMA PoppedFacts ==
    ASSUME NEW ss, NEW q \in Seq(Blocks), DOMAIN ss \subseteq ToSet(q)
    PROVE  \E n \in 0 .. Len(q) : Popped(ss, q) = SubSeq(q, 1, n)
<1> DEFINE Left(k) == DOMAIN ss \ ToSet(SubSeq(q, 1, k))
           Fits(k) == /\ Cardinality(Left(k)) <= MaxSeals
                      /\ \A j \in 0 .. k - 1 : Cardinality(Left(j)) > MaxSeals
           K == {k \in 0 .. Len(q) : Cardinality(Left(k)) <= MaxSeals}
<1>0. Len(q) \in Nat /\ MaxSeals \in Nat /\ SubSeq(q, 1, Len(q)) = q /\ ToSet(q) \subseteq Blocks
  <2>1. DOMAIN q = 1 .. Len(q) /\ Len(q) \in Nat /\ \A i \in 1 .. Len(q) : q[i] \in Blocks
    BY Zenon, SeqIs
  <2> QED BY <2>1, SubSeqWhole, ParametersAssumption DEF ToSet
<1>1. \A k : Cardinality(Left(k)) \in Nat
  <2> TAKE k
  <2>1. Left(k) \in SUBSET Blocks
    BY Zenon, <1>0
  <2>2. IsFiniteSet(Left(k))
    <3> HIDE DEF Left
    <3> QED BY Zenon, <2>1, FS_Subset, ParametersAssumption
  <2> HIDE DEF Left
  <2> QED BY Zenon, <2>2, FS_CardinalityType
<1>2. Len(q) \in K
  <2>1. Left(Len(q)) = {}
    BY Zenon, <1>0
  <2>2. Cardinality(Left(Len(q))) = 0
    <3> HIDE DEF Left
    <3> QED BY Zenon, <2>1, FS_EmptySet
  <2> HIDE DEF Left
  <2> QED BY <1>0, <2>2
<1>3. PICK m \in K : \A k \in K : m <= k
  <2>1. K \in SUBSET Nat
    BY <1>0
  <2> HIDE DEF K
  <2> QED BY Zenon, <1>2, <2>1, Least
<1> HIDE DEF Left
<1>4. m \in 0 .. Len(q) /\ Cardinality(Left(m)) <= MaxSeals
  BY Zenon, <1>3
<1>5. ASSUME NEW j \in 0 .. m - 1 PROVE Cardinality(Left(j)) > MaxSeals
  <2>1. j \in 0 .. Len(q) /\ ~(m <= j)
    BY <1>0, <1>4
  <2>2. j \notin K
    <3> HIDE DEF K
    <3> QED BY Zenon, <1>3, <2>1
  <2>3. ~(Cardinality(Left(j)) <= MaxSeals)
    BY Zenon, <2>1, <2>2
  <2> QED BY <1>0, <1>1, <2>3
<1>6. Fits(m)
  BY Zenon, <1>4, <1>5
<1>7. Popped(ss, q) = SubSeq(q, 1, CHOOSE k \in 0 .. Len(q) : Fits(k))
  BY Zenon DEF Popped, Left
<1> HIDE DEF Fits
<1>8. (CHOOSE k \in 0 .. Len(q) : Fits(k)) \in 0 .. Len(q)
  BY Zenon, <1>4, <1>6
<1> QED BY Zenon, <1>7, <1>8

(* What is left after the eviction is still covered. *)
LEMMA Evicts ==
    ASSUME NEW ss, NEW q \in Seq(Blocks), DOMAIN ss \subseteq ToSet(q), NEW old, old = Popped(ss, q)
    PROVE  /\ SubSeq(q, Len(old) + 1, Len(q)) \in Seq(Blocks)
           /\ DOMAIN Without(ss, ToSet(old)) \subseteq ToSet(SubSeq(q, Len(old) + 1, Len(q)))
           /\ \A b \in DOMAIN Without(ss, ToSet(old)) : b \in DOMAIN ss /\ Without(ss, ToSet(old))[b] = ss[b]
<1>1. PICK n \in 0 .. Len(q) : old = SubSeq(q, 1, n)
  BY Zenon, PoppedFacts
<1>2. Len(old) = n /\ SubSeq(q, n + 1, Len(q)) \in Seq(Blocks)
      /\ ToSet(q) \ ToSet(old) \subseteq ToSet(SubSeq(q, n + 1, Len(q)))
  BY Zenon, <1>1, Split
<1> QED BY Zenon, <1>2 DEF Without

(* The sequence the worker appends holds the assembled blocks. *)
LEMMA SetToSeqFacts ==
    ASSUME NEW S \in SUBSET Blocks
    PROVE  SetToSeq(S) \in Seq(Blocks) /\ ToSet(SetToSeq(S)) = S
<1> DEFINE n == Cardinality(S)
           g == SetToSeq(S)
<1>1. IsFiniteSet(S)
  BY Zenon, FS_Subset, ParametersAssumption
<1>2. n \in Nat /\ ExistsBijection(1 .. n, S)
  BY Zenon, <1>1, FS_CardinalityType
<1> HIDE DEF n
<1>3. PICK f : f \in Bijection(1 .. n, S)
  BY Zenon, <1>2 DEF ExistsBijection
<1>4. f \in [1 .. n -> S] /\ IsInjective(f)
  BY Zenon, <1>3 DEF Bijection, Injection, IsInjective
<1>5. g = CHOOSE h \in [1 .. n -> S] : IsInjective(h)
  BY Zenon DEF SetToSeq, n
<1> HIDE DEF g
<1>6. g \in [1 .. n -> S] /\ IsInjective(g)
  BY Zenon, <1>4, <1>5
<1>7. g \in Injection(1 .. n, S)
  BY Zenon, <1>6 DEF Injection, IsInjective
<1>8. IsFiniteSet(1 .. n) /\ Cardinality(1 .. n) = n
  BY <1>2, FS_Interval
<1>9. g \in Surjection(1 .. n, S)
  BY Zenon, <1>1, <1>7, <1>8, FS_Injection DEF n
<1>10. ToSet(g) = S
  BY Zenon, <1>6, <1>9 DEF Surjection, ToSet
<1>11. g \in Seq(Blocks)
  BY <1>2, <1>6
<1> QED BY Zenon, <1>10, <1>11 DEF g

LEMMA ConcatTo ==
    ASSUME NEW q \in Seq(Blocks), NEW r \in Seq(Blocks)
    PROVE  q \o r \in Seq(Blocks) /\ ToSet(q) \cup ToSet(r) \subseteq ToSet(q \o r)
<1> DEFINE e == q \o r
<1>1. /\ e \in Seq(Blocks) /\ Len(e) = Len(q) + Len(r)
      /\ \A i \in 1 .. Len(q) + Len(r) : e[i] = IF i <= Len(q) THEN q[i] ELSE r[i - Len(q)]
  BY Zenon, ConcatIs
<1> HIDE DEF e
<1>2. /\ Len(q) \in Nat /\ Len(r) \in Nat /\ DOMAIN q = 1 .. Len(q) /\ DOMAIN r = 1 .. Len(r)
      /\ DOMAIN e = 1 .. Len(q) + Len(r)
  BY Zenon, <1>1, SeqIs
<1>3. ASSUME NEW i \in 1 .. Len(q) PROVE q[i] \in ToSet(e)
  <2>1. i \in 1 .. Len(q) + Len(r) /\ i <= Len(q)
    BY <1>2
  <2> QED BY Zenon, <1>1, <1>2, <2>1 DEF ToSet
<1>4. ASSUME NEW i \in 1 .. Len(r) PROVE r[i] \in ToSet(e)
  <2>1. Len(q) + i \in 1 .. Len(q) + Len(r) /\ ~(Len(q) + i <= Len(q)) /\ (Len(q) + i) - Len(q) = i
    BY <1>2
  <2>2. e[Len(q) + i] = r[i]
    BY Zenon, <1>1, <2>1
  <2> QED BY Zenon, <1>2, <2>1, <2>2 DEF ToSet
<1>5. ToSet(q) = {q[i] : i \in 1 .. Len(q)} /\ ToSet(r) = {r[i] : i \in 1 .. Len(r)}
  BY Zenon, <1>2 DEF ToSet
<1>6. ToSet(q) \cup ToSet(r) \subseteq ToSet(e)
  BY Zenon, <1>3, <1>4, <1>5
<1> QED BY Zenon, <1>1, <1>6 DEF e

-----------------------------------------------------------------------------
(* The cache of assembled seals *)

Cached ==
    /\ DOMAIN seals \subseteq Blocks /\ \A b \in DOMAIN seals : seals[b] \in (SUBSET Signers) \ {{}}
    /\ order \in Seq(Blocks)
    /\ OrderCoversSeals

SessionBlocks == DOMAIN sessions \subseteq Blocks

LEMMA CacheDisconnect == ASSUME Cached, DisconnectTip PROVE Cached'
<1>1. seals' = Without(seals, {tip}) /\ order' = Erased(order, {tip})
  BY Zenon DEF DisconnectTip, BlockDisconnected
<1>2. order' \in Seq(Blocks) /\ ToSet(order) \ {tip} \subseteq ToSet(order')
  BY Zenon, <1>1, ErasedFacts DEF Cached
<1>3. DOMAIN seals' = DOMAIN seals \ {tip} /\ \A b \in DOMAIN seals' : seals'[b] = seals[b]
  BY Zenon, <1>1 DEF Without
<1> QED BY Zenon, <1>2, <1>3 DEF Cached, OrderCoversSeals

LEMMA CacheCommit ==
    ASSUME Cached, NEW b \in Blocks, NEW S \in (SUBSET Signers) \ {{}}, CommitSeal(b, S)
    PROVE  Cached'
<1> DEFINE h == Len(b)
           loser == IF h \in DOMAIN heightToHash THEN {heightToHash[h]} \ {b} ELSE {}
           ss == Put(Without(seals, loser), b, S)
           q == Append(Erased(order, loser \cup {b}), b)
           old == Popped(ss, q)
<1>1. seals' = Without(ss, ToSet(old)) /\ order' = SubSeq(q, Len(old) + 1, Len(q))
  BY Zenon DEF CommitSeal
<1>2. old = Popped(ss, q)
  BY Zenon
<1>3. /\ DOMAIN ss = (DOMAIN seals \ loser) \cup {b}
      /\ \A x \in DOMAIN ss : ss[x] = IF x = b THEN S ELSE seals[x]
  BY Zenon DEF Put, Overlay, Without
<1> HIDE DEF loser, old
<1>4. q \in Seq(Blocks) /\ DOMAIN ss \subseteq ToSet(q)
  <2> DEFINE e == Erased(order, loser \cup {b})
  <2>1. e \in Seq(Blocks) /\ ToSet(order) \ (loser \cup {b}) \subseteq ToSet(e)
    BY Zenon, ErasedFacts DEF Cached
  <2> HIDE DEF e
  <2>2. Append(e, b) \in Seq(Blocks) /\ b \in ToSet(Append(e, b)) /\ ToSet(e) \subseteq ToSet(Append(e, b))
    BY Zenon, <2>1, AppendTo
  <2>3. q = Append(e, b)
    BY Zenon DEF e
  <2> HIDE DEF ss, q
  <2> QED BY Zenon, <1>3, <2>1, <2>2, <2>3 DEF Cached, OrderCoversSeals
<1> HIDE DEF ss, q
<1>5. /\ order' \in Seq(Blocks) /\ DOMAIN seals' \subseteq ToSet(order')
      /\ \A x \in DOMAIN seals' : x \in DOMAIN ss /\ seals'[x] = ss[x]
  BY SMTT(60), <1>1, <1>2, <1>4, Evicts
<1> QED BY Zenon, <1>3, <1>5 DEF Cached, OrderCoversSeals

LEMMA CacheWorker == ASSUME Cached, SessionType, SessionBlocks, WorkerTick PROVE Cached'
<1> DEFINE ss == Overlay([b \in Due |-> sessions[b].shares], seals)
           q == order \o SetToSeq(Due)
           old == Popped(ss, q)
<1>1. seals' = Without(ss, ToSet(old)) /\ order' = SubSeq(q, Len(old) + 1, Len(q))
  BY Zenon DEF WorkerTick
<1>2. old = Popped(ss, q)
  BY Zenon
<1>3. /\ DOMAIN ss = Due \cup DOMAIN seals
      /\ \A x \in DOMAIN ss : ss[x] = IF x \in Due THEN sessions[x].shares ELSE seals[x]
  BY Zenon DEF Overlay
<1>4. Due \in SUBSET Blocks /\ \A x \in Due : sessions[x].shares \in (SUBSET Signers) \ {{}}
  <2>1. Due \subseteq DOMAIN sessions /\ \A x \in Due : sessions[x].shares # {}
    BY Zenon DEF Due
  <2>2. \A x \in DOMAIN sessions : sessions[x].shares \subseteq Signers
    BY Zenon DEF SessionType, SessionOK
  <2> QED BY Zenon, <2>1, <2>2 DEF SessionBlocks
<1> HIDE DEF old
<1>5. q \in Seq(Blocks) /\ DOMAIN ss \subseteq ToSet(q)
  <2> DEFINE r == SetToSeq(Due)
  <2>1. r \in Seq(Blocks) /\ ToSet(r) = Due
    BY Zenon, <1>4, SetToSeqFacts
  <2> HIDE DEF r
  <2>2. order \o r \in Seq(Blocks) /\ ToSet(order) \cup ToSet(r) \subseteq ToSet(order \o r)
    BY Zenon, <2>1, ConcatTo DEF Cached
  <2>3. q = order \o r
    BY Zenon DEF r
  <2> HIDE DEF ss, q
  <2> QED BY Zenon, <1>3, <2>1, <2>2, <2>3 DEF Cached, OrderCoversSeals
<1> HIDE DEF ss, q
<1>6. /\ order' \in Seq(Blocks) /\ DOMAIN seals' \subseteq ToSet(order')
      /\ \A x \in DOMAIN seals' : x \in DOMAIN ss /\ seals'[x] = ss[x]
  BY SMTT(60), <1>1, <1>2, <1>5, Evicts
<1> QED BY Zenon, <1>3, <1>4, <1>6 DEF Cached, OrderCoversSeals

LEMMA CacheStep ==
    ASSUME Cached, SessionType, SessionBlocks, [Next]_vars
    PROVE  Cached'
<1>1. CASE UNCHANGED cacheVars
  BY Zenon, <1>1 DEF Cached, OrderCoversSeals, cacheVars
<1>2. CASE Validation
  <2>1. CASE DisconnectTip
    BY Zenon, <2>1, CacheDisconnect
  <2> QED BY Zenon, <1>1, <1>2, <2>1 DEF Validation, ConnectBlock, SignBlock, DoNotSign, CheckOwnShare,
                                 AddOwnShare, FinishConnect
<1>3. CASE MessageHandler
  <2>1. CASE AddSeal
    <3>1. net \in Message /\ net.signers # {}
      BY Zenon, <2>1 DEF AddSeal, SessionType
    <3>2. net.block \in Blocks /\ net.signers \subseteq Signers
      BY Zenon, <3>1 DEF Message
    <3>4. net.signers \in (SUBSET Signers) \ {{}}
      BY Zenon, <3>1, <3>2
    <3>3. CommitSeal(net.block, net.signers) \/ UNCHANGED cacheVars
      BY Zenon, <2>1 DEF AddSeal
    <3> QED BY Zenon, <1>1, <3>2, <3>4, <3>3, CacheCommit
  <2> QED BY Zenon, <1>1, <1>3, <2>1 DEF MessageHandler, RecvShare, RecvSeal, AddShare, CheckSeal, Invalid
<1>4. CASE WorkerTick
  BY Zenon, <1>4, CacheWorker
<1>5. CASE Restart
  <2>1. seals' = <<>> /\ order' = <<>>
    BY Zenon, <1>5 DEF Restart
  <2> QED BY <2>1, EmptyIs DEF Cached, OrderCoversSeals
<1>6. CASE Clock \/ UNCHANGED vars
  BY Zenon, <1>1, <1>6 DEF Clock, vars
<1> QED BY Zenon, <1>2, <1>3, <1>4, <1>5, <1>6 DEF Next

-----------------------------------------------------------------------------
(* Types *)

(* The blocks are closed under taking ancestors. *)
LEMMA PrefixBlock == ASSUME NEW a \in Blocks, NEW h \in 0 .. Len(a) PROVE SubSeq(a, 1, h) \in Blocks
<1> DEFINE Bad == {k \in 0 .. Len(a) : SubSeq(a, 1, Len(a) - k) \notin Blocks}
<1>0. a \in Seq(Nat) /\ Len(a) \in Nat
  BY Zenon, BlockFacts
<1>1. ASSUME Bad # {} PROVE FALSE
  <2>1. PICK m \in Bad : \A k \in Bad : m <= k
    <3>1. Bad \in SUBSET Nat
      BY <1>0
    <3> HIDE DEF Bad
    <3> QED BY Zenon, <1>1, <3>1, Least
  <2>2. m \in 0 .. Len(a) /\ SubSeq(a, 1, Len(a) - m) \notin Blocks
    BY Zenon, <2>1
  <2>3. m # 0
    <3>1. SubSeq(a, 1, Len(a)) = a
      BY <1>0, SubSeqWhole, Zenon
    <3>2. Len(a) - 0 = Len(a)
      BY <1>0
    <3> QED BY Zenon, <2>2, <3>1, <3>2
  <2>4. m - 1 \in 0 .. Len(a) /\ ~(m <= m - 1)
    BY <1>0, <2>2, <2>3
  <2>5. m - 1 \notin Bad
    <3> HIDE DEF Bad
    <3> QED BY Zenon, <2>1, <2>4
  <2> DEFINE n == Len(a) - (m - 1)
             c == SubSeq(a, 1, n)
  <2>6. c \in Blocks
    BY Zenon, <2>4, <2>5
  <2>7. n \in 1 .. Len(a) /\ n - 1 = Len(a) - m
    BY <1>0, <2>2, <2>3
  <2> HIDE DEF n
  <2>8. Len(c) = n /\ SubSeq(c, 1, n - 1) = SubSeq(a, 1, n - 1)
    <3>1. \A k \in 0 .. Len(a) : SubSeq(a, 1, k) \in Seq(Nat) /\ Len(SubSeq(a, 1, k)) = k
      <4> TAKE k \in 0 .. Len(a)
      <4>1. k \in Int /\ \A i \in 1 .. k : a[i] \in Nat
        BY SMTT(60), <1>0, SeqIs
      <4> QED BY <4>1, SubSeqIs
    <3>2. n \in 0 .. Len(a) /\ n - 1 \in 0 .. Len(a) /\ n \in Int /\ n - 1 \in Int
      BY <1>0, <2>7
    <3>3. c \in Seq(Nat) /\ Len(c) = n /\ \A i \in 1 .. n : c[i] = a[i]
      <4>1. \A i \in 1 .. n : a[i] \in Nat
        BY SMTT(60), <1>0, <2>7, SeqIs
      <4>2. \A i \in 1 .. n - 1 + 1 : c[i] = a[1 + i - 1]
        BY SMTT(60), <3>2, <4>1, SubSeqIs
      <4>3. \A i \in 1 .. n : i \in 1 .. n - 1 + 1 /\ 1 + i - 1 = i
        BY <3>2
      <4>4. \A i \in 1 .. n : c[i] = a[i]
        <5> HIDE DEF c
        <5> QED BY Zenon, <4>2, <4>3
      <4> QED BY Zenon, <3>1, <3>2, <4>4
    <3> HIDE DEF c
    <3> DEFINE x == SubSeq(c, 1, n - 1)
               y == SubSeq(a, 1, n - 1)
    <3>4. \A i \in 1 .. n - 1 : c[i] \in Nat /\ a[i] \in Nat /\ c[i] = a[i]
      <4>1. \A i \in 1 .. n - 1 : i \in 1 .. n /\ i \in 1 .. Len(a)
        BY <1>0, <2>7, <3>2
      <4>2. \A i \in 1 .. Len(a) : a[i] \in Nat
        BY Zenon, <1>0, SeqIs
      <4> QED BY Zenon, <3>3, <4>1, <4>2
    <3>5. /\ x \in Seq(Nat) /\ y \in Seq(Nat) /\ Len(x) = Len(y) /\ Len(x) = n - 1
          /\ \A i \in 1 .. n - 1 - 1 + 1 : x[i] = c[1 + i - 1] /\ y[i] = a[1 + i - 1]
      BY SMTT(60), <2>7, <3>2, <3>4, SubSeqIs
    <3>6. \A i \in 1 .. n - 1 : i \in 1 .. n - 1 - 1 + 1 /\ 1 + i - 1 = i
      BY <3>2
    <3> HIDE DEF x, y
    <3>7. \A i \in 1 .. Len(x) : x[i] = y[i]
      BY Zenon, <3>4, <3>5, <3>6
    <3>8. x = y
      BY ZenonT(60), <3>5, <3>7, SeqsEqual
    <3> QED BY Zenon, <3>3, <3>8 DEF x, y
  <2> HIDE DEF c
  <2>9. c # Root
    BY <2>7, <2>8, EmptyIs DEF Root
  <2>10. Parent(c) \in Blocks /\ Parent(c) = SubSeq(a, 1, n - 1)
    BY Zenon, <2>6, <2>8, <2>9, BlockFacts DEF Parent
  <2> QED BY Zenon, <2>2, <2>7, <2>10
<1>2. Len(a) - h \in 0 .. Len(a) /\ Len(a) - (Len(a) - h) = h
  BY <1>0
<1>3. Len(a) - h \notin Bad
  BY Zenon, <1>1
<1> QED BY Zenon, <1>2, <1>3

(* A map from heights to blocks of those heights. *)
HeightMap(f) == DOMAIN f \subseteq Heights /\ \A h \in DOMAIN f : f[h] \in Blocks /\ Len(f[h]) = h

SessionsTyped == SessionBlocks /\ \A b \in DOMAIN sessions : sessions[b] \in Session

TypeInv ==
    /\ SessionType /\ ValidationType /\ Cached /\ SessionsTyped
    /\ HeightMap(heightToHash) /\ HeightMap(signed)
    /\ failed \subseteq Blocks /\ anchored \in BOOLEAN /\ restarts \in 0 .. MaxRestarts
    /\ net # NoMsg /\ net.kind # "share" => net.block # Root

LEMMA HeightMaps ==
    ASSUME NEW f, HeightMap(f)
    PROVE  /\ \A S : HeightMap(Without(f, S))
           /\ \A b \in Blocks \ {Root} : HeightMap(Put(f, Len(b), b))
<1>1. \A b \in Blocks \ {Root} : Len(b) \in Heights
  BY Zenon DEF Heights
<1> QED BY <1>1 DEF HeightMap, Without, Put, Overlay

LEMMA NewBlocksType ==
    ASSUME SessionsTyped, HeightMap(heightToHash), NEW S \in SUBSET (Blocks \ {Root}), OnNewBlocks(S)
    PROVE  SessionsTyped' /\ HeightMap(heightToHash)'
<1> DEFINE new == S \ DOMAIN sessions
           Opened(h) == CHOOSE b \in new : Len(b) = h
           hs == {Len(b) : b \in new}
           g == [h \in hs |-> Opened(h)]
<1>1. /\ sessions' = Overlay([b \in new |-> Fresh], sessions)
      /\ heightToHash' = Overlay(g, heightToHash)
  BY Zenon DEF OnNewBlocks
<1>2. Fresh \in Session
  BY ParametersAssumption DEF Fresh, Session, Stale
<1>3. SessionsTyped'
  BY Zenon, <1>1, <1>2 DEF SessionsTyped, SessionBlocks, Overlay
<1>4. ASSUME NEW h \in hs PROVE Opened(h) \in new /\ Len(Opened(h)) = h
  BY Zenon
<1>5. hs \subseteq Heights /\ new \subseteq Blocks
  BY Zenon DEF Heights
<1>6. DOMAIN g = hs /\ \A h \in hs : g[h] \in Blocks /\ Len(g[h]) = h
  <2> HIDE DEF Opened, hs
  <2> QED BY Zenon, <1>4, <1>5
<1> HIDE DEF g, hs
<1>7. HeightMap(heightToHash)'
  BY Zenon, <1>1, <1>5, <1>6 DEF HeightMap, Overlay
<1> QED BY Zenon, <1>3, <1>7

LEMMA TypeConnect == ASSUME TypeInv, NEW b \in Blocks, ConnectBlock(b) PROVE SessionsTyped' /\ HeightMap(heightToHash)'
<1>1. b # Root
  BY Zenon DEF ConnectBlock
<1> DEFINE S == {b} \cup IF anchored THEN {} ELSE {a \in Blocks \ {Root} : OnChain(a)}
<1>2. S \in SUBSET (Blocks \ {Root})
  BY Zenon, <1>1
<1>3. OnNewBlocks(S)
  BY Zenon DEF ConnectBlock
<1> HIDE DEF S
<1> QED BY Zenon, <1>2, <1>3, NewBlocksType DEF TypeInv

LEMMA TypeInsert ==
    ASSUME TypeInv, NEW b, NEW s \in Signers, Inserts(b, s)
    PROVE  SessionsTyped'
<1>1. b \in DOMAIN sessions /\ sessions' = [sessions EXCEPT ![b].shares = @ \cup {s}]
  BY Zenon DEF Inserts, ShareWanted, InsertShare
<1>2. sessions[b] \in Session
  BY Zenon, <1>1 DEF TypeInv, SessionsTyped
<1>3. sessions'[b] = [sessions[b] EXCEPT !.shares = @ \cup {s}] /\ DOMAIN sessions' = DOMAIN sessions
      /\ \A c \in DOMAIN sessions \ {b} : sessions'[c] = sessions[c]
  BY Zenon, <1>1
<1>4. sessions'[b] \in Session
  BY <1>2, <1>3 DEF Session
<1> QED BY Zenon, <1>3, <1>4 DEF TypeInv, SessionsTyped, SessionBlocks

LEMMA TypeAges == ASSUME TypeInv, WorkerTick \/ Clock PROVE SessionsTyped'
<1>1. CASE WorkerTick
  <2> DEFINE now == [b \in DOMAIN sessions |->
                        IF b \in Due THEN [sessions[b] EXCEPT !.assembled = TRUE] ELSE sessions[b]]
             gone == {b \in DOMAIN now : Expired(now[b])}
  <2>1. sessions' = Without(now, gone)
    BY Zenon, <1>1 DEF WorkerTick
  <2>2. ASSUME NEW b \in DOMAIN sessions PROVE now[b] \in Session
    <3>1. sessions[b] \in Session
      BY Zenon DEF TypeInv, SessionsTyped
    <3>2. [sessions[b] EXCEPT !.assembled = TRUE] \in Session
      BY Zenon, <3>1 DEF Session
    <3> QED BY Zenon, <3>1, <3>2
  <2>3. DOMAIN now = DOMAIN sessions
    BY Zenon
  <2> HIDE DEF now, gone
  <2> QED BY Zenon, <2>1, <2>2, <2>3 DEF TypeInv, SessionsTyped, SessionBlocks, Without
<1>2. CASE Clock
  <2>1. sessions' = [b \in DOMAIN sessions |-> [sessions[b] EXCEPT !.elapsed = Min({@ + 1, Stale})]]
    BY Zenon, <1>2 DEF Clock
  <2>2. Stale \in Nat
    BY SMTT(60), ParametersAssumption DEF Stale
  <2>3. ASSUME NEW x \in Nat PROVE Min({x, Stale}) \in 0 .. Stale
    <3>1. \E y \in {x, Stale} : \A z \in {x, Stale} : y <= z
      BY <2>2
    <3>2. Min({x, Stale}) \in {x, Stale} /\ Min({x, Stale}) <= Stale
      BY Zenon, <3>1 DEF Min
    <3> QED BY <2>2, <3>2
  <2>4. ASSUME NEW b \in DOMAIN sessions PROVE sessions'[b] \in Session
    <3>1. sessions[b] \in Session /\ sessions[b].elapsed + 1 \in Nat
      BY <2>2 DEF TypeInv, SessionsTyped, Session
    <3>2. Min({sessions[b].elapsed + 1, Stale}) \in 0 .. Stale
      BY Zenon, <2>3, <3>1
    <3>3. sessions'[b] = [sessions[b] EXCEPT !.elapsed = Min({sessions[b].elapsed + 1, Stale})]
      BY Zenon, <2>1
    <3> QED BY Zenon, <3>1, <3>2, <3>3 DEF Session
  <2>5. DOMAIN sessions' = DOMAIN sessions
    BY Zenon, <2>1
  <2> QED BY Zenon, <2>4, <2>5 DEF TypeInv, SessionsTyped, SessionBlocks
<1> QED BY Zenon, <1>1, <1>2

LEMMA TypeRestart == ASSUME TypeInv, Restart PROVE SessionsTyped' /\ HeightMap(heightToHash)' /\ HeightMap(signed)'
<1>1. PICK a \in Blocks :
         /\ sessions' = [b \in {b \in Blocks \ {Root} : IsAncestor(b, a)} |-> Fresh]
         /\ heightToHash' = [h \in 1 .. Len(a) |-> SubSeq(a, 1, h)]
  BY Zenon DEF Restart
<1>2. Fresh \in Session
  BY ParametersAssumption DEF Fresh, Session, Stale
<1>3. SessionsTyped'
  BY Zenon, <1>1, <1>2 DEF SessionsTyped, SessionBlocks
<1>4. ASSUME NEW h \in 1 .. Len(a) PROVE SubSeq(a, 1, h) \in Blocks /\ Len(SubSeq(a, 1, h)) = h
  <2>1. a \in Seq(Nat) /\ Len(a) \in Nat
    BY Zenon, BlockFacts
  <2>2. h \in 0 .. Len(a) /\ h \in Int /\ \A i \in 1 .. h : a[i] \in Nat
    BY <2>1, SeqIs
  <2>3. Len(SubSeq(a, 1, h)) = h
    BY <2>2, SubSeqIs
  <2> QED BY Zenon, <2>2, <2>3, PrefixBlock
<1>5. ASSUME NEW h \in 1 .. Len(a) PROVE h \in Heights
  <2>1. SubSeq(a, 1, h) # Root
    BY <1>4, EmptyIs DEF Root
  <2> QED BY ZenonT(60), <1>4, <2>1 DEF Heights
<1>6. HeightMap(heightToHash)'
  BY Zenon, <1>1, <1>4, <1>5 DEF HeightMap
<1>7. HeightMap(signed)'
  BY DEF Restart, HeightMap
<1> QED BY Zenon, <1>3, <1>6, <1>7

LEMMA SessionsTypedStep == ASSUME TypeInv, [Next]_vars PROVE SessionsTyped'
<1>1. CASE UNCHANGED sessions
  BY Zenon, <1>1 DEF TypeInv, SessionsTyped, SessionBlocks
<1>2. ASSUME NEW b \in Blocks, ConnectBlock(b) PROVE SessionsTyped'
  BY Zenon, <1>2, TypeConnect
<1>3. CASE AddOwnShare
  <2>1. CASE ShareStillWanted(val.block, Me)
    <3>1. Inserts(val.block, Me) /\ Me \in Signers
      BY SMTT(60), <1>3, <2>1, ParametersAssumption DEF AddOwnShare, ShareStillWanted, Inserts
    <3> QED BY Zenon, <3>1, TypeInsert
  <2> QED BY Zenon, <1>1, <1>3, <2>1 DEF AddOwnShare
<1>4. CASE AddShare
  <2> DEFINE s == CHOOSE x \in net.signers : TRUE
  <2>1. s \in Signers
    BY Zenon, <1>4 DEF AddShare, TypeInv, SessionType, Message
  <2>2. CASE ShareStillWanted(net.block, s)
    <3>1. Inserts(net.block, s)
      BY Zenon, <1>4, <2>2 DEF AddShare, ShareStillWanted, Inserts
    <3> HIDE DEF s
    <3> QED BY Zenon, <2>1, <3>1, TypeInsert
  <2> QED BY Zenon, <1>1, <1>4, <2>2 DEF AddShare
<1>5. CASE DisconnectTip
  <2>1. sessions' = Without(sessions, {tip})
    BY <1>5 DEF DisconnectTip, BlockDisconnected
  <2> QED BY Zenon, <2>1 DEF TypeInv, SessionsTyped, SessionBlocks, Without
<1>6. CASE Restart
  BY Zenon, <1>6, TypeRestart
<1>7. CASE WorkerTick \/ Clock
  BY Zenon, <1>7, TypeAges
<1>8. CASE SignBlock \/ DoNotSign \/ CheckOwnShare \/ FinishConnect
  BY Zenon, <1>1, <1>8 DEF SignBlock, DoNotSign, CheckOwnShare, FinishConnect
<1>9. CASE \/ \E b \in Blocks, s \in Signers : RecvShare(b, s)
           \/ \E b \in Blocks, S \in SUBSET Signers : RecvSeal(b, S)
           \/ CheckSeal \/ AddSeal \/ Invalid
  BY Zenon, <1>1, <1>9 DEF RecvShare, RecvSeal, CheckSeal, AddSeal, Invalid
<1>10. CASE UNCHANGED vars
  BY Zenon, <1>1, <1>10 DEF vars
<1> QED BY Zenon, <1>2, <1>3, <1>4, <1>5, <1>6, <1>7, <1>8, <1>9, <1>10 DEF Next, Validation, MessageHandler

LEMMA HeightMapsStep ==
    ASSUME TypeInv, [Next]_vars
    PROVE  HeightMap(heightToHash)' /\ HeightMap(signed)'
<1>0. HeightMap(heightToHash) /\ HeightMap(signed)
  BY Zenon DEF TypeInv
<1>1. ASSUME UNCHANGED heightToHash PROVE HeightMap(heightToHash)'
  BY Zenon, <1>0, <1>1 DEF HeightMap
<1>2. ASSUME UNCHANGED signed PROVE HeightMap(signed)'
  BY Zenon, <1>0, <1>2 DEF HeightMap
<1>3. CASE Validation
  <2>1. ASSUME NEW b \in Blocks, ConnectBlock(b) PROVE HeightMap(heightToHash)' /\ HeightMap(signed)'
    BY Zenon, <1>2, <2>1, TypeConnect DEF ConnectBlock
  <2>2. CASE SignBlock
    <3>1. val.block \in Blocks \ {Root} /\ UNCHANGED heightToHash /\ signed' = Recorded(val.block)
      BY Zenon, <2>2 DEF SignBlock, TypeInv, ValidationType
    <3>2. HeightMap(Recorded(val.block))
      <4>1. \A S : HeightMap(Put(Without(signed, S), Len(val.block), val.block))
        BY Zenon, <1>0, <3>1, HeightMaps
      <4> QED BY Zenon, <1>0, <4>1 DEF Recorded
    <3> QED BY Zenon, <1>1, <3>1, <3>2 DEF HeightMap
  <2>3. CASE DisconnectTip
    <3>1. /\ heightToHash' = Without(heightToHash, {Len(tip)})
          /\ signed' = Without(signed, {Len(tip)})
      BY Zenon, <2>3 DEF DisconnectTip, BlockDisconnected
    <3>2. HeightMap(Without(heightToHash, {Len(tip)})) /\ HeightMap(Without(signed, {Len(tip)}))
      BY Zenon, <1>0, HeightMaps
    <3> QED BY ZenonT(60), <3>1, <3>2 DEF HeightMap
  <2>4. CASE DoNotSign \/ CheckOwnShare \/ AddOwnShare \/ FinishConnect
    BY Zenon, <1>1, <1>2, <2>4 DEF DoNotSign, CheckOwnShare, AddOwnShare, FinishConnect
  <2> QED BY SMTT(60), <1>3, <2>1, <2>2, <2>3, <2>4 DEF Validation
<1>4. CASE MessageHandler
  <2>1. CASE AddSeal
    <3>1. net.block \in Blocks \ {Root} /\ UNCHANGED signed
      BY Zenon, <2>1 DEF AddSeal, TypeInv, SessionType, Message
    <3>2. CASE CommitSeal(net.block, net.signers)
      <4> DEFINE hh == Put(heightToHash, Len(net.block), net.block)
      <4>1. PICK S : heightToHash' = Without(hh, S)
        BY Zenon, <3>2 DEF CommitSeal
      <4>2. HeightMap(hh)
        BY Zenon, <1>0, <3>1, HeightMaps
      <4> HIDE DEF hh
      <4>3. HeightMap(Without(hh, S))
        BY Zenon, <4>2, HeightMaps
      <4> QED BY Zenon, <1>2, <3>1, <4>1, <4>3 DEF HeightMap
    <3> QED BY Zenon, <1>1, <1>2, <2>1, <3>1, <3>2 DEF AddSeal
  <2>2. CASE ~AddSeal
    BY Zenon, <1>1, <1>2, <1>4, <2>2 DEF MessageHandler, RecvShare, RecvSeal, AddShare, CheckSeal, Invalid
  <2> QED BY Zenon, <2>1, <2>2
<1>5. CASE WorkerTick
  <2>1. PICK S : heightToHash' = Without(heightToHash, S) /\ UNCHANGED signed
    BY Zenon, <1>5 DEF WorkerTick
  <2>2. HeightMap(Without(heightToHash, S))
    BY Zenon, <1>0, HeightMaps
  <2> QED BY Zenon, <1>2, <2>1, <2>2 DEF HeightMap
<1>6. CASE Restart
  BY Zenon, <1>6, TypeRestart
<1>7. CASE Clock \/ UNCHANGED vars
  BY Zenon, <1>1, <1>2, <1>7 DEF Clock, vars
<1> QED BY Zenon, <1>3, <1>4, <1>5, <1>6, <1>7 DEF Next

LEMMA RestTyped ==
    ASSUME TypeInv, [Next]_vars
    PROVE  /\ failed' \subseteq Blocks /\ restarts' \in 0 .. MaxRestarts
           /\ net' # NoMsg /\ net'.kind # "share" => net'.block # Root
<1>1. CASE Validation
  <2>1. UNCHANGED <<net, restarts>> /\ (UNCHANGED failed \/ failed' = failed \cup {val.block})
    BY ZenonT(60), <1>1 DEF Validation, ConnectBlock, SignBlock, DoNotSign, CheckOwnShare, AddOwnShare,
                FinishConnect, DisconnectTip, chainVars
  <2> QED BY Zenon, <2>1 DEF TypeInv, ValidationType
<1>2. CASE MessageHandler
  <2>1. UNCHANGED <<failed, restarts>>
    BY Zenon, <1>2 DEF MessageHandler, RecvShare, RecvSeal, AddShare, CheckSeal, AddSeal, Invalid, chainVars
  <2>2. net' # NoMsg /\ net'.kind # "share" => net'.block # Root
    <3>1. CASE CheckSeal
      <4>1. net \in Message /\ net.block # Root
        BY Zenon, <3>1 DEF CheckSeal, TypeInv, SessionType
      <4>2. [net EXCEPT !.kind = "checked"].block # Root
        BY Zenon, <4>1 DEF Message
      <4> QED BY Zenon, <3>1, <4>2 DEF CheckSeal
    <3>2. CASE AddShare \/ AddSeal \/ Invalid
      BY Zenon, <3>2 DEF AddShare, AddSeal, Invalid
    <3>3. ASSUME NEW b \in Blocks, NEW s \in Signers, RecvShare(b, s) PROVE net'.kind = "share"
      BY Zenon, <3>3 DEF RecvShare, Share
    <3>4. ASSUME NEW b \in Blocks, NEW S \in SUBSET Signers, RecvSeal(b, S) PROVE net'.block # Root
      BY Zenon, <3>4 DEF RecvSeal
    <3> QED BY Zenon, <1>2, <3>1, <3>2, <3>3, <3>4 DEF MessageHandler
  <2> QED BY Zenon, <2>1, <2>2 DEF TypeInv
<1>3. CASE WorkerTick \/ Clock \/ UNCHANGED vars
  <2>1. UNCHANGED <<failed, restarts, net>>
    BY Zenon, <1>3 DEF WorkerTick, Clock, chainVars, vars
  <2> QED BY Zenon, <2>1 DEF TypeInv
<1>4. CASE Restart
  <2>1. restarts < MaxRestarts /\ restarts' = restarts + 1 /\ failed' = failed /\ net' = NoMsg
    BY Zenon, <1>4 DEF Restart
  <2>2. restarts' \in 0 .. MaxRestarts
    BY <2>1, ParametersAssumption DEF TypeInv
  <2> QED BY Zenon, <2>1, <2>2 DEF TypeInv
<1> QED BY Zenon, <1>1, <1>2, <1>3, <1>4 DEF Next

LEMMA AnchoredTyped == ASSUME TypeInv, [Next]_vars PROVE anchored' \in BOOLEAN
<1>1. \/ UNCHANGED anchored \/ anchored' = TRUE \/ anchored' = FALSE
  BY Zenon DEF Next, Validation, MessageHandler, ConnectBlock, SignBlock, DoNotSign, CheckOwnShare, AddOwnShare,
         FinishConnect, DisconnectTip, RecvShare, RecvSeal, AddShare, CheckSeal, AddSeal, Invalid,
         WorkerTick, Clock, Restart, chainVars, vars
<1> QED BY <1>1, Zenon DEF TypeInv

LEMMA TypeInvariant == Spec => [](TypeInv /\ SignInv)
<1>1. Init => TypeInv /\ SignInv
  <2>1. SUFFICES ASSUME Init PROVE TypeInv /\ SignInv
    BY Zenon, SMTT(60)
  <2>2. SessionType /\ ValidationType /\ SignInv
    BY SMTT(60), <2>1, SessionTypeInit, ParametersAssumption
       DEF Init, ValidationType, SignInv, OneSignaturePerVisit, Idle
  <2>3. Cached /\ SessionsTyped /\ HeightMap(heightToHash) /\ HeightMap(signed)
    BY SMTT(60), <2>1, EmptyIs DEF Init, Cached, OrderCoversSeals, SessionsTyped, SessionBlocks, HeightMap
  <2>4. failed \subseteq Blocks /\ restarts \in 0 .. MaxRestarts /\ net = NoMsg
    BY SMTT(60), <2>1, ParametersAssumption DEF Init
  <2>5. anchored \in BOOLEAN
    BY <2>1, Zenon DEF Init
  <2> QED BY Zenon, <2>2, <2>3, <2>4, <2>5 DEF TypeInv
<1>2. TypeInv /\ SignInv /\ [Next]_vars => (TypeInv /\ SignInv)'
  <2>1. SUFFICES ASSUME TypeInv, SignInv, [Next]_vars PROVE TypeInv' /\ SignInv'
    BY Zenon
  <2>2. SessionType' /\ ValidationType' /\ SignInv'
    BY Zenon, <2>1, SessionTypeStep, SignStep DEF TypeInv
  <2>3. Cached' /\ SessionsTyped' /\ HeightMap(heightToHash)' /\ HeightMap(signed)'
    BY Zenon, <2>1, CacheStep, SessionsTypedStep, HeightMapsStep DEF TypeInv, SessionsTyped
  <2> QED BY Zenon, <2>1, <2>2, <2>3, RestTyped, AnchoredTyped DEF TypeInv
<1> QED BY <1>1, <1>2, PTL DEF Spec

(* The maps of the manager hold blocks, heights and signers of the tree,   *)
(* whatever the three threads do in between each other's critical sections. *)
THEOREM SealType == Spec => []TypeOK
<1>1. TypeInv => TypeOK
  BY Zenon DEF TypeInv, TypeOK, SessionType, ValidationType, Cached, SessionsTyped, SessionBlocks, HeightMap
<1> QED BY <1>1, TypeInvariant, PTL

(* Every cached seal stays in m_sealInsertionOrder through disconnects,    *)
(* replacements and evictions, so the eviction loops of                    *)
(* CleanupStaleSessions and AddAssembledSeal end before the deque is empty. *)
THEOREM SealOrder == Spec => []OrderCoversSeals
<1>1. TypeInv => OrderCoversSeals
  BY Zenon DEF TypeInv, Cached
<1> QED BY <1>1, TypeInvariant, PTL
=============================================================================
