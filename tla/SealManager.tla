------------------------------ MODULE SealManager ------------------------------
(***************************************************************************)
(* CSealManager (hmp/seal_manager.cpp) among the three threads that use    *)
(* it: validation, which opens a session for the block it connects and     *)
(* signs it; the message handler, which adds the shares and seals of       *)
(* peers; and the worker, which turns sessions into seals.                 *)
(*                                                                         *)
(* An action is one critical section of CSealManager::cs, or of cs_main.   *)
(* Signatures, VRF proofs and eligibility are verdicts chosen where the    *)
(* code verifies them, outside the locks.  A block is the sequence of      *)
(* branches taken from the last block before stage 3; its hash is itself.  *)
(* prevSealHash is a function of the block (heights from                   *)
(* nPrevSealHashFixHeight on) and is left out, as are rate limits, relay   *)
(* and the diagnostic record of signing attempts.                          *)
(***************************************************************************)
EXTENDS Integers, Sequences, FiniteSets, FiniteSetsExt, SequencesExt

CONSTANTS
    Blocks,         \* a finite tree: a prefix-closed set of sequences
    Signers,        \* public keys that may sign
    Me,             \* the key of m_identity
    Window,         \* m_signingWindowMs
    Tolerance,      \* the network tolerance on late shares (2000 ms)
    Grace,          \* m_gracePeriodMs
    Depth,          \* m_sealTrailingDepth
    MaxShares,      \* MAX_SEAL_SIGNERS (200)
    MaxSeals,       \* seals and heights kept (20)
    SignedKept,     \* depth of m_signedBlocks (100)
    MaxBad,         \* bound on the blocks that fail late in ConnectBlock
    MaxRestarts,    \* bound on the number of restarts
    MaxOrder,       \* bound on the deque, which may hold a block twice
    NoMsg           \* the message handler is idle

VARIABLES
    tip,            \* m_chain.Tip()
    failed,         \* blocks that failed ConnectBlock
    anchored,       \* m_hmp_state_anchor is the tip
    sessions,       \* m_sessions
    seals,          \* m_assembledSeals: the signers of each seal
    order,          \* m_sealInsertionOrder
    heightToHash,   \* m_heightToHash
    signed,         \* m_signedBlocks
    val,            \* the thread in ConnectBlock: where it is, and its block
    net,            \* the message the handler has checked and not yet applied
    published,      \* history: blocks whose own share was broadcast; live
                    \* until the block's height is disconnected
    restarts

chainVars == <<tip, failed, anchored, restarts>>
cacheVars == <<seals, order>>
vars == <<chainVars, cacheVars, sessions, heightToHash, signed, val, net, published>>

Root == <<>>
Parent(b) == SubSeq(b, 1, Len(b) - 1)
IsAncestor(a, b) == Len(a) <= Len(b) /\ SubSeq(b, 1, Len(a)) = a
OnChain(b) == IsAncestor(b, tip)
Idle == [pc |-> "idle", block |-> Root]

ASSUME ParametersAssumption ==
    /\ IsFiniteSet(Blocks) /\ Root \in Blocks
    /\ \A b \in Blocks \ {Root} : b \in Seq(Nat) /\ Parent(b) \in Blocks
    /\ Me \in Signers /\ IsFiniteSet(Signers)
    /\ {Window, Grace, Depth, MaxShares, MaxSeals} \subseteq Nat \ {0}
    /\ Window + Tolerance <= Grace
    /\ Tolerance \in Nat /\ SignedKept \in Nat /\ MaxBad \in Nat /\ MaxRestarts \in Nat /\ MaxOrder \in Nat

(* A session's age stops mattering once the cleanup drops it whatever its state. *)
Stale == 2 * Grace + 1
Session == [elapsed : 0 .. Stale, shares : SUBSET Signers, assembled : BOOLEAN]
Fresh == [elapsed |-> 0, shares |-> {}, assembled |-> FALSE]

Partial(D, R) == UNION {[d -> R] : d \in SUBSET D}
Heights == {Len(b) : b \in Blocks \ {Root}}
Share(b, s) == [kind |-> "share", block |-> b, signers |-> {s}]
Message == [kind : {"share", "seal", "checked"}, block : Blocks, signers : SUBSET Signers]

(* The maps of the manager hold blocks, heights and signers of the instance. *)
TypeOK ==
    /\ tip \in Blocks /\ failed \subseteq Blocks /\ anchored \in BOOLEAN
    /\ DOMAIN sessions \subseteq Blocks /\ \A b \in DOMAIN sessions : sessions[b] \in Session
    /\ DOMAIN seals \subseteq Blocks /\ \A b \in DOMAIN seals : seals[b] \in (SUBSET Signers) \ {{}}
    /\ order \in Seq(Blocks)
    /\ \A f \in {heightToHash, signed} :
           DOMAIN f \subseteq Heights /\ \A h \in DOMAIN f : f[h] \in Blocks /\ Len(f[h]) = h
    /\ val \in [pc : {"idle", "opened", "share", "checked", "finish"}, block : Blocks]
    /\ net = NoMsg \/ net \in Message
    /\ published \in SUBSET [block : Blocks, live : BOOLEAN]
    /\ restarts \in 0 .. MaxRestarts

Init ==
    /\ tip = Root /\ failed = {} /\ anchored = TRUE /\ restarts = 0
    /\ sessions = <<>> /\ seals = <<>> /\ order = <<>>
    /\ heightToHash = <<>> /\ signed = <<>>
    /\ val = Idle /\ net = NoMsg /\ published = {}

-----------------------------------------------------------------------------
(* Helpers on the maps. *)

Overlay(f, g) == [x \in DOMAIN f \cup DOMAIN g |-> IF x \in DOMAIN f THEN f[x] ELSE g[x]]
Put(f, x, v) == Overlay([y \in {x} |-> v], f)
Without(f, S) == [x \in DOMAIN f \ S |-> f[x]]

(* The sequence q without the elements of S. *)
ErasedUpTo(q, S) ==
    LET f[i \in 0 .. Len(q)] == IF i = 0 THEN <<>>
                                ELSE IF q[i] \in S THEN f[i - 1] ELSE Append(f[i - 1], q[i])
    IN  f
Erased(q, S) == ErasedUpTo(q, S)[Len(q)]

(* OnNewBlock for every block of S: a block that has a session keeps it, and
   does not touch the height index either. *)
OnNewBlocks(S) ==
    LET new == S \ DOMAIN sessions
    IN  /\ sessions' = Overlay([b \in new |-> Fresh], sessions)
        /\ heightToHash' = Overlay([h \in {Len(b) : b \in new} |-> CHOOSE b \in new : Len(b) = h],
                                   heightToHash)

(* The loops that pop the front of the order while the cache is over its
   size: the blocks they pop. *)
Popped(ss, q) ==
    LET Left(k) == DOMAIN ss \ ToSet(SubSeq(q, 1, k))
        n == CHOOSE k \in 0 .. Len(q) :
                 /\ Cardinality(Left(k)) <= MaxSeals
                 /\ \A j \in 0 .. k - 1 : Cardinality(Left(j)) > MaxSeals
    IN  SubSeq(q, 1, n)

HighestHeights(f) ==
    {h \in DOMAIN f : Cardinality({g \in DOMAIN f : g > h}) < MaxSeals}

-----------------------------------------------------------------------------
(* AddSealShare: a check under the lock, verification, a second check and
   the insertion.  Only the first one looks at the clock. *)

ShareWanted(b, s) ==
    /\ b \in DOMAIN sessions
    /\ ~sessions[b].assembled
    /\ s \notin sessions[b].shares
    /\ Cardinality(sessions[b].shares) < MaxShares

ShareInTime(b) == sessions[b].elapsed <= Window + Tolerance

InsertShare(b, s) == sessions' = [sessions EXCEPT ![b].shares = @ \cup {s}]

(* Mutants of the second check. *)
ShareWantedUnbounded(b, s) == b \in DOMAIN sessions /\ ~sessions[b].assembled /\ s \notin sessions[b].shares
ShareWantedLate(b, s) ==
    /\ b \in DOMAIN sessions
    /\ s \notin sessions[b].shares
    /\ Cardinality(sessions[b].shares) < MaxShares

ShareStillWanted(b, s) == ShareWanted(b, s)

-----------------------------------------------------------------------------
(* Validation: ConnectBlock, DisconnectTip and a restart. *)

(* ConnectBlock opens the block's session.  The first connect after a
   disconnect rebuilds the HMP state before it, which opens the sessions of
   the window's blocks again. *)
ConnectBlock(b) ==
    /\ val = Idle
    /\ b \notin failed /\ b # Root /\ Parent(b) = tip
    /\ OnNewBlocks({b} \cup IF anchored THEN {} ELSE {a \in Blocks \ {Root} : OnChain(a)})
    /\ anchored' = TRUE
    /\ val' = [pc |-> "opened", block |-> b]
    /\ UNCHANGED <<tip, failed, restarts, cacheVars, signed, net, published>>

(* The height SignBlock finds for a block; no height, no record. *)
KnownHeight(b) == b \in DOMAIN sessions \/ \E h \in DOMAIN heightToHash : heightToHash[h] = b

SignedElsewhere(b) == Len(b) \in DOMAIN signed /\ signed[Len(b)] # b

(* Mutant: the equivocation check is missing. *)
NeverRefused(b) == FALSE

(* SignBlock refuses a block when another one is recorded at its height. *)
Refused(b) == KnownHeight(b) /\ SignedElsewhere(b)

(* Mutant: the record is written one height too high. *)
RecordedAbove(b) == IF KnownHeight(b) THEN Put(signed, Len(b) + 1, b) ELSE signed

Recorded(b) ==
    LET h == Len(b)
        kept == {k \in DOMAIN signed : h <= SignedKept \/ k >= h - SignedKept}
    IN  IF KnownHeight(b) THEN Put(Without(signed, DOMAIN signed \ kept), h, b) ELSE signed

(* The record is written before the checks that may still give no share. *)
SignBlock ==
    /\ val.pc = "opened" /\ ~Refused(val.block)
    /\ signed' = Recorded(val.block)
    /\ \E selected \in BOOLEAN : val' = [val EXCEPT !.pc = IF selected THEN "share" ELSE "finish"]
    /\ UNCHANGED <<chainVars, cacheVars, sessions, heightToHash, net, published>>

(* HMP is switched off, the node is quarantined, or SignBlock refuses. *)
DoNotSign ==
    /\ val.pc = "opened"
    /\ val' = [val EXCEPT !.pc = "finish"]
    /\ UNCHANGED <<chainVars, cacheVars, sessions, heightToHash, signed, net, published>>

CheckOwnShare ==
    /\ val.pc = "share"
    /\ val' = [val EXCEPT !.pc = IF ShareWanted(val.block, Me) /\ ShareInTime(val.block)
                                 THEN "checked" ELSE "finish"]
    /\ UNCHANGED <<chainVars, cacheVars, sessions, heightToHash, signed, net, published>>

(* The own share is inserted and broadcast, or has become unwanted. *)
AddOwnShare ==
    LET b == val.block
    IN  /\ val.pc = "checked"
        /\ val' = [val EXCEPT !.pc = "finish"]
        /\ IF ShareStillWanted(b, Me)
           THEN /\ InsertShare(b, Me)
                /\ published' = published \cup {[block |-> b, live |-> TRUE]}
           ELSE UNCHANGED <<sessions, published>>
        /\ UNCHANGED <<chainVars, cacheVars, heightToHash, signed, net>>

(* ConnectBlock ends: the block is the tip, or one of the checks after the
   seal manager's part rejects it. *)
FinishConnect ==
    /\ val.pc = "finish"
    /\ val' = Idle
    /\ \/ tip' = val.block /\ UNCHANGED failed
       \/ Cardinality(failed) < MaxBad /\ failed' = failed \cup {val.block} /\ UNCHANGED tip
    /\ UNCHANGED <<anchored, restarts, cacheVars, sessions, heightToHash, signed, net, published>>

(* Mutant: the disconnect forgets to erase the seal. *)
BlockDisconnectedKeepsSeal(b) ==
    /\ sessions' = Without(sessions, {b})
    /\ order' = Erased(order, {b})
    /\ heightToHash' = Without(heightToHash, {Len(b)})
    /\ signed' = Without(signed, {Len(b)})
    /\ UNCHANGED seals

BlockDisconnected(b) ==
    /\ sessions' = Without(sessions, {b})
    /\ seals' = Without(seals, {b})
    /\ order' = Erased(order, {b})
    /\ heightToHash' = Without(heightToHash, {Len(b)})
    /\ signed' = Without(signed, {Len(b)})

DisconnectTip ==
    /\ val = Idle /\ tip # Root
    /\ BlockDisconnected(tip)
    /\ tip' = Parent(tip) /\ anchored' = FALSE
    /\ published' = {IF Len(p.block) = Len(tip) THEN [p EXCEPT !.live = FALSE] ELSE p : p \in published}
    /\ UNCHANGED <<failed, restarts, val, net>>

(* Everything but the block index and the flushed tip is lost; the start
   rebuilds the HMP state of the window, sessions included. *)
Restart ==
    /\ restarts < MaxRestarts /\ restarts' = restarts + 1
    /\ \E a \in Blocks :
           LET window == {b \in Blocks \ {Root} : IsAncestor(b, a)}
           IN  /\ OnChain(a)
               /\ tip' = a
               /\ sessions' = [b \in window |-> Fresh]
               /\ heightToHash' = [h \in 1 .. Len(a) |-> SubSeq(a, 1, h)]
    /\ seals' = <<>> /\ order' = <<>> /\ signed' = <<>>
    /\ anchored' = TRUE /\ val' = Idle /\ net' = NoMsg
    /\ published' = {[p EXCEPT !.live = FALSE] : p \in published}
    /\ UNCHANGED failed

-----------------------------------------------------------------------------
(* The message handler: one message at a time. *)

RecvShare(b, s) ==
    /\ net = NoMsg
    /\ ShareWanted(b, s) /\ ShareInTime(b)
    /\ net' = Share(b, s)
    /\ UNCHANGED <<chainVars, cacheVars, sessions, heightToHash, signed, val, published>>

AddShare ==
    LET s == CHOOSE x \in net.signers : TRUE
    IN  /\ net # NoMsg /\ net.kind = "share"
        /\ IF ShareStillWanted(net.block, s) THEN InsertShare(net.block, s) ELSE UNCHANGED sessions
        /\ net' = NoMsg
        /\ UNCHANGED <<chainVars, cacheVars, heightToHash, signed, val, published>>

(* SEALASM: the seal's block must be on the active chain; cs_main is then
   released. *)
RecvSeal(b, S) ==
    /\ net = NoMsg /\ val = Idle
    /\ b # Root /\ OnChain(b)
    /\ S # {} /\ Cardinality(S) <= MaxShares
    /\ net' = [kind |-> "seal", block |-> b, signers |-> S]
    /\ UNCHANGED <<chainVars, cacheVars, sessions, heightToHash, signed, val, published>>

HasAsGood(b, S) == b \in DOMAIN seals /\ Cardinality(seals[b]) >= Cardinality(S)

(* AddAssembledSeal has nothing to do: an equal or better seal of the block,
   or of the other block the index holds at its height. *)
SealUnwanted(b, S) ==
    \/ HasAsGood(b, S)
    \/ /\ Len(b) \in DOMAIN heightToHash
       /\ heightToHash[Len(b)] # b
       /\ HasAsGood(heightToHash[Len(b)], S)

CheckSeal ==
    /\ net # NoMsg /\ net.kind = "seal"
    /\ net' = IF SealUnwanted(net.block, net.signers) THEN NoMsg ELSE [net EXCEPT !.kind = "checked"]
    /\ UNCHANGED <<chainVars, cacheVars, sessions, heightToHash, signed, val, published>>

(* The seal takes its height in the index; the seal of the block that held
   the height goes, and the oldest seals go if the cache is full. *)
CommitSeal(b, S) ==
    LET h == Len(b)
        loser == IF h \in DOMAIN heightToHash THEN {heightToHash[h]} \ {b} ELSE {}
        ss == Put(Without(seals, loser), b, S)
        q == Append(Erased(order, loser \cup {b}), b)
        hh == Put(heightToHash, h, b)
        old == Popped(ss, q)
    IN  /\ seals' = Without(ss, ToSet(old))
        /\ order' = SubSeq(q, Len(old) + 1, Len(q))
        /\ heightToHash' = Without(hh, {g \in DOMAIN hh : hh[g] \in ToSet(old)})

AddSeal ==
    /\ net # NoMsg /\ net.kind = "checked"
    /\ IF SealUnwanted(net.block, net.signers)
       THEN UNCHANGED <<cacheVars, heightToHash>>
       ELSE CommitSeal(net.block, net.signers)
    /\ net' = NoMsg
    /\ UNCHANGED <<chainVars, sessions, signed, val, published>>

(* The share or the seal fails its verification between the two locks. *)
Invalid ==
    /\ net # NoMsg /\ net.kind \in {"share", "checked"}
    /\ net' = NoMsg
    /\ UNCHANGED <<chainVars, cacheVars, sessions, heightToHash, signed, val, published>>

-----------------------------------------------------------------------------
(* The worker and the clock. *)

(* The sessions TryAssemble turns into a seal.  Every share was verified, so
   the aggregate is valid. *)
Due == {b \in DOMAIN sessions : ~sessions[b].assembled /\ sessions[b].elapsed >= Window
                                /\ sessions[b].shares # {}}

(* Mutant: only assembled sessions are cleaned up. *)
ExpiredAssembled(x) == x.elapsed > Grace /\ x.assembled

Expired(x) == (x.elapsed > Grace /\ x.assembled) \/ x.elapsed > 2 * Grace

(* One round of the worker under the lock: TryAssemble, CleanupStaleSessions. *)
WorkerTick ==
    LET now == [b \in DOMAIN sessions |-> IF b \in Due THEN [sessions[b] EXCEPT !.assembled = TRUE]
                                          ELSE sessions[b]]
        ss == Overlay([b \in Due |-> sessions[b].shares], seals)
        q == order \o SetToSeq(Due)
        old == Popped(ss, q)
    IN  /\ Len(q) <= MaxOrder
        /\ sessions' = Without(now, {b \in DOMAIN now : Expired(now[b])})
        /\ seals' = Without(ss, ToSet(old))
        /\ order' = SubSeq(q, Len(old) + 1, Len(q))
        /\ heightToHash' = Without(heightToHash, DOMAIN heightToHash \ HighestHeights(heightToHash))
        /\ UNCHANGED <<chainVars, signed, val, net, published>>

Clock ==
    /\ \E b \in DOMAIN sessions : sessions[b].elapsed < Stale
    /\ sessions' = [b \in DOMAIN sessions |-> [sessions[b] EXCEPT !.elapsed = Min({@ + 1, Stale})]]
    /\ UNCHANGED <<chainVars, cacheVars, heightToHash, signed, val, net, published>>

Validation ==
    \/ \E b \in Blocks : ConnectBlock(b)
    \/ SignBlock \/ DoNotSign \/ CheckOwnShare \/ AddOwnShare \/ FinishConnect
    \/ DisconnectTip

MessageHandler ==
    \/ \E b \in Blocks, s \in Signers : RecvShare(b, s)
    \/ \E b \in Blocks, S \in SUBSET Signers : RecvSeal(b, S)
    \/ AddShare \/ CheckSeal \/ AddSeal \/ Invalid

Next == Validation \/ MessageHandler \/ WorkerTick \/ Clock \/ Restart
Spec == Init /\ [][Next]_vars

(* The worker thread loops for as long as the node runs, and time passes. *)
FairSpec == Spec /\ WF_vars(WorkerTick) /\ WF_vars(Clock)

-----------------------------------------------------------------------------
(* Every cached seal is in m_sealInsertionOrder, so the eviction loops of
   CleanupStaleSessions and AddAssembledSeal, which read the front of the
   deque until the cache fits, end before the deque is empty. *)
OrderCoversSeals == DOMAIN seals \subseteq ToSet(order)

(* A session never holds more than MAX_SEAL_SIGNERS shares, although the
   validation thread and the message handler both pass AddSealShare's first
   check before either inserts. *)
ShareQuota == \A b \in DOMAIN sessions : Cardinality(sessions[b].shares) <= MaxShares

(* A session the worker has assembled takes no further share: a share that
   AddSealShare accepts, and the node relays, is in the seal it broadcasts. *)
AssembledFrozen ==
    [][\A b \in DOMAIN sessions \cap DOMAIN sessions' :
           sessions[b].assembled /\ restarts' = restarts
               => sessions'[b].shares = sessions[b].shares]_vars

(* Between two disconnects of a height, or restarts, the node broadcasts its
   own share for one block of that height: SignBlock's record also covers a
   block that ConnectBlock rejected after signing it. *)
OneSignaturePerVisit ==
    \A p, q \in published :
        p.live /\ q.live /\ Len(p.block) = Len(q.block) => p.block = q.block

(* A session does not outlive the cleanup: every session is eventually gone,
   with or without shares. *)
SessionsEnd == \A b \in Blocks : b \in DOMAIN sessions ~> b \notin DOMAIN sessions

(* The comment in SignBlock: the node refuses to sign a different block at a
   height it has already signed. *)
NoEquivocation ==
    \A p, q \in published : Len(p.block) = Len(q.block) => p.block = q.block

GetSealForTemplate(height) ==
    LET target == height - Depth
    IN  IF target \in DOMAIN heightToHash THEN {heightToHash[target]} \cap DOMAIN seals ELSE {}

(* The comment at ConnectBlock's OnNewBlock: the height index is consistent
   with the chain.  A template built while cs_main is free takes a seal of
   the active chain's block at the trailing depth. *)
TemplateSealOnChain ==
    val = Idle => \A b \in GetSealForTemplate(Len(tip) + 1) : OnChain(b)

=============================================================================
