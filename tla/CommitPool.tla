------------------------------ MODULE CommitPool ------------------------------
(***************************************************************************)
(* CHMPCommitPool (hmp/commitment.cpp): the commitments a node has heard   *)
(* of and that wait for a block, beside the registry of HMPState that      *)
(* holds the ones on the chain.                                            *)
(*                                                                         *)
(* The message thread adds to the pool without cs_main, in three critical  *)
(* sections; the thread that connects a block updates the registry first   *)
(* and the pool after it.  The steps of HMPState are taken as they are.    *)
(***************************************************************************)
EXTENDS HMPState

CONSTANTS
    Me,                 \* the identity of the node
    Rank,               \* the order of the keys in m_pending
    MaxPending,         \* MAX_PENDING
    MaxCommitments,     \* MAX_COMMITMENTS_PER_BLOCK
    TTL,                \* COMMIT_TTL_SECS
    Future,             \* how far ahead of the clock a timestamp may be
    MaxTime,            \* bound on the clock
    NoAdd

VARIABLES
    pool,       \* m_pending: the timestamp of each key
    add,        \* the call of Add in progress
    cleanup,    \* the keys ConnectBlock has yet to remove from the pool
    now,        \* GetTime
    late        \* history: keys the registry gained behind the pool's back

poolVars == <<pool, add, cleanup, now, late>>
allVars  == <<vars, poolVars>>

ASSUME PoolAssumption ==
    /\ Me \in Keys
    /\ Rank \in [Keys -> Nat] /\ \A j, k \in Keys : Rank[j] = Rank[k] => j = k
    /\ MaxPending \in Nat \ {0} /\ MaxCommitments \in Nat \ {0}
    /\ TTL \in Nat /\ Future \in Nat /\ MaxTime \in Nat

Call == [key : Keys, time : Nat, pc : {"asked", "verifying"}]

PoolTypeOK ==
    /\ DOMAIN pool \subseteq Keys /\ \A k \in DOMAIN pool : pool[k] \in Nat
    /\ Cardinality(DOMAIN pool) <= MaxPending
    /\ add \in Call \cup {NoAdd}
    /\ cleanup \subseteq Keys /\ now \in Nat /\ late \subseteq Keys

Empty == [k \in {} |-> 0]
Without(p, K) == [k \in DOMAIN p \ K |-> p[k]]

(* Mutant: one entry too many. *)
FullOffByOne(p) == Cardinality(DOMAIN p) > MaxPending

Full(p) == Cardinality(DOMAIN p) >= MaxPending

HasCommitment(k) == commitments[k] # NotCommitted

PoolInit == Init /\ pool = Empty /\ add = NoAdd /\ cleanup = {} /\ now = 0 /\ late = {}

-----------------------------------------------------------------------------
(* Add, as the message thread calls it.  A call that is refused leaves the *)
(* pool as it is.                                                          *)

(* Messages are handled once the node has started. *)
Started == pc \notin {"rollforward", "halted"} /\ ~(pc = "rebuilding" /\ pending = NoBlock)

AskRegistry(k, t) ==
    /\ Started /\ add = NoAdd /\ ~HasCommitment(k)
    /\ add' = [key |-> k, time |-> t, pc |-> "asked"]
    /\ late' = late \ {k}
    /\ UNCHANGED <<vars, pool, cleanup, now>>

AskPool ==
    /\ add # NoAdd /\ add.pc = "asked"
    /\ add' = IF add.key \in DOMAIN pool \/ Full(pool)
              THEN NoAdd ELSE [add EXCEPT !.pc = "verifying"]
    /\ UNCHANGED <<vars, pool, cleanup, now, late>>

VerifyFails ==
    /\ add # NoAdd /\ add.pc = "verifying"
    /\ add' = NoAdd
    /\ UNCHANGED <<vars, pool, cleanup, now, late>>

(* Mutant: expired entries are dropped only when there is no room. *)
UnexpiredIfFull == IF ~Full(pool) THEN pool
                   ELSE Without(pool, {k \in DOMAIN pool : now - pool[k] > TTL})

Unexpired == Without(pool, {k \in DOMAIN pool : now - pool[k] > TTL})

(* The signature is good; the registry is not asked again. *)
Insert ==
    /\ add # NoAdd /\ add.pc = "verifying"
    /\ add' = NoAdd
    /\ pool' = IF add.key \in DOMAIN pool THEN pool
               ELSE IF add.time > now + Future \/ Full(Unexpired)
               THEN Unexpired
               ELSE [k \in DOMAIN Unexpired \cup {add.key} |->
                        IF k = add.key THEN add.time ELSE Unexpired[k]]
    /\ UNCHANGED <<vars, cleanup, now, late>>

Tick ==
    /\ now < MaxTime /\ now' = now + 1
    /\ UNCHANGED <<vars, pool, add, cleanup, late>>

-----------------------------------------------------------------------------
(* What a template takes *)

First(S, n) == {k \in S : Cardinality({j \in S : Rank[j] < Rank[k]}) < n}

Fresh(S) == {k \in S : ~HasCommitment(k)}

GetForTemplate(n) == First(Fresh(DOMAIN pool), n)
GetPendingCommits(n) == First(DOMAIN pool, n)

(* Mutant: no more entries are read than a block can take. *)
SignedCommitsExact == First(Fresh(GetPendingCommits(MaxCommitments)), MaxCommitments)

(* From the rearm height on a commitment travels with its signature. *)
SignedCommits == First(Fresh(GetPendingCommits(2 * MaxCommitments)), MaxCommitments)

Template ==
    CASE CommitmentOffset = 0 -> {}
      [] CommitmentOffset > 0 /\ IsHMPRearmActive(Len(chain) + 1) -> SignedCommits
      [] OTHER -> GetForTemplate(MaxCommitments)

-----------------------------------------------------------------------------
(* The chain.  cs_main is held until the pool has been cleaned up. *)

Gained == {k \in Keys : commitments[k] = NotCommitted /\ commitments'[k] # NotCommitted}
InFlight == IF add = NoAdd THEN {} ELSE {add.key}

(* Mutant: the identity of the miner stays in the pool. *)
CleanupKeysExplicit(b, h) == IF HMPActive(h) /\ GetHMPStage(h) >= 2 THEN b.commits ELSE {}

CleanupKeys(b, h) ==
    IF HMPActive(h) /\ GetHMPStage(h) >= 2 THEN (b.commits \cup {b.miner}) \ {NoKey} ELSE {}

(* A block of another miner, or of this node from its template. *)
PoolConnectBlock ==
    /\ cleanup = {}
    /\ \/ \E b \in Blocks : ConnectBlock(b)
       \/ \E a \in Algos : ConnectBlock([algo |-> a, miner |-> Me, commits |-> Template, seal |-> NoSeal])
    /\ UNCHANGED poolVars

PoolApplyDeferred ==
    /\ cleanup = {}
    /\ ApplyDeferred \/ PersistFails
    /\ cleanup' = CleanupKeys(pending, Len(chain) + 1)
    /\ late' = late \cup (Gained \cap InFlight)
    /\ UNCHANGED <<pool, add, now>>

Remove ==
    /\ cleanup # {}
    /\ pool' = Without(pool, cleanup)
    /\ late' = late \ (cleanup \ InFlight)
    /\ cleanup' = {}
    /\ UNCHANGED <<vars, add, now>>

(* The replay loops fill the registry and leave the pool alone. *)
PoolReplay ==
    /\ cleanup = {}
    /\ RebuildStep \/ RollforwardBlock
    /\ late' = late \cup Gained
    /\ UNCHANGED <<pool, add, cleanup, now>>

(* DisconnectTip offers the commitments of the block to AddFromReorg, which *)
(* takes none of them: the coinbase does not hold their signatures.         *)
PoolOther ==
    /\ cleanup = {}
    /\ \/ RejectBlock \/ DisconnectTip \/ DisconnectFlushFails
       \/ RebuildReadFails \/ RebuildDone \/ RollforwardReadFails \/ RollforwardDone
    /\ UNCHANGED poolVars

(* A new pool; the node adds its own commitment before the registry is      *)
(* filled again, unless the protocol is switched off or it has no identity. *)
PoolRestart ==
    /\ \E n \in 0..Len(chain) : \E j \in 0..n : Restart(n, j)
    /\ pool' \in {Empty} \cup (IF CommitmentOffset > 0 THEN {[k \in {Me} |-> now]} ELSE {})
    /\ add' = NoAdd /\ cleanup' = {} /\ late' = {}
    /\ UNCHANGED now

PoolNext ==
    \/ \E k \in Keys, t \in 0..MaxTime : AskRegistry(k, t)
    \/ AskPool \/ VerifyFails \/ Insert \/ Tick
    \/ PoolConnectBlock \/ PoolApplyDeferred \/ Remove \/ PoolReplay \/ PoolOther \/ PoolRestart

PoolSpec == PoolInit /\ [][PoolNext]_allVars

-----------------------------------------------------------------------------
(* Properties *)

Stale == {k \in DOMAIN pool : HasCommitment(k)}

(* The cleanup of ConnectBlock is complete: a commitment is both pending    *)
(* and on the chain only if the registry gained it while its Add was being  *)
(* verified, or in a replay, which does not touch the pool.                 *)
StaleOnlyIfLate == cleanup = {} => Stale \subseteq late

(* Stale entries cost a template nothing as long as a block could hold them *)
(* all: it takes every fresh commitment up to the limit of a block, whether *)
(* CreateNewBlock filters before or after it cuts the list.                 *)
TemplateFull ==
    Cardinality(Stale) <= MaxCommitments /\ CommitmentOffset > 0 =>
        Cardinality(Template) = (LET n == Cardinality(DOMAIN pool \ Stale)
                                 IN  IF n < MaxCommitments THEN n ELSE MaxCommitments)

(* No entry outlives its hour by more than the allowance for the clock of   *)
(* its sender once another commitment has been accepted.                    *)
EntriesExpire ==
    [][\A k \in Keys : k \in DOMAIN pool' /\ k \notin DOMAIN pool =>
          \A j \in DOMAIN pool' \ {k} : now - pool'[j] <= TTL /\ pool'[j] <= now + Future]_allVars
=============================================================================
