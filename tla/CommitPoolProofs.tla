--------------------------- MODULE CommitPoolProofs ---------------------------
(***************************************************************************)
(* The pool of pending commitments beside the registry, for every set of   *)
(* keys, pool size, schedule and clock: types and the size limit, the      *)
(* completeness of the cleanup after a connected block, the expiry of      *)
(* entries, and full templates.  Of HMPState only what its steps do to the *)
(* registry is used.                                                       *)
(***************************************************************************)
EXTENDS CommitPool, FiniteSetTheorems, WellFoundedInduction, TLAPS

(* What the provers know of sequences, as facts to cite. *)
LEMMA SeqIs ==
    ASSUME NEW S, NEW s \in Seq(S)
    PROVE  Len(s) \in Nat /\ DOMAIN s = 1 .. Len(s) /\ s \in [1 .. Len(s) -> S]
BY SMT

LEMMA EmptyIs ==
    ASSUME NEW S
    PROVE  /\ <<>> \in Seq(S) /\ Len(<<>>) = 0
           /\ \A s \in Seq(S) : s # <<>> => Len(s) \in Nat \ {0}
BY SMT

LEMMA AppendIs ==
    ASSUME NEW S, NEW s \in Seq(S), NEW x \in S
    PROVE  /\ Append(s, x) \in Seq(S) /\ Append(s, x) # <<>>
           /\ Len(Append(s, x)) = Len(s) + 1 /\ Append(s, x)[Len(s) + 1] = x
           /\ \A i \in 1 .. Len(s) : Append(s, x)[i] = s[i]
BY SMT

LEMMA SubSeqIs ==
    ASSUME NEW S, NEW s, NEW m \in Int, NEW n \in Int, \A i \in m .. n : s[i] \in S
    PROVE  /\ SubSeq(s, m, n) \in Seq(S)
           /\ Len(SubSeq(s, m, n)) = IF m <= n THEN n - m + 1 ELSE 0
           /\ \A i \in 1 .. n - m + 1 : SubSeq(s, m, n)[i] = s[m + i - 1]
BY SMT

-----------------------------------------------------------------------------
(* The chain, as the pool sees it *)

(* A connect in progress has a block. *)
ChainType ==
    /\ chain \in Seq(Block)
    /\ pending \in Block \cup {NoBlock}
    /\ pc = "connecting" => pending # NoBlock

(* The registry gains no key that ConnectBlock does not clean up after it. *)
LEMMA ApplyGains ==
    ASSUME ApplyDeferred \/ PersistFails, ChainType
    PROVE  /\ ChainType'
           /\ Gained \subseteq CleanupKeys(pending, Len(chain) + 1)
           /\ CleanupKeys(pending, Len(chain) + 1) \subseteq Keys
<1> DEFINE h == Len(chain) + 1
           c == Append(chain, pending)
<1>1. /\ pending \in Block /\ pending' = NoBlock /\ pc' # "connecting"
      /\ ApplyMutations(c, h) /\ chain' \in {chain, c}
  BY DEF ApplyDeferred, PersistFails, ChainType
<1>2. c \in Seq(Block) /\ c[h] = pending
  BY <1>1, AppendIs DEF ChainType
<1>3. /\ pending.miner \in Keys \cup {NoKey} /\ pending.commits \subseteq Keys
      /\ NoKey \notin Keys
  BY <1>1, ParamsAssumption DEF Block
<1>4. CASE HMPActive(h) /\ GetHMPStage(h) >= 2
  <2>1. commitments' = EvictOld(Committed(commitments, h, pending.miner, pending.commits), h)
    BY <1>1, <1>2, <1>4 DEF ApplyMutations, RegistryBlockConnected
  <2>2. \A k \in Keys : commitments'[k] \in {NotCommitted, commitments[k]}
                        \/ k \in pending.commits \cup {pending.miner}
    BY <2>1, Zenon DEF EvictOld, Committed
  <2>3. CleanupKeys(pending, h) = (pending.commits \cup {pending.miner}) \ {NoKey}
    BY <1>4 DEF CleanupKeys
  <2> QED BY Zenon, <1>1, <1>2, <1>3, <2>2, <2>3 DEF Gained, ChainType
<1>5. CASE ~(HMPActive(h) /\ GetHMPStage(h) >= 2)
  <2>1. commitments' = commitments
    BY <1>1, <1>5 DEF ApplyMutations
  <2> QED BY <1>1, <1>2, <1>5, <2>1 DEF Gained, ChainType, CleanupKeys
<1> QED BY <1>4, <1>5

(* The replay loops. *)
LEMMA ReplayChain ==
    ASSUME RebuildStep \/ RollforwardBlock, ChainType
    PROVE  ChainType'
BY DEF RebuildStep, RollforwardBlock, ChainType

(* The other steps under cs_main add nothing to the registry. *)
LEMMA OtherLoses ==
    ASSUME \/ RejectBlock \/ DisconnectTip \/ DisconnectFlushFails
           \/ RebuildReadFails \/ RebuildDone \/ RollforwardReadFails \/ RollforwardDone,
           ChainType
    PROVE  ChainType' /\ \A k \in Keys : commitments'[k] \in {NotCommitted, commitments[k]}
<1>1. CASE DisconnectTip \/ DisconnectFlushFails
  <2>1. RegistryBlockDisconnected(Len(chain))
    BY <1>1 DEF DisconnectTip, DisconnectFlushFails, DisconnectTrackers
  <2>2. \A k \in Keys : commitments'[k] \in {NotCommitted, commitments[k]}
    BY <2>1, Zenon DEF RegistryBlockDisconnected
  <2>3. chain' \in Seq(Block)
    <3>1. CASE DisconnectTip
      BY <3>1, SubSeqIs, SeqIs DEF DisconnectTip, ChainType
    <3>2. CASE DisconnectFlushFails
      BY <3>2 DEF DisconnectFlushFails, ChainType
    <3> QED BY <1>1, <3>1, <3>2
  <2>4. pending' = pending /\ pc' # "connecting"
    BY <1>1 DEF DisconnectTip, DisconnectFlushFails
  <2> QED BY <2>2, <2>3, <2>4 DEF ChainType
<1>2. CASE RejectBlock \/ RebuildReadFails \/ RebuildDone
  BY Zenon, <1>2 DEF RejectBlock, RebuildReadFails, RebuildDone, ChainType
<1>3. CASE RollforwardReadFails \/ RollforwardDone
  BY Zenon, <1>3 DEF RollforwardReadFails, RollforwardDone, StartupRebuild, ChainType
<1> QED BY <1>1, <1>2, <1>3

LEMMA RestartClears ==
    ASSUME NEW n \in 0 .. Len(chain), NEW j \in 0 .. n, Restart(n, j), ChainType
    PROVE  ChainType' /\ \A k \in Keys : commitments'[k] = NotCommitted
<1>1. SubSeq(chain, 1, n) \in Seq(Block)
  BY SubSeqIs, SeqIs DEF ChainType
<1>2. chain' = SubSeq(chain, 1, n) /\ pending' = NoBlock /\ pc' # "connecting"
  BY DEF Restart, StartupRebuild
<1> QED BY <1>1, <1>2 DEF Restart, ChainType

-----------------------------------------------------------------------------
(* Types and sizes *)

PoolInv ==
    /\ ChainType /\ PoolTypeOK
    /\ \A k \in DOMAIN pool : pool[k] <= now + Future

LEMMA PoolFinite ==
    ASSUME NEW S, S \subseteq Keys
    PROVE  /\ IsFiniteSet(S) /\ Cardinality(S) \in Nat
           /\ \A R \in SUBSET S : Cardinality(R) <= Cardinality(S)
BY ParamsAssumption, FS_Subset, FS_CardinalityType

LEMMA TemplateType ==
    ASSUME PoolTypeOK
    PROVE  Template \subseteq Keys
<1>1. \A n : GetForTemplate(n) \subseteq Keys /\ GetPendingCommits(n) \subseteq Keys
  BY DEF GetForTemplate, GetPendingCommits, First, Fresh, PoolTypeOK
<1>2. SignedCommits \subseteq Keys
  BY <1>1 DEF SignedCommits, First, Fresh
<1> QED BY <1>1, <1>2 DEF Template

LEMMA NoSealType == NoSeal \in Seals
<1>1. NoSeal \in [{} -> Signature] /\ {} \in SUBSET Keys
  BY DEF NoSeal
<1> QED BY Zenon, <1>1 DEF Seals

LEMMA PoolConnectType ==
    ASSUME PoolInv, PoolConnectBlock
    PROVE  ChainType' /\ commitments' = commitments
<1>1. PICK b \in Block : ConnectBlock(b)
  <2>1. CASE \E b \in Blocks : ConnectBlock(b)
    BY <2>1, StateAssumption
  <2>2. CASE \E a \in Algos : ConnectBlock([algo |-> a, miner |-> Me, commits |-> Template, seal |-> NoSeal])
    BY Zenon, <2>2, TemplateType, NoSealType, PoolAssumption DEF Block, PoolInv
  <2> QED BY Zenon, <2>1, <2>2 DEF PoolConnectBlock
<1>2. b # NoBlock
  BY StateAssumption
<1> QED BY <1>1, <1>2 DEF ConnectBlock, ChainType, PoolInv

(* What an Add that passed its verification leaves in the pool. *)
LEMMA UnexpiredFacts ==
    ASSUME PoolInv
    PROVE  /\ DOMAIN Unexpired \subseteq DOMAIN pool
           /\ \A k \in DOMAIN Unexpired : Unexpired[k] = pool[k] /\ now - pool[k] <= TTL
<1>1. Unexpired = [k \in DOMAIN pool \ {k \in DOMAIN pool : now - pool[k] > TTL} |-> pool[k]]
  BY DEF Unexpired, Without
<1>2. \A k \in DOMAIN pool : ~(now - pool[k] > TTL) => now - pool[k] <= TTL
  BY PoolAssumption DEF PoolInv, PoolTypeOK
<1> QED BY <1>1, <1>2

LEMMA InsertCases ==
    ASSUME PoolInv, Insert
    PROVE  /\ add \in Call /\ add' = NoAdd /\ UNCHANGED <<vars, cleanup, now, late>>
           /\ \/ pool' = pool
              \/ pool' = Unexpired
              \/ /\ Cardinality(DOMAIN Unexpired) < MaxPending /\ add.time <= now + Future
                 /\ DOMAIN pool' = DOMAIN Unexpired \cup {add.key}
                 /\ \A k \in DOMAIN pool' :
                       pool'[k] = IF k = add.key THEN add.time ELSE Unexpired[k]
<1>1. add \in Call /\ add' = NoAdd /\ UNCHANGED <<vars, cleanup, now, late>>
  BY DEF Insert, PoolInv, PoolTypeOK
<1>2. ~(add.time > now + Future) => add.time <= now + Future
  BY <1>1, PoolAssumption DEF Call, PoolInv, PoolTypeOK
<1>3. DOMAIN Unexpired \subseteq Keys
  BY Zenon, UnexpiredFacts DEF PoolInv, PoolTypeOK
<1>4. ~Full(Unexpired) => Cardinality(DOMAIN Unexpired) < MaxPending
  BY <1>3, PoolFinite, PoolAssumption DEF Full
<1> QED BY Zenon, <1>1, <1>2, <1>4 DEF Insert

LEMMA InsertType ==
    ASSUME PoolInv, Insert
    PROVE  PoolInv'
<1>1. add \in Call /\ add' = NoAdd /\ UNCHANGED <<vars, cleanup, now, late>>
  BY Zenon, InsertCases
<1>2. ChainType'
  BY <1>1 DEF PoolInv, ChainType, vars, nodeVars
<1>3. add.key \in Keys /\ add.time \in Nat /\ IsFiniteSet(Keys)
  BY Zenon, <1>1, ParamsAssumption DEF Call
<1>4. CASE pool' = pool
  BY Zenon, <1>1, <1>2, <1>4 DEF PoolInv, PoolTypeOK
<1>5. CASE pool' = Unexpired
  <2>1. Cardinality(DOMAIN Unexpired) <= Cardinality(DOMAIN pool) /\ Cardinality(DOMAIN Unexpired) \in Nat
        /\ Cardinality(DOMAIN pool) \in Nat /\ DOMAIN Unexpired \subseteq Keys
    BY Zenon, UnexpiredFacts, PoolFinite DEF PoolInv, PoolTypeOK
  <2>2. Cardinality(DOMAIN Unexpired) <= MaxPending
    BY <2>1, PoolAssumption DEF PoolInv, PoolTypeOK
  <2> QED BY Zenon, <1>1, <1>2, <1>5, <2>1, <2>2, UnexpiredFacts DEF PoolInv, PoolTypeOK
<1>6. CASE /\ Cardinality(DOMAIN Unexpired) < MaxPending /\ add.time <= now + Future
           /\ DOMAIN pool' = DOMAIN Unexpired \cup {add.key}
           /\ \A k \in DOMAIN pool' : pool'[k] = IF k = add.key THEN add.time ELSE Unexpired[k]
  <2>1. DOMAIN Unexpired \subseteq Keys /\ IsFiniteSet(DOMAIN Unexpired)
        /\ Cardinality(DOMAIN Unexpired) \in Nat
    BY Zenon, UnexpiredFacts, PoolFinite DEF PoolInv, PoolTypeOK
  <2>2. Cardinality(DOMAIN pool') \in {Cardinality(DOMAIN Unexpired), Cardinality(DOMAIN Unexpired) + 1}
    BY Zenon, <1>6, <2>1, FS_AddElement
  <2>3. Cardinality(DOMAIN pool') <= MaxPending
    BY <1>6, <2>1, <2>2, PoolAssumption
  <2>4. \A k \in DOMAIN pool' : pool'[k] \in Nat /\ pool'[k] <= now + Future
    BY Zenon, <1>3, <1>6, UnexpiredFacts DEF PoolInv, PoolTypeOK
  <2> QED BY Zenon, <1>1, <1>2, <1>3, <1>6, <2>1, <2>3, <2>4 DEF PoolInv, PoolTypeOK
<1> QED BY <1>4, <1>5, <1>6, InsertCases

LEMMA RemoveType ==
    ASSUME PoolInv, Remove
    PROVE  PoolInv'
<1>1. UNCHANGED <<vars, add, now>> /\ cleanup' = {} /\ late' \subseteq late
  BY DEF Remove
<1>2. DOMAIN pool' \subseteq DOMAIN pool /\ \A k \in DOMAIN pool' : pool'[k] = pool[k]
  BY DEF Remove, Without
<1>3. /\ Cardinality(DOMAIN pool') <= Cardinality(DOMAIN pool) /\ DOMAIN pool' \subseteq Keys
      /\ Cardinality(DOMAIN pool') \in Nat /\ Cardinality(DOMAIN pool) \in Nat
  BY Zenon, <1>2, PoolFinite DEF PoolInv, PoolTypeOK
<1>4. Cardinality(DOMAIN pool') <= MaxPending
  BY <1>3, PoolAssumption DEF PoolInv, PoolTypeOK
<1> QED BY Zenon, <1>1, <1>2, <1>3, <1>4 DEF PoolInv, PoolTypeOK, ChainType, vars, nodeVars

LEMMA PoolStep == PoolInv /\ [PoolNext]_allVars => PoolInv'
<1> SUFFICES ASSUME PoolInv, [PoolNext]_allVars
             PROVE  PoolInv'
  OBVIOUS
<1> USE DEF vars, nodeVars, poolVars, allVars
<1>1. ASSUME NEW k \in Keys, NEW t \in 0 .. MaxTime, AskRegistry(k, t)
      PROVE  PoolInv'
  <2>1. [key |-> k, time |-> t, pc |-> "asked"] \in Call
    BY PoolAssumption DEF Call
  <2> QED BY Zenon, <1>1, <2>1 DEF AskRegistry, PoolInv, PoolTypeOK, ChainType
<1>2. CASE AskPool
  <2>1. add' \in Call \cup {NoAdd}
    BY <1>2 DEF AskPool, PoolInv, PoolTypeOK, Call
  <2> QED BY Zenon, <1>2, <2>1 DEF AskPool, PoolInv, PoolTypeOK, ChainType
<1>3. CASE VerifyFails
  BY Zenon, <1>3 DEF VerifyFails, PoolInv, PoolTypeOK, ChainType
<1>4. CASE Insert
  BY <1>4, InsertType
<1>5. CASE Tick
  <2>1. now' \in Nat /\ \A k \in DOMAIN pool : pool[k] <= now' + Future
    BY <1>5, PoolAssumption DEF Tick, PoolInv, PoolTypeOK
  <2> QED BY Zenon, <1>5, <2>1 DEF Tick, PoolInv, PoolTypeOK, ChainType
<1>6. CASE PoolConnectBlock
  <2>1. ChainType' /\ UNCHANGED poolVars
    BY Zenon, <1>6, PoolConnectType DEF PoolConnectBlock
  <2> QED BY Zenon, <2>1 DEF PoolInv, PoolTypeOK
<1>7. CASE PoolApplyDeferred
  <2>1. /\ ChainType' /\ cleanup' \subseteq Keys /\ late' \subseteq Keys
        /\ UNCHANGED <<pool, add, now>>
    BY Zenon, <1>7, ApplyGains DEF PoolApplyDeferred, PoolInv, PoolTypeOK, Gained
  <2> QED BY Zenon, <2>1 DEF PoolInv, PoolTypeOK
<1>8. CASE Remove
  BY <1>8, RemoveType
<1>9. CASE PoolReplay
  <2>1. ChainType' /\ late' \subseteq Keys /\ UNCHANGED <<pool, add, cleanup, now>>
    BY Zenon, <1>9, ReplayChain DEF PoolReplay, PoolInv, PoolTypeOK, Gained
  <2> QED BY Zenon, <2>1 DEF PoolInv, PoolTypeOK
<1>10. CASE PoolOther
  <2>1. ChainType' /\ UNCHANGED poolVars
    BY Zenon, <1>10, OtherLoses DEF PoolOther, PoolInv
  <2> QED BY <2>1 DEF PoolInv, PoolTypeOK
<1>11. CASE PoolRestart
  <2>1. /\ ChainType' /\ add' = NoAdd /\ cleanup' = {} /\ late' = {} /\ now' = now
        /\ pool' = Empty \/ pool' = [k \in {Me} |-> now]
    BY Zenon, <1>11, RestartClears DEF PoolRestart, PoolInv
  <2>2. CASE pool' = Empty
    <3>1. DOMAIN pool' = {} /\ Cardinality({}) = 0
      BY Zenon, <2>2, FS_EmptySet DEF Empty
    <3> QED BY <2>1, <3>1, PoolAssumption DEF PoolInv, PoolTypeOK
  <2>3. CASE pool' = [k \in {Me} |-> now]
    <3>1. DOMAIN pool' = {Me} /\ pool'[Me] = now /\ Cardinality({Me}) = 1
      BY Zenon, <2>3, FS_Singleton
    <3> QED BY <2>1, <3>1, PoolAssumption DEF PoolInv, PoolTypeOK
  <2> QED BY Zenon, <2>1, <2>2, <2>3
<1>12. CASE UNCHANGED allVars
  BY Zenon, <1>12 DEF PoolInv, PoolTypeOK, ChainType
<1> QED BY Zenon, <1>1, <1>2, <1>3, <1>4, <1>5, <1>6, <1>7, <1>8, <1>9, <1>10, <1>11, <1>12 DEF PoolNext

LEMMA PoolInitInv == PoolInit => PoolInv
<1> SUFFICES ASSUME PoolInit PROVE PoolInv
  OBVIOUS
<1>1. DOMAIN pool = {} /\ Cardinality({}) = 0
  BY FS_EmptySet DEF PoolInit, Empty
<1>2. chain \in Seq(Block)
  BY EmptyIs DEF PoolInit, Init
<1> QED BY <1>1, <1>2, PoolAssumption DEF PoolInit, Init, PoolInv, PoolTypeOK, ChainType

LEMMA PoolInvariant == PoolSpec => []PoolInv
BY PoolInitInv, PoolStep, PTL DEF PoolSpec

(* Types, and the limit of CHMPCommitPool: m_pending never holds more than *)
(* MAX_PENDING commitments, whatever is added while a call verifies.       *)
THEOREM PoolType == PoolSpec => []PoolTypeOK
<1>1. PoolInv => PoolTypeOK
  BY DEF PoolInv
<1> QED BY <1>1, PoolInvariant, PTL

-----------------------------------------------------------------------------
(* The cleanup *)

(* A key of the registry that is also pending is about to be removed, or   *)
(* came to the registry behind the pool's back, and so did the key of an   *)
(* Add that asked the registry in time.                                    *)
CleanupInv ==
    /\ \A k \in DOMAIN pool : HasCommitment(k) => k \in late \cup cleanup
    /\ add # NoAdd /\ HasCommitment(add.key) => add.key \in late

LEMMA CleanupStep == PoolInv /\ CleanupInv /\ [PoolNext]_allVars => CleanupInv'
<1> SUFFICES ASSUME PoolInv, CleanupInv, [PoolNext]_allVars
             PROVE  CleanupInv'
  OBVIOUS
<1> USE DEF HasCommitment
<1>0. DOMAIN pool \subseteq Keys /\ (add # NoAdd => add.key \in Keys)
  BY Zenon DEF PoolInv, PoolTypeOK, Call
<1>1. ASSUME NEW k \in Keys, NEW t \in 0 .. MaxTime, AskRegistry(k, t)
      PROVE  CleanupInv'
  BY Zenon, <1>1 DEF AskRegistry, CleanupInv, vars
<1>2. CASE AskPool
  <2>1. add' = NoAdd \/ (add # NoAdd /\ add'.key = add.key)
    BY <1>2 DEF AskPool, PoolInv, PoolTypeOK, Call
  <2> QED BY <1>2, <2>1 DEF AskPool, CleanupInv, vars
<1>3. CASE VerifyFails \/ Tick
  BY Zenon, <1>3 DEF VerifyFails, Tick, CleanupInv, vars
<1>4. CASE Insert
  <2>1. /\ add # NoAdd /\ DOMAIN pool' \subseteq DOMAIN pool \cup {add.key}
        /\ add' = NoAdd /\ UNCHANGED <<commitments, cleanup, late>>
    BY Zenon, <1>4, InsertCases, UnexpiredFacts DEF Insert, vars
  <2> QED BY Zenon, <2>1 DEF CleanupInv
<1>5. CASE PoolConnectBlock
  BY Zenon, <1>5, PoolConnectType DEF PoolConnectBlock, poolVars, CleanupInv
<1>6. CASE PoolApplyDeferred
  <2>1. /\ Gained \subseteq cleanup' /\ late' = late \cup (Gained \cap InFlight)
        /\ cleanup = {} /\ UNCHANGED <<pool, add>>
    BY Zenon, <1>6, ApplyGains DEF PoolApplyDeferred, PoolInv
  <2>2. \A k \in Keys : commitments'[k] # NotCommitted => commitments[k] # NotCommitted \/ k \in Gained
    BY Zenon DEF Gained
  <2> QED BY Zenon, <1>0, <2>1, <2>2 DEF CleanupInv, InFlight
<1>7. CASE Remove
  <2>1. /\ DOMAIN pool' = DOMAIN pool \ cleanup /\ late' = late \ (cleanup \ InFlight)
        /\ UNCHANGED <<commitments, add>>
    BY Zenon, <1>7 DEF Remove, Without, vars
  <2> QED BY Zenon, <2>1 DEF CleanupInv, InFlight
<1>8. CASE PoolReplay
  <2>1. /\ late' = late \cup Gained /\ UNCHANGED <<pool, add, cleanup>>
    BY <1>8 DEF PoolReplay
  <2>2. \A k \in Keys : commitments'[k] # NotCommitted => commitments[k] # NotCommitted \/ k \in Gained
    BY DEF Gained
  <2> QED BY Zenon, <1>0, <2>1, <2>2 DEF CleanupInv
<1>9. CASE PoolOther
  <2>1. /\ UNCHANGED <<pool, add, cleanup, late>>
        /\ \A k \in Keys : commitments'[k] \in {NotCommitted, commitments[k]}
    BY Zenon, <1>9, OtherLoses DEF PoolOther, PoolInv, poolVars
  <2> QED BY Zenon, <1>0, <2>1 DEF CleanupInv
<1>10. CASE PoolRestart
  <2>1. add' = NoAdd /\ DOMAIN pool' \subseteq {Me} /\ Me \in Keys
    BY Zenon, <1>10, PoolAssumption DEF PoolRestart, Empty
  <2>2. \A k \in Keys : commitments'[k] = NotCommitted
    BY Zenon, <1>10, RestartClears DEF PoolRestart, PoolInv
  <2> QED BY Zenon, <2>1, <2>2 DEF CleanupInv
<1>11. CASE UNCHANGED allVars
  BY Zenon, <1>11 DEF CleanupInv, allVars, vars, poolVars
<1> QED BY Zenon, <1>1, <1>2, <1>3, <1>4, <1>5, <1>6, <1>7, <1>8, <1>9, <1>10, <1>11 DEF PoolNext

(* The cleanup of ConnectBlock leaves no stale commitment behind but those *)
(* whose Add or replay crossed it.                                         *)
THEOREM PoolCleanup == PoolSpec => []StaleOnlyIfLate
<1>1. PoolInit => CleanupInv
  BY Zenon DEF PoolInit, Empty, CleanupInv
<1>2. CleanupInv => StaleOnlyIfLate
  BY Zenon DEF CleanupInv, StaleOnlyIfLate, Stale
<1> QED BY <1>1, <1>2, CleanupStep, PoolInvariant, PTL DEF PoolSpec

-----------------------------------------------------------------------------
(* Only Insert adds a key, apart from the start of a node. *)
LEMMA ExpireStep ==
    ASSUME PoolInv, PoolNext, NEW k \in Keys, k \in DOMAIN pool', k \notin DOMAIN pool,
           NEW j \in DOMAIN pool' \ {k}
    PROVE  now - pool'[j] <= TTL /\ pool'[j] <= now + Future
<1>1. CASE Insert
  <2>1. j \in DOMAIN Unexpired /\ pool'[j] = Unexpired[j]
    BY <1>1, InsertCases, UnexpiredFacts
  <2> QED BY Zenon, <2>1, UnexpiredFacts DEF PoolInv
<1>2. CASE PoolRestart
  BY <1>2 DEF PoolRestart, Empty
<1>3. CASE ~(Insert \/ PoolRestart)
  <2>1. DOMAIN pool' \subseteq DOMAIN pool
    BY Zenon, <1>3 DEF PoolNext, AskRegistry, AskPool, VerifyFails, Tick, PoolConnectBlock, PoolApplyDeferred,
       Remove, Without, PoolReplay, PoolOther, poolVars
  <2> QED BY Zenon, <2>1
<1> QED BY Zenon, <1>1, <1>2, <1>3

(* Entries expire: whenever a commitment enters the pool, what is left     *)
(* beside it is younger than COMMIT_TTL_SECS and not dated further ahead   *)
(* than Add allows.                                                        *)
THEOREM PoolExpires == PoolSpec => EntriesExpire
<1>1. PoolInv /\ [PoolNext]_allVars =>
        [\A k \in Keys : k \in DOMAIN pool' /\ k \notin DOMAIN pool =>
          \A j \in DOMAIN pool' \ {k} : now - pool'[j] <= TTL /\ pool'[j] <= now + Future]_allVars
  BY Zenon, ExpireStep
<1> QED BY <1>1, PoolInvariant, PTL DEF PoolSpec, EntriesExpire

-----------------------------------------------------------------------------
(* Templates *)

LEMMA Least ==
    ASSUME NEW S \in SUBSET Nat, S # {}
    PROVE  \E m \in S : \A k \in S : m <= k
<1>1. PICK m \in S : \A k \in S : ~(<<k, m>> \in OpToRel(<, Nat))
  BY Zenon, NatLessThanWellFounded, WFMin
<1>2. \A k \in S : ~(k < m)
  BY Zenon, <1>1 DEF OpToRel
<1> QED BY <1>2

(* How many keys of S are ordered before k. *)
Before(S, k) == {j \in S : Rank[j] < Rank[k]}
Smaller(a, n) == IF a < n THEN a ELSE n

LEMMA BeforeFacts ==
    ASSUME NEW S \in SUBSET Keys
    PROVE  /\ \A k \in S : Before(S, k) \subseteq S /\ Cardinality(Before(S, k)) \in Nat
           /\ \A n : First(S, n) = {k \in S : Cardinality(Before(S, k)) < n}
           /\ \A k, j \in S : Rank[k] <= Rank[j] => Cardinality(Before(S, k)) <= Cardinality(Before(S, j))
<1>1. \A k \in S : Rank[k] \in Nat
  BY Zenon, PoolAssumption
<1>2. \A k \in S : Before(S, k) \subseteq S
  BY DEF Before
<1>3. \A k \in S : Cardinality(Before(S, k)) \in Nat
  BY Zenon, <1>2, PoolFinite
<1>4. ASSUME NEW k \in S, NEW j \in S, Rank[k] <= Rank[j]
      PROVE  Cardinality(Before(S, k)) <= Cardinality(Before(S, j))
  <2>1. Before(S, k) \in SUBSET Before(S, j)
    BY <1>1, <1>4 DEF Before
  <2>2. Before(S, j) \subseteq Keys
    BY Zenon, <1>2
  <2> QED BY Zenon, <2>1, <2>2, PoolFinite
<1> QED BY Zenon, <1>2, <1>3, <1>4 DEF First, Before

(* One more entry is taken as long as there is one. *)
LEMMA FirstNext ==
    ASSUME NEW S \in SUBSET Keys, NEW n \in Nat, Cardinality(First(S, n)) = Smaller(Cardinality(S), n)
    PROVE  Cardinality(First(S, n + 1)) = Smaller(Cardinality(S), n + 1)
<1> DEFINE F == First(S, n)
           G == First(S, n + 1)
           r(k) == Cardinality(Before(S, k))
<1>1. /\ F = {k \in S : r(k) < n} /\ G = {k \in S : r(k) < n + 1}
      /\ \A k \in S : r(k) \in Nat
      /\ \A k, j \in S : Rank[k] <= Rank[j] => r(k) <= r(j)
  BY Zenon, BeforeFacts
<1>2. /\ \A k \in S : Rank[k] \in Nat
      /\ \A k, j \in S : Rank[k] = Rank[j] => k = j
  BY Zenon, PoolAssumption
<1> HIDE DEF F, G
<1>3. F \in SUBSET G /\ G \in SUBSET S /\ F \in SUBSET S
  <2> HIDE DEF r
  <2> QED BY <1>1
<1>4. IsFiniteSet(S) /\ IsFiniteSet(F) /\ Cardinality(S) \in Nat /\ Cardinality(F) \in Nat
  BY Zenon, <1>3, PoolFinite
<1>5. Cardinality(F) = Smaller(Cardinality(S), n)
  BY DEF F
<1>6. CASE Cardinality(S) <= n
  <2>1. Cardinality(S) = Cardinality(F)
    BY <1>4, <1>5, <1>6 DEF Smaller
  <2>2. S = F
    BY Zenon, <1>3, <1>4, <2>1, FS_Subset
  <2>3. G = S
    BY <1>3, <2>2
  <2>4. Cardinality(S) = Smaller(Cardinality(S), n + 1)
    BY <1>4, <1>6 DEF Smaller
  <2> QED BY Zenon, <2>3, <2>4 DEF G
<1>7. CASE ~(Cardinality(S) <= n)
  <2>1. Cardinality(F) = n /\ Smaller(Cardinality(S), n + 1) = n + 1
    BY <1>4, <1>5, <1>7 DEF Smaller
  <2>2. S \ F # {}
    <3>1. F # S
      BY <1>7, <2>1
    <3> QED BY Zenon, <1>3, <3>1
  <2>3. PICK k \in S \ F : \A j \in S \ F : Rank[k] <= Rank[j]
    <3> DEFINE R == {Rank[j] : j \in S \ F}
    <3>1. R # {} /\ R \in SUBSET Nat
      BY <1>2, <2>2
    <3>2. PICK m \in R : \A x \in R : m <= x
      <4> HIDE DEF R
      <4> QED BY Zenon, <3>1, Least
    <3> QED BY Zenon, <3>2
  <2>4. Before(S, k) = F
    <3>1. ASSUME NEW j \in S, Rank[j] < Rank[k] PROVE j \in F
      BY <1>2, <2>3, <3>1
    <3>2. ASSUME NEW j \in F PROVE Rank[j] < Rank[k]
      <4>1. j \in S /\ j # k /\ r(j) < n /\ ~(r(k) < n) /\ r(j) \in Nat /\ r(k) \in Nat
        <5> HIDE DEF r
        <5> QED BY Zenon, <1>1, <1>3, <2>3
      <4>2. ~(r(k) <= r(j))
        <5> HIDE DEF r
        <5> QED BY <4>1
      <4>3. ~(Rank[k] <= Rank[j])
        <5> HIDE DEF r
        <5> QED BY Zenon, <1>1, <2>3, <4>1, <4>2
      <4> QED BY <1>2, <2>3, <4>1, <4>3
    <3> QED BY Zenon, <1>3, <3>1, <3>2 DEF Before
  <2>5. r(k) = n
    BY Zenon, <2>1, <2>4
  <2>6. ASSUME NEW x \in S \ F, x # k PROVE ~(r(x) < n + 1)
    <3>1. Rank[k] < Rank[x]
      BY <1>2, <2>3, <2>6
    <3>2. F \cup {k} \in SUBSET Before(S, x)
      <4>1. \A j \in F : Rank[j] < Rank[k] /\ j \in S
        BY Zenon, <2>4 DEF Before
      <4> QED BY <1>2, <2>3, <3>1, <4>1 DEF Before
    <3>3. Cardinality(F \cup {k}) = n + 1
      BY Zenon, <1>4, <2>1, <2>3, FS_AddElement
    <3>4. Before(S, x) \subseteq Keys
      BY Zenon DEF Before
    <3>5. Cardinality(F \cup {k}) <= r(x) /\ r(x) \in Nat
      BY Zenon, <3>2, <3>4, PoolFinite
    <3> HIDE DEF r
    <3> QED BY <3>3, <3>5
  <2>7. G = F \cup {k}
    <3> HIDE DEF r
    <3>1. k \in G
      BY <1>1, <2>3, <2>5
    <3>2. \A x \in G : x \in F \/ x = k
      BY Zenon, <1>1, <1>3, <2>6
    <3> QED BY Zenon, <1>3, <3>1, <3>2
  <2>8. Cardinality(G) = n + 1
    BY Zenon, <1>4, <2>1, <2>3, <2>7, FS_AddElement
  <2> QED BY Zenon, <2>1, <2>8 DEF G
<1> QED BY Zenon, <1>6, <1>7

(* First takes n entries, or all of them. *)
LEMMA FirstCount ==
    ASSUME NEW S \in SUBSET Keys, NEW n \in Nat
    PROVE  Cardinality(First(S, n)) = Smaller(Cardinality(S), n)
<1> DEFINE Good(m) == Cardinality(First(S, m)) = Smaller(Cardinality(S), m)
           Bad == {m \in Nat : ~Good(m)}
<1>0. Cardinality(S) \in Nat
  BY PoolFinite
<1>1. SUFFICES ASSUME ~Good(n) PROVE FALSE
  BY Zenon
<1>2. PICK m \in Bad : \A k \in Bad : m <= k
  <2>1. Bad # {} /\ Bad \in SUBSET Nat
    BY Zenon, <1>1
  <2> HIDE DEF Bad
  <2> QED BY Zenon, <2>1, Least
<1>3. CASE m = 0
  <2>1. First(S, 0) = {k \in S : Cardinality(Before(S, k)) < 0}
    BY Zenon, BeforeFacts
  <2>2. First(S, 0) = {}
    <3>1. \A k \in S : ~(Cardinality(Before(S, k)) < 0)
      <4>1. \A k \in S : Cardinality(Before(S, k)) \in Nat
        BY Zenon, BeforeFacts
      <4> QED BY <4>1
    <3> QED BY <2>1, <3>1, Zenon
  <2>3. Cardinality(First(S, 0)) = 0 /\ Smaller(Cardinality(S), 0) = 0
    BY <1>0, <2>2, FS_EmptySet DEF Smaller
  <2> QED BY Zenon, <1>2, <1>3, <2>3
<1>4. CASE m # 0
  <2>1. m - 1 \in Nat /\ (m - 1) + 1 = m /\ ~(m <= m - 1)
    BY <1>2, <1>4
  <2>2. m - 1 \notin Bad
    <3> HIDE DEF Bad
    <3> QED BY <1>2, <2>1
  <2>3. Good(m - 1)
    BY Zenon, <2>1, <2>2
  <2>4. Good((m - 1) + 1)
    BY Zenon, <2>1, <2>3, FirstNext
  <2>5. Good(m)
    BY Zenon, <2>1, <2>4
  <2> QED BY Zenon, <1>2, <2>5
<1> QED BY Zenon, <1>3, <1>4

(* What the two ways of filling a template take. *)
LEMMA TemplateCount ==
    ASSUME PoolInv, Cardinality(Stale) <= MaxCommitments
    PROVE  LET n == Smaller(Cardinality(DOMAIN pool \ Stale), MaxCommitments)
           IN  Cardinality(SignedCommits) = n /\ Cardinality(GetForTemplate(MaxCommitments)) = n
<1> DEFINE P == DOMAIN pool
           M == MaxCommitments
           Q == First(P, 2 * M)
           n == Smaller(Cardinality(P \ Stale), M)
<1>0. P \in SUBSET Keys /\ M \in Nat /\ 2 * M \in Nat /\ Stale \in SUBSET P
  BY PoolAssumption DEF PoolInv, PoolTypeOK, Stale
<1>1. Q \in SUBSET P
  BY Zenon DEF First
<1>2. \A S \in SUBSET P : Fresh(S) = S \ Stale
  BY Zenon DEF Fresh, Stale
<1>3. Cardinality(GetForTemplate(M)) = n
  <2>1. GetForTemplate(M) = First(P \ Stale, M)
    BY Zenon, <1>2 DEF GetForTemplate
  <2>2. P \ Stale \in SUBSET Keys
    BY Zenon, <1>0
  <2> QED BY Zenon, <1>0, <2>1, <2>2, FirstCount
<1>4. Cardinality(SignedCommits) = Smaller(Cardinality(Q \ Stale), M)
  <2>1. SignedCommits = First(Q \ Stale, M)
    BY Zenon, <1>1, <1>2 DEF SignedCommits, GetPendingCommits
  <2>2. Q \ Stale \in SUBSET Keys
    BY Zenon, <1>0, <1>1
  <2> QED BY Zenon, <1>0, <2>1, <2>2, FirstCount
<1>5. Cardinality(Q) = Smaller(Cardinality(P), 2 * M)
  BY Zenon, <1>0, FirstCount
<1> HIDE DEF P, Q, M
<1>6. /\ IsFiniteSet(P) /\ IsFiniteSet(Q) /\ Cardinality(P) \in Nat /\ Cardinality(Q) \in Nat
      /\ IsFiniteSet(Stale) /\ Cardinality(Stale) \in Nat
  BY Zenon, <1>0, <1>1, PoolFinite
<1>7. Smaller(Cardinality(Q \ Stale), M) = n
  <2>1. CASE Cardinality(P) <= 2 * M
    <3>1. Cardinality(P) = Cardinality(Q)
      BY <1>0, <1>5, <1>6, <2>1 DEF Smaller
    <3>2. P = Q
      BY Zenon, <1>1, <1>6, <3>1, FS_Subset
    <3> QED BY Zenon, <3>2
  <2>2. CASE ~(Cardinality(P) <= 2 * M)
    <3>1. Cardinality(Q) = 2 * M
      BY <1>0, <1>5, <1>6, <2>2 DEF Smaller
    <3>2. \A S : Cardinality(S \cap Stale) \in Nat /\ Cardinality(S \cap Stale) <= M
      <4> TAKE S
      <4>1. S \cap Stale \in SUBSET Stale /\ Stale \subseteq Keys
        BY <1>0
      <4>2. Cardinality(S \cap Stale) \in Nat /\ Cardinality(S \cap Stale) <= Cardinality(Stale)
        BY Zenon, <4>1, PoolFinite
      <4>3. Cardinality(Stale) <= M
        BY DEF M
      <4> QED BY <1>0, <1>6, <4>2, <4>3
    <3>3. /\ Cardinality(Q \ Stale) = Cardinality(Q) - Cardinality(Q \cap Stale)
          /\ Cardinality(P \ Stale) = Cardinality(P) - Cardinality(P \cap Stale)
      BY Zenon, <1>6, FS_Difference
    <3>4. ~(Cardinality(Q \ Stale) < M) /\ ~(Cardinality(P \ Stale) < M)
      <4>1. /\ Cardinality(Q \cap Stale) \in Nat /\ Cardinality(Q \cap Stale) <= M
            /\ Cardinality(P \cap Stale) \in Nat /\ Cardinality(P \cap Stale) <= M
        BY Zenon, <3>2
      <4>2. M \in Nat /\ Cardinality(P) \in Nat
        BY Zenon, <1>0, <1>6
      <4>3. ~(Cardinality(Q \ Stale) < M)
        BY <3>1, <3>3, <4>1, <4>2
      <4>4. ~(Cardinality(P \ Stale) < M)
        BY <2>2, <3>3, <4>1, <4>2
      <4> QED BY <4>3, <4>4
    <3> QED BY Zenon, <3>4 DEF Smaller
  <2> QED BY Zenon, <2>1, <2>2
<1> QED BY Zenon, <1>3, <1>4, <1>7 DEF P, M

(* Stale entries cost a template nothing as long as a block could hold     *)
(* them all: from either height range CreateNewBlock takes every fresh     *)
(* commitment up to MAX_COMMITMENTS_PER_BLOCK, although the signed form    *)
(* reads only twice that many before it asks the registry.                 *)
THEOREM PoolTemplateFull == PoolSpec => []TemplateFull
<1>1. ASSUME PoolInv PROVE TemplateFull
  <2>1. SUFFICES ASSUME Cardinality(Stale) <= MaxCommitments, CommitmentOffset > 0
                 PROVE  Cardinality(Template) = Smaller(Cardinality(DOMAIN pool \ Stale), MaxCommitments)
    BY Zenon DEF TemplateFull, Smaller
  <2>2. Template = SignedCommits \/ Template = GetForTemplate(MaxCommitments)
    BY <2>1, ParamsAssumption DEF Template
  <2> QED BY Zenon, <1>1, <2>1, <2>2, TemplateCount
<1> QED BY <1>1, PoolInvariant, PTL
=============================================================================
