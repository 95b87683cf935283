----------------------------- MODULE ShieldedState -----------------------------
(***************************************************************************)
(* The shielded pool's database beside the chain state: CSaplingState      *)
(* (sapling/sapling_state.cpp) as ConnectBlock, DisconnectBlock,           *)
(* FlushStateToDisk, ReplayBlocks and the startup checks drive it.         *)
(*                                                                         *)
(* SaplingDB is written and synced for every block; the coins and EvoDB    *)
(* reach the disk only when the state is flushed.  A crash therefore       *)
(* leaves SaplingDB at another block than the coins, and the code that     *)
(* connects, disconnects and replays blocks has to tolerate exactly the    *)
(* differences a crash can leave.                                          *)
(*                                                                         *)
(* A block is the sequence of branches taken from genesis.  A frontier is  *)
(* the sequence of the note commitments appended to it, and stands for its *)
(* root as well.  EvoDB's uncommitted transaction follows the tip, so only *)
(* its state on disk is kept.  Which block is worked on next is the choice *)
(* of ForkChoice: here, a step towards any block with more work.           *)
(***************************************************************************)
EXTENDS Integers, Sequences, FiniteSets

CONSTANTS
    Blocks,             \* a finite tree: a prefix-closed set of sequences
    Work,               \* the work of the chain that ends in each block
    Nullifiers,
    Notes,              \* note commitments
    Spends,             \* the nullifiers of each block, in order
    Outputs,            \* the note commitments of each block, in order
    ValueBalance,       \* what each block takes out of the shielded pool
    Verdict,            \* what the checks outside SaplingDB say of each block
    SaplingHeight, nSaplingStrictnessHeight,
    PlanX,              \* g_compromised_recovery_set.IsActive()
    MaxCrashes,         \* bound on the number of crashes
    NoBlock, NoBatch

VARIABLES
    known,              \* the blocks of m_block_index
    failed,             \* BLOCK_FAILED_MASK
    tip,                \* m_chain.Tip(), and the best block of CoinsTip()
    mode,               \* what the node is doing
    replayed,           \* the block the coins view of ReplayBlocks is at
    coins,              \* best block of the coins database
    heads,              \* DB_HEAD_BLOCKS of an unfinished flush
    evo,                \* best block of EvoDB on disk
    nullifiers,         \* SaplingDB: the height of each spent nullifier
    roots,              \* SaplingDB: frontier and root of each height
    best,               \* SaplingDB: DB_BEST_BLOCK
    pool,               \* SaplingDB: DB_VALUE_POOL, and m_nSaplingValuePool
    lastFrontierHeight, \* m_lastFrontierHeight
    pending,            \* m_pendingBatch and the fields that go with it
    strayed,            \* history: SaplingDB no longer follows the chain
    crashes

diskVars    == <<coins, heads, evo>>
indexVars   == <<known, failed>>
saplingDisk == <<nullifiers, roots, best, pool>>
saplingVars == <<saplingDisk, lastFrontierHeight, pending>>
vars == <<indexVars, tip, mode, replayed, diskVars, saplingVars, strayed, crashes>>

Genesis == <<>>
Parent(b) == SubSeq(b, 1, Len(b) - 1)
IsAncestor(a, b) == Len(a) <= Len(b) /\ SubSeq(b, 1, Len(a)) = a
Ancestor(b, h) == SubSeq(b, 1, h)
PrefixClosed(B) == \A b \in B : \A h \in 0 .. Len(b) : Ancestor(b, h) \in B
SpentIn(b) == {Spends[b][i] : i \in DOMAIN Spends[b]}

(* IsSaplingActive.  The genesis block is never processed, so that a height *)
(* of 0, as on regtest, is the same as 1.                                   *)
Active(b) == Len(b) >= SaplingHeight
NoData(b) == Spends[b] = <<>> /\ Outputs[b] = <<>>

Batch == [block : Blocks, root : Seq(Notes), pool : Nat]

ASSUME ShieldedAssumption ==
    /\ IsFiniteSet(Blocks) /\ Genesis \in Blocks /\ Blocks \subseteq Seq(Nat)
    /\ PrefixClosed(Blocks)
    /\ Work \in [Blocks -> Nat]
    /\ Spends \in [Blocks -> Seq(Nullifiers)] /\ Outputs \in [Blocks -> Seq(Notes)]
    /\ ValueBalance \in [Blocks -> Int]
    /\ \A b \in Blocks : NoData(b) => ValueBalance[b] = 0
    /\ \A b \in Blocks : ~Active(b) => NoData(b)
    /\ Verdict \in [Blocks -> {"valid", "bad-special", "contested"}]
    /\ SaplingHeight \in Nat \ {0} /\ nSaplingStrictnessHeight \in Nat
    /\ PlanX \in BOOLEAN /\ MaxCrashes \in Nat
    /\ NoBlock \notin Blocks /\ NoBatch \notin Batch

TypeOK ==
    /\ known \subseteq Blocks /\ failed \subseteq known
    /\ {tip, replayed, coins, evo} \subseteq known
    /\ mode \in {"up", "flush", "evo", "stopping", "down", "replay", "load", "held"}
    /\ heads = <<>> \/ heads \in known \X known
    /\ DOMAIN nullifiers \subseteq Nullifiers
    /\ \A n \in DOMAIN nullifiers : nullifiers[n] \in Nat
    /\ DOMAIN roots \subseteq Nat /\ IsFiniteSet(DOMAIN roots)
    /\ \A h \in DOMAIN roots : roots[h] \in Seq(Notes)
    /\ best \in Blocks \cup {NoBlock} /\ pool \in Nat
    /\ lastFrontierHeight \in Nat \cup {-1}
    /\ pending \in Batch \cup {NoBatch}
    /\ strayed \in BOOLEAN /\ crashes \in Nat

(* A new datadir after the first start: genesis is written to every store  *)
(* but SaplingDB, which holds nothing until the first active block.        *)
Init ==
    /\ known = {Genesis} /\ failed = {}
    /\ tip = Genesis /\ coins = Genesis /\ evo = Genesis /\ heads = <<>>
    /\ mode = "up" /\ replayed = Genesis
    /\ nullifiers = [n \in {} |-> 0] /\ roots = [h \in {} |-> <<>>]
    /\ best = NoBlock /\ pool = 0
    /\ lastFrontierHeight = -1 /\ pending = NoBatch
    /\ strayed = FALSE /\ crashes = 0

-----------------------------------------------------------------------------
(* CSaplingState *)

VerifyBestBlock(b) == best \in {NoBlock, b}

MaxHeight(H) == IF H = {} THEN -1 ELSE CHOOSE h \in H : \A k \in H : k <= h

(* Mutant: the height SaplingDB is at is not skipped. *)
SkippedOffByOne(b) == ~Active(b) \/ lastFrontierHeight > Len(b)

(* The early returns of ProcessBlock: nothing to do, or a height SaplingDB *)
(* has already been at.                                                    *)
Skipped(b) == ~Active(b) \/ lastFrontierHeight >= Len(b)

Duplicates(b) == \E i, j \in DOMAIN Spends[b] : i # j /\ Spends[b][i] = Spends[b][j]

(* Mutant: a nullifier is only compared with those of its own block. *)
SpendsValidInBlock(b) == NoData(b) \/ (pool - ValueBalance[b] >= 0 /\ ~Duplicates(b))

(* The nullifier and value pool checks of ProcessBlock. *)
SpendsValid(b) ==
    \/ NoData(b)
    \/ /\ pool - ValueBalance[b] >= 0
       /\ ~Duplicates(b)
       /\ SpentIn(b) \cap DOMAIN nullifiers = {}

(* What ProcessBlock queues; without notes, the frontier carried forward. *)
Frontier == IF lastFrontierHeight = -1 THEN <<>> ELSE roots[lastFrontierHeight]
NewBatch(b) == [block |-> b, root |-> Frontier \o Outputs[b], pool |-> pool - ValueBalance[b]]

(* Mutant: a SaplingDB that is ahead is not tolerated. *)
InconsistentWhenAhead(b) ==
    Active(b) /\ ~VerifyBestBlock(Parent(b)) /\ Len(b) >= nSaplingStrictnessHeight

(* A mismatch the caller does not tolerate: SaplingDB is at another block  *)
(* than the parent and has not been at this height.                        *)
Inconsistent(b) ==
    /\ Active(b) /\ ~VerifyBestBlock(Parent(b))
    /\ lastFrontierHeight < Len(b)
    /\ Len(b) >= nSaplingStrictnessHeight

ProcessOK(b) == ~Inconsistent(b) /\ (Skipped(b) \/ SpendsValid(b))

(* The pending batch after ProcessBlock. *)
Queued(b) ==
    IF Inconsistent(b) \/ Skipped(b) THEN pending
    ELSE IF SpendsValid(b) THEN NewBatch(b) ELSE NoBatch

(* CommitBlock writes and syncs the batch, if there is one. *)
CommitBlock(batch) ==
    IF batch = NoBatch THEN UNCHANGED <<saplingDisk, lastFrontierHeight>>
    ELSE LET b == batch.block
             h == Len(b)
         IN  /\ nullifiers' = [n \in DOMAIN nullifiers \cup SpentIn(b) |->
                                 IF n \in SpentIn(b) THEN h ELSE nullifiers[n]]
             /\ roots' = [k \in DOMAIN roots \cup {h} |-> IF k = h THEN batch.root ELSE roots[k]]
             /\ best' = b
             /\ pool' = batch.pool
             /\ lastFrontierHeight' = IF h > lastFrontierHeight THEN h ELSE lastFrontierHeight

(* Mutant: the parent is taken for the block. *)
DriftedFromParent(b) == Active(b) /\ ~VerifyBestBlock(Parent(b)) /\ lastFrontierHeight <= Len(b)

(* The tolerance of DisconnectBlock. *)
Drifted(b) == Active(b) /\ ~VerifyBestBlock(b) /\ lastFrontierHeight <= Len(b)

(* Mutant: the value pool is not checked. *)
UndoOKAnyPool(b) ==
    ~Active(b) \/ \A n \in SpentIn(b) \cap DOMAIN nullifiers : nullifiers[n] = Len(b)

(* The checks of UndoBlock before it writes. *)
UndoOK(b) ==
    \/ ~Active(b) \/ NoData(b)
    \/ /\ \A n \in SpentIn(b) \cap DOMAIN nullifiers : nullifiers[n] = Len(b)
       /\ pool + ValueBalance[b] >= 0

(* Mutants: the nullifiers or the value pool are not restored. *)
UndoBlockKeeping(b, kept, released) ==
    IF ~Active(b) THEN UNCHANGED <<saplingDisk, lastFrontierHeight>>
    ELSE /\ nullifiers' = [n \in (DOMAIN nullifiers \ SpentIn(b)) \cup kept |-> nullifiers[n]]
         /\ roots' = [k \in DOMAIN roots \ {Len(b)} |-> roots[k]]
         /\ best' = Parent(b)
         /\ pool' = pool + released
         /\ lastFrontierHeight' = IF Len(b) >= lastFrontierHeight
                                  THEN MaxHeight(DOMAIN roots \ {Len(b)})
                                  ELSE lastFrontierHeight
UndoKeepsNullifiers(b) == UndoBlockKeeping(b, DOMAIN nullifiers, ValueBalance[b])
UndoKeepsPool(b) == UndoBlockKeeping(b, {}, 0)

(* The batch UndoBlock writes and syncs, and the anchor cache after it. *)
UndoBlock(b) ==
    IF ~Active(b) THEN UNCHANGED <<saplingDisk, lastFrontierHeight>>
    ELSE /\ nullifiers' = [n \in DOMAIN nullifiers \ SpentIn(b) |-> nullifiers[n]]
         /\ roots' = [k \in DOMAIN roots \ {Len(b)} |-> roots[k]]
         /\ best' = Parent(b)
         /\ pool' = pool + ValueBalance[b]
         /\ lastFrontierHeight' = IF Len(b) >= lastFrontierHeight
                                  THEN MaxHeight(DOMAIN roots \ {Len(b)})
                                  ELSE lastFrontierHeight

(* The steps that part SaplingDB from the chain: a block is skipped that   *)
(* it has not seen, or undone that is not its last, or the batch of a      *)
(* block that failed is committed with a block from before activation.     *)
SkipStrays(b) == Active(b) /\ lastFrontierHeight >= Len(b) /\ ~(best # NoBlock /\ IsAncestor(b, best))
UndoStrays(b) == Active(b) /\ best # b
CommitStrays(b) == Skipped(b) /\ pending # NoBatch

-----------------------------------------------------------------------------
(* The running node.  cs_main is held throughout each action. *)

(* FindMostWorkChain, up to the choice among the blocks with more work. *)
Targets == {t \in known : Work[t] > Work[tip] /\ \A f \in failed : ~IsAncestor(f, t)}

Receive(b) ==
    /\ mode = "up" /\ b \notin known /\ Parent(b) \in known
    /\ known' = known \cup {b}
    /\ UNCHANGED <<failed, tip, mode, replayed, diskVars, saplingVars, strayed, crashes>>

(* ConnectTip.  A block may fail in ProcessBlock or just before it, in the  *)
(* special transaction checks after it, where no guard discards the batch,  *)
(* or later, under SaplingCleanupGuard.  Some of the later checks depend on *)
(* the node (a conflict with a transaction lock): a contested block may     *)
(* fail or pass.                                                            *)
Connects(b) ==
    /\ mode = "up" /\ b # Genesis /\ Parent(b) = tip
    /\ \E t \in Targets : IsAncestor(b, t)

ConnectFails(b) ==
    /\ Connects(b)
    /\ \/ ~ProcessOK(b) /\ pending' = Queued(b)
       \/ ProcessOK(b) /\ Verdict[b] = "bad-special" /\ pending' = Queued(b)
       \/ ProcessOK(b) /\ Verdict[b] = "contested" /\ pending' = NoBatch
    /\ failed' = failed \cup {b}
    /\ UNCHANGED <<known, tip, mode, replayed, diskVars, saplingDisk, lastFrontierHeight,
                   strayed, crashes>>

Connect(b) ==
    /\ Connects(b) /\ ProcessOK(b) /\ Verdict[b] # "bad-special"
    /\ CommitBlock(Queued(b)) /\ pending' = NoBatch
    /\ tip' = b
    /\ strayed' = (strayed \/ SkipStrays(b) \/ CommitStrays(b))
    /\ UNCHANGED <<indexVars, mode, replayed, diskVars, crashes>>

(* TestBlockValidity on a template: ProcessBlock with fJustCheck. *)
JustCheck(b) ==
    /\ mode = "up" /\ b # Genesis /\ Parent(b) = tip /\ pending # NoBatch
    /\ ~Inconsistent(b) /\ ~Skipped(b)
    /\ pending' = NoBatch
    /\ UNCHANGED <<indexVars, tip, mode, replayed, diskVars, saplingDisk,
                   lastFrontierHeight, strayed, crashes>>

(* A fault takes the node off duty: a managed node is held for repair, a   *)
(* headless one exits (as in "down", or by a shutdown) and may be started  *)
(* again.                                                                  *)
OffDuty(exit) == mode' \in {"held", exit}

Disconnects == mode = "up" /\ tip # Genesis /\ \E t \in Targets : ~IsAncestor(tip, t)

DisconnectTip ==
    /\ Disconnects /\ ~Drifted(tip) /\ UndoOK(tip)
    /\ UndoBlock(tip)
    /\ tip' = Parent(tip)
    /\ strayed' = (strayed \/ UndoStrays(tip))
    /\ UNCHANGED <<indexVars, mode, replayed, diskVars, pending, crashes>>

(* DISCONNECT_FAILED: quarantine on drift, AbortNode otherwise. *)
DisconnectFails ==
    /\ Disconnects
    /\ \/ Drifted(tip) /\ OffDuty("stopping")
       \/ ~Drifted(tip) /\ ~UndoOK(tip) /\ mode' = "stopping"
    /\ UNCHANGED <<indexVars, tip, replayed, diskVars, saplingVars, strayed, crashes>>

-----------------------------------------------------------------------------
(* FlushStateToDisk *)

(* The blocks and the index are written before the coins; by themselves    *)
(* they are written every hour.  What of the index is on disk is chosen    *)
(* when it is read back, see OnDisk.                                       *)
BeginFlush ==
    /\ mode = "up" /\ coins # tip
    /\ mode' = "flush"
    /\ UNCHANGED <<indexVars, tip, replayed, diskVars, saplingVars, strayed, crashes>>

(* CCoinsViewDB::BatchWrite: a partial batch leaves both heads behind. *)
WritePartialBatch ==
    /\ mode = "flush" /\ heads = <<>>
    /\ heads' = <<tip, coins>>
    /\ UNCHANGED <<indexVars, tip, mode, replayed, coins, evo, saplingVars,
                   strayed, crashes>>

WriteFinalBatch ==
    /\ mode = "flush"
    /\ coins' = tip /\ heads' = <<>> /\ mode' = "evo"
    /\ UNCHANGED <<indexVars, tip, replayed, evo, saplingVars, strayed, crashes>>

CommitEvoDB ==
    /\ mode = "evo"
    /\ evo' = tip /\ mode' = "up"
    /\ UNCHANGED <<indexVars, tip, replayed, coins, heads, saplingVars,
                   strayed, crashes>>

(* An orderly stop, and the flush of PrepareShutdown. *)
Stop ==
    /\ mode = "up" /\ mode' = "stopping"
    /\ UNCHANGED <<indexVars, tip, replayed, diskVars, saplingVars, strayed, crashes>>

Shutdown ==
    /\ mode = "stopping" /\ mode' = "down"
    /\ coins' = tip /\ heads' = <<>> /\ evo' = tip
    /\ tip' = Genesis /\ replayed' = Genesis
    /\ lastFrontierHeight' = -1 /\ pending' = NoBatch
    /\ UNCHANGED <<indexVars, saplingDisk, strayed, crashes>>

-----------------------------------------------------------------------------
(* Crash and restart *)

(* The index on disk holds every block the coins database refers to, and   *)
(* of the blocks received since as many as an hourly write has caught.     *)
OnDisk(index) ==
    /\ index \in SUBSET known
    /\ {Genesis, coins, evo} \cup {heads[i] : i \in DOMAIN heads} \subseteq index
    /\ PrefixClosed(index)

Crash ==
    /\ mode \notin {"down", "held"} /\ crashes < MaxCrashes
    /\ mode' = "down" /\ crashes' = crashes + 1
    /\ OnDisk(known') /\ failed' \in SUBSET (failed \cap known')
    /\ tip' = Genesis /\ replayed' = Genesis
    /\ lastFrontierHeight' = -1 /\ pending' = NoBatch
    /\ UNCHANGED <<diskVars, saplingDisk, strayed>>

Ahead(lo, hi) ==
    /\ best \in known
    /\ Len(best) > Len(lo) /\ Len(best) <= Len(hi)

(* The checks at the head of ReplayBlocks. *)
Replayable ==
    /\ evo = heads[2]
    /\ Active(heads[2]) => VerifyBestBlock(heads[2]) \/ Ahead(heads[2], heads[1])

(* Mutant: ahead by height, on any branch. *)
DriftFreeAnyBranch(t) ==
    evo = t /\ (Active(t) => VerifyBestBlock(t) \/ Ahead(t, best))

(* StartupDriftCheck. *)
DriftFree(t) ==
    /\ evo = t
    /\ Active(t) => VerifyBestBlock(t) \/ (Ahead(t, best) /\ IsAncestor(t, best))

(* DetectPostRollbackContamination: where it applies, both databases have  *)
(* to be at the tip itself.                                                *)
Contaminated(t) == PlanX /\ ~(VerifyBestBlock(t) /\ evo = t)

(* The constructor of CSaplingState, with RebuildAnchorIndex. *)
Open ==
    /\ lastFrontierHeight' = MaxHeight(DOMAIN roots) /\ pending' = NoBatch

BeginReplay ==
    /\ mode = "down" /\ heads # <<>>
    /\ Open
    /\ \/ Replayable /\ mode' = "replay" /\ replayed' = heads[2]
       \/ ~Replayable /\ OffDuty("down") /\ UNCHANGED replayed
    /\ UNCHANGED <<indexVars, tip, diskVars, saplingDisk, strayed, crashes>>

RollsBack == mode = "replay" /\ ~IsAncestor(replayed, heads[1])
RollsForward == mode = "replay" /\ replayed # heads[1] /\ IsAncestor(replayed, heads[1])
NextReplayed == Ancestor(heads[1], Len(replayed) + 1)

RollBack ==
    /\ RollsBack /\ ~Drifted(replayed) /\ UndoOK(replayed)
    /\ UndoBlock(replayed)
    /\ replayed' = Parent(replayed)
    /\ strayed' = (strayed \/ UndoStrays(replayed))
    /\ UNCHANGED <<indexVars, tip, mode, diskVars, pending, crashes>>

RollforwardBlock ==
    /\ RollsForward /\ ProcessOK(NextReplayed)
    /\ CommitBlock(Queued(NextReplayed)) /\ pending' = NoBatch
    /\ replayed' = NextReplayed
    /\ strayed' = (strayed \/ SkipStrays(NextReplayed) \/ CommitStrays(NextReplayed))
    /\ UNCHANGED <<indexVars, tip, mode, diskVars, crashes>>

ReplayFails ==
    /\ \/ RollsBack /\ (Drifted(replayed) \/ ~UndoOK(replayed))
       \/ RollsForward /\ ~ProcessOK(NextReplayed)
    /\ OffDuty("down")
    /\ UNCHANGED <<indexVars, tip, replayed, diskVars, saplingVars, strayed, crashes>>

FinishReplay ==
    /\ mode = "replay" /\ replayed = heads[1]
    /\ coins' = heads[1] /\ heads' = <<>> /\ mode' = "load"
    /\ UNCHANGED <<indexVars, tip, replayed, evo, saplingVars, strayed, crashes>>

(* LoadChainTip and the startup checks; after a replay EvoDB is committed  *)
(* first, without one there is nothing to commit.  Contamination is an     *)
(* error of startup, drift a fault.                                        *)
Start(t) ==
    IF ~Contaminated(t) /\ DriftFree(t) THEN mode' = "up" /\ tip' = t
    ELSE /\ IF Contaminated(t) THEN mode' = "down" ELSE OffDuty("down")
         /\ UNCHANGED tip

LoadAfterReplay ==
    /\ mode = "load"
    /\ IF evo # coins
       THEN evo' = coins /\ UNCHANGED <<mode, tip>>
       ELSE Start(coins) /\ UNCHANGED evo
    /\ UNCHANGED <<indexVars, replayed, coins, heads, saplingVars, strayed, crashes>>

Load ==
    /\ mode = "down" /\ heads = <<>>
    /\ Open /\ Start(coins)
    /\ UNCHANGED <<indexVars, replayed, diskVars, saplingDisk, strayed, crashes>>

-----------------------------------------------------------------------------
ActivateBestChain == (\E b \in Blocks : Connect(b) \/ ConnectFails(b))
                     \/ DisconnectTip \/ DisconnectFails
Next ==
    \/ \E b \in Blocks : Receive(b) \/ Connect(b) \/ ConnectFails(b) \/ JustCheck(b)
    \/ DisconnectTip \/ DisconnectFails
    \/ BeginFlush \/ WritePartialBatch \/ WriteFinalBatch \/ CommitEvoDB
    \/ Stop \/ Shutdown \/ Crash
    \/ BeginReplay \/ RollBack \/ RollforwardBlock \/ ReplayFails \/ FinishReplay
    \/ LoadAfterReplay \/ Load

Spec == Init /\ [][Next]_vars

(* ActivateBestChain runs at startup and after every block until it finds  *)
(* no better one; a flush that has begun runs to its end.                  *)
Fairness == WF_vars(ActivateBestChain) /\ WF_vars(WriteFinalBatch \/ CommitEvoDB)
FairSpec == Spec /\ Fairness

-----------------------------------------------------------------------------
(* Properties *)

LedgerHead == IF best # NoBlock /\ Active(best) THEN best ELSE Genesis
LedgerNotes == IF DOMAIN roots = {} THEN <<>> ELSE roots[MaxHeight(DOMAIN roots)]
OnDuty == mode \in {"up", "flush", "evo"}

(* SaplingDB is the ledger of the chain to its best block and of nothing   *)
(* else: one frontier for each height, each the one below with the block's *)
(* notes appended, and each nullifier at the height of the one block that  *)
(* spends it (ProcessBlock, CommitBlock, UndoBlock).  It survives failed   *)
(* blocks, flushes, crashes and replays, until the node takes one of the   *)
(* steps that set strayed.                                                 *)
LedgerExact ==
    ~strayed =>
        /\ DOMAIN roots = SaplingHeight .. Len(LedgerHead)
        /\ \A h \in DOMAIN roots :
              roots[h] = (IF h = SaplingHeight THEN <<>> ELSE roots[h - 1])
                         \o Outputs[Ancestor(LedgerHead, h)]
        /\ \A n \in DOMAIN nullifiers :
              nullifiers[n] \in DOMAIN roots /\ n \in SpentIn(Ancestor(LedgerHead, nullifiers[n]))
        /\ \A h \in DOMAIN roots : \A n \in SpentIn(Ancestor(LedgerHead, h)) :
              n \in DOMAIN nullifiers /\ nullifiers[n] = h

(* What the chain to b leaves in the pool. *)
PoolAlong(b) ==
    LET sum[h \in 0 .. Len(b)] ==
            IF h < SaplingHeight THEN 0 ELSE sum[h - 1] - ValueBalance[Ancestor(b, h)]
    IN  sum
PoolOf(b) == PoolAlong(b)[Len(b)]

(* The value pool (ZIP-209) is the sum over that chain. *)
PoolExact == ~strayed => pool = PoolOf(LedgerHead)

(* The active chain is part of that ledger: every nullifier it spends was  *)
(* checked and recorded, also where ProcessBlock skipped the block.        *)
TipOnLedger == ~strayed /\ OnDuty /\ Active(tip) => IsAncestor(tip, LedgerHead)

SpendsOnce(b) ==
    \A h, k \in 1 .. Len(b) : \A i \in DOMAIN Spends[Ancestor(b, h)], j \in DOMAIN Spends[Ancestor(b, k)] :
        Spends[Ancestor(b, h)][i] = Spends[Ancestor(b, k)][j] => h = k /\ i = j

(* ConnectTip fails no block that is valid on its own chain: neither a     *)
(* crash nor a reorganisation makes the node reject what others accept.    *)
HonestAccepted ==
    ~strayed => \A b \in failed : ~(Verdict[b] = "valid" /\ SpendsOnce(b) /\ PoolOf(b) >= 0)

(* Nor does ConnectTip let the others through: the active chain spends no  *)
(* nullifier twice, in one block or in two, and at none of its blocks has  *)
(* more left the pool than went in.                                        *)
TipSound ==
    ~strayed /\ OnDuty =>
        /\ SpendsOnce(tip)
        /\ \A h \in 0 .. Len(tip) : PoolOf(Ancestor(tip, h)) >= 0

(* Only a crash can make the startup, replay and disconnect checks hold    *)
(* the node: orderly stops, failed blocks and reorganisations, across the  *)
(* activation height too, leave the three databases in step.               *)
FaultsNeedCrash == mode = "held" => crashes > 0 \/ strayed

(* StartupDriftCheck: a node that starts with SaplingDB ahead, and knows   *)
(* the blocks, catches up with it, unless it is stopped, finds a better    *)
(* branch first, or fails a contested block this time.                     *)
CatchesUp ==
    (OnDuty /\ Active(tip) /\ best \in known /\ tip # best /\ ~strayed)
        ~> (tip = best \/ strayed \/ ~OnDuty \/ \E f \in failed : Verdict[f] = "contested" /\ IsAncestor(f, best))

(* Whatever branch the node is on, the nullifiers of its active chain are  *)
(* in SaplingDB.                                                           *)
NullifiersRecorded ==
    OnDuty => \A h \in SaplingHeight .. Len(tip) : SpentIn(Ancestor(tip, h)) \subseteq DOMAIN nullifiers

(* SaplingDB implements the ledger of ShieldedLedger. *)
Ledger == INSTANCE ShieldedLedger WITH
    First <- SaplingHeight,
    head <- LedgerHead,
    spent <- DOMAIN nullifiers,
    notes <- LedgerNotes,
    value <- pool,
    trusted <- ~strayed

(* Every write of SaplingDB applies or takes back one whole block. *)
LedgerRefined == Ledger!Spec
=============================================================================
