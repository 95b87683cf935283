# TLA+ models of the Kerrigan node

Kerrigan is a proof-of-work chain with four mining algorithms, a masternode
layer and the Hivemind Protocol (HMP). Under HMP the miners and masternodes that
have earned a *privilege* sign recent blocks, the signatures are assembled into a
*seal*, a later block embeds the seal, and the seal's weight multiplies that
block's work in the fork choice. This directory models the parts of the node
that decide those weights and choose the chain by them, the pool of pending
commitments, the shielded state beside the chain and the node's guided repair.
TLC checks the models on small instances; TLAPS proves every safety property the
runs check for all parameters.

Run a model with `tlc -config X.cfg M`, check the proofs with `tlapm M.tla`. All
paths below are relative to `src/`, the repository's sources to `src/src/`.

## The system

What each part keeps, does and must guarantee. The last column is the module
that models it, or "-" (see *Not modelled*).

| Part | State | Operations | What makes it hard | Must hold | Module |
|---|---|---|---|---|---|
| Privilege tracker (`hmp/privilege.cpp`) | three sliding windows over recent blocks, records per key and algorithm | connect, disconnect, clear, evict, recompute; tiers and arming are read | incremental update and recomputation must agree; a disconnect cannot restore what was evicted | records are the fold of the window | `PrivilegeTracker` |
| Commitment registry (`hmp/commitment.cpp`) | first height of each committed key | connect, disconnect, evict | survives a rebuild, evicts by age | only keys committed on the active chain | `CommitmentRegistry` |
| HMP state in validation (`validation.cpp`) | the anchor: the block the trackers reflect | ConnectBlock with deferred mutations, DisconnectTip, RebuildHMPState, RollforwardBlock, startup | reorgs, rejected blocks, unreadable blocks, failing flushes, crashes | a seal is weighed on state that is a function of the chain | `HMPState` |
| Seal weight (`hmp/chain_weight.cpp`, `hmp/negative_proof.cpp`, `validation.cpp`) | none | multiplier, negative proof, mannequin penalty, weight per stage | integer rounding, many boundary cases | sealing never costs weight | `SealWeight` |
| Fork choice (`validation.cpp`, `node/blockstorage.cpp`) | block index, candidate set, tip | headers, blocks, ActivateBestChain, load | the sort key of a block changes when it is connected; cs_main is released between steps | the tip is the best known valid chain | `ForkChoice` |
| Seal manager (`hmp/seal_manager.cpp`) | sessions, seal cache and its deque, height index, signing record | OnNewBlock, SignBlock, AddSealShare, AddAssembledSeal, worker, BlockDisconnected | three threads; checks before and after unlocked verification; late failures of ConnectBlock | quotas, one signature per height, a usable cache | `SealManager` |
| HMP messages (`net_processing.cpp`) | rate limits | SEALSHARE, SEALASM, PUBKEYCOMMIT | chain checks are stale once cs_main is released | no seal of a foreign chain in a template | `SealManager`, `CommitPool` |
| Commitment pool (`hmp/commitment.cpp`) | pending commitments | Add, Remove, templates | two locks, expiry, a limit | no committed key stays pending; full templates | `CommitPool` |
| Difficulty (`pow.cpp`) | none | per-algorithm retarget | clamps, gaps of one algorithm | bounds of the retarget | - |
| Recovery, quarantine (`recovery/`, `init.cpp`) | marker, ledger and sentinel on disk, phase and findings in memory | arm, disarm, scheduler tick, quarantine, wipe at shutdown and at start | crashes between persisted steps, unlocked reads of the ledger | a quarantined database is not served; wipes are bounded; a repair ends | `Recovery` |
| ChainLocks (`chainlock/`) | best lock, attempts | receive, enforce, sign | races with the tip | never enforce two chains | - |
| InstantSend (`instantsend/`) | locks, inputs, pending | receive, verify, confirm, remove | out-of-order locks and blocks | no two locks on an input | - |
| Shielded state (`sapling/`, `validation.cpp`, `txdb.cpp`) | anchors, nullifiers, value pool, pending batch | connect, disconnect, discard, flush, replay, startup checks | SaplingDB is synced per block, the coins per flush | the ledger of one chain, no honest block rejected | `ShieldedState`, `ShieldedLedger` |
| Credit pool, hard-fork signals, drones, masternode list (`evo/`) | lists and sums per block | diff, undo, cache | undo after reorg, cache coherence | state is a function of the chain | - |
| Quorums (`llmq/`, `active/`) | sessions, shares, commitments | DKG, signing, recovery of signatures | messages of many nodes | one recovered signature per id | - |
| Governance, growth escrow (`governance/`) | objects, votes, budget | votes, triggers, validation | order of votes and triggers | budget bounds | - |
| Mempool, transport, storage, indexes, wallet, RPC, GUI | - | - | inherited, I/O | - | - |

How the parts meet: `ActivateBestChain` picks the candidate with the most
seal-weighted work and calls `ConnectBlock`. That reads the trackers to weigh
the block's seal, changes the block's key in the candidate set, opens a session
in the seal manager and signs, and at the end advances the trackers and the
anchor. `DisconnectTip` undoes all of it. The seal manager's worker turns
sessions into seals and the miner embeds one in the next block, together with
commitments from the pool. `ConnectBlock` also queues the block's shielded data,
which is committed to SaplingDB when the block is known to be valid. What a
startup check finds wrong with these databases goes to the recovery manager.

## Modules

| Module | Models | Builds on |
|---|---|---|
| `HMPParams` | consensus parameters, stages, activation heights | |
| `PrivilegeTracker` | the three windows, the records, tiers, arming | `HMPParams` |
| `CommitmentRegistry` | the registry with its eviction | `HMPParams` |
| `HMPState` | how validation drives both (the composition) | the two above |
| `SealWeight` | the weight of a block on a state of `HMPState` | `HMPState` |
| `ForkChoice` | index, candidates, ActivateBestChain | |
| `SealManager` | sessions, seals, signing, three threads | |
| `CommitPool` | the pool of pending commitments beside the registry | `HMPState` |
| `ShieldedLedger` | what SaplingDB promises: blocks applied and taken back whole | |
| `ShieldedState` | SaplingDB, coins and EvoDB through flushes, crashes, replays | refines `ShieldedLedger` |
| `Recovery` | the guided repair and the quarantine | |
| `...Proofs`, `ForkChoiceSteps` | theorems | the module each is named after; those of PrivilegeTracker are in `HMPStateProofs` |
| `MC...` | small instances for TLC | |

Operators named "Mutant" in their comment are plausible errors of the code. No
specification uses them; each one, put in place of the definition that follows
it, makes TLC report the property it is paired with in `PROJECT.json`.

### PrivilegeTracker, CommitmentRegistry, HMPState

`window`, `extended` and `sealLong` are `m_window`, the window of the dominance
check and the long seal window; `records` are the per-key records, which the
code updates in place while nothing is evicted and recomputes otherwise.
`commitments` is the registry. `chain` is the active chain as a sequence of
blocks, a block being the fields the trackers read, and a hash is the chain that
ends in the block. `anchor` is `m_hmp_state_anchor`, and `pc` says what the
thread with cs_main is doing.

`ConnectBlock` starts (with a rebuild if the anchor is not the parent),
`ApplyDeferred` is its successful end, `RejectBlock` and `PersistFails` its
failures before and after the deferred mutations. `RebuildStep`,
`RebuildReadFails` and `RebuildDone` are RebuildHMPState block by block,
`RollforwardBlock` and its companions the replay of ReplayBlocks, `DisconnectTip`
and `DisconnectFlushFails` the two ends of a disconnect, `Restart` a crash or a
clean restart at any flushed block.

Choices: TestBlockValidity and VerifyDB change no tracker and are left out. A
coinbase of an older format cannot pass the checks at these heights. The last
active height of a record is never read. The height index of the registry is
derived. The masternode list enters as the constant `BroodOperators`. Regtest,
where HMP starts at height 0, is excluded by `HMPHeight > 0`.

### SealWeight

Adds operators and no actions: `ComputeSealMultiplier` with its tiers and
quorum, `EvaluateNegativeProof`, `EvaluateMannequinPenalty`, the ladder from
`RearmHeight` on (`RearmWeight`) and before it (`LegacyWeight`), and
`nSealWeight`, the value ConnectBlock stores. Divisions are the code's integer
divisions.

### ForkChoice

A block is the sequence of branches that leads to it. `AcceptBlockHeader` and
`AcceptBlock` fill the index with provisional weights, `ActivateBestChain`,
`LockMain`, `FindMostWorkChain`, `DisconnectTip`, `ConnectTip` and `AfterStep`
follow the two loops of ActivateBestChain, and other actions run only where the
code has released cs_main. The final weight and the validity of a block are
fixed in `Init` for each block (`sealWeight`, `verdict`), since both are
functions of the block's chain; that this is so for the weight is the theorem
about `HMPState`. Left out: ChainLock conflicts, pruning, snapshots, the RPCs
that mark blocks by hand, the minimum chain work and an unclean index.

### SealManager

One action per critical section. `val` is the thread inside ConnectBlock: it
opens the session (`ConnectBlock`), signs (`SignBlock`, `DoNotSign`), checks and
adds its share (`CheckOwnShare`, `AddOwnShare`) and ends, with the block as tip
or rejected (`FinishConnect`). `net` is the message between its first check and
its insertion (`RecvShare`, `AddShare`; `RecvSeal`, `CheckSeal`, `AddSeal`;
`Invalid`). `WorkerTick` is one round of the worker, TryAssemble and
CleanupStaleSessions together, as both run under one lock. Time is the age of
each session in units in which the signing window is 1. `published` is history:
the own shares that were broadcast.

Choices: signature, VRF and eligibility results are free. `prevSealHash` is the
parent's hash (from `nPrevSealHashFixHeight` on). The sessions a rebuild opens
are opened in one step. The root of the tree is the last block before stage 3.

### CommitPool

Extends `HMPState`: its own variables are the pool (`m_pending`), the call of
`Add` in progress, the keys ConnectBlock has yet to remove, and the clock.
`AskRegistry`, `AskPool` and `Insert` are the three critical sections of `Add`,
between which the chain may move; `VerifyFails` is its failing signature check.
`PoolConnectBlock`, `PoolApplyDeferred` and `Remove` are ConnectBlock with the
cleanup at its end, `PoolReplay` a rebuild, `PoolOther` every other step of
`HMPState`, `PoolRestart` a start with the node's own commitment added.
`Template` is what CreateNewBlock puts into a block, before and from
`RearmHeight` on. `late` is history: the keys the registry gained while their
`Add` was under way or in a replay.

### ShieldedLedger, ShieldedState

`ShieldedLedger` is the abstract store: a chain, its nullifiers, notes and value,
changed by applying the next block, which spends no nullifier twice, or taking
back the last one. `ShieldedState` is the code. A block is the sequence of branches that leads to it; a frontier is
the sequence of note commitments in it and stands for its root. `nullifiers`,
`roots`, `best` and `pool` are SaplingDB, `pending` is the batch ProcessBlock
leaves for CommitBlock, `lastFrontierHeight` the cache the code decides by;
`coins`, `heads` and `evo` are the other two databases on disk. `Connect`,
`ConnectFails`, `JustCheck`, `DisconnectTip` and `DisconnectFails` are the steps
of ActivateBestChain; `BeginFlush`, `WritePartialBatch`, `WriteFinalBatch` and
`CommitEvoDB` the stages of a flush; `Stop`, `Shutdown` and `Crash` the ends of a
process; `BeginReplay` to `FinishReplay` ReplayBlocks; `LoadAfterReplay` and
`Load` the startup checks.

`strayed` is history. It records the three steps by which SaplingDB leaves the
chain: a block is skipped by height although SaplingDB has another block there, a
block that is not SaplingDB's last is undone, and a leftover batch is committed
with a skipped block. The properties speak of what precedes such a step. That
the first of them happens is the counterexample of `shielded_reorg`.

### Recovery

`proc` is the life of the process, `marker`, `ledger`, `sentinel`, `abortFile`,
`present` and `tombs` are files, `mem` the fields of RecoveryManager. `arm`,
`disarm` and `tick` are the calls of RepairArm, RepairDisarm and the scheduler in
progress: each read or write of a file is a step, as no lock covers the ledger.
`ExecuteMarkerWipe` is the wipe target by target, at shutdown or at start;
`RunStartupRepairTasks` and `Load` are the start. `Init` has every ledger and
marker a previous process can have left. A removal may fail, a process may crash
between any two steps, and a day may pass, which empties the rate windows.
`past` is history for the properties. The confirm token, the network ladder and
a second concurrent arm are left out.

## Runs

| Run | Instance | Shows |
|---|---|---|
| `hmp_state` | two algorithms, two keys, chains of up to seven blocks, one restart | the records are the fold of the window; a seal is weighed on windows that agree with the chain; commitments are on the chain; the anchor is the tip or null; a restart takes no signer away from the seal being weighed; the replay loops end |
| `fork_choice` | a branch of three blocks against one, weights 1000, 10000 and 20000, one invalid block, one restart | the tip is a candidate and no candidate is worse; without penalties the candidate set is complete, the settled tip is its best and cs_main is never released on a worse tip than it was taken on; ActivateBestChain returns |
| `seal_weight` | four keys, two algorithms, six blocks | a seal never weighs less than none; a known key's signature never lowers the weight of a seal that strangers do not dominate |
| `seal_safety` | two rival blocks, one may fail late, two signers, one share, one seal kept, one restart | every cached seal is in the insertion order, so eviction never reads an empty deque; the share quota holds; one own signature per height between disconnects |
| `seal_sessions` | two rival blocks, two signers, two shares | an assembled session takes no more shares; every session ends |
| `shielded` | nine blocks on two branches, double spends, an invalid and a contested block, two crashes | SaplingDB is the exact ledger of one chain with its value pool, the tip is on it, it refines `ShieldedLedger`; honest blocks are accepted and the active chain neither spends a nullifier twice nor overdraws the pool; only a crash leads to a fault; a node behind SaplingDB catches up |
| `commit_pool` | three keys, a pool of two over blocks that take one, three heights, one restart | the cleanup misses only late keys; stale entries cost a template nothing; entries expire |
| `recovery` | two targets, one attempt, one wipe, one arm, one disarm, one mishap | a quarantined database is not served again; wipes stay within the guard; a repair in flight ends; a repair armed on a parked node is carried out |

Each module's type invariant is checked in its run as well. Four runs end in a
counterexample, each against a sentence in the code:

| Run | The code says | What happens |
|---|---|---|
| `hmp_filter` | signers are filtered "regardless of code path" alike (`validation.cpp`, FilterSealSigners) | the registry of a node that stayed up and of one restarted at the same block differ, so the two can keep different signers: the restarted one more, never fewer (`RestartKeepsSigners`) |
| `fork_work` | "chain with most seal-weighted work wins" | descendants keep the provisional work of their headers after an ancestor was reweighed; a valid extension of the tip is not connected |
| `seal_equivocation` | "refuse to sign a different block at a height we've already signed" | a disconnect erases the record, and the node signs the rival |
| `shielded_reorg` | "ProcessBlock is idempotent and skips blocks already committed to SaplingDB" | after a crash that leaves SaplingDB ahead, the blocks of a rival branch are skipped by height and their nullifiers never recorded |

Two more counterexamples have a configuration but no run of their own.
`MCForkProgress.cfg` refutes `ForwardProgress` ("We absolutely may not unlock
cs_main until we've made forward progress", `validation.cpp:4925`): a branch
preferred on its provisional weight is connected, turns out lighter under an
armed penalty, and cs_main is released on it. `MCSealTemplate.cfg` refutes
`TemplateSealOnChain`: a reorganisation between the chain check of a SEALASM
message (`net_processing.cpp:5674`) and its insertion leaves the height index,
and the template, with a block off the chain.

### Met while modelling

Fork choice and seals: connecting a penalised branch can leave a block that sorts
above the tip outside the candidate set (the cause is that of
`MCForkProgress.cfg`). The worker replaces a peer's seal by its own smaller one.
Sessions and signing records of a block that ConnectBlock rejects late stay,
although the trackers' mutations are deferred for that reason. The multiplier
can exceed the maximum named in `chain.h`. On the ladder from `RearmHeight` on a
seal of which more than half the signers are strangers weighs 10000 with one
kept signer and is penalised with two, so `SignerNeverHurts` is stated for
seals of which at most half are.

Commitment pool: a comment in `init.cpp` says the node's own commitment "will be
re-attempted on each outbound VERACK anyway", but VERACK only sends what is in
the pool (`net_processing.cpp:4013`). AddFromReorg takes nothing, as the
commitment of a coinbase carries no signature. The second check of MAX_PENDING
never fails.

Shielded state: StartupDriftCheck refuses a SaplingDB that is ahead on the same
branch if its block is not in the index on disk. A crash between the coins flush
and the commit of EvoDB leaves the two at different blocks. The replay of a flush
interrupted across a reorganisation ends held. With `SaplingHeight` 2 and a
strictness height of 0 (devnet) a reorganisation across activation rejects valid
blocks; mainnet, testnet and regtest satisfy `TolerantStart`. With the
recovery set active, a reorganisation across activation followed by an orderly
stop makes the next start exit (DetectPostRollbackContamination asks for
equality).

Recovery: a crash between the consumption of the marker and the write of the
ledger leaves a wipe uncounted and its repair not resumed. Arming during a repair
in flight writes "armed", a disarm "preserves" it, and a restart before the next
tick strands that repair. The verified-health step is deferred out of the lock
and can erase a sentinel written in between. A rebuild flag clears the sentinel
before the rebuild; a crash in between lets a plain restart go to duty. A failed
removal is followed by an unconditional sweep of the tombstones. A disarm that
crosses an arm can report success with the marker still there.

### Bounds

Bounds are constants of the modules and appear in guards: `MaxHeight`,
`MaxRestarts`, `MaxBad`, `MaxOrder`, `MaxCrashes`, `MaxTime`, `MaxArms`,
`MaxDisarms`, `MaxMishaps`. They are chosen so that each mechanism meets its
limit: chains of `hmp_state` overflow all windows (2, 3 and 1 blocks), evict a
commitment and commit a key again; a cache of one seal evicts on every second
seal; a quota of one share makes two threads collide; a pool of two is filled; a
guard of one attempt and one wipe is used up by the repair `Init` may hold; two
crashes reach a crash during the replay of a flush that a crash interrupted. In
the fork runs the tree has a branch that wins on provisional work and loses on
final work. `MaxOrder` bounds the deque of the seal manager, which may hold a
block more than once; where liveness is checked it is never reached. Deadlock is
not checked where the bounds, or a node that has halted, end a behaviour. The
safety results do not rest on the bounds: the theorems hold for all of them.

### Fairness

All of it is weak fairness. `HMPState`: the replay loops run in the thread that
holds cs_main and wait for nobody; ConnectBlock returns. `ForkChoice`: the thread
inside ActivateBestChain, and the start of a node, run on; nothing is assumed of
peers. `SealManager`: the worker loops until shutdown and time passes; nothing is
assumed of validation or of peers. `ShieldedState`: ActivateBestChain runs until
it finds no better block, a flush that began runs on. `Recovery`: a call that has
begun goes on, the scheduler ticks, sync and the witness rebuild progress, the
main thread takes its steps, and whoever manages the node starts it again.

## Proofs

Every invariant, action property and refinement that a passing run checks is also
a theorem, for all values of the constants. What is assumed of them is in the
named assumptions of the modules, which TLC evaluates on every run:
`ParamsAssumption` and `StateAssumption` (finite keys, stages in order, positive
windows, a trailing depth below the stage 3 height), `TreeAssumption` and
`ParametersAssumption` (finite, prefix-closed trees of blocks),
`PoolAssumption`, `ShieldedAssumption` and `RecoveryAssumption` (types and
positive limits). One theorem has a further hypothesis, `TolerantStart`, below.

**HMPStateProofs.** `BaseInv` = types, bounds of the
windows, records = fold of the window, and what `pc` says of `pending`, `replay`
and `anchor`; it gives `TypeCorrect`, `RecordsCorrect` and `AnchorCorrect`. The
step for records needs that the in-place update equals the recomputation when
nothing is evicted (`CreditIsRebuild`). `CommitmentsCorrect` is inductive
together with `BaseInv`. `WeighedCorrect` needs `AgreeInv`: an anchored tracker
agrees with the chain from `DetHeight` on, and a rebuild in progress agrees on the
heights replayed so far; without that conjunct it is not inductive. It rests on
`LookbackCovers` (the replay starts early enough for every window) and `PushAgree`
(pushing an entry moves each window by one). `RestartCorrect` needs
`RegistryRecent`: every registered commitment is of stage 2 or later and no older
than the lookback of RebuildHMPState, counted from the tip or from the last block
rolled forward. With `CommitmentsCorrect` it puts the block of each commitment
among those a restarted node replays (`ColdEarlier`), which therefore registers
the key at that height or before it. `ColdRegistry` is exact where the eviction
window equals that lookback, as on every network and in the instances; were it
shorter, the restarted node would evict some of what it replays.

**SealWeightProofs.** `MultiplierRange` bounds each ladder and bonus.
`SealNeverPenalisedCorrect` follows from `BaseInv` and the ranges.
`SignerNeverHurtsCorrect` is monotonicity: adding a known key raises or keeps the
count of present Elders in each tier, the interpolated ladders are monotone in
their integer divisions, and no penalty step is crossed downwards.

**ForkChoiceSteps, ForkChoiceProofs.** `IInv` joins the shape of the index (`Shape`), the verdicts
of its blocks (`Verdicts`), the works of the active chain (`Works`), what each
place of ActivateBestChain implies (`Control`) and how works rise without the
penalty (`Rising`). It gives the types, `TipIsCandidate`, `NoWorseCandidate` and
`UnpenalisedProgress`. The delicate step is `ConnectTip`, which changes the key
of a block inside the sorted set: the works of the new tip are compared with those
of every other candidate before and after. `CandidatesComplete` and `TipIsBest`
are not inductive over `IInv`. `Complete` says that a linked block missing from
the candidates has a failed ancestor, or is worse than the tip or, during a search,
than the tip the activation started from; `Chosen` says that no untainted
candidate is better than the target of a search, or than the tip when the last
caller has returned. Both are inductive on top of `IInv`.

**SealManagerProofs.** `SealQuota` and `SealFrozen` need only the shape of the
sessions. `SealOneSignature` needs `SignInv`: a share on its way, and every live
own share above the tip, has its block on record. `SealType` and `SealOrder` need
`TypeInv`, which adds that the cached seals are in the insertion order and that
both height maps point to blocks of their heights. What erasing a block from the
deque leaves, and where the eviction loop stops, are lemmas about the operators
(`ErasedFacts`, `PoppedFacts`, `Evicts`), by induction over the deque.

**CommitPoolProofs.** `PoolInv` is the type and size invariant, with the shape of
a connect in progress. `PoolCleanup` adds that every stale key is in `late` or
still in `cleanup`. `PoolExpires` is an action property of `Insert`.
`PoolTemplateFull` follows from `PoolInv` by counting: the first n keys in the
order of the pool are n or all of it (`FirstCount`, by induction on n), so a
list twice as long as a block, less at most a block of stale entries, still fills
the block (`TemplateCount`).

**ShieldedStateProofs.** `Types /\ LedgerInv`: until `strayed`, SaplingDB is the
exact ledger of the chain to its best block, the cached height is its last, and
the tip, and the block an interrupted flush came from, are on that chain. It
gives `ShieldedLedgerExact`, `ShieldedTipOnLedger` and the refinement
`ShieldedRefines`: every step maps to applying or taking back one block, or to a
stutter. `ShieldedPoolExact` adds the value pool, whose sum over the chain is a
recursive function; that the sum along a chain is that of its parent and one
block is proved by least counterexample. `ShieldedFaultsNeedCrash` adds `Uncrashed`:
before any crash the three databases are at the same block whenever the node goes
down. `ShieldedHonestAccepted` assumes `TolerantStart` (the activation height is
1 or below `nSaplingStrictnessHeight`), which the main, test and regression
networks satisfy and a devnet does not; there the property fails. The converse,
`ShieldedTipSound`, needs `Sound`: every block of the ledger's chain was free of
duplicates and left the pool at or above zero when it was applied, which the
steps of `ShieldedLedger` keep (`LedgerMoves`, `SoundKept`), and the nullifiers of
two blocks of an exact ledger are disjoint. `ShieldedNullifiersRecorded` says that
the counterexample of `shielded_reorg` needs a step that sets `strayed`.

**RecoveryProofs.** `Base` = types, the room of an admitted call in the ledger, and
the life cycle of process and wipe. `RecoveryQuarantine` adds `Sentinel`: while
a drifted database is there and nothing waived it, so is the sentinel, and a wipe
about to remove the sentinel has left none of them. `RecoveryWipeGuard` adds
`Guarded`: wipes carried out are those the ledger counts, but for forced and lost
ones, and a pending marker has room.

Induction over data (the deque, the order of the pool, the sum along a chain) is
done by least counterexample: a non-empty set of naturals has a least element
(lemma `Least`, from `NatLessThanWellFounded` and `WFMin`). Recursive definitions
are therefore recursive functions.

Only model-checked, as liveness under fairness is out of the prover's reach:
`LoopsEnd`, `ActivationEnds`, `SessionsEnd`, `CatchesUp`, `RepairConcludes` and
`ParkedRepairRuns`.

## Not modelled

Cryptography (BLS, VRF, Groth16, Sapling proofs, DKG polynomials) is a verdict.
Storage appears as the blocks, files and batches that survive a restart. The
mempool, the transport, indexes, wallet, RPC and GUI have no part in the
properties above. ChainLocks and InstantSend would constrain `ForkChoice` from
outside; difficulty, the credit pool, hard-fork signals and the growth escrow are
pure functions of the chain with an undo; the masternode list enters as a
constant; quorums and their signing are a protocol of their own. None of these is
covered by a module here.
