------------------------------- MODULE ForkChoice -------------------------------
(***************************************************************************)
(* Fork choice by seal-weighted work: the block index, the candidate set   *)
(* and ActivateBestChain (validation.cpp, node/blockstorage.cpp).          *)
(*                                                                         *)
(* A header enters the index with the neutral weight; the real weight of   *)
(* its seal is only known when ConnectBlock runs, which then changes the   *)
(* key under which the candidate set sorts the block.  The weight and the  *)
(* validity of a block are functions of the block, chosen in Init.         *)
(*                                                                         *)
(* A block is the sequence of branches taken from genesis, so its parent   *)
(* is its front and its ancestors are its prefixes.  cs_main is free where *)
(* pc is "idle" or "start"; the other actions of the node run there.       *)
(* ChainLock conflicts, pruning, snapshots and the RPCs that mark blocks   *)
(* by hand are left out.                                                   *)
(***************************************************************************)
EXTENDS Integers, Sequences, FiniteSets

CONSTANTS
    Blocks,         \* a finite tree: a prefix-closed set of sequences
    Proof,          \* GetBlockProof of each block
    Address,        \* the address of each index entry, the last tie breaker
    Weightings,     \* the weights ConnectBlock may give to the blocks
    MaxBad,         \* bound on the number of invalid blocks
    MaxRestarts,    \* bound on the number of restarts
    NoBlock         \* nullptr

VARIABLES
    sealWeight,     \* the weight ConnectBlock computes for each block
    verdict,        \* where the block fails validation, if anywhere
    index,          \* m_block_index
    data,           \* BLOCK_HAVE_DATA
    linked,         \* HaveTxsDownloaded()
    unlinked,       \* the blocks of m_blocks_unlinked
    failed,         \* BLOCK_FAILED_MASK
    failedBlocks,   \* m_failed_blocks
    candidates,     \* setBlockIndexCandidates
    tip,            \* m_chain.Tip()
    nextSeq,        \* nBlockSequenceId
    called,         \* an ActivateBestChain call waits for m_chainstate_mutex
    pc,             \* where the running ActivateBestChain is
    mostWork,       \* pindexMostWork
    startingTip,    \* starting_tip
    oldTip,         \* pindexOldTip of ActivateBestChainStep
    loading,        \* the next height of LoadBlockIndex
    restarts

oracle   == <<sealWeight, verdict>>
treeVars == <<index, data, linked, unlinked, failed, failedBlocks, nextSeq>>
abcVars  == <<called, pc, mostWork, startingTip, oldTip>>
loadVars == <<loading, restarts>>
vars     == <<oracle, treeVars, abcVars, loadVars, candidates, tip>>

Genesis == <<>>
Parent(b) == SubSeq(b, 1, Len(b) - 1)
IsAncestor(a, b) == Len(a) <= Len(b) /\ SubSeq(b, 1, Len(a)) = a

(* Seal weights in basis points: the 1.0x of a block not weighed yet, and   *)
(* the clamp to 2.0x.                                                       *)
Neutral   == 10000
WeightCap == 20000

ASSUME TreeAssumption ==
    /\ IsFiniteSet(Blocks) /\ Genesis \in Blocks
    /\ \A b \in Blocks \ {Genesis} : b \in Seq(Nat) /\ Parent(b) \in Blocks
    /\ Proof \in [Blocks -> Nat \ {0}] /\ Address \in [Blocks -> Nat]
    /\ \A a, b \in Blocks : Address[a] = Address[b] => a = b
    /\ Weightings \subseteq [Blocks \ {Genesis} -> Nat] /\ MaxBad \in Nat /\ MaxRestarts \in Nat
    /\ NoBlock \notin Blocks

Entry == [nSealWeight : Nat, nChainSealWork : Nat, nChainWork : Nat, nSequenceId : Nat]

TypeOK ==
    /\ sealWeight \in Weightings
    /\ verdict \in [Blocks \ {Genesis} -> {"valid", "bad-block", "bad-connect"}]
    /\ DOMAIN index \subseteq Blocks /\ \A b \in DOMAIN index : index[b] \in Entry
    /\ data \subseteq DOMAIN index /\ linked \subseteq data /\ unlinked \subseteq data \ linked
    /\ failedBlocks \subseteq failed /\ failed \subseteq DOMAIN index
    /\ candidates \subseteq linked /\ tip \in linked
    /\ nextSeq \in Nat /\ called \in BOOLEAN /\ loading \in Nat /\ restarts \in Nat
    /\ pc \in {"idle", "start", "find", "disconnect", "connect", "load"}
    /\ {mostWork, startingTip, oldTip} \subseteq linked \cup {NoBlock}

Init ==
    /\ sealWeight \in Weightings
    /\ verdict \in [Blocks \ {Genesis} -> {"valid", "bad-block", "bad-connect"}]
    /\ Cardinality({b \in Blocks \ {Genesis} : verdict[b] # "valid"}) <= MaxBad
    /\ index = [b \in {Genesis} |-> [nSealWeight |-> Neutral, nChainSealWork |-> Proof[Genesis],
                                     nChainWork |-> Proof[Genesis], nSequenceId |-> 0]]
    /\ data = {Genesis} /\ linked = {Genesis} /\ unlinked = {}
    /\ failed = {} /\ failedBlocks = {}
    /\ candidates = {Genesis} /\ tip = Genesis
    /\ nextSeq = 1 /\ called = FALSE /\ loading = 0 /\ restarts = 0
    /\ pc = "idle" /\ mostWork = NoBlock /\ startingTip = NoBlock /\ oldTip = NoBlock

-----------------------------------------------------------------------------
(* The block index *)

(* CBlockIndexWorkComparator: x sorts before y in the index ix. *)
Worse(ix, x, y) ==
    \/ ix[x].nChainSealWork < ix[y].nChainSealWork
    \/ /\ ix[x].nChainSealWork = ix[y].nChainSealWork
       /\ \/ ix[x].nChainWork < ix[y].nChainWork
          \/ /\ ix[x].nChainWork = ix[y].nChainWork
             /\ \/ ix[x].nSequenceId > ix[y].nSequenceId
                \/ /\ ix[x].nSequenceId = ix[y].nSequenceId
                   /\ Address[x] > Address[y]

(* The part of a block's proof that counts. *)
Weighted(b, w) == (Proof[b] * (IF w < WeightCap THEN w ELSE WeightCap)) \div Neutral

AddToBlockIndex(b) ==
    [x \in DOMAIN index \cup {b} |->
        IF x \in DOMAIN index THEN index[x]
        ELSE [nSealWeight    |-> Neutral,
              nChainSealWork |-> index[Parent(b)].nChainSealWork + Weighted(b, Neutral),
              nChainWork     |-> index[Parent(b)].nChainWork + Proof[b],
              nSequenceId    |-> 0]]

MainFree == pc \in {"idle", "start"}

OnFailedBranch(b) == \E f \in failedBlocks : IsAncestor(f, Parent(b))

HeaderAccepted(b) ==
    IF b \in DOMAIN index THEN b \notin failed
    ELSE Parent(b) \in DOMAIN index \ failed /\ ~OnFailedBranch(b)

AcceptBlockHeader(b) ==
    /\ MainFree /\ b \notin DOMAIN index /\ b # Genesis /\ HeaderAccepted(b)
    /\ index' = AddToBlockIndex(b)
    /\ UNCHANGED <<oracle, data, linked, unlinked, failed, failedBlocks, nextSeq,
                   abcVars, candidates, tip, loadVars>>

(* A header on top of a block known to be invalid marks the blocks between. *)
RejectBlockHeader(b) ==
    /\ MainFree /\ b \notin DOMAIN index /\ b # Genesis
    /\ Parent(b) \in DOMAIN index \ failed /\ OnFailedBranch(b)
    /\ \E f \in failedBlocks :
          /\ IsAncestor(f, Parent(b))
          /\ failed' = failed \cup {x \in DOMAIN index : IsAncestor(f, x) /\ IsAncestor(x, Parent(b))}
    /\ UNCHANGED <<oracle, index, data, linked, unlinked, failedBlocks, nextSeq,
                   abcVars, candidates, tip, loadVars>>

-----------------------------------------------------------------------------
(* AcceptBlock and ReceivedBlockTransactions *)

(* The waiting blocks that the arrival of b links to genesis, and b. *)
Released(b) ==
    {x \in unlinked \cup {b} : /\ IsAncestor(b, x)
                               /\ \A n \in Len(b)..Len(x) : SubSeq(x, 1, n) \in unlinked \cup {b}}

(* The order in which the queue of ReceivedBlockTransactions visits them. *)
Before(S, x) ==
    Cardinality({y \in S : Len(y) < Len(x) \/ (Len(y) = Len(x) /\ Address[y] < Address[x])})

(* Mutant: a released block stays in m_blocks_unlinked. *)
ReceivedKeepsUnlinked(ix, b) ==
    LET S   == Released(b)
        ix2 == [x \in DOMAIN ix |-> IF x \in S
                   THEN [ix[x] EXCEPT !.nSequenceId = nextSeq + Before(S, x)] ELSE ix[x]]
    IN  /\ data' = data \cup {b}
        /\ IF Parent(b) \in linked
           THEN /\ index' = ix2 /\ linked' = linked \cup S
                /\ nextSeq' = nextSeq + Cardinality(S)
                /\ candidates' = candidates \cup {x \in S : ~Worse(ix2, x, tip)}
                /\ UNCHANGED unlinked
           ELSE /\ index' = ix /\ unlinked' = unlinked \cup {b}
                /\ UNCHANGED <<linked, nextSeq, candidates>>

(* Mutant: only a block with more seal work than the tip becomes a candidate. *)
ReceivedMoreWork(ix, b) ==
    LET S   == Released(b)
        ix2 == [x \in DOMAIN ix |-> IF x \in S
                   THEN [ix[x] EXCEPT !.nSequenceId = nextSeq + Before(S, x)] ELSE ix[x]]
    IN  /\ data' = data \cup {b}
        /\ IF Parent(b) \in linked
           THEN /\ index' = ix2 /\ linked' = linked \cup S /\ unlinked' = unlinked \ S
                /\ nextSeq' = nextSeq + Cardinality(S)
                /\ candidates' = candidates \cup
                       {x \in S : ix2[x].nChainSealWork > ix2[tip].nChainSealWork}
           ELSE /\ index' = ix /\ unlinked' = unlinked \cup {b}
                /\ UNCHANGED <<linked, nextSeq, candidates>>

ReceivedBlockTransactions(ix, b) ==
    LET S   == Released(b)
        ix2 == [x \in DOMAIN ix |-> IF x \in S
                   THEN [ix[x] EXCEPT !.nSequenceId = nextSeq + Before(S, x)] ELSE ix[x]]
    IN  /\ data' = data \cup {b}
        /\ IF Parent(b) \in linked
           THEN /\ index' = ix2
                /\ linked' = linked \cup S
                /\ unlinked' = unlinked \ S
                /\ nextSeq' = nextSeq + Cardinality(S)
                /\ candidates' = candidates \cup {x \in S : ~Worse(ix2, x, tip)}
           ELSE /\ index' = ix
                /\ unlinked' = IF Parent(b) \in failed THEN unlinked ELSE unlinked \cup {b}
                /\ UNCHANGED <<linked, nextSeq, candidates>>

AcceptBlock(b, fRequested) ==
    LET ix == AddToBlockIndex(b) IN
    /\ MainFree /\ b \notin data /\ HeaderAccepted(b)
    /\ fRequested \/ ix[b].nChainSealWork >= ix[tip].nChainSealWork
    /\ IF verdict[b] = "bad-block"
       THEN /\ index' = ix /\ failed' = failed \cup {b}
            /\ UNCHANGED <<data, linked, unlinked, nextSeq, candidates, called>>
       ELSE /\ ReceivedBlockTransactions(ix, b)
            /\ called' = TRUE
            /\ UNCHANGED failed
    /\ UNCHANGED <<oracle, failedBlocks, tip, pc, mostWork, startingTip, oldTip, loadVars>>

-----------------------------------------------------------------------------
(* ActivateBestChain *)

(* LOCK(m_chainstate_mutex) *)
ActivateBestChain ==
    /\ pc = "idle" /\ called
    /\ called' = FALSE
    /\ pc' = "start" /\ mostWork' = NoBlock
    /\ UNCHANGED <<oracle, treeVars, candidates, tip, startingTip, oldTip, loadVars>>

(* LOCK(cs_main) of one round of the outer loop *)
LockMain ==
    /\ pc = "start"
    /\ pc' = "find" /\ startingTip' = tip /\ oldTip' = NoBlock
    /\ UNCHANGED <<oracle, treeVars, candidates, tip, called, mostWork, loadVars>>

Best == CHOOSE c \in candidates : \A d \in candidates \ {c} : Worse(index, d, c)

(* The failed blocks between the active chain and candidate c. *)
FailedOnPath(c) == {x \in failed : IsAncestor(x, c) /\ ~IsAncestor(x, tip)}

(* FindMostWorkChain drops a candidate with a failed ancestor, together     *)
(* with the blocks between the two, and looks again.                        *)
DropFailedCandidate ==
    /\ pc = "find" /\ mostWork = NoBlock /\ FailedOnPath(Best) # {}
    /\ LET x == CHOOSE x \in FailedOnPath(Best) :
                    \A y \in FailedOnPath(Best) : Len(y) <= Len(x)
           dropped == {y \in DOMAIN index : IsAncestor(x, y) /\ IsAncestor(y, Best)}
       IN  /\ failed' = failed \cup dropped
           /\ candidates' = candidates \ dropped
    /\ UNCHANGED <<oracle, index, data, linked, unlinked, failedBlocks, nextSeq,
                   abcVars, tip, loadVars>>

(* A cached pindexMostWork is kept, also when cs_main was released since. *)
FindMostWorkChain ==
    /\ pc = "find"
    /\ mostWork = NoBlock => FailedOnPath(Best) = {}
    /\ LET target == IF mostWork = NoBlock THEN Best ELSE mostWork IN
       /\ mostWork' = target
       /\ IF target = tip
          THEN pc' = "idle" /\ UNCHANGED oldTip
          ELSE pc' = "disconnect" /\ oldTip' = tip
    /\ UNCHANGED <<oracle, treeVars, candidates, tip, called, startingTip, loadVars>>

DisconnectTip ==
    /\ pc = "disconnect" /\ ~IsAncestor(tip, mostWork)
    /\ tip' = Parent(tip)
    /\ UNCHANGED <<oracle, treeVars, abcVars, candidates, loadVars>>

ForkReached ==
    /\ pc = "disconnect" /\ IsAncestor(tip, mostWork)
    /\ pc' = "connect"
    /\ UNCHANGED <<oracle, treeVars, candidates, tip, called, mostWork, startingTip, oldTip, loadVars>>

(* Mutant: everything not better than the tip is pruned, the tip too. *)
PruneTip(ix, cands, t) == {c \in cands : Worse(ix, t, c)}

(* Mutant: nothing is pruned. *)
PruneNothing(ix, cands, t) == cands

PruneBlockIndexCandidates(ix, cands, t) == {c \in cands : ~Worse(ix, c, t)}

(* ConnectBlock gives b its weight and the work that follows from it. *)
ConnectedIndex(b) ==
    [index EXCEPT ![b].nSealWeight = sealWeight[b],
                  ![b].nChainSealWork = index[Parent(b)].nChainSealWork + Weighted(b, sealWeight[b])]

(* Mutant: the outer loop does not continue towards pindexMostWork. *)
AfterStepStops(ix, t, m) ==
    /\ mostWork' = m
    /\ pc' = IF Worse(ix, t, startingTip) THEN "find" ELSE "idle"

(* Mutant: cs_main is released after every step. *)
AfterStepUnlocks(ix, t, m) ==
    /\ mostWork' = m
    /\ pc' = IF t # m THEN "start" ELSE "idle"

(* What follows an ActivateBestChainStep that left tip t and target m: the  *)
(* condition of the inner loop, under cs_main, then that of the outer one.  *)
AfterStep(ix, t, m) ==
    /\ mostWork' = m
    /\ pc' = IF Worse(ix, t, startingTip) THEN "find"
             ELSE IF t # m THEN "start" ELSE "idle"

ConnectTip ==
    LET b  == SubSeq(mostWork, 1, Len(tip) + 1)
        ix == ConnectedIndex(b)
    IN  /\ pc = "connect" /\ verdict[b] = "valid"
        /\ index' = ix /\ tip' = b
        /\ candidates' = PruneBlockIndexCandidates(ix, candidates \cup {b}, b)
        /\ IF ix[b].nChainSealWork > ix[oldTip].nChainSealWork \/ b = mostWork
           THEN AfterStep(ix, b, mostWork)
           ELSE UNCHANGED <<pc, mostWork>>
        /\ UNCHANGED <<oracle, data, linked, unlinked, failed, failedBlocks, nextSeq,
                       called, startingTip, oldTip, loadVars>>

(* Mutant: the invalid block is not marked and stays a candidate. *)
ConnectTipForgets ==
    LET b == SubSeq(mostWork, 1, Len(tip) + 1) IN
    /\ pc = "connect" /\ verdict[b] # "valid"
    /\ AfterStep(index, tip, NoBlock)
    /\ UNCHANGED <<oracle, treeVars, candidates, tip, called, startingTip, oldTip, loadVars>>

(* ConnectBlock rejects the block before or after it was weighed. *)
ConnectTipFails ==
    LET b == SubSeq(mostWork, 1, Len(tip) + 1) IN
    /\ pc = "connect" /\ verdict[b] # "valid"
    /\ \E ix \in {index, ConnectedIndex(b)} :
          /\ index' = ix
          /\ AfterStep(ix, tip, NoBlock)
    /\ failed' = failed \cup {b} /\ failedBlocks' = failedBlocks \cup {b}
    /\ candidates' = candidates \ {b}
    /\ UNCHANGED <<oracle, data, linked, unlinked, nextSeq, tip, called,
                   startingTip, oldTip, loadVars>>

-----------------------------------------------------------------------------
(* Shutdown and start.  LoadBlockIndex works out the cumulative work from   *)
(* the persisted weights again, one height after the other.                 *)

Restart ==
    /\ pc = "idle" /\ restarts < MaxRestarts
    /\ restarts' = restarts + 1
    /\ pc' = "load" /\ loading' = 1
    /\ index' = [b \in DOMAIN index |-> [index[b] EXCEPT !.nSequenceId = 0]]
    /\ unlinked' = {} /\ failedBlocks' = {} /\ nextSeq' = 1 /\ candidates' = {}
    /\ called' = FALSE
    /\ startingTip' = NoBlock /\ oldTip' = NoBlock /\ mostWork' = NoBlock
    /\ UNCHANGED <<oracle, data, linked, failed, tip>>

Level == {b \in DOMAIN index : Len(b) = loading}

Reloaded(b) ==
    [index[b] EXCEPT !.nChainSealWork =
        index[Parent(b)].nChainSealWork + Weighted(b, index[b].nSealWeight)]

LoadBlockIndex ==
    /\ pc = "load" /\ Level # {}
    /\ index' = [b \in DOMAIN index |-> IF b \in Level THEN Reloaded(b) ELSE index[b]]
    /\ failed' = failed \cup {b \in Level : Parent(b) \in failed}
    /\ unlinked' = unlinked \cup (Level \cap (data \ linked))
    /\ loading' = loading + 1
    /\ UNCHANGED <<oracle, data, linked, failedBlocks, nextSeq, abcVars, candidates, tip, restarts>>

LoadChainTip ==
    /\ pc = "load" /\ Level = {}
    /\ candidates' = PruneBlockIndexCandidates(index, linked \ failed, tip)
    /\ pc' = "idle" /\ called' = TRUE
    /\ UNCHANGED <<oracle, treeVars, mostWork, startingTip, oldTip, tip, loadVars>>

-----------------------------------------------------------------------------

Activation ==
    \/ ActivateBestChain \/ LockMain \/ DropFailedCandidate \/ FindMostWorkChain
    \/ DisconnectTip \/ ForkReached \/ ConnectTip \/ ConnectTipFails

Loading == LoadBlockIndex \/ LoadChainTip

Next ==
    \/ \E b \in Blocks : AcceptBlockHeader(b) \/ RejectBlockHeader(b)
    \/ \E b \in Blocks, fRequested \in BOOLEAN : AcceptBlock(b, fRequested)
    \/ Activation
    \/ Restart \/ Loading

Spec == Init /\ [][Next]_vars

(* The thread that called ActivateBestChain runs to its end, and so does    *)
(* the start of a node.                                                     *)
FairSpec == Spec /\ WF_vars(Activation \/ Loading)

-----------------------------------------------------------------------------
(* Properties *)

Settled == pc = "idle" /\ ~called

(* The tip is always a candidate when no activation runs, so a failed       *)
(* reorganisation can return to it, and PruneBlockIndexCandidates never     *)
(* empties the set.                                                         *)
TipIsCandidate == MainFree => tip \in candidates

(* CheckBlockIndex: "If this block sorts worse than the current tip or some *)
(* ancestor's block has never been seen, it cannot be in                    *)
(* setBlockIndexCandidates", although ConnectBlock moves blocks in the      *)
(* order.                                                                   *)
NoWorseCandidate == pc = "idle" => \A c \in candidates : c \in linked /\ ~Worse(index, c, tip)

(* No block weighs less than the weight its header was given: the ladder   *)
(* without the penalty.                                                     *)
Unpenalised == \A b \in Blocks \ {Genesis} : sealWeight[b] >= Neutral

(* CheckBlockIndex: "If this block sorts at least as good as the current    *)
(* tip and is valid and we have all data for its parents, it must be in     *)
(* setBlockIndexCandidates."  A penalty on the tip can leave out a block    *)
(* that was worse when it arrived, so this is said of unpenalised chains.   *)
CandidatesComplete ==
    Unpenalised /\ pc = "idle" => \A b \in linked :
        ~Worse(index, b, tip) /\ (\A f \in failed : ~IsAncestor(f, b)) => b \in candidates

(* Once every caller of ActivateBestChain has returned, the tip is the best *)
(* candidate that is not known to be invalid.  A block that is penalised    *)
(* while it is connected stays the tip over a better one, until the next    *)
(* call; so this too is said of unpenalised chains.                         *)
TipIsBest ==
    Unpenalised /\ Settled => \A c \in candidates : Worse(index, tip, c) => FailedOnPath(c) # {}

(* ActivateBestChain: "We absolutely may not unlock cs_main until we've     *)
(* made forward progress": the tip other threads see next is not worse than *)
(* the one they saw before.                                                 *)
ForwardProgress == MainFree /\ startingTip # NoBlock => ~Worse(index, tip, startingTip)

(* Without the penalty it holds. *)
UnpenalisedProgress == Unpenalised => ForwardProgress

(* The seal-weighted work of a chain whose blocks have all been weighed. *)
SealWork(b) ==
    LET work[n \in 0..Len(b)] ==
            IF n = 0 THEN Proof[Genesis]
            ELSE work[n - 1] + Weighted(SubSeq(b, 1, n), sealWeight[SubSeq(b, 1, n)])
    IN  work[Len(b)]

(* CBlockIndexWorkComparator: "chain with most seal-weighted work wins".    *)
(* When all callers of ActivateBestChain have returned, no valid chain      *)
(* whose blocks the node has carries more seal-weighted work than the tip.  *)
MostSealWorkWins ==
    Settled => \A b \in linked :
        (\A n \in 1..Len(b) : verdict[SubSeq(b, 1, n)] = "valid") => SealWork(b) <= SealWork(tip)

(* Every activation returns, although each connected block may change the   *)
(* order that sent it there.                                                *)
ActivationEnds == pc # "idle" ~> pc = "idle"

=============================================================================
