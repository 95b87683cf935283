----------------------------- MODULE MCCommitPool -----------------------------
(***************************************************************************)
(* A node, a miner with identity "k1" that also commits "k2", and a pool   *)
(* of two entries over blocks that take one.  The second height is past    *)
(* the rearm height, the first is not.                                     *)
(***************************************************************************)
EXTENDS CommitPool

MCKeys == {"me", "k1", "k2"}
MCRank == [k \in MCKeys |-> CASE k = "me" -> 1 [] k = "k1" -> 2 [] k = "k2" -> 3]

MCBlock(C) == [algo |-> 0, miner |-> "k1", commits |-> C, seal |-> NoSeal]
MCBlocks == {MCBlock({"k2"})}
=============================================================================
