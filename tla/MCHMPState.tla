------------------------------ MODULE MCHMPState ------------------------------
(***************************************************************************)
(* Small instances of HMPState.  Each window is a few blocks long and the  *)
(* chain is long enough to overflow all of them, to evict a commitment and *)
(* to commit the same key a second time.                                   *)
(***************************************************************************)
EXTENDS HMPState

Sig(a, v) == [algo |-> a, vrf |-> v]
Plain(a, k)        == [algo |-> a, miner |-> k, commits |-> {}, seal |-> NoSeal]
WithSeal(a, k, s)  == [algo |-> a, miner |-> k, commits |-> {}, seal |-> s]
WithCommit(a, k, C) == [algo |-> a, miner |-> k, commits |-> C, seal |-> NoSeal]

MCKeys  == {"k1", "k2"}
MCAlgos == {0, 1}

MCBlocks ==
    {Plain(0, "k1"),
     WithSeal(0, "k2", [k \in {"k1", "k2"} |-> IF k = "k1" THEN Sig(0, 1) ELSE Sig(1, 3)]),
     WithCommit(1, NoKey, {"k2"})}

=============================================================================
