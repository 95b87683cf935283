----------------------------- MODULE MCSealWeight -----------------------------
(***************************************************************************)
(* Small instances of SealWeight.  The blocks are chosen so that Elder     *)
(* sets of up to three keys build up in one algorithm while another key    *)
(* works on a second one, and seals range from empty over partial to full, *)
(* with and without strangers.                                             *)
(***************************************************************************)
EXTENDS SealWeight

Sig(a, v) == [algo |-> a, vrf |-> v]
MCBlock(a, k, s) == [algo |-> a, miner |-> k, commits |-> {}, seal |-> s]
SealBy(S, a) == [k \in S |-> Sig(a, 1)]

MCKeys  == {"k1", "k2", "k3", "k4"}
MCAlgos == {0, 1}

MCBlocks ==
    {MCBlock(0, "k1", SealBy({"k1", "k2", "k3"}, 0)),
     MCBlock(0, "k2", SealBy({"k1", "k2"}, 0)),
     MCBlock(0, "k3", NoSeal),
     MCBlock(1, "k3", [k \in {"k1", "k3", "k4"} |-> IF k = "k3" THEN Sig(1, 3) ELSE Sig(0, 1)])}

=============================================================================
