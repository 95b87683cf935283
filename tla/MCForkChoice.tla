----------------------------- MODULE MCForkChoice -----------------------------
(***************************************************************************)
(* Small block trees for ForkChoice.                                       *)
(***************************************************************************)
EXTENDS ForkChoice

(* A branch of two blocks against a branch of one. *)
MCFork == {<<>>, <<1>>, <<1, 1>>, <<2>>}

(* The longer branch with a third block: its header may arrive when the    *)
(* first block is known to be invalid and the second is not marked.        *)
MCLong == MCFork \cup {<<1, 1, 1>>}

(* One branch, long enough for the provisional work to fall behind. *)
MCLine == {<<>>, <<1>>, <<1, 1>>, <<1, 1, 1>>, <<1, 1, 1, 1>>}

(* A penalty, the provisional weight, the greatest bonus. *)
MCMixed ==
    {w \in [MCLong \ {Genesis} -> {1000, 10000, 20000}] :
        w[<<1>>] = 10000 /\ w[<<1, 1>>] # 10000 /\ w[<<1, 1, 1>>] = 10000}

(* The weights of the rearm ladder, unsealed and sealed. *)
MCRearm == [MCFork \ {Genesis} -> {6667, 15000}]

MCSealed == [MCLine \ {Genesis} -> {15000}]

MCProof(B) == [b \in B |-> 10]
MCAddress(B) == [b \in B |-> IF b = <<>> THEN 0 ELSE 10 * b[1] + Len(b)]

MCForkProof == MCProof(MCFork)
MCForkAddress == MCAddress(MCFork)
MCLongProof == MCProof(MCLong)
MCLongAddress == MCAddress(MCLong)
MCLineProof == MCProof(MCLine)
MCLineAddress == MCAddress(MCLine)

=============================================================================
