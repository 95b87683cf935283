---------------------------- MODULE MCShieldedState ----------------------------
(***************************************************************************)
(* A small shielded history for ShieldedState.                             *)
(***************************************************************************)
EXTENDS ShieldedState

CONSTANTS n1, n2, c1, c2

(* A branch of three blocks and one of four; shielding starts at the second *)
(* block.  The third blocks spend a common nullifier, the fourth one spends *)
(* a nullifier again; <<1, 1, 2>> fails other checks, <<2, 1, 1>> may.      *)
MCBlocks == {<<>>, <<1>>, <<1, 1>>, <<1, 1, 1>>, <<1, 1, 2>>,
             <<2>>, <<2, 1>>, <<2, 1, 1>>, <<2, 1, 1, 1>>}

MCWork == [b \in MCBlocks |-> Len(b)]

MCSpends == [b \in MCBlocks |->
    CASE b \in {<<1, 1, 1>>, <<1, 1, 2>>} -> <<n1>>
      [] b = <<2, 1, 1>> -> <<n1, n2>>
      [] b = <<2, 1, 1, 1>> -> <<n2>>
      [] OTHER -> <<>>]

MCOutputs == [b \in MCBlocks |->
    CASE b \in {<<1, 1>>, <<2, 1>>} -> <<c1>>
      [] b = <<2, 1, 1>> -> <<c2>>
      [] OTHER -> <<>>]

MCValueBalance == [b \in MCBlocks |->
    CASE b \in {<<1, 1>>, <<2, 1>>} -> -2
      [] b \in {<<1, 1, 1>>, <<1, 1, 2>>, <<2, 1, 1, 1>>} -> 1
      [] OTHER -> 0]

MCVerdict == [b \in MCBlocks |->
    CASE b = <<1, 1, 2>> -> "bad-special"
      [] b = <<2, 1, 1>> -> "contested"
      [] OTHER -> "valid"]
=============================================================================
