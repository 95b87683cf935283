---------------------------- MODULE ShieldedLedger ----------------------------
(***************************************************************************)
(* What the shielded database promises: a ledger that moves along the      *)
(* block tree one whole block at a time, takes no nullifier twice and      *)
(* never owes more than it took in.  The promise ends when trusted does.   *)
(***************************************************************************)
EXTENDS Integers, Sequences

CONSTANTS
    Blocks, Nullifiers,
    SpentIn(_),     \* the nullifiers of a block
    Duplicates(_),  \* whether the block itself spends one of them twice
    Outputs, ValueBalance, First

VARIABLES
    head,           \* the last block applied, <<>> when there is none
    spent,          \* the nullifiers spent on the chain to head
    notes,          \* the note commitments of that chain, in order
    value,          \* the value in the pool
    trusted

vars == <<head, spent, notes, value, trusted>>

Parent(b) == SubSeq(b, 1, Len(b) - 1)

Init ==
    /\ head = <<>> /\ spent = {} /\ notes = <<>> /\ value = 0
    /\ trusted = TRUE

(* The first block of the pool may be on any branch. *)
Follows(b) == IF Len(b) = First THEN head = <<>> ELSE Len(b) > First /\ head = Parent(b)

Apply(b) ==
    /\ Follows(b)
    /\ SpentIn(b) \cap spent = {} /\ ~Duplicates(b) /\ value >= ValueBalance[b]
    /\ head' = b
    /\ spent' = spent \cup SpentIn(b)
    /\ notes' = notes \o Outputs[b]
    /\ value' = value - ValueBalance[b]
    /\ trusted' = trusted

(* Exactly what Apply(head) did is taken back. *)
Revert ==
    /\ head # <<>>
    /\ head' = IF Len(head) = First THEN <<>> ELSE Parent(head)
    /\ SpentIn(head) \subseteq spent /\ spent' = spent \ SpentIn(head)
    /\ notes = notes' \o Outputs[head]
    /\ value' = value + ValueBalance[head]
    /\ trusted' = trusted

Next == (\E b \in Blocks : Apply(b)) \/ Revert \/ ~trusted \/ ~trusted'

Spec == Init /\ [][Next]_vars
=============================================================================
