---------------------------- MODULE MCBlockSync ----------------------------
(* 1 and 2 compete at nonce 1; 3 and 4, both children of 1, at nonce 2,    *)
(* where 4 has skipped a round.  The metachain settles 2.                  *)
EXTENDS BlockSync

MCParentOf == [b \in Block \ {0} |-> IF b >= 3 THEN 1 ELSE 0]
MCBlockNonce == [b \in Block |-> <<0, 1, 1, 2, 2>>[b + 1]]
MCBlockRound == [b \in Block |-> <<0, 1, 1, 2, 3>>[b + 1]]

(* Bound: at most three of the four blocks are proven, and a fault happens *)
(* only where at most one other block than 1 is, the sibling 2 or the      *)
(* child 3.                                                                *)
MCFewProvenBlocks ==
  /\ Cardinality(pool') <= 3
  /\ faults' = 0 \/ pool' \subseteq {1, 2} \/ pool' \subseteq {1, 3}
=============================================================================
