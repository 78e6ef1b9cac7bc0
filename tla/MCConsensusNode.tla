-------------------------- MODULE MCConsensusNode --------------------------
(* Genesis 0; 1 and 2 are two headers of the leader of round 1, 3 competes *)
(* with them in round 2, 4 extends 1 in round 2.                           *)
EXTENDS ConsensusNode, TLC

CONSTANTS s1, s2, o1, o2, f1

MCNonceOf == [h \in Hash |-> <<0, 1, 1, 1, 2>>[h + 1]]
MCRoundOf == [h \in Hash |-> <<0, 1, 1, 2, 2>>[h + 1]]
MCPrevOf  == [h \in Hash |-> <<0, 0, 0, 0, 1>>[h + 1]]

(* Another node leads every round, or this node leads round 2. *)
MCOtherLeads == [r \in 1 .. MaxRound |-> f1]
MCSelfLeads  == [r \in 1 .. MaxRound |-> IF r = 2 THEN s1 ELSE f1]

(* Bound: the clock steps back from a round in which the node has not taken up *)
(* a header, after it has signed, and the behaviour ends in the round entered  *)
(* again.                                                                      *)
MCOneStepBack ==
  /\ index' < index => signed # {} /\ data = NoHash
  /\ index < top => index' = index

MCSymmetry == Permutations({o1, o2})
=============================================================================
