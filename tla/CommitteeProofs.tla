-------------------------- MODULE CommitteeProofs --------------------------
(***************************************************************************)
(* Agreement of the committee: two quorums share a member that follows the *)
(* protocol, and that member signs one header per round.                   *)
(***************************************************************************)
EXTENDS Committee, FiniteSetTheorems, TLAPS

VotesTyped ==
  /\ votes \in [Members -> SUBSET Hash]
  /\ certs \subseteq Hash

OneVotePerRound ==
  \A k \in Members : \A g, h \in votes[k] : RoundOf[g] = RoundOf[h] => g = h

(* Q is a quorum whose protocol-following members have signed h. *)
Backs(Q, h) ==
  /\ Cardinality(Q) >= Threshold
  /\ \A k \in Q \ Equivocators : h \in votes[k]

CertsBacked == \A h \in certs \ {Genesis} : \E Q \in SUBSET Group : Backs(Q, h)

CommitteeInv == VotesTyped /\ OneVotePerRound /\ CertsBacked

(* Two sets of Threshold members meet outside the equivocators: the        *)
(* signature threshold of a proof is chosen for this.                      *)
LEMMA QuorumsMeet ==
  ASSUME NEW P \in SUBSET Group, NEW Q \in SUBSET Group,
         Cardinality(P) >= Threshold, Cardinality(Q) >= Threshold
  PROVE  \E k \in P \cap Q : k \notin Equivocators
<1>1. /\ IsFiniteSet(P) /\ IsFiniteSet(Q) /\ IsFiniteSet(Equivocators)
      /\ IsFiniteSet(P \cap Q) /\ IsFiniteSet(P \cup Q)
  <2>1. IsFiniteSet(Group) /\ Equivocators \subseteq Group
    BY CommitteeAssumption
  <2>2. P \cap Q \in SUBSET Group /\ P \cup Q \in SUBSET Group
    OBVIOUS
  <2> QED  BY <2>1, <2>2, FS_Subset
<1>2. Cardinality(P \cup Q) = Cardinality(P) + Cardinality(Q) - Cardinality(P \cap Q)
  BY <1>1, FS_Union
<1>3. Cardinality(P \cup Q) <= Cardinality(Group)
  BY FS_Subset, CommitteeAssumption, P \cup Q \in SUBSET Group
<1>4. /\ Cardinality(P) \in Nat /\ Cardinality(Q) \in Nat /\ Cardinality(Equivocators) \in Nat
      /\ Cardinality(P \cap Q) \in Nat /\ Cardinality(P \cup Q) \in Nat
      /\ Cardinality(Group) \in Nat
  BY <1>1, FS_CardinalityType, CommitteeAssumption
<1>5. Cardinality(P \cap Q) > Cardinality(Equivocators)
  BY <1>2, <1>3, <1>4, QuorumAssumption, CommitteeAssumption
<1>6. ASSUME P \cap Q \subseteq Equivocators PROVE FALSE
  <2>1. Cardinality(P \cap Q) <= Cardinality(Equivocators)
    BY <1>1, <1>6, FS_Subset
  <2> QED  BY <2>1, <1>5, <1>4
<1> QED  BY <1>6

(* The invariant holds before the first vote. *)
LEMMA CommitteeInvInit == Init => CommitteeInv
BY CommitteeAssumption DEF Init, CommitteeInv, VotesTyped, OneVotePerRound, CertsBacked, Members

(* A vote and a proof keep the invariant: votes only grow, one per round,  *)
(* and a new proof brings its quorum.                                      *)
LEMMA CommitteeInvNext == CommitteeInv /\ [Next]_committeeVars => CommitteeInv'
<1> SUFFICES ASSUME CommitteeInv, [Next]_committeeVars PROVE CommitteeInv'
  OBVIOUS
<1> USE DEF CommitteeInv
<1>1. ASSUME NEW k \in Members, NEW h \in Hash, Vote(k, h) PROVE CommitteeInv'
  <2>1. VotesTyped'
    BY <1>1 DEF VotesTyped, Vote
  <2>2. OneVotePerRound'
    <3> SUFFICES ASSUME NEW j \in Members, NEW a \in votes'[j], NEW b \in votes'[j],
                        RoundOf[a] = RoundOf[b]
                 PROVE  a = b
      BY DEF OneVotePerRound
    <3>1. CASE j = k
      <4>1. votes'[j] = votes[j] \cup {h}
        BY <1>1, <3>1 DEF Vote, VotesTyped
      <4> QED  BY <4>1, <1>1, <3>1 DEF Vote, MayVote, OneVotePerRound
    <3>2. CASE j # k
      BY <1>1, <3>2 DEF Vote, VotesTyped, OneVotePerRound
    <3> QED  BY <3>1, <3>2
  <2>3. CertsBacked'
    <3>1. \A j \in Members : votes[j] \subseteq votes'[j]
      BY <1>1 DEF Vote, VotesTyped
    <3>2. certs' = certs
      BY <1>1 DEF Vote
    <3> QED  BY <3>1, <3>2 DEF CertsBacked, Backs, Members
  <2> QED  BY <2>1, <2>2, <2>3
<1>2. ASSUME NEW h \in Hash, NEW Q \in SUBSET Group, Certify(h, Q) PROVE CommitteeInv'
  <2>0. \A j \in Members : votes'[j] = IF j \in Q THEN votes[j] \cup {h} ELSE votes[j]
    BY <1>2 DEF Certify
  <2>1. VotesTyped'
    BY <1>2 DEF VotesTyped, Certify
  <2>2. OneVotePerRound'
    <3> SUFFICES ASSUME NEW j \in Members, NEW a \in votes'[j], NEW b \in votes'[j],
                        RoundOf[a] = RoundOf[b]
                 PROVE  a = b
      BY DEF OneVotePerRound
    <3>1. CASE j \in Q
      BY <2>0, <1>2, <3>1 DEF Certify, MayVote, OneVotePerRound, Members
    <3>2. CASE j \notin Q
      BY <2>0, <3>2 DEF OneVotePerRound
    <3> QED  BY <3>1, <3>2
  <2>3. CertsBacked'
    <3> SUFFICES ASSUME NEW c \in certs' \ {Genesis}
                 PROVE  \E P \in SUBSET Group : Backs(P, c)'
      BY DEF CertsBacked
    <3>1. \A j \in Members : votes[j] \subseteq votes'[j]
      BY <2>0
    <3>2. CASE c = h
      <4>1. Backs(Q, c)'
        BY <1>2, <2>0, <3>2 DEF Certify, Backs, Members
      <4> QED  BY <4>1
    <3>3. CASE c # h
      <4>1. c \in certs \ {Genesis}
        BY <1>2, <3>3 DEF Certify
      <4> QED  BY <4>1, <3>1 DEF CertsBacked, Backs, Members
    <3> QED  BY <3>2, <3>3
  <2> QED  BY <2>1, <2>2, <2>3
<1>3. CASE UNCHANGED committeeVars
  BY <1>3 DEF committeeVars, VotesTyped, OneVotePerRound, CertsBacked, Backs
<1> QED  BY <1>1, <1>2, <1>3 DEF Next

(* Backed proofs of one round are for one header. *)
LEMMA CommitteeInvAgrees == CommitteeInv => Agreement
<1> SUFFICES ASSUME CommitteeInv, NEW g \in certs, NEW h \in certs, RoundOf[g] = RoundOf[h]
             PROVE  g = h
  BY DEF Agreement
<1>1. CASE g = Genesis \/ h = Genesis
  BY <1>1, CommitteeAssumption DEF CommitteeInv, VotesTyped
<1>2. CASE g # Genesis /\ h # Genesis
  <2>1. PICK P \in SUBSET Group : Backs(P, g)
    BY <1>2 DEF CommitteeInv, CertsBacked
  <2>2. PICK Q \in SUBSET Group : Backs(Q, h)
    BY <1>2 DEF CommitteeInv, CertsBacked
  <2>3. PICK k \in P \cap Q : k \notin Equivocators
    BY <2>1, <2>2, QuorumsMeet DEF Backs
  <2>4. k \in Members /\ g \in votes[k] /\ h \in votes[k]
    BY <2>1, <2>2, <2>3 DEF Backs, Members
  <2> QED  BY <2>4 DEF CommitteeInv, OneVotePerRound
<1> QED  BY <1>1, <1>2

(* For every group and threshold in which two quorums share a member that  *)
(* follows the protocol, no round has two proofs for different headers.    *)
THEOREM CommitteeAgrees == Spec => []Agreement
BY CommitteeInvInit, CommitteeInvNext, CommitteeInvAgrees, PTL DEF Spec
=============================================================================
