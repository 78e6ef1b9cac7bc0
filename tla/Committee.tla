----------------------------- MODULE Committee -----------------------------
(***************************************************************************)
(* What the consensus group promises: a header is certified (it has an     *)
(* equivalent proof) only by Threshold members, and a member that follows  *)
(* the protocol signs at most one header of a round.  Equivocators sign    *)
(* what they like.  ConsensusNode implements this specification.           *)
(***************************************************************************)
EXTENDS Integers, FiniteSets

CONSTANTS Hash,          \* header hashes
          Genesis,       \* the header that is certified from the start
          RoundOf,       \* round of the header with a hash
          Group,         \* the consensus group
          Equivocators,  \* members whose votes obey no rule
          Threshold      \* signatures a proof needs

ASSUME CommitteeAssumption ==
  /\ RoundOf \in [Hash -> Nat]
  /\ Genesis \in Hash
  /\ \A h \in Hash : RoundOf[h] = RoundOf[Genesis] => h = Genesis
  /\ IsFiniteSet(Group)
  /\ Equivocators \subseteq Group
  /\ Threshold \in Nat

(* Two quorums share a member that follows the protocol. *)
ASSUME QuorumAssumption ==
  2 * Threshold > Cardinality(Group) + Cardinality(Equivocators)

VARIABLES votes,   \* per protocol-following member: the headers it has signed
          certs    \* headers with a proof

committeeVars == <<votes, certs>>

Members == Group \ Equivocators

Init ==
  /\ votes = [k \in Members |-> {}]
  /\ certs = {Genesis}

MutantMayVote(k, h) == TRUE

(* The member has signed no other header of the round of h. *)
MayVote(k, h) == \A g \in votes[k] : RoundOf[g] = RoundOf[h] => g = h

Vote(k, h) ==
  /\ MayVote(k, h)
  /\ votes' = [votes EXCEPT ![k] = @ \cup {h}]
  /\ UNCHANGED certs

(* A quorum Q is behind h; its members may cast their votes with it. *)
Certify(h, Q) ==
  /\ Cardinality(Q) >= Threshold
  /\ \A k \in Q \ Equivocators : MayVote(k, h)
  /\ votes' = [k \in Members |-> IF k \in Q THEN votes[k] \cup {h} ELSE votes[k]]
  /\ certs' = certs \cup {h}

Next ==
  \/ \E k \in Members, h \in Hash : Vote(k, h)
  \/ \E h \in Hash, Q \in SUBSET Group : Certify(h, Q)

Spec == Init /\ [][Next]_committeeVars

-----------------------------------------------------------------------------

(* Two proofs of one round certify the same header. *)
Agreement == \A g, h \in certs : RoundOf[g] = RoundOf[h] => g = h
=============================================================================
