------------------------ MODULE ConsensusNodeProofs ------------------------
(***************************************************************************)
(* Theorems about the node, for every group, header set, leader schedule   *)
(* and set of own keys:                                                    *)
(*   - no own key signs two hashes in a round (KeysSignOnce);              *)
(*   - types (NodeTyped) and the quorum of the proofs the end round job    *)
(*     makes (MadeProofsHaveQuorum);                                       *)
(*   - a quorum seen at the end of a round binds the next one              *)
(*     (QuorumBindsNextRound);                                             *)
(*   - the node implements Committee (NodeImplementsCommittee), and so its *)
(*     pool holds one proof per round (PoolAgrees).                        *)
(***************************************************************************)
EXTENDS ConsensusNode, SignatureEvidenceProofs

(***************************************************************************)
(* No own key signs two hashes in a round.  The tracker forgets old slots  *)
(* and the clock may step back, so the property is not inductive: what is  *)
(* needed is that every signature of a round the clock can still return to *)
(* has its slot.  ClockAssumption bounds that window by the retention.     *)
(***************************************************************************)

ClockInv ==
  /\ top \in Nat /\ index \in Nat
  /\ index <= top
  /\ index >= top - MaxStepBack

(* The slot of round r of key k holds h. *)
Slot(k, r, h) == r \in DOMAIN signedRounds[k] /\ signedRounds[k][r] = h

SlotsHeld ==
  \A s \in signed :
    /\ s[1] \in Own /\ s[2] \in Nat /\ s[2] <= top
    /\ s[2] >= top - MaxStepBack => Slot(s[1], s[2], s[3])

SignInv ==
  /\ ClockInv
  /\ DOMAIN signedRounds = Own
  /\ SlotsHeld
  /\ OneSignaturePerRound

(* The invariant holds before the first round. *)
LEMMA SignInvInit == NodeInit => SignInv
BY ClockAssumption
DEF NodeInit, SignInv, ClockInv, SlotsHeld, OneSignaturePerRound

(* Reserving the slot of the current round keeps the slots of the window   *)
(* the clock may return to, and leaves data in the slot of the round.      *)
LEMMA ReserveKeepsWindow ==
  ASSUME NEW k \in Own, ClockInv, CanReserve(k)
  PROVE  LET new == ReserveSignatureInRound(k)
         IN /\ index \in DOMAIN new /\ new[index] = data
            /\ \A r \in DOMAIN signedRounds[k] :
                 r \in Nat /\ r >= top - MaxStepBack =>
                   r \in DOMAIN new /\ new[r] = signedRounds[k][r]
<1> DEFINE old == signedRounds[k]
           new == ReserveSignatureInRound(k)
<1>1. CASE index \in DOMAIN old
  BY <1>1 DEF ReserveSignatureInRound, CanReserve
<1>2. CASE index \notin DOMAIN old
  <2>1. new = [r \in {s \in DOMAIN old : index - s <= Retention} \cup {index} |->
                 IF r = index THEN data ELSE old[r]]
    BY <1>2 DEF ReserveSignatureInRound
  <2>2. ASSUME NEW r \in DOMAIN old, r \in Nat, r >= top - MaxStepBack
        PROVE  index - r <= Retention
    BY <2>2, ClockAssumption DEF ClockInv
  <2> QED  BY <2>1, <2>2, <1>2
<1> QED  BY <1>1, <1>2

(* What the other steps leave alone. *)
LEMMA SignInvFrame ==
  ASSUME SignInv, UNCHANGED <<index, top, signedRounds, signed>>
  PROVE  SignInv'
BY DEF SignInv, ClockInv, SlotsHeld, Slot, OneSignaturePerRound

(* A signature step: refused, reserved only, or reserved and signed. *)
LEMMA SignInvSign ==
  ASSUME SignInv, NEW k \in Own, sendSignatureForKey(k)
  PROVE  SignInv'
<1> DEFINE new == ReserveSignatureInRound(k)
<1>0. UNCHANGED <<index, top, data>>
  BY DEF sendSignatureForKey, vars, chronologyVars, stateVars
<1>1. CASE UNCHANGED trackerVars
  BY <1>0, <1>1, SignInvFrame DEF trackerVars
<1>2. CASE /\ CanReserve(k)
           /\ signedRounds' = [signedRounds EXCEPT ![k] = new]
           /\ signed' = signed \/ signed' = signed \cup {<<k, index, data>>}
  <2>1. ClockInv' /\ DOMAIN signedRounds' = Own
    BY <1>0, <1>2 DEF SignInv, ClockInv
  <2>2. /\ index \in DOMAIN new /\ new[index] = data
        /\ \A r \in DOMAIN signedRounds[k] :
             r \in Nat /\ r >= top - MaxStepBack =>
               r \in DOMAIN new /\ new[r] = signedRounds[k][r]
    BY <1>2, ReserveKeepsWindow DEF SignInv
  <2> HIDE DEF new
  <2>3. /\ signedRounds'[k] = new
        /\ \A j \in Own \ {k} : signedRounds'[j] = signedRounds[j]
    BY <1>2 DEF SignInv
  <2>4. ASSUME NEW s \in signed
        PROVE  /\ s[1] \in Own /\ s[2] \in Nat /\ s[2] <= top
               /\ s[2] >= top - MaxStepBack => Slot(s[1], s[2], s[3])'
    <3>1. /\ s[1] \in Own /\ s[2] \in Nat /\ s[2] <= top
          /\ s[2] >= top - MaxStepBack => Slot(s[1], s[2], s[3])
      BY DEF SignInv, SlotsHeld
    <3>2. CASE s[1] = k
      BY <3>1, <3>2, <2>2, <2>3 DEF Slot
    <3>3. CASE s[1] # k
      BY <3>1, <3>3, <2>3 DEF Slot
    <3> QED  BY <3>1, <3>2, <3>3
  <2>5. Slot(k, index, data)'
    BY <1>0, <2>2, <2>3 DEF Slot
  <2>6. SlotsHeld'
    <3>1. <<k, index, data>>[1] = k /\ <<k, index, data>>[2] = index /\ <<k, index, data>>[3] = data
      OBVIOUS
    <3>2. index \in Nat /\ index <= top
      BY DEF SignInv, ClockInv
    <3> QED  BY <1>0, <1>2, <2>4, <2>5, <3>1, <3>2 DEF SlotsHeld
  <2>7. ASSUME NEW s \in signed, s[1] = k, s[2] = index PROVE s[3] = data
    <3>1. index >= top - MaxStepBack
      BY DEF SignInv, ClockInv
    <3>2. Slot(k, index, s[3])
      BY <2>7, <3>1 DEF SignInv, SlotsHeld
    <3> QED  BY <3>2, <1>2 DEF Slot, CanReserve
  <2>8. OneSignaturePerRound'
    <3> DEFINE t == <<k, index, data>>
    <3>1. t[1] = k /\ t[2] = index /\ t[3] = data
      OBVIOUS
    <3> HIDE DEF t
    <3>2. signed' = signed \/ signed' = signed \cup {t}
      BY <1>2 DEF t
    <3> QED  BY <2>7, <3>1, <3>2 DEF SignInv, OneSignaturePerRound
  <2> QED  BY <2>1, <2>6, <2>8 DEF SignInv
<1> QED  BY <1>1, <1>2 DEF sendSignatureForKey, trackerVars

(* A clock step forgets no slot and keeps the index in the window. *)
LEMMA SignInvClock == ASSUME SignInv, UpdateRound PROVE SignInv'
<1>1. UNCHANGED <<signedRounds, signed>>
  BY DEF UpdateRound, trackerVars
<1>2. ClockInv' /\ top' >= top /\ top' \in Nat
  BY ClockAssumption DEF UpdateRound, SignInv, ClockInv
<1>3. SlotsHeld'
  <2> SUFFICES ASSUME NEW s \in signed
               PROVE  /\ s[1] \in Own /\ s[2] \in Nat /\ s[2] <= top'
                      /\ s[2] >= top' - MaxStepBack => Slot(s[1], s[2], s[3])'
    BY <1>1 DEF SlotsHeld
  <2>1. /\ s[1] \in Own /\ s[2] \in Nat /\ s[2] <= top
        /\ s[2] >= top - MaxStepBack => Slot(s[1], s[2], s[3])
    BY DEF SignInv, SlotsHeld
  <2>2. top \in Nat /\ MaxStepBack \in Nat
    BY ClockAssumption DEF SignInv, ClockInv
  <2> QED  BY <1>1, <1>2, <2>1, <2>2 DEF Slot
<1> QED  BY <1>1, <1>2, <1>3 DEF SignInv, OneSignaturePerRound

(* Every step of the node keeps the invariant. *)
LEMMA SignInvNext == SignInv /\ [NodeNext]_nodeVars => SignInv'
<1> SUFFICES ASSUME SignInv, [NodeNext]_nodeVars PROVE SignInv'
  OBVIOUS
<1> DEFINE Same == UNCHANGED <<index, top, signedRounds, signed>>
<1>1. CASE UpdateRound
  BY <1>1, SignInvClock
<1>2. ASSUME NEW k \in Own, sendSignatureForKey(k) PROVE SignInv'
  BY <1>2, SignInvSign
<1>3. CASE doStartRoundJob
  <2>1. Same  BY <1>3 DEF doStartRoundJob, trackerVars
  <2> QED  BY <2>1, SignInvFrame
<1>4. CASE doBlockJob \/ SendBlock \/ SetDataIfNotSet \/ processReceivedBlock \/ doBlockConsensusCheck
  <2>1. Same
    BY <1>4 DEF doBlockJob, SendBlock, SetDataIfNotSet, processReceivedBlock,
                doBlockConsensusCheck, vars, chronologyVars, trackerVars
  <2> QED  BY <2>1, SignInvFrame
<1>5. ASSUME NEW h \in Hash, receivedBlockHeader(h) \/ receivedProof(h) \/ ReceiveProof(h) \/ SyncBlock(h)
      PROVE  SignInv'
  <2>1. Same
    BY <1>5 DEF receivedBlockHeader, receivedProof, ReceiveProof, SyncBlock, vars,
                chronologyVars, trackerVars
  <2> QED  BY <2>1, SignInvFrame
<1>6. CASE doSignatureJob \/ CheckSigned \/ waitForPreviousBlockProof \/ doSignatureConsensusCheck \/ Extend
  <2>1. Same
    BY <1>6 DEF doSignatureJob, CheckSigned, waitForPreviousBlockProof,
                doSignatureConsensusCheck, Extend, vars, chronologyVars, trackerVars
  <2> QED  BY <2>1, SignInvFrame
<1>7. ASSUME NEW k \in Group, receivedSignature(k) PROVE SignInv'
  <2>1. Same
    BY <1>7 DEF receivedSignature, vars, chronologyVars, trackerVars
  <2> QED  BY <2>1, SignInvFrame
<1>8. CASE \/ doEndRoundJob \/ EndCollect \/ EndVerify \/ computeAggSigOnValidNodes
           \/ createAndBroadcastProof \/ finalizeConfirmedBlock \/ commitBlock
  <2>1. Same
    BY <1>8 DEF doEndRoundJob, EndCollect, EndVerify, computeAggSigOnValidNodes,
                createAndBroadcastProof, finalizeConfirmedBlock, commitBlock, vars,
                chronologyVars, trackerVars
  <2> QED  BY <2>1, SignInvFrame
<1>9. ASSUME NEW e \in EvId, trySelfAssembleProof(e) PROVE SignInv'
  <2>1. Same
    BY <1>9 DEF trySelfAssembleProof, AssembleStart, AssembleAggregate, AssembleAdd,
                chronologyVars, trackerVars
  <2> QED  BY <2>1, SignInvFrame
<1>10. CASE UNCHANGED nodeVars
  BY <1>10, SignInvFrame DEF nodeVars, vars, chronologyVars, trackerVars
<1> QED
  BY <1>1, <1>2, <1>3, <1>4, <1>5, <1>6, <1>7, <1>8, <1>9, <1>10 DEF NodeNext

(* For every group, set of own keys, header set and bound, and every clock *)
(* that steps back at most as far as the tracker remembers, no own key     *)
(* signs two hashes in a round.                                            *)
THEOREM KeysSignOnce == NodeSpec => []OneSignaturePerRound
<1>1. SignInv => OneSignaturePerRound
  BY DEF SignInv
<1> QED  BY <1>1, SignInvInit, SignInvNext, PTL DEF NodeSpec

-----------------------------------------------------------------------------
(* Types of the node, with the evidence store it shares with its goroutines. *)

(* The places at which the node works on a block it has. *)
VotePcs == {"checkSigned", "waitEvidence", "waitSigned", "sign"} \cup EndPcs

TrackerTyped ==
  /\ \A k \in Own : \A r \in DOMAIN signedRounds[k] : signedRounds[k][r] \in Hash
  /\ DOMAIN signedNonces = Own
  /\ \A k \in Own : \A n \in DOMAIN signedNonces[k] :
       signedNonces[k][n].hash \in Hash /\ NonceOf[signedNonces[k][n].hash] = n
  /\ signed \subseteq Own \X Nat \X Hash

ConsensusTyped ==
  /\ roundIndex \in Nat
  /\ head \in Hash
  /\ data \in Hash \cup {NoHash}
  /\ shares \subseteq Group /\ bad \subseteq shares
  /\ todo \subseteq Own
  /\ rp \in Hash \cup {NoHash} /\ rh \in Hash \cup {NoHash} /\ waitHash \in Hash \cup {NoHash}
  /\ votes \in [Honest -> SUBSET Hash]
  /\ pc \in VotePcs => data # NoHash

NodeInv == EvidenceInv /\ SignInv /\ ConsensusTyped /\ TrackerTyped

LEMMA NoHashIsNone == NoHash \notin Hash
BY EvidenceAssumption DEF NoHash

LEMMA NodeInvInit == NodeInit => NodeInv
<1> SUFFICES ASSUME NodeInit PROVE NodeInv
  OBVIOUS
<1>1. EvidenceInv
  <2>1. /\ index = 0 /\ proofs = {Genesis} /\ previous = None /\ retained = None /\ assembled = {}
        /\ evs = [e \in EvId |-> Free]
    BY DEF NodeInit, EvidenceInit
  <2>2. HeapOK(evs) /\ Live(evs) = {}
    BY <2>1 DEF HeapOK, Live
  <2>3. TypeOK
    BY <2>1, NodeAssumption DEF TypeOK
  <2> QED
    BY <2>1, <2>2, <2>3 DEF EvidenceInv, AssembledSharesValid
<1>2. SignInv
  BY SignInvInit
<1>3. ConsensusTyped
  BY NodeAssumption DEF NodeInit, ConsensusTyped, VotePcs, EndPcs
<1>4. TrackerTyped
  BY DEF NodeInit, TrackerTyped
<1> QED
  BY <1>1, <1>2, <1>3, <1>4 DEF NodeInv

(* The evidence store under the steps of the node: it stays well formed,   *)
(* and only the start of a round replaces the previous slot.               *)
LEMMA EvidenceOfNode ==
  ASSUME NodeInv, [NodeNext]_nodeVars
  PROVE  EvidenceInv' /\ (doStartRoundJob \/ PreviousKept)
<1> USE DEF NodeInv
<1>1. SlotsLive(evs, previous, retained) /\ HeapOK(evs)
  BY SlotsAreLive DEF EvidenceInv
<1>2. ASSUME UNCHANGED <<evs, previous, retained, assembled>>, index' \in Nat, proofs' \subseteq Hash
      PROVE  EvidenceInv' /\ PreviousKept
  <2>1. HeapOK(evs') /\ SlotsLive(evs', previous', retained')
    BY <1>1, <1>2
  <2>2. /\ assembled' \subseteq [hash : Hash, signers : Nat, bad : SUBSET Group]
        /\ \A a \in assembled' : a.bad = {}
    BY <1>2 DEF EvidenceInv, TypeOK, AssembledSharesValid
  <2>3. PreviousKept
    BY <1>2 DEF PreviousKept, ValidShares
  <2> QED
    BY <1>2, <2>1, <2>2, <2>3, InvAfter
<1>3. ASSUME NEW S \in SUBSET Live(evs), evs' = Launch(evs, S),
             UNCHANGED <<index, proofs, previous, retained, assembled>>
      PROVE  EvidenceInv' /\ PreviousKept
  <2>1. /\ HeapOK(evs')
        /\ Live(evs') = Live(evs)
        /\ \A f \in Live(evs) : SameShares(evs, evs', f)
    BY <1>1, <1>3, LaunchKeeps DEF SameShares
  <2>2. SlotsLive(evs', previous', retained')
    BY <1>1, <1>3, <2>1 DEF SlotsLive
  <2>3. /\ assembled' \subseteq [hash : Hash, signers : Nat, bad : SUBSET Group]
        /\ \A a \in assembled' : a.bad = {}
        /\ index' \in Nat /\ proofs' \subseteq Hash
    BY <1>3 DEF EvidenceInv, TypeOK, AssembledSharesValid
  <2>4. PreviousKept
    BY <1>1, <1>3, <2>1 DEF PreviousKept, ValidShares, SameShares, SlotsLive
  <2> QED
    BY <2>1, <2>2, <2>3, <2>4, InvAfter
<1>4. index \in Nat /\ proofs \subseteq Hash
  BY DEF EvidenceInv, TypeOK
<1>5. CASE UpdateRound
  <2>1. UNCHANGED <<evs, previous, retained, assembled, proofs>> /\ index' \in Nat
    BY <1>5 DEF UpdateRound, evidenceVars
  <2> QED
    BY <1>2, <1>4, <2>1
<1>6. CASE doStartRoundJob
  <2>1. /\ UNCHANGED <<index, proofs, assembled>>
        /\ captureSignatureEvidence(roundIndex, {data} \ {NoHash}, shares, bad)
    BY <1>6 DEF doStartRoundJob
  <2>2. /\ roundIndex \in Nat /\ {data} \ {NoHash} \in SUBSET Hash
        /\ shares \in SUBSET Group /\ bad \in SUBSET shares
    BY DEF ConsensusTyped
  <2>3. HeapOK(evs') /\ SlotsLive(evs', previous', retained')
    BY <1>1, <2>1, <2>2, CaptureKeeps DEF Captured
  <2>4. /\ assembled' \subseteq [hash : Hash, signers : Nat, bad : SUBSET Group]
        /\ \A a \in assembled' : a.bad = {}
        /\ index' \in Nat /\ proofs' \subseteq Hash
    BY <2>1 DEF EvidenceInv, TypeOK, AssembledSharesValid
  <2> QED
    BY <1>6, <2>3, <2>4, InvAfter
<1>7. CASE doBlockJob
  <2>1. \E S : /\ evs' = Launch(evs, S)
               /\ S = {} \/ S = hasQuorumEvidenceForCompetingBlock
    BY <1>7 DEF doBlockJob
  <2>2. hasQuorumEvidenceForCompetingBlock \subseteq Live(evs)
    BY <1>1 DEF hasQuorumEvidenceForCompetingBlock, QuorumEvidence, EvidenceFor,
                GetPreviousRoundEvidence, GetRetainedQuorumEvidence, SlotsLive
  <2>3. UNCHANGED <<index, proofs, previous, retained, assembled>>
    BY <1>7 DEF doBlockJob
  <2> QED
    BY <1>3, <2>1, <2>2, <2>3
<1>8. CASE doSignatureJob
  <2>1. evs' = evs \/ evs' = Launch(evs, CompetingEvidence)
    BY <1>8 DEF doSignatureJob
  <2>2. CompetingEvidence \subseteq Live(evs)
    BY <1>1 DEF CompetingEvidence, EvidenceFor,
                GetPreviousRoundEvidence, GetRetainedQuorumEvidence, SlotsLive
  <2>3. UNCHANGED <<index, proofs, previous, retained, assembled>>
    BY <1>8 DEF doSignatureJob
  <2> QED
    BY <1>2, <1>3, <1>4, <2>1, <2>2, <2>3
<1>9. CASE createAndBroadcastProof
  <2>1. /\ UNCHANGED <<index, evs, previous, retained, assembled>>
        /\ proofs' = proofs \/ proofs' = proofs \cup {data}
    BY <1>9 DEF createAndBroadcastProof, evidenceVars, AddToPool, proofVars
  <2>2. data \in Hash
    BY <1>9 DEF createAndBroadcastProof, ConsensusTyped, VotePcs, EndPcs
  <2> QED
    BY <1>2, <1>4, <2>1, <2>2
<1>10. ASSUME NEW e \in EvId, trySelfAssembleProof(e) PROVE EvidenceInv' /\ PreviousKept
  <2>1. PICK refused \in BOOLEAN :
          \/ AssembleStart(e, TRUE, refused)
          \/ AssembleAggregate(e)
          \/ AssembleAdd(e, refused)
    <3>1. ShouldRefuseCompetingParent \in BOOLEAN
      BY DEF ShouldRefuseCompetingParent
    <3> QED
      BY <1>10, <3>1 DEF trySelfAssembleProof
  <2> QED
    BY <2>1, AssembleStartStep, AssembleAggregateStep, AssembleAddStep
<1>11. ASSUME NEW h \in Hash, ReceiveProof(h) PROVE EvidenceInv' /\ PreviousKept
  <2>1. UNCHANGED <<index, evs, previous, retained, assembled>> /\ proofs' = proofs \cup {h}
    BY <1>11 DEF ReceiveProof, evidenceVars, AddToPool
  <2> QED
    BY <1>2, <1>4, <2>1
<1>12. ASSUME UNCHANGED vars PROVE EvidenceInv' /\ PreviousKept
  <2>1. UNCHANGED <<index, proofs, evs, previous, retained, assembled>>
    BY <1>12 DEF vars, evidenceVars
  <2> QED
    BY <1>2, <1>4, <2>1
<1>13. CASE SendBlock \/ SetDataIfNotSet \/ processReceivedBlock \/ doBlockConsensusCheck
            \/ CheckSigned \/ waitForPreviousBlockProof \/ doSignatureConsensusCheck \/ Extend
  BY <1>12, <1>13 DEF SendBlock, SetDataIfNotSet, processReceivedBlock, doBlockConsensusCheck,
                      CheckSigned, waitForPreviousBlockProof, doSignatureConsensusCheck, Extend
<1>14. CASE doEndRoundJob \/ EndCollect \/ EndVerify \/ computeAggSigOnValidNodes
            \/ finalizeConfirmedBlock \/ commitBlock
  BY <1>12, <1>14 DEF doEndRoundJob, EndCollect, EndVerify, computeAggSigOnValidNodes,
                      finalizeConfirmedBlock, commitBlock
<1>15. CASE \/ \E h \in Hash : receivedBlockHeader(h) \/ receivedProof(h) \/ SyncBlock(h)
            \/ \E k \in Own : sendSignatureForKey(k)
            \/ \E k \in Group : receivedSignature(k)
  BY <1>12, <1>15 DEF receivedBlockHeader, receivedProof, SyncBlock, sendSignatureForKey,
                      receivedSignature
<1>16. CASE UNCHANGED nodeVars
  BY <1>12, <1>16 DEF nodeVars
<1> QED
  BY <1>5, <1>6, <1>7, <1>8, <1>9, <1>10, <1>11, <1>13, <1>14, <1>15, <1>16 DEF NodeNext

-----------------------------------------------------------------------------
(* The tracker files what it is given, under the round and the nonce.      *)

LEMMA TrackerStep ==
  ASSUME NodeInv, [NodeNext]_nodeVars
  PROVE  TrackerTyped'
<1>1. ASSUME UNCHANGED trackerVars PROVE TrackerTyped'
  BY <1>1 DEF NodeInv, TrackerTyped, trackerVars
<1>2. ASSUME NEW k \in Own, sendSignatureForKey(k) PROVE TrackerTyped'
  <2> DEFINE rs == ReserveSignatureInRound(k)
             ns == RecordSignedNonce(k)
  <2>1. data \in Hash /\ NonceOf[data] \in Nat
    BY <1>2, EvidenceAssumption DEF sendSignatureForKey, NodeInv, ConsensusTyped, VotePcs
  <2>2. index \in Nat
    BY DEF NodeInv, SignInv, ClockInv
  <2>3. \A r \in DOMAIN rs : rs[r] \in Hash
    BY <2>1 DEF ReserveSignatureInRound, NodeInv, TrackerTyped
  <2>4. \A n \in DOMAIN ns : ns[n].hash \in Hash /\ NonceOf[ns[n].hash] = n
    <3> DEFINE old == signedNonces[k]
               D == {p \in DOMAIN old : ~(NonceOf[data] > p /\ NonceOf[data] - p > 1)} \cup {NonceOf[data]}
               x == [hash |-> data, round |-> index]
               new == [m \in D |-> IF m = NonceOf[data] THEN x ELSE old[m]]
    <3>1. \A n \in DOMAIN old : old[n].hash \in Hash /\ NonceOf[old[n].hash] = n
      BY DEF NodeInv, TrackerTyped
    <3>2. x.hash = data
      OBVIOUS
    <3>3. D \ {NonceOf[data]} \subseteq DOMAIN old
      OBVIOUS
    <3>4. \A n \in D : new[n].hash \in Hash /\ NonceOf[new[n].hash] = n
      <4> SUFFICES ASSUME NEW n \in D PROVE new[n].hash \in Hash /\ NonceOf[new[n].hash] = n
        OBVIOUS
      <4>1. new[n] = IF n = NonceOf[data] THEN x ELSE old[n]
        OBVIOUS
      <4> HIDE DEF new, D, x
      <4> QED  BY <2>1, <3>1, <3>2, <3>3, <4>1
    <3>5. ns = old \/ ns = new
      BY DEF RecordSignedNonce
    <3>6. DOMAIN new = D
      OBVIOUS
    <3> QED
      <4> HIDE DEF new, D, x, ns
      <4> QED  BY <3>1, <3>4, <3>5, <3>6
  <2>5. CASE UNCHANGED trackerVars
    BY <2>5, <1>1
  <2>6. CASE /\ signedRounds' = [signedRounds EXCEPT ![k] = rs]
             /\ \/ signedNonces' = signedNonces
                \/ signedNonces' = [signedNonces EXCEPT ![k] = ns]
             /\ \/ signed' = signed
                \/ signed' = signed \cup {<<k, index, data>>}
    <3> HIDE DEF rs, ns
    <3>1. \A j \in Own : \A r \in DOMAIN signedRounds'[j] : signedRounds'[j][r] \in Hash
      <4>1. DOMAIN signedRounds = Own
        BY DEF NodeInv, SignInv
      <4> QED  BY <2>3, <2>6, <4>1 DEF NodeInv, TrackerTyped
    <3>2. DOMAIN signedNonces' = Own
      BY <2>6 DEF NodeInv, TrackerTyped
    <3>3. \A j \in Own : \A n \in DOMAIN signedNonces'[j] :
            signedNonces'[j][n].hash \in Hash /\ NonceOf[signedNonces'[j][n].hash] = n
      BY <2>4, <2>6 DEF NodeInv, TrackerTyped
    <3>4. signed' \subseteq Own \X Nat \X Hash
      BY <2>1, <2>2, <2>6 DEF NodeInv, TrackerTyped
    <3> QED  BY <3>1, <3>2, <3>3, <3>4 DEF TrackerTyped
  <2> QED
    BY <1>2, <2>5, <2>6 DEF sendSignatureForKey, trackerVars
<1>3. CASE \/ UpdateRound \/ doStartRoundJob \/ doBlockJob \/ SendBlock \/ SetDataIfNotSet
           \/ processReceivedBlock \/ doBlockConsensusCheck \/ doSignatureJob \/ CheckSigned
           \/ waitForPreviousBlockProof \/ doSignatureConsensusCheck \/ Extend
  BY <1>1, <1>3 DEF UpdateRound, doStartRoundJob, doBlockJob, SendBlock, SetDataIfNotSet,
       processReceivedBlock, doBlockConsensusCheck, doSignatureJob, CheckSigned,
       waitForPreviousBlockProof, doSignatureConsensusCheck, Extend
<1>4. CASE \/ doEndRoundJob \/ EndCollect \/ EndVerify \/ computeAggSigOnValidNodes
           \/ createAndBroadcastProof \/ finalizeConfirmedBlock \/ commitBlock
  BY <1>1, <1>4 DEF doEndRoundJob, EndCollect, EndVerify, computeAggSigOnValidNodes,
       createAndBroadcastProof, finalizeConfirmedBlock, commitBlock
<1>5. CASE \/ \E h \in Hash : receivedBlockHeader(h) \/ receivedProof(h) \/ ReceiveProof(h) \/ SyncBlock(h)
           \/ \E k \in Group : receivedSignature(k)
           \/ \E e \in EvId : trySelfAssembleProof(e)
  BY <1>1, <1>5 DEF receivedBlockHeader, receivedProof, ReceiveProof, SyncBlock,
       receivedSignature, trySelfAssembleProof
<1>6. CASE UNCHANGED nodeVars
  BY <1>1, <1>6 DEF nodeVars
<1> QED
  BY <1>2, <1>3, <1>4, <1>5, <1>6 DEF NodeNext

-----------------------------------------------------------------------------
(* The consensus state, step by step.                                      *)

(* Between StartRound and the jobs: clock, reset and the Block subround. *)
LEMMA BlockSteps ==
  ASSUME NodeInv,
         \/ UpdateRound \/ doStartRoundJob \/ doBlockJob \/ SendBlock \/ SetDataIfNotSet
         \/ processReceivedBlock \/ doBlockConsensusCheck
         \/ \E h \in Hash : receivedBlockHeader(h)
  PROVE  ConsensusTyped'
<1> USE DEF NodeInv
<1>0. index \in Nat
  BY DEF SignInv, ClockInv
<1>1. CASE UpdateRound
  BY <1>1 DEF UpdateRound, ConsensusTyped, VotePcs, EndPcs, stateVars, shareVars, jobVars
<1>2. CASE doStartRoundJob
  BY <1>0, <1>2 DEF doStartRoundJob, ConsensusTyped, VotePcs, EndPcs
<1>3. CASE doBlockJob
  BY <1>3 DEF doBlockJob, ConsensusTyped, VotePcs, EndPcs, stateVars, shareVars, jobVars
<1>4. CASE SendBlock
  BY <1>4 DEF SendBlock, ConsensusTyped, VotePcs, EndPcs, shareVars, jobVars
<1>5. CASE SetDataIfNotSet
  BY <1>5 DEF SetDataIfNotSet, ConsensusTyped, shareVars, jobVars, chronologyVars
<1>6. CASE processReceivedBlock
  BY <1>6 DEF processReceivedBlock, ConsensusTyped, shareVars, jobVars, chronologyVars
<1>7. CASE doBlockConsensusCheck
  BY <1>7 DEF doBlockConsensusCheck, ConsensusTyped, VotePcs, EndPcs, shareVars, jobVars
<1>8. ASSUME NEW h \in Hash, receivedBlockHeader(h) PROVE ConsensusTyped'
  BY <1>8 DEF receivedBlockHeader, ConsensusTyped, shareVars, jobVars, chronologyVars, stateVars
<1> QED
  BY <1>1, <1>2, <1>3, <1>4, <1>5, <1>6, <1>7, <1>8

(* The Signature subround, and the shares of the other members. *)
LEMMA SignatureSteps ==
  ASSUME NodeInv,
         \/ doSignatureJob \/ CheckSigned \/ waitForPreviousBlockProof
         \/ doSignatureConsensusCheck \/ Extend
         \/ \E k \in Own : sendSignatureForKey(k)
         \/ \E k \in Group : receivedSignature(k)
  PROVE  ConsensusTyped'
<1> USE DEF NodeInv
<1>1. CASE doSignatureJob
  <2>1. waitHash' \in Hash \cup {NoHash}
    <3>1. CASE \E e \in CompetingEvidence : waitHash' = evs[e].hash
      <4>1. PICK e \in CompetingEvidence : waitHash' = evs[e].hash
        BY <3>1
      <4>2. e \in Live(evs)
        BY SlotsAreLive DEF CompetingEvidence, EvidenceFor, GetPreviousRoundEvidence,
                            GetRetainedQuorumEvidence, SlotsLive
      <4>3. evs[e] \in roundSignatureEvidence
        BY <4>2 DEF EvidenceInv, HeapOK
      <4> QED  BY <4>1, <4>3 DEF roundSignatureEvidence
    <3>2. CASE waitHash' = waitHash
      BY <3>2 DEF ConsensusTyped
    <3> QED  BY <1>1, <3>1, <3>2 DEF doSignatureJob
  <2>2. UNCHANGED <<roundIndex, head, data, shares, bad, todo, rp, rh, votes>> /\ data # NoHash
    BY <1>1 DEF doSignatureJob, shareVars
  <2> QED  BY <2>1, <2>2 DEF ConsensusTyped
<1>2. CASE CheckSigned
  <2>1. waitHash' \in Hash \cup {NoHash}
    <3>1. CompetingSigned \subseteq Hash
      BY DEF CompetingSigned, TrackerTyped
    <3> QED  BY <1>2, <3>1 DEF CheckSigned
  <2>2. /\ UNCHANGED <<roundIndex, head, data, shares, bad, rp, rh, votes>>
        /\ todo' = Own /\ pc \in VotePcs
    BY <1>2 DEF CheckSigned, shareVars, stateVars, VotePcs
  <2> QED  BY <2>1, <2>2 DEF ConsensusTyped
<1>3. CASE waitForPreviousBlockProof
  <2>1. /\ UNCHANGED <<roundIndex, head, data, shares, bad, todo, rp, rh, votes>>
        /\ waitHash' = NoHash /\ pc \in VotePcs
    BY <1>3 DEF waitForPreviousBlockProof, shareVars, VotePcs
  <2> QED  BY <2>1 DEF ConsensusTyped
<1>4. CASE doSignatureConsensusCheck
  <2>1. /\ UNCHANGED <<roundIndex, head, data, shares, bad, todo, waitHash, rp, rh, votes>>
        /\ pc \in VotePcs
    BY <1>4 DEF doSignatureConsensusCheck, shareVars, jobVars, VotePcs
  <2> QED  BY <2>1 DEF ConsensusTyped
<1>5. CASE Extend
  BY <1>5 DEF Extend, ConsensusTyped, VotePcs, EndPcs, shareVars, jobVars
<1>6. ASSUME NEW k \in Own, sendSignatureForKey(k) PROVE ConsensusTyped'
  <2>1. /\ UNCHANGED <<roundIndex, head, data, bad, waitHash, rp, rh, votes, pc>>
        /\ todo' \subseteq todo
        /\ shares' \in {shares, shares \cup {k}}
    BY <1>6 DEF sendSignatureForKey, stateVars, chronologyVars
  <2> QED  BY <2>1, NodeAssumption DEF ConsensusTyped
<1>7. ASSUME NEW k \in Group, receivedSignature(k) PROVE ConsensusTyped'
  <2>1. /\ UNCHANGED <<roundIndex, head, data, todo, waitHash, rp, rh, pc>>
        /\ shares' = shares \cup {k}
        /\ bad' \in {bad, bad \cup {k}}
    BY <1>7 DEF receivedSignature, stateVars, chronologyVars, jobVars
  <2>2. votes' \in [Honest -> SUBSET Hash]
    <3>1. CASE votes' = votes
      BY <3>1 DEF ConsensusTyped
    <3>2. CASE k \in Honest /\ votes' = [votes EXCEPT ![k] = @ \cup {data}]
      BY <1>7, <3>2 DEF receivedSignature, ConsensusTyped
    <3> QED  BY <1>7, <3>1, <3>2 DEF receivedSignature
  <2> QED  BY <2>1, <2>2 DEF ConsensusTyped
<1> QED
  BY <1>1, <1>2, <1>3, <1>4, <1>5, <1>6, <1>7

(* The EndRound subround, the proof goroutine, the network. *)
LEMMA EndSteps ==
  ASSUME NodeInv,
         \/ doEndRoundJob \/ EndCollect \/ EndVerify \/ computeAggSigOnValidNodes
         \/ createAndBroadcastProof \/ finalizeConfirmedBlock \/ commitBlock
         \/ \E h \in Hash : receivedProof(h) \/ ReceiveProof(h) \/ SyncBlock(h)
         \/ \E e \in EvId : trySelfAssembleProof(e)
         \/ UNCHANGED nodeVars
  PROVE  ConsensusTyped'
<1> USE DEF NodeInv
<1>1. CASE doEndRoundJob
  BY <1>1 DEF doEndRoundJob, ConsensusTyped, stateVars, shareVars, jobVars
<1>2. CASE EndCollect
  BY <1>2 DEF EndCollect, ConsensusTyped, VotePcs, EndPcs, stateVars, shareVars
<1>3. CASE EndVerify
  BY <1>3 DEF EndVerify, verifyNodesOnAggSigFail, ConsensusTyped, VotePcs, EndPcs, stateVars, jobVars
<1>4. CASE computeAggSigOnValidNodes
  BY <1>4 DEF computeAggSigOnValidNodes, ConsensusTyped, VotePcs, EndPcs, stateVars, shareVars
<1>5. CASE createAndBroadcastProof
  BY <1>5 DEF createAndBroadcastProof, ConsensusTyped, VotePcs, EndPcs, stateVars, shareVars
<1>6. CASE finalizeConfirmedBlock
  <2>1. data # NoHash
    BY <1>6 DEF finalizeConfirmedBlock, ConsensusTyped, VotePcs, EndPcs
  <2> QED
    BY <1>6, <2>1 DEF finalizeConfirmedBlock, CommitBlock, ConsensusTyped, VotePcs, EndPcs,
                      shareVars, jobVars
<1>7. CASE commitBlock
  BY <1>7 DEF commitBlock, ConsensusTyped, shareVars, jobVars, chronologyVars
<1>8. ASSUME NEW h \in Hash, receivedProof(h) PROVE ConsensusTyped'
  BY <1>8 DEF receivedProof, ConsensusTyped, stateVars, shareVars, jobVars, chronologyVars
<1>9. ASSUME NEW h \in Hash, ReceiveProof(h) PROVE ConsensusTyped'
  <2>1. PICK Q \in SUBSET Group :
          votes' = [k \in Honest |-> IF k \in Q THEN votes[k] \cup {h} ELSE votes[k]]
    BY <1>9 DEF ReceiveProof
  <2>2. votes' \in [Honest -> SUBSET Hash]
    BY <2>1 DEF ConsensusTyped
  <2> QED
    BY <1>9, <2>2 DEF ReceiveProof, ConsensusTyped, stateVars, shareVars, jobVars, chronologyVars
<1>10. ASSUME NEW h \in Hash, SyncBlock(h) PROVE ConsensusTyped'
  BY <1>10 DEF SyncBlock, ConsensusTyped, stateVars, shareVars, jobVars, chronologyVars
<1>11. ASSUME NEW e \in EvId, trySelfAssembleProof(e) PROVE ConsensusTyped'
  BY <1>11 DEF trySelfAssembleProof, ConsensusTyped, stateVars, shareVars, jobVars, chronologyVars
<1>12. CASE UNCHANGED nodeVars
  BY <1>12 DEF nodeVars, ConsensusTyped, stateVars, shareVars, jobVars, chronologyVars
<1> QED
  BY <1>1, <1>2, <1>3, <1>4, <1>5, <1>6, <1>7, <1>8, <1>9, <1>10, <1>11, <1>12

(* The node's invariant is inductive. *)
LEMMA NodeInvNext == NodeInv /\ [NodeNext]_nodeVars => NodeInv'
<1> SUFFICES ASSUME NodeInv, [NodeNext]_nodeVars PROVE NodeInv'
  OBVIOUS
<1>1. EvidenceInv'
  BY EvidenceOfNode
<1>2. SignInv'
  BY SignInvNext DEF NodeInv
<1>3. ConsensusTyped'
  BY BlockSteps, SignatureSteps, EndSteps DEF NodeNext
<1>4. TrackerTyped'
  BY TrackerStep
<1> QED
  BY <1>1, <1>2, <1>3, <1>4 DEF NodeInv

LEMMA NodeInvariant == NodeSpec => []NodeInv
BY NodeInvInit, NodeInvNext, PTL DEF NodeSpec

(* The node's variables keep their types for every group, header set and   *)
(* clock: whatever the goroutines do, a vote is never cast without a block *)
(* and the tracker files every signature under its header's nonce.         *)
THEOREM NodeTyped == NodeSpec => []NodeTypeOK
<1>1. NodeInv => NodeTypeOK
  <2> SUFFICES ASSUME NodeInv PROVE NodeTypeOK
    OBVIOUS
  <2>1. index \in 0 .. top /\ top \in Nat
    BY DEF NodeInv, SignInv, ClockInv
  <2> QED
    BY <2>1 DEF NodeInv, EvidenceInv, ConsensusTyped, TrackerTyped, NodeTypeOK
<1> QED
  BY <1>1, NodeInvariant, PTL

-----------------------------------------------------------------------------
(* The proofs of the end round job.                                        *)

MadeInv ==
  /\ MadeHasQuorum
  /\ pc = "endAdd" => Cardinality(sigs.keys) >= Threshold

LEMMA MadeInvNext == MadeInv /\ [NodeNext]_nodeVars => MadeInv'
<1> SUFFICES ASSUME MadeInv, [NodeNext]_nodeVars PROVE MadeInv'
  OBVIOUS
<1>1. ASSUME made' = made, pc' # "endAdd" \/ UNCHANGED <<pc, sigs>> PROVE MadeInv'
  BY <1>1 DEF MadeInv, MadeHasQuorum
<1>2. CASE \/ UpdateRound \/ doStartRoundJob \/ doBlockJob \/ SendBlock \/ SetDataIfNotSet
           \/ processReceivedBlock \/ doBlockConsensusCheck \/ doSignatureJob \/ CheckSigned
  BY <1>1, <1>2 DEF UpdateRound, doStartRoundJob, doBlockJob, SendBlock, SetDataIfNotSet,
       processReceivedBlock, doBlockConsensusCheck, doSignatureJob, CheckSigned, jobVars,
       chronologyVars
<1>3. CASE \/ waitForPreviousBlockProof \/ doSignatureConsensusCheck \/ Extend
           \/ doEndRoundJob \/ EndVerify \/ finalizeConfirmedBlock \/ commitBlock
  BY <1>1, <1>3 DEF waitForPreviousBlockProof, doSignatureConsensusCheck, Extend,
       doEndRoundJob, EndVerify, finalizeConfirmedBlock, commitBlock, jobVars, chronologyVars
<1>4. CASE EndCollect
  <2>1. made' = made
    BY <1>4 DEF EndCollect
  <2>2. CASE pc' = "endAdd" /\ areSignaturesCollected /\ sigs' = [keys |-> shares, bad |-> {}]
    BY <2>1, <2>2 DEF areSignaturesCollected, MadeInv, MadeHasQuorum
  <2> QED
    BY <1>1, <1>4, <2>1, <2>2 DEF EndCollect
<1>5. CASE computeAggSigOnValidNodes
  <2>1. made' = made
    BY <1>5 DEF computeAggSigOnValidNodes
  <2>2. CASE data \notin proofs /\ areSignaturesCollected
    <3>1. sigs' = [keys |-> shares, bad |-> bad]
      BY <1>5, <2>2 DEF computeAggSigOnValidNodes
    <3> QED
      BY <2>1, <2>2, <3>1 DEF areSignaturesCollected, MadeInv, MadeHasQuorum
  <2>3. CASE data \in proofs \/ ~areSignaturesCollected
    <3>1. pc' # "endAdd"
      BY <1>5, <2>3 DEF computeAggSigOnValidNodes
    <3> QED
      BY <1>1, <2>1, <3>1
  <2> QED
    BY <2>2, <2>3
<1>6. CASE createAndBroadcastProof
  <2>1. pc = "endAdd" /\ pc' # "endAdd"
    BY <1>6 DEF createAndBroadcastProof
  <2>2. CASE made' = made
    BY <1>1, <2>1, <2>2
  <2>3. CASE made' = made \cup {[hash |-> data, keys |-> sigs.keys, bad |-> sigs.bad]}
    BY <2>1, <2>3 DEF MadeInv, MadeHasQuorum
  <2> QED
    BY <1>6, <2>2, <2>3 DEF createAndBroadcastProof
<1>7. CASE \/ \E h \in Hash : receivedBlockHeader(h) \/ receivedProof(h) \/ ReceiveProof(h) \/ SyncBlock(h)
           \/ \E k \in Own : sendSignatureForKey(k)
           \/ \E k \in Group : receivedSignature(k)
           \/ \E e \in EvId : trySelfAssembleProof(e)
  BY <1>1, <1>7 DEF receivedBlockHeader, receivedProof, ReceiveProof, SyncBlock,
       sendSignatureForKey, receivedSignature, trySelfAssembleProof, jobVars, chronologyVars
<1>8. CASE UNCHANGED nodeVars
  BY <1>1, <1>8 DEF nodeVars, jobVars, chronologyVars
<1> QED
  BY <1>2, <1>3, <1>4, <1>5, <1>6, <1>7, <1>8 DEF NodeNext

(* Shares are stripped and arrive between the checks of the end round job  *)
(* and its aggregation; whatever it adds to the pool, at any threshold and *)
(* in any group, aggregates a quorum.                                      *)
THEOREM MadeProofsHaveQuorum == NodeSpec => []MadeHasQuorum
<1>1. NodeInit => MadeInv
  BY DEF NodeInit, MadeInv, MadeHasQuorum
<1>2. MadeInv => MadeHasQuorum
  BY DEF MadeInv
<1> QED
  BY <1>1, <1>2, MadeInvNext, PTL DEF NodeSpec

-----------------------------------------------------------------------------
(* A quorum seen at the end of a round binds the next round.  The evidence *)
(* of that quorum is in the previous slot until the next StartRound, with  *)
(* its valid shares; what the node has accepted or seen a quorum for is at *)
(* most one nonce above its head, which never goes back.                   *)

SignPcs == {"checkSigned", "waitEvidence", "waitSigned", "sign"}

QuorumHeld ==
  \A q \in lastQuorum :
    /\ q[1] \in Hash
    /\ previous # None
    /\ evs[previous].hash = q[1] /\ evs[previous].round = q[2]
    /\ Cardinality(ValidShares(evs, previous)) >= Threshold

NearHead ==
  /\ data # NoHash => NonceOf[data] <= NonceOf[head] + 1
  /\ rh # NoHash => NonceOf[rh] <= NonceOf[head] + 1
  /\ \A q \in lastQuorum : NonceOf[q[1]] <= NonceOf[head] + 1

Decided ==
  /\ pc \in SignPcs => ~AgainstQuorum(data)
  /\ pc = "propose" =>
       \A q \in lastQuorum : q[2] = index - 1 => NonceOf[q[1]] <= NonceOf[head]

QuorumInv == NodeInv /\ QuorumHeld /\ NearHead /\ Decided

LEMMA HashNonces == \A h \in Hash : NonceOf[h] \in Nat
BY EvidenceAssumption

(* What the signing and proposing decisions look at covers the quorum. *)
LEMMA PreviousIsCovered ==
  ASSUME NodeInv, QuorumHeld, NEW q \in lastQuorum, q[2] = index - 1
  PROVE  /\ EvidenceFor(NonceOf[q[1]], index) = {previous}
         /\ getCount(evs, previous) >= Threshold
         /\ evs[previous].hash = q[1]
<1>1. /\ previous # None /\ evs[previous].hash = q[1] /\ evs[previous].round = q[2]
      /\ Cardinality(ValidShares(evs, previous)) >= Threshold
  BY DEF QuorumHeld
<1>2. previous \in GetPreviousRoundEvidence(NonceOf[q[1]], index)
  BY <1>1 DEF GetPreviousRoundEvidence, nonce
<1>3. EvidenceFor(NonceOf[q[1]], index) = {previous}
  BY <1>2 DEF EvidenceFor, GetPreviousRoundEvidence
<1>4. evs[previous] \in roundSignatureEvidence
  BY <1>1, SlotsAreLive DEF NodeInv, EvidenceInv, SlotsLive, HeapOK
<1>5. /\ evs[previous].shares \in SUBSET Group
      /\ ValidShares(evs, previous) \in SUBSET evs[previous].shares
  BY <1>4 DEF roundSignatureEvidence, ValidShares
<1>6. Threshold \in Nat
  BY EvidenceAssumption, FS_CardinalityType
<1>7. /\ Cardinality(evs[previous].shares) \in Nat /\ Cardinality(ValidShares(evs, previous)) \in Nat
      /\ Cardinality(ValidShares(evs, previous)) <= Cardinality(evs[previous].shares)
  BY <1>5, ShareCounts
<1> QED
  BY <1>1, <1>3, <1>6, <1>7 DEF getCount

(* The leader and the signer refuse when the quorum is for another block. *)
LEMMA LeaderRefuses ==
  ASSUME QuorumInv, doBlockJob, pc' = "propose"
  PROVE  \A q \in lastQuorum : q[2] = index - 1 => NonceOf[q[1]] <= NonceOf[head]
<1> SUFFICES ASSUME NEW q \in lastQuorum, q[2] = index - 1
             PROVE  NonceOf[q[1]] <= NonceOf[head]
  OBVIOUS
<1>1. hasQuorumEvidenceForCompetingBlock = {}
  BY DEF doBlockJob
<1>2. NonceOf[q[1]] # NonceOf[head] + 1
  <2> SUFFICES ASSUME NonceOf[q[1]] = NonceOf[head] + 1 PROVE FALSE
    OBVIOUS
  <2>1. EvidenceFor(NonceOf[head] + 1, index) = {previous} /\ getCount(evs, previous) >= Threshold
    BY PreviousIsCovered DEF QuorumInv
  <2> QED
    BY <1>1, <2>1 DEF hasQuorumEvidenceForCompetingBlock, QuorumEvidence
<1>3. NonceOf[q[1]] \in Nat /\ NonceOf[head] \in Nat /\ NonceOf[q[1]] <= NonceOf[head] + 1
  BY HashNonces DEF QuorumInv, QuorumHeld, NearHead, NodeInv, ConsensusTyped
<1> QED
  BY <1>2, <1>3

LEMMA SignerRefuses ==
  ASSUME QuorumInv, EvidenceTier(CompetingEvidence) # "refuse"
  PROVE  ~AgainstQuorum(data)
<1> SUFFICES ASSUME AgainstQuorum(data) PROVE FALSE
  OBVIOUS
<1>1. PICK q \in lastQuorum : q[2] = index - 1 /\ NonceOf[q[1]] = NonceOf[data] /\ q[1] # data
  BY DEF AgainstQuorum
<1>2. /\ EvidenceFor(NonceOf[data], index) = {previous}
      /\ getCount(evs, previous) >= Threshold
      /\ evs[previous].hash = q[1]
  BY <1>1, PreviousIsCovered DEF QuorumInv
<1>3. CompetingEvidence = {previous}
  BY <1>1, <1>2 DEF CompetingEvidence
<1>4. ~(getCount(evs, previous) < Threshold)
  <2>1. Threshold \in Nat
    BY EvidenceAssumption, FS_CardinalityType
  <2>2. evs[previous].shares \in SUBSET Group
    BY <1>1, SlotsAreLive DEF QuorumInv, QuorumHeld, NodeInv, EvidenceInv, SlotsLive, HeapOK,
                              roundSignatureEvidence
  <2>3. getCount(evs, previous) \in Nat
    BY <2>2, ShareCounts DEF getCount
  <2> QED  BY <1>2, <2>1, <2>3
<1> QED
  BY <1>2, <1>3, <1>4 DEF EvidenceTier

(* The head stays or moves to a child. *)
HeadMoves == head' = head \/ (head' \in Hash /\ NonceOf[head'] = NonceOf[head] + 1)

(* Steps that take up no block and decide nothing. *)
LEMMA QuorumFrame ==
  ASSUME QuorumInv, NodeInv', PreviousKept, HeadMoves,
         UNCHANGED <<lastQuorum, index, data>>, rh' \in {rh, NoHash},
         pc' \in SignPcs => pc \in SignPcs,
         pc' # "propose" \/ pc' = pc
  PROVE  QuorumInv'
<1>1. QuorumHeld'
  BY DEF QuorumInv, QuorumHeld, PreviousKept
<1>2. NonceOf[head] \in Nat /\ NonceOf[head'] \in Nat /\ NonceOf[head] <= NonceOf[head']
  BY HashNonces DEF HeadMoves, QuorumInv, NodeInv, ConsensusTyped
<1>3. \A h \in Hash : NonceOf[h] <= NonceOf[head] + 1 => NonceOf[h] <= NonceOf[head'] + 1
  BY <1>2, HashNonces
<1>4. \A h \in Hash : NonceOf[h] <= NonceOf[head] => NonceOf[h] <= NonceOf[head']
  BY <1>2, HashNonces
<1>5. NearHead'
  BY <1>3 DEF QuorumInv, NearHead, QuorumHeld, NodeInv, ConsensusTyped
<1>6. Decided'
  BY <1>4 DEF QuorumInv, Decided, AgainstQuorum, QuorumHeld
<1> QED
  BY <1>1, <1>5, <1>6 DEF QuorumInv

LEMMA QuorumInvNext == QuorumInv /\ [NodeNext]_nodeVars => QuorumInv'
<1> SUFFICES ASSUME QuorumInv, [NodeNext]_nodeVars PROVE QuorumInv'
  OBVIOUS
<1>1. NodeInv /\ NodeInv'
  BY NodeInvNext DEF QuorumInv
<1>2. doStartRoundJob \/ PreviousKept
  BY <1>1, EvidenceOfNode
<1>3. CASE UpdateRound
  <2>1. PreviousKept
    BY <1>3, <1>2 DEF UpdateRound, doStartRoundJob
  <2>2. UNCHANGED <<lastQuorum, data, rh, head>> /\ pc' = "start"
    BY <1>3 DEF UpdateRound, stateVars
  <2>3. QuorumHeld'
    BY <2>1, <2>2 DEF QuorumInv, QuorumHeld, PreviousKept
  <2>4. NearHead' /\ Decided'
    BY <2>2 DEF QuorumInv, NearHead, Decided, SignPcs
  <2> QED  BY <1>1, <2>3, <2>4 DEF QuorumInv
<1>4. CASE doStartRoundJob
  <2>1. /\ lastQuorum' = {} \/ /\ lastQuorum' = {<<data, roundIndex>>}
                               /\ data # NoHash
                               /\ Cardinality(shares \ bad) >= Threshold
                               /\ ~isNonceSettled(NonceOf[data])
        /\ data' = NoHash /\ UNCHANGED <<rh, head>>
        /\ pc' \in {"blockJob", "before"}
        /\ captureSignatureEvidence(roundIndex, {data} \ {NoHash}, shares, bad)
    BY <1>4 DEF doStartRoundJob
  <2>2. ASSUME lastQuorum' = {<<data, roundIndex>>}, data # NoHash,
               Cardinality(shares \ bad) >= Threshold, ~isNonceSettled(NonceOf[data])
        PROVE  /\ previous' # None /\ evs'[previous'].hash = data
               /\ evs'[previous'].round = roundIndex
               /\ Cardinality(ValidShares(evs', previous')) >= Threshold
    <3>1. data \in Hash /\ roundIndex \in Nat /\ shares \in SUBSET Group /\ bad \in SUBSET shares
      BY <1>1, <2>2 DEF NodeInv, ConsensusTyped
    <3>2. shares # {}
      <4> SUFFICES ASSUME shares = {} PROVE FALSE
        OBVIOUS
      <4>1. shares \ bad = {}
        OBVIOUS
      <4>2. Cardinality(shares \ bad) = 0
        BY <4>1, FS_EmptySet
      <4> QED
        BY <2>2, <4>2, EvidenceAssumption, FS_CardinalityType
    <3> DEFINE hs == {data} \ {NoHash}
    <3>3. \E h \in hs : HasEvidence(h, shares)
      BY <2>2, <3>2 DEF HasEvidence
    <3>4. hs \in SUBSET Hash /\ hs = {data}
      BY <2>2, <3>1
    <3>5. HeapOK(evs) /\ SlotsLive(evs, previous, retained)
      BY <1>1, SlotsAreLive DEF NodeInv, EvidenceInv
    <3>6. captureSignatureEvidence(roundIndex, hs, shares, bad)
      BY <2>1
    <3> HIDE DEF hs
    <3>6a. Captured(roundIndex, hs, shares, bad)
      BY <3>1, <3>4, <3>5, <3>6, CaptureKeeps
    <3>7. SlotsLive(evs', previous', retained')
      BY <3>6a DEF Captured
    <3>8. previous' # None /\ previous' \notin Live(evs)
      BY <3>3, <3>6a DEF Captured
    <3>9. previous' \in Live(evs')
      BY <3>7, <3>8 DEF SlotsLive
    <3>10. /\ evs'[previous'].hash \in hs /\ evs'[previous'].round = roundIndex
           /\ evs'[previous'].shares = shares /\ evs'[previous'].bad = bad
      BY <3>6a, <3>8, <3>9 DEF Captured
    <3> QED
      BY <2>2, <3>4, <3>8, <3>10 DEF ValidShares
  <2>3. QuorumHeld'
    <3>1. ASSUME lastQuorum' = {<<data, roundIndex>>}, data # NoHash,
                 Cardinality(shares \ bad) >= Threshold, ~isNonceSettled(NonceOf[data])
          PROVE  QuorumHeld'
      <4> DEFINE q == <<data, roundIndex>>
      <4>1. q[1] = data /\ q[2] = roundIndex
        OBVIOUS
      <4>2. data \in Hash
        BY <1>1, <3>1 DEF NodeInv, ConsensusTyped
      <4> HIDE DEF q
      <4>3. lastQuorum' = {q}
        BY <3>1 DEF q
      <4> QED
        BY <2>2, <3>1, <4>1, <4>2, <4>3 DEF QuorumHeld
    <3>2. CASE lastQuorum' = {}
      BY <3>2 DEF QuorumHeld
    <3> QED
      BY <2>1, <3>1, <3>2
  <2>4. NearHead'
    <3>1. \A q \in lastQuorum' : q[1] = data /\ data # NoHash
      BY <2>1
    <3> QED
      BY <2>1, <3>1 DEF QuorumInv, NearHead
  <2>5. Decided'
    BY <2>1 DEF Decided, SignPcs
  <2> QED
    BY <1>1, <2>3, <2>4, <2>5 DEF QuorumInv
<1>5. CASE doBlockJob
  <2>1. /\ UNCHANGED <<lastQuorum, index, data, rh, head>> /\ pc = "blockJob"
        /\ pc' \in {"propose", "block"}
    BY <1>5 DEF doBlockJob, stateVars
  <2>2. PreviousKept
    BY <1>2, <2>1 DEF doStartRoundJob
  <2>3. QuorumHeld' /\ NearHead'
    BY <2>1, <2>2 DEF QuorumInv, QuorumHeld, NearHead, PreviousKept
  <2>4. Decided'
    <3>1. pc' \notin SignPcs
      BY <2>1 DEF SignPcs
    <3> QED
      BY <1>5, <2>1, <3>1, LeaderRefuses DEF Decided
  <2> QED  BY <1>1, <2>3, <2>4 DEF QuorumInv
<1>6. CASE SendBlock
  <2>1. /\ UNCHANGED <<lastQuorum, index, rh, head>> /\ pc = "propose" /\ pc' = "block"
        /\ data' = data \/ (data' \in Hash /\ NonceOf[data'] = NonceOf[head] + 1)
    BY <1>6 DEF SendBlock, vars
  <2>2. PreviousKept
    BY <1>2, <2>1 DEF doStartRoundJob
  <2>3. QuorumHeld'
    BY <2>1, <2>2 DEF QuorumInv, QuorumHeld, PreviousKept
  <2>4. NonceOf[head] + 1 <= NonceOf[head] + 1
    BY <1>1, HashNonces DEF NodeInv, ConsensusTyped
  <2>5. NearHead' /\ Decided'
    BY <2>1, <2>4 DEF QuorumInv, NearHead, Decided, SignPcs
  <2> QED  BY <1>1, <2>3, <2>5 DEF QuorumInv
<1>7. ASSUME NEW h \in Hash, receivedBlockHeader(h) PROVE QuorumInv'
  <2>1. /\ UNCHANGED <<lastQuorum, index, data, head, pc>> /\ data = NoHash /\ rh = NoHash /\ rh' = h
        /\ NonceOf[h] = NonceOf[head] + 1
    BY <1>7 DEF receivedBlockHeader, isHeaderForCurrentConsensus, vars, chronologyVars, stateVars
  <2>2. PreviousKept
    BY <1>2, <2>1, NoHashIsNone DEF doStartRoundJob
  <2>3. QuorumHeld'
    BY <2>1, <2>2 DEF QuorumInv, QuorumHeld, PreviousKept
  <2>4. NonceOf[h] <= NonceOf[head] + 1
    BY <1>1, <2>1, HashNonces DEF NodeInv, ConsensusTyped
  <2>5. NearHead' /\ Decided'
    BY <2>1, <2>4 DEF QuorumInv, NearHead, Decided, AgainstQuorum
  <2> QED  BY <1>1, <2>3, <2>5 DEF QuorumInv
<1>8. CASE SetDataIfNotSet
  <2>1. /\ UNCHANGED <<lastQuorum, index, head, pc>> /\ rh # NoHash /\ rh' = NoHash
        /\ data' = IF data = NoHash THEN rh ELSE data
    BY <1>8 DEF SetDataIfNotSet, vars, chronologyVars
  <2>2. PreviousKept
    BY <1>2, <2>1 DEF doStartRoundJob
  <2>3. QuorumHeld'
    BY <2>1, <2>2 DEF QuorumInv, QuorumHeld, PreviousKept
  <2>4. pc \in SignPcs => data' = data
    BY <1>1, <2>1 DEF NodeInv, ConsensusTyped, VotePcs, SignPcs
  <2>5. Decided'
    BY <2>1, <2>4 DEF QuorumInv, Decided, AgainstQuorum
  <2>6. NearHead'
    BY <2>1 DEF QuorumInv, NearHead
  <2> QED  BY <1>1, <2>3, <2>5, <2>6 DEF QuorumInv
<1>9. CASE doSignatureJob
  <2>1. /\ UNCHANGED <<lastQuorum, index, data, rh, head>> /\ pc = "signatureJob"
        /\ pc' # "propose"
        /\ pc' \in SignPcs => EvidenceTier(CompetingEvidence) # "refuse"
    BY <1>9 DEF doSignatureJob, SignPcs
  <2>2. PreviousKept
    BY <1>2, <2>1 DEF doStartRoundJob
  <2>3. QuorumHeld' /\ NearHead'
    BY <2>1, <2>2 DEF QuorumInv, QuorumHeld, NearHead, PreviousKept
  <2>4. Decided'
    <3>1. pc' \in SignPcs => ~AgainstQuorum(data)
      BY <2>1, SignerRefuses
    <3> QED  BY <2>1, <3>1 DEF Decided, AgainstQuorum
  <2> QED  BY <1>1, <2>3, <2>4 DEF QuorumInv
<1>10. CASE \/ processReceivedBlock \/ doBlockConsensusCheck \/ CheckSigned
            \/ waitForPreviousBlockProof \/ doSignatureConsensusCheck \/ Extend
            \/ \E k \in Own : sendSignatureForKey(k)
            \/ \E k \in Group : receivedSignature(k)
  <2>1. /\ UNCHANGED <<lastQuorum, index, data, rh, head>>
        /\ pc # "start" \/ pc' = pc
        /\ pc' \in SignPcs => pc \in SignPcs
        /\ pc' # "propose" \/ pc' = pc
    BY <1>10 DEF processReceivedBlock, doBlockConsensusCheck, CheckSigned,
         waitForPreviousBlockProof, doSignatureConsensusCheck, Extend, sendSignatureForKey,
         receivedSignature, SignPcs, vars, chronologyVars, stateVars
  <2> QED
    BY <1>1, <1>2, <2>1, QuorumFrame DEF HeadMoves, doStartRoundJob
<1>11. CASE \/ doEndRoundJob \/ EndCollect \/ EndVerify \/ computeAggSigOnValidNodes
            \/ createAndBroadcastProof
  <2>1. /\ UNCHANGED <<lastQuorum, index, data, rh, head>> /\ pc # "start"
        /\ pc' \notin SignPcs /\ pc' # "propose"
    BY <1>11 DEF doEndRoundJob, EndCollect, EndVerify, computeAggSigOnValidNodes,
         createAndBroadcastProof, SignPcs, vars, stateVars
  <2> QED
    BY <1>1, <1>2, <2>1, QuorumFrame DEF HeadMoves, doStartRoundJob
<1>12. CASE finalizeConfirmedBlock
  <2>1. /\ UNCHANGED <<lastQuorum, index, data, rh>> /\ pc = "endProof" /\ pc' = "before"
        /\ head' = head \/ (head' = data /\ CanCommit(data))
    BY <1>12 DEF finalizeConfirmedBlock, CommitBlock, vars
  <2>2. data \in Hash
    BY <1>1, <2>1 DEF NodeInv, ConsensusTyped, VotePcs, EndPcs
  <2>3. HeadMoves
    BY <2>1, <2>2 DEF HeadMoves, CanCommit
  <2>4. pc' \notin SignPcs
    BY <2>1 DEF SignPcs
  <2> QED
    BY <1>1, <1>2, <2>1, <2>3, <2>4, QuorumFrame DEF doStartRoundJob
<1>13. ASSUME pc' = pc, doStartRoundJob PROVE FALSE
  BY <1>13 DEF doStartRoundJob
<1>14. CASE commitBlock
  <2>1. /\ UNCHANGED <<lastQuorum, index, data, rh, pc>>
        /\ head' = head \/ (head' = data /\ CanCommit(data) /\ data # NoHash)
    BY <1>14 DEF commitBlock, vars, chronologyVars
  <2>2. HeadMoves
    BY <1>1, <2>1 DEF HeadMoves, CanCommit, NodeInv, ConsensusTyped
  <2> QED
    BY <1>1, <1>2, <1>13, <2>1, <2>2, QuorumFrame
<1>15. ASSUME NEW h \in Hash, receivedProof(h) \/ ReceiveProof(h) \/ SyncBlock(h) PROVE QuorumInv'
  <2>1. /\ UNCHANGED <<lastQuorum, index, data, rh, pc>>
        /\ head' = head \/ (head' = h /\ CanCommit(h))
    BY <1>15 DEF receivedProof, ReceiveProof, SyncBlock, vars, chronologyVars, stateVars
  <2>2. HeadMoves
    BY <2>1 DEF HeadMoves, CanCommit
  <2> QED
    BY <1>1, <1>2, <1>13, <2>1, <2>2, QuorumFrame
<1>16. ASSUME NEW e \in EvId, trySelfAssembleProof(e) PROVE QuorumInv'
  <2>1. UNCHANGED <<lastQuorum, index, data, rh, pc, head>>
    BY <1>16 DEF trySelfAssembleProof, AssembleStart, AssembleAggregate, AssembleAdd,
                 chronologyVars, stateVars
  <2> QED
    BY <1>1, <1>2, <1>13, <2>1, QuorumFrame DEF HeadMoves
<1>17. CASE UNCHANGED nodeVars
  <2>1. UNCHANGED <<lastQuorum, index, data, rh, pc, head>>
    BY <1>17 DEF nodeVars, vars, chronologyVars, stateVars
  <2> QED
    BY <1>1, <1>2, <1>13, <2>1, QuorumFrame DEF HeadMoves
<1> QED
  BY <1>3, <1>4, <1>5, <1>6, <1>7, <1>8, <1>9, <1>10, <1>11, <1>12, <1>14, <1>15, <1>16, <1>17
     DEF NodeNext

(* One step of QuorumHolds. *)
QuorumBinds ==
  /\ \A s \in signed' \ signed : ~AgainstQuorum(s[3])
  /\ (pc = "propose" /\ pc' # pc /\ data' # data) => ~AgainstQuorum(data')

LEMMA QuorumBindsStep ==
  ASSUME QuorumInv, [NodeNext]_nodeVars
  PROVE  QuorumBinds
<1>1. ASSUME NEW s \in signed' \ signed PROVE ~AgainstQuorum(s[3])
  <2>1. PICK k \in Own : sendSignatureForKey(k)
    <3> SUFFICES ASSUME \A k \in Own : ~sendSignatureForKey(k) PROVE signed' = signed
      OBVIOUS
    <3>1. CASE \/ UpdateRound \/ doStartRoundJob \/ doBlockJob \/ SendBlock \/ SetDataIfNotSet
               \/ processReceivedBlock \/ doBlockConsensusCheck \/ doSignatureJob \/ CheckSigned
               \/ waitForPreviousBlockProof \/ doSignatureConsensusCheck \/ Extend
      BY <3>1 DEF UpdateRound, doStartRoundJob, doBlockJob, SendBlock, SetDataIfNotSet,
           processReceivedBlock, doBlockConsensusCheck, doSignatureJob, CheckSigned,
           waitForPreviousBlockProof, doSignatureConsensusCheck, Extend, trackerVars
    <3>2. CASE \/ doEndRoundJob \/ EndCollect \/ EndVerify \/ computeAggSigOnValidNodes
               \/ createAndBroadcastProof \/ finalizeConfirmedBlock \/ commitBlock
      BY <3>2 DEF doEndRoundJob, EndCollect, EndVerify, computeAggSigOnValidNodes,
           createAndBroadcastProof, finalizeConfirmedBlock, commitBlock, trackerVars
    <3>3. CASE \/ \E h \in Hash : receivedBlockHeader(h) \/ receivedProof(h) \/ ReceiveProof(h) \/ SyncBlock(h)
               \/ \E k \in Group : receivedSignature(k)
               \/ \E e \in EvId : trySelfAssembleProof(e)
      BY <3>3 DEF receivedBlockHeader, receivedProof, ReceiveProof, SyncBlock,
           receivedSignature, trySelfAssembleProof, trackerVars
    <3>4. CASE UNCHANGED nodeVars
      BY <3>4 DEF nodeVars, trackerVars
    <3> QED  BY <3>1, <3>2, <3>3, <3>4 DEF NodeNext
  <2>2. pc = "sign" /\ s = <<k, index, data>>
    BY <1>1, <2>1 DEF sendSignatureForKey, trackerVars
  <2>3. ~AgainstQuorum(data)
    BY <2>2 DEF QuorumInv, Decided, SignPcs
  <2>4. s[3] = data
    BY <2>2
  <2> QED  BY <2>3, <2>4
<1>2. ASSUME pc = "propose", pc' # pc, data' # data PROVE ~AgainstQuorum(data')
  <2>1. SendBlock
    BY <1>2 DEF NodeNext, UpdateRound, doStartRoundJob, doBlockJob, receivedBlockHeader,
         SetDataIfNotSet, processReceivedBlock, doBlockConsensusCheck, doSignatureJob,
         CheckSigned, waitForPreviousBlockProof, sendSignatureForKey, doSignatureConsensusCheck,
         Extend, receivedSignature, doEndRoundJob, EndCollect, EndVerify,
         computeAggSigOnValidNodes, createAndBroadcastProof, finalizeConfirmedBlock,
         receivedProof, commitBlock, trySelfAssembleProof, ReceiveProof, SyncBlock,
         chronologyVars, nodeVars
  <2>2. NonceOf[data'] = NonceOf[head] + 1
    BY <1>2, <2>1 DEF SendBlock
  <2>3. \A q \in lastQuorum : q[2] = index - 1 => NonceOf[q[1]] <= NonceOf[head]
    BY <1>2 DEF QuorumInv, Decided
  <2>4. NonceOf[head] \in Nat
    BY HashNonces DEF QuorumInv, NodeInv, ConsensusTyped
  <2>5. \A q \in lastQuorum : NonceOf[q[1]] \in Nat
    BY HashNonces DEF QuorumInv, QuorumHeld
  <2> QED
    BY <2>2, <2>3, <2>4, <2>5 DEF AgainstQuorum
<1> QED
  BY <1>1, <1>2 DEF QuorumBinds

(* A round that ended with a quorum of valid signatures binds the node in  *)
(* the next one: for every group, leader schedule and number of snapshots  *)
(* it neither signs nor proposes another block of that nonce, although the *)
(* evidence is shared with goroutines that strip and collect it.           *)
THEOREM QuorumBindsNextRound == NodeSpec => QuorumHolds
<1>1. NodeInit => QuorumInv
  <2> SUFFICES ASSUME NodeInit PROVE QuorumInv
    OBVIOUS
  <2>1. NodeInv
    BY NodeInvInit
  <2>2. lastQuorum = {} /\ data = NoHash /\ rh = NoHash /\ pc = "before"
    BY DEF NodeInit
  <2> QED
    BY <2>1, <2>2 DEF QuorumInv, QuorumHeld, NearHead, Decided, SignPcs
<1>2. QuorumInv /\ [NodeNext]_nodeVars =>
        [/\ \A s \in signed' \ signed : ~AgainstQuorum(s[3])
         /\ (pc = "propose" /\ pc' # pc /\ data' # data) => ~AgainstQuorum(data')]_nodeVars
  BY QuorumBindsStep DEF QuorumBinds
<1> QED
  BY <1>1, <1>2, QuorumInvNext, PTL DEF NodeSpec, QuorumHolds

-----------------------------------------------------------------------------
(* The node implements Committee when its clock does not step back and the *)
(* shares it is sent are valid.  Both are needed: a header kept across a   *)
(* step back is signed in a round that is not its own, and an invalid      *)
(* share can make a proof of fewer than Threshold signatures.              *)

(* The places from which a vote is cast or a proof is made. *)
LatePcs == {"signatureJob", "endJob"} \cup VotePcs

EarlyPcs == {"blockJob", "propose", "block"}

(* A block is voted on in its own round. *)
Timely ==
  /\ data # NoHash => RoundOf[data] <= index
  /\ rh # NoHash => RoundOf[rh] <= index
  /\ (blockDone /\ pc \notin {"before", "start"}) => data # NoHash /\ RoundOf[data] = index
  /\ pc \in LatePcs => blockDone
  /\ \A s \in signed : RoundOf[s[3]] = s[2]

Clean == bad = {} /\ \A e \in Live(evs) : evs[e].bad = {}

(* Shares come after the block. *)
Sequenced ==
  /\ data = NoHash => shares = {}
  /\ pc \in EarlyPcs => shares = {} /\ "block" \notin status

(* The members of S that follow the protocol have signed h, by the votes cv. *)
Backed(cv, S, h) == \A k \in S \ Equivocators : h \in cv[k]

SharesBacked ==
  /\ data # NoHash => Backed(CommitteeVotes, shares, data)
  /\ pc = "endAdd" => sigs.keys \subseteq Group /\ Backed(CommitteeVotes, sigs.keys, data)

EvidenceBacked ==
  \A e \in Live(evs) : /\ Backed(CommitteeVotes, evs[e].shares, evs[e].hash)
                       /\ Busy(evs[e]) => getCount(evs, e) >= Threshold

VotesOnce ==
  \A k \in Group \ Equivocators : \A g, h \in CommitteeVotes[k] :
    RoundOf[g] = RoundOf[h] => g = h

RefineInv ==
  /\ NodeInv /\ MadeInv
  /\ Timely /\ Clean /\ Sequenced
  /\ SharesBacked /\ EvidenceBacked /\ VotesOnce

Members == Group \ Equivocators

(* No vote is taken back. *)
VotesGrow == \A k \in Members : CommitteeVotes[k] \subseteq CommitteeVotes'[k]

LEMMA MembersAre ==
  /\ Members = Own \cup Honest
  /\ Own \cap Honest = {} /\ Own \subseteq Members /\ Honest \subseteq Members
BY NodeAssumption DEF Members, Honest

LEMMA VotesOf ==
  /\ \A k \in Own : \A h : h \in CommitteeVotes[k] <=> \E s \in signed : s[1] = k /\ s[3] = h
  /\ \A k \in Honest : CommitteeVotes[k] = votes[k]
BY MembersAre DEF CommitteeVotes, Members

LEMMA VotesSame ==
  ASSUME UNCHANGED <<signed, votes>>
  PROVE  CommitteeVotes' = CommitteeVotes /\ VotesGrow
BY DEF CommitteeVotes, VotesGrow

LEMMA BackedGrows ==
  ASSUME VotesGrow, NEW S \in SUBSET Group, NEW h, Backed(CommitteeVotes, S, h)
  PROVE  Backed(CommitteeVotes', S, h)
BY DEF Backed, VotesGrow, Members

(* An own key signs a block of the current round. *)
LEMMA OwnVote ==
  ASSUME RefineInv, SignInv', NEW k \in Own, data \in Hash, RoundOf[data] = index,
         signed' = signed \cup {<<k, index, data>>}, votes' = votes
  PROVE  /\ Abstract!MayVote(k, data)
         /\ CommitteeVotes' = [CommitteeVotes EXCEPT ![k] = @ \cup {data}]
         /\ VotesGrow
<1> DEFINE t == <<k, index, data>>
<1>1. t[1] = k /\ t[2] = index /\ t[3] = data /\ t \in signed'
  OBVIOUS
<1>2. signed' = signed \cup {t}
  OBVIOUS
<1> HIDE DEF t
<1>3. Abstract!MayVote(k, data)
  <2> SUFFICES ASSUME NEW g \in CommitteeVotes[k], RoundOf[g] = RoundOf[data] PROVE g = data
    BY DEF Abstract!MayVote
  <2>1. PICK s \in signed : s[1] = k /\ s[3] = g
    BY VotesOf
  <2>2. s[2] = index
    BY <2>1 DEF RefineInv, Timely
  <2>3. s \in signed'
    OBVIOUS
  <2> QED
    BY <1>1, <2>1, <2>2, <2>3 DEF SignInv, OneSignaturePerRound
<1>4. \A j \in Group \ Equivocators :
        CommitteeVotes'[j] = IF j = k THEN CommitteeVotes[j] \cup {data} ELSE CommitteeVotes[j]
  <2> SUFFICES ASSUME NEW j \in Group \ Equivocators
               PROVE  CommitteeVotes'[j] = IF j = k THEN CommitteeVotes[j] \cup {data} ELSE CommitteeVotes[j]
    OBVIOUS
  <2>1. CASE j \in Own
    <3>1. CommitteeVotes[j] = {s[3] : s \in {u \in signed : u[1] = j}}
      BY <2>1 DEF CommitteeVotes
    <3>2. CommitteeVotes'[j] = {s[3] : s \in {u \in signed' : u[1] = j}}
      BY <2>1 DEF CommitteeVotes
    <3>3. CASE j = k
      <4>1. {u \in signed' : u[1] = j} = {u \in signed : u[1] = j} \cup {t}
        BY <1>1, <1>2, <3>3
      <4> QED  BY <1>1, <3>1, <3>2, <3>3, <4>1
    <3>4. CASE j # k
      <4>1. {u \in signed' : u[1] = j} = {u \in signed : u[1] = j}
        BY <1>1, <1>2, <3>4
      <4> QED  BY <3>1, <3>2, <3>4, <4>1
    <3> QED  BY <3>3, <3>4
  <2>2. CASE j \notin Own
    BY <2>2 DEF CommitteeVotes
  <2> QED  BY <2>1, <2>2
<1>5. /\ CommitteeVotes = [j \in Group \ Equivocators |-> CommitteeVotes[j]]
      /\ CommitteeVotes' = [j \in Group \ Equivocators |-> CommitteeVotes'[j]]
  BY DEF CommitteeVotes
<1>6. CommitteeVotes' = [CommitteeVotes EXCEPT ![k] = @ \cup {data}]
  BY <1>4, <1>5
<1>7. VotesGrow
  BY <1>4 DEF VotesGrow, Members
<1> QED
  BY <1>3, <1>6, <1>7

(* Another member's vote arrives with its share. *)
LEMMA OtherVote ==
  ASSUME RefineInv, NEW k \in Honest, CanVote(k, data),
         signed' = signed, votes' = [votes EXCEPT ![k] = @ \cup {data}]
  PROVE  /\ Abstract!MayVote(k, data)
         /\ CommitteeVotes' = [CommitteeVotes EXCEPT ![k] = @ \cup {data}]
         /\ VotesGrow
<1>1. Abstract!MayVote(k, data)
  BY VotesOf DEF CanVote, Abstract!MayVote
<1>2. votes \in [Honest -> SUBSET Hash]
  BY DEF RefineInv, NodeInv, ConsensusTyped
<1>3. \A j \in Group \ Equivocators :
        CommitteeVotes'[j] = IF j = k THEN CommitteeVotes[j] \cup {data} ELSE CommitteeVotes[j]
  BY <1>2, MembersAre DEF CommitteeVotes, Members
<1>4. /\ CommitteeVotes = [j \in Group \ Equivocators |-> CommitteeVotes[j]]
      /\ CommitteeVotes' = [j \in Group \ Equivocators |-> CommitteeVotes'[j]]
  BY DEF CommitteeVotes
<1>5. CommitteeVotes' = [CommitteeVotes EXCEPT ![k] = @ \cup {data}]
  BY <1>3, <1>4
<1>6. VotesGrow
  BY <1>3 DEF VotesGrow, Members
<1> QED
  BY <1>1, <1>5, <1>6

(* The two instances of the standard module count alike. *)
LEMMA SameCount == \A S : Abstract!Cardinality(S) = Cardinality(S)
BY DEF Abstract!Cardinality, Cardinality, Abstract!IsFiniteSet, IsFiniteSet

(* A proof arrives, with the votes of the quorum behind it. *)
LEMMA QuorumVotes ==
  ASSUME RefineInv, NEW h \in Hash, ReceiveProof(h)
  PROVE  VotesGrow /\ \E Q \in SUBSET Group : Abstract!Certify(h, Q)
<1>1. PICK Q \in SUBSET Group :
        /\ Cardinality(Q) = Threshold
        /\ \A k \in Q : CanSign(k, h)
        /\ votes' = [k \in Honest |-> IF k \in Q THEN votes[k] \cup {h} ELSE votes[k]]
  BY DEF ReceiveProof
<1>2. signed' = signed /\ proofs' = proofs \cup {h}
  BY DEF ReceiveProof, trackerVars, AddToPool
<1>3. \A k \in Q \cap Own : h \in CommitteeVotes[k]
  <2> SUFFICES ASSUME NEW k \in Q \cap Own PROVE h \in CommitteeVotes[k]
    OBVIOUS
  <2>1. CanSign(k, h)
    BY <1>1
  <2>2. k \notin Equivocators /\ k \notin Honest
    BY NodeAssumption DEF Honest
  <2>3. PICK r \in 0 .. MaxRound : <<k, r, h>> \in signed
    BY <2>1, <2>2 DEF CanSign
  <2>4. <<k, r, h>>[1] = k /\ <<k, r, h>>[3] = h
    OBVIOUS
  <2> QED
    BY <2>3, <2>4, VotesOf
<1>4. \A k \in Q \ Equivocators : Abstract!MayVote(k, h)
  <2> SUFFICES ASSUME NEW k \in Q \ Equivocators PROVE Abstract!MayVote(k, h)
    OBVIOUS
  <2>1. k \in Group \ Equivocators
    OBVIOUS
  <2>2. CASE k \in Own
    BY <1>3, <2>1, <2>2 DEF RefineInv, VotesOnce, Abstract!MayVote
  <2>3. CASE k \in Honest
    <3>1. k \notin Own /\ k \notin Equivocators
      BY <2>3 DEF Honest
    <3>2. CanVote(k, h)
      BY <1>1, <2>3, <3>1 DEF CanSign
    <3> QED
      BY <2>3, <3>2, VotesOf DEF CanVote, Abstract!MayVote
  <2> QED
    BY <2>1, <2>2, <2>3, MembersAre DEF Members
<1>5. \A k \in Group \ Equivocators :
        CommitteeVotes'[k] = IF k \in Q THEN CommitteeVotes[k] \cup {h} ELSE CommitteeVotes[k]
  <2> SUFFICES ASSUME NEW k \in Group \ Equivocators
               PROVE  CommitteeVotes'[k] = IF k \in Q THEN CommitteeVotes[k] \cup {h}
                                           ELSE CommitteeVotes[k]
    OBVIOUS
  <2>1. CASE k \in Own
    <3>1. CommitteeVotes'[k] = CommitteeVotes[k]
      BY <1>2, <2>1 DEF CommitteeVotes
    <3> QED
      BY <1>3, <2>1, <3>1
  <2>2. CASE k \notin Own
    <3>1. k \in Honest
      BY <2>2 DEF Honest
    <3>2. CommitteeVotes'[k] = votes'[k] /\ CommitteeVotes[k] = votes[k]
      BY <2>2 DEF CommitteeVotes
    <3> QED
      BY <1>1, <3>1, <3>2
  <2> QED  BY <2>1, <2>2
<1>6. CommitteeVotes' = [k \in Group \ Equivocators |-> CommitteeVotes'[k]]
  BY DEF CommitteeVotes
<1>7. CommitteeVotes' = [k \in Group \ Equivocators |->
                           IF k \in Q THEN CommitteeVotes[k] \cup {h} ELSE CommitteeVotes[k]]
  BY <1>5, <1>6
<1>8. Cardinality(Q) >= Threshold
  BY <1>1, EvidenceAssumption, FS_CardinalityType
<1>9. Abstract!Certify(h, Q)
  BY <1>2, <1>4, <1>7, <1>8, SameCount DEF Abstract!Certify, Abstract!Members
<1>10. VotesGrow
  BY <1>5 DEF VotesGrow, Members
<1> QED
  BY <1>9, <1>10

(* A proof is made of shares that are backed by votes. *)
LEMMA BackedCertifies ==
  ASSUME RefineInv, NEW h \in Hash, NEW Q \in SUBSET Group,
         Cardinality(Q) >= Threshold, Backed(CommitteeVotes, Q, h),
         CommitteeVotes' = CommitteeVotes, proofs' = proofs \cup {h}
  PROVE  Abstract!Certify(h, Q)
<1>1. \A k \in Q \ Equivocators : Abstract!MayVote(k, h)
  BY DEF Backed, RefineInv, VotesOnce, Abstract!MayVote
<1>2. CommitteeVotes = [k \in Group \ Equivocators |-> CommitteeVotes[k]]
  BY DEF CommitteeVotes
<1>3. \A k \in Group \ Equivocators :
        CommitteeVotes[k] = IF k \in Q THEN CommitteeVotes[k] \cup {h} ELSE CommitteeVotes[k]
  BY DEF Backed
<1>4. CommitteeVotes' = [k \in Group \ Equivocators |->
                           IF k \in Q THEN CommitteeVotes[k] \cup {h} ELSE CommitteeVotes[k]]
  BY <1>2, <1>3
<1> QED
  BY <1>1, <1>4, SameCount DEF Abstract!Certify, Abstract!Members

(* The abstract step keeps one vote per round and member. *)
LEMMA OncePerRound ==
  ASSUME VotesOnce, [Abstract!Next]_(Abstract!committeeVars)
  PROVE  VotesOnce'
<1>1. CASE UNCHANGED Abstract!committeeVars
  BY <1>1 DEF VotesOnce, Abstract!committeeVars
<1>2. ASSUME NEW k \in Group \ Equivocators, NEW h \in Hash, Abstract!Vote(k, h) PROVE VotesOnce'
  <2>1. \A j \in Group \ Equivocators :
          CommitteeVotes'[j] = IF j = k THEN CommitteeVotes[j] \cup {h} ELSE CommitteeVotes[j]
    BY <1>2 DEF Abstract!Vote, CommitteeVotes
  <2>2. \A g \in CommitteeVotes[k] : RoundOf[g] = RoundOf[h] => g = h
    BY <1>2 DEF Abstract!Vote, Abstract!MayVote
  <2> QED
    BY <2>1, <2>2 DEF VotesOnce
<1>3. ASSUME NEW h \in Hash, NEW Q \in SUBSET Group, Abstract!Certify(h, Q) PROVE VotesOnce'
  <2>1. \A j \in Group \ Equivocators :
          CommitteeVotes'[j] = IF j \in Q THEN CommitteeVotes[j] \cup {h} ELSE CommitteeVotes[j]
    BY <1>3 DEF Abstract!Certify, Abstract!Members
  <2>2. \A j \in Q \ Equivocators : \A g \in CommitteeVotes[j] : RoundOf[g] = RoundOf[h] => g = h
    BY <1>3 DEF Abstract!Certify, Abstract!MayVote
  <2> QED
    BY <2>1, <2>2 DEF VotesOnce
<1> QED
  BY <1>1, <1>2, <1>3 DEF Abstract!Next, Abstract!Members

-----------------------------------------------------------------------------
(* The strengthening, part by part.                                        *)

LEMMA HashRounds == \A h \in Hash : RoundOf[h] \in Nat
BY EvidenceAssumption

LEMMA TimelyStep ==
  ASSUME MaxStepBack = 0, RefineInv, [NodeNext]_nodeVars
  PROVE  Timely'
<1>1. /\ index \in Nat /\ top = index
      /\ data \in Hash \cup {NoHash} /\ rh \in Hash \cup {NoHash}
  BY DEF RefineInv, NodeInv, SignInv, ClockInv, ConsensusTyped
<1>2. ASSUME UNCHANGED <<index, data, rh, blockDone, signed>>,
             pc' \in LatePcs => pc \in LatePcs,
             pc' \notin {"before", "start"} => pc \notin {"before", "start"}
      PROVE  Timely'
  BY <1>2 DEF RefineInv, Timely
<1>3. CASE UpdateRound
  <2>1. /\ index' \in Nat /\ index' > index
        /\ pc' = "start" /\ UNCHANGED <<data, rh, blockDone, signed>>
    BY <1>1, <1>3 DEF UpdateRound, stateVars, trackerVars
  <2>2. \A h \in Hash : RoundOf[h] <= index => RoundOf[h] <= index'
    BY <1>1, <2>1, HashRounds
  <2> QED
    BY <1>1, <2>1, <2>2 DEF RefineInv, Timely, LatePcs, VotePcs, EndPcs
<1>4. CASE doStartRoundJob
  <2>1. /\ UNCHANGED <<index, rh, signed>> /\ data' = NoHash /\ blockDone' = FALSE
        /\ pc' \in {"blockJob", "before"}
    BY <1>4 DEF doStartRoundJob, trackerVars
  <2> QED
    BY <2>1 DEF RefineInv, Timely, LatePcs, VotePcs, EndPcs
<1>5. CASE SendBlock
  <2>1. /\ UNCHANGED <<index, rh, signed>> /\ pc = "propose" /\ pc' = "block"
        /\ \/ UNCHANGED <<data, blockDone>>
           \/ data' \in Hash /\ RoundOf[data'] = index
    BY <1>5 DEF SendBlock, vars, trackerVars
  <2>2. RoundOf[data'] = index => RoundOf[data'] <= index'
    BY <1>1, <2>1
  <2> QED
    BY <2>1, <2>2, NoHashIsNone DEF RefineInv, Timely, LatePcs, VotePcs, EndPcs
<1>6. ASSUME NEW h \in Hash, receivedBlockHeader(h) PROVE Timely'
  <2>1. UNCHANGED <<index, data, blockDone, signed, pc>> /\ rh' = h /\ RoundOf[h] = index
    BY <1>6 DEF receivedBlockHeader, vars, stateVars, trackerVars, chronologyVars
  <2>2. RoundOf[h] <= index
    BY <1>1, <2>1
  <2> QED
    BY <2>1, <2>2 DEF RefineInv, Timely
<1>7. CASE SetDataIfNotSet
  <2>1. /\ UNCHANGED <<index, blockDone, signed, pc>> /\ rh # NoHash /\ rh' = NoHash
        /\ data' = IF data = NoHash THEN rh ELSE data
    BY <1>7 DEF SetDataIfNotSet, vars, trackerVars, chronologyVars
  <2> QED
    BY <2>1 DEF RefineInv, Timely
<1>8. CASE processReceivedBlock
  <2>1. /\ UNCHANGED <<index, data, rh, signed, pc>> /\ pc \in {"blockJob", "block"}
        /\ data # NoHash /\ RoundOf[data] >= index
    BY <1>8 DEF processReceivedBlock, vars, trackerVars, chronologyVars
  <2>2. RoundOf[data] = index
    BY <1>1, <2>1, HashRounds DEF RefineInv, Timely
  <2> QED
    BY <2>1, <2>2 DEF RefineInv, Timely, LatePcs, VotePcs, EndPcs
<1>9. CASE doBlockConsensusCheck
  <2>1. UNCHANGED <<index, data, rh, signed, blockDone>> /\ pc = "block" /\ blockDone
    BY <1>9 DEF doBlockConsensusCheck, vars, trackerVars
  <2> QED
    BY <2>1 DEF RefineInv, Timely
<1>10. ASSUME NEW k \in Own, sendSignatureForKey(k) PROVE Timely'
  <2>1. /\ UNCHANGED <<index, data, rh, blockDone, pc>> /\ pc = "sign"
        /\ signed' = signed \/ signed' = signed \cup {<<k, index, data>>}
    BY <1>10 DEF sendSignatureForKey, vars, stateVars, trackerVars, chronologyVars
  <2>2. RoundOf[data] = index
    BY <2>1 DEF RefineInv, Timely, LatePcs, VotePcs
  <2>3. \A s \in signed' : RoundOf[s[3]] = s[2]
    <3> DEFINE t == <<k, index, data>>
    <3>1. t[2] = index /\ t[3] = data
      OBVIOUS
    <3> HIDE DEF t
    <3>2. signed' = signed \/ signed' = signed \cup {t}
      BY <2>1 DEF t
    <3> QED
      BY <2>2, <3>1, <3>2 DEF RefineInv, Timely
  <2> QED
    BY <2>1, <2>3 DEF RefineInv, Timely
<1>11. CASE \/ doBlockJob \/ doSignatureJob \/ CheckSigned \/ waitForPreviousBlockProof
            \/ doSignatureConsensusCheck \/ Extend
  <2>1. /\ UNCHANGED <<index, data, rh, blockDone, signed>>
        /\ pc' \in LatePcs => pc \in LatePcs
        /\ pc \notin {"before", "start"}
    BY <1>11 DEF doBlockJob, doSignatureJob, CheckSigned, waitForPreviousBlockProof,
         doSignatureConsensusCheck, Extend, vars, stateVars, trackerVars, LatePcs, VotePcs, EndPcs
  <2> QED  BY <1>2, <2>1
<1>12. CASE \/ doEndRoundJob \/ EndCollect \/ EndVerify \/ computeAggSigOnValidNodes
            \/ createAndBroadcastProof \/ finalizeConfirmedBlock
  <2>1. /\ UNCHANGED <<index, data, rh, blockDone, signed>>
        /\ pc \in LatePcs /\ pc \notin {"before", "start"}
    BY <1>12 DEF doEndRoundJob, EndCollect, EndVerify, computeAggSigOnValidNodes,
         createAndBroadcastProof, finalizeConfirmedBlock, vars, stateVars, trackerVars,
         LatePcs, VotePcs, EndPcs
  <2> QED  BY <1>2, <2>1
<1>13. CASE \/ commitBlock
            \/ \E h \in Hash : receivedProof(h) \/ ReceiveProof(h) \/ SyncBlock(h)
            \/ \E k \in Group : receivedSignature(k)
            \/ \E e \in EvId : trySelfAssembleProof(e)
            \/ UNCHANGED nodeVars
  <2>1. UNCHANGED <<index, data, rh, blockDone, signed, pc>>
    BY <1>13 DEF commitBlock, receivedProof, ReceiveProof, SyncBlock, receivedSignature,
         trySelfAssembleProof, AssembleStart, AssembleAggregate, AssembleAdd, nodeVars, vars,
         stateVars, trackerVars, chronologyVars
  <2> QED  BY <1>2, <2>1
<1> QED
  BY <1>3, <1>4, <1>5, <1>6, <1>7, <1>8, <1>9, <1>10, <1>11, <1>12, <1>13 DEF NodeNext

LEMMA SequencedStep ==
  ASSUME RefineInv, [NodeNext]_nodeVars
  PROVE  Sequenced'
<1>1. ASSUME UNCHANGED <<data, shares>>,
             pc' \in EarlyPcs => pc \in EarlyPcs /\ ("block" \in status' => "block" \in status)
      PROVE  Sequenced'
  BY <1>1 DEF RefineInv, Sequenced
<1>2. CASE UpdateRound
  <2>1. UNCHANGED <<data, shares>> /\ pc' \notin EarlyPcs
    BY <1>2 DEF UpdateRound, stateVars, shareVars, EarlyPcs
  <2> QED  BY <1>1, <2>1
<1>3. CASE doStartRoundJob
  <2>1. shares' = {} /\ (pc' \in EarlyPcs => status' = {"start"})
    BY <1>3 DEF doStartRoundJob, EarlyPcs
  <2> QED  BY <2>1 DEF Sequenced
<1>4. CASE SendBlock
  <2>1. UNCHANGED <<shares, status>> /\ pc \in EarlyPcs
    BY <1>4 DEF SendBlock, shareVars, EarlyPcs
  <2> QED  BY <2>1 DEF RefineInv, Sequenced
<1>5. CASE SetDataIfNotSet
  <2>1. UNCHANGED <<shares, status, pc>> /\ (data' = NoHash => data = NoHash)
    BY <1>5 DEF SetDataIfNotSet, shareVars, chronologyVars
  <2> QED  BY <2>1 DEF RefineInv, Sequenced
<1>6. CASE \/ doBlockJob \/ processReceivedBlock \/ doBlockConsensusCheck \/ doSignatureJob
           \/ CheckSigned \/ waitForPreviousBlockProof \/ doSignatureConsensusCheck \/ Extend
           \/ \E h \in Hash : receivedBlockHeader(h)
  BY <1>1, <1>6 DEF doBlockJob, processReceivedBlock, doBlockConsensusCheck, doSignatureJob,
       CheckSigned, waitForPreviousBlockProof, doSignatureConsensusCheck, Extend,
       receivedBlockHeader, stateVars, shareVars, chronologyVars, EarlyPcs
<1>7. ASSUME NEW k \in Own, sendSignatureForKey(k) PROVE Sequenced'
  <2>1. UNCHANGED <<data, status, pc>> /\ pc = "sign"
    BY <1>7 DEF sendSignatureForKey, stateVars, chronologyVars
  <2>2. data # NoHash
    BY <2>1 DEF RefineInv, NodeInv, ConsensusTyped, VotePcs
  <2> QED  BY <2>1, <2>2 DEF Sequenced, EarlyPcs
<1>8. ASSUME NEW k \in Group, receivedSignature(k) PROVE Sequenced'
  <2>1. UNCHANGED <<data, status, pc>> /\ data # NoHash /\ "block" \in status
    BY <1>8 DEF receivedSignature, stateVars, chronologyVars
  <2> QED  BY <2>1 DEF RefineInv, Sequenced
<1>9. CASE EndVerify
  <2>1. data' = data /\ data # NoHash /\ pc' \notin EarlyPcs
    BY <1>9 DEF EndVerify, stateVars, EarlyPcs, RefineInv, NodeInv, ConsensusTyped, VotePcs, EndPcs
  <2> QED  BY <2>1 DEF Sequenced
<1>10. CASE \/ doEndRoundJob \/ EndCollect \/ computeAggSigOnValidNodes
            \/ createAndBroadcastProof \/ finalizeConfirmedBlock
  <2>1. UNCHANGED <<data, shares>> /\ pc' \notin EarlyPcs
    BY <1>10 DEF doEndRoundJob, EndCollect, computeAggSigOnValidNodes,
         createAndBroadcastProof, finalizeConfirmedBlock, stateVars, shareVars, EarlyPcs
  <2> QED  BY <1>1, <2>1
<1>11. CASE \/ \E h \in Hash : receivedProof(h) \/ ReceiveProof(h) \/ SyncBlock(h)
            \/ \E e \in EvId : trySelfAssembleProof(e)
            \/ UNCHANGED nodeVars
  <2>1. UNCHANGED <<data, shares, pc, status>>
    BY <1>11 DEF receivedProof, ReceiveProof, SyncBlock,
         trySelfAssembleProof, nodeVars, stateVars, shareVars, chronologyVars
  <2> QED  BY <1>1, <2>1
<1>12. CASE commitBlock
  <2>1. UNCHANGED <<data, shares, pc>> /\ status' \in {status, status \cup {"end"}}
    BY <1>12 DEF commitBlock, shareVars, chronologyVars
  <2>2. "block" \in status' => "block" \in status
    BY <2>1
  <2> QED  BY <1>1, <2>1, <2>2
<1> QED
  BY <1>2, <1>3, <1>4, <1>5, <1>6, <1>7, <1>8, <1>9, <1>10, <1>11, <1>12 DEF NodeNext

(* Every step of the node is a step of Committee, or none. *)
LEMMA VotingStep ==
  ASSUME RefineInv, [NodeNext]_nodeVars, Faulty = {}
  PROVE  VotesGrow /\ [Abstract!Next]_(Abstract!committeeVars)
<1>1. ASSUME UNCHANGED <<signed, votes, proofs>>
      PROVE  VotesGrow /\ [Abstract!Next]_(Abstract!committeeVars)
  BY <1>1, VotesSame DEF Abstract!committeeVars
<1>2. ASSUME NEW k \in Group \ Equivocators, data \in Hash, proofs' = proofs,
             Abstract!MayVote(k, data),
             CommitteeVotes' = [CommitteeVotes EXCEPT ![k] = @ \cup {data}]
      PROVE  Abstract!Next
  BY <1>2 DEF Abstract!Next, Abstract!Vote, Abstract!Members
<1>3. ASSUME NEW h \in Hash, NEW Q \in SUBSET Group, Abstract!Certify(h, Q)
      PROVE  Abstract!Next
  BY <1>3 DEF Abstract!Next
<1>4. ASSUME NEW k \in Own, sendSignatureForKey(k)
      PROVE  VotesGrow /\ [Abstract!Next]_(Abstract!committeeVars)
  <2>1. /\ UNCHANGED <<votes, proofs>> /\ pc = "sign"
        /\ signed' = signed \/ signed' = signed \cup {<<k, index, data>>}
    BY <1>4 DEF sendSignatureForKey, vars, trackerVars
  <2>2. CASE signed' = signed
    BY <1>1, <2>1, <2>2
  <2>3. CASE signed' = signed \cup {<<k, index, data>>}
    <3>1. data \in Hash /\ RoundOf[data] = index
      BY <2>1 DEF RefineInv, Timely, NodeInv, ConsensusTyped, LatePcs, VotePcs
    <3>2. SignInv'
      BY <1>4, SignInvSign DEF RefineInv, NodeInv
    <3>3. /\ Abstract!MayVote(k, data)
          /\ CommitteeVotes' = [CommitteeVotes EXCEPT ![k] = @ \cup {data}]
          /\ VotesGrow
      BY <2>1, <2>3, <3>1, <3>2, OwnVote
    <3>4. k \in Group \ Equivocators
      BY NodeAssumption
    <3> QED
      BY <1>2, <2>1, <3>1, <3>3, <3>4
  <2> QED  BY <2>1, <2>2, <2>3
<1>5. ASSUME NEW k \in Group, receivedSignature(k)
      PROVE  VotesGrow /\ [Abstract!Next]_(Abstract!committeeVars)
  <2>1. UNCHANGED <<signed, proofs>>
    BY <1>5 DEF receivedSignature, vars, trackerVars
  <2>2. CASE votes' = votes
    BY <1>1, <2>1, <2>2
  <2>3. CASE k \in Honest /\ CanVote(k, data) /\ votes' = [votes EXCEPT ![k] = @ \cup {data}]
    <3>1. data \in Hash
      BY <1>5 DEF receivedSignature, RefineInv, NodeInv, ConsensusTyped
    <3>2. /\ Abstract!MayVote(k, data)
          /\ CommitteeVotes' = [CommitteeVotes EXCEPT ![k] = @ \cup {data}]
          /\ VotesGrow
      BY <2>1, <2>3, OtherVote
    <3>3. k \in Group \ Equivocators
      BY <2>3 DEF Honest
    <3> QED
      BY <1>2, <2>1, <3>1, <3>2, <3>3
  <2> QED
    BY <1>5, <2>2, <2>3 DEF receivedSignature
<1>6. CASE createAndBroadcastProof
  <2>1. UNCHANGED <<signed, votes>> /\ pc = "endAdd"
    BY <1>6 DEF createAndBroadcastProof, trackerVars
  <2>2. CASE proofs' = proofs
    BY <1>1, <2>1, <2>2
  <2>3. CASE proofs' = proofs \cup {data}
    <3>1. data \in Hash
      BY <2>1 DEF RefineInv, NodeInv, ConsensusTyped, VotePcs, EndPcs
    <3>2. /\ Cardinality(sigs.keys) >= Threshold /\ Backed(CommitteeVotes, sigs.keys, data)
          /\ sigs.keys \in SUBSET Group
      BY <2>1 DEF RefineInv, MadeInv, SharesBacked
    <3>3. CommitteeVotes' = CommitteeVotes /\ VotesGrow
      BY <2>1, VotesSame
    <3>4. Abstract!Certify(data, sigs.keys)
      BY <2>3, <3>1, <3>2, <3>3, BackedCertifies
    <3> QED
      BY <1>3, <3>1, <3>2, <3>3, <3>4
  <2> QED
    BY <1>6, <2>2, <2>3 DEF createAndBroadcastProof, AddToPool, proofVars
<1>7. ASSUME NEW e \in EvId, trySelfAssembleProof(e)
      PROVE  VotesGrow /\ [Abstract!Next]_(Abstract!committeeVars)
  <2>1. UNCHANGED <<signed, votes>>
    BY <1>7 DEF trySelfAssembleProof, trackerVars
  <2>2. CASE proofs' = proofs
    BY <1>1, <2>1, <2>2
  <2>3. CASE proofs' = proofs \cup {evs[e].hash} /\ evs[e] # Free /\ evs[e].asm = "add"
    <3>1. e \in Live(evs) /\ Busy(evs[e])
      BY <2>3 DEF Live, Busy
    <3>2. evs[e] \in roundSignatureEvidence
      BY <3>1 DEF RefineInv, NodeInv, EvidenceInv, HeapOK
    <3>3. evs[e].hash \in Hash /\ evs[e].shares \in SUBSET Group
      BY <3>2 DEF roundSignatureEvidence
    <3>4. /\ Cardinality(evs[e].shares) >= Threshold
          /\ Backed(CommitteeVotes, evs[e].shares, evs[e].hash)
      BY <3>1 DEF RefineInv, EvidenceBacked, getCount
    <3>5. CommitteeVotes' = CommitteeVotes /\ VotesGrow
      BY <2>1, VotesSame
    <3>6. Abstract!Certify(evs[e].hash, evs[e].shares)
      BY <2>3, <3>3, <3>4, <3>5, BackedCertifies
    <3> QED
      BY <1>3, <3>3, <3>5, <3>6
  <2> QED
    BY <1>7, <2>2, <2>3 DEF trySelfAssembleProof, AssembleStart, AssembleAggregate, AssembleAdd
<1>8. ASSUME NEW h \in Hash, ReceiveProof(h)
      PROVE  VotesGrow /\ [Abstract!Next]_(Abstract!committeeVars)
  BY <1>3, <1>8, QuorumVotes
<1>9. CASE \/ UpdateRound \/ doStartRoundJob \/ doBlockJob \/ SendBlock \/ SetDataIfNotSet
           \/ processReceivedBlock \/ doBlockConsensusCheck \/ doSignatureJob \/ CheckSigned
           \/ waitForPreviousBlockProof \/ doSignatureConsensusCheck \/ Extend
  <2>1. UNCHANGED <<signed, votes, proofs>>
    BY <1>9 DEF UpdateRound, doStartRoundJob, doBlockJob, SendBlock, SetDataIfNotSet,
         processReceivedBlock, doBlockConsensusCheck, doSignatureJob, CheckSigned,
         waitForPreviousBlockProof, doSignatureConsensusCheck, Extend, vars, trackerVars
  <2> QED  BY <1>1, <2>1
<1>10. CASE \/ doEndRoundJob \/ EndCollect \/ EndVerify \/ computeAggSigOnValidNodes
            \/ finalizeConfirmedBlock \/ commitBlock
            \/ \E h \in Hash : receivedBlockHeader(h) \/ receivedProof(h) \/ SyncBlock(h)
            \/ UNCHANGED nodeVars
  <2>1. UNCHANGED <<signed, votes, proofs>>
    BY <1>10 DEF doEndRoundJob, EndCollect, EndVerify, computeAggSigOnValidNodes,
         finalizeConfirmedBlock, commitBlock, receivedBlockHeader, receivedProof, SyncBlock,
         nodeVars, vars, trackerVars
  <2> QED  BY <1>1, <2>1
<1> QED
  BY <1>4, <1>5, <1>6, <1>7, <1>8, <1>9, <1>10 DEF NodeNext

(* No share is invalid, in the consensus state or in a snapshot, and every *)
(* snapshot is backed; goroutines run on quorums only.                     *)
LEMMA EvidenceBackedStep ==
  ASSUME RefineInv, [NodeNext]_nodeVars, Faulty = {}
  PROVE  Clean' /\ EvidenceBacked'
<1>1. HeapOK(evs) /\ SlotsLive(evs, previous, retained)
  BY SlotsAreLive DEF RefineInv, NodeInv, EvidenceInv
<1>2. VotesGrow
  BY VotingStep
<1>3. \A e \in Live(evs) : evs[e].shares \in SUBSET Group
  BY <1>1 DEF HeapOK, roundSignatureEvidence
<1>4. \A e \in Live(evs) : /\ evs[e].bad = {}
                           /\ Backed(CommitteeVotes', evs[e].shares, evs[e].hash)
                           /\ Busy(evs[e]) => Cardinality(evs[e].shares) >= Threshold
  BY <1>2, <1>3, BackedGrows DEF RefineInv, EvidenceBacked, Clean, getCount
<1>5. ASSUME Inherits(evs, evs'), bad' = {} PROVE Clean' /\ EvidenceBacked'
  <2>1. \A e \in Live(evs') : /\ evs'[e].bad = {}
                              /\ Backed(CommitteeVotes', evs'[e].shares, evs'[e].hash)
                              /\ Busy(evs'[e]) => Cardinality(evs'[e].shares) >= Threshold
    BY <1>4, <1>5 DEF Inherits
  <2>2. Live(evs)' = Live(evs')
    BY DEF Live
  <2> QED
    BY <1>5, <2>1, <2>2 DEF Clean, EvidenceBacked, getCount
<1>6. bad = {}
  BY DEF RefineInv, Clean
<1>7. ASSUME evs' = evs, bad' = {} PROVE Clean' /\ EvidenceBacked'
  BY <1>5, <1>7 DEF Inherits
<1>8. ASSUME NEW S \in SUBSET Live(evs), \A e \in S : getCount(evs, e) >= Threshold,
             evs' = Launch(evs, S), bad' = {}
      PROVE  Clean' /\ EvidenceBacked'
  <2>1. /\ Live(evs') = Live(evs)
        /\ \A e \in Live(evs) : SameShares(evs, evs', e)
    BY <1>1, <1>8, LaunchKeeps DEF SameShares
  <2>2. \A e \in Live(evs) \ S : evs'[e] = evs[e]
    BY <1>8 DEF Launch, Live
  <2>3. \A e \in Live(evs') : /\ evs'[e].bad = {}
                              /\ Backed(CommitteeVotes', evs'[e].shares, evs'[e].hash)
    BY <1>4, <2>1 DEF SameShares
  <2>4. \A e \in Live(evs') : Busy(evs'[e]) => Cardinality(evs'[e].shares) >= Threshold
    <3> SUFFICES ASSUME NEW e \in Live(evs'), Busy(evs'[e])
                 PROVE  Cardinality(evs'[e].shares) >= Threshold
      OBVIOUS
    <3>1. e \in Live(evs) /\ evs'[e].shares = evs[e].shares
      BY <2>1 DEF SameShares
    <3>2. CASE e \in S
      BY <1>8, <3>1, <3>2 DEF getCount
    <3>3. CASE e \notin S
      BY <1>4, <2>2, <3>1, <3>3
    <3> QED  BY <3>2, <3>3
  <2>5. Live(evs)' = Live(evs')
    BY DEF Live
  <2> QED
    BY <1>8, <2>3, <2>4, <2>5 DEF Clean, EvidenceBacked, getCount
<1>9. CASE doStartRoundJob
  <2> DEFINE hs == {data} \ {NoHash}
  <2>1. captureSignatureEvidence(roundIndex, hs, shares, bad) /\ bad' = {}
    BY <1>9 DEF doStartRoundJob
  <2>2. /\ roundIndex \in Nat /\ hs \in SUBSET Hash /\ shares \in SUBSET Group /\ bad \in SUBSET shares
    BY DEF RefineInv, NodeInv, ConsensusTyped
  <2>3. \A h \in hs : Backed(CommitteeVotes', shares, h)
    BY <1>2, <2>2, BackedGrows DEF RefineInv, SharesBacked
  <2> HIDE DEF hs
  <2>4. Captured(roundIndex, hs, shares, bad)
    BY <1>1, <2>1, <2>2, CaptureKeeps
  <2>5. \A e \in Live(evs') : /\ evs'[e].bad = {}
                              /\ Backed(CommitteeVotes', evs'[e].shares, evs'[e].hash)
    BY <1>4, <1>6, <2>3, <2>4 DEF Captured, SameShares
  <2>6. \A e \in Live(evs') : Busy(evs'[e]) => Cardinality(evs'[e].shares) >= Threshold
    <3> SUFFICES ASSUME NEW e \in Live(evs'), Busy(evs'[e])
                 PROVE  Cardinality(evs'[e].shares) >= Threshold
      OBVIOUS
    <3>1. CASE getCount(evs', e) >= Threshold
      BY <3>1 DEF getCount
    <3>2. CASE e \in Live(evs) /\ Busy(evs[e])
      <4>1. evs'[e].shares = evs[e].shares
        BY <2>4, <3>2 DEF Captured, SameShares
      <4> QED  BY <1>4, <3>2, <4>1
    <3> QED  BY <2>4, <3>1, <3>2 DEF Captured
  <2>7. Live(evs)' = Live(evs')
    BY DEF Live
  <2> QED
    BY <2>1, <2>5, <2>6, <2>7 DEF Clean, EvidenceBacked, getCount
<1>10. CASE doBlockJob
  <2>1. bad' = {}
    BY <1>6, <1>10 DEF doBlockJob, shareVars
  <2>2. \E S : /\ evs' = Launch(evs, S)
               /\ S = {} \/ S = hasQuorumEvidenceForCompetingBlock
    BY <1>10 DEF doBlockJob
  <2>3. /\ hasQuorumEvidenceForCompetingBlock \subseteq Live(evs)
        /\ \A e \in hasQuorumEvidenceForCompetingBlock : getCount(evs, e) >= Threshold
    BY <1>1 DEF hasQuorumEvidenceForCompetingBlock, QuorumEvidence, EvidenceFor,
                GetPreviousRoundEvidence, GetRetainedQuorumEvidence, SlotsLive
  <2> QED
    BY <1>8, <2>1, <2>2, <2>3
<1>11. CASE doSignatureJob
  <2>1. bad' = {}
    BY <1>6, <1>11 DEF doSignatureJob, shareVars
  <2>2. CASE evs' = evs
    BY <1>7, <2>1, <2>2
  <2>3. CASE evs' = Launch(evs, CompetingEvidence) /\ EvidenceTier(CompetingEvidence) = "refuse"
    <3>1. CompetingEvidence \subseteq Live(evs)
      BY <1>1 DEF CompetingEvidence, EvidenceFor,
                  GetPreviousRoundEvidence, GetRetainedQuorumEvidence, SlotsLive
    <3>2. \A e, f \in CompetingEvidence : e = f
      BY DEF CompetingEvidence, EvidenceFor, GetPreviousRoundEvidence, GetRetainedQuorumEvidence
    <3>3. \E e \in CompetingEvidence : getCount(evs, e) >= Threshold
      BY <2>3 DEF EvidenceTier
    <3> QED
      BY <1>8, <2>1, <2>3, <3>1, <3>2, <3>3
  <2> QED
    BY <1>11, <2>2, <2>3 DEF doSignatureJob
<1>12. ASSUME NEW e \in EvId, trySelfAssembleProof(e) PROVE Clean' /\ EvidenceBacked'
  <2>1. PICK refused \in BOOLEAN :
          \/ AssembleStart(e, TRUE, refused)
          \/ AssembleAggregate(e)
          \/ AssembleAdd(e, refused)
    <3>1. ShouldRefuseCompetingParent \in BOOLEAN
      BY DEF ShouldRefuseCompetingParent
    <3> QED
      BY <1>12, <3>1 DEF trySelfAssembleProof
  <2>2. Inherits(evs, evs')
    BY <1>1, <1>4, <2>1, AssembleInherits
  <2>3. bad' = {}
    BY <1>6, <1>12 DEF trySelfAssembleProof, shareVars
  <2> QED
    BY <1>5, <2>2, <2>3
<1>13. ASSUME NEW k \in Group, receivedSignature(k) PROVE Clean' /\ EvidenceBacked'
  <2>1. evs' = evs /\ bad' = {}
    BY <1>6, <1>13 DEF receivedSignature, vars, evidenceVars
  <2> QED  BY <1>7, <2>1
<1>14. CASE \/ UpdateRound \/ SendBlock \/ SetDataIfNotSet
            \/ processReceivedBlock \/ doBlockConsensusCheck \/ CheckSigned
            \/ waitForPreviousBlockProof \/ doSignatureConsensusCheck \/ Extend
            \/ \E k \in Own : sendSignatureForKey(k)
            \/ \E h \in Hash : receivedBlockHeader(h)
  <2>1. evs' = evs /\ bad' = {}
    BY <1>6, <1>14 DEF UpdateRound, SendBlock, SetDataIfNotSet, processReceivedBlock,
         doBlockConsensusCheck, CheckSigned, waitForPreviousBlockProof,
         doSignatureConsensusCheck, Extend, sendSignatureForKey, receivedBlockHeader,
         vars, evidenceVars, shareVars
  <2> QED  BY <1>7, <2>1
<1>15. CASE \/ doEndRoundJob \/ EndCollect \/ EndVerify \/ computeAggSigOnValidNodes
            \/ createAndBroadcastProof \/ finalizeConfirmedBlock \/ commitBlock
            \/ \E h \in Hash : receivedProof(h) \/ ReceiveProof(h) \/ SyncBlock(h)
            \/ UNCHANGED nodeVars
  <2>1. evs' = evs /\ bad' = {}
    BY <1>6, <1>15 DEF doEndRoundJob, EndCollect, EndVerify, computeAggSigOnValidNodes,
         createAndBroadcastProof, finalizeConfirmedBlock, commitBlock, receivedProof,
         ReceiveProof, SyncBlock, nodeVars, vars, evidenceVars, shareVars
  <2> QED  BY <1>7, <2>1
<1> QED
  BY <1>9, <1>10, <1>11, <1>12, <1>13, <1>14, <1>15 DEF NodeNext

(* The shares marked as done, and the ones being aggregated, are backed. *)
LEMMA SharesBackedStep ==
  ASSUME RefineInv, [NodeNext]_nodeVars, Faulty = {}
  PROVE  SharesBacked'
<1>1. VotesGrow
  BY VotingStep
<1>2. shares \in SUBSET Group
  BY DEF RefineInv, NodeInv, ConsensusTyped
<1>3. data # NoHash => Backed(CommitteeVotes', shares, data)
  BY <1>1, <1>2, BackedGrows DEF RefineInv, SharesBacked
<1>4. pc = "endAdd" => /\ sigs.keys \subseteq Group /\ Backed(CommitteeVotes', sigs.keys, data)
                       /\ data # NoHash
  BY <1>1, BackedGrows DEF RefineInv, SharesBacked, NodeInv, ConsensusTyped, VotePcs, EndPcs
<1>5. ASSUME UNCHANGED <<data, shares>>, pc' # "endAdd" \/ UNCHANGED <<pc, sigs>>
      PROVE  SharesBacked'
  BY <1>3, <1>4, <1>5 DEF SharesBacked
<1>6. CASE doStartRoundJob
  BY <1>6 DEF doStartRoundJob, SharesBacked
<1>7. CASE SendBlock
  <2>1. shares' = {} /\ pc' = "block"
    BY <1>7 DEF SendBlock, shareVars, RefineInv, Sequenced, EarlyPcs
  <2> QED  BY <2>1 DEF SharesBacked, Backed
<1>8. CASE SetDataIfNotSet
  <2>1. UNCHANGED <<shares, pc, sigs>> /\ data' = IF data = NoHash THEN rh ELSE data
    BY <1>8 DEF SetDataIfNotSet, shareVars, jobVars, chronologyVars
  <2>2. CASE data # NoHash
    BY <1>5, <2>1, <2>2
  <2>3. CASE data = NoHash
    <3>1. shares' = {} /\ pc' # "endAdd"
      BY <1>4, <2>1, <2>3 DEF RefineInv, Sequenced
    <3> QED  BY <3>1 DEF SharesBacked, Backed
  <2> QED  BY <2>2, <2>3
<1>9. ASSUME NEW k \in Own, sendSignatureForKey(k) PROVE SharesBacked'
  <2>1. /\ UNCHANGED <<data, pc, sigs, votes>> /\ pc = "sign"
        /\ \/ shares' = shares
           \/ shares' = shares \cup {k} /\ signed' = signed \cup {<<k, index, data>>}
    BY <1>9 DEF sendSignatureForKey, stateVars, chronologyVars
  <2>2. CASE shares' = shares
    BY <1>5, <2>1, <2>2
  <2>3. CASE shares' = shares \cup {k} /\ signed' = signed \cup {<<k, index, data>>}
    <3> DEFINE t == <<k, index, data>>
    <3>1. t \in signed' /\ t[1] = k /\ t[3] = data
      BY <2>3
    <3> HIDE DEF t
    <3>2. CommitteeVotes'[k] = {s[3] : s \in {u \in signed' : u[1] = k}}
      BY NodeAssumption DEF CommitteeVotes
    <3>3. data \in CommitteeVotes'[k]
      BY <3>1, <3>2
    <3>4. data # NoHash
      BY <2>1 DEF RefineInv, NodeInv, ConsensusTyped, VotePcs
    <3> QED
      BY <1>3, <2>1, <2>3, <3>3, <3>4 DEF SharesBacked, Backed
  <2> QED  BY <2>1, <2>2, <2>3
<1>10. ASSUME NEW k \in Group, receivedSignature(k) PROVE SharesBacked'
  <2>1. /\ UNCHANGED <<data, pc, sigs>> /\ shares' = shares \cup {k} /\ data # NoHash
        /\ k \in Equivocators \/ (k \in Honest /\ votes' = [votes EXCEPT ![k] = @ \cup {data}])
    BY <1>10 DEF receivedSignature, stateVars, chronologyVars, jobVars
  <2>2. k \in Honest => data \in CommitteeVotes'[k]
    <3> SUFFICES ASSUME k \in Honest PROVE data \in CommitteeVotes'[k]
      OBVIOUS
    <3>1. k \notin Equivocators /\ k \notin Own /\ votes \in [Honest -> SUBSET Hash]
      BY DEF Honest, RefineInv, NodeInv, ConsensusTyped
    <3>2. CommitteeVotes'[k] = votes'[k]
      BY <3>1 DEF CommitteeVotes
    <3> QED  BY <2>1, <3>1, <3>2
  <2>3. Backed(CommitteeVotes', shares', data)
    BY <1>3, <2>1, <2>2 DEF Backed
  <2> QED
    BY <1>4, <2>1, <2>3 DEF SharesBacked
<1>11. CASE EndCollect \/ computeAggSigOnValidNodes
  <2>1. UNCHANGED <<data, shares>> /\ data # NoHash
    BY <1>11 DEF EndCollect, computeAggSigOnValidNodes, stateVars, shareVars,
                 RefineInv, NodeInv, ConsensusTyped, VotePcs, EndPcs
  <2>2. pc' # "endAdd" \/ sigs'.keys = shares
    <3>1. CASE EndCollect
      BY <3>1 DEF EndCollect
    <3>2. CASE computeAggSigOnValidNodes
      <4>1. CASE data \notin proofs /\ areSignaturesCollected
        BY <3>2, <4>1 DEF computeAggSigOnValidNodes
      <4>2. CASE data \in proofs \/ ~areSignaturesCollected
        BY <3>2, <4>2 DEF computeAggSigOnValidNodes
      <4> QED  BY <4>1, <4>2
    <3> QED  BY <1>11, <3>1, <3>2
  <2> QED
    BY <1>2, <1>3, <2>1, <2>2 DEF SharesBacked
<1>12. CASE EndVerify
  <2>1. data' = data /\ shares' \subseteq shares /\ pc' # "endAdd"
    BY <1>12 DEF EndVerify, verifyNodesOnAggSigFail, stateVars
  <2> QED
    BY <1>3, <2>1 DEF SharesBacked, Backed
<1>13. CASE \/ UpdateRound \/ doBlockJob \/ processReceivedBlock \/ doBlockConsensusCheck
            \/ doSignatureJob \/ CheckSigned \/ waitForPreviousBlockProof
            \/ doSignatureConsensusCheck \/ Extend
            \/ \E h \in Hash : receivedBlockHeader(h)
  <2>1. UNCHANGED <<data, shares>> /\ (pc' # "endAdd" \/ UNCHANGED <<pc, sigs>>)
    BY <1>13 DEF UpdateRound, doBlockJob, processReceivedBlock, doBlockConsensusCheck,
         doSignatureJob, CheckSigned, waitForPreviousBlockProof, doSignatureConsensusCheck,
         Extend, receivedBlockHeader, stateVars, shareVars, jobVars, chronologyVars
  <2> QED  BY <1>5, <2>1
<1>14. CASE \/ doEndRoundJob \/ createAndBroadcastProof \/ finalizeConfirmedBlock \/ commitBlock
            \/ \E h \in Hash : receivedProof(h) \/ ReceiveProof(h) \/ SyncBlock(h)
            \/ \E e \in EvId : trySelfAssembleProof(e)
            \/ UNCHANGED nodeVars
  <2>1. UNCHANGED <<data, shares>> /\ (pc' # "endAdd" \/ UNCHANGED <<pc, sigs>>)
    BY <1>14 DEF doEndRoundJob, createAndBroadcastProof, finalizeConfirmedBlock, commitBlock,
         receivedProof, ReceiveProof, SyncBlock, trySelfAssembleProof, nodeVars,
         stateVars, shareVars, jobVars, chronologyVars
  <2> QED  BY <1>5, <2>1
<1> QED
  BY <1>6, <1>7, <1>8, <1>9, <1>10, <1>11, <1>12, <1>13, <1>14 DEF NodeNext

LEMMA RefineInvNext ==
  ASSUME MaxStepBack = 0, Faulty = {}, RefineInv, [NodeNext]_nodeVars
  PROVE  RefineInv'
<1>1. NodeInv' /\ MadeInv'
  BY NodeInvNext, MadeInvNext DEF RefineInv
<1>2. Timely' /\ Sequenced' /\ Clean' /\ EvidenceBacked' /\ SharesBacked'
  BY TimelyStep, SequencedStep, EvidenceBackedStep, SharesBackedStep
<1>3. VotesOnce'
  BY VotingStep, OncePerRound DEF RefineInv
<1> QED
  BY <1>1, <1>2, <1>3 DEF RefineInv

LEMMA RefineInvInit == NodeInit => RefineInv /\ Abstract!Init
<1> SUFFICES ASSUME NodeInit PROVE RefineInv /\ Abstract!Init
  OBVIOUS
<1>1. /\ pc = "before" /\ data = NoHash /\ rh = NoHash /\ blockDone = FALSE /\ shares = {}
      /\ bad = {} /\ signed = {} /\ made = {} /\ votes = [k \in Honest |-> {}]
      /\ proofs = {Genesis} /\ evs = [e \in EvId |-> Free]
  BY DEF NodeInit, EvidenceInit
<1>2. NodeInv /\ MadeInv
  BY <1>1, NodeInvInit DEF MadeInv, MadeHasQuorum
<1>3. Live(evs) = {}
  BY <1>1 DEF Live
<1>4. CommitteeVotes = [k \in Group \ Equivocators |-> {}]
  <2>1. \A k \in Group \ Equivocators : k \notin Own => votes[k] = {}
    BY <1>1 DEF Honest
  <2> QED
    BY <1>1, <2>1 DEF CommitteeVotes
<1>5. VotesOnce
  BY <1>4 DEF VotesOnce
<1>6. Timely /\ Clean /\ Sequenced /\ SharesBacked /\ EvidenceBacked
  BY <1>1, <1>3 DEF Timely, Clean, Sequenced, SharesBacked, EvidenceBacked, LatePcs, VotePcs,
                    EndPcs, EarlyPcs
<1> QED
  BY <1>1, <1>2, <1>4, <1>5, <1>6 DEF RefineInv, Abstract!Init, Abstract!Members

(* The node implements Committee, for every group, equivocators, leader    *)
(* schedule and interleaving of its goroutines, provided its clock does    *)
(* not step back and the shares it is sent are valid.                      *)
THEOREM NodeImplementsCommittee ==
  ASSUME MaxStepBack = 0, Faulty = {}
  PROVE  NodeSpec => ImplementsCommittee
<1>1. RefineInv /\ [NodeNext]_nodeVars => RefineInv'
  BY RefineInvNext
<1>2. RefineInv /\ [NodeNext]_nodeVars => [Abstract!Next]_(Abstract!committeeVars)
  BY VotingStep
<1> QED
  BY <1>1, <1>2, RefineInvInit, PTL DEF NodeSpec, ImplementsCommittee, Abstract!Spec

-----------------------------------------------------------------------------
(* What the group promises holds of the node's proofs pool.                *)

AbstractProofs == INSTANCE CommitteeProofs WITH votes <- CommitteeVotes, certs <- proofs

OneProofPerRound == \A g, h \in proofs : RoundOf[g] = RoundOf[h] => g = h

(* When any two quorums share a member that follows the protocol, the pool *)
(* of the node never holds proofs for two headers of a round, wherever the *)
(* proofs came from: its end round job, its evidence or the network.       *)
THEOREM PoolAgrees ==
  ASSUME MaxStepBack = 0, Faulty = {}, Equivocators \subseteq Group,
         2 * Threshold > Cardinality(Group) + Cardinality(Equivocators),
         \A h \in Hash : RoundOf[h] = RoundOf[Genesis] => h = Genesis
  PROVE  NodeSpec => []OneProofPerRound
<1>1. AbstractProofs!CommitteeAssumption
  <2>1. AbstractProofs!IsFiniteSet(Group)
    BY EvidenceAssumption DEF AbstractProofs!IsFiniteSet, IsFiniteSet
  <2> QED
    BY <2>1, EvidenceAssumption, NodeAssumption, FS_CardinalityType
<1>2. AbstractProofs!QuorumAssumption
  BY DEF AbstractProofs!Cardinality, Cardinality
<1>3. AbstractProofs!Spec => []AbstractProofs!Agreement
  BY <1>1, <1>2, AbstractProofs!CommitteeAgrees
<1>4. Abstract!Spec => AbstractProofs!Spec
  <2>1. Abstract!Init => AbstractProofs!Init
    BY DEF Abstract!Init, AbstractProofs!Init, Abstract!Members, AbstractProofs!Members
  <2>2. [Abstract!Next]_(Abstract!committeeVars) => [AbstractProofs!Next]_(AbstractProofs!committeeVars)
    BY DEF Abstract!Next, AbstractProofs!Next, Abstract!Members, AbstractProofs!Members,
           Abstract!Vote, AbstractProofs!Vote, Abstract!MayVote, AbstractProofs!MayVote,
           Abstract!Certify, AbstractProofs!Certify, Abstract!committeeVars,
           AbstractProofs!committeeVars, Abstract!Cardinality, AbstractProofs!Cardinality
  <2> QED
    BY <2>1, <2>2, PTL DEF Abstract!Spec, AbstractProofs!Spec
<1>5. AbstractProofs!Agreement => OneProofPerRound
  BY DEF AbstractProofs!Agreement, OneProofPerRound
<1> QED
  BY <1>3, <1>4, <1>5, NodeImplementsCommittee, PTL DEF ImplementsCommittee
=============================================================================
