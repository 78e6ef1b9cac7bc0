--------------------------- MODULE ConsensusNode ---------------------------
(***************************************************************************)
(* One validator node running the v2 (Andromeda/Supernova) BLS consensus   *)
(* (consensus/chronology, consensus/spos, consensus/spos/bls/v2) after     *)
(* Supernova activation, against every behaviour of the other members of   *)
(* the group, the leaders, the network and the clock.                      *)
(*                                                                         *)
(* The chronology goroutine runs the four subrounds; pc is its place.      *)
(* A job that fails leaves its subround waiting for its deadline, which    *)
(* cancels the round; that is one step here, to pc = "before".             *)
(* Messages, headers and proofs are handled by other goroutines: rh is a   *)
(* receivedBlockHeader call between its checks and SetDataIfNotSet, rp a   *)
(* receivedProof call between waitForProof and CommitBlock.  Deadlines are *)
(* not timed: whatever a timeout may cut short, may be cut short.          *)
(***************************************************************************)
EXTENDS SignatureEvidence

CONSTANTS Genesis,       \* hash of the head the node starts from
          PrevOf,        \* parent of the header with a hash
          Own,           \* keys of this node in the group (self or managed keys)
          Equivocators,  \* members whose votes obey no rule
          LeaderOf,      \* leader of each round
          MaxSkip,       \* bound on the rounds the clock advances at once
          MaxStepBack,   \* rounds a clock correction may go back below the highest round
          Retention,     \* roundsRetentionWindow
          IsMeta,        \* TRUE on the metachain
          Pooled         \* hashes whose headers the headers pool holds

ASSUME NodeAssumption ==
  /\ Genesis \in Hash
  /\ PrevOf \in [Hash -> Hash]
  /\ \A h \in Hash \ {Genesis} : NonceOf[h] = NonceOf[PrevOf[h]] + 1
  /\ Own \subseteq Group
  /\ Own # {}
  /\ Own \cap (Faulty \cup Equivocators) = {}
  /\ LeaderOf \in [1 .. MaxRound -> Group]
  /\ IsMeta \in BOOLEAN

(* Clock corrections stay inside the tracker's memory. *)
ASSUME ClockAssumption ==
  /\ MaxSkip \in Nat
  /\ MaxStepBack \in Nat
  /\ Retention \in Nat
  /\ MaxStepBack <= Retention

VARIABLES
  pc,            \* chronology: the step of the subround it is in
  top,           \* highest round index so far (history, bounds the clock)
  head,          \* Blockchain().GetCurrentBlockHeader(), its hash
  roundIndex,    \* consensusState.RoundIndex
  data,          \* consensusState.Data and Header: the hash voted on, or NoHash
  status,        \* finished subrounds
  blockDone,     \* the leader's SrBlock job is done
  canceled,      \* roundCanceled
  shares,        \* members whose SrSignature job is done
  bad,           \* those of shares whose signature is invalid
  todo,          \* own keys the signature job has still to handle
  waitHash,      \* hash whose proof the signature job waits for
  sigs,          \* what the end round job aggregated: [keys, bad]
  signedRounds,  \* sentSignaturesTracker: key -> round -> hash
  signedNonces,  \* sentSignaturesTracker: key -> nonce -> [hash, round]
  notify,        \* proofs whose subscribers have not run yet
  rp, rh,        \* the proof and the header goroutines
  votes,         \* honest other members: hashes they have signed
  signed,        \* history: <<own key, round index, hash>> signatures produced
  made,          \* history: proofs the end round job added to the pool
  lastQuorum     \* history: <<hash, round>> of the valid quorum the last StartRound saw

chronologyVars == <<pc, top>>
stateVars      == <<roundIndex, data, status, blockDone, canceled>>
shareVars      == <<shares, bad>>
jobVars        == <<todo, waitHash, sigs>>
trackerVars    == <<signedRounds, signedNonces, signed>>
proofVars      == <<proofs, notify>>

nodeVars == <<vars, chronologyVars, head, stateVars, shareVars, jobVars, trackerVars,
              notify, rp, rh, votes, made, lastQuorum>>

NoHash == -1

NoSigs == [keys |-> {}, bad |-> {}]

Honest == Group \ (Own \cup Equivocators)

EndPcs == {"endCollect", "endVerify", "endRecompute", "endAdd", "endProof"}

-----------------------------------------------------------------------------
(* The proofs pool and the head, as the subrounds read them.               *)

proofsAt(n) == {h \in proofs : NonceOf[h] = n}

ranksBefore(g, h) ==
  IF RoundOf[g] # RoundOf[h] THEN RoundOf[g] < RoundOf[h] ELSE g < h

IsLowest(h, S) == h \in S /\ \A g \in S \ {h} : ranksBefore(h, g)

(* Unknown ancestry counts as extending. *)
MayExtend(h, parent) == h \notin Pooled \/ PrevOf[h] = parent

HasProofForCompetingBlock ==
  LET at == proofsAt(NonceOf[head] + 1)
  IN /\ ~IsLowest(data, at)
     /\ \E h \in at \ {data} : MayExtend(h, head)

HasProofForCompetingParent ==
  \E h \in proofsAt(NonceOf[head]) :
    ranksBefore(h, head) /\ MayExtend(h, PrevOf[head])

ShouldRefuseCompetingParent == IsMeta /\ HasProofForCompetingParent

(* checkBlockValidity of CommitBlock. *)
CanCommit(h) ==
  /\ RoundOf[h] > RoundOf[head]
  /\ NonceOf[h] = NonceOf[head] + 1
  /\ PrevOf[h] = head

(* A proof enters the pool and its subscribers are called in goroutines. *)
AddToPool(h) ==
  /\ proofs' = proofs \cup {h}
  /\ notify' = IF h \in proofs THEN notify ELSE notify \cup {h}

-----------------------------------------------------------------------------
(* sentSignaturesTracker.                                                  *)

MutantReserved(k) == TRUE

CanReserve(k) ==
  index \in DOMAIN signedRounds[k] => signedRounds[k][index] = data

(* The slot of the round, older rounds beyond the retention window dropped. *)
ReserveSignatureInRound(k) ==
  LET old == signedRounds[k]
  IN IF index \in DOMAIN old
       THEN old
       ELSE [r \in {s \in DOMAIN old : index - s <= Retention} \cup {index} |->
               IF r = index THEN data ELSE old[r]]

MutantRecordSignedNonce(k) ==
  [m \in DOMAIN signedNonces[k] \cup {index} |->
     IF m = index THEN [hash |-> data, round |-> index] ELSE signedNonces[k][m]]

(* Most recent round wins; nonces more than one behind are dropped. *)
RecordSignedNonce(k) ==
  LET old == signedNonces[k]
      n   == NonceOf[data]
      new == [m \in {p \in DOMAIN old : ~(n > p /\ n - p > 1)} \cup {n} |->
                IF m = n THEN [hash |-> data, round |-> index] ELSE old[m]]
  IN IF n \in DOMAIN old /\ index <= old[n].round THEN old ELSE new

(* Hashes the own keys signed at the nonce of data in this or the last round. *)
CompetingSigned ==
  {signedNonces[k][NonceOf[data]].hash :
     k \in {j \in Own : /\ NonceOf[data] \in DOMAIN signedNonces[j]
                        /\ signedNonces[j][NonceOf[data]].hash # data
                        /\ signedNonces[j][NonceOf[data]].round >= index - 1}}

-----------------------------------------------------------------------------

NodeInit ==
  /\ index = 0
  /\ proofs = {Genesis}
  /\ EvidenceInit
  /\ pc = "before" /\ top = 0
  /\ head = Genesis
  /\ roundIndex = 0 /\ data = NoHash /\ status = {} /\ blockDone = FALSE /\ canceled = FALSE
  /\ shares = {} /\ bad = {}
  /\ todo = {} /\ waitHash = NoHash /\ sigs = NoSigs
  /\ signedRounds = [k \in Own |-> <<>>]
  /\ signedNonces = [k \in Own |-> <<>>]
  /\ notify = {} /\ rp = NoHash /\ rh = NoHash
  /\ votes = [k \in Honest |-> {}]
  /\ signed = {} /\ made = {} /\ lastQuorum = {}

(* The chronology reads the clock; it may have jumped ahead or gone back.  *)
UpdateRound ==
  /\ pc = "before"
  /\ \E r \in top - MaxStepBack .. index + MaxSkip :
       /\ r \in 1 .. MaxRound /\ r # index
       /\ index' = r
       /\ top' = IF r > top THEN r ELSE top
  /\ pc' = "start"
  /\ UNCHANGED <<proofs, evidenceVars, assembled, head, stateVars, shareVars, jobVars,
                 trackerVars, notify, rp, rh, votes, made, lastQuorum>>

(* Subround StartRound: snapshot, reset, initCurrentRound. *)
doStartRoundJob ==
  /\ pc = "start"
  /\ captureSignatureEvidence(roundIndex, {data} \ {NoHash}, shares, bad)
  /\ lastQuorum' = IF /\ data # NoHash
                      /\ Cardinality(shares \ bad) >= Threshold
                      /\ ~isNonceSettled(NonceOf[data])
                     THEN {<<data, roundIndex>>} ELSE {}
  /\ roundIndex' = index
  /\ data' = NoHash /\ blockDone' = FALSE /\ canceled' = FALSE
  /\ shares' = {} /\ bad' = {} /\ sigs' = NoSigs /\ waitHash' = NoHash
  /\ \/ /\ RoundOf[head] # index
        /\ status' = {"start"}
        /\ pc' = "blockJob"
     \/ /\ RoundOf[head] = index
        /\ status' = {"start", "block", "signature", "end"}
        /\ pc' = "before"
     \/ /\ status' = {}   \* not synchronized, or an error or a timeout
        /\ pc' = "before"
  /\ UNCHANGED <<index, proofs, assembled, top, head, todo, trackerVars,
                 notify, rp, rh, votes, made>>

-----------------------------------------------------------------------------
(* Subround Block.                                                         *)

QuorumEvidence(n) == {e \in EvidenceFor(n, index) : getCount(evs, e) >= Threshold}

MutantHasQuorumEvidence == {}

hasQuorumEvidenceForCompetingBlock == QuorumEvidence(NonceOf[head] + 1)

MayPropose ==
  /\ LeaderOf[index] \in Own
  /\ index > RoundOf[head]
  /\ ~HasProofForCompetingBlock
  /\ ~ShouldRefuseCompetingParent

doBlockJob ==
  /\ pc = "blockJob"
  /\ LET refused == IF MayPropose THEN hasQuorumEvidenceForCompetingBlock ELSE {}
     IN /\ evs' = Launch(evs, refused)
        /\ pc' = IF MayPropose /\ refused = {} THEN "propose" ELSE "block"
  /\ UNCHANGED <<index, proofs, previous, retained, assembled, top, head, stateVars, shareVars,
                 jobVars, trackerVars, notify, rp, rh, votes, made, lastQuorum>>

(* The block is created, the competing proofs are checked again, the block *)
(* is sent; handing it to execution may fail after it was sent.            *)
SendBlock ==
  /\ pc = "propose"
  /\ pc' = "block"
  /\ \/ UNCHANGED <<data, blockDone>>
     \/ /\ ~HasProofForCompetingBlock /\ ~ShouldRefuseCompetingParent
        /\ \E h \in Hash : /\ RoundOf[h] = index /\ PrevOf[h] = head
                           /\ NonceOf[h] = NonceOf[head] + 1
                           /\ data' = h
        /\ blockDone' \in BOOLEAN
  /\ UNCHANGED <<vars, top, head, roundIndex, status, canceled, shareVars, jobVars,
                 trackerVars, notify, rp, rh, votes, made, lastQuorum>>

isHeaderForCurrentConsensus(h) ==
  /\ RoundOf[h] = roundIndex
  /\ PrevOf[h] = head
  /\ NonceOf[h] = NonceOf[head] + 1

(* receivedBlockHeader up to SetDataIfNotSet. *)
receivedBlockHeader(h) ==
  /\ rh = NoHash
  /\ RoundOf[h] = index
  /\ "start" \in status /\ "block" \notin status
  /\ isHeaderForCurrentConsensus(h)
  /\ ~ShouldRefuseCompetingParent
  /\ LeaderOf[index] \notin Own
  /\ data = NoHash /\ ~blockDone
  /\ rh' = h
  /\ UNCHANGED <<vars, chronologyVars, head, stateVars, shareVars, jobVars, trackerVars,
                 notify, rp, votes, made, lastQuorum>>

SetDataIfNotSet ==
  /\ rh # NoHash
  /\ data' = IF data = NoHash THEN rh ELSE data
  /\ rh' = NoHash
  /\ UNCHANGED <<vars, chronologyVars, head, roundIndex, status, blockDone, canceled,
                 shareVars, jobVars, trackerVars, notify, rp, votes, made, lastQuorum>>

(* Header and body are there: the block is verified and handed to the      *)
(* execution manager, or the round is canceled.                            *)
processReceivedBlock ==
  /\ pc \in {"blockJob", "block"}
  /\ data # NoHash /\ LeaderOf[index] \notin Own
  /\ RoundOf[data] >= index
  /\ ~blockDone /\ "block" \notin status
  /\ \/ blockDone' = TRUE /\ UNCHANGED canceled
     \/ canceled' = TRUE /\ UNCHANGED blockDone
  /\ UNCHANGED <<vars, chronologyVars, head, roundIndex, data, status, shareVars, jobVars,
                 trackerVars, notify, rp, rh, votes, made, lastQuorum>>

doBlockConsensusCheck ==
  /\ pc = "block"
  /\ ~canceled /\ blockDone
  /\ status' = status \cup {"block"}
  /\ pc' = "signatureJob"
  /\ UNCHANGED <<vars, top, head, roundIndex, data, blockDone, canceled, shareVars, jobVars,
                 trackerVars, notify, rp, rh, votes, made, lastQuorum>>

-----------------------------------------------------------------------------
(* Subround Signature.                                                     *)

MaySign ==
  /\ ~ShouldRefuseCompetingParent
  /\ ~HasProofForCompetingBlock

MutantEvidenceTier(S) == IF S = {} THEN "proceed" ELSE "wait"

(* shouldAbortOnSignatureEvidence: refuse on a quorum, wait on half of it. *)
EvidenceTier(S) ==
  CASE \E e \in S : getCount(evs, e) >= Threshold     -> "refuse"
    [] \E e \in S : 2 * getCount(evs, e) >= Threshold
                    /\ getCount(evs, e) < Threshold   -> "wait"
    [] OTHER                                          -> "proceed"

CompetingEvidence ==
  {e \in EvidenceFor(NonceOf[data], index) : evs[e].hash # data}

doSignatureJob ==
  /\ pc = "signatureJob"
  /\ data # NoHash
  /\ \/ /\ data \in proofs
        /\ status' = status \cup {"signature"}
        /\ pc' = "endJob"
        /\ UNCHANGED <<evs, waitHash, canceled>>
     \/ /\ data \notin proofs /\ MaySign
        /\ EvidenceTier(CompetingEvidence) = "refuse"
        /\ evs' = Launch(evs, CompetingEvidence)
        /\ pc' = "before" /\ canceled' = TRUE
        /\ UNCHANGED <<status, waitHash>>
     \/ /\ data \notin proofs /\ MaySign
        /\ EvidenceTier(CompetingEvidence) = "wait"
        /\ \E e \in CompetingEvidence : waitHash' = evs[e].hash
        /\ pc' = "waitEvidence"
        /\ UNCHANGED <<status, evs, canceled>>
     \/ /\ data \notin proofs /\ MaySign
        /\ EvidenceTier(CompetingEvidence) # "refuse"   \* or too late to wait
        /\ pc' = "checkSigned"
        /\ UNCHANGED <<status, evs, waitHash, canceled>>
  /\ UNCHANGED <<index, proofs, previous, retained, assembled, top, head, roundIndex, data,
                 blockDone, shareVars, todo, sigs, trackerVars, notify, rp, rh,
                 votes, made, lastQuorum>>

(* waitIfCompetingBlock: an own key signed another block at this nonce. *)
CheckSigned ==
  /\ pc = "checkSigned"
  /\ \/ \E h \in CompetingSigned : pc' = "waitSigned" /\ waitHash' = h
     \/ pc' = "sign" /\ waitHash' = NoHash              \* none, or too late to wait
  /\ todo' = Own
  /\ UNCHANGED <<vars, top, head, stateVars, shareVars, sigs, trackerVars, notify, rp, rh,
                 votes, made, lastQuorum>>

(* waitForPreviousBlockProof: a proof seen by a tick aborts, the deadline  *)
(* proceeds without looking at the pool again.                             *)
waitForPreviousBlockProof ==
  /\ pc \in {"waitEvidence", "waitSigned"}
  /\ \/ /\ waitHash \in proofs \/ HasProofForCompetingBlock
        /\ pc' = "before" /\ canceled' = TRUE
     \/ /\ pc' = IF pc = "waitEvidence" THEN "checkSigned" ELSE "sign"
        /\ UNCHANGED canceled
  /\ waitHash' = NoHash
  /\ UNCHANGED <<vars, top, head, roundIndex, data, status, blockDone, shareVars, todo, sigs, trackerVars,
                 notify, rp, rh, votes, made, lastQuorum>>

(* One own key: the slot is reserved, then the nonce is recorded, the      *)
(* signature is broadcast and the job is marked done; each may be the last *)
(* thing that happens.                                                     *)
sendSignatureForKey(k) ==
  /\ pc = "sign" /\ k \in todo
  /\ todo' = todo \ {k}
  /\ \/ UNCHANGED <<trackerVars, shares>>    \* the slot is taken, or out of time
     \/ /\ CanReserve(k)
        /\ signedRounds' = [signedRounds EXCEPT ![k] = ReserveSignatureInRound(k)]
        /\ \/ UNCHANGED <<signedNonces, signed, shares>>
           \/ /\ signedNonces' = [signedNonces EXCEPT ![k] = RecordSignedNonce(k)]
              /\ signed' = signed \cup {<<k, index, data>>}
              /\ shares' \in {shares, shares \cup {k}}
  /\ UNCHANGED <<vars, chronologyVars, head, stateVars, bad, waitHash, sigs, notify, rp, rh,
                 votes, made, lastQuorum>>

doSignatureConsensusCheck ==
  /\ pc = "sign" /\ todo = {}
  /\ IF Own \subseteq shares
       THEN pc' = "endJob" /\ status' = status \cup {"signature"} /\ UNCHANGED canceled
       ELSE pc' = "before" /\ canceled' = TRUE /\ UNCHANGED status
  /\ UNCHANGED <<vars, top, head, roundIndex, data, blockDone, shareVars, jobVars,
                 trackerVars, notify, rp, rh, votes, made, lastQuorum>>

(* A subround runs out of time or its job fails: Extend cancels the round. *)
Extend ==
  /\ pc \in {"block", "signatureJob", "endJob", "endCollect", "endProof"}
  /\ pc' = "before"
  /\ canceled' = TRUE
  /\ UNCHANGED <<vars, top, head, roundIndex, data, status, blockDone, shareVars, jobVars,
                 trackerVars, notify, rp, rh, votes, made, lastQuorum>>

-----------------------------------------------------------------------------
(* Subround EndRound.  mutProcessingEndRound excludes rp.                  *)

CanVote(k, h) == \A g \in votes[k] : RoundOf[g] = RoundOf[h] => g = h

receivedSignature(k) ==
  /\ data # NoHash /\ index = roundIndex
  /\ k \in Group \ (Own \cup shares)
  /\ "block" \in status /\ "end" \notin status
  /\ ~HasProofForCompetingBlock
  /\ shares' = shares \cup {k}
  /\ \/ /\ k \in Faulty
        /\ bad' = bad \cup {k}
        /\ UNCHANGED votes
     \/ /\ k \in Equivocators
        /\ UNCHANGED <<bad, votes>>
     \/ /\ k \in Honest /\ CanVote(k, data)
        /\ votes' = [votes EXCEPT ![k] = @ \cup {data}]
        /\ UNCHANGED bad
  /\ UNCHANGED <<vars, chronologyVars, head, stateVars, jobVars, trackerVars, notify, rp, rh,
                 made, lastQuorum>>

doEndRoundJob ==
  /\ pc = "endJob"
  /\ data # NoHash /\ rp = NoHash
  /\ pc' = "endCollect"
  /\ UNCHANGED <<vars, top, head, stateVars, shareVars, jobVars, trackerVars,
                 notify, rp, rh, votes, made, lastQuorum>>

MutantSignaturesCollected == Cardinality(shares) >= Threshold - 1

areSignaturesCollected == Cardinality(shares) >= Threshold

(* shouldSendProof, waitForSignalSync, the competing proof check and the   *)
(* first half of sendProof: aggregate and verify what was collected.       *)
EndCollect ==
  /\ pc = "endCollect"
  /\ \/ /\ pc' = "endProof"                 \* no proof to send, or too late for it
        /\ UNCHANGED sigs
     \/ /\ data \notin proofs /\ HasProofForCompetingBlock
        /\ Own \subseteq shares /\ areSignaturesCollected
        /\ pc' = "before"
        /\ UNCHANGED sigs
     \/ /\ data \notin proofs /\ MaySign
        /\ Own \subseteq shares /\ areSignaturesCollected
        /\ IF bad = {}
             THEN pc' = "endAdd" /\ sigs' = [keys |-> shares, bad |-> {}]
             ELSE pc' = "endVerify" /\ UNCHANGED sigs
  /\ UNCHANGED <<vars, top, head, stateVars, shareVars, todo, waitHash, trackerVars,
                 notify, rp, rh, votes, made, lastQuorum>>

(* verifyNodesOnAggSigFail: the shares that stay marked as done. *)
verifyNodesOnAggSigFail == shares \ bad

EndVerify ==
  /\ pc = "endVerify"
  /\ shares' = verifyNodesOnAggSigFail
  /\ bad' = {}
  /\ pc' = "endRecompute"
  /\ UNCHANGED <<vars, top, head, stateVars, jobVars, trackerVars,
                 notify, rp, rh, votes, made, lastQuorum>>

(* computeAggSigOnValidNodes takes the shares marked as done by now; the   *)
(* aggregate is not verified again.                                        *)
computeAggSigOnValidNodes ==
  /\ pc = "endRecompute"
  /\ CASE data \in proofs         -> pc' = "endProof" /\ UNCHANGED sigs
       [] data \notin proofs /\ ~areSignaturesCollected
                                  -> pc' = "endCollect" /\ UNCHANGED sigs
       [] data \notin proofs /\ areSignaturesCollected
                                  -> pc' = "endAdd" /\ sigs' = [keys |-> shares, bad |-> bad]
  /\ UNCHANGED <<vars, top, head, stateVars, shareVars, todo, waitHash, trackerVars,
                 notify, rp, rh, votes, made, lastQuorum>>

(* The second shouldSendProof, createAndBroadcastProof. *)
createAndBroadcastProof ==
  /\ pc = "endAdd"
  /\ pc' = "endProof"
  /\ sigs' = NoSigs
  /\ \/ UNCHANGED <<proofVars, made>>       \* the grace period is over
     \/ /\ data \notin proofs /\ ~ShouldRefuseCompetingParent
        /\ AddToPool(data)
        /\ made' = made \cup {[hash |-> data, keys |-> sigs.keys, bad |-> sigs.bad]}
  /\ UNCHANGED <<index, evidenceVars, assembled, top, head, stateVars, shareVars, todo, waitHash,
                 trackerVars, rp, rh, votes, lastQuorum>>

CommitBlock(h) == head' = IF CanCommit(h) THEN h ELSE head

finalizeConfirmedBlock ==
  /\ pc = "endProof"
  /\ \/ /\ data \in proofs
        /\ CommitBlock(data)
        /\ status' = IF CanCommit(data) THEN status \cup {"end"} ELSE status
     \/ /\ data \notin proofs /\ HasProofForCompetingBlock
        /\ UNCHANGED <<head, status>>
  /\ pc' = "before"
  /\ UNCHANGED <<vars, top, roundIndex, data, blockDone, canceled, shareVars, jobVars,
                 trackerVars, notify, rp, rh, votes, made, lastQuorum>>

(* A subscriber of the proofs pool: receivedProof up to waitForProof.  The *)
(* proof is in the pool, so the end round job has nothing else to do.      *)
receivedProof(h) ==
  /\ h \in notify
  /\ pc \notin EndPcs /\ rp = NoHash
  /\ notify' = notify \ {h}
  /\ rp' = IF data = h THEN h ELSE NoHash
  /\ UNCHANGED <<vars, chronologyVars, head, stateVars, shareVars, jobVars, trackerVars,
                 rh, votes, made, lastQuorum>>

(* It commits the header the consensus state holds at that moment. *)
commitBlock ==
  /\ rp # NoHash
  /\ rp' = NoHash
  /\ IF data # NoHash /\ CanCommit(data)
       THEN head' = data /\ status' = status \cup {"end"}
       ELSE UNCHANGED <<head, status>>
  /\ UNCHANGED <<vars, chronologyVars, roundIndex, data, blockDone, canceled, shareVars, jobVars,
                 trackerVars, notify, rh, votes, made, lastQuorum>>

-----------------------------------------------------------------------------
(* Self-assembly goroutines, the network and the synchroniser.             *)

trySelfAssembleProof(e) ==
  /\ \/ AssembleStart(e, TRUE, ShouldRefuseCompetingParent)
     \/ AssembleAggregate(e)
     \/ AssembleAdd(e, ShouldRefuseCompetingParent)
  /\ notify' = notify \cup (proofs' \ proofs)
  /\ UNCHANGED <<chronologyVars, head, stateVars, shareVars, jobVars, trackerVars,
                 rp, rh, votes, made, lastQuorum>>

(* The member has signed the hash, or may still sign it. *)
CanSign(k, h) ==
  CASE k \in Own          -> \E r \in 0 .. MaxRound : <<k, r, h>> \in signed
    [] k \in Equivocators -> TRUE
    [] k \in Honest       -> CanVote(k, h)

(* A verified proof arrives: a quorum signed it, and the honest members of *)
(* the quorum have not signed another block of its round.                  *)
ReceiveProof(h) ==
  /\ h \notin proofs
  /\ PrevOf[h] \in proofs
  /\ \E Q \in SUBSET Group :
       /\ Cardinality(Q) = Threshold
       /\ \A k \in Q : CanSign(k, h)
       /\ votes' = [k \in Honest |-> IF k \in Q THEN votes[k] \cup {h} ELSE votes[k]]
  /\ AddToPool(h)
  /\ UNCHANGED <<index, evidenceVars, assembled, chronologyVars, head, stateVars, shareVars,
                 jobVars, trackerVars, rp, rh, made, lastQuorum>>

(* The bootstrapper commits a proven child of the head. *)
SyncBlock(h) ==
  /\ h \in proofs /\ CanCommit(h)
  /\ head' = h
  /\ UNCHANGED <<vars, chronologyVars, stateVars, shareVars, jobVars, trackerVars,
                 notify, rp, rh, votes, made, lastQuorum>>

-----------------------------------------------------------------------------

NodeNext ==
  \/ UpdateRound
  \/ doStartRoundJob
  \/ doBlockJob
  \/ SendBlock
  \/ \E h \in Hash : receivedBlockHeader(h)
  \/ SetDataIfNotSet
  \/ processReceivedBlock
  \/ doBlockConsensusCheck
  \/ doSignatureJob
  \/ CheckSigned
  \/ waitForPreviousBlockProof
  \/ \E k \in Own : sendSignatureForKey(k)
  \/ doSignatureConsensusCheck
  \/ Extend
  \/ \E k \in Group : receivedSignature(k)
  \/ doEndRoundJob
  \/ EndCollect
  \/ EndVerify
  \/ computeAggSigOnValidNodes
  \/ createAndBroadcastProof
  \/ finalizeConfirmedBlock
  \/ \E h \in Hash : receivedProof(h)
  \/ commitBlock
  \/ \E e \in EvId : trySelfAssembleProof(e)
  \/ \E h \in Hash : ReceiveProof(h)
  \/ \E h \in Hash : SyncBlock(h)

NodeSpec == NodeInit /\ [][NodeNext]_nodeVars

-----------------------------------------------------------------------------

(* Types of the node's variables; invalid shares are shares, and the       *)
(* tracker files a signature under the nonce of its header.                *)
NodeTypeOK ==
  /\ TypeOK
  /\ top \in Nat /\ index \in 0 .. top
  /\ head \in Hash
  /\ data \in Hash \cup {NoHash}
  /\ shares \subseteq Group /\ bad \subseteq shares
  /\ todo \subseteq Own
  /\ \A k \in Own : \A r \in DOMAIN signedRounds[k] : signedRounds[k][r] \in Hash
  /\ \A k \in Own : \A n \in DOMAIN signedNonces[k] : NonceOf[signedNonces[k][n].hash] = n
  /\ signed \subseteq Own \X Nat \X Hash
  /\ {rp, rh, waitHash} \subseteq Hash \cup {NoHash}

(* The clock may re-enter a round, a leader may send two headers, keys are *)
(* signed for one by one: no own key signs two hashes in one round.        *)
OneSignaturePerRound ==
  \A s, t \in signed : s[1] = t[1] /\ s[2] = t[2] => s[3] = t[3]

(* A block conflicts with the quorum the node saw in the round before. *)
AgainstQuorum(h) ==
  \E q \in lastQuorum :
    q[2] = index - 1 /\ NonceOf[q[1]] = NonceOf[h] /\ q[1] # h

(* When a round ended with a quorum of valid signatures and no proof, the  *)
(* node neither signs nor proposes another block of that nonce in the next *)
(* round, whatever happened to the evidence in between.                    *)
QuorumHolds ==
  [][/\ \A s \in signed' \ signed : ~AgainstQuorum(s[3])
     /\ (pc = "propose" /\ pc' # pc /\ data' # data) => ~AgainstQuorum(data')]_nodeVars

(* A proof in the pool that the end round job aggregated was verified. *)
MadeProofsVerified == \A m \in made : m.bad = {}

(* A proof of the end round job aggregates a quorum of shares, although    *)
(* shares are dropped and arrive while it aggregates.                      *)
MadeHasQuorum == \A m \in made : Cardinality(m.keys) >= Threshold

(* The votes of the members that follow the protocol, this node's included. *)
CommitteeVotes ==
  [k \in Group \ Equivocators |->
     IF k \in Own THEN {s[3] : s \in {t \in signed : t[1] = k}} ELSE votes[k]]

Abstract == INSTANCE Committee WITH votes <- CommitteeVotes, certs <- proofs

(* The node, whatever its goroutines do, votes and certifies as Committee  *)
(* allows: one header per round and key, and a quorum of signatures behind *)
(* every proof that enters its pool.                                       *)
ImplementsCommittee == Abstract!Spec
=============================================================================
