---------------------------- MODULE ForkDetector ----------------------------
(***************************************************************************)
(* process/sync: the fork detector of a shard or metachain node after the  *)
(* Supernova activation.  It keeps what it knows of the headers near the   *)
(* tip (headers), the chain of committed blocks (checkpoint), the final    *)
(* checkpoint, which instant finality moves ahead and a reconciliation may *)
(* lower, and the settled checkpoint, which only moves forward.            *)
(*                                                                         *)
(* Updates of finality hold mutFinalityUpdate from their first step to     *)
(* their last, but read the proofs pool and the headers, which other       *)
(* goroutines change meanwhile: job is the update in progress and its      *)
(* actions are cut where such a change can fall.  A checkpoint is the hash *)
(* of its block.  All headers are V3 and of one epoch.                     *)
(***************************************************************************)
EXTENDS Integers, Sequences, FiniteSets, FiniteSetsExt, SequencesExt

CONSTANTS Block,        \* header hashes, naturals so that bytes.Compare orders them
          Anchor,       \* the settled block the node has started from
          ParentOf,     \* per block but Anchor
          BlockNonce,
          BlockRound,
          LateBlocks    \* blocks whose header arrives more than a round late

ASSUME ForkAssumption ==
  /\ Block \subseteq Nat /\ IsFiniteSet(Block) /\ Anchor \in Block
  /\ ParentOf \in [Block \ {Anchor} -> Block]
  /\ BlockNonce \in [Block -> Nat] /\ BlockRound \in [Block -> Nat]
  /\ \A b \in Block \ {Anchor} : /\ BlockNonce[b] = BlockNonce[ParentOf[b]] + 1
                                 /\ BlockRound[b] > BlockRound[ParentOf[b]]
  /\ LateBlocks \subseteq Block

VARIABLES
  isMeta,       \* the node is of the metachain
  pool,         \* hashes with a proof in the proofs pool
  headers,      \* the records of all nonces
  checkpoint,   \* fork.checkpoint
  final,        \* fork.finalCheckpoint
  settled,      \* fork.settledCheckpoint
  probable,     \* fork.probableHighestNonce
  highest,      \* fork.highestNonceReceived
  rollBackNonce,
  ambiguous,    \* hasAmbiguousNotarization
  job           \* the update that holds mutFinalityUpdate

checkpointVars == <<checkpoint, final, settled>>
detectorVars == <<isMeta, pool, headers, checkpointVars, probable, highest,
                  rollBackNonce, ambiguous, job>>

New == Block \ {Anchor}
BlockNonces == {BlockNonce[b] : b \in New}
NoNonce == -1
Idle == [pc |-> "idle", kind |-> "none"]

States == {"Received", "ReceivedTooLate", "Processed", "Notarized"}

(* anc: the record's prevHash is known; authority: selectedByAuthority.    *)
headerInfo == [hash : New, state : States, hasProof : BOOLEAN,
               anc : BOOLEAN, authority : BOOLEAN]

Info(h, state, hasProof, anc) ==
  [hash |-> h, state |-> state, hasProof |-> hasProof, anc |-> anc, authority |-> FALSE]

RecordsAt(hs, n) == {i \in hs : BlockNonce[i.hash] = n}
HashesIn(hs, n, state) == {i.hash : i \in {j \in RecordsAt(hs, n) : j.state = state}}
Processed(hs, n) == HashesIn(hs, n, "Processed")
Notarized(hs, n) == HashesIn(hs, n, "Notarized")

isLowerRoundOrHash(a, b) ==
  BlockRound[a] < BlockRound[b] \/ (BlockRound[a] = BlockRound[b] /\ a < b)

IsContendedRound(b, parent) == BlockRound[b] > BlockRound[parent] + 1

isParentCheckpoint(c, b) == c = ParentOf[b]

lastCheckpoint(cs) == IF cs = <<>> THEN Anchor ELSE Last(cs)

(* The checkpoints of cs that are in kept, in their order.                 *)
keepCheckpoints(cs, kept) ==
  LET Kept[k \in 0..Len(cs)] ==
        IF k = 0 THEN <<>>
        ELSE IF cs[k] \in kept THEN Append(Kept[k - 1], cs[k]) ELSE Kept[k - 1]
  IN  Kept[Len(cs)]

-----------------------------------------------------------------------------
(* Notarisation by the metachain.                                          *)

isAmbiguousAt(hs, n) ==
  \/ Cardinality(Notarized(hs, n)) > 1
  \/ \E a \in Notarized(hs, n), p \in Processed(hs, n) : a # p

isAmbiguous(hs) == \E n \in BlockNonces : isAmbiguousAt(hs, n)

(* appendHeaderInfo: what is known of a hash already is enriched; a record *)
(* is added unless one with its state and proof is there.                  *)
adjustHeadersWithInfo(hs, i) ==
  {IF j.hash = i.hash
   THEN [j EXCEPT !.hasProof = @ \/ i.hasProof, !.anc = @ \/ i.anc]
   ELSE j : j \in hs}

isInserted(hs, i) ==
  ~\E j \in adjustHeadersWithInfo(hs, i) :
     j.hash = i.hash /\ j.state = i.state /\ j.hasProof = i.hasProof

appendHeaderInfo(hs, i) ==
  adjustHeadersWithInfo(hs, i) \cup (IF isInserted(hs, i) THEN {i} ELSE {})

(* The ambiguity flag, amb before i was appended to hs.                    *)
MutantAmbiguousAfter(hs, amb, i) ==
  \/ amb
  \/ /\ isInserted(hs, i) /\ i.state = "Notarized"
     /\ isAmbiguousAt(appendHeaderInfo(hs, i), BlockNonce[i.hash])
ambiguousAfter(hs, amb, i) ==
  \/ amb
  \/ /\ isInserted(hs, i) /\ i.state \in {"Notarized", "Processed"}
     /\ isAmbiguousAt(appendHeaderInfo(hs, i), BlockNonce[i.hash])

-----------------------------------------------------------------------------
(* The probable highest nonce.                                             *)

Proven(hs, n) == {i.hash : i \in {j \in RecordsAt(hs, n) : j.hasProof}}
HasAncestry(hs, h) == \E i \in hs : i.hash = h /\ i.anc
allProvenHeadersHaveKnownAncestry(hs, n) == \A h \in Proven(hs, n) : HasAncestry(hs, h)

hasActionableHeader(hs, n) ==
  \E i \in RecordsAt(hs, n) : i.hasProof \/ i.state = "Notarized"

hasBranchSelectionEvidence(hs, n, f, s) ==
  \/ n > BlockNonce[s] /\ Notarized(hs, n) # {}
  \/ n = BlockNonce[f] /\ Proven(hs, n) \ {f} # {}
  \/ /\ n = BlockNonce[f] + 1
     /\ \E h \in Proven(hs, n) : HasAncestry(hs, h) /\ ParentOf[h] # f
  \/ Cardinality(Proven(hs, n)) > 1

PreferredProvenChild(hs, n, parent) ==
  LET children == {h \in Proven(hs, n) : HasAncestry(hs, h) /\ ParentOf[h] = parent}
  IN  {h \in children : \A g \in children \ {h} : isLowerRoundOrHash(h, g)}

isCompleteLosingSuffix(hs, first, raw) ==
  \A n \in first + 1 .. raw :
     /\ Proven(hs, n) # {} /\ allProvenHeadersHaveKnownAncestry(hs, n)
     /\ \A h \in Proven(hs, n) : ParentOf[h] \in Proven(hs, n - 1)

(* computeBranchAwareProbable: follow the selected branch up from final;   *)
(* give up and return raw where the evidence is incomplete.                *)
computeBranchAwareProbable(hs, f, last, raw) ==
  LET Selected(n, parent) ==
        IF Notarized(hs, n) # {}
        THEN {h \in Notarized(hs, n) :
                /\ Cardinality(Notarized(hs, n)) = 1
                /\ ParentOf[h] = parent}
        ELSE IF Proven(hs, n) # {} /\ allProvenHeadersHaveKnownAncestry(hs, n)
             THEN PreferredProvenChild(hs, n, parent) ELSE {}
      Losing(n) ==
        /\ Notarized(hs, n) = {} /\ n > BlockNonce[last]
        /\ Proven(hs, n) # {} /\ allProvenHeadersHaveKnownAncestry(hs, n)
        /\ isCompleteLosingSuffix(hs, n, raw)
      Walk[n \in BlockNonce[f] .. raw] ==
        [parent \in Block |->
           IF n = raw THEN raw
           ELSE LET sel == Selected(n + 1, parent)
                IN  IF sel = {} THEN IF Losing(n + 1) THEN n ELSE raw
                    ELSE LET h == CHOOSE x \in sel : TRUE
                         IN  IF n + 1 <= BlockNonce[last] /\ Processed(hs, n + 1) # {h}
                             THEN raw ELSE Walk[n + 1][h]]
  IN  Walk[BlockNonce[f]][f]

computeProbableHighestNonce(hs, f, s, cs) ==
  LET raw == Max({BlockNonce[f]} \cup {n \in BlockNonces : hasActionableHeader(hs, n)})
  IN  IF /\ raw > BlockNonce[f]
         /\ \E n \in BlockNonces : n >= BlockNonce[f] /\ hasBranchSelectionEvidence(hs, n, f, s)
      THEN computeBranchAwareProbable(hs, f, lastCheckpoint(cs), raw)
      ELSE raw

(* recomputeProbableHighestNonce, after the updates of this step.          *)
recomputeProbable ==
  probable' = computeProbableHighestNonce(headers', final', settled', checkpoint')

-----------------------------------------------------------------------------
(* Finality.  The job that holds mutFinalityUpdate runs the settlement by  *)
(* the notarised headers and then extends finality over clean processed    *)
(* descendants, one child at a time.                                       *)

Branch[b \in Block] == IF b = Anchor THEN {b} ELSE {b} \cup Branch[ParentOf[b]]

hasProofForDifferentHash(b) == \E p \in pool \ {b} : BlockNonce[p] = BlockNonce[b]

hasCompetingSiblingEvidence(hs, b) ==
  \E i \in RecordsAt(hs, BlockNonce[b]) :
     /\ i.hash # b
     /\ \/ i.state = "Notarized"
        \/ i.hasProof /\ (i.anc => ParentOf[i.hash] = ParentOf[b])

MutantCleanProcessedChild(hs, parent) ==
  {i.hash : i \in {j \in RecordsAt(hs, BlockNonce[parent] + 1) :
     /\ j.hasProof /\ ParentOf[j.hash] = parent /\ ~IsContendedRound(j.hash, parent)
     /\ ~hasCompetingSiblingEvidence(hs, j.hash)}}
getCleanProcessedChild(hs, parent) ==
  {i.hash : i \in {j \in RecordsAt(hs, BlockNonce[parent] + 1) :
     /\ j.state = "Processed" /\ j.hasProof
     /\ ParentOf[j.hash] = parent /\ ~IsContendedRound(j.hash, parent)
     /\ ~hasCompetingSiblingEvidence(hs, j.hash)}}

(* The blocks whose one processed record is the one notarised record of    *)
(* their nonce; the highest of them is the candidate.                      *)
SettleCandidates(hs) ==
  LET matched == {i.hash : i \in {j \in hs :
                    /\ j.state = "Processed" /\ j.hasProof
                    /\ Processed(hs, BlockNonce[j.hash]) = {j.hash}
                    /\ Notarized(hs, BlockNonce[j.hash]) = {j.hash}}}
  IN  {h \in matched : \A g \in matched : BlockNonce[g] <= BlockNonce[h]}

(* The walk from the settled block along unique processed children ends at *)
(* the candidate.                                                          *)
ProcessedAncestry(hs, s, c) ==
  /\ s \in Branch[c]
  /\ \A b \in Branch[c] : BlockNonce[b] > BlockNonce[s] =>
       {h \in Processed(hs, BlockNonce[b]) : ParentOf[h] = ParentOf[b]} = {b}

(* Notarised records the walk removes, at the ambiguous nonces it visits.  *)
RejectedByWalk(hs, s, c) ==
  {i \in hs : /\ i.state = "Notarized" /\ i.hash \notin Branch[c]
              /\ BlockNonce[i.hash] \in BlockNonce[s] + 1 .. BlockNonce[c]
              /\ isAmbiguousAt(hs, BlockNonce[i.hash])}

MutantAdvanceCheckpoint(old, new) == new
advanceCheckpoint(old, new) == IF BlockNonce[new] > BlockNonce[old] THEN new ELSE old

MutantAdvanceSettled(c) == settled' = advanceCheckpoint(settled, c) /\ UNCHANGED final
advanceFinalAndSettledCheckpoint(c) ==
  /\ final' = advanceCheckpoint(final, c)
  /\ settled' = advanceCheckpoint(settled, c)

(* computeFinalCheckpointLocked on the records hs, for the caller kind.    *)
computeFinalCheckpoint(hs, amb, kind, b) ==
  /\ job' = [pc |-> "clean", kind |-> kind, block |-> b]
  /\ \/ \E c \in SettleCandidates(hs) :
          /\ BlockNonce[c] <= BlockNonce[settled] \/ ProcessedAncestry(hs, settled, c)
          /\ LET removed == RejectedByWalk(hs, settled, c)
             IN  /\ headers' = hs \ removed
                 /\ ambiguous' = IF removed = {} THEN amb ELSE isAmbiguous(hs \ removed)
          /\ advanceFinalAndSettledCheckpoint(c)
     \/ /\ ~\E c \in SettleCandidates(hs) :
              BlockNonce[c] <= BlockNonce[settled] \/ ProcessedAncestry(hs, settled, c)
        /\ headers' = hs /\ ambiguous' = amb
        /\ UNCHANGED <<final, settled>>

canInstantlyFinalize(b, parent) ==
  /\ isParentCheckpoint(parent, b)
  /\ ~hasProofForDifferentHash(b)
  /\ ~hasCompetingSiblingEvidence(headers, b)
  /\ ~IsContendedRound(b, parent)

(* The end of the job: doJobOnBHProcessed goes on, other callers recompute *)
(* the probable nonce once the lock is free.                               *)
FinalityEnd ==
  /\ UNCHANGED <<headers, settled, checkpoint, ambiguous>>
  /\ IF job.kind = "commit"
     THEN job' = [job EXCEPT !.pc = "checkpoint"] /\ UNCHANGED probable
     ELSE job' = Idle /\ recomputeProbable

FinalityCheck ==
  /\ job.pc = "clean"
  /\ \E c \in getCleanProcessedChild(headers, final) :
       /\ ~hasProofForDifferentHash(c)
       /\ job' = [pc |-> "set", kind |-> job.kind, block |-> job.block, child |-> c]
  /\ UNCHANGED <<headers, checkpointVars, probable, ambiguous>>

FinalityStop ==
  /\ job.pc = "clean"
  /\ \A c \in getCleanProcessedChild(headers, final) : hasProofForDifferentHash(c)
  /\ UNCHANGED final
  /\ FinalityEnd

FinalitySet ==
  /\ job.pc = "set"
  /\ IF job.child \in getCleanProcessedChild(headers, final)
     THEN /\ final' = job.child
          /\ job' = [pc |-> "confirm", kind |-> job.kind, block |-> job.block,
                     support |-> final]
          /\ UNCHANGED <<headers, checkpoint, settled, probable, ambiguous>>
     ELSE UNCHANGED final /\ FinalityEnd

(* A competing proof stored since the check takes the finality back.       *)
FinalityConfirm ==
  /\ job.pc = "confirm"
  /\ IF hasProofForDifferentHash(final)
     THEN final' = job.support /\ FinalityEnd
     ELSE /\ job' = [pc |-> "clean", kind |-> job.kind, block |-> job.block]
          /\ UNCHANGED <<headers, checkpointVars, probable, ambiguous>>

(* removePastOrInvalidRecords, the end of doJobOnBHProcessed and the       *)
(* recomputation that follows it, with final checkpoint f and checkpoints  *)
(* cs.                                                                     *)
isInvalidReceived(i, f) ==
  /\ i.state \in {"Received", "ReceivedTooLate"}
  /\ BlockRound[i.hash] - BlockRound[f] < BlockNonce[i.hash] - BlockNonce[f]

removePastOrInvalidRecords(f, cs) ==
  LET kept == {i \in headers : BlockNonce[i.hash] >= BlockNonce[settled']}
  IN  /\ final' = f
      /\ headers' = {i \in kept : ~isInvalidReceived(i, f)}
      /\ ambiguous' = (ambiguous /\ isAmbiguous(kept))
      /\ checkpoint' = keepCheckpoints(cs, {c \in Block : BlockNonce[c] >= BlockNonce[f]})
      /\ job' = Idle
      /\ recomputeProbable

(* addCheckpoint and setInstantFinalCheckpoint.                            *)
AddCheckpoint ==
  /\ job.pc = "checkpoint"
  /\ UNCHANGED settled
  /\ LET b == job.block
     IN  IF canInstantlyFinalize(b, final)
         THEN /\ final' = b /\ checkpoint' = Append(checkpoint, b)
              /\ job' = [pc |-> "instant", kind |-> "commit", block |-> b, support |-> final]
              /\ UNCHANGED <<headers, probable, ambiguous>>
         ELSE removePastOrInvalidRecords(final, Append(checkpoint, b))

InstantConfirm ==
  /\ job.pc = "instant"
  /\ UNCHANGED settled
  /\ removePastOrInvalidRecords(
       IF canInstantlyFinalize(job.block, job.support) THEN final ELSE job.support,
       checkpoint)

JobStep ==
  /\ \/ FinalityCheck \/ FinalityStop \/ FinalitySet \/ FinalityConfirm
     \/ AddCheckpoint \/ InstantConfirm
  /\ UNCHANGED <<isMeta, pool, highest, rollBackNonce>>

(* computeFinalCheckpoint and the recomputation of the probable nonce by a *)
(* caller other than a commit; the metachain's computeFinalCheckpoint does *)
(* nothing.                                                                *)
ComputeFinalAndProbable(hs, amb) ==
  IF isMeta
  THEN /\ headers' = hs /\ ambiguous' = amb
       /\ UNCHANGED <<final, settled, job>>
       /\ recomputeProbable
  ELSE computeFinalCheckpoint(hs, amb, "other", Anchor) /\ UNCHANGED probable

-----------------------------------------------------------------------------
(* Headers, proofs and notarisations received.                             *)

checkBlockBasicValidity(b) ==
  /\ BlockRound[b] >= BlockRound[final] /\ BlockNonce[b] >= BlockNonce[final]
  /\ BlockRound[b] - BlockRound[final] >= BlockNonce[b] - BlockNonce[final]

setHighestNonceReceived(b) == highest' = Max({highest, BlockNonce[b]})

(* AddHeader with BHReceived: a header without proof is not recorded.      *)
ReceivedInfo(b) ==
  Info(b, IF b \in LateBlocks THEN "ReceivedTooLate" ELSE "Received", TRUE, TRUE)

AddReceivedHeader(b) ==
  /\ UNCHANGED checkpointVars
  /\ IF ~checkBlockBasicValidity(b)
     THEN UNCHANGED <<headers, highest, probable>>
     ELSE /\ setHighestNonceReceived(b)
          /\ IF b \notin pool \/ appendHeaderInfo(headers, ReceivedInfo(b)) = headers
             THEN UNCHANGED <<headers, probable>>
             ELSE headers' = appendHeaderInfo(headers, ReceivedInfo(b)) /\ recomputeProbable

(* processReceivedProof of the detector, then the enrichment of the record *)
(* with the header, if the headers pool holds it.                          *)
ReceivedProof(b, hasHeader) ==
  LET hs == appendHeaderInfo(headers, Info(b, "Received", TRUE, FALSE))
  IN  /\ UNCHANGED checkpointVars
      /\ setHighestNonceReceived(b)
      /\ headers' = IF hasHeader /\ checkBlockBasicValidity(b)
                    THEN appendHeaderInfo(hs, ReceivedInfo(b)) ELSE hs
      /\ recomputeProbable

NotarizedInfo(h) == Info(h, "Notarized", h \in pool, TRUE)

(* AddHeader with BHProcessed, called by a commit; ns is the header, if    *)
(* any, that the block's metachain headers notarise.                       *)
AddProcessedHeader(b, ns) ==
  LET i   == Info(b, "Processed", TRUE, TRUE)
      hs  == appendHeaderInfo(headers, i)
      amb == ambiguousAfter(headers, ambiguous, i)
      new == {h \in ns : BlockNonce[h] > BlockNonce[settled]}
  IN  /\ job = Idle
      /\ IF ~checkBlockBasicValidity(b) \/ b \notin pool \/ hs = headers
         THEN UNCHANGED <<headers, checkpointVars, probable, ambiguous, job>>
         ELSE IF ~isInserted(headers, i)
         THEN /\ headers' = hs
              /\ UNCHANGED <<checkpointVars, ambiguous, job>>
              /\ recomputeProbable
         ELSE IF isMeta
         THEN /\ headers' = hs
              /\ IF isParentCheckpoint(lastCheckpoint(checkpoint), b)
                 THEN advanceFinalAndSettledCheckpoint(lastCheckpoint(checkpoint))
                 ELSE UNCHANGED <<final, settled>>
              /\ job' = [pc |-> "checkpoint", kind |-> "commit", block |-> b]
              /\ UNCHANGED <<checkpoint, probable, ambiguous>>
         ELSE /\ \/ new = {} /\ computeFinalCheckpoint(hs, amb, "commit", b)
                 \/ \E h \in new :
                      computeFinalCheckpoint(appendHeaderInfo(hs, NotarizedInfo(h)),
                        ambiguousAfter(hs, amb, NotarizedInfo(h)), "commit", b)
              /\ UNCHANGED <<checkpoint, probable>>
      /\ IF checkBlockBasicValidity(b) THEN setHighestNonceReceived(b) ELSE UNCHANGED highest

(* ReceivedSelfNotarizedFromCrossHeaders.                                  *)
ReceivedSelfNotarized(h) ==
  LET i == NotarizedInfo(h)
  IN  /\ ~isMeta /\ job = Idle
      /\ BlockNonce[h] > BlockNonce[settled]
      /\ appendHeaderInfo(headers, i) # headers
      /\ IF isInserted(headers, i)
         THEN computeFinalCheckpoint(appendHeaderInfo(headers, i),
                ambiguousAfter(headers, ambiguous, i), "other", Anchor)
         ELSE /\ headers' = appendHeaderInfo(headers, i)
              /\ UNCHANGED <<final, settled, ambiguous, job>>
      /\ UNCHANGED <<checkpoint, probable, highest, rollBackNonce>>

-----------------------------------------------------------------------------
(* Records taken away.                                                     *)

withoutNonce(cs, n) == keepCheckpoints(cs, {c \in Block : BlockNonce[c] # n})

(* A reverted block leaves one received record as evidence of its proof.   *)
RemoveCommittedHeader(b) ==
  LET gone == {i \in headers : i.hash = b /\ i.state # "Notarized"}
      proven == {i \in gone : i.hasProof}
      kept == (headers \ gone) \cup
              IF proven = {} THEN {}
              ELSE {Info(b, "Received", TRUE, \E i \in proven : i.anc)}
  IN  IF BlockNonce[b] <= BlockNonce[final]
      THEN UNCHANGED <<headers, checkpointVars, probable, ambiguous, job>>
      ELSE /\ checkpoint' = withoutNonce(checkpoint, BlockNonce[b])
           /\ ComputeFinalAndProbable(kept, isAmbiguous(kept))

(* ResetProbableHighestNonce.                                              *)
ResetProbableHighestNonce ==
  /\ UNCHANGED checkpointVars
  /\ headers' = {i \in headers : \/ BlockNonce[i.hash] <= BlockNonce[lastCheckpoint(checkpoint)]
                                 \/ i.state = "Notarized" \/ i.hasProof}
  /\ recomputeProbable

-----------------------------------------------------------------------------
(* Reconciliation: the only ways to lower the final checkpoint.            *)

highestProcessedCheckpointBelow(hs, n) ==
  LET below == {m \in BlockNonces : m < n /\ m > BlockNonce[settled] /\ Processed(hs, m) # {}}
  IN  IF below = {} THEN {settled} ELSE Processed(hs, Max(below))

MutantLowerFinal(hs, n) ==
  IF BlockNonce[final] > n THEN final' \in highestProcessedCheckpointBelow(hs, n)
  ELSE UNCHANGED final
LowerFinal(hs, n) ==
  IF BlockNonce[final] >= n THEN final' \in highestProcessedCheckpointBelow(hs, n)
  ELSE UNCHANGED final

canReconcileFinal(n) == BlockNonce[final] = n /\ n > BlockNonce[settled]

ReconcileFinalCheckpoint(n) ==
  /\ LowerFinal(headers, n)
  /\ UNCHANGED <<headers, checkpoint, settled, probable, ambiguous>>

ReconcileFinalCheckpointBelow(n) ==
  /\ headers' = {i \in headers : BlockNonce[i.hash] < n}
  /\ ambiguous' = isAmbiguous(headers')
  /\ checkpoint' = keepCheckpoints(checkpoint, {c \in Block : BlockNonce[c] < n})
  /\ LowerFinal(headers', n)
  /\ UNCHANGED settled
  /\ recomputeProbable

canReconcileFromAuthority(n, h) ==
  /\ n > BlockNonce[settled]
  /\ h \in Notarized(headers, n) /\ Processed(headers, n) \ {h} # {}

(* The other hashes of nonce n and what descends from them are rejected.   *)
ReconcileFinalCheckpointFromAuthority(n, h) ==
  LET others == {i.hash : i \in RecordsAt(headers, n)} \ {h}
      Rejected(b) == /\ others \cap Branch[b] # {}
                     /\ \A a \in Branch[b] : BlockNonce[a] > n => HasAncestry(headers, a)
      kept == {i \in headers : ~(i.state = "Notarized" /\ Rejected(i.hash))}
  IN  /\ headers' = {IF i.hash = h /\ i.state = "Notarized"
                     THEN [i EXCEPT !.authority = TRUE] ELSE i : i \in kept}
      /\ ambiguous' = isAmbiguous(headers')
      /\ LowerFinal(headers', n)
      /\ UNCHANGED <<checkpoint, settled>>
      /\ recomputeProbable

-----------------------------------------------------------------------------
(* Ambiguous notarisation, resolved by the settlement authority.           *)

AmbiguousNonce(n) == isAmbiguousAt(headers, n) /\ \A m \in BlockNonces : m < n => ~isAmbiguousAt(headers, m)

Candidates(n) == Notarized(headers, n) \cup
                 IF Cardinality(Notarized(headers, n)) > 1 THEN {} ELSE Processed(headers, n)

processedHashConflicts(n, h) == Processed(headers, n) \ {h} # {}

(* applyNotarizedHeaderSelection where no processed block stands against   *)
(* the selected hash; a selected processed block that was not notarised    *)
(* becomes so.                                                             *)
applyNotarizedHeaderSelection(n, h) ==
  LET mark(i) == IF i.hash = h /\ i.state = "Notarized"
                 THEN [i EXCEPT !.authority = TRUE] ELSE i
      selected == IF h \in Notarized(headers, n) THEN {}
                  ELSE {[i EXCEPT !.state = "Notarized", !.authority = TRUE] :
                          i \in {j \in headers : j.hash = h /\ j.state = "Processed"}}
      kept == selected \cup
              {mark(i) : i \in {j \in headers : ~(/\ j.state = "Notarized" /\ j.hash # h
                                                  /\ BlockNonce[j.hash] = n)}}
  IN  /\ n > BlockNonce[settled]
      /\ ~processedHashConflicts(n, h)
      /\ computeFinalCheckpoint(kept, isAmbiguous(kept), "other", Anchor)
      /\ UNCHANGED <<checkpoint, probable>>

-----------------------------------------------------------------------------
(* CheckFork.                                                              *)

isForkCandidate(p, i) ==
  /\ i.state # "Processed"
  /\ i.state = "Notarized" \/ (i.anc /\ ParentOf[i.hash] = ParentOf[p])
  /\ ~(i.state = "ReceivedTooLate" /\ highest > BlockNonce[i.hash])

ForkRound(i) == IF i.state = "Notarized" THEN 0 ELSE BlockRound[i.hash]

computeForkInfo(p) ==
  LET cand == {i \in RecordsAt(headers, BlockNonce[p]) : isForkCandidate(p, i)}
      Lower(i, j) == ForkRound(i) < ForkRound(j) \/ (ForkRound(i) = ForkRound(j) /\ i.hash <= j.hash)
  IN  {i \in cand : \A j \in cand : Lower(i, j)}

shouldSignalFork(p, i) ==
  /\ i.hash # p
  /\ \/ BlockRound[p] > ForkRound(i)
     \/ BlockRound[p] = ForkRound(i) /\ p > i.hash /\ highest <= BlockNonce[p]

(* The forks detected: the hash to follow at every nonce with a signal.    *)
ForksAt(n) ==
  UNION {{[nonce |-> n, hash |-> i.hash, round |-> ForkRound(i)] :
            i \in {j \in computeForkInfo(p) : shouldSignalFork(p, j)}} : p \in Processed(headers, n)}

Forks ==
  UNION {ForksAt(n) : n \in {m \in BlockNonces :
                               /\ m > BlockNonce[final]
                               /\ ~(ambiguous /\ isAmbiguousAt(headers, m))}}

LowestFork == {f \in Forks : \A g \in Forks : f.nonce <= g.nonce}
=============================================================================
