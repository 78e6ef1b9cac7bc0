-------------------------- MODULE ResultsTracker --------------------------
(***************************************************************************)
(* The tracker of execution results that wait to be notarised              *)
(* (process/asyncExecution/executionTrack).  A result is the hash of the   *)
(* executed header and the root hash it led to; nonce and round belong to  *)
(* the header.  Every exported method holds the tracker's mutex from its   *)
(* first to its last access, so each is one action.                        *)
(*                                                                         *)
(* Next calls the methods in every order with every argument; the caller's *)
(* side is in AsyncExecution.                                              *)
(***************************************************************************)
EXTENDS Integers, Sequences

CONSTANTS Headers,              \* hashes of the known headers
          NonceOf,              \* nonce of each header
          Roots,                \* root hashes an execution may lead to
          FirstResult,          \* the notarised result the node starts from
          MaxNotarized,         \* most results one header notarises
          MaxDismissedBatches   \* capacity of the queue of dismissed batches

Result == [hash : Headers, root : Roots]

ASSUME TrackerAssumption ==
  /\ NonceOf \in [Headers -> Nat]
  /\ FirstResult \in Result
  /\ MaxNotarized \in Nat
  /\ MaxDismissedBatches \in Nat \ {0}

VARIABLES
  lastNotarizedResult,
  executionResultsByHash,    \* hash -> result, the pending results
  nonceHash,                 \* nonce -> hash of the pending result
  lastExecutedResultHash,
  consensusCommittedHashes,  \* nonce -> hash of the block consensus committed
  dismissedBatches           \* sequence of [anchor, results]

indexVars == <<executionResultsByHash, nonceHash>>

trackerVars == <<lastNotarizedResult, indexVars, lastExecutedResultHash,
                 consensusCommittedHashes, dismissedBatches>>

Put(f, k, v) == [x \in DOMAIN f \cup {k} |-> IF x = k THEN v ELSE f[x]]

Without(f, S) == [x \in DOMAIN f \ S |-> f[x]]

Empty == [x \in {} |-> x]

nonceOf(r) == NonceOf[r.hash]

notarizedNonce == nonceOf(lastNotarizedResult)

-----------------------------------------------------------------------------
(* Queries.                                                                *)

Pending == {executionResultsByHash[h] : h \in DOMAIN executionResultsByHash}

(* getPendingExecutionResults returns the results sorted, without an error. *)
PendingInOrder ==
  /\ \A r, s \in Pending : nonceOf(r) = nonceOf(s) => r = s
  /\ \A r \in Pending :
       /\ nonceOf(r) > notarizedNonce
       /\ \A n \in notarizedNonce + 1 .. nonceOf(r) : \E s \in Pending : nonceOf(s) = n

(* Mutant: only the result at nonce n, not the ones executed on it. *)
MutantPendingFrom(n) == {r \in Pending : nonceOf(r) = n}

PendingFrom(n) == {r \in Pending : nonceOf(r) >= n}

(* The last result before nonce n: pending, or the notarised one. *)
ResultBefore(n) ==
  IF \E r \in Pending : nonceOf(r) < n
  THEN CHOOSE r \in Pending :
         /\ nonceOf(r) < n
         /\ \A s \in Pending : nonceOf(s) < n => nonceOf(s) <= nonceOf(r)
  ELSE lastNotarizedResult

LastExecutionKnown ==
  \/ lastExecutedResultHash = lastNotarizedResult.hash
  \/ lastExecutedResultHash \in DOMAIN executionResultsByHash

lastExecutedNonce == NonceOf[lastExecutedResultHash]

-----------------------------------------------------------------------------
(* AddExecutionResult.                                                     *)

(* Mutant: a late result is not compared with the committed block. *)
MutantCommittedOther(r) == FALSE

CommittedOther(r) ==
  /\ nonceOf(r) \in DOMAIN consensusCommittedHashes
  /\ consensusCommittedHashes[nonceOf(r)] # r.hash

(* The call returns (false, nil). *)
AddRejected(r) == nonceOf(r) > notarizedNonce /\ CommittedOther(r)

(* Mutant: a result above the next nonce is accepted too. *)
MutantCanAdd(r) ==
  nonceOf(r) > notarizedNonce /\ ~CommittedOther(r) /\ LastExecutionKnown

(* The call returns (true, nil). *)
CanAdd(r) ==
  /\ nonceOf(r) > notarizedNonce
  /\ ~CommittedOther(r)
  /\ LastExecutionKnown
  /\ nonceOf(r) \in {lastExecutedNonce, lastExecutedNonce + 1}

(* Mutant: the replaced result stays in the map by hash. *)
MutantSameNonce(r) == {}

SameNonce(r) ==
  IF nonceOf(r) \in DOMAIN nonceHash THEN {nonceHash[nonceOf(r)]} ELSE {}

AddExecutionResult(r) ==
  /\ CanAdd(r)
  /\ executionResultsByHash' = Put(Without(executionResultsByHash, SameNonce(r)), r.hash, r)
  /\ nonceHash' = Put(nonceHash, nonceOf(r), r.hash)
  /\ lastExecutedResultHash' = r.hash
  /\ UNCHANGED <<lastNotarizedResult, consensusCommittedHashes, dismissedBatches>>

-----------------------------------------------------------------------------
(* Removal.                                                                *)

addDismissedBatch(anchor, rs) ==
  LET batch == [anchor |-> anchor, results |-> rs]
  IN dismissedBatches' =
       IF Len(dismissedBatches) >= MaxDismissedBatches
       THEN Append(Tail(dismissedBatches), batch)
       ELSE Append(dismissedBatches, batch)

HashesOf(rs) == {r.hash : r \in rs}

NoncesOf(rs) == {nonceOf(r) : r \in rs}

removeExecutionResultsFromMaps(rs) ==
  /\ executionResultsByHash' = Without(executionResultsByHash, HashesOf(rs))
  /\ nonceHash' = Without(nonceHash, NoncesOf(rs))

cleanExecutionResults(rs) ==
  /\ removeExecutionResultsFromMaps(rs)
  /\ consensusCommittedHashes' = Without(consensusCommittedHashes, NoncesOf(rs))

(* removePendingFromNonce; an error leaves the tracker alone. *)
RemoveFromNonce(n) ==
  IF PendingInOrder /\ PendingFrom(n) # {}
  THEN /\ addDismissedBatch(ResultBefore(n), PendingFrom(n))
       /\ removeExecutionResultsFromMaps(PendingFrom(n))
       /\ lastExecutedResultHash' = ResultBefore(n).hash
       /\ UNCHANGED <<lastNotarizedResult, consensusCommittedHashes>>
  ELSE UNCHANGED trackerVars

(* Mutant: the anchor is the new notarised result, not the old one. *)
MutantCleanUnprotected(r) ==
  /\ IF PendingInOrder /\ Pending # {}
     THEN addDismissedBatch(r, Pending)
     ELSE UNCHANGED dismissedBatches
  /\ executionResultsByHash' = Empty
  /\ nonceHash' = Empty
  /\ lastNotarizedResult' = r
  /\ lastExecutedResultHash' = r.hash

cleanUnprotected(r) ==
  /\ IF PendingInOrder /\ Pending # {}
     THEN addDismissedBatch(lastNotarizedResult, Pending)
     ELSE UNCHANGED dismissedBatches
  /\ executionResultsByHash' = Empty
  /\ nonceHash' = Empty
  /\ lastNotarizedResult' = r
  /\ lastExecutedResultHash' = r.hash

Clean(r) == cleanUnprotected(r) /\ UNCHANGED consensusCommittedHashes

Rewind(r, tipNonce) ==
  /\ cleanUnprotected(r)
  /\ consensusCommittedHashes' =
       Without(consensusCommittedHashes, {n \in DOMAIN consensusCommittedHashes : n > tipNonce})

-----------------------------------------------------------------------------
(* Commit of a header: the block consensus chose, the results it notarises. *)

recordCommitted(h, v3) ==
  IF v3 THEN Put(consensusCommittedHashes, NonceOf[h], h) ELSE consensusCommittedHashes

HasOtherPending(h) ==
  /\ NonceOf[h] \in DOMAIN nonceHash
  /\ nonceHash[NonceOf[h]] \in DOMAIN executionResultsByHash
  /\ nonceHash[NonceOf[h]] # h

CleanOnConsensusReached(h, v3) ==
  /\ consensusCommittedHashes' = recordCommitted(h, v3)
  /\ IF HasOtherPending(h) /\ PendingInOrder
     THEN /\ addDismissedBatch(ResultBefore(NonceOf[h]), PendingFrom(NonceOf[h]))
          /\ removeExecutionResultsFromMaps(PendingFrom(NonceOf[h]))
          /\ lastExecutedResultHash' = ResultBefore(NonceOf[h]).hash
     ELSE UNCHANGED <<indexVars, lastExecutedResultHash, dismissedBatches>>
  /\ UNCHANGED lastNotarizedResult

(* The i-th pending result: getPending has no error, so it is at this nonce. *)
PendingAt(i) == {r \in Pending : nonceOf(r) = notarizedNonce + i}

Matching(rs, i) == rs[i] \in PendingAt(i)

(* cleanConfirmedExecutionResults: all results of the header are pending. *)
ConfirmAll(rs) ==
  /\ rs # <<>>
  /\ PendingInOrder
  /\ \A i \in DOMAIN rs : Matching(rs, i)
  /\ cleanExecutionResults({rs[i] : i \in DOMAIN rs})
  /\ lastNotarizedResult' = rs[Len(rs)]
  /\ UNCHANGED <<lastExecutedResultHash, dismissedBatches>>

FirstMismatch(rs, i) ==
  /\ PendingInOrder
  /\ \A j \in 1 .. i - 1 : Matching(rs, j)
  /\ ~Matching(rs, i)

(* The i-th is the first that differs: drop it and what was executed on it. *)
ConfirmMismatch(rs, i) ==
  LET anchor == IF i = 1 THEN lastNotarizedResult ELSE rs[i - 1]
  IN /\ FirstMismatch(rs, i)
     /\ PendingAt(i) # {}
     /\ addDismissedBatch(anchor, PendingFrom(notarizedNonce + i))
     /\ cleanExecutionResults(PendingFrom(notarizedNonce + i))
     /\ lastExecutedResultHash' = anchor.hash
     /\ UNCHANGED lastNotarizedResult

(* Nothing to notarise, or an error: not all of the results are there yet. *)
ConfirmNothing(rs) ==
  /\ \/ rs = <<>>
     \/ ~PendingInOrder
     \/ \E i \in DOMAIN rs : FirstMismatch(rs, i) /\ PendingAt(i) = {}
  /\ UNCHANGED trackerVars

CleanConfirmedExecutionResults(rs) ==
  \/ ConfirmAll(rs)
  \/ \E i \in DOMAIN rs : ConfirmMismatch(rs, i)
  \/ ConfirmNothing(rs)

(* Called on start and for headers older than V3, when nothing is pending. *)
SetLastNotarizedResult(r) ==
  /\ Pending = {}
  /\ lastNotarizedResult' = r
  /\ lastExecutedResultHash' = r.hash
  /\ UNCHANGED <<indexVars, consensusCommittedHashes, dismissedBatches>>

PopDismissedResults ==
  /\ dismissedBatches' = <<>>
  /\ UNCHANGED <<lastNotarizedResult, indexVars, lastExecutedResultHash, consensusCommittedHashes>>

-----------------------------------------------------------------------------
TrackerInit ==
  /\ lastNotarizedResult = FirstResult
  /\ executionResultsByHash = Empty
  /\ nonceHash = Empty
  /\ lastExecutedResultHash = FirstResult.hash
  /\ consensusCommittedHashes = Empty
  /\ dismissedBatches = <<>>

NotarizedResults == UNION {[1 .. k -> Result] : k \in 0 .. MaxNotarized}

TrackerNext ==
  \/ \E r \in Result : AddExecutionResult(r)
  \/ \E rs \in NotarizedResults : CleanConfirmedExecutionResults(rs)
  \/ \E h \in Headers, v3 \in BOOLEAN : CleanOnConsensusReached(h, v3)
  \/ \E h \in Headers : RemoveFromNonce(NonceOf[h])
  \/ Clean(lastNotarizedResult)
  \/ \E r \in Result, h \in Headers : Rewind(r, NonceOf[h])
  \/ \E r \in Result : SetLastNotarizedResult(r)
  \/ PopDismissedResults

TrackerSpec == TrackerInit /\ [][TrackerNext]_trackerVars

-----------------------------------------------------------------------------
(* Each property is about every sequence of calls of the tracker's methods. *)

Batch == [anchor : Result, results : SUBSET Result]

(* The tracker's variables have the types of the Go fields. *)
TrackerTypeOK ==
  /\ lastNotarizedResult \in Result
  /\ \A h \in DOMAIN executionResultsByHash :
       h \in Headers /\ executionResultsByHash[h] \in Result
  /\ \A n \in DOMAIN nonceHash : n \in Nat /\ nonceHash[n] \in Headers
  /\ lastExecutedResultHash \in Headers
  /\ \A n \in DOMAIN consensusCommittedHashes :
       n \in Nat /\ consensusCommittedHashes[n] \in Headers
  /\ dismissedBatches \in Seq(Batch)
  /\ Len(dismissedBatches) <= MaxDismissedBatches

(* The two maps that AddExecutionResult and the removals maintain hold the *)
(* same results: the result under a hash is the one its nonce leads to.    *)
IndexesAgree ==
  /\ \A h \in DOMAIN executionResultsByHash :
       /\ executionResultsByHash[h].hash = h
       /\ NonceOf[h] \in DOMAIN nonceHash
       /\ nonceHash[NonceOf[h]] = h
  /\ \A n \in DOMAIN nonceHash :
       /\ nonceHash[n] \in DOMAIN executionResultsByHash
       /\ NonceOf[nonceHash[n]] = n

(* GetPendingExecutionResults never returns                                *)
(* ErrDifferentNoncesConfirmedExecutionResults, and the last executed      *)
(* result is the last pending one, or the notarised one if none is: a      *)
(* tracker where this fails refuses every further result and removal.      *)
PendingGapless ==
  /\ PendingInOrder
  /\ IF Pending = {}
     THEN lastExecutedResultHash = lastNotarizedResult.hash
     ELSE /\ lastExecutedResultHash \in DOMAIN executionResultsByHash
          /\ \A r \in Pending : nonceOf(r) <= lastExecutedNonce

(* A pending result at a nonce whose block consensus committed is the      *)
(* result of that block: CleanOnConsensusReached removes any other one,    *)
(* AddExecutionResult keeps a late one out.                                *)
PendingAsCommitted ==
  \A n \in DOMAIN nonceHash \cap DOMAIN consensusCommittedHashes :
    nonceHash[n] = consensusCommittedHashes[n]

(* The anchor of a dismissed batch is the result just before the first     *)
(* dismissed one, and the batch has no gap: cancelPrune reads the previous *)
(* root hash of each dismissed result from its neighbour in the batch.     *)
DismissedAnchored ==
  \A k \in DOMAIN dismissedBatches :
    LET b == dismissedBatches[k]
    IN /\ b.results # {}
       /\ \A r \in b.results :
            /\ nonceOf(r) > nonceOf(b.anchor)
            /\ \A n \in nonceOf(b.anchor) + 1 .. nonceOf(r) :
                 \E s \in b.results : nonceOf(s) = n

=============================================================================
