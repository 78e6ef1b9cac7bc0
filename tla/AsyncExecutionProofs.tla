------------------------ MODULE AsyncExecutionProofs ------------------------
(***************************************************************************)
(* Proofs about the results tracker and about asynchronous execution, for  *)
(* every tree of headers, every capacity of the queue, every number of     *)
(* attempts and with every failure.                                        *)
(*                                                                         *)
(* PauseInv: a pause is requested with processingDone set, only the        *)
(* executor clears it, and only on its way to the top of its loop.         *)
(*                                                                         *)
(* TypeInv: the types, the tracker's own invariant, the queue, and which   *)
(* places of a call hold the mutex and the pause.  AddRaced stays within   *)
(* the capacity of the queue because the mutex was never let go.           *)
(*                                                                         *)
(* LinkInv: the last execution result, the results below a replacement and *)
(* the block in process agree with the tracker at every nonce that the     *)
(* tracker still has.  Other goroutines only take results away at either   *)
(* end (Shrinks), which keeps that; a paused section moves the tracker and *)
(* the last execution result together.                                     *)
(***************************************************************************)
EXTENDS AsyncExecution, FiniteSetTheorems, WellFoundedInduction, TLAPS

-----------------------------------------------------------------------------
(* The results tracker alone, under every sequence of calls.                *)
(* The inductive invariant is the conjunction of the properties the run      *)
(* checks.  The steps are proved on an equivalent of PendingGapless that     *)
(* speaks of nonces only: the domain of nonceHash is the interval from the   *)
(* notarised to the last executed nonce (Window).                            *)

TrackerInv == /\ TrackerTypeOK
       /\ IndexesAgree
       /\ PendingGapless
       /\ PendingAsCommitted
       /\ DismissedAnchored

PendingResult(k) == executionResultsByHash[nonceHash[k]]

Window ==
  /\ notarizedNonce <= lastExecutedNonce
  /\ DOMAIN nonceHash = notarizedNonce + 1 .. lastExecutedNonce
  /\ IF lastExecutedNonce = notarizedNonce
     THEN lastExecutedResultHash = lastNotarizedResult.hash
     ELSE nonceHash[lastExecutedNonce] = lastExecutedResultHash

(* The pending results are those the nonces lead to. *)
LEMMA PendingByNonce ==
  ASSUME TrackerTypeOK, IndexesAgree
  PROVE  /\ notarizedNonce \in Nat
         /\ lastExecutedNonce \in Nat
         /\ DOMAIN nonceHash \subseteq Nat
         /\ \A k \in DOMAIN nonceHash :
              /\ PendingResult(k) \in Pending
              /\ PendingResult(k) \in Result
              /\ PendingResult(k).hash = nonceHash[k]
              /\ nonceOf(PendingResult(k)) = k
         /\ \A r \in Pending : nonceOf(r) \in DOMAIN nonceHash /\ r = PendingResult(nonceOf(r))
  <1>1. notarizedNonce \in Nat /\ lastExecutedNonce \in Nat
    BY TrackerAssumption DEF TrackerTypeOK, Result, notarizedNonce, nonceOf, lastExecutedNonce
  <1>2. DOMAIN nonceHash \subseteq Nat
    BY DEF TrackerTypeOK
  <1>3. ASSUME NEW k \in DOMAIN nonceHash
        PROVE  /\ PendingResult(k) \in Pending /\ PendingResult(k) \in Result
               /\ PendingResult(k).hash = nonceHash[k] /\ nonceOf(PendingResult(k)) = k
    BY <1>3 DEF TrackerTypeOK, IndexesAgree, PendingResult, Pending, nonceOf
  <1>4. ASSUME NEW r \in Pending
        PROVE  nonceOf(r) \in DOMAIN nonceHash /\ r = PendingResult(nonceOf(r))
    BY <1>4 DEF IndexesAgree, PendingResult, Pending, nonceOf
  <1> QED BY <1>1, <1>2, <1>3, <1>4

LEMMA GaplessIsWindow ==
  ASSUME TrackerTypeOK, IndexesAgree
  PROVE  PendingGapless <=> Window
  <1> USE PendingByNonce
  <1> HIDE DEF nonceOf, Pending, PendingResult, notarizedNonce, lastExecutedNonce, Result, IndexesAgree, TrackerTypeOK
  <1>0. /\ \A h \in DOMAIN executionResultsByHash :
             NonceOf[h] \in DOMAIN nonceHash /\ nonceHash[NonceOf[h]] = h
        /\ \A n \in DOMAIN nonceHash : nonceHash[n] \in DOMAIN executionResultsByHash
    BY DEF IndexesAgree
  <1>1. Pending = {} <=> DOMAIN nonceHash = {}
    OBVIOUS
  <1>2. ASSUME PendingGapless PROVE Window
    <2>1. PendingInOrder
      BY <1>2 DEF PendingGapless
    <2>2. CASE Pending = {}
      <3>1. lastExecutedResultHash = lastNotarizedResult.hash
        BY <1>2, <2>2 DEF PendingGapless
      <3>2. lastExecutedNonce = notarizedNonce
        BY <3>1 DEF lastExecutedNonce, notarizedNonce, nonceOf
      <3> QED BY <1>1, <2>2, <3>1, <3>2 DEF Window
    <2>3. CASE Pending # {}
      <3>1. /\ lastExecutedResultHash \in DOMAIN executionResultsByHash
            /\ \A r \in Pending : nonceOf(r) <= lastExecutedNonce
        BY <1>2, <2>3 DEF PendingGapless
      <3>2. lastExecutedNonce \in DOMAIN nonceHash /\ nonceHash[lastExecutedNonce] = lastExecutedResultHash
        BY <3>1, <1>0 DEF lastExecutedNonce
      <3>3. \A k \in DOMAIN nonceHash : notarizedNonce < k /\ k <= lastExecutedNonce
        BY <2>1, <3>1 DEF PendingInOrder
      <3>4. \A k \in notarizedNonce + 1 .. lastExecutedNonce : k \in DOMAIN nonceHash
        BY <2>1, <3>2 DEF PendingInOrder
      <3>5. DOMAIN nonceHash = notarizedNonce + 1 .. lastExecutedNonce
        <4>1. \A k \in DOMAIN nonceHash : k \in notarizedNonce + 1 .. lastExecutedNonce
          BY <3>3
        <4> QED BY <3>4, <4>1
      <3> QED BY <3>2, <3>3, <3>5 DEF Window
    <2> QED BY <2>2, <2>3
  <1>3. ASSUME Window PROVE PendingGapless
    <2>1. DOMAIN nonceHash = notarizedNonce + 1 .. lastExecutedNonce
      BY <1>3 DEF Window
    <2>2. PendingInOrder
      BY <2>1 DEF PendingInOrder
    <2>3. CASE lastExecutedNonce = notarizedNonce
      <3>1. Pending = {}
        BY <1>1, <2>1, <2>3
      <3> QED BY <2>2, <2>3, <3>1, <1>3 DEF PendingGapless, Window
    <2>4. CASE lastExecutedNonce # notarizedNonce
      <3>1. lastExecutedNonce \in DOMAIN nonceHash /\ nonceHash[lastExecutedNonce] = lastExecutedResultHash
        BY <2>1, <2>4, <1>3 DEF Window
      <3>2. lastExecutedResultHash \in DOMAIN executionResultsByHash
        BY <3>1, <1>0
      <3>3. \A r \in Pending : nonceOf(r) <= lastExecutedNonce
        BY <2>1
      <3>4. Pending # {}
        BY <3>1, <1>1
      <3> QED BY <2>2, <3>2, <3>3, <3>4 DEF PendingGapless
    <2> QED BY <2>3, <2>4
  <1> QED BY <1>2, <1>3

-----------------------------------------------------------------------------
(* What the queries return.                                                *)

LEMMA PendingFromByNonce ==
  ASSUME TrackerTypeOK, IndexesAgree, NEW n \in Nat
  PROVE  /\ HashesOf(PendingFrom(n)) = {nonceHash[k] : k \in {j \in DOMAIN nonceHash : j >= n}}
         /\ NoncesOf(PendingFrom(n)) = {k \in DOMAIN nonceHash : k >= n}
         /\ PendingFrom(n) \subseteq Result
  <1> USE PendingByNonce
  <1> HIDE DEF nonceOf, Pending, PendingResult, notarizedNonce, lastExecutedNonce, Result, IndexesAgree, TrackerTypeOK
  <1>1. \A k \in DOMAIN nonceHash : k >= n => PendingResult(k) \in PendingFrom(n)
    BY DEF PendingFrom
  <1>2. \A r \in PendingFrom(n) :
          /\ nonceOf(r) \in DOMAIN nonceHash
          /\ nonceOf(r) >= n
          /\ r = PendingResult(nonceOf(r))
          /\ r.hash = nonceHash[nonceOf(r)]
    BY DEF PendingFrom
  <1>3. PendingFrom(n) \subseteq Result
    BY <1>2
  <1>4. NoncesOf(PendingFrom(n)) = {k \in DOMAIN nonceHash : k >= n}
    BY <1>1, <1>2 DEF NoncesOf
  <1>5. HashesOf(PendingFrom(n)) = {nonceHash[k] : k \in {j \in DOMAIN nonceHash : j >= n}}
    BY <1>1, <1>2 DEF HashesOf
  <1> QED BY <1>3, <1>4, <1>5

(* The result at nonce k, pending or notarised. *)
ResultAt(k) == IF k = notarizedNonce THEN lastNotarizedResult ELSE PendingResult(k)

LEMMA ResultBeforeByNonce ==
  ASSUME TrackerTypeOK, IndexesAgree, Window,
         NEW n \in Nat, PendingFrom(n) # {}
  PROVE  \E m \in notarizedNonce + 1 .. lastExecutedNonce :
           /\ PendingFrom(n) = PendingFrom(m)
           /\ ResultBefore(n) = ResultAt(m - 1)
           /\ n > notarizedNonce => m = n
  <1> USE PendingByNonce
  <1> HIDE DEF nonceOf, Pending, PendingResult, notarizedNonce, lastExecutedNonce, Result, IndexesAgree, TrackerTypeOK
  <1>1. DOMAIN nonceHash = notarizedNonce + 1 .. lastExecutedNonce
    BY DEF Window
  <1>2. PICK r \in Pending : nonceOf(r) >= n
    BY DEF PendingFrom
  <1>3. nonceOf(r) \in notarizedNonce + 1 .. lastExecutedNonce
    BY <1>1, <1>2
  <1>4. CASE n <= notarizedNonce
    <2>1. PendingFrom(n) = PendingFrom(notarizedNonce + 1)
      BY <1>1, <1>4 DEF PendingFrom
    <2>2. ~ \E s \in Pending : nonceOf(s) < n
      BY <1>1, <1>4
    <2>3. ResultBefore(n) = ResultAt(notarizedNonce + 1 - 1)
      BY <2>2 DEF ResultBefore, ResultAt
    <2>4. notarizedNonce + 1 \in notarizedNonce + 1 .. lastExecutedNonce
      BY <1>3
    <2> QED BY <2>1, <2>3, <2>4, <1>4
  <1>5. CASE n = notarizedNonce + 1
    <2>1. ~ \E s \in Pending : nonceOf(s) < n
      BY <1>1, <1>5
    <2>2. ResultBefore(n) = ResultAt(n - 1)
      BY <2>1, <1>5 DEF ResultBefore, ResultAt
    <2>3. n \in notarizedNonce + 1 .. lastExecutedNonce
      BY <1>2, <1>3, <1>5
    <2> QED BY <2>2, <2>3
  <1>6. CASE n > notarizedNonce + 1
    <2>1. n - 1 \in DOMAIN nonceHash
      BY <1>1, <1>2, <1>3, <1>6
    <2>2. /\ PendingResult(n - 1) \in Pending
          /\ nonceOf(PendingResult(n - 1)) = n - 1
          /\ \A s \in Pending : nonceOf(s) < n => nonceOf(s) <= nonceOf(PendingResult(n - 1))
      BY <1>1, <2>1
    <2>3. PICK b \in Pending :
            /\ b = ResultBefore(n)
            /\ nonceOf(b) < n
            /\ \A s \in Pending : nonceOf(s) < n => nonceOf(s) <= nonceOf(b)
      BY <2>2, <1>6 DEF ResultBefore
    <2>4. nonceOf(b) = n - 1
      BY <1>1, <1>6, <2>2, <2>3
    <2>5. ResultBefore(n) = ResultAt(n - 1)
      BY <2>3, <2>4, <1>6 DEF ResultAt
    <2>6. n \in notarizedNonce + 1 .. lastExecutedNonce
      BY <1>2, <1>3, <1>6
    <2> QED BY <2>5, <2>6
  <1> QED BY <1>4, <1>5, <1>6

-----------------------------------------------------------------------------
(* Steps that several methods share.                                       *)

MapsTypeOK ==
  /\ \A h \in DOMAIN executionResultsByHash :
       h \in Headers /\ executionResultsByHash[h] \in Result
  /\ \A n \in DOMAIN nonceHash : n \in Nat /\ nonceHash[n] \in Headers

(* The results from nonce m on are removed. *)
LEMMA Truncate ==
  ASSUME TrackerTypeOK, IndexesAgree, Window,
         NEW m \in notarizedNonce + 1 .. lastExecutedNonce,
         removeExecutionResultsFromMaps(PendingFrom(m)),
         lastNotarizedResult' = lastNotarizedResult,
         lastExecutedResultHash' = ResultAt(m - 1).hash
  PROVE  /\ MapsTypeOK' /\ IndexesAgree' /\ Window'
         /\ lastExecutedResultHash' \in Headers
         /\ \A n \in DOMAIN nonceHash' : n \in DOMAIN nonceHash /\ n < m /\ nonceHash'[n] = nonceHash[n]
  <1>1. m \in Nat /\ notarizedNonce \in Nat /\ lastExecutedNonce \in Nat
    BY PendingByNonce
  <1>2. /\ executionResultsByHash' =
             Without(executionResultsByHash, {nonceHash[k] : k \in {j \in DOMAIN nonceHash : j >= m}})
        /\ nonceHash' = Without(nonceHash, {k \in DOMAIN nonceHash : k >= m})
    BY <1>1, PendingFromByNonce DEF removeExecutionResultsFromMaps
  <1>3. /\ DOMAIN nonceHash' = {k \in DOMAIN nonceHash : k < m}
        /\ \A n \in DOMAIN nonceHash' : nonceHash'[n] = nonceHash[n]
    BY <1>1, <1>2, PendingByNonce DEF Without
  <1>4. /\ DOMAIN executionResultsByHash' = {h \in DOMAIN executionResultsByHash : NonceOf[h] < m}
        /\ \A h \in DOMAIN executionResultsByHash' : executionResultsByHash'[h] = executionResultsByHash[h]
    BY <1>1, <1>2, TrackerAssumption DEF Without, IndexesAgree, TrackerTypeOK
  <1>5. DOMAIN nonceHash = notarizedNonce + 1 .. lastExecutedNonce
    BY DEF Window
  <1>6. DOMAIN nonceHash' = notarizedNonce + 1 .. m - 1
    BY <1>1, <1>3, <1>5
  <1>7. MapsTypeOK'
    BY <1>3, <1>4 DEF MapsTypeOK, TrackerTypeOK
  <1>8. IndexesAgree'
    BY <1>3, <1>4 DEF IndexesAgree, TrackerTypeOK
  <1>9. notarizedNonce' = notarizedNonce
    BY DEF notarizedNonce, nonceOf
  <1>10. CASE m - 1 = notarizedNonce
    <2>1. lastExecutedResultHash' = lastNotarizedResult.hash
      BY <1>10 DEF ResultAt
    <2>2. lastExecutedNonce' = notarizedNonce /\ lastExecutedResultHash' \in Headers
      BY <2>1 DEF lastExecutedNonce, notarizedNonce, nonceOf, TrackerTypeOK, Result
    <2> QED BY <1>1, <1>3, <1>6, <1>7, <1>8, <1>9, <1>10, <2>1, <2>2 DEF Window
  <1>11. CASE m - 1 # notarizedNonce
    <2>1. m - 1 \in DOMAIN nonceHash
      BY <1>1, <1>5, <1>11
    <2>2. lastExecutedResultHash' = nonceHash[m - 1]
      BY <1>11, <2>1, PendingByNonce DEF ResultAt
    <2>3. lastExecutedNonce' = m - 1 /\ lastExecutedResultHash' \in Headers
      BY <2>1, <2>2 DEF lastExecutedNonce, IndexesAgree, TrackerTypeOK
    <2>4. m - 1 \in DOMAIN nonceHash'
      BY <1>1, <1>6, <1>11
    <2> QED BY <1>1, <1>3, <1>6, <1>7, <1>8, <1>9, <1>11, <2>2, <2>3, <2>4 DEF Window
  <1> QED BY <1>10, <1>11

(* A batch without a gap joins the bounded queue of batches. *)
LEMMA QueueBatch ==
  ASSUME TrackerTypeOK, DismissedAnchored,
         NEW anchor \in Result, NEW rs \in SUBSET Result,
         rs # {},
         \A r \in rs : /\ nonceOf(r) > nonceOf(anchor)
                       /\ \A n \in nonceOf(anchor) + 1 .. nonceOf(r) : \E s \in rs : nonceOf(s) = n,
         addDismissedBatch(anchor, rs)
  PROVE  /\ dismissedBatches' \in Seq(Batch)
         /\ Len(dismissedBatches') <= MaxDismissedBatches
         /\ DismissedAnchored'
  <1> DEFINE batch == [anchor |-> anchor, results |-> rs]
             Good(b) == /\ b.results # {}
                        /\ \A r \in b.results :
                             /\ nonceOf(r) > nonceOf(b.anchor)
                             /\ \A n \in nonceOf(b.anchor) + 1 .. nonceOf(r) :
                                  \E s \in b.results : nonceOf(s) = n
  <1>1. batch \in Batch
    BY DEF Batch
  <1>2. Good(batch)
    OBVIOUS
  <1>3. /\ dismissedBatches \in Seq(Batch)
        /\ Len(dismissedBatches) <= MaxDismissedBatches
        /\ \A k \in 1 .. Len(dismissedBatches) : Good(dismissedBatches[k])
    BY DEF TrackerTypeOK, DismissedAnchored
  <1>4. dismissedBatches' = IF Len(dismissedBatches) >= MaxDismissedBatches
                            THEN Append(Tail(dismissedBatches), batch)
                            ELSE Append(dismissedBatches, batch)
    BY DEF addDismissedBatch
  <1>5. MaxDismissedBatches \in Nat \ {0}
    BY TrackerAssumption
  <1> HIDE DEF batch, Good
  <1>6. CASE Len(dismissedBatches) >= MaxDismissedBatches
    <2>1. /\ Tail(dismissedBatches) \in Seq(Batch)
          /\ Len(Tail(dismissedBatches)) = Len(dismissedBatches) - 1
          /\ \A k \in 1 .. Len(dismissedBatches) - 1 : Tail(dismissedBatches)[k] = dismissedBatches[k + 1]
      BY <1>3, <1>5, <1>6
    <2>2. dismissedBatches' = Append(Tail(dismissedBatches), batch)
      BY <1>4, <1>6
    <2>3. /\ dismissedBatches' \in Seq(Batch)
          /\ Len(dismissedBatches') = Len(dismissedBatches)
      BY <1>1, <1>3, <1>5, <1>6, <2>1, <2>2
    <2>4. \A k \in 1 .. Len(dismissedBatches') : Good(dismissedBatches'[k])
      <3> SUFFICES ASSUME NEW k \in 1 .. Len(dismissedBatches')
                   PROVE  Good(dismissedBatches'[k])
        OBVIOUS
      <3>1. CASE k = Len(dismissedBatches)
        <4>1. dismissedBatches'[k] = batch
          BY <1>1, <1>3, <2>1, <2>2, <3>1
        <4> QED BY <1>2, <4>1
      <3>2. CASE k # Len(dismissedBatches)
        <4>1. k + 1 \in 1 .. Len(dismissedBatches)
          BY <1>3, <2>3, <3>2
        <4>2. k \in 1 .. Len(dismissedBatches) - 1
          <5>1. Len(dismissedBatches) \in Nat
            BY <1>3
          <5> QED BY <2>3, <3>2, <5>1
        <4>3. Tail(dismissedBatches)[k] = dismissedBatches[k + 1]
          BY <2>1, <4>2
        <4>4. k \in 1 .. Len(Tail(dismissedBatches))
          BY <2>1, <4>2
        <4>5. dismissedBatches'[k] = Tail(dismissedBatches)[k]
          BY <1>1, <2>1, <2>2, <4>4
        <4> QED BY <1>3, <4>1, <4>3, <4>5
      <3> QED BY <3>1, <3>2
    <2> QED BY <1>3, <2>3, <2>4 DEF DismissedAnchored, Good, nonceOf
  <1>7. CASE ~(Len(dismissedBatches) >= MaxDismissedBatches)
    <2>1. dismissedBatches' = Append(dismissedBatches, batch)
      BY <1>4, <1>7
    <2>2. /\ dismissedBatches' \in Seq(Batch)
          /\ Len(dismissedBatches') = Len(dismissedBatches) + 1
      BY <1>1, <1>3, <2>1
    <2>3. \A k \in 1 .. Len(dismissedBatches') : Good(dismissedBatches'[k])
      <3> SUFFICES ASSUME NEW k \in 1 .. Len(dismissedBatches')
                   PROVE  Good(dismissedBatches'[k])
        OBVIOUS
      <3>1. CASE k = Len(dismissedBatches) + 1
        <4>1. dismissedBatches'[k] = batch
          BY <1>1, <1>3, <2>1, <3>1
        <4> QED BY <1>2, <4>1
      <3>2. CASE k # Len(dismissedBatches) + 1
        <4>1. k \in 1 .. Len(dismissedBatches)
          BY <1>3, <2>2, <3>2
        <4>2. dismissedBatches'[k] = dismissedBatches[k]
          BY <1>1, <1>3, <2>1, <2>2, <4>1
        <4> QED BY <1>3, <4>1, <4>2
      <3> QED BY <3>1, <3>2
    <2> QED BY <1>3, <1>5, <1>7, <2>2, <2>3 DEF DismissedAnchored, Good, nonceOf
  <1> QED BY <1>6, <1>7

(* What is pending from nonce m on is a batch without a gap. *)
LEMMA PendingBatch ==
  ASSUME TrackerTypeOK, IndexesAgree, Window,
         NEW m \in notarizedNonce + 1 .. lastExecutedNonce
  PROVE  /\ ResultAt(m - 1) \in Result
         /\ PendingFrom(m) \in SUBSET Result
         /\ PendingFrom(m) # {}
         /\ \A r \in PendingFrom(m) :
              /\ nonceOf(r) > nonceOf(ResultAt(m - 1))
              /\ \A n \in nonceOf(ResultAt(m - 1)) + 1 .. nonceOf(r) :
                   \E s \in PendingFrom(m) : nonceOf(s) = n
  <1> USE PendingByNonce
  <1> HIDE DEF nonceOf, Pending, PendingResult, lastExecutedNonce, Result, IndexesAgree
  <1>1. DOMAIN nonceHash = notarizedNonce + 1 .. lastExecutedNonce
    BY DEF Window
  <1>2. ResultAt(m - 1) \in Result /\ nonceOf(ResultAt(m - 1)) = m - 1
    BY <1>1 DEF ResultAt, TrackerTypeOK, notarizedNonce
  <1>3. \A k \in m .. lastExecutedNonce : PendingResult(k) \in PendingFrom(m) /\ nonceOf(PendingResult(k)) = k
    BY <1>1 DEF PendingFrom
  <1>4. \A r \in PendingFrom(m) : r \in Result /\ nonceOf(r) \in m .. lastExecutedNonce
    BY <1>1 DEF PendingFrom
  <1>5. PendingFrom(m) # {}
    BY <1>3
  <1>6. ASSUME NEW r \in PendingFrom(m)
        PROVE  /\ nonceOf(r) > m - 1
               /\ \A n \in m - 1 + 1 .. nonceOf(r) : \E s \in PendingFrom(m) : nonceOf(s) = n
    BY <1>3, <1>4
  <1> QED BY <1>2, <1>4, <1>5, <1>6

-----------------------------------------------------------------------------
(* One lemma per method.                                                   *)

LEMMA StutterPreserves ==
  ASSUME TrackerInv, UNCHANGED trackerVars
  PROVE  TrackerInv'
  <1>1. /\ UNCHANGED <<lastNotarizedResult, executionResultsByHash, nonceHash>>
        /\ UNCHANGED <<lastExecutedResultHash, consensusCommittedHashes, dismissedBatches>>
    BY DEF trackerVars, indexVars
  <1>2. TrackerTypeOK' /\ IndexesAgree' /\ PendingAsCommitted'
    BY <1>1 DEF TrackerInv, TrackerTypeOK, IndexesAgree, PendingAsCommitted
  <1>3. DismissedAnchored'
    BY <1>1 DEF TrackerInv, DismissedAnchored, nonceOf
  <1>4. PendingGapless'
    BY <1>1 DEF TrackerInv, PendingGapless, PendingInOrder, Pending, notarizedNonce, lastExecutedNonce, nonceOf
  <1> QED BY <1>2, <1>3, <1>4 DEF TrackerInv

LEMMA AddPreserves ==
  ASSUME TrackerInv, NEW r \in Result, AddExecutionResult(r)
  PROVE  TrackerInv'
  <1>1. TrackerTypeOK /\ IndexesAgree /\ Window /\ PendingAsCommitted /\ DismissedAnchored
    BY GaplessIsWindow DEF TrackerInv
  <1> DEFINE n == nonceOf(r)
  <1>2. /\ n \in Nat /\ n = NonceOf[r.hash] /\ r.hash \in Headers
        /\ notarizedNonce \in Nat /\ lastExecutedNonce \in Nat
    BY <1>1, PendingByNonce, TrackerAssumption DEF nonceOf, Result
  <1>3. /\ n > notarizedNonce
        /\ ~CommittedOther(r)
        /\ n \in {lastExecutedNonce, lastExecutedNonce + 1}
    BY DEF AddExecutionResult, CanAdd
  <1>4. DOMAIN nonceHash = notarizedNonce + 1 .. lastExecutedNonce /\ notarizedNonce <= lastExecutedNonce
    BY <1>1 DEF Window
  <1>5. /\ DOMAIN nonceHash' = DOMAIN nonceHash \cup {n}
        /\ nonceHash'[n] = r.hash
        /\ \A k \in DOMAIN nonceHash : k # n => nonceHash'[k] = nonceHash[k]
    BY DEF AddExecutionResult, Put
  <1>6. /\ DOMAIN executionResultsByHash' = (DOMAIN executionResultsByHash \ SameNonce(r)) \cup {r.hash}
        /\ executionResultsByHash'[r.hash] = r
        /\ \A h \in DOMAIN executionResultsByHash' :
             h # r.hash => executionResultsByHash'[h] = executionResultsByHash[h]
    BY DEF AddExecutionResult, Put, Without
  <1>7. lastExecutedResultHash' = r.hash
    BY DEF AddExecutionResult
  <1>8. /\ UNCHANGED <<lastNotarizedResult, consensusCommittedHashes, dismissedBatches>>
        /\ notarizedNonce' = notarizedNonce
    BY DEF AddExecutionResult, notarizedNonce, nonceOf
  <1>9. \A h \in DOMAIN executionResultsByHash : h \in SameNonce(r) <=> NonceOf[h] = n
    BY <1>1, <1>2 DEF SameNonce, IndexesAgree
  <1>10. TrackerTypeOK'
    BY <1>1, <1>2, <1>5, <1>6, <1>7, <1>8 DEF TrackerTypeOK
  <1>11. IndexesAgree'
    <2> HIDE DEF n
    <2>1. ASSUME NEW h \in DOMAIN executionResultsByHash'
          PROVE  /\ executionResultsByHash'[h].hash = h
                 /\ NonceOf[h] \in DOMAIN nonceHash'
                 /\ nonceHash'[NonceOf[h]] = h
      BY <1>1, <1>2, <1>5, <1>6, <1>9 DEF IndexesAgree
    <2>2. ASSUME NEW k \in DOMAIN nonceHash'
          PROVE  /\ nonceHash'[k] \in DOMAIN executionResultsByHash'
                 /\ NonceOf[nonceHash'[k]] = k
      BY <1>1, <1>2, <1>5, <1>6, <1>9 DEF IndexesAgree
    <2> QED BY <2>1, <2>2 DEF IndexesAgree
  <1>12. Window'
    <2>1. lastExecutedNonce' = n
      BY <1>2, <1>7 DEF lastExecutedNonce
    <2> HIDE DEF n
    <2>2. DOMAIN nonceHash' = notarizedNonce + 1 .. n
      BY <1>2, <1>3, <1>4, <1>5
    <2> QED BY <1>2, <1>3, <1>5, <1>7, <1>8, <2>1, <2>2 DEF Window
  <1>13. PendingAsCommitted'
    BY <1>1, <1>3, <1>5, <1>8 DEF PendingAsCommitted, CommittedOther
  <1>14. DismissedAnchored'
    BY <1>1, <1>8 DEF DismissedAnchored, nonceOf
  <1>15. PendingGapless'
    BY <1>10, <1>11, <1>12, GaplessIsWindow, PTL
  <1> QED BY <1>10, <1>11, <1>13, <1>14, <1>15 DEF TrackerInv

(* The results from nonce n on are dismissed. *)
LEMMA DismissFrom ==
  ASSUME TrackerInv, NEW n \in Nat, PendingFrom(n) # {},
         addDismissedBatch(ResultBefore(n), PendingFrom(n)),
         removeExecutionResultsFromMaps(PendingFrom(n)),
         lastExecutedResultHash' = ResultBefore(n).hash,
         UNCHANGED lastNotarizedResult,
         \A k \in DOMAIN consensusCommittedHashes' :
           k \in Nat /\ consensusCommittedHashes'[k] \in Headers,
         \A k \in DOMAIN consensusCommittedHashes' : k < n =>
           /\ k \in DOMAIN consensusCommittedHashes
           /\ consensusCommittedHashes'[k] = consensusCommittedHashes[k]
  PROVE  TrackerInv'
  <1>1. TrackerTypeOK /\ IndexesAgree /\ Window /\ PendingAsCommitted /\ DismissedAnchored
    BY GaplessIsWindow DEF TrackerInv
  <1>2. PICK m \in notarizedNonce + 1 .. lastExecutedNonce :
          /\ PendingFrom(n) = PendingFrom(m)
          /\ ResultBefore(n) = ResultAt(m - 1)
          /\ n > notarizedNonce => m = n
    BY <1>1, ResultBeforeByNonce
  <1>3. /\ MapsTypeOK' /\ IndexesAgree' /\ Window'
        /\ lastExecutedResultHash' \in Headers
        /\ \A k \in DOMAIN nonceHash' : k \in DOMAIN nonceHash /\ k < m /\ nonceHash'[k] = nonceHash[k]
    <2>1. removeExecutionResultsFromMaps(PendingFrom(m)) /\ lastExecutedResultHash' = ResultAt(m - 1).hash
      BY <1>2
    <2> QED BY <1>1, <2>1, Truncate
  <1>4. /\ dismissedBatches' \in Seq(Batch)
        /\ Len(dismissedBatches') <= MaxDismissedBatches
        /\ DismissedAnchored'
    <2>1. addDismissedBatch(ResultAt(m - 1), PendingFrom(m))
      BY <1>2
    <2>2. /\ ResultAt(m - 1) \in Result
          /\ PendingFrom(m) \in SUBSET Result
          /\ PendingFrom(m) # {}
          /\ \A r \in PendingFrom(m) :
               /\ nonceOf(r) > nonceOf(ResultAt(m - 1))
               /\ \A k \in nonceOf(ResultAt(m - 1)) + 1 .. nonceOf(r) :
                    \E s \in PendingFrom(m) : nonceOf(s) = k
      BY <1>1, PendingBatch
    <2> HIDE DEF nonceOf, ResultAt, PendingFrom
    <2> QED BY <1>1, <2>1, <2>2, QueueBatch
  <1>5. TrackerTypeOK'
    BY <1>1, <1>3, <1>4 DEF TrackerTypeOK, MapsTypeOK
  <1>6. PendingAsCommitted'
    <2> SUFFICES ASSUME NEW k \in DOMAIN nonceHash', k \in DOMAIN consensusCommittedHashes'
                 PROVE  nonceHash'[k] = consensusCommittedHashes'[k]
      BY DEF PendingAsCommitted
    <2>1. k \in DOMAIN nonceHash /\ k < m /\ nonceHash'[k] = nonceHash[k] /\ k > notarizedNonce
      BY <1>1, <1>3, PendingByNonce DEF Window
    <2>2. k < n
      <3>1. k \in NoncesOf(PendingFrom(n)) <=> k >= n
        BY <1>1, <2>1, PendingFromByNonce
      <3>2. m \in Nat /\ k \in Nat
        BY <1>1, <2>1, PendingByNonce
      <3>3. k \in NoncesOf(PendingFrom(m)) <=> k >= m
        BY <1>1, <2>1, <3>2, PendingFromByNonce
      <3> QED BY <1>2, <2>1, <3>1, <3>2, <3>3
    <2> QED BY <1>1, <2>1, <2>2 DEF PendingAsCommitted
  <1>7. PendingGapless'
    BY <1>3, <1>5, GaplessIsWindow, PTL
  <1> QED BY <1>3, <1>4, <1>5, <1>6, <1>7 DEF TrackerInv

LEMMA RemovePreserves ==
  ASSUME TrackerInv, NEW n \in Nat, RemoveFromNonce(n)
  PROVE  TrackerInv'
  <1>1. CASE PendingInOrder /\ PendingFrom(n) # {}
    <2>1. /\ addDismissedBatch(ResultBefore(n), PendingFrom(n))
          /\ removeExecutionResultsFromMaps(PendingFrom(n))
          /\ lastExecutedResultHash' = ResultBefore(n).hash
          /\ UNCHANGED <<lastNotarizedResult, consensusCommittedHashes>>
      BY <1>1 DEF RemoveFromNonce
    <2>2. \A k \in DOMAIN consensusCommittedHashes : k \in Nat /\ consensusCommittedHashes[k] \in Headers
      BY DEF TrackerInv, TrackerTypeOK
    <2> QED BY <1>1, <2>1, <2>2, DismissFrom
  <1>2. CASE ~(PendingInOrder /\ PendingFrom(n) # {})
    <2>1. UNCHANGED trackerVars
      BY <1>2 DEF RemoveFromNonce
    <2> QED BY <2>1, StutterPreserves
  <1> QED BY <1>1, <1>2

LEMMA ConsensusReachedPreserves ==
  ASSUME TrackerInv, NEW h \in Headers, NEW v3 \in BOOLEAN, CleanOnConsensusReached(h, v3)
  PROVE  TrackerInv'
  <1> DEFINE n == NonceOf[h]
  <1>1. n \in Nat
    BY TrackerAssumption
  <1>2. TrackerTypeOK /\ IndexesAgree /\ PendingGapless /\ PendingAsCommitted /\ DismissedAnchored
    BY DEF TrackerInv
  <1>3. /\ consensusCommittedHashes' = recordCommitted(h, v3)
        /\ UNCHANGED lastNotarizedResult
    BY DEF CleanOnConsensusReached
  <1>4. /\ \A k \in DOMAIN consensusCommittedHashes' :
             k \in Nat /\ consensusCommittedHashes'[k] \in Headers
        /\ \A k \in DOMAIN consensusCommittedHashes' : k # n =>
             /\ k \in DOMAIN consensusCommittedHashes
             /\ consensusCommittedHashes'[k] = consensusCommittedHashes[k]
        /\ n \in DOMAIN consensusCommittedHashes' =>
             \/ consensusCommittedHashes'[n] = h
             \/ /\ n \in DOMAIN consensusCommittedHashes
                /\ consensusCommittedHashes'[n] = consensusCommittedHashes[n]
    BY <1>1, <1>2, <1>3 DEF recordCommitted, Put, TrackerTypeOK
  <1> HIDE DEF n
  <1>5. CASE HasOtherPending(h) /\ PendingInOrder
    <2>1. /\ addDismissedBatch(ResultBefore(n), PendingFrom(n))
          /\ removeExecutionResultsFromMaps(PendingFrom(n))
          /\ lastExecutedResultHash' = ResultBefore(n).hash
      BY <1>5 DEF CleanOnConsensusReached, n
    <2>2. PendingFrom(n) # {}
      <3>1. n \in DOMAIN nonceHash
        BY <1>5 DEF HasOtherPending, n
      <3>2. PendingResult(n) \in Pending /\ nonceOf(PendingResult(n)) = n
        BY <1>2, <3>1, PendingByNonce
      <3> QED BY <1>1, <3>2 DEF PendingFrom
    <2>3. \A k \in DOMAIN consensusCommittedHashes' : k < n =>
            /\ k \in DOMAIN consensusCommittedHashes
            /\ consensusCommittedHashes'[k] = consensusCommittedHashes[k]
      BY <1>1, <1>4
    <2> QED BY <1>1, <1>3, <1>4, <2>1, <2>2, <2>3, DismissFrom
  <1>6. CASE ~(HasOtherPending(h) /\ PendingInOrder)
    <2>1. UNCHANGED <<indexVars, lastExecutedResultHash, dismissedBatches, lastNotarizedResult>>
      BY <1>3, <1>6 DEF CleanOnConsensusReached
    <2>2. ~HasOtherPending(h)
      BY <1>2, <1>6 DEF PendingGapless
    <2>3. n \in DOMAIN nonceHash => nonceHash[n] = h
      BY <1>2, <2>2 DEF HasOtherPending, IndexesAgree, n
    <2>4. PendingAsCommitted'
      BY <1>2, <1>4, <2>1, <2>3 DEF PendingAsCommitted, indexVars
    <2>5. TrackerTypeOK'
      BY <1>2, <1>4, <2>1 DEF TrackerTypeOK, indexVars
    <2>6. IndexesAgree' /\ PendingGapless' /\ DismissedAnchored'
      BY <1>2, <2>1 DEF IndexesAgree, PendingGapless, PendingInOrder, Pending, DismissedAnchored,
         notarizedNonce, lastExecutedNonce, nonceOf, indexVars
    <2> QED BY <2>4, <2>5, <2>6 DEF TrackerInv
  <1> QED BY <1>5, <1>6

(* The maps become empty and r the notarised result. *)
LEMMA EmptyPreserves ==
  ASSUME NEW r \in Result,
         executionResultsByHash' = Empty,
         nonceHash' = Empty,
         lastNotarizedResult' = r,
         lastExecutedResultHash' = r.hash
  PROVE  /\ MapsTypeOK' /\ IndexesAgree' /\ PendingGapless' /\ PendingAsCommitted'
         /\ lastExecutedResultHash' \in Headers
  <1>1. DOMAIN executionResultsByHash' = {} /\ DOMAIN nonceHash' = {}
    BY DEF Empty
  <1>2. Pending' = {}
    BY <1>1 DEF Pending
  <1>3. PendingGapless'
    BY <1>2 DEF PendingGapless, PendingInOrder
  <1> QED BY <1>1, <1>3 DEF MapsTypeOK, IndexesAgree, PendingAsCommitted, Result

LEMMA CleanUnprotectedPreserves ==
  ASSUME TrackerInv, NEW r \in Result, cleanUnprotected(r),
         \A k \in DOMAIN consensusCommittedHashes' :
           k \in Nat /\ consensusCommittedHashes'[k] \in Headers
  PROVE  TrackerInv'
  <1>1. TrackerTypeOK /\ IndexesAgree /\ Window /\ PendingGapless /\ DismissedAnchored
    BY GaplessIsWindow DEF TrackerInv
  <1>2. /\ MapsTypeOK' /\ IndexesAgree' /\ PendingGapless' /\ PendingAsCommitted'
        /\ lastExecutedResultHash' \in Headers
        /\ lastNotarizedResult' \in Result
    BY EmptyPreserves DEF cleanUnprotected
  <1>3. /\ dismissedBatches' \in Seq(Batch)
        /\ Len(dismissedBatches') <= MaxDismissedBatches
        /\ DismissedAnchored'
    <2>1. CASE Pending # {}
      <3> DEFINE m == notarizedNonce + 1
      <3>1. addDismissedBatch(lastNotarizedResult, Pending)
        BY <1>1, <2>1 DEF cleanUnprotected, PendingGapless
      <3>2. Pending = PendingFrom(m) /\ m \in notarizedNonce + 1 .. lastExecutedNonce
        BY <1>1, <2>1, PendingByNonce DEF PendingFrom, Window
      <3>3. ResultAt(m - 1) = lastNotarizedResult
        BY <1>1, PendingByNonce DEF ResultAt
      <3> HIDE DEF m
      <3>4. /\ lastNotarizedResult \in Result
            /\ Pending \in SUBSET Result
            /\ \A s \in Pending :
                 /\ nonceOf(s) > nonceOf(lastNotarizedResult)
                 /\ \A k \in nonceOf(lastNotarizedResult) + 1 .. nonceOf(s) :
                      \E t \in Pending : nonceOf(t) = k
        BY <1>1, <3>2, <3>3, PendingBatch
      <3> HIDE DEF nonceOf, Pending
      <3> QED BY <1>1, <2>1, <3>1, <3>4, QueueBatch
    <2>2. CASE Pending = {}
      <3>1. UNCHANGED dismissedBatches
        BY <2>2 DEF cleanUnprotected
      <3> QED BY <1>1, <3>1 DEF TrackerTypeOK, DismissedAnchored, nonceOf
    <2> QED BY <2>1, <2>2
  <1>4. TrackerTypeOK'
    BY <1>1, <1>2, <1>3 DEF TrackerTypeOK, MapsTypeOK
  <1> QED BY <1>2, <1>3, <1>4 DEF TrackerInv

LEMMA ConfirmAllPreserves ==
  ASSUME TrackerInv, NEW S, NEW rs \in Seq(S), ConfirmAll(rs)
  PROVE  /\ TrackerInv'
         /\ lastNotarizedResult' \in Pending
         /\ \A k \in DOMAIN nonceHash' : k \in DOMAIN nonceHash /\ nonceHash'[k] = nonceHash[k]
  <1>1. TrackerTypeOK /\ IndexesAgree /\ Window /\ PendingAsCommitted /\ DismissedAnchored
    BY GaplessIsWindow DEF TrackerInv
  <1>2. PICK L \in Nat : Len(rs) = L /\ DOMAIN rs = 1 .. L
    OBVIOUS
  <1>3. L > 0 /\ Len(rs) = L /\ DOMAIN rs = 1 .. L
    <2>1. rs # <<>>
      BY DEF ConfirmAll
    <2> QED BY <1>2, <2>1
  <1> DEFINE nn == notarizedNonce
             last == lastExecutedNonce
             done == {rs[i] : i \in DOMAIN rs}
  <1>4. /\ nn \in Nat /\ last \in Nat /\ nn <= last
        /\ DOMAIN nonceHash = nn + 1 .. last
    BY <1>1, PendingByNonce DEF Window
  <1>5. \A i \in 1 .. L : nn + i \in DOMAIN nonceHash /\ rs[i] = PendingResult(nn + i)
    <2> SUFFICES ASSUME NEW i \in 1 .. L
                 PROVE  nn + i \in DOMAIN nonceHash /\ rs[i] = PendingResult(nn + i)
      OBVIOUS
    <2>1. rs[i] \in Pending /\ nonceOf(rs[i]) = nn + i
      BY <1>3 DEF ConfirmAll, Matching, PendingAt
    <2> QED BY <1>1, <2>1, PendingByNonce
  <1>6. \A i \in 1 .. L : /\ rs[i] \in Result
                          /\ nonceOf(rs[i]) = nn + i
                          /\ rs[i].hash = nonceHash[nn + i]
    BY <1>1, <1>5, PendingByNonce
  <1> HIDE DEF nn, last
  <1>7. nn + L <= last
    <2>1. nn + L \in DOMAIN nonceHash
      BY <1>3, <1>5
    <2> QED BY <1>4, <2>1
  <1>8. NoncesOf(done) = nn + 1 .. nn + L
    <2>1. ASSUME NEW k \in nn + 1 .. nn + L
          PROVE  k - nn \in 1 .. L /\ nonceOf(rs[k - nn]) = k
      <3>1. k - nn \in 1 .. L /\ nn + (k - nn) = k
        BY <1>4
      <3> QED BY <1>6, <3>1
    <2>2. \A i \in 1 .. L : nn + i \in nn + 1 .. nn + L
      BY <1>4
    <2>3. NoncesOf(done) = {nonceOf(rs[i]) : i \in 1 .. L}
      BY <1>3 DEF NoncesOf
    <2>4. {nonceOf(rs[i]) : i \in 1 .. L} \subseteq nn + 1 .. nn + L
      BY <1>6, <2>2
    <2>5. nn + 1 .. nn + L \subseteq {nonceOf(rs[i]) : i \in 1 .. L}
      BY <2>1
    <2> QED BY <2>3, <2>4, <2>5
  <1>9. HashesOf(done) = {nonceHash[k] : k \in nn + 1 .. nn + L}
    <2>1. \A k \in nn + 1 .. nn + L : k - nn \in 1 .. L /\ rs[k - nn].hash = nonceHash[k]
      BY <1>4, <1>6
    <2>2. \A i \in 1 .. L : nn + i \in nn + 1 .. nn + L
      BY <1>4
    <2>3. HashesOf(done) = {rs[i].hash : i \in 1 .. L}
      BY <1>3 DEF HashesOf
    <2>4. {rs[i].hash : i \in 1 .. L} \subseteq {nonceHash[k] : k \in nn + 1 .. nn + L}
      BY <1>6, <2>2
    <2>5. {nonceHash[k] : k \in nn + 1 .. nn + L} \subseteq {rs[i].hash : i \in 1 .. L}
      BY <2>1
    <2> QED BY <2>3, <2>4, <2>5
  <1> HIDE DEF done
  <1>10. /\ executionResultsByHash' = Without(executionResultsByHash, HashesOf(done))
         /\ nonceHash' = Without(nonceHash, NoncesOf(done))
         /\ consensusCommittedHashes' = Without(consensusCommittedHashes, NoncesOf(done))
         /\ lastNotarizedResult' = rs[L]
         /\ UNCHANGED <<lastExecutedResultHash, dismissedBatches>>
    BY <1>3 DEF ConfirmAll, cleanExecutionResults, removeExecutionResultsFromMaps, done
  <1>11. /\ DOMAIN nonceHash' = nn + L + 1 .. last
         /\ \A k \in DOMAIN nonceHash' : k \in DOMAIN nonceHash /\ nonceHash'[k] = nonceHash[k]
    BY <1>3, <1>4, <1>7, <1>8, <1>10 DEF Without
  <1>12. /\ DOMAIN executionResultsByHash' =
              {h \in DOMAIN executionResultsByHash : NonceOf[h] \notin nn + 1 .. nn + L}
         /\ \A h \in DOMAIN executionResultsByHash' : executionResultsByHash'[h] = executionResultsByHash[h]
    <2>1. \A h \in DOMAIN executionResultsByHash : h \in HashesOf(done) <=> NonceOf[h] \in nn + 1 .. nn + L
      <3>1. \A k \in nn + 1 .. nn + L : k \in DOMAIN nonceHash
        BY <1>4, <1>7
      <3> QED BY <1>1, <1>9, <3>1 DEF IndexesAgree
    <2> QED BY <1>10, <2>1 DEF Without
  <1>13. TrackerTypeOK'
    <2>1. \A k \in DOMAIN consensusCommittedHashes' :
            k \in DOMAIN consensusCommittedHashes /\ consensusCommittedHashes'[k] = consensusCommittedHashes[k]
      BY <1>10 DEF Without
    <2> QED BY <1>1, <1>3, <1>6, <1>10, <1>11, <1>12, <2>1 DEF TrackerTypeOK
  <1>14. IndexesAgree'
    <2>1. \A k \in DOMAIN nonceHash' : k \notin nn + 1 .. nn + L
      BY <1>3, <1>4, <1>11
    <2>2. \A k \in DOMAIN nonceHash : k \notin nn + 1 .. nn + L => k \in DOMAIN nonceHash'
      BY <1>3, <1>4, <1>11
    <2> QED BY <1>1, <1>11, <1>12, <2>1, <2>2 DEF IndexesAgree
  <1>15. Window'
    <2>1. notarizedNonce' = nn + L
      BY <1>3, <1>6, <1>10 DEF notarizedNonce, nonceOf
    <2>2. lastExecutedNonce' = last
      BY <1>10 DEF lastExecutedNonce, last
    <2>3. nonceHash[last] = lastExecutedResultHash
      BY <1>1, <1>3, <1>4, <1>7 DEF Window, last, nn
    <2>4. CASE last = nn + L
      <3>1. lastNotarizedResult'.hash = lastExecutedResultHash'
        BY <1>3, <1>6, <1>10, <2>3, <2>4
      <3> QED BY <1>4, <1>3, <1>11, <2>1, <2>2, <2>4, <3>1 DEF Window
    <2>5. CASE last # nn + L
      <3>1. last \in DOMAIN nonceHash'
        BY <1>3, <1>4, <1>7, <1>11, <2>5
      <3> QED BY <1>3, <1>4, <1>7, <1>10, <1>11, <2>1, <2>2, <2>3, <2>5, <3>1 DEF Window
    <2> QED BY <2>4, <2>5
  <1>16. PendingAsCommitted'
    BY <1>1, <1>10, <1>11 DEF PendingAsCommitted, Without
  <1>17. DismissedAnchored'
    BY <1>1, <1>10 DEF DismissedAnchored, nonceOf
  <1>18. PendingGapless'
    BY <1>13, <1>14, <1>15, GaplessIsWindow, PTL
  <1>19. lastNotarizedResult' \in Pending
    BY <1>1, <1>3, <1>5, <1>10, PendingByNonce
  <1> QED BY <1>11, <1>13, <1>14, <1>16, <1>17, <1>18, <1>19 DEF TrackerInv

LEMMA ConfirmMismatchPreserves ==
  ASSUME TrackerInv, NEW S, NEW rs \in Seq(S), NEW i \in DOMAIN rs, ConfirmMismatch(rs, i)
  PROVE  TrackerInv'
  <1>1. TrackerTypeOK /\ IndexesAgree /\ Window /\ PendingAsCommitted /\ DismissedAnchored
    BY GaplessIsWindow DEF TrackerInv
  <1>2. i \in Nat \ {0}
    OBVIOUS
  <1> DEFINE n == notarizedNonce + i
             anchor == IF i = 1 THEN lastNotarizedResult ELSE rs[i - 1]
  <1>3. notarizedNonce \in Nat /\ lastExecutedNonce \in Nat /\ n \in Nat /\ n > notarizedNonce
    BY <1>1, <1>2, PendingByNonce
  <1>4. /\ FirstMismatch(rs, i)
        /\ addDismissedBatch(anchor, PendingFrom(n))
        /\ removeExecutionResultsFromMaps(PendingFrom(n))
        /\ consensusCommittedHashes' = Without(consensusCommittedHashes, NoncesOf(PendingFrom(n)))
        /\ lastExecutedResultHash' = anchor.hash
        /\ UNCHANGED lastNotarizedResult
    BY DEF ConfirmMismatch, cleanExecutionResults
  <1>5. PICK r \in Pending : nonceOf(r) = n
    BY DEF ConfirmMismatch, PendingAt
  <1>6. PendingFrom(n) # {}
    BY <1>3, <1>5 DEF PendingFrom
  <1>7. anchor = ResultBefore(n)
    <2>1. PICK m \in notarizedNonce + 1 .. lastExecutedNonce :
            /\ ResultBefore(n) = ResultAt(m - 1)
            /\ n > notarizedNonce => m = n
      BY <1>1, <1>3, <1>6, ResultBeforeByNonce
    <2>2. ResultBefore(n) = ResultAt(n - 1)
      BY <1>3, <2>1
    <2>3. CASE i = 1
      BY <1>3, <2>2, <2>3 DEF ResultAt
    <2>4. CASE i # 1
      <3>1. i - 1 \in 1 .. i - 1
        BY <1>2, <2>4
      <3>2. rs[i - 1] \in Pending /\ nonceOf(rs[i - 1]) = notarizedNonce + (i - 1)
        BY <1>4, <3>1 DEF FirstMismatch, Matching, PendingAt
      <3>3. rs[i - 1] = PendingResult(notarizedNonce + (i - 1))
        BY <1>1, <3>2, PendingByNonce
      <3>4. ResultAt(n - 1) = PendingResult(n - 1) /\ n - 1 = notarizedNonce + (i - 1)
        BY <1>2, <1>3, <2>4 DEF ResultAt
      <3> QED BY <2>2, <2>4, <3>3, <3>4
    <2> QED BY <2>3, <2>4
  <1>8. \A k \in DOMAIN consensusCommittedHashes' :
          /\ k \in DOMAIN consensusCommittedHashes
          /\ consensusCommittedHashes'[k] = consensusCommittedHashes[k]
    BY <1>4 DEF Without
  <1>9. \A k \in DOMAIN consensusCommittedHashes' : k \in Nat /\ consensusCommittedHashes'[k] \in Headers
    BY <1>1, <1>8 DEF TrackerTypeOK
  <1> HIDE DEF n, anchor
  <1> QED BY <1>3, <1>4, <1>6, <1>7, <1>8, <1>9, DismissFrom

LEMMA CleanConfirmedPreserves ==
  ASSUME TrackerInv, NEW S, NEW rs \in Seq(S), CleanConfirmedExecutionResults(rs)
  PROVE  TrackerInv'
  <1>1. CASE ConfirmAll(rs)
    BY <1>1, ConfirmAllPreserves
  <1>2. CASE \E i \in DOMAIN rs : ConfirmMismatch(rs, i)
    BY <1>2, ConfirmMismatchPreserves
  <1>3. CASE ConfirmNothing(rs)
    <2>1. UNCHANGED trackerVars
      BY <1>3 DEF ConfirmNothing
    <2> QED BY <2>1, StutterPreserves
  <1> QED BY <1>1, <1>2, <1>3 DEF CleanConfirmedExecutionResults

LEMMA SetLastNotarizedPreserves ==
  ASSUME TrackerInv, NEW r \in Result, SetLastNotarizedResult(r)
  PROVE  TrackerInv'
  <1>1. TrackerTypeOK /\ IndexesAgree /\ PendingAsCommitted /\ DismissedAnchored
    BY DEF TrackerInv
  <1>2. /\ Pending = {}
        /\ UNCHANGED <<executionResultsByHash, nonceHash, consensusCommittedHashes, dismissedBatches>>
        /\ lastNotarizedResult' = r
        /\ lastExecutedResultHash' = r.hash
    BY DEF SetLastNotarizedResult, indexVars
  <1>3. TrackerTypeOK' /\ IndexesAgree' /\ PendingAsCommitted'
    BY <1>1, <1>2 DEF TrackerTypeOK, Result, IndexesAgree, PendingAsCommitted
  <1>4. DismissedAnchored'
    BY <1>1, <1>2 DEF DismissedAnchored, nonceOf
  <1>5. Pending' = {}
    BY <1>2 DEF Pending
  <1>6. PendingGapless'
    BY <1>2, <1>5 DEF PendingGapless, PendingInOrder
  <1> QED BY <1>3, <1>4, <1>6 DEF TrackerInv

LEMMA PopPreserves ==
  ASSUME TrackerInv, PopDismissedResults
  PROVE  TrackerInv'
  <1>1. /\ UNCHANGED <<lastNotarizedResult, executionResultsByHash, nonceHash>>
        /\ UNCHANGED <<lastExecutedResultHash, consensusCommittedHashes>>
        /\ dismissedBatches' = <<>>
    BY DEF PopDismissedResults, indexVars
  <1>2. /\ dismissedBatches' \in Seq(Batch)
        /\ Len(dismissedBatches') <= MaxDismissedBatches
        /\ DismissedAnchored'
    BY <1>1, TrackerAssumption DEF DismissedAnchored
  <1>3. TrackerTypeOK' /\ IndexesAgree' /\ PendingAsCommitted'
    BY <1>1, <1>2 DEF TrackerInv, TrackerTypeOK, IndexesAgree, PendingAsCommitted
  <1>4. PendingGapless'
    BY <1>1 DEF TrackerInv, PendingGapless, PendingInOrder, Pending, notarizedNonce, lastExecutedNonce, nonceOf
  <1> QED BY <1>2, <1>3, <1>4 DEF TrackerInv

-----------------------------------------------------------------------------
LEMMA InitTrackerInv ==
  ASSUME TrackerInit
  PROVE  TrackerInv
  <1>1. /\ FirstResult \in Result
        /\ FirstResult.hash \in Headers
        /\ MaxDismissedBatches \in Nat
    BY TrackerAssumption DEF Result
  <1>2. DOMAIN executionResultsByHash = {} /\ DOMAIN nonceHash = {} /\ DOMAIN consensusCommittedHashes = {}
    BY DEF TrackerInit, Empty
  <1>3. dismissedBatches \in Seq(Batch) /\ Len(dismissedBatches) = 0 /\ DismissedAnchored
    BY DEF TrackerInit, DismissedAnchored
  <1>4. Pending = {}
    BY <1>2 DEF Pending
  <1>5. PendingGapless
    BY <1>4 DEF PendingGapless, PendingInOrder, TrackerInit
  <1>6. TrackerTypeOK
    BY <1>1, <1>2, <1>3 DEF TrackerTypeOK, TrackerInit
  <1> QED BY <1>2, <1>3, <1>5, <1>6 DEF TrackerInv, IndexesAgree, PendingAsCommitted

LEMMA TrackerNextPreserves ==
  ASSUME TrackerInv, [TrackerNext]_trackerVars
  PROVE  TrackerInv'
  <1>1. CASE \E r \in Result : AddExecutionResult(r)
    BY <1>1, AddPreserves
  <1>2. CASE \E rs \in NotarizedResults : CleanConfirmedExecutionResults(rs)
    <2>1. PICK rs \in NotarizedResults : CleanConfirmedExecutionResults(rs)
      BY <1>2
    <2>2. rs \in Seq(Result)
      <3>1. PICK L \in Nat : rs \in [1 .. L -> Result]
        BY <2>1 DEF NotarizedResults
      <3> QED BY <3>1
    <2> QED BY <2>1, <2>2, CleanConfirmedPreserves
  <1>3. CASE \E h \in Headers, v3 \in BOOLEAN : CleanOnConsensusReached(h, v3)
    BY <1>3, ConsensusReachedPreserves
  <1>4. CASE \E h \in Headers : RemoveFromNonce(NonceOf[h])
    BY <1>4, RemovePreserves, TrackerAssumption
  <1>5. CASE Clean(lastNotarizedResult)
    <2>1. lastNotarizedResult \in Result
      BY DEF TrackerInv, TrackerTypeOK
    <2>2. \A k \in DOMAIN consensusCommittedHashes' :
            k \in Nat /\ consensusCommittedHashes'[k] \in Headers
      BY <1>5 DEF TrackerInv, TrackerTypeOK, Clean
    <2> QED BY <1>5, <2>1, <2>2, CleanUnprotectedPreserves DEF Clean
  <1>6. CASE \E r \in Result, h \in Headers : Rewind(r, NonceOf[h])
    <2>1. PICK r \in Result, h \in Headers : Rewind(r, NonceOf[h])
      BY <1>6
    <2>2. \A k \in DOMAIN consensusCommittedHashes' :
            k \in Nat /\ consensusCommittedHashes'[k] \in Headers
      BY <2>1 DEF TrackerInv, TrackerTypeOK, Rewind, Without
    <2> QED BY <2>1, <2>2, CleanUnprotectedPreserves DEF Rewind
  <1>7. CASE \E r \in Result : SetLastNotarizedResult(r)
    BY <1>7, SetLastNotarizedPreserves
  <1>8. CASE PopDismissedResults
    BY <1>8, PopPreserves
  <1>9. CASE UNCHANGED trackerVars
    BY <1>9, StutterPreserves
  <1> QED BY <1>1, <1>2, <1>3, <1>4, <1>5, <1>6, <1>7, <1>8, <1>9 DEF TrackerNext

(* Whatever methods of the tracker are called, in whatever order, its maps *)
(* agree, the queue of dismissed batches stays within its capacity, and    *)
(* the fields keep their types.                                            *)
THEOREM TrackerIndexesAgree == TrackerSpec => [](TrackerTypeOK /\ IndexesAgree)
  <1>1. TrackerInv => TrackerTypeOK /\ IndexesAgree
    BY DEF TrackerInv
  <1> QED BY <1>1, InitTrackerInv, TrackerNextPreserves, PTL DEF TrackerSpec

(* GetPendingExecutionResults never fails: AddExecutionResult, the         *)
(* removals and CleanConfirmedExecutionResults leave no gap between the    *)
(* notarised and the last executed result.                                 *)
THEOREM TrackerGapless == TrackerSpec => []PendingGapless
  <1>1. TrackerInv => PendingGapless
    BY DEF TrackerInv
  <1> QED BY <1>1, InitTrackerInv, TrackerNextPreserves, PTL DEF TrackerSpec

(* A result of a block other than the one consensus committed at its nonce *)
(* is never pending after CleanOnConsensusReached recorded the block.      *)
THEOREM TrackerAsCommitted == TrackerSpec => []PendingAsCommitted
  <1>1. TrackerInv => PendingAsCommitted
    BY DEF TrackerInv
  <1> QED BY <1>1, InitTrackerInv, TrackerNextPreserves, PTL DEF TrackerSpec

(* Every dismissed batch that addDismissedBatch queues starts right after  *)
(* its anchor and has no gap.                                              *)
THEOREM TrackerDismissedAnchored == TrackerSpec => []DismissedAnchored
  <1>1. TrackerInv => DismissedAnchored
    BY DEF TrackerInv
  <1> QED BY <1>1, InitTrackerInv, TrackerNextPreserves, PTL DEF TrackerSpec

-----------------------------------------------------------------------------
(* What a call leaves of the run of results from the notarised to the last *)
(* executed one, for the callers' proofs.                                  *)

HashAt(k) == IF k = notarizedNonce THEN lastNotarizedResult.hash ELSE nonceHash[k]

Shrinks ==
  /\ notarizedNonce <= notarizedNonce'
  /\ lastExecutedNonce' <= lastExecutedNonce
  /\ \A k \in notarizedNonce' .. lastExecutedNonce' : HashAt(k)' = HashAt(k)

Run ==
  /\ notarizedNonce \in Nat /\ lastExecutedNonce \in Nat
  /\ notarizedNonce <= lastExecutedNonce
  /\ DOMAIN nonceHash = notarizedNonce + 1 .. lastExecutedNonce
  /\ HashAt(notarizedNonce) = lastNotarizedResult.hash
  /\ HashAt(lastExecutedNonce) = lastExecutedResultHash
  /\ \A k \in notarizedNonce .. lastExecutedNonce : HashAt(k) \in Headers /\ NonceOf[HashAt(k)] = k

LEMMA RunOfHashes ==
  ASSUME TrackerInv
  PROVE  Run
  <1>1. TrackerTypeOK /\ IndexesAgree /\ Window
    BY GaplessIsWindow DEF TrackerInv
  <1>2. notarizedNonce \in Nat /\ lastExecutedNonce \in Nat
    BY <1>1, PendingByNonce
  <1>3. NonceOf[lastNotarizedResult.hash] = notarizedNonce /\ lastNotarizedResult.hash \in Headers
    BY <1>1 DEF notarizedNonce, nonceOf, TrackerTypeOK, Result
  <1>4. \A k \in DOMAIN nonceHash : nonceHash[k] \in Headers /\ NonceOf[nonceHash[k]] = k
    BY <1>1 DEF TrackerTypeOK, IndexesAgree
  <1> HIDE DEF notarizedNonce, lastExecutedNonce
  <1>5. \A k \in notarizedNonce .. lastExecutedNonce :
          k = notarizedNonce \/ k \in DOMAIN nonceHash
    BY <1>1, <1>2 DEF Window
  <1> QED BY <1>1, <1>2, <1>3, <1>4, <1>5 DEF Window, HashAt, Run

(* Results were removed from the maps, and the notarised one is the same. *)
LEMMA RemovalShrinks ==
  ASSUME TrackerInv, TrackerInv', lastNotarizedResult' = lastNotarizedResult,
         \A k \in DOMAIN nonceHash' : k \in DOMAIN nonceHash /\ nonceHash'[k] = nonceHash[k]
  PROVE  Shrinks /\ notarizedNonce' = notarizedNonce
  <1>1. notarizedNonce' = notarizedNonce
    BY DEF notarizedNonce, nonceOf
  <1>2. /\ notarizedNonce \in Nat /\ lastExecutedNonce \in Nat
        /\ notarizedNonce <= lastExecutedNonce
        /\ DOMAIN nonceHash = notarizedNonce + 1 .. lastExecutedNonce
    BY RunOfHashes DEF Run
  <1>3. /\ lastExecutedNonce' \in Nat
        /\ DOMAIN nonceHash' = notarizedNonce' + 1 .. lastExecutedNonce'
    <2>1. Run'
      BY RunOfHashes, PTL
    <2> QED BY <2>1 DEF Run
  <1> HIDE DEF notarizedNonce, lastExecutedNonce
  <1>4. lastExecutedNonce' <= lastExecutedNonce
    <2>1. CASE lastExecutedNonce' <= notarizedNonce
      BY <1>2, <1>3, <2>1
    <2>2. CASE lastExecutedNonce' > notarizedNonce
      <3>1. lastExecutedNonce' \in DOMAIN nonceHash'
        BY <1>1, <1>2, <1>3, <2>2
      <3> QED BY <1>2, <3>1
    <2> QED BY <1>2, <1>3, <2>1, <2>2
  <1>5. ASSUME NEW k \in notarizedNonce' .. lastExecutedNonce'
        PROVE  HashAt(k)' = HashAt(k)
    <2>1. CASE k = notarizedNonce
      BY <1>1, <2>1 DEF HashAt
    <2>2. CASE k # notarizedNonce
      <3>1. k \in DOMAIN nonceHash'
        BY <1>1, <1>2, <1>3, <2>2
      <3> QED BY <1>1, <2>2, <3>1 DEF HashAt
    <2> QED BY <2>1, <2>2
  <1> QED BY <1>1, <1>2, <1>4, <1>5 DEF Shrinks

LEMMA UntouchedShrinks ==
  ASSUME TrackerInv, TrackerInv', lastNotarizedResult' = lastNotarizedResult, nonceHash' = nonceHash
  PROVE  Shrinks /\ notarizedNonce' = notarizedNonce
  BY RemovalShrinks

LEMMA RemoveShrinks ==
  ASSUME TrackerInv, NEW n \in Nat, RemoveFromNonce(n)
  PROVE  /\ TrackerInv' /\ Shrinks /\ notarizedNonce' = notarizedNonce
         /\ lastExecutedNonce' < n \/ lastExecutedNonce' = notarizedNonce
  <1>1. TrackerInv'
    BY RemovePreserves
  <1>2. TrackerTypeOK /\ IndexesAgree /\ PendingInOrder
    BY DEF TrackerInv, PendingGapless
  <1>3. /\ NoncesOf(PendingFrom(n)) = {k \in DOMAIN nonceHash : k >= n}
        /\ PendingFrom(n) # {} => lastNotarizedResult' = lastNotarizedResult
        /\ PendingFrom(n) # {} => nonceHash' = Without(nonceHash, NoncesOf(PendingFrom(n)))
        /\ PendingFrom(n) = {} => UNCHANGED trackerVars
    BY <1>2, PendingFromByNonce DEF RemoveFromNonce, removeExecutionResultsFromMaps
  <1>4. PendingFrom(n) = {} => NoncesOf(PendingFrom(n)) = {}
    BY DEF NoncesOf
  <1> HIDE DEF PendingFrom, NoncesOf
  <1>5. /\ lastNotarizedResult' = lastNotarizedResult
        /\ \A k \in DOMAIN nonceHash' : k \in DOMAIN nonceHash /\ nonceHash'[k] = nonceHash[k] /\ ~(k >= n)
    BY <1>3, <1>4 DEF Without, trackerVars, indexVars
  <1>6. Shrinks /\ notarizedNonce' = notarizedNonce
    BY <1>1, <1>5, RemovalShrinks
  <1>7. /\ notarizedNonce \in Nat /\ lastExecutedNonce' \in Nat
        /\ notarizedNonce' <= lastExecutedNonce'
        /\ DOMAIN nonceHash' = notarizedNonce' + 1 .. lastExecutedNonce'
    <2>1. Run'
      BY <1>1, RunOfHashes, PTL
    <2> QED BY <2>1, RunOfHashes DEF Run
  <1> HIDE DEF notarizedNonce, lastExecutedNonce
  <1>8. CASE lastExecutedNonce' # notarizedNonce
    <2>1. lastExecutedNonce' \in DOMAIN nonceHash'
      BY <1>6, <1>7, <1>8
    <2> QED BY <1>1, <1>5, <1>6, <1>7, <2>1
  <1> QED BY <1>1, <1>6, <1>8

LEMMA ConsensusReachedShrinks ==
  ASSUME TrackerInv, NEW h \in Headers, CleanOnConsensusReached(h, TRUE)
  PROVE  TrackerInv' /\ Shrinks
  <1>1. TrackerInv'
    BY ConsensusReachedPreserves
  <1>2. lastNotarizedResult' = lastNotarizedResult
    BY DEF CleanOnConsensusReached
  <1>3. \A k \in DOMAIN nonceHash' : k \in DOMAIN nonceHash /\ nonceHash'[k] = nonceHash[k]
    BY DEF CleanOnConsensusReached, removeExecutionResultsFromMaps, Without, indexVars
  <1> QED BY <1>1, <1>2, <1>3, RemovalShrinks

(* A pending result becomes the notarised one. *)
LEMMA NotarizeShrinks ==
  ASSUME TrackerInv, TrackerInv', lastNotarizedResult' \in Pending,
         lastExecutedResultHash' = lastExecutedResultHash,
         \A k \in DOMAIN nonceHash' : k \in DOMAIN nonceHash /\ nonceHash'[k] = nonceHash[k]
  PROVE  Shrinks
  <1>1. lastExecutedNonce' = lastExecutedNonce
    BY DEF lastExecutedNonce
  <1>2. TrackerTypeOK /\ IndexesAgree
    BY DEF TrackerInv
  <1>3. /\ nonceOf(lastNotarizedResult') \in DOMAIN nonceHash
        /\ lastNotarizedResult'.hash = nonceHash[nonceOf(lastNotarizedResult')]
    BY <1>2, PendingByNonce
  <1>4. notarizedNonce' = nonceOf(lastNotarizedResult')
    BY DEF notarizedNonce, nonceOf
  <1>5. /\ notarizedNonce \in Nat /\ lastExecutedNonce \in Nat
        /\ DOMAIN nonceHash = notarizedNonce + 1 .. lastExecutedNonce
    BY RunOfHashes DEF Run
  <1>6. /\ DOMAIN nonceHash' = notarizedNonce' + 1 .. lastExecutedNonce'
        /\ notarizedNonce' \in Nat /\ lastExecutedNonce' \in Nat
    <2>1. Run'
      BY RunOfHashes, PTL
    <2> QED BY <2>1 DEF Run
  <1>7. notarizedNonce' > notarizedNonce
    BY <1>3, <1>4, <1>5
  <1>8. ASSUME NEW k \in notarizedNonce' .. lastExecutedNonce'
        PROVE  HashAt(k)' = HashAt(k)
    <2>1. CASE k = notarizedNonce'
      BY <1>3, <1>4, <1>5, <1>7, <2>1 DEF HashAt
    <2>2. CASE k # notarizedNonce'
      <3>1. k \in DOMAIN nonceHash'
        BY <1>6, <2>2
      <3> QED BY <1>5, <1>6, <1>7, <2>2, <3>1 DEF HashAt
    <2> QED BY <2>1, <2>2
  <1> QED BY <1>1, <1>5, <1>6, <1>7, <1>8 DEF Shrinks

LEMMA CleanConfirmedShrinks ==
  ASSUME TrackerInv, NEW S, NEW rs \in Seq(S), CleanConfirmedExecutionResults(rs)
  PROVE  TrackerInv' /\ Shrinks
  <1>1. TrackerInv'
    BY CleanConfirmedPreserves
  <1>2. CASE ConfirmAll(rs)
    <2>1. /\ lastNotarizedResult' \in Pending
          /\ \A k \in DOMAIN nonceHash' : k \in DOMAIN nonceHash /\ nonceHash'[k] = nonceHash[k]
      BY <1>2, ConfirmAllPreserves
    <2>2. lastExecutedResultHash' = lastExecutedResultHash
      BY <1>2 DEF ConfirmAll
    <2> QED BY <1>1, <2>1, <2>2, NotarizeShrinks
  <1>3. CASE \E i \in DOMAIN rs : ConfirmMismatch(rs, i)
    <2>1. /\ lastNotarizedResult' = lastNotarizedResult
          /\ \A k \in DOMAIN nonceHash' : k \in DOMAIN nonceHash /\ nonceHash'[k] = nonceHash[k]
      BY <1>3 DEF ConfirmMismatch, cleanExecutionResults, removeExecutionResultsFromMaps, Without
    <2> QED BY <1>1, <2>1, RemovalShrinks
  <1>4. CASE ConfirmNothing(rs)
    BY <1>1, <1>4, UntouchedShrinks DEF ConfirmNothing, trackerVars, indexVars
  <1> QED BY <1>2, <1>3, <1>4 DEF CleanConfirmedExecutionResults

LEMMA CleanToNotarized ==
  ASSUME TrackerInv, Clean(lastNotarizedResult)
  PROVE  TrackerInv' /\ Shrinks
  <1>1. lastNotarizedResult \in Result
    BY DEF TrackerInv, TrackerTypeOK
  <1>2. \A k \in DOMAIN consensusCommittedHashes' :
          k \in Nat /\ consensusCommittedHashes'[k] \in Headers
    BY DEF TrackerInv, TrackerTypeOK, Clean
  <1>3. TrackerInv'
    BY <1>1, <1>2, CleanUnprotectedPreserves DEF Clean
  <1>4. lastNotarizedResult' = lastNotarizedResult /\ DOMAIN nonceHash' = {}
    BY DEF Clean, cleanUnprotected, Empty
  <1> QED BY <1>3, <1>4, RemovalShrinks

LEMMA RewindTo ==
  ASSUME TrackerInv, NEW r \in Result, NEW n \in Nat, Rewind(r, n)
  PROVE  /\ TrackerInv' /\ lastNotarizedResult' = r
         /\ notarizedNonce' = nonceOf(r) /\ lastExecutedNonce' = nonceOf(r)
  <1>1. \A k \in DOMAIN consensusCommittedHashes' :
          k \in Nat /\ consensusCommittedHashes'[k] \in Headers
    BY DEF TrackerInv, TrackerTypeOK, Rewind, Without
  <1>2. TrackerInv'
    BY <1>1, CleanUnprotectedPreserves DEF Rewind
  <1> QED BY <1>2 DEF Rewind, cleanUnprotected, notarizedNonce, lastExecutedNonce, nonceOf

LEMMA AddGrows ==
  ASSUME TrackerInv, NEW r \in Result, AddExecutionResult(r)
  PROVE  /\ TrackerInv'
         /\ nonceOf(r) > notarizedNonce /\ nonceOf(r) <= lastExecutedNonce + 1
         /\ notarizedNonce' = notarizedNonce /\ lastExecutedNonce' = nonceOf(r)
         /\ HashAt(nonceOf(r))' = r.hash
         /\ \A k \in notarizedNonce .. nonceOf(r) - 1 : HashAt(k)' = HashAt(k)
  <1>1. TrackerInv'
    BY AddPreserves
  <1>2. /\ nonceOf(r) > notarizedNonce
        /\ nonceOf(r) \in {lastExecutedNonce, lastExecutedNonce + 1}
        /\ nonceHash' = Put(nonceHash, nonceOf(r), r.hash)
        /\ lastExecutedResultHash' = r.hash
        /\ lastNotarizedResult' = lastNotarizedResult
    BY DEF AddExecutionResult, CanAdd
  <1>3. notarizedNonce' = notarizedNonce /\ lastExecutedNonce' = nonceOf(r)
    BY <1>2 DEF notarizedNonce, lastExecutedNonce, nonceOf
  <1>4. nonceOf(r) \in Nat
    BY TrackerAssumption DEF Result, nonceOf
  <1>5. notarizedNonce \in Nat /\ lastExecutedNonce \in Nat
        /\ DOMAIN nonceHash = notarizedNonce + 1 .. lastExecutedNonce
    BY RunOfHashes DEF Run
  <1> HIDE DEF notarizedNonce, lastExecutedNonce, nonceOf
  <1>6. HashAt(nonceOf(r))' = r.hash
    BY <1>2, <1>3, <1>4, <1>5 DEF HashAt, Put
  <1>7. ASSUME NEW k \in notarizedNonce .. nonceOf(r) - 1
        PROVE  HashAt(k)' = HashAt(k)
    <2>1. CASE k = notarizedNonce
      BY <1>2, <1>3, <2>1 DEF HashAt
    <2>2. CASE k # notarizedNonce
      <3>1. k \in DOMAIN nonceHash /\ k # nonceOf(r)
        BY <1>2, <1>4, <1>5, <2>2
      <3> QED BY <1>2, <1>3, <2>2, <3>1 DEF HashAt, Put
    <2> QED BY <2>1, <2>2
  <1> QED BY <1>1, <1>2, <1>3, <1>4, <1>5, <1>6, <1>7

(* The last result before a nonce above the notarised one. *)
LEMMA ResultBeforeHash ==
  ASSUME TrackerInv, NEW n \in Nat, n > notarizedNonce
  PROVE  \E k \in notarizedNonce .. lastExecutedNonce :
           /\ k = IF n > lastExecutedNonce THEN lastExecutedNonce ELSE n - 1
           /\ ResultBefore(n) \in Result
           /\ nonceOf(ResultBefore(n)) = k
           /\ ResultBefore(n).hash = HashAt(k)
  <1>1. TrackerTypeOK /\ IndexesAgree /\ Window
    BY GaplessIsWindow DEF TrackerInv
  <1>2. /\ notarizedNonce \in Nat /\ lastExecutedNonce \in Nat
        /\ notarizedNonce <= lastExecutedNonce
        /\ DOMAIN nonceHash = notarizedNonce + 1 .. lastExecutedNonce
    BY RunOfHashes DEF Run
  <1>3. lastNotarizedResult \in Result /\ nonceOf(lastNotarizedResult) = notarizedNonce
    BY <1>1 DEF TrackerTypeOK, notarizedNonce
  <1>4. ASSUME NEW k \in notarizedNonce .. lastExecutedNonce
        PROVE  /\ ResultAt(k) \in Result
               /\ nonceOf(ResultAt(k)) = k
               /\ ResultAt(k).hash = HashAt(k)
    <2>1. CASE k = notarizedNonce
      BY <1>3, <2>1 DEF ResultAt, HashAt
    <2>2. CASE k # notarizedNonce
      <3>1. k \in DOMAIN nonceHash
        BY <1>2, <2>2
      <3> QED BY <1>1, <2>2, <3>1, PendingByNonce DEF ResultAt, HashAt
    <2> QED BY <2>1, <2>2
  <1> HIDE DEF notarizedNonce, lastExecutedNonce, nonceOf
  <1>5. CASE n <= lastExecutedNonce
    <2>1. n \in DOMAIN nonceHash
      BY <1>2, <1>5
    <2>2. PendingResult(n) \in Pending /\ nonceOf(PendingResult(n)) = n
      BY <1>1, <2>1, PendingByNonce
    <2>3. PendingFrom(n) # {}
      BY <2>2 DEF PendingFrom
    <2>4. PICK m \in notarizedNonce + 1 .. lastExecutedNonce :
            ResultBefore(n) = ResultAt(m - 1) /\ m = n
      BY <1>1, <2>3, ResultBeforeByNonce
    <2>5. n - 1 \in notarizedNonce .. lastExecutedNonce /\ ~(n > lastExecutedNonce)
      BY <1>2, <1>5
    <2> QED BY <1>4, <2>4, <2>5
  <1>6. CASE n > lastExecutedNonce
    <2>1. ResultBefore(n) = ResultAt(lastExecutedNonce)
      <3>1. CASE lastExecutedNonce = notarizedNonce
        <4>1. \A r \in Pending : FALSE
          BY <1>1, <1>2, <3>1, PendingByNonce
        <4> QED BY <3>1, <4>1 DEF ResultBefore, ResultAt
      <3>2. CASE lastExecutedNonce # notarizedNonce
        <4> DEFINE Last(r) == /\ nonceOf(r) < n
                              /\ \A s \in Pending : nonceOf(s) < n => nonceOf(s) <= nonceOf(r)
        <4>1. lastExecutedNonce \in DOMAIN nonceHash
          BY <1>2, <3>2
        <4>2. /\ PendingResult(lastExecutedNonce) \in Pending
              /\ nonceOf(PendingResult(lastExecutedNonce)) = lastExecutedNonce
          BY <1>1, <4>1, PendingByNonce
        <4>3. \A s \in Pending : nonceOf(s) \in notarizedNonce + 1 .. lastExecutedNonce
                                 /\ s = PendingResult(nonceOf(s))
          BY <1>1, <1>2, PendingByNonce
        <4>4. Last(PendingResult(lastExecutedNonce))
          BY <1>2, <1>6, <4>2, <4>3
        <4>5. ASSUME NEW r \in Pending, Last(r)
              PROVE  r = PendingResult(lastExecutedNonce)
          <5>1. nonceOf(r) = lastExecutedNonce
            BY <1>2, <1>6, <4>2, <4>3, <4>5
          <5> QED BY <4>3, <5>1
        <4>6. ResultBefore(n) = CHOOSE r \in Pending : Last(r)
          BY <1>6, <4>2 DEF ResultBefore
        <4> HIDE DEF Last
        <4>7. ResultBefore(n) = PendingResult(lastExecutedNonce)
          BY <4>2, <4>4, <4>5, <4>6
        <4> QED BY <3>2, <4>7 DEF ResultAt
      <3> QED BY <3>1, <3>2
    <2>2. lastExecutedNonce \in notarizedNonce .. lastExecutedNonce
      BY <1>2
    <2> QED BY <1>4, <1>6, <2>1, <2>2
  <1> QED BY <1>2, <1>5, <1>6

-----------------------------------------------------------------------------
(* The executor, the manager and their callers.                              *)

PauseInv ==
  /\ isPaused \in BOOLEAN
  /\ processingDone \in BOOLEAN
  /\ PauseExcludesExecution

(* A step that leaves the executor and the pause alone. *)
LEMMA PauseUntouched ==
  ASSUME PauseInv, epc' = epc, pauseVars' = pauseVars
  PROVE  PauseInv'
BY DEF PauseInv, PauseExcludesExecution, pauseVars

(* A pause that begins, or one that ends. *)
LEMMA PauseMoves ==
  ASSUME PauseInv, epc' = epc, PauseExecution \/ ResumeExecution
  PROVE  PauseInv'
BY DEF PauseInv, PauseExcludesExecution, PauseExecution, ResumeExecution

(* A block may be in process, since no pause was acknowledged, and the     *)
(* step acknowledges none.                                                 *)
LEMMA PauseInProcess ==
  ASSUME PauseInv, epc \notin {"check", "stopped"}, pauseVars' = pauseVars
  PROVE  PauseInv'
BY DEF PauseInv, PauseExcludesExecution, pauseVars

(* The executor goes back to the top of its loop. *)
LEMMA PauseAcknowledged ==
  ASSUME PauseInv, epc' = "check", isPaused' = isPaused,
         acknowledgePause \/ UNCHANGED processingDone
  PROVE  PauseInv'
BY DEF PauseInv, PauseExcludesExecution, acknowledgePause

(* A block may be in process; the step goes back to the loop, or to the    *)
(* wait for a retry without an acknowledgement.                            *)
LEMMA PauseOnError ==
  ASSUME PauseInv, epc \notin {"check", "stopped"}, isPaused' = isPaused,
         \/ epc' = "check" /\ acknowledgePause
         \/ processingDone' = processingDone
  PROVE  PauseInv'
BY PauseAcknowledged, PauseInProcess DEF pauseVars

(* Every step of the executor. *)
LEMMA PauseExecutor ==
  ASSUME PauseInv, Executor
  PROVE  PauseInv'
<1>1. CASE ExecLoop
  BY <1>1 DEF ExecLoop, acknowledgePause, PauseInv, PauseExcludesExecution
<1>2. CASE ExecReplacement
  BY <1>2, PauseInProcess DEF ExecReplacement
<1>3. CASE ExecNext
  <2>1. CASE lastNonce + 1 \in DOMAIN cache
    BY <1>3, <2>1, PauseInProcess DEF ExecNext, pauseVars
  <2>2. CASE ~(lastNonce + 1 \in DOMAIN cache)
    BY <1>3, <2>2, PauseAcknowledged DEF ExecNext
  <2>3. QED BY <2>1, <2>2
<1>4. CASE ExecProcess
  BY <1>4, PauseOnError
     DEF ExecProcess, FailsIf, ProcessFails, handleProcessError, LoopAgain, pauseVars
<1>5. CASE ExecReplace
  BY <1>5, PauseOnError
     DEF ExecReplace, FailsIf, ProcessFails, handleProcessError, LoopAgain, pauseVars
<1>6. CASE ExecTrim
  BY <1>6, PauseInProcess DEF ExecTrim
<1>7. CASE ExecExecute
  BY <1>7, PauseOnError
     DEF ExecExecute, FailsIf, ProcessFails, handleProcessError, LoopAgain, pauseVars
<1>8. CASE ExecVerify
  BY <1>8, PauseInProcess DEF ExecVerify
<1>9. CASE ExecCommit
  BY <1>9, PauseOnError
     DEF ExecCommit, handleProcessError, LoopAgain, pauseVars
<1>10. CASE ExecAdd
  BY <1>10, PauseOnError
     DEF ExecAdd, handleProcessError, LoopAgain, pauseVars
<1>11. CASE ExecPublish
  BY <1>11, PauseInProcess DEF ExecPublish
<1>12. CASE ExecRetry
  BY <1>12, PauseInProcess DEF ExecRetry
<1>13. QED
  BY <1>1, <1>2, <1>3, <1>4, <1>5, <1>6, <1>7, <1>8, <1>9, <1>10, <1>11, <1>12 DEF Executor

(* Every step of a call of the manager. *)
LEMMA PauseCaller ==
  ASSUME PauseInv, NEW t \in Callers, Caller(t)
  PROVE  PauseInv'
<1>1. CASE AddPair(t)
  BY <1>1, PauseUntouched, PauseMoves DEF AddPair, LockAndPause, execVars
<1>2. CASE AddToCache(t)
  BY <1>2, PauseUntouched DEF AddToCache, execVars
<1>3. CASE AddReread(t)
  BY <1>3, PauseUntouched, PauseMoves DEF AddReread, LockAndPause, execVars
<1>4. CASE AddReplacementPair(t)
  BY <1>4, PauseMoves DEF AddReplacementPair, ResumeAndUnlock, execVars
<1>5. CASE AddRaced(t)
  BY <1>5, PauseMoves DEF AddRaced, ResumeAndUnlock, execVars
<1>6. CASE CommitBlock(t) \/ checkBlockValidity(t) \/ SetHead(t) \/ RestoreHead(t)
  BY <1>6, PauseUntouched DEF CommitBlock, checkBlockValidity, SetHead, RestoreHead, execVars
<1>7. CASE Reached(t) \/ Confirm(t)
  BY <1>7, PauseUntouched DEF Reached, Confirm, Locked, execVars
<1>8. CASE Remove(t)
  BY <1>8, PauseUntouched, PauseMoves DEF Remove, LockAndPause, execVars
<1>9. CASE RemoveAtNonceAndHigher(t)
  BY <1>9, PauseMoves DEF RemoveAtNonceAndHigher, ResumeAndUnlock, execVars
<1>10. CASE RewindToTip(t)
  BY <1>10, PauseUntouched, PauseMoves DEF RewindToTip, LockAndPause, execVars
<1>11. CASE RewindExecutionStateToTip(t)
  BY <1>11, PauseMoves DEF RewindExecutionStateToTip, ResumeAndUnlock, execVars
<1>12. QED
  BY <1>1, <1>2, <1>3, <1>4, <1>5, <1>6, <1>7, <1>8, <1>9, <1>10, <1>11 DEF Caller

(* Every other step. *)
LEMMA PauseOther ==
  ASSUME PauseInv,
         ProposedBlock \/ EndOfRound \/ SyncBlock \/ Backfill \/ RecoverFromMismatch
           \/ RollBack \/ Close
  PROVE  PauseInv'
BY PauseUntouched
   DEF ProposedBlock, EndOfRound, SyncBlock, Backfill, RecoverFromMismatch, RollBack, Close, execVars

(* While PauseExecution has returned and ResumeExecution has not been      *)
(* called, the goroutine of the headers executor is at the top of its loop *)
(* or has stopped: the manager's calls that reset the tracker, the queue   *)
(* and the last execution result together never race an execution.         *)
THEOREM PauseIsExclusive == AsyncSpec => []PauseExcludesExecution
<1>1. AsyncInit => PauseInv
  BY DEF AsyncInit, PauseInv, PauseExcludesExecution
<1>2. PauseInv /\ [AsyncNext]_asyncVars => PauseInv'
  <2>1. SUFFICES ASSUME PauseInv, [AsyncNext]_asyncVars PROVE PauseInv'
    OBVIOUS
  <2>2. CASE UNCHANGED asyncVars
    BY <2>1, <2>2, PauseUntouched DEF asyncVars, execVars
  <2>3. CASE AsyncNext
    BY <2>1, <2>3, PauseExecutor, PauseCaller, PauseOther DEF AsyncNext
  <2>4. QED BY <2>1, <2>2, <2>3
<1>3. PauseInv => PauseExcludesExecution
  BY DEF PauseInv
<1>4. QED BY <1>1, <1>2, <1>3, PTL DEF AsyncSpec

-----------------------------------------------------------------------------
(* Types, the queue, and the calls with the manager's mutex.               *)

LockedPlaces == {"addToCache", "addReread", "addReplacement", "addRaced", "removing", "rewinding"}
PausedPlaces == {"addReplacement", "addRaced", "removing", "rewinding"}
QueuedPlaces == {"addReread", "addRaced"}
AddPlaces    == {"add", "addToCache", "addReread", "addReplacement", "addRaced", "proposed", "commit"}
CommitPlaces == {"validity", "reached", "setHead", "confirm", "restore"}
RemovePlaces == {"remove", "removing"}
RewindPlaces == {"rewind", "rewinding"}

CallRecord ==
  [pc : AddPlaces \cup CommitPlaces \cup RemovePlaces \cup RewindPlaces,
   h : Headers, n : Nat, old : Headers \cup {None},
   then : {"idle", "proposed", "commit", "restore", "rewind"}]

(* What follows a call, and where it has a header to go back to. *)
IsCall(c) ==
  /\ c \in CallRecord
  /\ c.pc \in AddPlaces => c.then \in {"idle", "proposed", "commit"}
  /\ c.pc \in CommitPlaces => c.then = "restore"
  /\ c.pc \in RemovePlaces => c.then \in {"idle", "restore", "rewind"}
  /\ c.pc \in RewindPlaces => c.then = "rewind"
  /\ c.then \in {"restore", "rewind"} => c.old \in Headers

CallsTyped == DOMAIN call = Callers /\ \A t \in Callers : call[t] = Idle \/ IsCall(call[t])

MutexOK ==
  /\ mut \in Callers \cup {Free}
  /\ \A t \in Callers : /\ mut = t <=> call[t].pc \in LockedPlaces
                        /\ call[t].pc \in PausedPlaces => isPaused

(* The pair that AddToCache added stays in the queue while the mutex is    *)
(* held, and the pair it replaced is of the same nonce.                    *)
QueuedOK ==
  \A t \in Callers : call[t].pc \in QueuedPlaces =>
    /\ NonceOf[call[t].h] \in DOMAIN cache
    /\ call[t].old # None => NonceOf[call[t].old] = NonceOf[call[t].h]

CacheOK ==
  /\ \A n \in DOMAIN cache : n \in Nat /\ cache[n] \in Headers /\ NonceOf[cache[n]] = n
  /\ IsFiniteSet(DOMAIN cache)
  /\ Cardinality(DOMAIN cache) <= MaxCacheSize

FieldsOK ==
  /\ lastExecutionResult \in Result
  /\ head \in Headers
  /\ pair \in Headers \cup {None}
  /\ root \in Roots
  /\ before \subseteq Result
  /\ tries \in 0 .. MaxRetryAttempts
  /\ closed \in BOOLEAN
  /\ epc \in {"process", "replace", "trim", "execute", "verify", "commit", "add", "publish", "retry"}
       => pair \in Headers

CallInv == CallsTyped /\ MutexOK /\ QueuedOK

TypeInv == TrackerInv /\ FieldsOK /\ CacheOK /\ PauseInv /\ CallInv

(* A step of one caller that another one does not see: the other caller    *)
(* keeps its place, and has none that needs the mutex if this one has it.  *)
LEMMA CallMoves ==
  ASSUME CallInv, NEW t \in Callers, NEW c, c = Idle \/ IsCall(c),
         call' = [call EXCEPT ![t] = c],
         mut' = IF c.pc \in LockedPlaces THEN t ELSE Free,
         mut \in {t, Free},
         c.pc \in PausedPlaces => isPaused',
         c.pc \in QueuedPlaces =>
           /\ NonceOf[c.h] \in DOMAIN cache'
           /\ c.old # None => NonceOf[c.old] = NonceOf[c.h]
  PROVE  CallInv'
  <1>1. /\ DOMAIN call' = Callers /\ call'[t] = c
        /\ \A u \in Callers \ {t} : call'[u] = call[u]
    BY DEF CallInv, CallsTyped
  <1>2. \A u \in Callers \ {t} : mut # u /\ mut' # u /\ call[u].pc \notin LockedPlaces
    BY DEF CallInv, MutexOK, Callers, Consensus, Sync, Free
  <1>3. CallsTyped'
    BY <1>1 DEF CallInv, CallsTyped
  <1>4. MutexOK'
    <2>1. mut' = t <=> c.pc \in LockedPlaces
      BY DEF Callers, Consensus, Sync, Free
    <2>2. PausedPlaces \subseteq LockedPlaces
      BY DEF PausedPlaces, LockedPlaces
    <2>3. mut' \in Callers \cup {Free}
      OBVIOUS
    <2> QED BY <1>1, <1>2, <2>1, <2>2, <2>3 DEF MutexOK
  <1>5. QueuedOK'
    <2>1. QueuedPlaces \subseteq LockedPlaces
      BY DEF QueuedPlaces, LockedPlaces
    <2> QED BY <1>1, <1>2, <2>1 DEF QueuedOK
  <1> QED BY <1>3, <1>4, <1>5 DEF CallInv

(* A step of a caller that neither has nor takes the mutex. *)
LEMMA FreeCallMoves ==
  ASSUME CallInv, NEW t \in Callers, NEW c, c = Idle \/ IsCall(c),
         call' = [call EXCEPT ![t] = c],
         call[t].pc \notin LockedPlaces, c.pc \notin LockedPlaces,
         UNCHANGED <<mut, isPaused, cache>>
  PROVE  CallInv'
  <1>1. /\ DOMAIN call' = Callers /\ call'[t] = c
        /\ \A u \in Callers \ {t} : call'[u] = call[u]
    BY DEF CallInv, CallsTyped
  <1>2. PausedPlaces \subseteq LockedPlaces /\ QueuedPlaces \subseteq LockedPlaces
    BY DEF PausedPlaces, LockedPlaces, QueuedPlaces
  <1>3. CallsTyped'
    BY <1>1 DEF CallInv, CallsTyped
  <1>4. MutexOK'
    BY <1>1, <1>2 DEF CallInv, MutexOK
  <1>5. QueuedOK'
    BY <1>1, <1>2 DEF CallInv, QueuedOK
  <1> QED BY <1>3, <1>4, <1>5 DEF CallInv

LEMMA CallsStay ==
  ASSUME CallInv, UNCHANGED <<call, mut, isPaused, cache>>
  PROVE  CallInv'
  BY DEF CallInv, CallsTyped, MutexOK, QueuedOK

(* The record a call has after Return, Goto or Proceed. *)
Returned(c) == IF c.then = "idle" THEN Idle ELSE [c EXCEPT !.pc = c.then]

LEMMA ProceedIs ==
  ASSUME NEW t \in Callers, DOMAIN call = Callers, Proceed(t)
  PROVE  call' = [call EXCEPT ![t] = Returned(call[t])]
  BY DEF Proceed, Return, Goto, Returned

LEMMA ReturnedIs ==
  ASSUME NEW c, IsCall(c), c.pc \in AddPlaces \cup RemovePlaces
  PROVE  /\ Returned(c) = Idle \/ IsCall(Returned(c))
         /\ Returned(c).pc \notin LockedPlaces
  BY DEF Returned, IsCall, CallRecord, AddPlaces, CommitPlaces, RemovePlaces, RewindPlaces,
         LockedPlaces, Idle

LEMMA GoneTo ==
  ASSUME NEW c, IsCall(c), NEW p,
         \/ c.pc \in AddPlaces /\ p \in AddPlaces
         \/ c.pc \in CommitPlaces /\ p \in CommitPlaces \cup RemovePlaces
         \/ c.pc \in RemovePlaces /\ p \in RemovePlaces
         \/ c.pc \in RewindPlaces /\ p \in RewindPlaces
  PROVE  /\ IsCall([c EXCEPT !.pc = p])
         /\ [c EXCEPT !.pc = p].pc = p
         /\ [c EXCEPT !.pc = p].h = c.h /\ [c EXCEPT !.pc = p].old = c.old
  BY DEF IsCall, CallRecord, AddPlaces, CommitPlaces, RemovePlaces, RewindPlaces

-----------------------------------------------------------------------------
(* The queue.                                                              *)

LEMMA CacheLosesPairs ==
  ASSUME CacheOK, NEW S, cache' = Without(cache, S)
  PROVE  CacheOK'
  <1>1. /\ DOMAIN cache' \subseteq DOMAIN cache
        /\ \A n \in DOMAIN cache' : cache'[n] = cache[n]
    BY DEF Without
  <1>2. /\ IsFiniteSet(DOMAIN cache')
        /\ Cardinality(DOMAIN cache') <= Cardinality(DOMAIN cache)
    BY <1>1, FS_Subset DEF CacheOK
  <1>3. Cardinality(DOMAIN cache') \in Nat /\ Cardinality(DOMAIN cache) \in Nat
    BY <1>2, FS_CardinalityType DEF CacheOK
  <1>4. Cardinality(DOMAIN cache') <= MaxCacheSize
    BY <1>2, <1>3, ExecutionAssumption DEF CacheOK
  <1> QED BY <1>1, <1>2, <1>4 DEF CacheOK

LEMMA CacheEmptied ==
  ASSUME cache' = Empty
  PROVE  CacheOK'
  <1>1. DOMAIN cache' = {}
    BY DEF Empty
  <1>2. IsFiniteSet({}) /\ Cardinality({}) = 0
    BY FS_EmptySet
  <1> QED BY <1>1, <1>2, ExecutionAssumption DEF CacheOK

LEMMA CacheGetsPair ==
  ASSUME CacheOK, NEW h \in Headers, HasRoom(h), cache' = Put(cache, NonceOf[h], h)
  PROVE  CacheOK'
  <1> DEFINE n == NonceOf[h]
  <1>1. n \in Nat
    BY TrackerAssumption
  <1>2. /\ DOMAIN cache' = DOMAIN cache \cup {n}
        /\ \A k \in DOMAIN cache' : cache'[k] = IF k = n THEN h ELSE cache[k]
    BY DEF Put
  <1>3. /\ IsFiniteSet(DOMAIN cache \cup {n})
        /\ Cardinality(DOMAIN cache \cup {n}) =
             IF n \in DOMAIN cache THEN Cardinality(DOMAIN cache) ELSE Cardinality(DOMAIN cache) + 1
    BY FS_AddElement DEF CacheOK
  <1>4. Cardinality(DOMAIN cache) \in Nat
    BY FS_CardinalityType DEF CacheOK
  <1>5. Cardinality(DOMAIN cache \cup {n}) <= MaxCacheSize
    BY <1>3, <1>4, ExecutionAssumption DEF HasRoom, CacheOK
  <1>6. \A k \in DOMAIN cache' : k \in Nat /\ cache'[k] \in Headers /\ NonceOf[cache'[k]] = k
    BY <1>1, <1>2 DEF CacheOK
  <1> HIDE DEF n
  <1> QED BY <1>2, <1>3, <1>5, <1>6 DEF CacheOK

-----------------------------------------------------------------------------
(* Results that the callers and the executor go back to.                   *)

LEMMA PendingTyped ==
  ASSUME TrackerInv
  PROVE  Pending \subseteq Result /\ lastNotarizedResult \in Result
  BY DEF TrackerInv, TrackerTypeOK, Pending

LEMMA ParentTyped ==
  ASSUME TrackerInv, NEW h, NEW rs \in SUBSET Result, NEW r \in ParentResult(h, rs)
  PROVE  r \in Result /\ r.hash = PrevOf[h]
  BY PendingTyped DEF ParentResult

LEMMA ResultsAreSequence ==
  ASSUME NEW h \in Headers
  PROVE  \E S : ResultsIn(h) \in Seq(S)
  <1> DEFINE first == NonceOf[NotarizedBy[PrevOf[h]]] + 1
             last == NonceOf[NotarizedBy[h]]
             At_(n) == CHOOSE g \in Chain[h] : NonceOf[g] = n
             f(i) == AgreedResult(At_(first + i - 1))
             L == IF last - first + 1 >= 0 THEN last - first + 1 ELSE 0
             S == {f(i) : i \in 1 .. L}
  <1>1. first \in Int /\ last \in Int
    BY TrackerAssumption, ExecutionAssumption
  <1>2. L \in Nat /\ 1 .. last - first + 1 = 1 .. L
    BY <1>1
  <1>3. ResultsIn(h) = [i \in 1 .. last - first + 1 |-> f(i)]
    BY DEF ResultsIn
  <1> HIDE DEF first, last, L, f
  <1>4. ResultsIn(h) \in [1 .. L -> S]
    BY <1>2, <1>3
  <1> HIDE DEF S
  <1>5. ResultsIn(h) \in Seq(S)
    BY <1>2, <1>4
  <1> QED BY <1>5

LEMMA ContextTyped ==
  ASSUME TypeInv, NEW r \in Result, UpdateContextForReplacedHeader(r)
  PROVE  TrackerInv' /\ lastExecutionResult' \in Result
  <1>1. CASE r.hash = lastExecutionResult.hash
    BY <1>1, StutterPreserves DEF UpdateContextForReplacedHeader, TypeInv, FieldsOK
  <1>2. CASE r.hash # lastExecutionResult.hash
    <2>1. nonceOf(r) + 1 \in Nat
      BY TrackerAssumption DEF nonceOf, Result
    <2> QED BY <1>2, <2>1, RemovePreserves DEF UpdateContextForReplacedHeader, TypeInv
  <1> QED BY <1>1, <1>2

-----------------------------------------------------------------------------
(* The steps of the callers keep the types, the mutex and the queue.       *)

LEMMA CallAt ==
  ASSUME CallInv, NEW t \in Callers, NEW p, At(t, p), p # "idle"
  PROVE  IsCall(call[t]) /\ call[t].pc = p /\ call[t].h \in Headers /\ call[t].n \in Nat
  BY DEF CallInv, CallsTyped, At, Idle, IsCall, CallRecord

LEMMA GotoMoves ==
  ASSUME CallInv, NEW t \in Callers, NEW p, Goto(t, p)
  PROVE  call' = [call EXCEPT ![t] = [call[t] EXCEPT !.pc = p]]
  BY DEF Goto

LEMMA ProceedMoves ==
  ASSUME CallInv, NEW t \in Callers, Proceed(t)
  PROVE  call' = [call EXCEPT ![t] = Returned(call[t])]
  BY ProceedIs DEF CallInv, CallsTyped

LEMMA IdleIsFree ==
  Idle.pc \notin LockedPlaces /\ Idle.pc \notin PausedPlaces /\ Idle.pc \notin QueuedPlaces
  BY DEF Idle, LockedPlaces, PausedPlaces, QueuedPlaces

LEMMA FreePlaces ==
  /\ PausedPlaces \subseteq LockedPlaces /\ QueuedPlaces \subseteq LockedPlaces
  /\ "addReread" \notin PausedPlaces /\ "addToCache" \notin PausedPlaces
  /\ "addReplacement" \notin QueuedPlaces /\ "addToCache" \notin QueuedPlaces
  /\ "removing" \notin QueuedPlaces /\ "rewinding" \notin QueuedPlaces
  BY DEF LockedPlaces, PausedPlaces, QueuedPlaces

(* The holder of the mutex lets it go. *)
LEMMA Unlocks ==
  ASSUME CallInv, NEW t \in Callers, call[t].pc \in LockedPlaces, mut' = Free,
         NEW c, c = Idle \/ IsCall(c), c.pc \notin LockedPlaces,
         call' = [call EXCEPT ![t] = c]
  PROVE  CallInv'
  <1>1. mut = t
    BY DEF CallInv, MutexOK
  <1>2. c.pc \notin PausedPlaces /\ c.pc \notin QueuedPlaces
    BY FreePlaces
  <1> QED BY <1>1, <1>2, CallMoves

(* A caller takes the free mutex and asks for a pause. *)
LEMMA LocksAndPauses ==
  ASSUME CallInv, NEW t \in Callers, mut \in {t, Free}, NEW p \in PausedPlaces,
         IsCall([call[t] EXCEPT !.pc = p]), [call[t] EXCEPT !.pc = p].pc = p,
         LockAndPause(t, p),
         p \in QueuedPlaces =>
           /\ NonceOf[[call[t] EXCEPT !.pc = p].h] \in DOMAIN cache'
           /\ [call[t] EXCEPT !.pc = p].old # None =>
                NonceOf[[call[t] EXCEPT !.pc = p].old] = NonceOf[[call[t] EXCEPT !.pc = p].h]
  PROVE  CallInv'
  <1>1. mut' = t /\ isPaused' = TRUE /\ call' = [call EXCEPT ![t] = [call[t] EXCEPT !.pc = p]]
    BY GotoMoves DEF LockAndPause, PauseExecution
  <1>2. p \in LockedPlaces
    BY FreePlaces
  <1> QED BY <1>1, <1>2, CallMoves

LEMMA AddPairCall ==
  ASSUME CallInv, NEW t \in Callers, AddPair(t)
  PROVE  CallInv'
  <1>1. IsCall(call[t]) /\ call[t].pc = "add"
    BY CallAt DEF AddPair
  <1>2. "add" \in AddPlaces /\ "addReplacement" \in AddPlaces /\ "addToCache" \in AddPlaces
    BY DEF AddPlaces
  <1>3. mut = Free /\ UNCHANGED cache
    BY DEF AddPair
  <1>4. CASE Return(t) /\ UNCHANGED <<mut, pauseVars>>
    <2>1. call[t].pc \notin LockedPlaces
      BY <1>1 DEF LockedPlaces
    <2> QED BY <1>3, <1>4, <2>1, IdleIsFree, FreeCallMoves DEF Return, pauseVars
  <1>5. CASE LockAndPause(t, "addReplacement")
    <2>1. "addReplacement" \in PausedPlaces /\ "addReplacement" \notin QueuedPlaces
      BY DEF PausedPlaces, QueuedPlaces
    <2>2. /\ IsCall([call[t] EXCEPT !.pc = "addReplacement"])
          /\ [call[t] EXCEPT !.pc = "addReplacement"].pc = "addReplacement"
      BY <1>1, <1>2, GoneTo
    <2> QED BY <1>3, <1>5, <2>1, <2>2, LocksAndPauses
  <1>6. CASE mut' = t /\ Goto(t, "addToCache") /\ UNCHANGED pauseVars
    <2>1. /\ IsCall([call[t] EXCEPT !.pc = "addToCache"])
          /\ [call[t] EXCEPT !.pc = "addToCache"].pc = "addToCache"
      BY <1>1, <1>2, GoneTo
    <2>2. call' = [call EXCEPT ![t] = [call[t] EXCEPT !.pc = "addToCache"]]
      BY <1>6, GotoMoves
    <2>3. "addToCache" \in LockedPlaces
      BY DEF LockedPlaces
    <2> QED BY <1>3, <1>6, <2>1, <2>2, <2>3, FreePlaces, CallMoves
  <1> QED BY <1>4, <1>5, <1>6 DEF AddPair

LEMMA AddToCacheCall ==
  ASSUME CallInv, CacheOK, NEW t \in Callers, AddToCache(t)
  PROVE  CallInv' /\ CacheOK'
  <1> DEFINE h == call[t].h
             n == NonceOf[h]
             old == IF n \in DOMAIN cache THEN cache[n] ELSE None
             c == [call[t] EXCEPT !.pc = "addReread", !.old = old]
  <1>1. IsCall(call[t]) /\ call[t].pc = "addToCache" /\ h \in Headers
    BY CallAt DEF AddToCache
  <1>2. call[t].pc \in LockedPlaces
    BY <1>1 DEF LockedPlaces
  <1>3. mut = t
    BY <1>2 DEF CallInv, MutexOK
  <1>4. CASE HasRoom(h)
    <2>1. /\ cache' = Put(cache, n, h) /\ UNCHANGED mut
          /\ call' = [call EXCEPT ![t] = c]
      BY <1>4 DEF AddToCache
    <2>2. old \in Headers \cup {None} /\ (old # None => NonceOf[old] = n)
      BY DEF CacheOK
    <2>3. IsCall(c) /\ c.pc = "addReread" /\ c.h = h /\ c.old = old
      <3> HIDE DEF old
      <3> QED BY <1>1, <2>2 DEF IsCall, CallRecord, AddPlaces, CommitPlaces, RemovePlaces, RewindPlaces
    <2>4. CacheOK'
      BY <1>1, <1>4, <2>1, CacheGetsPair
    <2>5. n \in DOMAIN cache'
      BY <2>1 DEF Put
    <2>6. "addReread" \in LockedPlaces /\ "addReread" \notin PausedPlaces
      BY DEF LockedPlaces, PausedPlaces
    <2> HIDE DEF c, old, n, h
    <2>7. CallInv'
      BY <1>3, <2>1, <2>2, <2>3, <2>5, <2>6, CallMoves DEF n
    <2> QED BY <2>4, <2>7
  <1>5. CASE ~HasRoom(h)
    <2>1. Return(t) /\ mut' = Free /\ UNCHANGED cache
      BY <1>5 DEF AddToCache
    <2>2. CallInv'
      BY <1>2, <2>1, IdleIsFree, Unlocks DEF Return
    <2> QED BY <2>1, <2>2 DEF CacheOK
  <1> QED BY <1>4, <1>5

LEMMA AddRereadCall ==
  ASSUME CallInv, NEW t \in Callers, AddReread(t)
  PROVE  CallInv'
  <1>1. IsCall(call[t]) /\ call[t].pc = "addReread"
    BY CallAt DEF AddReread
  <1>2. "addReread" \in AddPlaces /\ "addReread" \in LockedPlaces /\ "addReread" \in QueuedPlaces
    BY DEF AddPlaces, LockedPlaces, QueuedPlaces
  <1>3. mut = t /\ UNCHANGED cache
    BY <1>1, <1>2 DEF CallInv, MutexOK, AddReread
  <1>4. CASE Proceed(t) /\ mut' = Free /\ UNCHANGED pauseVars
    <2>1. call' = [call EXCEPT ![t] = Returned(call[t])]
      BY <1>4, ProceedMoves
    <2>2. (Returned(call[t]) = Idle \/ IsCall(Returned(call[t]))) /\ Returned(call[t]).pc \notin LockedPlaces
      BY <1>1, <1>2, ReturnedIs
    <2> QED BY <1>1, <1>2, <1>4, <2>1, <2>2, Unlocks
  <1>5. CASE LockAndPause(t, "addRaced")
    <2>1. "addRaced" \in PausedPlaces /\ "addRaced" \in AddPlaces
      BY DEF PausedPlaces, AddPlaces
    <2>2. /\ IsCall([call[t] EXCEPT !.pc = "addRaced"])
          /\ [call[t] EXCEPT !.pc = "addRaced"].pc = "addRaced"
          /\ [call[t] EXCEPT !.pc = "addRaced"].h = call[t].h
          /\ [call[t] EXCEPT !.pc = "addRaced"].old = call[t].old
      BY <1>1, <1>2, <2>1, GoneTo
    <2>3. /\ NonceOf[call[t].h] \in DOMAIN cache
          /\ call[t].old # None => NonceOf[call[t].old] = NonceOf[call[t].h]
      BY <1>1, <1>2 DEF CallInv, QueuedOK
    <2> QED BY <1>3, <1>5, <2>1, <2>2, <2>3, LocksAndPauses
  <1> QED BY <1>4, <1>5 DEF AddReread

LEMMA FieldsFixed ==
  ASSUME FieldsOK, UNCHANGED execVars, lastExecutionResult' \in Result,
         head' \in Headers, closed' \in BOOLEAN
  PROVE  FieldsOK'
  BY DEF FieldsOK, execVars

LEMMA CacheFixed ==
  ASSUME CacheOK, UNCHANGED cache
  PROVE  CacheOK'
  BY DEF CacheOK

(* What a step of a caller keeps, besides the pause. *)
Kept == TrackerInv /\ FieldsOK /\ CacheOK /\ CallInv

(* A step of a caller that changes nothing but its place, the mutex, the   *)
(* pause, the queue and the head.                                          *)
LEMMA KeptByPlace ==
  ASSUME TypeInv, UNCHANGED <<trackerVars, lastExecutionResult, execVars, closed>>,
         head' \in Headers, CacheOK', CallInv'
  PROVE  Kept'
  <1>1. TrackerInv'
    BY StutterPreserves DEF TypeInv
  <1>2. FieldsOK'
    BY FieldsFixed DEF TypeInv, FieldsOK
  <1> QED BY <1>1, <1>2 DEF Kept

LEMMA KeptByContext ==
  ASSUME TypeInv, TrackerInv', lastExecutionResult' \in Result,
         UNCHANGED <<head, execVars, closed>>, CacheOK', CallInv'
  PROVE  Kept'
  <1>1. FieldsOK'
    BY FieldsFixed DEF TypeInv, FieldsOK
  <1> QED BY <1>1 DEF Kept

LEMMA HeldByCaller ==
  ASSUME TypeInv, NEW t \in Callers, NEW p \in LockedPlaces, At(t, p)
  PROVE  /\ CallInv /\ IsCall(call[t]) /\ call[t].pc = p /\ call[t].pc \in LockedPlaces
         /\ call[t].h \in Headers /\ call[t].n \in Nat
  <1>1. p # "idle"
    BY DEF LockedPlaces
  <1> QED BY <1>1, CallAt DEF TypeInv

(* The end of a paused section: the call returns, or goes on. *)
LEMMA PausedSectionEnds ==
  ASSUME TypeInv, NEW t \in Callers, NEW p \in PausedPlaces, At(t, p),
         mut' = Free, Return(t) \/ (p \in AddPlaces \cup RemovePlaces /\ Proceed(t))
  PROVE  CallInv'
  <1>1. p \in LockedPlaces
    BY FreePlaces
  <1>2. CallInv /\ IsCall(call[t]) /\ call[t].pc = p
    BY <1>1, HeldByCaller
  <1>3. CASE Return(t)
    BY <1>1, <1>2, <1>3, IdleIsFree, Unlocks DEF Return
  <1>4. CASE p \in AddPlaces \cup RemovePlaces /\ Proceed(t)
    <2>1. call' = [call EXCEPT ![t] = Returned(call[t])]
      BY <1>2, <1>4, ProceedMoves
    <2>2. (Returned(call[t]) = Idle \/ IsCall(Returned(call[t]))) /\ Returned(call[t]).pc \notin LockedPlaces
      BY <1>2, <1>4, ReturnedIs
    <2> QED BY <1>1, <1>2, <2>1, <2>2, Unlocks
  <1> QED BY <1>3, <1>4

LEMMA AddReplacementPairKept ==
  ASSUME TypeInv, NEW t \in Callers, AddReplacementPair(t)
  PROVE  Kept'
  <1> DEFINE h == call[t].h
  <1>1. "addReplacement" \in PausedPlaces /\ "addReplacement" \in AddPlaces
        /\ "addReplacement" \in LockedPlaces
    BY DEF PausedPlaces, AddPlaces, LockedPlaces
  <1>2. At(t, "addReplacement") /\ mut' = Free /\ UNCHANGED <<head, execVars, closed>>
    BY DEF AddReplacementPair, PausedAt, ResumeAndUnlock
  <1>3. h \in Headers
    BY <1>1, <1>2, HeldByCaller
  <1>4. Return(t) \/ Proceed(t)
    BY DEF AddReplacementPair
  <1>5. CallInv'
    BY <1>1, <1>2, <1>4, PausedSectionEnds
  <1>6. CASE UNCHANGED <<trackerVars, cache, lastExecutionResult>>
    <2>1. CacheOK'
      BY <1>6, CacheFixed DEF TypeInv
    <2> QED BY <1>2, <1>5, <1>6, <2>1, KeptByPlace DEF TypeInv, FieldsOK
  <1>7. CASE \E r \in ParentResult(h, PendingBelow(h)) :
               /\ UpdateContextForReplacedHeader(r)
               /\ \/ HasRoom(h) /\ cache' = Put(cache, NonceOf[h], h)
                  \/ UNCHANGED cache
    <2>1. PICK r \in ParentResult(h, PendingBelow(h)) : UpdateContextForReplacedHeader(r)
      BY <1>7
    <2>2. PendingBelow(h) \in SUBSET Result
      BY PendingTyped DEF TypeInv, PendingBelow
    <2>3. r \in Result
      BY <2>2, ParentTyped DEF TypeInv
    <2>4. TrackerInv' /\ lastExecutionResult' \in Result
      BY <2>1, <2>3, ContextTyped
    <2>5. CacheOK'
      BY <1>3, <1>7, CacheFixed, CacheGetsPair DEF TypeInv
    <2> QED BY <1>2, <1>5, <2>4, <2>5, KeptByContext
  <1> QED BY <1>6, <1>7 DEF AddReplacementPair

LEMMA AddRacedKept ==
  ASSUME TypeInv, NEW t \in Callers, AddRaced(t)
  PROVE  Kept'
  <1> DEFINE h == call[t].h
  <1>1. "addRaced" \in PausedPlaces /\ "addRaced" \in AddPlaces
        /\ "addRaced" \in LockedPlaces /\ "addRaced" \in QueuedPlaces
    BY DEF PausedPlaces, AddPlaces, LockedPlaces, QueuedPlaces
  <1>2. At(t, "addRaced") /\ mut' = Free /\ UNCHANGED <<head, execVars, closed>>
    BY DEF AddRaced, PausedAt, ResumeAndUnlock
  <1>3. h \in Headers /\ call[t].pc = "addRaced" /\ IsCall(call[t])
    BY <1>1, <1>2, HeldByCaller
  <1>4. Return(t) \/ Proceed(t)
    BY DEF AddRaced
  <1>5. CallInv'
    BY <1>1, <1>2, <1>4, PausedSectionEnds
  <1>6. CASE UNCHANGED <<trackerVars, lastExecutionResult>> /\ (UNCHANGED cache \/ restoreCachedPair(t))
    <2>1. CacheOK'
      <3>1. CASE UNCHANGED cache
        BY <3>1, CacheFixed DEF TypeInv
      <3>2. CASE restoreCachedPair(t)
        <4>1. CASE call[t].old = None
          BY <3>2, <4>1, CacheLosesPairs DEF restoreCachedPair, TypeInv
        <4>2. CASE call[t].old # None
          <5>1. call[t].old \in Headers
            BY <1>3, <4>2 DEF IsCall, CallRecord
          <5>2. NonceOf[h] \in DOMAIN cache /\ NonceOf[call[t].old] = NonceOf[h]
            BY <1>1, <1>3, <4>2 DEF TypeInv, CallInv, QueuedOK
          <5>3. HasRoom(call[t].old)
            BY <5>2 DEF HasRoom
          <5>4. cache' = Put(cache, NonceOf[call[t].old], call[t].old)
            BY <3>2, <4>2, <5>2 DEF restoreCachedPair
          <5> QED BY <5>1, <5>3, <5>4, CacheGetsPair DEF TypeInv
        <4> QED BY <4>1, <4>2
      <3> QED BY <1>6, <3>1, <3>2
    <2> QED BY <1>2, <1>5, <1>6, <2>1, KeptByPlace DEF TypeInv, FieldsOK
  <1>7. CASE /\ \E r \in ParentResult(h, PendingBelow(h)) : UpdateContextForReplacedHeader(r)
             /\ UNCHANGED cache
    <2>1. PICK r \in ParentResult(h, PendingBelow(h)) : UpdateContextForReplacedHeader(r)
      BY <1>7
    <2>2. PendingBelow(h) \in SUBSET Result
      BY PendingTyped DEF TypeInv, PendingBelow
    <2>3. r \in Result
      BY <2>2, ParentTyped DEF TypeInv
    <2>4. TrackerInv' /\ lastExecutionResult' \in Result
      BY <2>1, <2>3, ContextTyped
    <2>5. CacheOK'
      BY <1>7, CacheFixed DEF TypeInv
    <2> QED BY <1>2, <1>5, <2>4, <2>5, KeptByContext
  <1> QED BY <1>6, <1>7 DEF AddRaced

(* A step of a caller that neither has nor takes the mutex, and only moves. *)
LEMMA MovesFreely ==
  ASSUME TypeInv, NEW t \in Callers, NEW c, c = Idle \/ IsCall(c), c.pc \notin LockedPlaces,
         call[t].pc \notin LockedPlaces, call' = [call EXCEPT ![t] = c],
         UNCHANGED <<trackerVars, cache, lastExecutionResult, execVars, pauseVars, closed, mut>>,
         head' \in Headers
  PROVE  Kept'
  <1>1. CallInv'
    BY FreeCallMoves DEF TypeInv, pauseVars
  <1>2. CacheOK'
    BY CacheFixed DEF TypeInv
  <1> QED BY <1>1, <1>2, KeptByPlace

LEMMA CommitStepsKept ==
  ASSUME TypeInv, NEW t \in Callers,
         CommitBlock(t) \/ checkBlockValidity(t) \/ SetHead(t) \/ RestoreHead(t)
  PROVE  Kept'
  <1> DEFINE c == call[t]
  <1>0. CallInv /\ head \in Headers
    BY DEF TypeInv, FieldsOK
  <1>1. /\ UNCHANGED <<trackerVars, cache, lastExecutionResult, execVars, pauseVars, closed, mut>>
        /\ call[t].pc \in {"commit", "validity", "setHead", "restore"}
    BY DEF CommitBlock, checkBlockValidity, SetHead, RestoreHead, At
  <1>2. /\ call[t].pc \notin LockedPlaces /\ "remove" \notin LockedPlaces
        /\ "validity" \notin LockedPlaces /\ "reached" \notin LockedPlaces
        /\ "confirm" \notin LockedPlaces
        /\ "validity" \in CommitPlaces /\ "reached" \in CommitPlaces
        /\ "confirm" \in CommitPlaces /\ "setHead" \in CommitPlaces /\ "restore" \in CommitPlaces
        /\ "remove" \in RemovePlaces
    BY <1>1 DEF LockedPlaces, CommitPlaces, RemovePlaces
  <1>3. IsCall(c) /\ c.h \in Headers
    BY <1>0, <1>1, CallAt DEF At
  <1>4. CASE CommitBlock(t)
    <2> DEFINE d == [c EXCEPT !.pc = "validity", !.n = NonceOf[c.h], !.old = head, !.then = "restore"]
    <2>1. call' = [call EXCEPT ![t] = d] /\ head' = head
      BY <1>4 DEF CommitBlock
    <2>2. NonceOf[c.h] \in Nat
      BY <1>3, TrackerAssumption
    <2>3. IsCall(d) /\ d.pc = "validity"
      BY <1>0, <1>3, <2>2 DEF IsCall, CallRecord, AddPlaces, CommitPlaces, RemovePlaces, RewindPlaces
    <2> HIDE DEF d
    <2> QED BY <1>0, <1>1, <1>2, <2>1, <2>3, MovesFreely
  <1>5. CASE checkBlockValidity(t) \/ SetHead(t)
    <2>1. PICK p \in {"reached", "remove", "confirm"} : Goto(t, p)
      BY <1>5 DEF checkBlockValidity, SetHead
    <2>2. call' = [call EXCEPT ![t] = [c EXCEPT !.pc = p]]
      BY <1>0, <2>1, GotoMoves
    <2>3. c.pc \in CommitPlaces
      BY <1>2, <1>5 DEF checkBlockValidity, SetHead, At
    <2>4. IsCall([c EXCEPT !.pc = p]) /\ [c EXCEPT !.pc = p].pc = p
      BY <1>2, <1>3, <2>1, <2>3, GoneTo
    <2>5. p \notin LockedPlaces
      BY <1>2, <2>1
    <2>6. head' \in Headers
      BY <1>0, <1>3, <1>5 DEF checkBlockValidity, SetHead
    <2> QED BY <1>1, <1>2, <2>2, <2>4, <2>5, <2>6, MovesFreely
  <1>6. CASE RestoreHead(t)
    <2>1. call' = [call EXCEPT ![t] = Idle] /\ head' = c.old /\ c.pc = "restore"
      BY <1>6 DEF RestoreHead, Return, At
    <2>2. c.old \in Headers
      BY <1>2, <1>3, <2>1 DEF IsCall
    <2> QED BY <1>1, <1>2, <2>1, <2>2, IdleIsFree, MovesFreely
  <1> QED BY <1>4, <1>5, <1>6

(* A call that holds the mutex for one step only. *)
LEMMA LockedStepMoves ==
  ASSUME TypeInv, NEW t \in Callers, Locked, NEW c, c = Idle \/ IsCall(c), c.pc \notin LockedPlaces,
         call' = [call EXCEPT ![t] = c]
  PROVE  CallInv'
  <1>1. c.pc \notin PausedPlaces /\ c.pc \notin QueuedPlaces
    BY FreePlaces
  <1>2. mut = Free /\ mut' = Free
    BY DEF Locked
  <1> QED BY <1>1, <1>2, CallMoves DEF TypeInv

LEMMA ReachedKept ==
  ASSUME TypeInv, NEW t \in Callers, Reached(t)
  PROVE  Kept' /\ Shrinks
  <1>1. CallInv /\ At(t, "reached")
    BY DEF TypeInv, Reached
  <1>2. IsCall(call[t]) /\ call[t].pc = "reached" /\ call[t].h \in Headers
    BY <1>1, CallAt
  <1>3. "reached" \in CommitPlaces /\ "setHead" \in CommitPlaces /\ "setHead" \notin LockedPlaces
    BY DEF CommitPlaces, LockedPlaces
  <1>4. IsCall([call[t] EXCEPT !.pc = "setHead"]) /\ [call[t] EXCEPT !.pc = "setHead"].pc = "setHead"
    BY <1>2, <1>3, GoneTo
  <1>5. call' = [call EXCEPT ![t] = [call[t] EXCEPT !.pc = "setHead"]]
    BY <1>1, GotoMoves DEF Reached
  <1>6. CallInv'
    BY <1>3, <1>4, <1>5, LockedStepMoves DEF Reached
  <1>7. TrackerInv' /\ Shrinks
    BY <1>2, ConsensusReachedShrinks DEF Reached, TypeInv
  <1>8. CacheOK'
    BY CacheLosesPairs DEF Reached, TypeInv
  <1>9. lastExecutionResult' \in Result /\ UNCHANGED <<head, execVars, closed>>
    BY DEF Reached, TypeInv, FieldsOK
  <1> QED BY <1>6, <1>7, <1>8, <1>9, KeptByContext

LEMMA ConfirmKept ==
  ASSUME TypeInv, NEW t \in Callers, Confirm(t)
  PROVE  Kept' /\ Shrinks
  <1> DEFINE rs == ResultsIn(call[t].h)
  <1>1. CallInv /\ At(t, "confirm")
    BY DEF TypeInv, Confirm
  <1>2. IsCall(call[t]) /\ call[t].pc = "confirm" /\ call[t].h \in Headers
    BY <1>1, CallAt
  <1>3. "confirm" \in CommitPlaces /\ "remove" \in RemovePlaces /\ "remove" \notin LockedPlaces
    BY DEF CommitPlaces, RemovePlaces, LockedPlaces
  <1>4. ASSUME Return(t) PROVE CallInv'
    BY <1>4, IdleIsFree, LockedStepMoves DEF Confirm, Return
  <1>5. ASSUME Goto(t, "remove") PROVE CallInv'
    <2>1. IsCall([call[t] EXCEPT !.pc = "remove"]) /\ [call[t] EXCEPT !.pc = "remove"].pc = "remove"
      BY <1>2, <1>3, GoneTo
    <2>2. call' = [call EXCEPT ![t] = [call[t] EXCEPT !.pc = "remove"]]
      BY <1>1, <1>5, GotoMoves
    <2> QED BY <1>3, <2>1, <2>2, LockedStepMoves DEF Confirm
  <1>6. CallInv'
    BY <1>4, <1>5 DEF Confirm
  <1>7. TrackerInv' /\ Shrinks
    <2>1. PICK S : rs \in Seq(S)
      BY <1>2, ResultsAreSequence
    <2> QED BY <2>1, CleanConfirmedShrinks DEF Confirm, TypeInv
  <1>8. CacheOK'
    BY CacheLosesPairs DEF Confirm, TypeInv
  <1>9. lastExecutionResult' \in Result /\ UNCHANGED <<head, execVars, closed>>
    BY DEF Confirm, TypeInv, FieldsOK
  <1> QED BY <1>6, <1>7, <1>8, <1>9, KeptByContext

LEMMA LocksKept ==
  ASSUME TypeInv, NEW t \in Callers, Remove(t) \/ RewindToTip(t)
  PROVE  Kept'
  <1>0. CallInv /\ CacheOK /\ head \in Headers
    BY DEF TypeInv, FieldsOK
  <1>1. /\ UNCHANGED <<trackerVars, cache, lastExecutionResult, head, execVars, closed>>
        /\ mut = Free
        /\ call[t].pc \in {"remove", "rewind"}
    BY DEF Remove, RewindToTip, At
  <1>2. /\ call[t].pc \notin LockedPlaces
        /\ "remove" \in RemovePlaces /\ "removing" \in RemovePlaces /\ "removing" \in PausedPlaces
        /\ "rewind" \in RewindPlaces /\ "rewinding" \in RewindPlaces /\ "rewinding" \in PausedPlaces
    BY <1>1 DEF LockedPlaces, RemovePlaces, RewindPlaces, PausedPlaces
  <1>3. IsCall(call[t])
    BY <1>0, <1>1, CallAt DEF At
  <1>4. CASE Return(t) /\ UNCHANGED <<mut, pauseVars>>
    BY <1>0, <1>1, <1>2, <1>4, IdleIsFree, MovesFreely DEF Return
  <1>5. CASE call[t].pc = "remove" /\ Proceed(t) /\ UNCHANGED <<mut, pauseVars>>
    <2>1. call' = [call EXCEPT ![t] = Returned(call[t])]
      BY <1>0, <1>5, ProceedMoves
    <2>2. (Returned(call[t]) = Idle \/ IsCall(Returned(call[t]))) /\ Returned(call[t]).pc \notin LockedPlaces
      BY <1>2, <1>3, <1>5, ReturnedIs
    <2> QED BY <1>0, <1>1, <1>2, <1>5, <2>1, <2>2, MovesFreely
  <1>6. ASSUME NEW p \in {"removing", "rewinding"}, LockAndPause(t, p),
               call[t].pc = IF p = "removing" THEN "remove" ELSE "rewind"
        PROVE  Kept'
    <2>1. IsCall([call[t] EXCEPT !.pc = p]) /\ [call[t] EXCEPT !.pc = p].pc = p
      BY <1>2, <1>3, <1>6, GoneTo
    <2>2. p \notin QueuedPlaces /\ p \in PausedPlaces
      BY <1>2, <1>6 DEF QueuedPlaces
    <2>3. CallInv'
      BY <1>0, <1>1, <1>6, <2>1, <2>2, LocksAndPauses
    <2>4. CacheOK'
      BY <1>0, <1>1, CacheFixed
    <2> QED BY <1>0, <1>1, <2>3, <2>4, KeptByPlace
  <1>7. CASE Remove(t)
    <2>1. call[t].pc = "remove"
      BY <1>7 DEF Remove, At
    <2> QED BY <1>5, <1>6, <1>7, <2>1 DEF Remove
  <1>8. CASE RewindToTip(t)
    <2>1. call[t].pc = "rewind"
      BY <1>8 DEF RewindToTip, At
    <2> QED BY <1>4, <1>6, <1>8, <2>1 DEF RewindToTip
  <1> QED BY <1>7, <1>8

LEMMA NotarizedIsNat ==
  ASSUME TrackerInv
  PROVE  notarizedNonce \in Nat /\ lastExecutedNonce \in Nat /\ notarizedNonce <= lastExecutedNonce
  BY RunOfHashes DEF Run

LEMMA RemoveAtNonceKept ==
  ASSUME TypeInv, NEW t \in Callers, RemoveAtNonceAndHigher(t)
  PROVE  Kept'
  <1> DEFINE n == IF call[t].n <= notarizedNonce THEN notarizedNonce + 1 ELSE call[t].n
  <1>0. TrackerInv /\ CacheOK /\ lastExecutionResult \in Result
    BY DEF TypeInv, FieldsOK
  <1>1. "removing" \in PausedPlaces /\ "removing" \in RemovePlaces /\ "removing" \in LockedPlaces
    BY DEF PausedPlaces, RemovePlaces, LockedPlaces
  <1>2. /\ At(t, "removing") /\ mut' = Free /\ Proceed(t)
        /\ UNCHANGED <<head, execVars, closed>>
    BY DEF RemoveAtNonceAndHigher, PausedAt, ResumeAndUnlock
  <1>3. call[t].n \in Nat
    BY <1>1, <1>2, HeldByCaller
  <1>4. CallInv'
    BY <1>1, <1>2, PausedSectionEnds
  <1>5. notarizedNonce \in Nat
    BY <1>0, NotarizedIsNat
  <1>6. n \in Nat /\ n > notarizedNonce
    <2> HIDE DEF notarizedNonce
    <2> QED BY <1>3, <1>5
  <1>7. \/ /\ RemoveFromNonce(n)
           /\ cache' = Without(cache, {k \in DOMAIN cache : k >= n})
           /\ lastExecutionResult' = ResultBefore(n)
        \/ ResetTrackerToLastNotarized
    BY DEF RemoveAtNonceAndHigher
  <1> HIDE DEF n
  <1>8. CASE /\ RemoveFromNonce(n)
             /\ cache' = Without(cache, {k \in DOMAIN cache : k >= n})
             /\ lastExecutionResult' = ResultBefore(n)
    <2>1. TrackerInv'
      BY <1>0, <1>6, <1>8, RemovePreserves
    <2>2. lastExecutionResult' \in Result
      BY <1>0, <1>6, <1>8, ResultBeforeHash
    <2>3. CacheOK'
      BY <1>0, <1>8, CacheLosesPairs
    <2> QED BY <1>2, <1>4, <2>1, <2>2, <2>3, KeptByContext
  <1>9. CASE ResetTrackerToLastNotarized
    <2>1. TrackerInv'
      BY <1>0, <1>9, CleanToNotarized DEF ResetTrackerToLastNotarized
    <2>2. CacheOK'
      BY <1>9, CacheEmptied DEF ResetTrackerToLastNotarized
    <2>3. lastExecutionResult' \in Result
      BY <1>0, <1>9 DEF ResetTrackerToLastNotarized
    <2> QED BY <1>2, <1>4, <2>1, <2>2, <2>3, KeptByContext
  <1> QED BY <1>7, <1>8, <1>9

LEMMA RewindKept ==
  ASSUME TypeInv, NEW t \in Callers, RewindExecutionStateToTip(t)
  PROVE  Kept'
  <1> DEFINE anchor == AgreedResult(NotarizedBy[call[t].old])
  <1>1. "rewinding" \in PausedPlaces /\ "rewinding" \in LockedPlaces /\ "rewinding" \in RewindPlaces
    BY DEF PausedPlaces, LockedPlaces, RewindPlaces
  <1>2. /\ At(t, "rewinding") /\ mut' = Free /\ Return(t)
        /\ UNCHANGED <<head, execVars, closed>>
        /\ cache' = Empty /\ lastExecutionResult' = anchor
        /\ Rewind(anchor, NonceOf[call[t].old])
    BY DEF RewindExecutionStateToTip, PausedAt, ResumeAndUnlock
  <1>3. IsCall(call[t]) /\ call[t].pc = "rewinding"
    BY <1>1, <1>2, HeldByCaller
  <1>4. call[t].old \in Headers
    BY <1>1, <1>3 DEF IsCall
  <1>5. anchor \in Result /\ NonceOf[call[t].old] \in Nat
    BY <1>4, ExecutionAssumption, TrackerAssumption DEF AgreedResult, Result
  <1>6. CallInv'
    BY <1>1, <1>2, PausedSectionEnds
  <1>7. CacheOK'
    BY <1>2, CacheEmptied
  <1> HIDE DEF anchor
  <1>8. TrackerInv'
    BY <1>2, <1>5, RewindTo DEF TypeInv
  <1> QED BY <1>2, <1>5, <1>6, <1>7, <1>8, KeptByContext

LEMMA AddStepsKept ==
  ASSUME TypeInv, NEW t \in Callers, AddPair(t) \/ AddToCache(t) \/ AddReread(t)
  PROVE  Kept'
  <1>0. CallInv /\ CacheOK /\ head \in Headers
    BY DEF TypeInv, FieldsOK
  <1>1. UNCHANGED <<trackerVars, lastExecutionResult, head, execVars, closed>>
    BY DEF AddPair, AddToCache, AddReread
  <1>2. CallInv' /\ CacheOK'
    <2>1. CASE AddPair(t)
      BY <1>0, <2>1, AddPairCall, CacheFixed DEF AddPair
    <2>2. CASE AddToCache(t)
      BY <1>0, <2>2, AddToCacheCall
    <2>3. CASE AddReread(t)
      BY <1>0, <2>3, AddRereadCall, CacheFixed DEF AddReread
    <2> QED BY <2>1, <2>2, <2>3
  <1> QED BY <1>0, <1>1, <1>2, KeptByPlace

LEMMA CallerKept ==
  ASSUME TypeInv, NEW t \in Callers, Caller(t)
  PROVE  TypeInv'
  <1>1. PauseInv'
    BY PauseCaller DEF TypeInv
  <1>2. Kept'
    BY AddStepsKept, AddReplacementPairKept, AddRacedKept, CommitStepsKept, ReachedKept,
       ConfirmKept, LocksKept, RemoveAtNonceKept, RewindKept DEF Caller
  <1> QED BY <1>1, <1>2 DEF TypeInv, Kept

-----------------------------------------------------------------------------
(* The other steps, and the executor's.                                    *)

LEMMA BeginIs ==
  ASSUME NEW t \in Callers, NEW pc, NEW h \in Headers, NEW n \in Nat,
         NEW old \in Headers \cup {None}, NEW then, Begin(t, pc, h, n, old, then),
         \/ pc = "add" /\ then \in {"idle", "proposed", "commit"}
         \/ pc = "remove" /\ then = "idle"
         \/ pc = "remove" /\ then = "rewind" /\ old \in Headers
  PROVE  \E c : /\ IsCall(c) /\ c.pc = pc
                /\ c.pc \notin LockedPlaces /\ call[t].pc \notin LockedPlaces
                /\ call' = [call EXCEPT ![t] = c]
  <1> DEFINE c == [pc |-> pc, h |-> h, n |-> n, old |-> old, then |-> then]
  <1>1. call' = [call EXCEPT ![t] = c] /\ call[t] = Idle
    BY DEF Begin
  <1>2. IsCall(c) /\ c.pc = pc /\ c.pc \notin LockedPlaces
    BY DEF IsCall, CallRecord, AddPlaces, CommitPlaces, RemovePlaces, RewindPlaces, LockedPlaces
  <1> HIDE DEF c
  <1> QED BY <1>1, <1>2, IdleIsFree

LEMMA DivergingAreNat ==
  ASSUME TrackerInv, NEW h
  PROVE  DivergingNonces(h) \subseteq Nat
  <1>1. \A r \in Pending : nonceOf(r) \in Nat
    BY PendingTyped, TrackerAssumption DEF nonceOf, Result
  <1> QED BY <1>1 DEF DivergingNonces

(* Every nonempty set of numbers has a least one. *)
LEMMA LeastOf ==
  ASSUME NEW S \in SUBSET Nat, S # {}
  PROVE  (CHOOSE k \in S : \A j \in S : k <= j) \in S
  <1> DEFINE R == {ss \in Nat \X Nat : ss[1] < ss[2]}
  <1>1. IsWellFoundedOn(R, Nat)
    BY NatLessThanWellFounded DEF OpToRel
  <1>2. PICK k \in S : \A j \in S : ~(<<j, k>> \in R)
    <2> HIDE DEF R
    <2> QED BY <1>1, WFMin
  <1>3. \A j \in S : k <= j
    <2> TAKE j \in S
    <2>1. j \in Nat /\ k \in Nat
      OBVIOUS
    <2>2. ~(j < k)
      BY <1>2, <2>1
    <2> QED BY <2>1, <2>2
  <1> QED BY <1>3

LEMMA OtherKept ==
  ASSUME TypeInv,
         ProposedBlock \/ EndOfRound \/ SyncBlock \/ Backfill \/ RecoverFromMismatch
           \/ RollBack \/ Close
  PROVE  TypeInv'
  <1>0. TrackerInv /\ CallInv /\ CacheOK /\ head \in Headers
    BY DEF TypeInv, FieldsOK
  <1>1. PauseInv'
    BY PauseOther DEF TypeInv
  <1>2. Consensus \in Callers /\ Sync \in Callers /\ 0 \in Nat
    BY DEF Callers
  <1>3. CASE ProposedBlock
    <2>1. PICK h \in Headers : Begin(Consensus, "add", h, 0, None, "proposed")
      BY <1>3 DEF ProposedBlock
    <2>2. Kept'
      BY <1>0, <1>2, <1>3, <2>1, BeginIs, MovesFreely DEF ProposedBlock
    <2> QED BY <1>1, <2>2 DEF Kept, TypeInv
  <1>4. CASE SyncBlock
    <2>1. PICK h \in Headers : Begin(Sync, "add", h, 0, None, "commit")
      BY <1>4 DEF SyncBlock
    <2>2. Kept'
      BY <1>0, <1>2, <1>4, <2>1, BeginIs, MovesFreely DEF SyncBlock
    <2> QED BY <1>1, <2>2 DEF Kept, TypeInv
  <1>5. CASE Backfill
    <2>1. PICK h \in Chain[head] : Begin(Sync, "add", h, 0, None, "idle")
      BY <1>5 DEF Backfill
    <2>2. h \in Headers
      BY <1>0, <2>1 DEF Chain
    <2>3. Kept'
      BY <1>0, <1>2, <1>5, <2>1, <2>2, BeginIs, MovesFreely DEF Backfill
    <2> QED BY <1>1, <2>3 DEF Kept, TypeInv
  <1>6. CASE RecoverFromMismatch
    <2>1. PICK h \in Headers \ {FirstHeader} :
            Begin(Sync, "remove", h,
                  IF DivergingNonces(h) = {} THEN notarizedNonce + 1
                  ELSE CHOOSE k \in DivergingNonces(h) : \A j \in DivergingNonces(h) : k <= j,
                  None, "idle")
      BY <1>6 DEF RecoverFromMismatch
    <2> DEFINE ns == DivergingNonces(h)
               n  == IF ns = {} THEN notarizedNonce + 1 ELSE CHOOSE k \in ns : \A j \in ns : k <= j
    <2>2. n \in Nat
      <3>1. notarizedNonce + 1 \in Nat
        BY <1>0, NotarizedIsNat
      <3>2. ns \subseteq Nat
        BY <1>0, DivergingAreNat
      <3> HIDE DEF ns
      <3>3. ns # {} => (CHOOSE k \in ns : \A j \in ns : k <= j) \in ns
        BY <3>2, LeastOf
      <3> QED BY <3>1, <3>2, <3>3
    <2>3. Begin(Sync, "remove", h, n, None, "idle") /\ h \in Headers
      BY <2>1
    <2> HIDE DEF n
    <2>4. Kept'
      BY <1>0, <1>2, <1>6, <2>2, <2>3, BeginIs, MovesFreely DEF RecoverFromMismatch
    <2> QED BY <1>1, <2>4 DEF Kept, TypeInv
  <1>7. CASE RollBack
    <2>1. head' = PrevOf[head] /\ Begin(Sync, "remove", head, NonceOf[head], PrevOf[head], "rewind")
      BY <1>7 DEF RollBack
    <2>2. PrevOf[head] \in Headers /\ NonceOf[head] \in Nat
      BY <1>0, ExecutionAssumption, TrackerAssumption
    <2>3. Kept'
      BY <1>0, <1>2, <1>7, <2>1, <2>2, BeginIs, MovesFreely DEF RollBack
    <2> QED BY <1>1, <2>3 DEF Kept, TypeInv
  <1>8. CASE EndOfRound
    <2>1. call[Consensus].pc = "proposed" /\ (Return(Consensus) \/ Goto(Consensus, "commit"))
      BY <1>8 DEF EndOfRound, At
    <2>2. IsCall(call[Consensus])
      BY <1>0, <1>2, <2>1, CallAt DEF At
    <2>3. "proposed" \in AddPlaces /\ "commit" \in AddPlaces /\ "commit" \notin LockedPlaces
          /\ "proposed" \notin LockedPlaces
      BY DEF AddPlaces, LockedPlaces
    <2>4. \E c : /\ c = Idle \/ IsCall(c)
                 /\ c.pc \notin LockedPlaces
                 /\ call' = [call EXCEPT ![Consensus] = c]
      <3>1. CASE Return(Consensus)
        BY <3>1, IdleIsFree DEF Return
      <3>2. CASE Goto(Consensus, "commit")
        <4>1. call' = [call EXCEPT ![Consensus] = [call[Consensus] EXCEPT !.pc = "commit"]]
          BY <1>0, <1>2, <3>2, GotoMoves
        <4>2. /\ IsCall([call[Consensus] EXCEPT !.pc = "commit"])
              /\ [call[Consensus] EXCEPT !.pc = "commit"].pc = "commit"
          BY <2>1, <2>2, <2>3, GoneTo
        <4> QED BY <2>3, <4>1, <4>2
      <3> QED BY <2>1, <3>1, <3>2
    <2>5. Kept'
      BY <1>0, <1>2, <1>8, <2>1, <2>3, <2>4, MovesFreely DEF EndOfRound
    <2> QED BY <1>1, <2>5 DEF Kept, TypeInv
  <1>9. CASE Close
    <2>1. /\ UNCHANGED <<trackerVars, cache, lastExecutionResult, head, execVars, isPaused, mut, call>>
          /\ closed' \in BOOLEAN
      BY <1>9 DEF Close, pauseVars
    <2>2. TrackerInv' /\ CacheOK' /\ CallInv'
      BY <1>0, <2>1, StutterPreserves, CacheFixed, CallsStay
    <2>3. FieldsOK'
      BY <2>1, FieldsFixed DEF TypeInv, FieldsOK
    <2> QED BY <1>1, <2>2, <2>3 DEF TypeInv
  <1> QED BY <1>3, <1>4, <1>5, <1>6, <1>7, <1>8, <1>9

InProcess ==
  {"process", "replace", "trim", "execute", "verify", "commit", "add", "publish", "retry"}

LEMMA Attempts ==
  ASSUME TypeInv, pair \in Headers, NEW m, handleProcessError(m)
  PROVE  /\ tries' \in 0 .. MaxRetryAttempts
         /\ pair' \in Headers \cup {None} /\ before' = {} /\ root' \in Roots
         /\ epc' \in InProcess => pair' \in Headers
         /\ epc' \in {"check", "retry"}
  <1>1. MaxRetryAttempts \in Nat \ {0} /\ tries \in 0 .. MaxRetryAttempts /\ FirstResult.root \in Roots
    BY ExecutionAssumption, TrackerAssumption DEF TypeInv, FieldsOK, Result
  <1>2. CASE LoopAgain
    BY <1>1, <1>2 DEF LoopAgain, processDone, InProcess
  <1>3. CASE ~(tries > 0 /\ tries >= MaxRetryAttempts) /\ epc' = "retry" /\ tries' = tries + 1 /\ processDone /\ UNCHANGED pair
    BY <1>1, <1>3 DEF processDone, InProcess
  <1> QED BY <1>2, <1>3 DEF handleProcessError

LEMMA LoopsAgain ==
  ASSUME LoopAgain
  PROVE  /\ tries' \in 0 .. MaxRetryAttempts
         /\ pair' \in Headers \cup {None} /\ before' = {} /\ root' \in Roots
         /\ epc' \in InProcess => pair' \in Headers
  <1>1. MaxRetryAttempts \in Nat \ {0} /\ FirstResult.root \in Roots
    BY ExecutionAssumption, TrackerAssumption DEF Result
  <1> QED BY <1>1 DEF LoopAgain, processDone, InProcess

(* What the executor's step leaves alone, and what its fields become. *)
LEMMA ExecutorKeeps ==
  ASSUME TypeInv, UNCHANGED <<cache, head, isPaused, closed, mut, call>>, PauseInv',
         TrackerInv', lastExecutionResult' \in Result,
         tries' \in 0 .. MaxRetryAttempts, pair' \in Headers \cup {None},
         before' \subseteq Result, root' \in Roots,
         epc' \in InProcess => pair' \in Headers
  PROVE  TypeInv'
  <1>1. CallInv' /\ CacheOK'
    BY CallsStay, CacheFixed DEF TypeInv
  <1>2. FieldsOK'
    BY DEF TypeInv, FieldsOK, InProcess
  <1> QED BY <1>1, <1>2 DEF TypeInv

LEMMA ExecutorKept ==
  ASSUME TypeInv, Executor
  PROVE  TypeInv'
  <1>0. /\ TrackerInv /\ CacheOK /\ lastExecutionResult \in Result
        /\ tries \in 0 .. MaxRetryAttempts /\ pair \in Headers \cup {None}
        /\ before \subseteq Result /\ root \in Roots
        /\ epc \in InProcess => pair \in Headers
    BY DEF TypeInv, FieldsOK, InProcess
  <1>1. PauseInv'
    BY PauseExecutor DEF TypeInv
  <1>2. lastNonce \in Nat
    BY <1>0, TrackerAssumption DEF lastNonce, nonceOf, Result
  <1>3. UNCHANGED trackerVars => TrackerInv'
    BY <1>0, StutterPreserves
  <1>4. ASSUME NEW m, ProcessFails(m), epc \in InProcess
        PROVE  TypeInv'
    <2>1. /\ handleProcessError(m)
          /\ UNCHANGED <<trackerVars, cache, lastExecutionResult, head, isPaused, closed, mut, call>>
      BY <1>4 DEF ProcessFails
    <2>2. /\ tries' \in 0 .. MaxRetryAttempts
          /\ pair' \in Headers \cup {None} /\ before' = {} /\ root' \in Roots
          /\ epc' \in InProcess => pair' \in Headers
      BY <1>0, <1>4, <2>1, Attempts
    <2> QED BY <1>0, <1>1, <1>3, <2>1, <2>2, ExecutorKeeps
  <1>5. CASE ExecLoop
    <2>1. epc' \notin InProcess
      BY <1>5 DEF ExecLoop, InProcess
    <2> QED BY <1>0, <1>1, <1>3, <1>5, <2>1, ExecutorKeeps DEF ExecLoop
  <1>6. CASE ExecReplacement
    <2>1. pair' \in Headers \cup {None} /\ (epc' \in InProcess => pair' \in Headers)
      BY <1>0, <1>6 DEF ExecReplacement, ReplacementInCache, CacheOK, InProcess
    <2> QED BY <1>0, <1>1, <1>3, <1>6, <2>1, ExecutorKeeps DEF ExecReplacement, pauseVars
  <1>7. CASE ExecNext
    <2>1. pair' \in Headers \cup {None} /\ (epc' \in InProcess => pair' \in Headers)
      BY <1>0, <1>7 DEF ExecNext, CacheOK, InProcess
    <2> QED BY <1>0, <1>1, <1>3, <1>7, <2>1, ExecutorKeeps DEF ExecNext
  <1>8. CASE ExecProcess
    <2>1. epc \in InProcess
      BY <1>8 DEF ExecProcess, InProcess
    <2>2. CASE \E m : ProcessFails(m)
      BY <1>4, <2>1, <2>2
    <2>3. CASE /\ UNCHANGED <<trackerVars, cache, lastExecutionResult, head, pair, root, tries,
                              pauseVars, closed, mut, call>>
               /\ before' = PendingBelow(pair) \/ UNCHANGED before
      <3>1. before' \subseteq Result
        BY <1>0, <2>3, PendingTyped DEF PendingBelow
      <3> QED BY <1>0, <1>1, <1>3, <2>1, <2>3, <3>1, ExecutorKeeps DEF pauseVars
    <2> QED BY <1>8, <2>2, <2>3 DEF ExecProcess, FailsIf
  <1>9. CASE ExecReplace
    <2>1. epc \in InProcess
      BY <1>9 DEF ExecReplace, InProcess
    <2>2. CASE ProcessFails(FALSE)
      BY <1>4, <2>1, <2>2
    <2>3. CASE \E r \in ParentResult(pair, before) :
                 /\ lastExecutionResult' = r
                 /\ before' = {}
                 /\ UNCHANGED <<trackerVars, cache, head, pair, root, tries, pauseVars, closed, mut, call>>
      <3>1. lastExecutionResult' \in Result
        BY <1>0, <2>3, ParentTyped
      <3> QED BY <1>0, <1>1, <1>3, <2>1, <2>3, <3>1, ExecutorKeeps DEF pauseVars
    <2> QED BY <1>9, <2>2, <2>3 DEF ExecReplace, FailsIf
  <1>10. CASE ExecTrim
    <2>1. epc \in InProcess
      BY <1>10 DEF ExecTrim, InProcess
    <2>2. lastNonce + 1 \in Nat
      BY <1>2
    <2>3. TrackerInv'
      BY <1>0, <1>10, <2>2, RemovePreserves DEF ExecTrim
    <2> QED BY <1>0, <1>1, <1>10, <2>1, <2>3, ExecutorKeeps DEF ExecTrim, pauseVars
  <1>11. CASE ExecExecute
    <2>1. epc \in InProcess
      BY <1>11 DEF ExecExecute, InProcess
    <2>2. CASE ProcessFails(FALSE)
      BY <1>4, <2>1, <2>2
    <2>3. CASE /\ root' \in Roots
               /\ UNCHANGED <<trackerVars, cache, lastExecutionResult, head, pair, before, tries,
                              pauseVars, closed, mut, call>>
      BY <1>0, <1>1, <1>3, <2>1, <2>3, ExecutorKeeps DEF pauseVars
    <2> QED BY <1>11, <2>2, <2>3 DEF ExecExecute, FailsIf
  <1>12. CASE ExecVerify
    <2>1. epc \in InProcess
      BY <1>12 DEF ExecVerify, InProcess
    <2>2. /\ tries' \in 0 .. MaxRetryAttempts /\ pair' \in Headers \cup {None}
          /\ before' \subseteq Result /\ root' \in Roots
          /\ epc' \in InProcess => pair' \in Headers
      BY <1>0, <1>12, <2>1, LoopsAgain DEF ExecVerify
    <2> QED BY <1>0, <1>1, <1>3, <1>12, <2>2, ExecutorKeeps DEF ExecVerify, pauseVars
  <1>13. CASE ExecCommit
    <2>1. epc \in InProcess
      BY <1>13 DEF ExecCommit, InProcess
    <2>2. /\ tries' \in 0 .. MaxRetryAttempts /\ pair' \in Headers \cup {None}
          /\ before' \subseteq Result /\ root' \in Roots
          /\ epc' \in InProcess => pair' \in Headers
      BY <1>0, <1>13, <2>1, Attempts DEF ExecCommit
    <2>3. TrackerInv'
      BY <1>0, <1>13, PopPreserves DEF ExecCommit
    <2> QED BY <1>0, <1>1, <1>13, <2>2, <2>3, ExecutorKeeps DEF ExecCommit
  <1>14. CASE ExecAdd
    <2>1. epc \in InProcess
      BY <1>14 DEF ExecAdd, InProcess
    <2>2. \/ AddExecutionResult(ExecutionResult) /\ UNCHANGED <<pair, before, root, tries>>
          \/ LoopAgain /\ UNCHANGED trackerVars
          \/ handleProcessError(FALSE) /\ UNCHANGED trackerVars
      BY <1>14 DEF ExecAdd
    <2>3. /\ tries' \in 0 .. MaxRetryAttempts /\ pair' \in Headers \cup {None}
          /\ before' \subseteq Result /\ root' \in Roots
          /\ epc' \in InProcess => pair' \in Headers
      BY <1>0, <2>1, <2>2, Attempts, LoopsAgain
    <2>4. ExecutionResult \in Result
      BY <1>0, <2>1 DEF ExecutionResult, Result
    <2>5. TrackerInv'
      BY <1>0, <1>3, <2>2, <2>4, AddPreserves
    <2> QED BY <1>0, <1>1, <1>14, <2>3, <2>5, ExecutorKeeps DEF ExecAdd
  <1>15. CASE ExecPublish
    <2>1. epc \in InProcess
      BY <1>15 DEF ExecPublish, InProcess
    <2>2. lastExecutionResult' \in Result
      BY <1>0, <1>15, <2>1 DEF ExecPublish, ExecutionResult, Result
    <2>3. /\ tries' \in 0 .. MaxRetryAttempts /\ pair' \in Headers \cup {None}
          /\ before' \subseteq Result /\ root' \in Roots
          /\ epc' \in InProcess => pair' \in Headers
      BY <1>15, LoopsAgain DEF ExecPublish
    <2> QED BY <1>1, <1>3, <1>15, <2>2, <2>3, ExecutorKeeps DEF ExecPublish, pauseVars
  <1>16. CASE ExecRetry
    <2>1. epc \in InProcess
      BY <1>16 DEF ExecRetry, InProcess
    <2>2. /\ tries' \in 0 .. MaxRetryAttempts /\ pair' \in Headers \cup {None}
          /\ before' \subseteq Result /\ root' \in Roots
          /\ epc' \in InProcess => pair' \in Headers
      BY <1>0, <1>16, <2>1, LoopsAgain DEF ExecRetry
    <2> QED BY <1>0, <1>1, <1>3, <1>16, <2>2, ExecutorKeeps DEF ExecRetry, pauseVars
  <1> QED
    BY <1>5, <1>6, <1>7, <1>8, <1>9, <1>10, <1>11, <1>12, <1>13, <1>14, <1>15, <1>16 DEF Executor

LEMMA TypeInvInit == AsyncInit => TypeInv
  <1> SUFFICES ASSUME AsyncInit PROVE TypeInv
    OBVIOUS
  <1>1. TrackerInv
    BY InitTrackerInv DEF AsyncInit
  <1>2. FieldsOK
    <2>1. FirstResult \in Result /\ FirstResult.hash \in Headers /\ FirstResult.root \in Roots
      BY TrackerAssumption DEF Result
    <2>2. 0 \in 0 .. MaxRetryAttempts
      BY ExecutionAssumption
    <2> QED BY <2>1, <2>2 DEF AsyncInit, FieldsOK, FirstHeader
  <1>3. CacheOK
    <2>1. DOMAIN cache = {}
      BY DEF AsyncInit, Empty
    <2>2. IsFiniteSet({}) /\ Cardinality({}) = 0
      BY FS_EmptySet
    <2> QED BY <2>1, <2>2, ExecutionAssumption DEF CacheOK
  <1>4. PauseInv
    BY DEF AsyncInit, PauseInv, PauseExcludesExecution
  <1>5. CallInv
    <2>1. \A t \in Callers : call[t] = Idle
      BY DEF AsyncInit
    <2>2. CallsTyped
      BY <2>1 DEF AsyncInit, CallsTyped
    <2>3. MutexOK
      BY <2>1, IdleIsFree DEF AsyncInit, MutexOK, Callers, Free, Consensus, Sync
    <2>4. QueuedOK
      BY <2>1, IdleIsFree DEF QueuedOK
    <2> QED BY <2>2, <2>3, <2>4 DEF CallInv
  <1> QED BY <1>1, <1>2, <1>3, <1>4, <1>5 DEF TypeInv

LEMMA TypeInvNext == TypeInv /\ [AsyncNext]_asyncVars => TypeInv'
  <1> SUFFICES ASSUME TypeInv, [AsyncNext]_asyncVars PROVE TypeInv'
    OBVIOUS
  <1>1. CASE UNCHANGED asyncVars
    <2>1. TrackerInv' /\ CacheOK' /\ CallInv' /\ PauseInv'
      BY <1>1, StutterPreserves, CacheFixed, CallsStay, PauseUntouched
         DEF asyncVars, pauseVars, execVars, TypeInv
    <2>2. FieldsOK'
      BY <1>1, FieldsFixed DEF TypeInv, FieldsOK, asyncVars
    <2> QED BY <2>1, <2>2 DEF TypeInv
  <1>2. CASE AsyncNext
    BY <1>2, ExecutorKept, CallerKept, OtherKept DEF AsyncNext
  <1> QED BY <1>1, <1>2

(* The fields of the executor, the manager and the tracker keep their      *)
(* types whatever the callers interleave; a pair is in the queue at its    *)
(* own nonce, the queue stays within its capacity (the pair that           *)
(* restoreCachedPair puts back included), and a block is tried at most     *)
(* maxRetryAttempts times.                                                 *)
THEOREM AsyncTyped == AsyncSpec => []AsyncTypeOK
<1>1. TypeInv => AsyncTypeOK
  BY DEF TypeInv, TrackerInv, CacheOK, FieldsOK, PauseInv, CallInv, MutexOK, AsyncTypeOK
<1> QED BY <1>1, TypeInvInit, TypeInvNext, PTL DEF AsyncSpec

-----------------------------------------------------------------------------
(* The tracker's results, the last execution result and the block in       *)
(* process are on one chain.                                               *)

(* The hash is the one that the tracker has at nonce n, if it has one. *)
AgreesAt(n, h) == n \in notarizedNonce .. lastExecutedNonce => HashAt(n) = h

LastAgrees == AgreesAt(lastNonce, lastExecutionResult.hash)

BeforeAgrees == epc = "replace" => \A r \in before : AgreesAt(nonceOf(r), r.hash)

(* The block that is committed was executed on the last execution result. *)
OnLast ==
  epc \in {"commit", "add", "publish"} =>
    NonceOf[pair] = lastNonce + 1 /\ PrevOf[pair] = lastExecutionResult.hash

AddedAgrees ==
  epc = "publish" => AgreesAt(NonceOf[pair], pair) /\ lastExecutedNonce <= NonceOf[pair]

(* The tracker has no result above the last execution result, except while *)
(* the executor changes the two; or a commit notarised a later one.        *)
NothingAbove ==
  epc \notin {"trim", "publish"} => lastExecutedNonce <= lastNonce \/ notarizedNonce > lastNonce

ChainByNonce ==
  \A k \in notarizedNonce + 1 .. lastExecutedNonce : PrevOf[HashAt(k)] = HashAt(k - 1)

LinkInv ==
  LastAgrees /\ BeforeAgrees /\ OnLast /\ AddedAgrees /\ NothingAbove /\ ChainByNonce

LEMMA Nonces ==
  ASSUME TypeInv
  PROVE  /\ notarizedNonce \in Nat /\ lastExecutedNonce \in Nat /\ lastNonce \in Nat
         /\ notarizedNonce <= lastExecutedNonce
         /\ lastExecutionResult.hash \in Headers
         /\ \A r \in before : nonceOf(r) \in Nat
         /\ \A h \in Headers : NonceOf[h] \in Nat
  <1>1. lastNonce \in Nat /\ lastExecutionResult.hash \in Headers
    BY TrackerAssumption DEF TypeInv, FieldsOK, lastNonce, nonceOf, Result
  <1>2. \A r \in before : nonceOf(r) \in Nat
    BY TrackerAssumption DEF TypeInv, FieldsOK, nonceOf, Result
  <1> QED BY <1>1, <1>2, NotarizedIsNat, TrackerAssumption DEF TypeInv

LEMMA Within ==
  ASSUME NEW n \in Nat, NEW e \in Nat, NEW m \in Nat, NEW d \in Nat, n <= m, d <= e,
         NEW k \in m + 1 .. d
  PROVE  k \in m .. d /\ k - 1 \in m .. d /\ k \in n + 1 .. e
  OBVIOUS

(* What is left of the tracker's results agrees with what they did. *)
LEMMA ChainShrinks ==
  ASSUME notarizedNonce \in Nat, lastExecutedNonce \in Nat,
         notarizedNonce' \in Nat, lastExecutedNonce' \in Nat, Shrinks, ChainByNonce
  PROVE  ChainByNonce'
  <1> HIDE DEF notarizedNonce, lastExecutedNonce, HashAt
  <1> SUFFICES ASSUME NEW k \in notarizedNonce' + 1 .. lastExecutedNonce'
               PROVE  PrevOf[HashAt(k)'] = HashAt(k - 1)'
    BY DEF ChainByNonce
  <1>0. notarizedNonce <= notarizedNonce' /\ lastExecutedNonce' <= lastExecutedNonce
    BY DEF Shrinks
  <1>1. /\ k \in notarizedNonce' .. lastExecutedNonce'
        /\ k - 1 \in notarizedNonce' .. lastExecutedNonce'
        /\ k \in notarizedNonce + 1 .. lastExecutedNonce
    BY <1>0, Within
  <1>2. HashAt(k)' = HashAt(k) /\ HashAt(k - 1)' = HashAt(k - 1)
    BY <1>1 DEF Shrinks
  <1> QED BY <1>1, <1>2 DEF ChainByNonce

(* Results leave the tracker, or become notarised, on another goroutine.   *)
LEMMA LinkShrinks ==
  ASSUME TypeInv, TypeInv', Shrinks, LinkInv, UNCHANGED <<lastExecutionResult, execVars>>
  PROVE  LinkInv'
  <1>1. /\ notarizedNonce \in Nat /\ lastExecutedNonce \in Nat /\ lastNonce \in Nat
        /\ notarizedNonce' \in Nat /\ lastExecutedNonce' \in Nat
    <2>1. (notarizedNonce \in Nat /\ lastExecutedNonce \in Nat)'
      BY Nonces, PTL
    <2> QED BY <2>1, Nonces
  <1>2. lastNonce' = lastNonce
    BY DEF lastNonce, nonceOf
  <1> HIDE DEF notarizedNonce, lastExecutedNonce, HashAt, lastNonce
  <1>3. ChainByNonce'
    BY <1>1, ChainShrinks DEF LinkInv
  <1>4. LastAgrees'
    BY <1>1, <1>2 DEF LinkInv, LastAgrees, AgreesAt, Shrinks
  <1>5. BeforeAgrees'
    BY <1>1 DEF LinkInv, BeforeAgrees, AgreesAt, Shrinks, nonceOf, execVars
  <1>6. OnLast'
    BY <1>2 DEF LinkInv, OnLast, execVars
  <1>7. AddedAgrees'
    <2>1. CASE epc = "publish"
      <3>1. pair \in Headers /\ NonceOf[pair] \in Nat
        BY <2>1, Nonces DEF TypeInv, FieldsOK
      <3> QED BY <1>1, <2>1, <3>1 DEF LinkInv, AddedAgrees, AgreesAt, Shrinks, execVars
    <2>2. CASE epc # "publish"
      BY <2>2 DEF AddedAgrees, execVars
    <2> QED BY <2>1, <2>2
  <1>8. NothingAbove'
    BY <1>1, <1>2 DEF LinkInv, NothingAbove, Shrinks, execVars
  <1> QED BY <1>3, <1>4, <1>5, <1>6, <1>7, <1>8 DEF LinkInv

LEMMA LinkUntouched ==
  ASSUME TypeInv, TypeInv', LinkInv,
         UNCHANGED <<trackerVars, lastExecutionResult, execVars>>
  PROVE  LinkInv'
  <1>1. UNCHANGED <<lastNotarizedResult, nonceHash, lastExecutedResultHash>>
    BY DEF trackerVars, indexVars
  <1>2. Shrinks
    BY <1>1, UntouchedShrinks DEF TypeInv
  <1> QED BY <1>2, LinkShrinks

(* While no block is in process. *)
AtRest ==
  /\ LastAgrees
  /\ lastExecutedNonce <= lastNonce \/ notarizedNonce > lastNonce
  /\ ChainByNonce

LEMMA LinkAtRest ==
  ASSUME epc \in {"check", "stopped"}
  PROVE  AtRest => LinkInv
  BY DEF AtRest, LinkInv, BeforeAgrees, OnLast, AddedAgrees, NothingAbove

(* A paused section runs while the executor is between two blocks. *)
LEMMA PausedIsAtRest ==
  ASSUME TypeInv, NEW t \in Callers, NEW p \in PausedPlaces, PausedAt(t, p), UNCHANGED execVars
  PROVE  AtRest' => LinkInv'
  <1>1. isPaused /\ ~processingDone
    BY DEF TypeInv, CallInv, MutexOK, PausedAt, At
  <1>2. epc \in {"check", "stopped"}
    BY <1>1 DEF TypeInv, PauseInv, PauseExcludesExecution
  <1>3. (epc \in {"check", "stopped"})'
    BY <1>2 DEF execVars
  <1> QED BY <1>3, LinkAtRest, PTL

LEMMA PendingAgrees ==
  ASSUME TrackerInv, NEW r \in Pending \cup {lastNotarizedResult}
  PROVE  r \in Result /\ nonceOf(r) \in notarizedNonce .. lastExecutedNonce /\ HashAt(nonceOf(r)) = r.hash
  <1>1. TrackerTypeOK /\ IndexesAgree
    BY DEF TrackerInv
  <1>2. /\ notarizedNonce \in Nat /\ lastExecutedNonce \in Nat
        /\ notarizedNonce <= lastExecutedNonce
        /\ DOMAIN nonceHash = notarizedNonce + 1 .. lastExecutedNonce
    BY RunOfHashes DEF Run
  <1>3. r \in Result
    BY PendingTyped
  <1>4. CASE r = lastNotarizedResult
    <2>1. nonceOf(r) = notarizedNonce
      BY <1>4 DEF notarizedNonce
    <2> HIDE DEF notarizedNonce, lastExecutedNonce, nonceOf
    <2> QED BY <1>2, <1>3, <1>4, <2>1 DEF HashAt
  <1>5. CASE r \in Pending
    <2>1. nonceOf(r) \in DOMAIN nonceHash /\ r.hash = nonceHash[nonceOf(r)]
      BY <1>1, <1>5, PendingByNonce
    <2> HIDE DEF notarizedNonce, lastExecutedNonce, nonceOf
    <2>2. nonceOf(r) \in notarizedNonce .. lastExecutedNonce /\ nonceOf(r) # notarizedNonce
      BY <1>2, <2>1
    <2> QED BY <1>3, <2>1, <2>2 DEF HashAt
  <1> QED BY <1>4, <1>5

LEMMA ParentIsKnown ==
  ASSUME NEW h, NEW rs, NEW r \in ParentResult(h, rs)
  PROVE  r \in rs \cup {lastNotarizedResult}
  BY DEF ParentResult

(* The tracker and the last execution result go back to result r together. *)
LEMMA GoesBackTogether ==
  ASSUME TypeInv, LinkInv, TrackerInv', NEW n \in Nat, RemoveFromNonce(n), NEW r \in Result,
         nonceOf(r) \in notarizedNonce .. lastExecutedNonce, HashAt(nonceOf(r)) = r.hash,
         nonceOf(r) = lastExecutedNonce \/ nonceOf(r) + 1 = n, lastExecutionResult' = r
  PROVE  AtRest'
  <1>1. /\ Shrinks /\ notarizedNonce' = notarizedNonce
        /\ lastExecutedNonce' < n \/ lastExecutedNonce' = notarizedNonce
    BY RemoveShrinks DEF TypeInv
  <1>2. (notarizedNonce \in Nat /\ lastExecutedNonce \in Nat)'
    BY NotarizedIsNat, PTL
  <1>3. lastNonce' = nonceOf(r)
    BY DEF lastNonce, nonceOf
  <1>4. notarizedNonce \in Nat /\ lastExecutedNonce \in Nat
    BY Nonces
  <1>5. ChainByNonce'
    BY <1>1, <1>2, <1>4, ChainShrinks DEF LinkInv
  <1> HIDE DEF notarizedNonce, lastExecutedNonce, HashAt, lastNonce, nonceOf
  <1>6. lastExecutedNonce' <= lastNonce'
    BY <1>1, <1>2, <1>3, <1>4 DEF Shrinks
  <1>7. LastAgrees'
    BY <1>1, <1>3 DEF LastAgrees, AgreesAt, Shrinks
  <1> QED BY <1>5, <1>6, <1>7 DEF AtRest

LEMMA ReplacedHeaderLinks ==
  ASSUME TypeInv, TypeInv', LinkInv, NEW t \in Callers, NEW p \in PausedPlaces, PausedAt(t, p),
         UNCHANGED execVars, NEW h, NEW r \in ParentResult(h, PendingBelow(h)),
         UpdateContextForReplacedHeader(r)
  PROVE  LinkInv'
  <1>1. r \in Pending \cup {lastNotarizedResult}
    BY ParentIsKnown DEF PendingBelow
  <1>2. r \in Result /\ nonceOf(r) \in notarizedNonce .. lastExecutedNonce /\ HashAt(nonceOf(r)) = r.hash
    BY <1>1, PendingAgrees DEF TypeInv
  <1>3. CASE r.hash = lastExecutionResult.hash
    BY <1>3, LinkUntouched DEF UpdateContextForReplacedHeader
  <1>4. CASE r.hash # lastExecutionResult.hash
    <2>1. lastExecutionResult' = r /\ RemoveFromNonce(nonceOf(r) + 1)
      BY <1>4 DEF UpdateContextForReplacedHeader
    <2>2. nonceOf(r) + 1 \in Nat
      BY <1>2, Nonces, TrackerAssumption DEF nonceOf, Result
    <2>3. AtRest'
      BY <1>2, <2>1, <2>2, GoesBackTogether DEF TypeInv
    <2> QED BY <2>3, PausedIsAtRest
  <1> QED BY <1>3, <1>4

LEMMA LinkCaller ==
  ASSUME TypeInv, TypeInv', LinkInv, NEW t \in Callers, Caller(t)
  PROVE  LinkInv'
  <1>1. CASE AddPair(t) \/ AddToCache(t) \/ AddReread(t) \/ CommitBlock(t) \/ checkBlockValidity(t)
             \/ SetHead(t) \/ RestoreHead(t) \/ Remove(t) \/ RewindToTip(t)
    BY <1>1, LinkUntouched
       DEF AddPair, AddToCache, AddReread, CommitBlock, checkBlockValidity, SetHead, RestoreHead,
           Remove, RewindToTip
  <1>2. CASE Reached(t)
    BY <1>2, ReachedKept, LinkShrinks DEF Reached
  <1>3. CASE Confirm(t)
    BY <1>3, ConfirmKept, LinkShrinks DEF Confirm
  <1>4. CASE AddReplacementPair(t)
    <2>1. PausedAt(t, "addReplacement") /\ "addReplacement" \in PausedPlaces
      BY <1>4 DEF AddReplacementPair, PausedPlaces
    <2>2. \/ UNCHANGED <<trackerVars, lastExecutionResult, execVars>>
          \/ /\ UNCHANGED execVars
             /\ \E r \in ParentResult(call[t].h, PendingBelow(call[t].h)) : UpdateContextForReplacedHeader(r)
      BY <1>4 DEF AddReplacementPair
    <2> QED BY <2>1, <2>2, LinkUntouched, ReplacedHeaderLinks
  <1>5. CASE AddRaced(t)
    <2>1. PausedAt(t, "addRaced") /\ "addRaced" \in PausedPlaces
      BY <1>5 DEF AddRaced, PausedPlaces
    <2>2. \/ UNCHANGED <<trackerVars, lastExecutionResult, execVars>>
          \/ /\ UNCHANGED execVars
             /\ \E r \in ParentResult(call[t].h, PendingBelow(call[t].h)) : UpdateContextForReplacedHeader(r)
      BY <1>5 DEF AddRaced
    <2> QED BY <2>1, <2>2, LinkUntouched, ReplacedHeaderLinks
  <1>6. CASE RemoveAtNonceAndHigher(t)
    <2> DEFINE n == IF call[t].n <= notarizedNonce THEN notarizedNonce + 1 ELSE call[t].n
    <2>1. PausedAt(t, "removing") /\ "removing" \in PausedPlaces /\ "removing" \in LockedPlaces
      BY <1>6 DEF RemoveAtNonceAndHigher, PausedPlaces, LockedPlaces
    <2>2. call[t].n \in Nat
      BY <2>1, HeldByCaller DEF PausedAt
    <2>3. notarizedNonce \in Nat /\ lastExecutedNonce \in Nat
      BY Nonces
    <2>4. n \in Nat /\ n > notarizedNonce
      <3> HIDE DEF notarizedNonce
      <3> QED BY <2>2, <2>3
    <2>5. /\ UNCHANGED execVars
          /\ \/ RemoveFromNonce(n) /\ lastExecutionResult' = ResultBefore(n)
             \/ ResetTrackerToLastNotarized
      BY <1>6 DEF RemoveAtNonceAndHigher
    <2> HIDE DEF n
    <2>6. CASE RemoveFromNonce(n) /\ lastExecutionResult' = ResultBefore(n)
      <3>1. PICK k \in notarizedNonce .. lastExecutedNonce :
              /\ k = IF n > lastExecutedNonce THEN lastExecutedNonce ELSE n - 1
              /\ ResultBefore(n) \in Result
              /\ nonceOf(ResultBefore(n)) = k
              /\ ResultBefore(n).hash = HashAt(k)
        BY <2>4, ResultBeforeHash DEF TypeInv
      <3>2. k = lastExecutedNonce \/ k + 1 = n
        <4> HIDE DEF notarizedNonce, lastExecutedNonce
        <4> QED BY <2>3, <2>4, <3>1
      <3>3. AtRest'
        BY <2>4, <2>6, <3>1, <3>2, GoesBackTogether DEF TypeInv
      <3> QED BY <2>1, <2>5, <3>3, PausedIsAtRest
    <2>7. CASE ResetTrackerToLastNotarized
      <3>1. Shrinks
        BY <2>7, CleanToNotarized DEF ResetTrackerToLastNotarized, TypeInv
      <3> QED BY <2>5, <2>7, <3>1, LinkShrinks DEF ResetTrackerToLastNotarized
    <2> QED BY <2>5, <2>6, <2>7
  <1>7. CASE RewindExecutionStateToTip(t)
    <2> DEFINE anchor == AgreedResult(NotarizedBy[call[t].old])
    <2>1. /\ PausedAt(t, "rewinding") /\ "rewinding" \in PausedPlaces
          /\ UNCHANGED execVars
          /\ lastExecutionResult' = anchor
          /\ Rewind(anchor, NonceOf[call[t].old])
      BY <1>7 DEF RewindExecutionStateToTip, PausedPlaces
    <2>2. "rewinding" \in LockedPlaces /\ "rewinding" \in RewindPlaces
      BY DEF LockedPlaces, RewindPlaces
    <2>3. call[t].old \in Headers
      BY <2>1, <2>2, HeldByCaller DEF PausedAt, IsCall
    <2>4. anchor \in Result /\ NonceOf[call[t].old] \in Nat
      BY <2>3, ExecutionAssumption, TrackerAssumption DEF AgreedResult, Result
    <2> HIDE DEF anchor
    <2>5. /\ lastNotarizedResult' = anchor
          /\ notarizedNonce' = nonceOf(anchor) /\ lastExecutedNonce' = nonceOf(anchor)
      BY <2>1, <2>4, RewindTo DEF TypeInv
    <2>6. lastNonce' = nonceOf(anchor) /\ nonceOf(anchor) \in Nat
      BY <2>1, <2>4, TrackerAssumption DEF lastNonce, nonceOf, Result
    <2> HIDE DEF notarizedNonce, lastExecutedNonce, lastNonce, nonceOf
    <2>7. ChainByNonce'
      BY <2>5, <2>6 DEF ChainByNonce
    <2>8. LastAgrees'
      BY <2>1, <2>5, <2>6 DEF LastAgrees, AgreesAt, HashAt
    <2>9. AtRest'
      BY <2>5, <2>6, <2>7, <2>8 DEF AtRest
    <2> QED BY <2>1, <2>9, PausedIsAtRest
  <1> QED BY <1>1, <1>2, <1>3, <1>4, <1>5, <1>6, <1>7 DEF Caller

(* A step of the executor that neither adds a result nor moves the last    *)
(* execution result.                                                       *)
LEMMA LinkMoves ==
  ASSUME TypeInv, LinkInv, epc \notin {"trim", "publish"},
         epc' \notin {"replace", "commit", "add", "publish"},
         UNCHANGED <<lastNotarizedResult, nonceHash, lastExecutedResultHash, lastExecutionResult>>
  PROVE  LinkInv'
  <1>1. /\ notarizedNonce' = notarizedNonce /\ lastExecutedNonce' = lastExecutedNonce
        /\ lastNonce' = lastNonce
    BY DEF notarizedNonce, lastExecutedNonce, lastNonce, nonceOf
  <1>2. LastAgrees' /\ ChainByNonce'
    BY <1>1 DEF LinkInv, LastAgrees, ChainByNonce, AgreesAt, HashAt
  <1>3. NothingAbove'
    BY <1>1 DEF LinkInv, NothingAbove
  <1> QED BY <1>2, <1>3 DEF LinkInv, BeforeAgrees, OnLast, AddedAgrees

LEMMA ProcessFailsLinks ==
  ASSUME TypeInv, LinkInv, epc \notin {"trim", "publish"}, pair \in Headers,
         NEW m, handleProcessError(m),
         UNCHANGED <<lastNotarizedResult, nonceHash, lastExecutedResultHash, lastExecutionResult>>
  PROVE  LinkInv'
  <1>1. epc' \in {"check", "retry"}
    BY Attempts
  <1> QED BY <1>1, LinkMoves

LEMMA ExecProcessLinks ==
  ASSUME TypeInv, LinkInv, ExecProcess
  PROVE  LinkInv'
  <1>1. epc = "process" /\ pair \in Headers
    BY DEF ExecProcess, TypeInv, FieldsOK
  <1>2. CASE \E m : ProcessFails(m)
    BY <1>1, <1>2, ProcessFailsLinks DEF ProcessFails, trackerVars, indexVars
  <1>3. CASE epc' = "execute" /\ UNCHANGED <<trackerVars, lastExecutionResult>>
    BY <1>1, <1>3, LinkMoves DEF trackerVars, indexVars
  <1>4. CASE epc' = "replace" /\ before' = PendingBelow(pair) /\ UNCHANGED <<trackerVars, lastExecutionResult>>
    <2>1. UNCHANGED <<lastNotarizedResult, nonceHash, lastExecutedResultHash, lastExecutionResult>>
      BY <1>4 DEF trackerVars, indexVars
    <2>2. /\ notarizedNonce' = notarizedNonce /\ lastExecutedNonce' = lastExecutedNonce
          /\ lastNonce' = lastNonce
      BY <2>1 DEF notarizedNonce, lastExecutedNonce, lastNonce, nonceOf
    <2>3. LastAgrees' /\ ChainByNonce'
      BY <2>1, <2>2 DEF LinkInv, LastAgrees, ChainByNonce, AgreesAt, HashAt
    <2>4. NothingAbove'
      BY <1>1, <2>2 DEF LinkInv, NothingAbove
    <2>5. BeforeAgrees'
      <3> SUFFICES ASSUME NEW r \in before' PROVE AgreesAt(nonceOf(r), r.hash)'
        BY DEF BeforeAgrees
      <3>1. r \in Pending
        BY <1>4 DEF PendingBelow
      <3>2. HashAt(nonceOf(r)) = r.hash
        BY <3>1, PendingAgrees DEF TypeInv
      <3>3. HashAt(nonceOf(r))' = HashAt(nonceOf(r))
        BY <2>1, <2>2 DEF HashAt, nonceOf
      <3> QED BY <3>2, <3>3 DEF AgreesAt
    <2> QED BY <1>4, <2>3, <2>4, <2>5 DEF LinkInv, OnLast, AddedAgrees
  <1> QED BY <1>2, <1>3, <1>4 DEF ExecProcess, FailsIf

LEMMA ExecReplaceLinks ==
  ASSUME TypeInv, LinkInv, ExecReplace
  PROVE  LinkInv'
  <1>1. epc = "replace" /\ pair \in Headers
    BY DEF ExecReplace, TypeInv, FieldsOK
  <1>2. CASE ProcessFails(FALSE)
    BY <1>1, <1>2, ProcessFailsLinks DEF ProcessFails, trackerVars, indexVars
  <1>3. ASSUME NEW r \in ParentResult(pair, before), lastExecutionResult' = r, epc' = "trim",
               UNCHANGED trackerVars
        PROVE  LinkInv'
    <2>1. UNCHANGED <<lastNotarizedResult, nonceHash, lastExecutedResultHash>>
      BY <1>3 DEF trackerVars, indexVars
    <2>2. notarizedNonce' = notarizedNonce /\ lastExecutedNonce' = lastExecutedNonce
      BY <2>1 DEF notarizedNonce, lastExecutedNonce, nonceOf
    <2>3. AgreesAt(nonceOf(r), r.hash)
      <3>1. CASE r \in before
        BY <1>1, <3>1 DEF LinkInv, BeforeAgrees
      <3>2. CASE r = lastNotarizedResult
        BY <3>2, PendingAgrees DEF TypeInv, AgreesAt
      <3> QED BY <3>1, <3>2, ParentIsKnown
    <2>4. lastNonce' = nonceOf(r)
      BY <1>3 DEF lastNonce, nonceOf
    <2>5. LastAgrees'
      BY <1>3, <2>1, <2>2, <2>3, <2>4 DEF LastAgrees, AgreesAt, HashAt
    <2>6. ChainByNonce'
      BY <2>1, <2>2 DEF LinkInv, ChainByNonce, HashAt
    <2> QED BY <1>3, <2>5, <2>6 DEF LinkInv, BeforeAgrees, OnLast, AddedAgrees, NothingAbove
  <1> QED BY <1>2, <1>3 DEF ExecReplace, FailsIf

LEMMA ExecTrimLinks ==
  ASSUME TypeInv, TypeInv', LinkInv, ExecTrim
  PROVE  LinkInv'
  <1>1. RemoveFromNonce(lastNonce + 1) /\ epc' = "execute" /\ UNCHANGED lastExecutionResult
    BY DEF ExecTrim
  <1>2. notarizedNonce \in Nat /\ lastExecutedNonce \in Nat /\ lastNonce \in Nat /\ lastNonce + 1 \in Nat
    BY Nonces
  <1>3. (notarizedNonce \in Nat /\ lastExecutedNonce \in Nat)'
    BY Nonces, PTL
  <1>4. lastNonce' = lastNonce
    BY <1>1 DEF lastNonce, nonceOf
  <1>5. /\ Shrinks /\ notarizedNonce' = notarizedNonce
        /\ lastExecutedNonce' < lastNonce + 1 \/ lastExecutedNonce' = notarizedNonce
    BY <1>1, <1>2, RemoveShrinks DEF TypeInv
  <1>6. ChainByNonce'
    BY <1>2, <1>3, <1>5, ChainShrinks DEF LinkInv
  <1> HIDE DEF notarizedNonce, lastExecutedNonce, HashAt, lastNonce
  <1>7. LastAgrees'
    BY <1>1, <1>2, <1>3, <1>4, <1>5 DEF LinkInv, LastAgrees, AgreesAt, Shrinks
  <1>8. lastExecutedNonce' <= lastNonce' \/ notarizedNonce' > lastNonce'
    BY <1>2, <1>3, <1>4, <1>5
  <1> QED BY <1>1, <1>6, <1>7, <1>8 DEF LinkInv, BeforeAgrees, OnLast, AddedAgrees, NothingAbove

(* The check before the commit: the block is right above the last          *)
(* execution result, since a replacement would be its own parent.          *)
LEMMA VerifiedOnLast ==
  ASSUME TypeInv, pair \in Headers, checkLastExecutionResultContext,
         PrevOf[pair] = lastExecutionResult.hash
  PROVE  NonceOf[pair] = lastNonce + 1
  <1>1. CASE pair = FirstHeader
    BY <1>1, ExecutionAssumption DEF checkLastExecutionResultContext, IsReplacement
  <1>2. CASE pair # FirstHeader
    <2>1. NonceOf[pair] = NonceOf[PrevOf[pair]] + 1
      BY <1>2, ExecutionAssumption
    <2> QED BY <2>1 DEF lastNonce, nonceOf
  <1> QED BY <1>1, <1>2

LEMMA ExecVerifyLinks ==
  ASSUME TypeInv, LinkInv, ExecVerify
  PROVE  LinkInv'
  <1>1. /\ epc = "verify" /\ pair \in Headers
        /\ UNCHANGED <<lastNotarizedResult, nonceHash, lastExecutedResultHash, lastExecutionResult>>
    BY DEF ExecVerify, TypeInv, FieldsOK, trackerVars, indexVars
  <1>2. CASE LoopAgain
    BY <1>1, <1>2, LinkMoves DEF LoopAgain
  <1>3. CASE /\ checkLastExecutionResultContext /\ PrevOf[pair] = lastExecutionResult.hash
             /\ epc' = "commit" /\ UNCHANGED pair
    <2>1. NonceOf[pair] = lastNonce + 1
      BY <1>1, <1>3, VerifiedOnLast
    <2>2. /\ notarizedNonce' = notarizedNonce /\ lastExecutedNonce' = lastExecutedNonce
          /\ lastNonce' = lastNonce
      BY <1>1 DEF notarizedNonce, lastExecutedNonce, lastNonce, nonceOf
    <2>3. LastAgrees' /\ ChainByNonce'
      BY <1>1, <2>2 DEF LinkInv, LastAgrees, ChainByNonce, AgreesAt, HashAt
    <2>4. NothingAbove'
      BY <1>1, <2>2 DEF LinkInv, NothingAbove
    <2>5. OnLast'
      BY <1>1, <1>3, <2>1, <2>2 DEF OnLast
    <2> QED BY <1>3, <2>3, <2>4, <2>5 DEF LinkInv, BeforeAgrees, AddedAgrees
  <1> QED BY <1>2, <1>3 DEF ExecVerify

LEMMA ExecCommitLinks ==
  ASSUME TypeInv, LinkInv, ExecCommit
  PROVE  LinkInv'
  <1>1. /\ epc = "commit" /\ pair \in Headers
        /\ UNCHANGED <<lastNotarizedResult, nonceHash, lastExecutedResultHash, lastExecutionResult>>
    BY DEF ExecCommit, TypeInv, FieldsOK, PopDismissedResults, indexVars
  <1>2. CASE handleProcessError(FALSE)
    BY <1>1, <1>2, ProcessFailsLinks
  <1>3. CASE epc' = "add" /\ UNCHANGED pair
    <2>2. /\ notarizedNonce' = notarizedNonce /\ lastExecutedNonce' = lastExecutedNonce
          /\ lastNonce' = lastNonce
      BY <1>1 DEF notarizedNonce, lastExecutedNonce, lastNonce, nonceOf
    <2>3. LastAgrees' /\ ChainByNonce'
      BY <1>1, <2>2 DEF LinkInv, LastAgrees, ChainByNonce, AgreesAt, HashAt
    <2>4. NothingAbove'
      BY <1>1, <2>2 DEF LinkInv, NothingAbove
    <2>5. OnLast'
      BY <1>1, <1>3, <2>2 DEF LinkInv, OnLast
    <2> QED BY <1>3, <2>3, <2>4, <2>5 DEF LinkInv, BeforeAgrees, AddedAgrees
  <1> QED BY <1>2, <1>3 DEF ExecCommit

(* A result goes to the tracker at the nonce right above the last          *)
(* execution result, whatever commits removed or notarised meanwhile.      *)
LEMMA AddedLinks ==
  ASSUME TypeInv, LinkInv, pair \in Headers, epc = "add", epc' = "publish",
         UNCHANGED <<pair, lastExecutionResult>>, AddExecutionResult(ExecutionResult)
  PROVE  LinkInv'
  <1> DEFINE n == NonceOf[pair]
  <1>1. PICK r : /\ r = ExecutionResult /\ r \in Result /\ nonceOf(r) = n /\ r.hash = pair
    BY DEF ExecutionResult, Result, nonceOf, TypeInv, FieldsOK
  <1>2. n = lastNonce + 1 /\ PrevOf[pair] = lastExecutionResult.hash
    BY DEF LinkInv, OnLast
  <1>3. notarizedNonce \in Nat /\ lastExecutedNonce \in Nat /\ lastNonce \in Nat /\ n \in Nat
    BY Nonces
  <1>4. /\ n > notarizedNonce /\ n <= lastExecutedNonce + 1
        /\ notarizedNonce' = notarizedNonce /\ lastExecutedNonce' = n
        /\ HashAt(nonceOf(r))' = pair
        /\ \A k \in notarizedNonce .. n - 1 : HashAt(k)' = HashAt(k)
    BY <1>1, AddGrows DEF TypeInv
  <1>5. HashAt(n)' = pair /\ n' = n
    BY <1>1, <1>4 DEF nonceOf
  <1>6. lastNonce' = lastNonce
    BY DEF lastNonce, nonceOf
  <1>7. HashAt(lastNonce) = lastExecutionResult.hash
    <2> HIDE DEF notarizedNonce, lastExecutedNonce, lastNonce, n
    <2>1. lastNonce \in notarizedNonce .. lastExecutedNonce
      BY <1>2, <1>3, <1>4
    <2> QED BY <2>1 DEF LinkInv, LastAgrees, AgreesAt
  <1>8. ASSUME NEW k \in notarizedNonce .. n - 1 PROVE HashAt(k)' = HashAt(k)
    BY <1>4
  <1>9. HashAt(lastNonce)' = lastExecutionResult.hash
    <2> HIDE DEF notarizedNonce, lastExecutedNonce, lastNonce, n, HashAt
    <2>1. lastNonce \in notarizedNonce .. n - 1
      BY <1>2, <1>3, <1>4
    <2> QED BY <1>6, <1>7, <1>8, <2>1
  <1> HIDE DEF notarizedNonce, lastExecutedNonce, lastNonce, HashAt
  <1>10. LastAgrees'
    BY <1>9 DEF LastAgrees, AgreesAt
  <1>11. OnLast'
    BY <1>2, <1>6 DEF OnLast
  <1>12. AddedAgrees'
    BY <1>3, <1>4, <1>5 DEF AddedAgrees, AgreesAt
  <1>13. ChainByNonce'
    <2> SUFFICES ASSUME NEW k \in notarizedNonce + 1 .. n
                 PROVE  PrevOf[HashAt(k)'] = HashAt(k - 1)'
      BY <1>4 DEF ChainByNonce
    <2> HIDE DEF n
    <2>1. CASE k = n
      <3>1. k - 1 = lastNonce
        BY <1>2, <1>3, <2>1
      <3> QED BY <1>2, <1>5, <1>6, <1>9, <2>1, <3>1
    <2>2. CASE k # n
      <3>1. /\ k \in notarizedNonce .. n - 1 /\ k - 1 \in notarizedNonce .. n - 1
            /\ k \in notarizedNonce + 1 .. lastExecutedNonce
        BY <1>3, <1>4, <2>2
      <3>2. HashAt(k)' = HashAt(k) /\ HashAt(k - 1)' = HashAt(k - 1)
        BY <1>8, <3>1
      <3> QED BY <3>1, <3>2 DEF LinkInv, ChainByNonce
    <2> QED BY <2>1, <2>2
  <1> QED BY <1>10, <1>11, <1>12, <1>13 DEF LinkInv, BeforeAgrees, NothingAbove

LEMMA ExecAddLinks ==
  ASSUME TypeInv, LinkInv, ExecAdd
  PROVE  LinkInv'
  <1>1. epc = "add" /\ pair \in Headers /\ UNCHANGED lastExecutionResult
    BY DEF ExecAdd, TypeInv, FieldsOK
  <1>2. \/ AddExecutionResult(ExecutionResult) /\ epc' = "publish" /\ UNCHANGED pair
        \/ LoopAgain /\ UNCHANGED trackerVars
        \/ handleProcessError(FALSE) /\ UNCHANGED trackerVars
    BY DEF ExecAdd
  <1>3. CASE AddExecutionResult(ExecutionResult) /\ epc' = "publish" /\ UNCHANGED pair
    BY <1>1, <1>3, AddedLinks
  <1>4. CASE LoopAgain /\ UNCHANGED trackerVars
    BY <1>1, <1>4, LinkMoves DEF LoopAgain, trackerVars, indexVars
  <1>5. CASE handleProcessError(FALSE) /\ UNCHANGED trackerVars
    BY <1>1, <1>5, ProcessFailsLinks DEF trackerVars, indexVars
  <1> QED BY <1>2, <1>3, <1>4, <1>5

LEMMA ExecPublishLinks ==
  ASSUME TypeInv, LinkInv, ExecPublish
  PROVE  LinkInv'
  <1>1. /\ epc = "publish" /\ epc' = "check" /\ lastExecutionResult' = ExecutionResult
        /\ UNCHANGED <<lastNotarizedResult, nonceHash, lastExecutedResultHash>>
    BY DEF ExecPublish, LoopAgain, trackerVars, indexVars
  <1>2. /\ notarizedNonce' = notarizedNonce /\ lastExecutedNonce' = lastExecutedNonce
        /\ lastNonce' = NonceOf[pair] /\ lastExecutionResult'.hash = pair
    BY <1>1 DEF notarizedNonce, lastExecutedNonce, lastNonce, nonceOf, ExecutionResult
  <1>3. LastAgrees'
    BY <1>1, <1>2 DEF LinkInv, AddedAgrees, LastAgrees, AgreesAt, HashAt
  <1>4. ChainByNonce'
    BY <1>1, <1>2 DEF LinkInv, ChainByNonce, HashAt
  <1>5. NothingAbove'
    BY <1>1, <1>2 DEF LinkInv, AddedAgrees, NothingAbove
  <1> QED BY <1>1, <1>3, <1>4, <1>5 DEF LinkInv, BeforeAgrees, OnLast, AddedAgrees

LEMMA LinkExecutor ==
  ASSUME TypeInv, TypeInv', LinkInv, Executor
  PROVE  LinkInv'
  <1>1. CASE ExecLoop
    BY <1>1, LinkMoves DEF ExecLoop, trackerVars, indexVars
  <1>2. CASE ExecReplacement
    BY <1>2, LinkMoves DEF ExecReplacement, trackerVars, indexVars
  <1>3. CASE ExecNext
    BY <1>3, LinkMoves DEF ExecNext, trackerVars, indexVars
  <1>4. CASE ExecExecute
    <2>1. epc = "execute" /\ pair \in Headers
      BY <1>4 DEF ExecExecute, TypeInv, FieldsOK
    <2>2. CASE ProcessFails(FALSE)
      BY <2>1, <2>2, ProcessFailsLinks DEF ProcessFails, trackerVars, indexVars
    <2>3. CASE epc' = "verify" /\ UNCHANGED <<trackerVars, lastExecutionResult>>
      BY <2>1, <2>3, LinkMoves DEF trackerVars, indexVars
    <2> QED BY <1>4, <2>2, <2>3 DEF ExecExecute, FailsIf
  <1>5. CASE ExecRetry
    BY <1>5, LinkMoves DEF ExecRetry, LoopAgain, trackerVars, indexVars
  <1> QED
    BY <1>1, <1>2, <1>3, <1>4, <1>5, ExecProcessLinks, ExecReplaceLinks, ExecTrimLinks,
       ExecVerifyLinks, ExecCommitLinks, ExecAddLinks, ExecPublishLinks DEF Executor

LEMMA LinkInvInit == AsyncInit => LinkInv
  <1> SUFFICES ASSUME AsyncInit PROVE LinkInv
    OBVIOUS
  <1>1. /\ lastNotarizedResult = FirstResult /\ lastExecutedResultHash = FirstResult.hash
        /\ lastExecutionResult = FirstResult /\ epc = "check"
    BY DEF AsyncInit, TrackerInit
  <1>2. FirstResult.hash \in Headers /\ NonceOf[FirstResult.hash] \in Nat
    BY TrackerAssumption DEF Result
  <1>3. /\ notarizedNonce = NonceOf[FirstResult.hash] /\ lastExecutedNonce = notarizedNonce
        /\ lastNonce = notarizedNonce /\ notarizedNonce \in Nat
    BY <1>1, <1>2 DEF notarizedNonce, lastExecutedNonce, lastNonce, nonceOf
  <1> HIDE DEF notarizedNonce, lastExecutedNonce, lastNonce
  <1>4. ChainByNonce
    BY <1>3 DEF ChainByNonce
  <1>5. LastAgrees
    BY <1>1, <1>3 DEF LastAgrees, AgreesAt, HashAt
  <1>6. AtRest
    BY <1>3, <1>4, <1>5 DEF AtRest
  <1> QED BY <1>1, <1>6, LinkAtRest

LEMMA LinkInvNext == TypeInv /\ TypeInv' /\ LinkInv /\ [AsyncNext]_asyncVars => LinkInv'
  <1> SUFFICES ASSUME TypeInv, TypeInv', LinkInv, [AsyncNext]_asyncVars PROVE LinkInv'
    OBVIOUS
  <1>1. CASE UNCHANGED asyncVars
    BY <1>1, LinkUntouched DEF asyncVars
  <1>2. CASE ProposedBlock \/ EndOfRound \/ SyncBlock \/ Backfill \/ RecoverFromMismatch
               \/ RollBack \/ Close
    BY <1>2, LinkUntouched
       DEF ProposedBlock, EndOfRound, SyncBlock, Backfill, RecoverFromMismatch, RollBack, Close
  <1> QED BY <1>1, <1>2, LinkExecutor, LinkCaller DEF AsyncNext

LEMMA LinkedAlways == AsyncSpec => [](TypeInv /\ LinkInv)
<1> QED BY TypeInvInit, TypeInvNext, LinkInvInit, LinkInvNext, PTL DEF AsyncSpec

(* Every pending result was executed on the pending or notarised result    *)
(* right below it, although AddExecutionResult compares nonces only and    *)
(* commits remove and notarise results while a block is executed.          *)
THEOREM PendingIsAChain == AsyncSpec => []PendingIsChain
<1>1. TypeInv /\ LinkInv => PendingIsChain
  <2> SUFFICES ASSUME TypeInv, LinkInv, NEW r \in Pending
               PROVE  PrevOf[r.hash] = ResultBefore(nonceOf(r)).hash
    BY DEF PendingIsChain
  <2>1. /\ r \in Result /\ nonceOf(r) \in notarizedNonce .. lastExecutedNonce
        /\ HashAt(nonceOf(r)) = r.hash
    BY PendingAgrees DEF TypeInv
  <2>2. notarizedNonce \in Nat /\ lastExecutedNonce \in Nat
    BY Nonces
  <2>3. nonceOf(r) > notarizedNonce /\ nonceOf(r) \in Nat
    BY <2>1, TrackerAssumption DEF TypeInv, TrackerInv, PendingGapless, PendingInOrder, nonceOf, Result
  <2>4. PICK k \in notarizedNonce .. lastExecutedNonce :
          /\ k = IF nonceOf(r) > lastExecutedNonce THEN lastExecutedNonce ELSE nonceOf(r) - 1
          /\ ResultBefore(nonceOf(r)).hash = HashAt(k)
    BY <2>3, ResultBeforeHash DEF TypeInv
  <2> HIDE DEF notarizedNonce, lastExecutedNonce, nonceOf, HashAt
  <2>5. k = nonceOf(r) - 1 /\ nonceOf(r) \in notarizedNonce + 1 .. lastExecutedNonce
    BY <2>1, <2>2, <2>3, <2>4
  <2> QED BY <2>1, <2>4, <2>5 DEF LinkInv, ChainByNonce
<1> QED BY <1>1, LinkedAlways, PTL

(* A block is executed with no result above the last execution result in   *)
(* the tracker, unless a commit notarised one after the executor read it:  *)
(* what the last executed block leaves behind when it is replaced is       *)
(* removed before the replacement is executed.                             *)
THEOREM ReplacedAreRemoved == AsyncSpec => []ReplacedResultsRemoved
<1>1. LinkInv => ReplacedResultsRemoved
  BY DEF LinkInv, NothingAbove, ReplacedResultsRemoved
<1> QED BY <1>1, LinkedAlways, PTL
=============================================================================
