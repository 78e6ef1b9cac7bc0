-------------------------- MODULE BlockSyncProofs --------------------------
(* The synchroniser and its fork detector, for every tree of blocks.  Three  *)
(* invariants, each kept by every step: FlagInv (contradicting records are   *)
(* flagged), RollBackInv (finality stays below a rollback that was ordered)  *)
(* and ChainInv (the settled, the final and the processed blocks lie on one  *)
(* branch, but for records whose branch is contested).                       *)
EXTENDS BlockSync, FiniteSetTheorems, WellFoundedInduction, TLAPS

(* Records the metachain's own detector never holds. *)
MetaNotNotarized == isMeta => \A i \in headers : i.state # "Notarized"

FlagInv ==
  /\ headers \subseteq headerInfo
  /\ MetaNotNotarized
  /\ AmbiguityFlagged

-----------------------------------------------------------------------------
(* Which hashes are notarised or processed at a nonce decides on ambiguity.  *)

(* The hashes of records are finitely many. *)
LEMMA HashesFinite ==
  ASSUME NEW hs, hs \subseteq headerInfo, NEW n, NEW state
  PROVE  IsFiniteSet(HashesIn(hs, n, state))
<1>1. HashesIn(hs, n, state) \in SUBSET Block
  BY DEF HashesIn, RecordsAt, headerInfo, New
<1>2. QED
  BY <1>1, FS_Subset, ForkAssumption

(* More notarised and processed hashes keep a nonce ambiguous. *)
LEMMA AmbiguousAtMonotone ==
  ASSUME NEW hs, NEW ks, ks \subseteq headerInfo, NEW n,
         Notarized(hs, n) \subseteq Notarized(ks, n),
         Processed(hs, n) \subseteq Processed(ks, n),
         isAmbiguousAt(hs, n)
  PROVE  isAmbiguousAt(ks, n)
<1>1. IsFiniteSet(Notarized(ks, n))
  BY HashesFinite DEF Notarized
<1>2. CASE Cardinality(Notarized(hs, n)) > 1
  <2>1. /\ IsFiniteSet(Notarized(hs, n))
        /\ Cardinality(Notarized(hs, n)) <= Cardinality(Notarized(ks, n))
    BY <1>1, FS_Subset
  <2>2. Cardinality(Notarized(hs, n)) \in Nat /\ Cardinality(Notarized(ks, n)) \in Nat
    BY <1>1, <2>1, FS_CardinalityType
  <2>3. Cardinality(Notarized(ks, n)) > 1
    BY <1>2, <2>1, <2>2
  <2>4. QED
    BY <2>3 DEF isAmbiguousAt
<1>3. CASE \E a \in Notarized(hs, n), p \in Processed(hs, n) : a # p
  BY <1>3 DEF isAmbiguousAt
<1>4. QED
  BY <1>2, <1>3 DEF isAmbiguousAt

(* Taking records away makes nothing ambiguous. *)
LEMMA AmbiguousMonotone ==
  ASSUME NEW hs, NEW ks, hs \subseteq ks, ks \subseteq headerInfo, isAmbiguous(hs)
  PROVE  isAmbiguous(ks)
<1>1. PICK n \in BlockNonces : isAmbiguousAt(hs, n)
  BY DEF isAmbiguous
<1>2. /\ Notarized(hs, n) \subseteq Notarized(ks, n)
      /\ Processed(hs, n) \subseteq Processed(ks, n)
  BY DEF Notarized, Processed, HashesIn, RecordsAt
<1>3. isAmbiguousAt(ks, n)
  BY <1>1, <1>2, AmbiguousAtMonotone
<1>4. QED
  BY <1>3 DEF isAmbiguous

(* Without notarised records no nonce is ambiguous. *)
LEMMA NoneNotarized ==
  ASSUME NEW hs, \A i \in hs : i.state # "Notarized"
  PROVE  ~isAmbiguous(hs)
<1>1. ASSUME NEW n PROVE Notarized(hs, n) = {}
  BY DEF Notarized, HashesIn, RecordsAt
<1>2. ASSUME NEW n PROVE ~isAmbiguousAt(hs, n)
  BY <1>1, FS_EmptySet DEF isAmbiguousAt
<1>3. QED
  BY <1>2 DEF isAmbiguous

-----------------------------------------------------------------------------
(* appendHeaderInfo.                                                         *)

(* Enriching records leaves hashes and states alone. *)
LEMMA AdjustKeeps ==
  ASSUME NEW hs, hs \subseteq headerInfo, NEW i \in headerInfo
  PROVE  /\ adjustHeadersWithInfo(hs, i) \subseteq headerInfo
         /\ \A j \in adjustHeadersWithInfo(hs, i) :
              \E k \in hs : k.hash = j.hash /\ k.state = j.state
         /\ \A k \in hs : \E j \in adjustHeadersWithInfo(hs, i) :
              k.hash = j.hash /\ k.state = j.state
<1> DEFINE enriched(j) == IF j.hash = i.hash
                          THEN [j EXCEPT !.hasProof = @ \/ i.hasProof, !.anc = @ \/ i.anc]
                          ELSE j
<1>1. ASSUME NEW j \in headerInfo
      PROVE  /\ enriched(j) \in headerInfo
             /\ enriched(j).hash = j.hash /\ enriched(j).state = j.state
  BY DEF headerInfo
<1>2. adjustHeadersWithInfo(hs, i) = {enriched(j) : j \in hs}
  BY DEF adjustHeadersWithInfo
<1> HIDE DEF enriched
<1>3. QED
  BY <1>1, <1>2

(* Appending adds at most the record's own hash to those of its state. *)
LEMMA AppendHashes ==
  ASSUME NEW hs, hs \subseteq headerInfo, NEW i \in headerInfo
  PROVE  /\ appendHeaderInfo(hs, i) \subseteq headerInfo
         /\ \A j \in appendHeaderInfo(hs, i) :
              \/ \E k \in hs : k.hash = j.hash /\ k.state = j.state
              \/ isInserted(hs, i) /\ j = i
BY AdjustKeeps DEF appendHeaderInfo

(* A record that is enriched only, or neither notarised nor processed, *)
(* brings no ambiguity.                                                *)
LEMMA AppendHarmless ==
  ASSUME NEW hs, hs \subseteq headerInfo, NEW i \in headerInfo,
         ~isInserted(hs, i) \/ i.state \notin {"Notarized", "Processed"},
         isAmbiguous(appendHeaderInfo(hs, i))
  PROVE  isAmbiguous(hs)
<1>1. PICK n \in BlockNonces : isAmbiguousAt(appendHeaderInfo(hs, i), n)
  BY DEF isAmbiguous
<1>2. /\ Notarized(appendHeaderInfo(hs, i), n) \subseteq Notarized(hs, n)
      /\ Processed(appendHeaderInfo(hs, i), n) \subseteq Processed(hs, n)
  BY AppendHashes DEF Notarized, Processed, HashesIn, RecordsAt
<1>3. isAmbiguousAt(hs, n)
  BY <1>1, <1>2, AmbiguousAtMonotone
<1>4. QED
  BY <1>3 DEF isAmbiguous

(* The flag after an append covers what the append makes ambiguous. *)
LEMMA AppendFlagged ==
  ASSUME NEW hs, hs \subseteq headerInfo, NEW i \in headerInfo, NEW amb,
         isAmbiguous(hs) => amb,
         isAmbiguous(appendHeaderInfo(hs, i))
  PROVE  ambiguousAfter(hs, amb, i)
<1>1. CASE ~isInserted(hs, i) \/ i.state \notin {"Notarized", "Processed"}
  BY <1>1, AppendHarmless DEF ambiguousAfter
<1>2. CASE isInserted(hs, i) /\ i.state \in {"Notarized", "Processed"}
  <2>1. PICK n \in BlockNonces : isAmbiguousAt(appendHeaderInfo(hs, i), n)
    BY DEF isAmbiguous
  <2>2. CASE n = BlockNonce[i.hash]
    BY <1>2, <2>1, <2>2 DEF ambiguousAfter
  <2>3. CASE n # BlockNonce[i.hash]
    <3>1. /\ Notarized(appendHeaderInfo(hs, i), n) \subseteq Notarized(hs, n)
          /\ Processed(appendHeaderInfo(hs, i), n) \subseteq Processed(hs, n)
      BY <2>3, AppendHashes DEF Notarized, Processed, HashesIn, RecordsAt
    <3>2. isAmbiguousAt(hs, n)
      BY <2>1, <3>1, AmbiguousAtMonotone
    <3>3. isAmbiguous(hs)
      BY <3>2 DEF isAmbiguous
    <3>4. QED
      BY <3>3 DEF ambiguousAfter
  <2>4. QED
    BY <2>2, <2>3
<1>3. QED
  BY <1>1, <1>2

-----------------------------------------------------------------------------
(* The flag through the updates of the detector.                             *)

(* What a step needs to show when it leaves isMeta alone. *)
Flagged(hs, amb) ==
  /\ hs \subseteq headerInfo
  /\ isMeta => \A i \in hs : i.state # "Notarized"
  /\ isAmbiguous(hs) => amb

(* A finality update starts from flagged records and only drops some. *)
LEMMA ComputeFinalFlags ==
  ASSUME NEW hs, NEW amb, NEW kind, NEW b, Flagged(hs, amb),
         computeFinalCheckpoint(hs, amb, kind, b)
  PROVE  Flagged(headers', ambiguous')
<1>1. CASE \E c \in SettleCandidates(hs) :
             LET removed == RejectedByWalk(hs, settled, c)
             IN  /\ headers' = hs \ removed
                 /\ ambiguous' = IF removed = {} THEN amb ELSE isAmbiguous(hs \ removed)
  BY <1>1 DEF Flagged
<1>2. CASE headers' = hs /\ ambiguous' = amb
  BY <1>2 DEF Flagged
<1>3. QED
  BY <1>1, <1>2 DEF computeFinalCheckpoint

(* The same through the recomputation that the metachain skips. *)
LEMMA ComputeFinalAndProbableFlags ==
  ASSUME NEW hs, NEW amb, Flagged(hs, amb), ComputeFinalAndProbable(hs, amb)
  PROVE  Flagged(headers', ambiguous')
BY ComputeFinalFlags DEF ComputeFinalAndProbable, Flagged

(* Some records dropped, the flag kept. *)
LEMMA SubsetFlagged ==
  ASSUME NEW hs, NEW ks, NEW amb, hs \subseteq ks, Flagged(ks, amb)
  PROVE  Flagged(hs, amb)
BY AmbiguousMonotone DEF Flagged

(* A received record is appended. *)
LEMMA ReceivedFlagged ==
  ASSUME NEW hs, NEW amb, NEW i \in headerInfo, i.state \in {"Received", "ReceivedTooLate"},
         Flagged(hs, amb)
  PROVE  Flagged(appendHeaderInfo(hs, i), amb)
<1>1. appendHeaderInfo(hs, i) \subseteq headerInfo
  BY AppendHashes DEF Flagged
<1>2. isMeta => \A j \in appendHeaderInfo(hs, i) : j.state # "Notarized"
  BY AppendHashes DEF Flagged
<1>3. isAmbiguous(appendHeaderInfo(hs, i)) => amb
  BY AppendHarmless DEF Flagged
<1>4. QED
  BY <1>1, <1>2, <1>3 DEF Flagged

(* A processed record, or on a shard a notarised one, is appended. *)
LEMMA AppendedFlagged ==
  ASSUME NEW hs, NEW amb, NEW i \in headerInfo, isMeta => i.state # "Notarized",
         Flagged(hs, amb)
  PROVE  Flagged(appendHeaderInfo(hs, i), ambiguousAfter(hs, amb, i))
<1>1. appendHeaderInfo(hs, i) \subseteq headerInfo
  BY AppendHashes DEF Flagged
<1>2. isMeta => \A j \in appendHeaderInfo(hs, i) : j.state # "Notarized"
  BY AppendHashes DEF Flagged
<1>3. isAmbiguous(appendHeaderInfo(hs, i)) => ambiguousAfter(hs, amb, i)
  BY AppendFlagged DEF Flagged
<1>4. QED
  BY <1>1, <1>2, <1>3 DEF Flagged

(* What is known already is enriched only, and the flag kept. *)
LEMMA EnrichedFlagged ==
  ASSUME NEW hs, NEW amb, NEW i \in headerInfo, ~isInserted(hs, i), Flagged(hs, amb)
  PROVE  Flagged(appendHeaderInfo(hs, i), amb)
<1>1. appendHeaderInfo(hs, i) \subseteq headerInfo
  BY AppendHashes DEF Flagged
<1>2. isMeta => \A j \in appendHeaderInfo(hs, i) : j.state # "Notarized"
  BY AppendHashes DEF Flagged
<1>3. isAmbiguous(appendHeaderInfo(hs, i)) => amb
  BY AppendHarmless DEF Flagged
<1>4. QED
  BY <1>1, <1>2, <1>3 DEF Flagged

(* Records of the metachain need no flag. *)
LEMMA MetaFlagged ==
  ASSUME NEW hs, NEW amb, hs \subseteq headerInfo, \A i \in hs : i.state # "Notarized"
  PROVE  Flagged(hs, amb)
BY NoneNotarized DEF Flagged

(* A flag computed afresh is right. *)
LEMMA FreshFlagged ==
  ASSUME NEW hs, hs \subseteq headerInfo, isMeta => \A i \in hs : i.state # "Notarized"
  PROVE  Flagged(hs, isAmbiguous(hs))
BY DEF Flagged

(* Every record the model appends is one of the detector. *)
LEMMA AppendedInfo ==
  ASSUME NEW b \in New
  PROVE  /\ ReceivedInfo(b) \in headerInfo
         /\ ReceivedInfo(b).state \in {"Received", "ReceivedTooLate"}
         /\ Info(b, "Received", TRUE, FALSE) \in headerInfo
         /\ Info(b, "Received", TRUE, FALSE).state = "Received"
         /\ Info(b, "Processed", TRUE, TRUE) \in headerInfo
         /\ Info(b, "Processed", TRUE, TRUE).state = "Processed"
         /\ NotarizedInfo(b) \in headerInfo
BY DEF ReceivedInfo, NotarizedInfo, Info, headerInfo, States

-----------------------------------------------------------------------------
(* The flag through every operation of the detector.                         *)

Flag == Flagged(headers, ambiguous)

(* The steps of a finality update. *)
LEMMA JobStepFlags ==
  ASSUME Flag, JobStep
  PROVE  Flagged(headers', ambiguous')
<1>1. CASE UNCHANGED <<headers, ambiguous>>
  BY <1>1 DEF Flag
<1>2. ASSUME NEW f, NEW cs, removePastOrInvalidRecords(f, cs)
      PROVE  Flagged(headers', ambiguous')
  <2> DEFINE kept == {i \in headers : BlockNonce[i.hash] >= BlockNonce[settled']}
  <2>1. headers' \subseteq kept /\ kept \subseteq headers
    BY <1>2 DEF removePastOrInvalidRecords
  <2>2. ambiguous' = (ambiguous /\ isAmbiguous(kept))
    BY <1>2 DEF removePastOrInvalidRecords
  <2> HIDE DEF kept
  <2>3. Flagged(kept, ambiguous /\ isAmbiguous(kept))
    BY <2>1, SubsetFlagged DEF Flag, Flagged
  <2>4. QED
    BY <2>1, <2>2, <2>3, SubsetFlagged
<1>3. CASE FinalityCheck
  BY <1>1, <1>3 DEF FinalityCheck
<1>4. CASE FinalityStop
  BY <1>1, <1>4 DEF FinalityStop, FinalityEnd
<1>5. CASE FinalitySet
  BY <1>1, <1>5 DEF FinalitySet, FinalityEnd
<1>6. CASE FinalityConfirm
  BY <1>1, <1>6 DEF FinalityConfirm, FinalityEnd
<1>7. CASE AddCheckpoint
  BY <1>1, <1>2, <1>7 DEF AddCheckpoint
<1>8. CASE InstantConfirm
  BY <1>2, <1>8 DEF InstantConfirm
<1>9. QED
  BY <1>3, <1>4, <1>5, <1>6, <1>7, <1>8 DEF JobStep

(* AddHeader with BHReceived. *)
LEMMA AddReceivedFlags ==
  ASSUME Flag, NEW b \in New, AddReceivedHeader(b), UNCHANGED ambiguous
  PROVE  Flagged(headers', ambiguous')
<1>1. CASE UNCHANGED headers
  BY <1>1 DEF Flag
<1>2. CASE headers' = appendHeaderInfo(headers, ReceivedInfo(b))
  BY <1>2, AppendedInfo, ReceivedFlagged DEF Flag
<1>3. QED
  BY <1>1, <1>2 DEF AddReceivedHeader

(* processReceivedProof. *)
LEMMA ReceivedProofFlags ==
  ASSUME Flag, NEW b \in New, NEW hasHeader, ReceivedProof(b, hasHeader), UNCHANGED ambiguous
  PROVE  Flagged(headers', ambiguous')
<1> DEFINE hs == appendHeaderInfo(headers, Info(b, "Received", TRUE, FALSE))
<1>1. headers' = hs \/ headers' = appendHeaderInfo(hs, ReceivedInfo(b))
  BY DEF ReceivedProof
<1>2. Flagged(hs, ambiguous)
  BY AppendedInfo, ReceivedFlagged DEF Flag
<1> HIDE DEF hs
<1>3. QED
  BY <1>1, <1>2, AppendedInfo, ReceivedFlagged

(* AddHeader with BHProcessed. *)
LEMMA AddProcessedFlags ==
  ASSUME Flag, NEW b \in New, NEW ns \in SUBSET New, AddProcessedHeader(b, ns)
  PROVE  Flagged(headers', ambiguous')
<1> DEFINE i   == Info(b, "Processed", TRUE, TRUE)
           hs  == appendHeaderInfo(headers, i)
           amb == ambiguousAfter(headers, ambiguous, i)
           new == {h \in ns : BlockNonce[h] > BlockNonce[settled]}
<1>1. i \in headerInfo /\ i.state = "Processed"
  BY AppendedInfo
<1>2. CASE UNCHANGED <<headers, ambiguous>>
  BY <1>2 DEF Flag
<1>3. CASE headers' = hs /\ ~isInserted(headers, i) /\ UNCHANGED ambiguous
  BY <1>1, <1>3, EnrichedFlagged DEF Flag
<1>4. CASE headers' = hs /\ isMeta /\ UNCHANGED ambiguous
  <2>1. Flagged(hs, amb)
    BY <1>1, AppendedFlagged DEF Flag
  <2>2. QED
    BY <1>4, <2>1, MetaFlagged DEF Flagged
<1>5. CASE ~isMeta /\ computeFinalCheckpoint(hs, amb, "commit", b)
  BY <1>1, <1>5, AppendedFlagged, ComputeFinalFlags DEF Flag
<1>6. ASSUME ~isMeta, NEW h \in new,
             computeFinalCheckpoint(appendHeaderInfo(hs, NotarizedInfo(h)),
               ambiguousAfter(hs, amb, NotarizedInfo(h)), "commit", b)
      PROVE  Flagged(headers', ambiguous')
  <2>1. Flagged(hs, amb)
    BY <1>1, AppendedFlagged DEF Flag
  <2> HIDE DEF hs, amb
  <2>2. NotarizedInfo(h) \in headerInfo
    BY AppendedInfo
  <2>3. Flagged(appendHeaderInfo(hs, NotarizedInfo(h)), ambiguousAfter(hs, amb, NotarizedInfo(h)))
    BY <1>6, <2>1, <2>2, AppendedFlagged
  <2>4. QED
    BY <1>6, <2>3, ComputeFinalFlags
<1>7. QED
  BY <1>2, <1>3, <1>4, <1>5, <1>6 DEF AddProcessedHeader

(* ReceivedSelfNotarizedFromCrossHeaders. *)
LEMMA ReceivedSelfNotarizedFlags ==
  ASSUME Flag, NEW h \in New, ReceivedSelfNotarized(h)
  PROVE  Flagged(headers', ambiguous')
<1> DEFINE i == NotarizedInfo(h)
<1>1. i \in headerInfo /\ ~isMeta
  BY AppendedInfo DEF ReceivedSelfNotarized
<1>2. CASE computeFinalCheckpoint(appendHeaderInfo(headers, i),
             ambiguousAfter(headers, ambiguous, i), "other", Anchor)
  BY <1>1, <1>2, AppendedFlagged, ComputeFinalFlags DEF Flag
<1>3. CASE ~isInserted(headers, i) /\ headers' = appendHeaderInfo(headers, i) /\ UNCHANGED ambiguous
  BY <1>1, <1>3, EnrichedFlagged DEF Flag
<1>4. QED
  BY <1>2, <1>3 DEF ReceivedSelfNotarized

(* RemoveCommittedHeader. *)
LEMMA RemoveCommittedFlags ==
  ASSUME Flag, NEW b, RemoveCommittedHeader(b)
  PROVE  Flagged(headers', ambiguous')
<1> DEFINE gone == {i \in headers : i.hash = b /\ i.state # "Notarized"}
           proven == {i \in gone : i.hasProof}
           evidenceOf == IF proven = {} THEN {}
                         ELSE {Info(b, "Received", TRUE, \E i \in proven : i.anc)}
           kept == (headers \ gone) \cup evidenceOf
<1>1. CASE UNCHANGED <<headers, ambiguous>>
  BY <1>1 DEF Flag
<1>2. CASE ComputeFinalAndProbable(kept, isAmbiguous(kept))
  <2>1. evidenceOf \subseteq headerInfo /\ \A i \in evidenceOf : i.state = "Received"
    <3>1. CASE proven = {}
      BY <3>1
    <3>2. CASE proven # {}
      <4>1. b \in New
        BY <3>2 DEF Flag, Flagged, headerInfo
      <4> DEFINE known == \E i \in proven : i.anc
                 left == Info(b, "Received", TRUE, known)
      <4>2. evidenceOf = {left}
        BY <3>2
      <4>3. known \in BOOLEAN
        OBVIOUS
      <4> HIDE DEF known
      <4>4. left \in headerInfo /\ left.state = "Received"
        <5>1. \A k \in BOOLEAN : /\ Info(b, "Received", TRUE, k) \in headerInfo
                                /\ Info(b, "Received", TRUE, k).state = "Received"
          BY <4>1 DEF Info, headerInfo, States
        <5>2. QED
          BY <4>3, <5>1
      <4> HIDE DEF left
      <4>5. QED
        BY <4>2, <4>4
    <3>3. QED
      BY <3>1, <3>2
  <2> HIDE DEF evidenceOf, gone
  <2>2. kept \subseteq headerInfo /\ (isMeta => \A i \in kept : i.state # "Notarized")
    BY <2>1 DEF Flag, Flagged
  <2> HIDE DEF kept
  <2>3. QED
    BY <1>2, <2>2, FreshFlagged, ComputeFinalAndProbableFlags
<1>3. QED
  BY <1>1, <1>2 DEF RemoveCommittedHeader

(* ReconcileFinalCheckpointFromAuthority. *)
LEMMA AuthorityFlags ==
  ASSUME Flag, NEW n, NEW h, ReconcileFinalCheckpointFromAuthority(n, h)
  PROVE  Flagged(headers', ambiguous')
<1> DEFINE marked(i) == IF i.hash = h /\ i.state = "Notarized"
                        THEN [i EXCEPT !.authority = TRUE] ELSE i
<1>1. PICK kept \in SUBSET headers : headers' = {marked(i) : i \in kept}
  BY DEF ReconcileFinalCheckpointFromAuthority
<1>2. ambiguous' = isAmbiguous(headers')
  BY DEF ReconcileFinalCheckpointFromAuthority
<1>3. ASSUME NEW i \in headerInfo
      PROVE  marked(i) \in headerInfo /\ marked(i).state = i.state
  BY DEF headerInfo
<1> HIDE DEF marked
<1>4. headers' \subseteq headerInfo /\ (isMeta => \A i \in headers' : i.state # "Notarized")
  BY <1>1, <1>3 DEF Flag, Flagged
<1>5. QED
  BY <1>2, <1>4, FreshFlagged

(* applyNotarizedHeaderSelection: only a shard's detector has ambiguous nonces. *)
LEMMA SelectionFlags ==
  ASSUME Flag, NEW n \in BlockNonces, NEW h, isAmbiguousAt(headers, n),
         applyNotarizedHeaderSelection(n, h)
  PROVE  Flagged(headers', ambiguous')
<1> DEFINE mark(i) == IF i.hash = h /\ i.state = "Notarized"
                      THEN [i EXCEPT !.authority = TRUE] ELSE i
           chosen(i) == [i EXCEPT !.state = "Notarized", !.authority = TRUE]
<1>1. ~isMeta
  BY NoneNotarized DEF Flag, Flagged, isAmbiguous
<1>2. PICK ks \in SUBSET headers, ls \in SUBSET headers :
        LET kept == {chosen(i) : i \in ls} \cup {mark(i) : i \in ks}
        IN  computeFinalCheckpoint(kept, isAmbiguous(kept), "other", Anchor)
  <2> DEFINE ls == IF h \in Notarized(headers, n) THEN {}
                   ELSE {j \in headers : j.hash = h /\ j.state = "Processed"}
             ks == {j \in headers : ~(/\ j.state = "Notarized" /\ j.hash # h
                                      /\ BlockNonce[j.hash] = n)}
             selected == IF h \in Notarized(headers, n) THEN {}
                         ELSE {chosen(i) : i \in {j \in headers : j.hash = h /\ j.state = "Processed"}}
             kept == selected \cup {mark(i) : i \in ks}
  <2>1. computeFinalCheckpoint(kept, isAmbiguous(kept), "other", Anchor)
    BY DEF applyNotarizedHeaderSelection
  <2> HIDE DEF chosen, mark
  <2>2. selected = {chosen(i) : i \in ls}
    OBVIOUS
  <2>3. ks \in SUBSET headers /\ ls \in SUBSET headers
    OBVIOUS
  <2>4. QED
    BY <2>1, <2>2, <2>3
<1> DEFINE kept == {chosen(i) : i \in ls} \cup {mark(i) : i \in ks}
<1>3. ASSUME NEW i \in headerInfo
      PROVE  mark(i) \in headerInfo /\ chosen(i) \in headerInfo
  BY DEF headerInfo, States
<1> HIDE DEF mark, chosen
<1>4. kept \subseteq headerInfo
  BY <1>3 DEF Flag, Flagged
<1> HIDE DEF kept
<1>5. QED
  BY <1>1, <1>2, <1>4, FreshFlagged, ComputeFinalFlags DEF kept

-----------------------------------------------------------------------------
(* The flag through every step of the node.                                  *)

(* A reconciliation ordered by evidence. *)
LEMMA ReconcileSwitchFlags ==
  ASSUME Flag, ReconcileSwitch
  PROVE  Flagged(headers', ambiguous')
<1>1. CASE UNCHANGED <<headers, ambiguous>>
  BY <1>1 DEF Flag
<1>2. CASE ReconcileFinalCheckpointFromAuthority(evidence.nonce, evidence.competitor)
  BY <1>2, AuthorityFlags
<1>3. CASE ReconcileFinalCheckpoint(evidence.nonce)
  BY <1>1, <1>3 DEF ReconcileFinalCheckpoint
<1>4. QED
  BY <1>1, <1>2, <1>3 DEF ReconcileSwitch

(* The settlement authority resolves an ambiguous nonce or arms evidence. *)
LEMMA ResolveAmbiguityFlags ==
  ASSUME Flag, NEW n \in BlockNonces, ResolveAmbiguity(n)
  PROVE  Flagged(headers', ambiguous')
<1>1. isAmbiguousAt(headers, n)
  BY DEF ResolveAmbiguity, AmbiguousNonce
<1>2. ASSUME NEW h, applyNotarizedHeaderSelection(n, h)
      PROVE  Flagged(headers', ambiguous')
  BY <1>1, <1>2, SelectionFlags
<1>3. CASE UNCHANGED <<headers, ambiguous>>
  BY <1>3 DEF Flag
<1>4. QED
  BY <1>2, <1>3 DEF ResolveAmbiguity

(* A commit, by consensus or by the loop. *)
LEMMA CommitFlags ==
  ASSUME Flag, NEW b \in New, CommitBlock(b)
  PROVE  Flagged(headers', ambiguous')
<1>1. PICK ns \in {{}} \cup {{h} : h \in {g \in Notarizable :
                                BlockNonce[g] < BlockNonce[b] /\ ~Dead(g)}} :
        AddProcessedHeader(b, ns)
  BY DEF CommitBlock
<1>2. ns \in SUBSET New
  BY SyncAssumption
<1>3. QED
  BY <1>1, <1>2, AddProcessedFlags

(* A tick of the loop. *)
LEMMA LoopFlags ==
  ASSUME Flag, Loop
  PROVE  Flagged(headers', ambiguous')
<1>1. CASE UNCHANGED <<headers, ambiguous>>
  BY <1>1 DEF Flag
<1>2. CASE DropEvidence
  BY <1>1, <1>2 DEF DropEvidence, detectorUnchanged
<1>3. CASE ReconcileSwitch
  BY <1>3, ReconcileSwitchFlags
<1>4. CASE \E n \in BlockNonces : ResolveAmbiguity(n)
  BY <1>4, ResolveAmbiguityFlags
<1>5. CASE \E n \in BlockNonces : ReconcileDivergence(n)
  <2>1. headers' \subseteq headers /\ ambiguous' = isAmbiguous(headers')
    BY <1>5 DEF ReconcileDivergence, ReconcileFinalCheckpointBelow
  <2>2. QED
    BY <2>1 DEF Flag, Flagged
<1>6. CASE ComputeNodeState
  <2>1. headers' = headers /\ ambiguous' = (ambiguous /\ isAmbiguous(headers))
    BY <1>6 DEF ComputeNodeState
  <2>2. QED
    BY <2>1 DEF Flag, Flagged
<1>7. CASE RollBackRefused \/ RollBackBegin \/ RestoreBlockIntoPools
           \/ RollBackInterrupted \/ RollBackResumed
  BY <1>1, <1>7 DEF RollBackRefused, RollBackBegin, RestoreBlockIntoPools,
                    RollBackInterrupted, RollBackResumed, detectorUnchanged
<1>8. CASE RollBackFinish
  BY <1>8, RemoveCommittedFlags DEF RollBackFinish
<1>9. CASE ResetAfterRollBack
  <2>1. headers' \subseteq headers /\ ambiguous' = ambiguous
    BY <1>9 DEF ResetAfterRollBack, ResetProbableHighestNonce
  <2>2. QED
    BY <2>1, SubsetFlagged DEF Flag
<1>10. CASE \E b \in New : SyncCommit(b)
  BY <1>10, CommitFlags DEF SyncCommit
<1>11. CASE (\E b \in New : SyncFail(b)) \/ NothingToSync
  BY <1>1, <1>11 DEF SyncFail, NothingToSync, detectorUnchanged
<1>12. QED
  BY <1>2, <1>3, <1>4, <1>5, <1>6, <1>7, <1>8, <1>9, <1>10, <1>11 DEF Loop, Reconcile

(* A node does not change its shard. *)
LEMMA SameShard ==
  ASSUME [SyncNext]_syncVars
  PROVE  isMeta' = isMeta
<1>1. CASE DetectorStep
  BY <1>1 DEF DetectorStep, JobStep
<1>2. CASE \E b \in New : ProofStored(b) \/ ProofReceived(b) \/ HeaderReceived(b) \/ ConsensusCommit(b)
  BY <1>2 DEF ProofStored, ProofReceived, HeaderReceived, ConsensusCommit, CommitBlock
<1>3. CASE (\E h \in Notarizable : Notarize(h)) \/ (\E b \in Canonical : AuthorityDecides(b)) \/ CommitEnd
  BY <1>3 DEF Notarize, AuthorityDecides, CommitEnd, detectorVars
<1>4. CASE Reconcile \/ (\E n \in BlockNonces : ReconcileDivergence(n)) \/ ComputeNodeState
  BY <1>4 DEF Reconcile, DropEvidence, ReconcileSwitch, ResolveAmbiguity, ReconcileDivergence,
              ComputeNodeState
<1>5. CASE RollBackRefused \/ RollBackBegin \/ RestoreBlockIntoPools \/ RollBackInterrupted
           \/ RollBackResumed \/ RollBackFinish \/ ResetAfterRollBack
  BY <1>5 DEF RollBackRefused, RollBackBegin, RestoreBlockIntoPools, RollBackInterrupted,
              RollBackResumed, RollBackFinish, ResetAfterRollBack
<1>6. CASE (\E b \in New : SyncCommit(b) \/ SyncFail(b)) \/ NothingToSync
  BY <1>6 DEF SyncCommit, CommitBlock, SyncFail, NothingToSync
<1>7. CASE UNCHANGED syncVars
  BY <1>7 DEF syncVars, detectorVars
<1>8. QED
  BY <1>1, <1>2, <1>3, <1>4, <1>5, <1>6, <1>7 DEF SyncNext, Loop

(* Every step keeps the flag right. *)
LEMMA StepFlags ==
  ASSUME FlagInv, [SyncNext]_syncVars
  PROVE  FlagInv'
<1>1. Flag
  BY DEF FlagInv, MetaNotNotarized, AmbiguityFlagged, Flag, Flagged
<1>2. Flagged(headers', ambiguous')
  <2>1. CASE UNCHANGED <<headers, ambiguous>>
    BY <1>1, <2>1 DEF Flag
  <2>2. CASE DetectorStep
    BY <1>1, <2>2, JobStepFlags DEF DetectorStep
  <2>3. ASSUME NEW b \in New, ProofStored(b)
        PROVE  Flagged(headers', ambiguous')
    BY <2>1, <2>3 DEF ProofStored
  <2>4. ASSUME NEW b \in New, ProofReceived(b)
        PROVE  Flagged(headers', ambiguous')
    BY <1>1, <2>4, ReceivedProofFlags DEF ProofReceived
  <2>5. ASSUME NEW b \in New, HeaderReceived(b)
        PROVE  Flagged(headers', ambiguous')
    BY <1>1, <2>5, AddReceivedFlags DEF HeaderReceived
  <2>6. ASSUME NEW b \in New, ConsensusCommit(b)
        PROVE  Flagged(headers', ambiguous')
    BY <1>1, <2>6, CommitFlags DEF ConsensusCommit
  <2>7. ASSUME NEW h \in Notarizable, Notarize(h)
        PROVE  Flagged(headers', ambiguous')
    BY <1>1, <2>7, ReceivedSelfNotarizedFlags, SyncAssumption DEF Notarize
  <2>8. CASE (\E b \in Canonical : AuthorityDecides(b)) \/ CommitEnd
    BY <2>1, <2>8 DEF AuthorityDecides, CommitEnd, detectorVars
  <2>9. CASE Loop
    BY <1>1, <2>9, LoopFlags
  <2>10. CASE UNCHANGED syncVars
    BY <2>1, <2>10 DEF syncVars, detectorVars
  <2>11. QED
    BY <2>2, <2>3, <2>4, <2>5, <2>6, <2>7, <2>8, <2>9, <2>10 DEF SyncNext
<1>3. isMeta' = isMeta
  BY SameShard
<1>4. QED
  BY <1>2, <1>3 DEF FlagInv, MetaNotNotarized, AmbiguityFlagged, Flagged, isAmbiguous,
                    isAmbiguousAt, Notarized, Processed, HashesIn, RecordsAt

(* hasAmbiguousNotarization, which lets readers skip the records, is set     *)
(* whenever some nonce has contradicting notarised or processed records,     *)
(* whatever commits, notarisations, rollbacks and reconciliations interleave *)
(* and for every tree of blocks.                                             *)
THEOREM AmbiguityIsFlagged == SyncSpec => []AmbiguityFlagged
<1>1. SyncInit => FlagInv
  <2> SUFFICES ASSUME SyncInit PROVE FlagInv
    OBVIOUS
  <2>1. headers = {}
    BY DEF SyncInit
  <2>2. ~isAmbiguous(headers)
    BY <2>1, NoneNotarized
  <2>3. QED
    BY <2>1, <2>2 DEF FlagInv, MetaNotNotarized, AmbiguityFlagged
<1>2. FlagInv /\ [SyncNext]_syncVars => FlagInv'
  BY StepFlags
<1>3. FlagInv => AmbiguityFlagged
  BY DEF FlagInv
<1>4. QED
  BY <1>1, <1>2, <1>3, PTL DEF SyncSpec

-----------------------------------------------------------------------------
(* A forced rollback is not blocked by finality.                             *)

(* A forced rollback that is waiting for its tick: the loop is at rest, and  *)
(* unless the nonce got settled meanwhile, finality stays below it, because  *)
(* two proofs compete at its nonce or no block of its nonce is processed.    *)
Contested(n) == \E p, q \in pool : p # q /\ BlockNonce[p] = n /\ BlockNonce[q] = n

AtRest == boot.pc = "tick" /\ pending = NoPending /\ ~synced /\ job.kind # "commit"

FinalHeldBelow ==
  /\ BlockNonce[final] < rollBackNonce
  /\ Contested(rollBackNonce) \/ Processed(headers, rollBackNonce) = {}
  /\ job.pc = "set" => BlockNonce[job.child] # rollBackNonce

RollBackWaits ==
  rollBackNonce # NoNonce => AtRest /\ (rollBackNonce > BlockNonce[settled] => FinalHeldBelow)

(* The update in progress; what FinalityEnd leaves of it keeps its fields.   *)
Kinds == {"commit", "other"}
Jobs == [pc : {"clean", "checkpoint"}, kind : Kinds, block : Block]
        \cup [pc : {"set", "checkpoint"}, kind : Kinds, block : Block, child : Block]
        \cup [pc : {"confirm", "instant", "checkpoint"}, kind : Kinds, block : Block, support : Block]

JobOK ==
  \/ job = Idle
  \/ /\ job \in Jobs
     /\ job.pc \in {"checkpoint", "instant"} => job.kind = "commit"
     /\ job.pc = "confirm" => BlockNonce[job.support] <= BlockNonce[final]

(* Evidence of equivocation is about a nonce with two proofs.                *)
EvidenceOK ==
  evidence # NoEvidence =>
    /\ evidence.nonce \in Nat
    /\ evidence.local # evidence.competitor
    /\ ~evidence.byAuthority => Contested(evidence.nonce)

ProcessedProven == \A i \in headers : i.state = "Processed" => i.hash \in pool

PointersOK == final \in Block /\ settled \in Block

RollBackInv ==
  /\ headers \subseteq headerInfo /\ pool \subseteq New
  /\ rollBackNonce \in Nat \cup {NoNonce}
  /\ PointersOK /\ JobOK /\ EvidenceOK /\ ProcessedProven
  /\ RollBackWaits

(* The greatest element of a bounded set of numbers. *)
LEMMA MaxIsGreatest ==
  ASSUME NEW S, S \subseteq Nat, S # {}, NEW n \in Nat, \A m \in S : m < n
  PROVE  Max(S) \in S /\ \A m \in S : m <= Max(S)
<1> DEFINE R == {ss \in Nat \X Nat : ss[1] < ss[2]}
           T == {n - m : m \in S}
<1>1. IsWellFoundedOn(R, Nat)
  BY NatLessThanWellFounded DEF OpToRel
<1>2. T \subseteq Nat /\ T # {}
  <2>1. \A m \in S : n - m \in Nat
    OBVIOUS
  <2>2. \E m \in S : TRUE
    OBVIOUS
  <2>3. QED
    BY <2>1, <2>2
<1>3. PICK x \in T : \A y \in T : <<y, x>> \notin R
  <2> HIDE DEF R, T
  <2>1. QED
    BY <1>1, <1>2, WFMin
<1>4. PICK m \in S : x = n - m
  OBVIOUS
<1>5. \A k \in S : m >= k
  <2> SUFFICES ASSUME NEW k \in S PROVE m >= k
    OBVIOUS
  <2>1. n - k \in T /\ n - k \in Nat /\ x \in Nat
    BY <1>2
  <2>2. ~(n - k < x)
    BY <1>3, <2>1
  <2>3. QED
    BY <1>4, <2>2
<1>6. QED
  BY <1>5 DEF Max

(* A reconciliation at a nonce above the settled block brings finality below it. *)
LEMMA LoweredBelow ==
  ASSUME NEW hs, hs \subseteq headerInfo, PointersOK, NEW n \in Nat, n > BlockNonce[settled],
         LowerFinal(hs, n)
  PROVE  final' \in Block /\ BlockNonce[final'] < n
<1> USE ForkAssumption
<1>1. CASE BlockNonce[final] < n /\ UNCHANGED final
  BY <1>1 DEF PointersOK
<1>2. CASE final' \in highestProcessedCheckpointBelow(hs, n)
  <2> DEFINE below == {m \in BlockNonces : m < n /\ m > BlockNonce[settled] /\ Processed(hs, m) # {}}
  <2>1. CASE below = {}
    BY <1>2, <2>1 DEF highestProcessedCheckpointBelow, PointersOK
  <2>2. CASE below # {}
    <3>1. below \subseteq Nat /\ \A m \in below : m < n
      BY DEF BlockNonces, New
    <3>2. final' \in Processed(hs, Max(below))
      BY <1>2, <2>2 DEF highestProcessedCheckpointBelow
    <3> HIDE DEF below
    <3>3. Max(below) \in below
      BY <2>2, <3>1, MaxIsGreatest
    <3>4. final' \in Block /\ BlockNonce[final'] = Max(below)
      BY <3>2 DEF Processed, HashesIn, RecordsAt, headerInfo, New
    <3>5. QED
      BY <3>1, <3>3, <3>4
  <2>3. QED
    BY <2>1, <2>2
<1>3. QED
  BY <1>1, <1>2 DEF LowerFinal, PointersOK

-----------------------------------------------------------------------------
(* Where processed records come from: only a commit adds one, of its block.  *)

ProcessedFrom(hs, bs) ==
  \A i \in hs : i.state = "Processed" =>
    i.hash \in bs \/ \E k \in headers : k.hash = i.hash /\ k.state = "Processed"

(* appendHeaderInfo. *)
LEMMA AppendFrom ==
  ASSUME NEW hs, hs \subseteq headerInfo, NEW i \in headerInfo, NEW bs, ProcessedFrom(hs, bs),
         i.state = "Processed" => i.hash \in bs
  PROVE  ProcessedFrom(appendHeaderInfo(hs, i), bs) /\ appendHeaderInfo(hs, i) \subseteq headerInfo
BY AppendHashes DEF ProcessedFrom

(* A finality update only drops records. *)
LEMMA ComputeFinalDrops ==
  ASSUME NEW hs, NEW amb, NEW kind, NEW b, computeFinalCheckpoint(hs, amb, kind, b)
  PROVE  headers' \subseteq hs
BY DEF computeFinalCheckpoint

(* AddHeader with BHProcessed records a proven block. *)
LEMMA AddProcessedFrom ==
  ASSUME headers \subseteq headerInfo, NEW b \in New, NEW ns \in SUBSET New, AddProcessedHeader(b, ns)
  PROVE  ProcessedFrom(headers', {b} \cap pool)
<1> DEFINE i   == Info(b, "Processed", TRUE, TRUE)
           hs  == appendHeaderInfo(headers, i)
           amb == ambiguousAfter(headers, ambiguous, i)
           new == {h \in ns : BlockNonce[h] > BlockNonce[settled]}
<1>1. i \in headerInfo /\ i.hash = b
  BY AppendedInfo DEF Info
<1>2. ProcessedFrom(headers, {b} \cap pool)
  BY DEF ProcessedFrom
<1>3. CASE UNCHANGED headers
  BY <1>2, <1>3
<1>4. CASE b \in pool /\ headers' \subseteq hs
  <2>1. ProcessedFrom(hs, {b} \cap pool)
    BY <1>1, <1>2, <1>4, AppendFrom
  <2>2. QED
    BY <1>4, <2>1 DEF ProcessedFrom
<1>5. ASSUME b \in pool, NEW h \in new, headers' \subseteq appendHeaderInfo(hs, NotarizedInfo(h))
      PROVE  ProcessedFrom(headers', {b} \cap pool)
  <2>1. ProcessedFrom(hs, {b} \cap pool) /\ hs \subseteq headerInfo
    BY <1>1, <1>2, <1>5, AppendFrom
  <2>2. NotarizedInfo(h) \in headerInfo /\ NotarizedInfo(h).state = "Notarized"
    BY AppendedInfo DEF NotarizedInfo, Info
  <2> HIDE DEF hs
  <2>3. ProcessedFrom(appendHeaderInfo(hs, NotarizedInfo(h)), {b} \cap pool)
    BY <2>1, <2>2, AppendFrom
  <2>4. QED
    BY <1>5, <2>3 DEF ProcessedFrom
<1>6. QED
  <2>1. ASSUME computeFinalCheckpoint(hs, amb, "commit", b)
        PROVE  headers' \subseteq hs
    BY <2>1, ComputeFinalDrops
  <2>2. ASSUME NEW h \in new,
               computeFinalCheckpoint(appendHeaderInfo(hs, NotarizedInfo(h)),
                 ambiguousAfter(hs, amb, NotarizedInfo(h)), "commit", b)
        PROVE  headers' \subseteq appendHeaderInfo(hs, NotarizedInfo(h))
    BY <2>2, ComputeFinalDrops
  <2>3. QED
    BY <1>3, <1>4, <1>5, <2>1, <2>2 DEF AddProcessedHeader

-----------------------------------------------------------------------------
(* The checkpoints and the update in progress.                               *)

(* A finality update that starts on the records hs: the settled checkpoint   *)
(* does not go back, and finality passes a nonce only together with it.      *)
LEMMA ComputeFinalPointers ==
  ASSUME NEW hs, hs \subseteq headerInfo, PointersOK, NEW amb, NEW kind \in Kinds, NEW b \in Block,
         computeFinalCheckpoint(hs, amb, kind, b)
  PROVE  /\ PointersOK' /\ JobOK'
         /\ job'.kind = kind /\ job'.pc = "clean"
         /\ BlockNonce[settled'] >= BlockNonce[settled]
         /\ \A n \in Nat : n > BlockNonce[settled'] /\ BlockNonce[final] < n => BlockNonce[final'] < n
<1> USE ForkAssumption
<1>1. job' = [pc |-> "clean", kind |-> kind, block |-> b]
  BY DEF computeFinalCheckpoint
<1>2. job' \in Jobs /\ job'.kind = kind /\ job'.pc = "clean"
  BY <1>1 DEF Jobs
<1>3. JobOK'
  BY <1>2 DEF JobOK, Jobs
<1>4. CASE UNCHANGED <<final, settled>>
  BY <1>2, <1>3, <1>4 DEF PointersOK
<1>5. ASSUME NEW c \in SettleCandidates(hs), advanceFinalAndSettledCheckpoint(c)
      PROVE  /\ PointersOK'
             /\ BlockNonce[settled'] >= BlockNonce[settled]
             /\ \A n \in Nat : n > BlockNonce[settled'] /\ BlockNonce[final] < n => BlockNonce[final'] < n
  <2>1. c \in Block
    BY DEF SettleCandidates, headerInfo, New
  <2>2. QED
    BY <1>5, <2>1 DEF advanceFinalAndSettledCheckpoint, advanceCheckpoint, PointersOK
<1>6. QED
  BY <1>2, <1>3, <1>4, <1>5 DEF computeFinalCheckpoint

(* The same for callers that the metachain serves without an update. *)
LEMMA ComputeFinalAndProbablePointers ==
  ASSUME NEW hs, hs \subseteq headerInfo, PointersOK, JobOK, NEW amb, ComputeFinalAndProbable(hs, amb)
  PROVE  PointersOK' /\ JobOK' /\ headers' \subseteq hs
<1>1. CASE isMeta
  BY <1>1 DEF ComputeFinalAndProbable, PointersOK, JobOK
<1>2. CASE ~isMeta
  <2>1. computeFinalCheckpoint(hs, amb, "other", Anchor)
    BY <1>2 DEF ComputeFinalAndProbable
  <2>2. "other" \in Kinds /\ Anchor \in Block
    BY ForkAssumption DEF Kinds
  <2>3. QED
    BY <2>1, <2>2, ComputeFinalPointers, ComputeFinalDrops
<1>3. QED
  BY <1>1, <1>2

(* What a waiting rollback needs of a step that does not end the waiting. *)
LEMMA WaitsOn ==
  ASSUME RollBackInv, PointersOK', UNCHANGED <<rollBackNonce, boot, pending>>,
         synced' = synced \/ synced' = FALSE, pool \subseteq pool',
         rollBackNonce # NoNonce =>
           /\ ProcessedFrom(headers', {})
           /\ job'.kind # "commit"
           /\ BlockNonce[settled'] >= BlockNonce[settled]
           /\ rollBackNonce > BlockNonce[settled'] /\ BlockNonce[final] < rollBackNonce
                => BlockNonce[final'] < rollBackNonce
           /\ rollBackNonce > BlockNonce[settled'] /\ job'.pc = "set" /\ FinalHeldBelow
                => BlockNonce[job'.child] # rollBackNonce
  PROVE  RollBackWaits'
<1> SUFFICES ASSUME rollBackNonce # NoNonce
             PROVE  AtRest' /\ (rollBackNonce > BlockNonce[settled'] => FinalHeldBelow')
  BY DEF RollBackWaits
<1>1. AtRest'
  BY DEF RollBackInv, RollBackWaits, AtRest
<1>2. ASSUME rollBackNonce > BlockNonce[settled']
      PROVE  FinalHeldBelow'
  <2>1. BlockNonce[settled] \in Int /\ BlockNonce[settled'] \in Int /\ rollBackNonce \in Int
    BY ForkAssumption DEF RollBackInv, PointersOK, NoNonce
  <2>2. FinalHeldBelow
    BY <1>2, <2>1 DEF RollBackInv, RollBackWaits
  <2>3. Contested(rollBackNonce) => Contested(rollBackNonce)'
    BY DEF Contested
  <2>4. Processed(headers, rollBackNonce) = {} => Processed(headers', rollBackNonce) = {}
    BY DEF ProcessedFrom, Processed, HashesIn, RecordsAt
  <2>5. QED
    BY <1>2, <2>2, <2>3, <2>4 DEF FinalHeldBelow
<1>3. QED
  BY <1>1, <1>2

(* The parts of the invariant put together after a step. *)
LEMMA Together ==
  ASSUME RollBackInv, headers' \subseteq headerInfo, pool \subseteq pool', pool' \subseteq New,
         rollBackNonce' \in Nat \cup {NoNonce},
         PointersOK', JobOK', ProcessedFrom(headers', pool),
         evidence' = evidence \/ EvidenceOK', RollBackWaits'
  PROVE  RollBackInv'
<1>1. EvidenceOK'
  BY DEF RollBackInv, EvidenceOK, Contested
<1>2. ProcessedProven'
  BY DEF RollBackInv, ProcessedProven, ProcessedFrom
<1>3. QED
  BY <1>1, <1>2 DEF RollBackInv

-----------------------------------------------------------------------------
(* The steps of a finality update.                                           *)

LEMMA JobStepWaits ==
  ASSUME RollBackInv, JobStep
  PROVE  /\ PointersOK' /\ JobOK' /\ headers' \subseteq headers
         /\ BlockNonce[settled'] >= BlockNonce[settled]
         /\ rollBackNonce # NoNonce =>
              /\ job'.kind # "commit"
              /\ rollBackNonce > BlockNonce[settled'] /\ FinalHeldBelow
                   => /\ BlockNonce[final'] < rollBackNonce
                      /\ job'.pc = "set" => BlockNonce[job'.child] # rollBackNonce
<1> USE ForkAssumption
<1>0. /\ headers \subseteq headerInfo /\ PointersOK /\ JobOK
      /\ job # Idle => job \in Jobs
      /\ rollBackNonce # NoNonce => job.kind # "commit"
      /\ rollBackNonce \in Int
  BY DEF RollBackInv, JobOK, RollBackWaits, AtRest, NoNonce
<1>1. ASSUME NEW c \in getCleanProcessedChild(headers, final)
      PROVE  /\ c \in Block /\ BlockNonce[c] = BlockNonce[final] + 1
             /\ c \in Processed(headers, BlockNonce[c])
  BY <1>0 DEF getCleanProcessedChild, RecordsAt, Processed, HashesIn, headerInfo, New
<1>2. ASSUME job.kind \in Kinds, job \in Jobs, FinalityEnd
      PROVE  /\ JobOK' /\ UNCHANGED <<headers, settled>>
             /\ job.kind # "commit" => job'.kind # "commit"
             /\ job'.pc # "set"
  <2>1. CASE job.kind = "commit"
    <3>1. job' = [job EXCEPT !.pc = "checkpoint"]
      BY <1>2, <2>1 DEF FinalityEnd
    <3>2. job' \in Jobs /\ job'.pc = "checkpoint" /\ job'.kind = "commit"
      BY <1>2, <2>1, <3>1 DEF Jobs
    <3>3. QED
      BY <1>2, <2>1, <3>2 DEF JobOK, FinalityEnd
  <2>2. CASE job.kind # "commit"
    BY <1>2, <2>2 DEF FinalityEnd, JobOK, Idle
  <2>3. QED
    BY <2>1, <2>2
<1>3. CASE FinalityCheck
  <2>1. PICK c \in getCleanProcessedChild(headers, final) :
          /\ ~hasProofForDifferentHash(c)
          /\ job' = [pc |-> "set", kind |-> job.kind, block |-> job.block, child |-> c]
    BY <1>3 DEF FinalityCheck
  <2>2. job \in Jobs /\ job.kind \in Kinds /\ job.block \in Block
    BY <1>0, <1>3 DEF FinalityCheck, Jobs, Idle
  <2>3. job' \in Jobs /\ job'.pc = "set" /\ job'.kind = job.kind /\ job'.child = c
    BY <1>1, <2>1, <2>2 DEF Jobs
  <2>4. JobOK'
    BY <2>3 DEF JobOK
  <2>5. UNCHANGED <<headers, final, settled>>
    BY <1>3 DEF FinalityCheck, checkpointVars
  <2>6. FinalHeldBelow => BlockNonce[c] # rollBackNonce
    BY <1>1, <2>1 DEF FinalHeldBelow, Contested, hasProofForDifferentHash
  <2>7. QED
    BY <1>0, <2>3, <2>4, <2>5, <2>6 DEF PointersOK, FinalHeldBelow
<1>4. CASE FinalityStop
  <2>1. job \in Jobs /\ job.kind \in Kinds
    BY <1>0, <1>4 DEF FinalityStop, Jobs, Idle
  <2>2. UNCHANGED final /\ FinalityEnd
    BY <1>4 DEF FinalityStop
  <2>3. QED
    BY <1>0, <1>2, <2>1, <2>2 DEF PointersOK, FinalHeldBelow
<1>5. CASE FinalitySet
  <2>1. job \in Jobs /\ job.kind \in Kinds /\ job.pc = "set" /\ job.block \in Block
    BY <1>0, <1>5 DEF FinalitySet, Jobs, Idle
  <2>2. CASE UNCHANGED final /\ FinalityEnd
    BY <1>0, <1>2, <2>1, <2>2 DEF PointersOK, FinalHeldBelow
  <2>3. CASE /\ job.child \in getCleanProcessedChild(headers, final)
             /\ final' = job.child
             /\ job' = [pc |-> "confirm", kind |-> job.kind, block |-> job.block, support |-> final]
             /\ UNCHANGED <<headers, settled>>
    <3>1. job.child \in Block /\ BlockNonce[job.child] = BlockNonce[final] + 1
      BY <1>1, <2>3
    <3>2. job' \in Jobs /\ job'.pc = "confirm" /\ job'.kind = job.kind /\ job'.support = final
      BY <1>0, <2>1, <2>3 DEF Jobs, PointersOK
    <3>3. BlockNonce[job'.support] <= BlockNonce[final']
      BY <1>0, <2>3, <3>1, <3>2 DEF PointersOK
    <3>4. JobOK'
      BY <3>2, <3>3 DEF JobOK
    <3>5. FinalHeldBelow => BlockNonce[final'] < rollBackNonce
      BY <1>0, <2>1, <2>3, <3>1 DEF FinalHeldBelow, PointersOK
    <3>6. QED
      BY <1>0, <2>3, <3>1, <3>2, <3>4, <3>5 DEF PointersOK
  <2>4. QED
    BY <1>5, <2>2, <2>3 DEF FinalitySet
<1>6. CASE FinalityConfirm
  <2>1. /\ job \in Jobs /\ job.kind \in Kinds /\ job.pc = "confirm" /\ job.block \in Block
        /\ job.support \in Block
    BY <1>0, <1>6 DEF FinalityConfirm, Jobs, Idle
  <2>2. BlockNonce[job.support] <= BlockNonce[final]
    BY <1>0, <2>1 DEF JobOK, Idle
  <2>3. CASE final' = job.support /\ FinalityEnd
    <3>0. BlockNonce[final] \in Int /\ BlockNonce[job.support] \in Int
      <4>1. final \in Block /\ job.support \in Block
        BY <1>0, <2>1 DEF PointersOK
      <4>2. \A x \in Block : BlockNonce[x] \in Int
        OBVIOUS
      <4>3. QED
        BY <4>1, <4>2, Zenon
    <3>1. FinalHeldBelow => BlockNonce[final'] < rollBackNonce
      BY <1>0, <2>2, <2>3, <3>0 DEF FinalHeldBelow
    <3>2. QED
      BY <1>0, <1>2, <2>1, <2>3, <3>1 DEF PointersOK
  <2>4. CASE /\ job' = [pc |-> "clean", kind |-> job.kind, block |-> job.block]
             /\ UNCHANGED <<headers, checkpointVars>>
    <3>1. job' \in Jobs /\ job'.pc = "clean" /\ job'.kind = job.kind
      BY <2>1, <2>4 DEF Jobs
    <3>2. JobOK'
      BY <3>1 DEF JobOK
    <3>3. QED
      BY <1>0, <2>4, <3>1, <3>2 DEF PointersOK, FinalHeldBelow, checkpointVars
  <2>5. QED
    BY <1>6, <2>3, <2>4 DEF FinalityConfirm
<1>7. ASSUME NEW f \in Block, NEW cs, UNCHANGED settled, removePastOrInvalidRecords(f, cs)
      PROVE  PointersOK' /\ JobOK' /\ headers' \subseteq headers /\ UNCHANGED settled
  BY <1>0, <1>7 DEF removePastOrInvalidRecords, PointersOK, JobOK
<1>8. CASE AddCheckpoint
  <2>1. job \in Jobs /\ job.block \in Block /\ job.kind = "commit"
    BY <1>0, <1>8 DEF AddCheckpoint, Jobs, Idle, JobOK
  <2> rollBackNonce = NoNonce
    BY <1>0, <2>1
  <2> BlockNonce[settled] >= BlockNonce[settled]
    BY <1>0 DEF PointersOK
  <2>2. CASE removePastOrInvalidRecords(final, Append(checkpoint, job.block))
    <3>1. UNCHANGED settled /\ final \in Block
      BY <1>0, <1>8 DEF PointersOK, AddCheckpoint
    <3>2. QED
      BY <1>7, <2>2, <3>1
  <2>3. CASE /\ final' = job.block
             /\ job' = [pc |-> "instant", kind |-> "commit", block |-> job.block, support |-> final]
             /\ UNCHANGED <<headers, settled>>
    <3>1. job' \in Jobs /\ job'.pc = "instant" /\ job'.kind = "commit"
      BY <1>0, <2>1, <2>3 DEF Jobs, PointersOK, Kinds
    <3>2. JobOK'
      BY <3>1 DEF JobOK
    <3>3. PointersOK' /\ headers' \subseteq headers
      BY <1>0, <2>1, <2>3 DEF PointersOK
    <3>4. QED
      BY <2>3, <3>2, <3>3
  <2>4. QED
    BY <1>8, <2>2, <2>3 DEF AddCheckpoint
<1>9. CASE InstantConfirm
  <2>1. job \in Jobs /\ job.kind = "commit" /\ job.support \in Block
    BY <1>0, <1>9 DEF InstantConfirm, Jobs, Idle, JobOK
  <2>2. PICK f \in Block : removePastOrInvalidRecords(f, checkpoint)
    BY <1>0, <1>9, <2>1 DEF InstantConfirm, PointersOK
  <2>3. QED
    BY <1>0, <1>7, <1>9, <2>1, <2>2 DEF InstantConfirm, PointersOK
<1>10. QED
  BY <1>3, <1>4, <1>5, <1>6, <1>8, <1>9 DEF JobStep

-----------------------------------------------------------------------------
(* The steps of the node.                                                    *)

(* A step that leaves the checkpoints, the update and the loop alone. *)
LEMMA FrameStep ==
  ASSUME RollBackInv, headers' \subseteq headerInfo, pool \subseteq pool', pool' \subseteq New,
         UNCHANGED <<final, settled, job, rollBackNonce, boot, pending>>,
         synced' = synced \/ synced' = FALSE,
         ProcessedFrom(headers', {}), evidence' = evidence \/ EvidenceOK'
  PROVE  RollBackInv'
<1>1. PointersOK' /\ JobOK'
  BY DEF RollBackInv, PointersOK, JobOK
<1>2. BlockNonce[settled'] >= BlockNonce[settled]
  BY ForkAssumption DEF RollBackInv, PointersOK
<1>3. rollBackNonce # NoNonce => job.kind # "commit"
  BY DEF RollBackInv, RollBackWaits, AtRest
<1>4. job'.pc = "set" /\ FinalHeldBelow => BlockNonce[job'.child] # rollBackNonce
  BY DEF FinalHeldBelow
<1>5. RollBackWaits'
  BY <1>1, <1>2, <1>3, <1>4, WaitsOn
<1>6. ProcessedFrom(headers', pool)
  BY DEF ProcessedFrom
<1>7. rollBackNonce' \in Nat \cup {NoNonce}
  BY DEF RollBackInv
<1>8. QED
  BY <1>1, <1>5, <1>6, <1>7, Together

(* A step of a tick that is not waiting for a forced rollback. *)
LEMMA NotWaitingStep ==
  ASSUME RollBackInv, headers' \subseteq headerInfo, UNCHANGED pool,
         rollBackNonce = NoNonce, rollBackNonce' = NoNonce,
         PointersOK', JobOK', ProcessedFrom(headers', pool), UNCHANGED evidence
  PROVE  RollBackInv'
<1>1. RollBackWaits'
  BY DEF RollBackWaits
<1>2. pool \subseteq pool' /\ pool' \subseteq New /\ rollBackNonce' \in Nat \cup {NoNonce}
  BY DEF RollBackInv
<1>3. QED
  BY <1>1, <1>2, Together

(* The records of a step are those before it. *)
LEMMA SubsetFrom ==
  ASSUME headers' \subseteq headers, NEW bs
  PROVE  ProcessedFrom(headers', bs)
BY DEF ProcessedFrom

(* Away from the tick no forced rollback waits. *)
LEMMA OffTick ==
  ASSUME RollBackInv, boot.pc # "tick" \/ pending # NoPending \/ synced
  PROVE  rollBackNonce = NoNonce
BY DEF RollBackInv, RollBackWaits, AtRest

LEMMA DetectorStepWaits ==
  ASSUME RollBackInv, headers' \subseteq headerInfo, DetectorStep
  PROVE  RollBackInv'
<1>1. JobStep /\ UNCHANGED <<boot, pending, synced, evidence>>
  BY DEF DetectorStep, loopVars
<1>2. UNCHANGED <<pool, rollBackNonce>>
  BY <1>1 DEF JobStep
<1>3. PointersOK' /\ JobOK' /\ headers' \subseteq headers
  BY <1>1, JobStepWaits
<1>4. /\ BlockNonce[settled'] >= BlockNonce[settled]
      /\ rollBackNonce # NoNonce =>
           /\ job'.kind # "commit"
           /\ rollBackNonce > BlockNonce[settled'] /\ FinalHeldBelow
                => /\ BlockNonce[final'] < rollBackNonce
                   /\ job'.pc = "set" => BlockNonce[job'.child] # rollBackNonce
  BY <1>1, JobStepWaits
<1>5. rollBackNonce # NoNonce /\ rollBackNonce > BlockNonce[settled'] => FinalHeldBelow
  BY <1>3, <1>4, ForkAssumption DEF RollBackInv, RollBackWaits, PointersOK
<1>6. RollBackWaits'
  BY <1>1, <1>2, <1>3, <1>4, <1>5, WaitsOn, SubsetFrom
<1>7. ProcessedFrom(headers', pool)
  BY <1>3, SubsetFrom
<1>8. QED
  BY <1>1, <1>2, <1>3, <1>6, <1>7, Together DEF RollBackInv

(* The callbacks for proofs and headers. *)
LEMMA ProofReceivedWaits ==
  ASSUME RollBackInv, headers' \subseteq headerInfo, NEW b \in New, ProofReceived(b)
  PROVE  RollBackInv'
<1> DEFINE hs == appendHeaderInfo(headers, Info(b, "Received", TRUE, FALSE))
<1>1. UNCHANGED <<pool, final, settled, job, rollBackNonce, boot, pending, synced>>
  BY DEF ProofReceived, ReceivedProof, checkpointVars
<1>2. ProcessedFrom(headers', {})
  <2>1. ProcessedFrom(headers, {}) /\ headers \subseteq headerInfo
    BY DEF ProcessedFrom, RollBackInv
  <2>2. ProcessedFrom(hs, {}) /\ hs \subseteq headerInfo
    BY <2>1, AppendFrom, AppendedInfo
  <2>3. headers' = hs \/ headers' = appendHeaderInfo(hs, ReceivedInfo(b))
    BY DEF ProofReceived, ReceivedProof
  <2> HIDE DEF hs
  <2>4. QED
    BY <2>2, <2>3, AppendFrom, AppendedInfo
<1>3. evidence' = evidence \/ EvidenceOK'
  <2> SUFFICES ASSUME evidence' # evidence PROVE EvidenceOK'
    OBVIOUS
  <2>1. b \in pool /\ hasProofForDifferentHash(b)
    BY DEF ProofReceived, onEquivocationEvidence
  <2>2. PICK c \in Competitors(b) :
          evidence' = [nonce |-> BlockNonce[b], local |-> head, competitor |-> c,
                       byAuthority |-> FALSE]
    BY DEF ProofReceived, onEquivocationEvidence
  <2>3. c # head
    BY DEF Competitors
  <2>4. Contested(BlockNonce[b])'
    BY <1>1, <2>1 DEF hasProofForDifferentHash, Contested
  <2>5. BlockNonce[b] \in Nat
    BY ForkAssumption DEF New
  <2>6. QED
    BY <2>2, <2>3, <2>4, <2>5 DEF EvidenceOK
<1>4. QED
  BY <1>1, <1>2, <1>3, FrameStep DEF RollBackInv

LEMMA HeaderReceivedWaits ==
  ASSUME RollBackInv, headers' \subseteq headerInfo, NEW b \in New, HeaderReceived(b)
  PROVE  RollBackInv'
<1>1. UNCHANGED <<pool, final, settled, job, rollBackNonce, boot, pending, synced, evidence>>
  BY DEF HeaderReceived, AddReceivedHeader, checkpointVars, loopVars
<1>2. ProcessedFrom(headers', {})
  <2>1. ProcessedFrom(headers, {}) /\ headers \subseteq headerInfo
    BY DEF ProcessedFrom, RollBackInv
  <2>2. headers' = headers \/ headers' = appendHeaderInfo(headers, ReceivedInfo(b))
    BY DEF HeaderReceived, AddReceivedHeader
  <2>3. QED
    BY <2>1, <2>2, AppendFrom, AppendedInfo
<1>3. QED
  BY <1>1, <1>2, FrameStep DEF RollBackInv

(* A notarisation may settle the nonce, and finality then passes it. *)
LEMMA UpdateWaits ==
  ASSUME RollBackInv, headers' \subseteq headerInfo, NEW hs, hs \subseteq headerInfo, NEW amb,
         ProcessedFrom(hs, {}), computeFinalCheckpoint(hs, amb, "other", Anchor),
         UNCHANGED <<pool, rollBackNonce, boot, pending, synced, evidence>>
  PROVE  RollBackInv'
<1>1. "other" \in Kinds /\ Anchor \in Block /\ PointersOK
  BY ForkAssumption DEF Kinds, RollBackInv
<1>2. /\ PointersOK' /\ JobOK'
      /\ job'.kind = "other" /\ job'.pc = "clean"
      /\ BlockNonce[settled'] >= BlockNonce[settled]
      /\ \A n \in Nat : n > BlockNonce[settled'] /\ BlockNonce[final] < n => BlockNonce[final'] < n
  BY <1>1, ComputeFinalPointers
<1>3. ProcessedFrom(headers', {})
  BY ComputeFinalDrops DEF ProcessedFrom
<1>4. rollBackNonce \in Nat \cup {NoNonce}
  BY DEF RollBackInv
<1>5. RollBackWaits'
  BY <1>2, <1>3, <1>4, WaitsOn
<1>6. ProcessedFrom(headers', pool)
  BY <1>3 DEF ProcessedFrom
<1>7. QED
  BY <1>2, <1>4, <1>5, <1>6, Together DEF RollBackInv

LEMMA NotarizeWaits ==
  ASSUME RollBackInv, headers' \subseteq headerInfo, NEW h \in New, Notarize(h)
  PROVE  RollBackInv'
<1> DEFINE hs == appendHeaderInfo(headers, NotarizedInfo(h))
<1>1. UNCHANGED <<pool, rollBackNonce, boot, pending, synced, evidence>>
  BY DEF Notarize, ReceivedSelfNotarized, loopVars
<1>2. ProcessedFrom(hs, {}) /\ hs \subseteq headerInfo
  <2>1. ProcessedFrom(headers, {}) /\ headers \subseteq headerInfo
    BY DEF ProcessedFrom, RollBackInv
  <2>2. NotarizedInfo(h) \in headerInfo /\ NotarizedInfo(h).state = "Notarized"
    BY AppendedInfo DEF NotarizedInfo, Info
  <2>3. QED
    BY <2>1, <2>2, AppendFrom
<1>3. CASE computeFinalCheckpoint(hs, ambiguousAfter(headers, ambiguous, NotarizedInfo(h)), "other", Anchor)
  BY <1>1, <1>2, <1>3, UpdateWaits
<1>4. CASE headers' = hs /\ UNCHANGED <<final, settled, job>>
  BY <1>1, <1>2, <1>4, FrameStep DEF RollBackInv
<1>5. QED
  BY <1>3, <1>4 DEF Notarize, ReceivedSelfNotarized

(* A commit is not begun while a forced rollback waits. *)
LEMMA CommitWaits ==
  ASSUME RollBackInv, headers' \subseteq headerInfo, NEW b \in New, CommitBlock(b),
         rollBackNonce = NoNonce, UNCHANGED evidence
  PROVE  RollBackInv'
<1>1. PICK ns \in {{}} \cup {{h} : h \in {g \in Notarizable :
                                BlockNonce[g] < BlockNonce[b] /\ ~Dead(g)}} :
        AddProcessedHeader(b, ns)
  BY DEF CommitBlock
<1>2. ns \in SUBSET New /\ b \in pool /\ UNCHANGED <<pool, rollBackNonce>>
  BY SyncAssumption DEF CommitBlock
<1>3. ProcessedFrom(headers', pool)
  <2>1. ProcessedFrom(headers', {b} \cap pool)
    BY <1>1, <1>2, AddProcessedFrom DEF RollBackInv
  <2>2. QED
    BY <2>1 DEF ProcessedFrom
<1>4. PointersOK' /\ JobOK'
  <2> DEFINE i   == Info(b, "Processed", TRUE, TRUE)
             hs  == appendHeaderInfo(headers, i)
             amb == ambiguousAfter(headers, ambiguous, i)
             new == {h \in ns : BlockNonce[h] > BlockNonce[settled]}
  <2>1. headers \subseteq headerInfo /\ PointersOK /\ JobOK
    BY DEF RollBackInv
  <2>2. CASE UNCHANGED <<final, settled, job>>
    BY <2>1, <2>2 DEF PointersOK, JobOK
  <2>3. CASE /\ \/ /\ isParentCheckpoint(lastCheckpoint(checkpoint), b)
                   /\ advanceFinalAndSettledCheckpoint(lastCheckpoint(checkpoint))
                \/ UNCHANGED <<final, settled>>
             /\ job' = [pc |-> "checkpoint", kind |-> "commit", block |-> b]
    <3>1. PointersOK'
      <4>1. ParentOf[b] \in Block
        BY ForkAssumption DEF New
      <4>2. QED
        BY <2>1, <2>3, <4>1 DEF PointersOK, isParentCheckpoint, advanceFinalAndSettledCheckpoint,
                                advanceCheckpoint
    <3>2. job' \in Jobs /\ job'.pc = "checkpoint" /\ job'.kind = "commit"
      BY <2>3 DEF Jobs, Kinds, New
    <3>3. QED
      BY <3>1, <3>2 DEF JobOK
  <2>4. i \in headerInfo /\ "commit" \in Kinds /\ b \in Block
    BY AppendedInfo DEF Kinds, New
  <2>5. hs \subseteq headerInfo
    BY <2>1, <2>4, AppendHashes
  <2>6. CASE computeFinalCheckpoint(hs, amb, "commit", b)
    BY <2>1, <2>4, <2>5, <2>6, ComputeFinalPointers
  <2>7. ASSUME NEW h \in new,
               computeFinalCheckpoint(appendHeaderInfo(hs, NotarizedInfo(h)),
                 ambiguousAfter(hs, amb, NotarizedInfo(h)), "commit", b)
        PROVE  PointersOK' /\ JobOK'
    <3>1. NotarizedInfo(h) \in headerInfo
      BY <1>2, AppendedInfo
    <3> HIDE DEF hs
    <3>2. appendHeaderInfo(hs, NotarizedInfo(h)) \subseteq headerInfo
      BY <2>5, <3>1, AppendHashes
    <3>3. QED
      BY <2>1, <2>4, <2>7, <3>2, ComputeFinalPointers
  <2>8. QED
    BY <1>1, <2>2, <2>3, <2>6, <2>7 DEF AddProcessedHeader, checkpointVars
<1>5. QED
  BY <1>2, <1>3, <1>4, NotWaitingStep

(* A reconciliation orders the forced rollback and lowers finality below it. *)
LEMMA OrderedWaits ==
  ASSUME RollBackInv, headers' \subseteq headerInfo, NEW n \in Nat, n > BlockNonce[settled],
         AtTick, job = Idle, UNCHANGED <<pool, settled, job, boot, pending>>,
         NEW hs, hs \subseteq headerInfo, LowerFinal(hs, n), rollBackNonce' = n, synced' = FALSE,
         ProcessedFrom(headers', {}), Contested(n) \/ Processed(headers', n) = {},
         evidence' = evidence \/ evidence' = NoEvidence
  PROVE  RollBackInv'
<1>1. final' \in Block /\ BlockNonce[final'] < n
  BY LoweredBelow DEF RollBackInv
<1>2. PointersOK' /\ JobOK'
  BY <1>1 DEF RollBackInv, PointersOK, JobOK
<1>3. AtRest'
  BY DEF AtRest, AtTick, Idle
<1>4. FinalHeldBelow'
  BY <1>1 DEF FinalHeldBelow, Contested, Idle
<1>5. RollBackWaits'
  BY <1>3, <1>4 DEF RollBackWaits
<1>6. EvidenceOK' \/ evidence' = evidence
  BY DEF EvidenceOK
<1>7. ProcessedFrom(headers', pool)
  BY DEF ProcessedFrom
<1>8. QED
  BY <1>2, <1>5, <1>6, <1>7, Together DEF RollBackInv

LEMMA ReconcileSwitchWaits ==
  ASSUME RollBackInv, headers' \subseteq headerInfo, ReconcileSwitch
  PROVE  RollBackInv'
<1> DEFINE n == evidence.nonce
           h == evidence.competitor
<1>1. /\ AtTick /\ job = Idle /\ h \in pool /\ evidence' = NoEvidence
      /\ evidence # NoEvidence /\ reconcileEvidenceStillApplies(evidence)
      /\ UNCHANGED <<pool, job, boot, pending>>
  BY DEF ReconcileSwitch
<1>2. n \in Nat /\ evidence.local # h /\ (~evidence.byAuthority => Contested(n))
  BY <1>1 DEF RollBackInv, EvidenceOK
<1>3. CASE UNCHANGED <<headers, checkpointVars, rollBackNonce, synced>>
  <2>1. ProcessedFrom(headers', {}) /\ EvidenceOK'
    BY <1>1, <1>3 DEF ProcessedFrom, EvidenceOK
  <2>2. QED
    BY <1>1, <1>3, <2>1, FrameStep DEF RollBackInv, checkpointVars
<1>4. CASE /\ evidence.byAuthority /\ canReconcileFromAuthority(n, h)
           /\ ReconcileFinalCheckpointFromAuthority(n, h)
           /\ rollBackNonce' = n /\ synced' = FALSE
  <2>1. n > BlockNonce[settled] /\ h \in Notarized(headers, n)
    BY <1>4 DEF canReconcileFromAuthority
  <2>2. UNCHANGED settled /\ LowerFinal(headers', n)
    BY <1>4 DEF ReconcileFinalCheckpointFromAuthority
  <2>3. ProcessedFrom(headers', {})
    <3> DEFINE marked(i) == IF i.hash = h /\ i.state = "Notarized"
                            THEN [i EXCEPT !.authority = TRUE] ELSE i
    <3>1. PICK kept \in SUBSET headers : headers' = {marked(i) : i \in kept}
      BY <1>4 DEF ReconcileFinalCheckpointFromAuthority
    <3>2. \A i \in headerInfo : marked(i).state = i.state /\ marked(i).hash = i.hash
      BY DEF headerInfo
    <3> HIDE DEF marked
    <3>3. QED
      BY <3>1, <3>2 DEF ProcessedFrom, RollBackInv
  <2>4. Contested(n)
    <3>1. evidence.local \in Processed(headers, n)
      BY <1>1, <1>4 DEF reconcileEvidenceStillApplies
    <3>2. evidence.local \in pool /\ BlockNonce[evidence.local] = n
      BY <3>1 DEF Processed, HashesIn, RecordsAt, RollBackInv, ProcessedProven
    <3>3. BlockNonce[h] = n
      BY <2>1 DEF Notarized, HashesIn, RecordsAt
    <3>4. QED
      BY <1>1, <1>2, <3>2, <3>3 DEF Contested
  <2> HIDE DEF n, h
  <2>5. QED
    BY <1>1, <1>2, <1>4, <2>1, <2>2, <2>3, <2>4, OrderedWaits
<1>5. CASE /\ ~evidence.byAuthority /\ canReconcileFinal(n) /\ ReconcileFinalCheckpoint(n)
           /\ rollBackNonce' = n /\ synced' = FALSE
  <2>1. n > BlockNonce[settled] /\ Contested(n)
    BY <1>2, <1>5 DEF canReconcileFinal
  <2>2. UNCHANGED <<settled, headers>> /\ LowerFinal(headers', n)
    BY <1>5 DEF ReconcileFinalCheckpoint
  <2>3. ProcessedFrom(headers', {})
    BY <2>2 DEF ProcessedFrom
  <2> HIDE DEF n, h
  <2>4. QED
    BY <1>1, <1>2, <1>5, <2>1, <2>2, <2>3, OrderedWaits
<1>6. QED
  BY <1>3, <1>4, <1>5 DEF ReconcileSwitch, canReconcile, SetRollBackNonce, checkpointVars

LEMMA ReconcileDivergenceWaits ==
  ASSUME RollBackInv, headers' \subseteq headerInfo, NEW n \in BlockNonces, ReconcileDivergence(n)
  PROVE  RollBackInv'
<1>1. /\ AtTick /\ job = Idle /\ n > BlockNonce[settled]
      /\ UNCHANGED <<pool, job, boot, pending, evidence>>
      /\ rollBackNonce' = n /\ synced' = FALSE
      /\ ReconcileFinalCheckpointBelow(n)
  BY DEF ReconcileDivergence, SetRollBackNonce
<1>2. /\ UNCHANGED settled /\ LowerFinal(headers', n)
      /\ headers' = {i \in headers : BlockNonce[i.hash] < n}
  BY <1>1 DEF ReconcileFinalCheckpointBelow
<1>3. n \in Nat
  BY ForkAssumption DEF BlockNonces, New
<1>4. Processed(headers', n) = {}
  BY <1>2, <1>3 DEF Processed, HashesIn, RecordsAt
<1>5. ProcessedFrom(headers', {})
  BY <1>2 DEF ProcessedFrom
<1>6. QED
  BY <1>1, <1>2, <1>3, <1>4, <1>5, OrderedWaits

LEMMA ResolveAmbiguityWaits ==
  ASSUME RollBackInv, headers' \subseteq headerInfo, NEW n \in BlockNonces, ResolveAmbiguity(n)
  PROVE  RollBackInv'
<1>1. UNCHANGED <<pool, rollBackNonce, boot, pending, synced>>
  BY DEF ResolveAmbiguity
<1>2. ASSUME NEW h, applyNotarizedHeaderSelection(n, h), UNCHANGED evidence
      PROVE  RollBackInv'
  <2> DEFINE mark(i) == IF i.hash = h /\ i.state = "Notarized"
                        THEN [i EXCEPT !.authority = TRUE] ELSE i
             chosen(i) == [i EXCEPT !.state = "Notarized", !.authority = TRUE]
             ls == {j \in headers : j.hash = h /\ j.state = "Processed"}
             ks == {j \in headers : ~(/\ j.state = "Notarized" /\ j.hash # h
                                      /\ BlockNonce[j.hash] = n)}
             selected == IF h \in Notarized(headers, n) THEN {} ELSE {chosen(i) : i \in ls}
             kept == selected \cup {mark(i) : i \in ks}
  <2>1. computeFinalCheckpoint(kept, isAmbiguous(kept), "other", Anchor)
    BY <1>2 DEF applyNotarizedHeaderSelection
  <2>2. \A i \in headerInfo : /\ mark(i) \in headerInfo /\ chosen(i) \in headerInfo
                              /\ mark(i).state = i.state /\ mark(i).hash = i.hash
                              /\ chosen(i).state = "Notarized"
    BY DEF headerInfo, States
  <2>3. headers \subseteq headerInfo /\ ks \subseteq headers /\ ls \subseteq headers
    BY DEF RollBackInv
  <2> HIDE DEF mark, chosen, ks, ls
  <2>4. kept \subseteq headerInfo /\ ProcessedFrom(kept, {})
    BY <2>2, <2>3 DEF ProcessedFrom
  <2> HIDE DEF kept
  <2>5. QED
    BY <1>1, <1>2, <2>1, <2>4, UpdateWaits
<1>3. ASSUME NEW h, armAuthorityReconciliation(n, h), UNCHANGED <<headers, checkpointVars, job>>
      PROVE  RollBackInv'
  <2>1. ProcessedFrom(headers', {})
    BY <1>3 DEF ProcessedFrom
  <2>2. n \in Nat
    BY ForkAssumption DEF BlockNonces, New
  <2>3. evidence' = evidence \/ EvidenceOK'
    BY <1>3, <2>2 DEF armAuthorityReconciliation, EvidenceOK
  <2>4. QED
    BY <1>1, <1>3, <2>1, <2>3, FrameStep DEF RollBackInv, checkpointVars
<1>4. QED
  BY <1>2, <1>3 DEF ResolveAmbiguity

(* The rollback starts: nothing waits any more. *)
LEMMA ComputeNodeStateWaits ==
  ASSUME RollBackInv, headers' \subseteq headerInfo, ComputeNodeState
  PROVE  RollBackInv'
<1>1. UNCHANGED <<pool, headers, final, settled, job, evidence>> /\ rollBackNonce' = NoNonce
  BY DEF ComputeNodeState, checkpointVars
<1>2. PointersOK' /\ JobOK' /\ RollBackWaits' /\ ProcessedFrom(headers', pool)
  BY <1>1 DEF RollBackInv, PointersOK, JobOK, RollBackWaits, ProcessedFrom
<1>3. QED
  BY <1>1, <1>2, Together DEF RollBackInv

LEMMA RollBackFinishWaits ==
  ASSUME RollBackInv, headers' \subseteq headerInfo, RollBackFinish
  PROVE  RollBackInv'
<1> DEFINE b == pending.block
           gone == {i \in headers : i.hash = b /\ i.state # "Notarized"}
           proven == {i \in gone : i.hasProof}
           evidenceOf == IF proven = {} THEN {}
                         ELSE {Info(b, "Received", TRUE, \E i \in proven : i.anc)}
           kept == (headers \ gone) \cup evidenceOf
<1>1. RemoveCommittedHeader(b) /\ UNCHANGED <<pool, rollBackNonce, evidence>> /\ boot.pc = "finish"
  BY DEF RollBackFinish
<1>2. rollBackNonce = NoNonce
  BY <1>1, OffTick
<1>3. CASE UNCHANGED <<headers, checkpointVars, job>>
  <2>1. PointersOK' /\ JobOK' /\ ProcessedFrom(headers', pool)
    BY <1>3 DEF RollBackInv, PointersOK, JobOK, ProcessedFrom, checkpointVars
  <2>2. QED
    BY <1>1, <1>2, <2>1, NotWaitingStep
<1>4. CASE ComputeFinalAndProbable(kept, isAmbiguous(kept))
  <2>1. kept \subseteq headerInfo
    <3>1. CASE proven = {}
      BY <3>1 DEF RollBackInv
    <3>2. CASE proven # {}
      <4>1. b \in New
        BY <3>2 DEF RollBackInv, headerInfo
      <4> DEFINE known == \E i \in proven : i.anc
      <4>2. known \in BOOLEAN
        OBVIOUS
      <4>3. evidenceOf = {Info(b, "Received", TRUE, known)}
        BY <3>2
      <4> HIDE DEF known, b
      <4>4. \A k \in BOOLEAN : Info(b, "Received", TRUE, k) \in headerInfo
        BY <4>1 DEF Info, headerInfo, States
      <4> HIDE DEF evidenceOf, gone
      <4>5. QED
        BY <4>2, <4>3, <4>4 DEF RollBackInv
    <3>3. QED
      BY <3>1, <3>2
  <2>2. ProcessedFrom(kept, {})
    BY DEF ProcessedFrom, Info
  <2> HIDE DEF kept
  <2>3. PointersOK /\ JobOK
    BY DEF RollBackInv
  <2>4. PointersOK' /\ JobOK' /\ headers' \subseteq kept
    BY <1>4, <2>1, <2>3, ComputeFinalAndProbablePointers
  <2>5. ProcessedFrom(headers', pool)
    BY <2>2, <2>4 DEF ProcessedFrom
  <2>6. QED
    BY <1>1, <1>2, <2>4, <2>5, NotWaitingStep
<1>5. QED
  BY <1>1, <1>3, <1>4 DEF RemoveCommittedHeader

(* The steps away from the tick that leave the detector's checkpoints alone. *)
LEMMA QuietWaits ==
  ASSUME RollBackInv, headers' \subseteq headers, UNCHANGED <<pool, final, settled, job, rollBackNonce, evidence>>,
         rollBackNonce = NoNonce
  PROVE  RollBackInv'
<1>1. PointersOK' /\ JobOK' /\ ProcessedFrom(headers', pool) /\ headers' \subseteq headerInfo
  BY SubsetFrom DEF RollBackInv, PointersOK, JobOK
<1>2. QED
  BY <1>1, NotWaitingStep

LEMMA LoopWaits ==
  ASSUME RollBackInv, headers' \subseteq headerInfo, Loop
  PROVE  RollBackInv'
<1>1. CASE DropEvidence
  <2>1. /\ UNCHANGED <<headers, pool, final, settled, job, rollBackNonce, boot, pending, synced>>
        /\ evidence' = NoEvidence
    BY <1>1 DEF DropEvidence, detectorUnchanged, checkpointVars
  <2>2. ProcessedFrom(headers', {}) /\ EvidenceOK'
    BY <2>1 DEF ProcessedFrom, EvidenceOK
  <2>3. QED
    BY <2>1, <2>2, FrameStep DEF RollBackInv
<1>2. CASE ReconcileSwitch
  BY <1>2, ReconcileSwitchWaits
<1>3. CASE \E n \in BlockNonces : ResolveAmbiguity(n)
  BY <1>3, ResolveAmbiguityWaits
<1>4. CASE \E n \in BlockNonces : ReconcileDivergence(n)
  BY <1>4, ReconcileDivergenceWaits
<1>5. CASE ComputeNodeState
  BY <1>5, ComputeNodeStateWaits
<1>6. CASE RollBackRefused \/ RollBackBegin \/ RestoreBlockIntoPools \/ RollBackInterrupted
           \/ NothingToSync \/ \E b \in New : SyncFail(b)
  <2>1. boot.pc # "tick" /\ UNCHANGED <<headers, pool, final, settled, job, rollBackNonce, evidence>>
    BY <1>6 DEF RollBackRefused, RollBackBegin, RestoreBlockIntoPools, RollBackInterrupted,
                NothingToSync, SyncFail, detectorUnchanged, checkpointVars
  <2>2. QED
    BY <2>1, OffTick, QuietWaits
<1>7. CASE RollBackResumed
  <2>1. pending # NoPending /\ UNCHANGED <<headers, pool, final, settled, job, rollBackNonce, evidence>>
    BY <1>7 DEF RollBackResumed, detectorUnchanged, checkpointVars
  <2>2. QED
    BY <2>1, OffTick, QuietWaits
<1>8. CASE RollBackFinish
  BY <1>8, RollBackFinishWaits
<1>9. CASE ResetAfterRollBack
  <2>1. /\ boot.pc # "tick" /\ headers' \subseteq headers
        /\ UNCHANGED <<pool, final, settled, job, rollBackNonce, evidence>>
    BY <1>9 DEF ResetAfterRollBack, ResetProbableHighestNonce, checkpointVars
  <2>2. QED
    BY <2>1, OffTick, QuietWaits
<1>10. CASE \E b \in New : SyncCommit(b)
  <2>1. PICK b \in New : SyncCommit(b)
    BY <1>10
  <2>2. CommitBlock(b) /\ boot.pc # "tick" /\ UNCHANGED evidence
    BY <2>1 DEF SyncCommit
  <2>3. QED
    BY <2>2, OffTick, CommitWaits
<1>11. QED
  BY <1>1, <1>2, <1>3, <1>4, <1>5, <1>6, <1>7, <1>8, <1>9, <1>10 DEF Loop, Reconcile

LEMMA StepWaits ==
  ASSUME RollBackInv, headers' \subseteq headerInfo, [SyncNext]_syncVars
  PROVE  RollBackInv'
<1>1. CASE DetectorStep
  BY <1>1, DetectorStepWaits
<1>2. ASSUME NEW b \in New, ProofStored(b)
      PROVE  RollBackInv'
  <2>1. /\ UNCHANGED <<headers, final, settled, job, rollBackNonce, boot, pending, synced, evidence>>
        /\ pool' = pool \cup {b}
    BY <1>2 DEF ProofStored, checkpointVars, loopVars
  <2>2. ProcessedFrom(headers', {})
    BY <2>1 DEF ProcessedFrom
  <2>3. QED
    BY <2>1, <2>2, FrameStep DEF RollBackInv
<1>3. ASSUME NEW b \in New, ProofReceived(b)
      PROVE  RollBackInv'
  BY <1>3, ProofReceivedWaits
<1>4. ASSUME NEW b \in New, HeaderReceived(b)
      PROVE  RollBackInv'
  BY <1>4, HeaderReceivedWaits
<1>5. ASSUME NEW b \in New, ConsensusCommit(b)
      PROVE  RollBackInv'
  <2>1. CommitBlock(b) /\ synced /\ UNCHANGED evidence
    BY <1>5 DEF ConsensusCommit, loopVars
  <2>2. QED
    BY <2>1, OffTick, CommitWaits
<1>6. ASSUME NEW h \in Notarizable, Notarize(h)
      PROVE  RollBackInv'
  BY <1>6, NotarizeWaits, SyncAssumption
<1>7. CASE \E b \in Canonical : AuthorityDecides(b)
  <2>1. UNCHANGED <<headers, pool, final, settled, job, rollBackNonce, boot, pending, synced, evidence>>
    BY <1>7 DEF AuthorityDecides, detectorVars, checkpointVars, loopVars
  <2>2. ProcessedFrom(headers', {})
    BY <2>1 DEF ProcessedFrom
  <2>3. QED
    BY <2>1, <2>2, FrameStep DEF RollBackInv
<1>8. CASE CommitEnd
  <2>1. UNCHANGED <<headers, pool, final, settled, job, rollBackNonce, pending, synced, evidence>>
    BY <1>8 DEF CommitEnd, detectorVars, checkpointVars
  <2>2. CASE boot.pc = "commit"
    BY <2>1, <2>2, OffTick, QuietWaits
  <2>3. CASE UNCHANGED boot
    <3>1. ProcessedFrom(headers', {})
      BY <2>1 DEF ProcessedFrom
    <3>2. QED
      BY <2>1, <2>3, <3>1, FrameStep DEF RollBackInv
  <2>4. QED
    BY <1>8, <2>2, <2>3 DEF CommitEnd
<1>9. CASE Loop
  BY <1>9, LoopWaits
<1>10. CASE UNCHANGED syncVars
  <2>1. UNCHANGED <<headers, pool, final, settled, job, rollBackNonce, boot, pending, synced, evidence>>
    BY <1>10 DEF syncVars, detectorVars, checkpointVars, loopVars
  <2>2. ProcessedFrom(headers', {})
    BY <2>1 DEF ProcessedFrom
  <2>3. QED
    BY <2>1, <2>2, FrameStep DEF RollBackInv
<1>11. QED
  BY <1>1, <1>2, <1>3, <1>4, <1>5, <1>6, <1>7, <1>8, <1>9, <1>10 DEF SyncNext

(* Both invariants hold at the start. *)
LEMMA StartInvariants ==
  ASSUME SyncInit
  PROVE  FlagInv /\ RollBackInv
<1>1. headers = {} /\ pool = {} /\ final = Anchor /\ settled = Anchor /\ job = Idle
      /\ rollBackNonce = NoNonce /\ evidence = NoEvidence
  BY DEF SyncInit
<1>2. ~isAmbiguous(headers)
  BY <1>1, NoneNotarized
<1>3. QED
  BY <1>1, <1>2, ForkAssumption DEF FlagInv, MetaNotNotarized, AmbiguityFlagged, RollBackInv,
     PointersOK, JobOK, EvidenceOK, ProcessedProven, RollBackWaits

(* Both invariants hold of every state. *)
LEMMA SyncInvariants == SyncSpec => [](FlagInv /\ RollBackInv)
<1>1. SyncInit => FlagInv /\ RollBackInv
  BY StartInvariants
<1>2. FlagInv /\ RollBackInv /\ [SyncNext]_syncVars => (FlagInv /\ RollBackInv)'
  <2> SUFFICES ASSUME FlagInv, RollBackInv, [SyncNext]_syncVars
               PROVE  FlagInv' /\ RollBackInv'
    OBVIOUS
  <2>1. FlagInv'
    BY StepFlags
  <2>2. headers' \subseteq headerInfo
    BY <2>1 DEF FlagInv
  <2>3. QED
    BY <2>1, <2>2, StepWaits
<1>3. QED
  BY <1>1, <1>2, PTL DEF SyncSpec

(* A forced rollback to a nonce above the settled block finds finality below *)
(* it when it starts: what the reconciliation lowered stays lowered, or the  *)
(* nonce gets settled, whatever proofs, commits and notarisations come       *)
(* between the reconciliation and the rollback, for every tree of blocks.    *)
THEOREM ForcedRollBackStarts == SyncSpec => []RollBackNotBlocked
<1>1. RollBackInv => RollBackNotBlocked
  <2> SUFFICES ASSUME RollBackInv, rollBackNonce > BlockNonce[settled]
               PROVE  BlockNonce[final] < rollBackNonce
    BY DEF RollBackNotBlocked
  <2>1. rollBackNonce # NoNonce
    BY ForkAssumption DEF RollBackInv, PointersOK, NoNonce
  <2>2. QED
    BY <2>1 DEF RollBackInv, RollBackWaits, FinalHeldBelow
<1>2. QED
  BY <1>1, SyncInvariants, PTL

-----------------------------------------------------------------------------
(* The settled checkpoint.                                                   *)

SettledAdvances == settled' = settled \/ BlockNonce[settled'] > BlockNonce[settled]

LEMMA UpdateAdvances ==
  ASSUME NEW hs, NEW amb, NEW kind, NEW b, computeFinalCheckpoint(hs, amb, kind, b)
  PROVE  SettledAdvances
BY DEF computeFinalCheckpoint, advanceFinalAndSettledCheckpoint, advanceCheckpoint, SettledAdvances

LEMMA CommitAdvances ==
  ASSUME NEW b, CommitBlock(b)
  PROVE  SettledAdvances
<1>1. PICK ns : AddProcessedHeader(b, ns)
  BY DEF CommitBlock
<1>2. CASE UNCHANGED settled
  BY <1>2 DEF SettledAdvances
<1>3. CASE advanceFinalAndSettledCheckpoint(lastCheckpoint(checkpoint))
  BY <1>3 DEF advanceFinalAndSettledCheckpoint, advanceCheckpoint, SettledAdvances
<1>4. CASE \E hs, amb : computeFinalCheckpoint(hs, amb, "commit", b)
  BY <1>4, UpdateAdvances
<1>5. QED
  BY <1>1, <1>2, <1>3, <1>4 DEF AddProcessedHeader, checkpointVars

LEMMA StepAdvances ==
  ASSUME [SyncNext]_syncVars
  PROVE  SettledAdvances
<1>1. CASE UNCHANGED settled
  BY <1>1 DEF SettledAdvances
<1>2. CASE DetectorStep
  <2>1. UNCHANGED settled
    BY <1>2 DEF DetectorStep, JobStep, FinalityCheck, FinalityStop, FinalitySet, FinalityConfirm,
                AddCheckpoint, InstantConfirm, FinalityEnd, checkpointVars
  <2>2. QED
    BY <1>1, <2>1
<1>3. CASE \E b \in New : ProofStored(b) \/ ProofReceived(b) \/ HeaderReceived(b)
  BY <1>1, <1>3 DEF ProofStored, ProofReceived, ReceivedProof, HeaderReceived, AddReceivedHeader,
                    checkpointVars
<1>4. CASE \E b \in New : ConsensusCommit(b) \/ SyncCommit(b)
  BY <1>4, CommitAdvances DEF ConsensusCommit, SyncCommit
<1>5. ASSUME NEW h, Notarize(h) PROVE SettledAdvances
  <2>1. ReceivedSelfNotarized(h)
    BY <1>5 DEF Notarize
  <2>2. QED
    BY <1>1, <2>1, UpdateAdvances DEF ReceivedSelfNotarized
<1>6. CASE (\E b \in Canonical : AuthorityDecides(b)) \/ CommitEnd
  BY <1>1, <1>6 DEF AuthorityDecides, CommitEnd, detectorVars, checkpointVars
<1>7. CASE DropEvidence \/ ComputeNodeState
  BY <1>1, <1>7 DEF DropEvidence, ComputeNodeState, detectorUnchanged, checkpointVars
<1>8. CASE ReconcileSwitch \/ \E n \in BlockNonces : ReconcileDivergence(n)
  BY <1>1, <1>8 DEF ReconcileSwitch, ReconcileFinalCheckpointFromAuthority, ReconcileFinalCheckpoint,
                    ReconcileDivergence, ReconcileFinalCheckpointBelow, checkpointVars
<1>9. ASSUME NEW n \in BlockNonces, ResolveAmbiguity(n) PROVE SettledAdvances
  <2>1. ASSUME NEW h, applyNotarizedHeaderSelection(n, h) PROVE SettledAdvances
    BY <2>1, UpdateAdvances DEF applyNotarizedHeaderSelection
  <2>2. QED
    BY <1>1, <1>9, <2>1 DEF ResolveAmbiguity, checkpointVars
<1>10. CASE RollBackRefused \/ RollBackBegin \/ RestoreBlockIntoPools \/ RollBackInterrupted
            \/ RollBackResumed \/ NothingToSync \/ \E b \in New : SyncFail(b)
  BY <1>1, <1>10 DEF RollBackRefused, RollBackBegin, RestoreBlockIntoPools, RollBackInterrupted,
                     RollBackResumed, NothingToSync, SyncFail, detectorUnchanged, checkpointVars
<1>11. CASE RollBackFinish
  <2>1. RemoveCommittedHeader(pending.block)
    BY <1>11 DEF RollBackFinish
  <2>2. ASSUME NEW hs, NEW amb, ComputeFinalAndProbable(hs, amb) PROVE SettledAdvances
    BY <1>1, <2>2, UpdateAdvances DEF ComputeFinalAndProbable
  <2>3. QED
    BY <1>1, <2>1, <2>2 DEF RemoveCommittedHeader, checkpointVars
<1>12. CASE ResetAfterRollBack
  BY <1>1, <1>12 DEF ResetAfterRollBack, ResetProbableHighestNonce, checkpointVars
<1>13. CASE UNCHANGED syncVars
  BY <1>1, <1>13 DEF syncVars, detectorVars, checkpointVars
<1>14. QED
  BY <1>2, <1>3, <1>4, <1>5, <1>6, <1>7, <1>8, <1>9, <1>10, <1>11, <1>12, <1>13
     DEF SyncNext, Loop, Reconcile

(* The settled checkpoint never goes back, whatever is notarised, committed, *)
(* reconciled or rolled back, and in whatever order.                         *)
THEOREM SettledNeverGoesBack == SyncSpec => SettledGrows
<1>1. /\ RollBackInv /\ RollBackInv' /\ [SyncNext]_syncVars
      => [BlockNonce[settled'] >= BlockNonce[settled]]_settled
  <2> SUFFICES ASSUME RollBackInv, RollBackInv', [SyncNext]_syncVars
               PROVE  BlockNonce[settled'] >= BlockNonce[settled]
    OBVIOUS
  <2>1. BlockNonce[settled] \in Nat /\ BlockNonce[settled'] \in Nat
    BY ForkAssumption DEF RollBackInv, PointersOK
  <2>2. QED
    BY <2>1, StepAdvances DEF SettledAdvances
<1>2. QED
  BY <1>1, SyncInvariants, PTL DEF SyncSpec, SettledGrows

-----------------------------------------------------------------------------
(* Branch: the recursive function exists, and a branch has one block per     *)
(* nonce down to the anchor.                                                 *)

(* Induction on naturals, for a set of them. *)
LEMMA NatSetInduction ==
  ASSUME NEW T, 0 \in T, \A n \in Nat : n \in T => n + 1 \in T
  PROVE  \A n \in Nat : n \in T
<1> DEFINE R == {ss \in Nat \X Nat : ss[1] < ss[2]}
           U == {n \in Nat : n \notin T}
<1>1. IsWellFoundedOn(R, Nat)
  BY NatLessThanWellFounded DEF OpToRel
<1>2. SUFFICES ASSUME U # {} PROVE FALSE
  OBVIOUS
<1>3. PICK x \in U : \A y \in U : <<y, x>> \notin R
  <2>1. U \subseteq Nat
    OBVIOUS
  <2> HIDE DEF R, U
  <2>2. QED
    BY <1>1, <1>2, <2>1, WFMin
<1>4. x # 0 /\ x - 1 \in Nat /\ x - 1 < x /\ (x - 1) + 1 = x
  OBVIOUS
<1>5. x - 1 \in T
  BY <1>3, <1>4
<1>6. QED
  BY <1>4, <1>5

Closed(S) == \A c \in S \ {Anchor} : ParentOf[c] \in S
Ancestors(b) == {a \in Block : \A S \in SUBSET Block : b \in S /\ Closed(S) => a \in S}

LEMMA AncestorsClosed ==
  ASSUME NEW b \in Block
  PROVE  Closed(Ancestors(b)) /\ b \in Ancestors(b) /\ Ancestors(b) \subseteq Block
<1>1. b \in Ancestors(b) /\ Ancestors(b) \subseteq Block
  BY DEF Ancestors
<1>2. ASSUME NEW c \in Ancestors(b), c # Anchor PROVE ParentOf[c] \in Ancestors(b)
  <2>1. ParentOf[c] \in Block
    BY <1>1, <1>2, ForkAssumption
  <2>2. ASSUME NEW S \in SUBSET Block, b \in S, Closed(S) PROVE ParentOf[c] \in S
    BY <1>2, <2>2 DEF Ancestors, Closed
  <2>3. QED
    BY <2>1, <2>2 DEF Ancestors
<1>3. QED
  BY <1>1, <1>2 DEF Closed

LEMMA AncestorsStep ==
  ASSUME NEW b \in Block
  PROVE  Ancestors(b) = IF b = Anchor THEN {b} ELSE {b} \cup Ancestors(ParentOf[b])
<1>1. CASE b = Anchor
  <2>1. {b} \in SUBSET Block /\ Closed({b})
    BY <1>1 DEF Closed
  <2>2. QED
    BY <1>1, <2>1, AncestorsClosed DEF Ancestors
<1>2. CASE b # Anchor
  <2>1. PICK p \in Block : p = ParentOf[b]
    BY <1>2, ForkAssumption
  <2>2. Closed(Ancestors(p)) /\ p \in Ancestors(p) /\ Ancestors(p) \subseteq Block
    BY AncestorsClosed
  <2>3. Ancestors(b) \subseteq {b} \cup Ancestors(p)
    <3>1. Closed({b} \cup Ancestors(p))
      BY <2>1, <2>2 DEF Closed
    <3>2. {b} \cup Ancestors(p) \in SUBSET Block
      BY <2>2
    <3>3. QED
      BY <3>1, <3>2 DEF Ancestors
  <2>4. ASSUME NEW a \in Ancestors(p) PROVE a \in Ancestors(b)
    <3>1. ASSUME NEW S \in SUBSET Block, b \in S, Closed(S) PROVE a \in S
      <4>1. p \in S
        BY <1>2, <2>1, <3>1 DEF Closed
      <4>2. QED
        BY <3>1, <4>1 DEF Ancestors
    <3>2. QED
      BY <2>2, <3>1 DEF Ancestors
  <2>5. b \in Ancestors(b)
    BY AncestorsClosed
  <2>6. QED
    BY <1>2, <2>1, <2>3, <2>4, <2>5
<1>3. QED
  BY <1>1, <1>2

LEMMA BranchStep ==
  \A b \in Block : Branch[b] = IF b = Anchor THEN {b} ELSE {b} \cup Branch[ParentOf[b]]
<1> DEFINE Rec(f) == f = [b \in Block |-> IF b = Anchor THEN {b} ELSE {b} \cup f[ParentOf[b]]]
           F == [b \in Block |-> Ancestors(b)]
<1>1. Rec(F)
  <2>1. ASSUME NEW b \in Block
        PROVE  F[b] = IF b = Anchor THEN {b} ELSE {b} \cup F[ParentOf[b]]
    <3>1. CASE b = Anchor
      BY <3>1, AncestorsStep
    <3>2. CASE b # Anchor
      <4>1. ParentOf[b] \in Block
        BY <3>2, ForkAssumption
      <4>2. QED
        BY <3>2, <4>1, AncestorsStep
    <3>3. QED
      BY <3>1, <3>2
  <2>2. QED
    BY <2>1
<1>2. Branch = CHOOSE f : Rec(f)
  BY DEF Branch
<1> HIDE DEF F
<1>3. Rec(Branch)
  <2> HIDE DEF Rec
  <2>1. QED
    BY <1>1, <1>2
<1>4. QED
  BY <1>3

(* A branch at and below b. *)
BranchFacts(b) ==
  /\ Branch[b] \subseteq Block /\ b \in Branch[b]
  /\ \A a \in Branch[b] :
       /\ BlockNonce[a] <= BlockNonce[b]
       /\ BlockNonce[a] = BlockNonce[b] => a = b
       /\ Branch[a] \subseteq Branch[b]
       /\ \A c \in Branch[b] : BlockNonce[a] <= BlockNonce[c] => a \in Branch[c]
       /\ \A n \in Nat : BlockNonce[a] <= n /\ n <= BlockNonce[b] => \E c \in Branch[b] : BlockNonce[c] = n

LEMMA BranchFactsStep ==
  ASSUME NEW b \in New, BranchFacts(ParentOf[b])
  PROVE  BranchFacts(b)
<1>1. PICK p \in Block : p = ParentOf[b]
  BY ForkAssumption DEF New
<1>2. b \in Block /\ BlockNonce[b] = BlockNonce[p] + 1 /\ BlockNonce[b] \in Nat /\ BlockNonce[p] \in Nat
  BY <1>1, ForkAssumption DEF New
<1>3. Branch[b] = {b} \cup Branch[p]
  BY <1>1, <1>2, BranchStep DEF New
<1>4. Branch[p] \subseteq Block /\ p \in Branch[p]
  BY <1>1 DEF BranchFacts
<1>5. \A a \in Branch[p] : BlockNonce[a] \in Nat /\ BlockNonce[a] <= BlockNonce[p]
  BY <1>1, <1>4, ForkAssumption DEF BranchFacts
<1>6. Branch[b] \subseteq Block /\ b \in Branch[b]
  BY <1>2, <1>3, <1>4
<1>7. ASSUME NEW a \in Branch[b]
      PROVE  /\ BlockNonce[a] <= BlockNonce[b]
             /\ BlockNonce[a] = BlockNonce[b] => a = b
             /\ Branch[a] \subseteq Branch[b]
  <2>1. CASE a = b
    BY <2>1, <1>2
  <2>2. CASE a \in Branch[p]
    BY <2>2, <1>1, <1>2, <1>3, <1>5 DEF BranchFacts
  <2>3. QED
    BY <1>3, <2>1, <2>2
<1>8. ASSUME NEW a \in Branch[b], NEW c \in Branch[b], BlockNonce[a] <= BlockNonce[c]
      PROVE  a \in Branch[c]
  <2>1. CASE c = b
    BY <2>1
  <2>2. CASE c \in Branch[p]
    <3>1. a # b
      BY <1>2, <1>5, <1>8, <2>2
    <3>2. QED
      BY <1>1, <1>3, <1>8, <2>2, <3>1 DEF BranchFacts
  <2>3. QED
    BY <1>3, <2>1, <2>2
<1>9. ASSUME NEW a \in Branch[b], NEW n \in Nat, BlockNonce[a] <= n, n <= BlockNonce[b]
      PROVE  \E c \in Branch[b] : BlockNonce[c] = n
  <2>1. CASE n = BlockNonce[b]
    BY <1>6, <2>1
  <2>2. CASE n # BlockNonce[b]
    <3>1. n <= BlockNonce[p]
      BY <1>2, <1>9, <2>2
    <3>2. a # b
      BY <1>2, <1>9, <3>1
    <3>3. \E c \in Branch[p] : BlockNonce[c] = n
      BY <1>1, <1>3, <1>9, <3>1, <3>2 DEF BranchFacts
    <3>4. QED
      BY <1>3, <3>3
  <2>3. QED
    BY <2>1, <2>2
<1>10. QED
  BY <1>6, <1>7, <1>8, <1>9 DEF BranchFacts

LEMMA Branches == \A b \in Block : BranchFacts(b)
<1> DEFINE T == {n \in Nat : \A b \in Block : BlockNonce[b] <= n => BranchFacts(b)}
<1>1. BranchFacts(Anchor)
  <2>1. Anchor \in Block /\ Branch[Anchor] = {Anchor} /\ BlockNonce[Anchor] \in Nat
    BY ForkAssumption, BranchStep
  <2>2. QED
    BY <2>1 DEF BranchFacts
<1>2. 0 \in T
  <2>1. ASSUME NEW b \in Block, BlockNonce[b] <= 0 PROVE b = Anchor
    <3>1. SUFFICES ASSUME b # Anchor PROVE FALSE
      OBVIOUS
    <3>2. ParentOf[b] \in Block /\ BlockNonce[b] = BlockNonce[ParentOf[b]] + 1
      BY <3>1, ForkAssumption
    <3>3. BlockNonce[ParentOf[b]] \in Nat
      BY <3>2, ForkAssumption
    <3>4. QED
      BY <2>1, <3>2, <3>3
  <2>2. QED
    BY <1>1, <2>1
<1>3. ASSUME NEW n \in Nat, n \in T PROVE n + 1 \in T
  <2>1. ASSUME NEW b \in Block, BlockNonce[b] <= n + 1 PROVE BranchFacts(b)
    <3>1. CASE b = Anchor
      BY <3>1, <1>1
    <3>2. CASE b # Anchor
      <4>1. ParentOf[b] \in Block /\ BlockNonce[b] = BlockNonce[ParentOf[b]] + 1
        BY <3>2, ForkAssumption
      <4>2. BlockNonce[ParentOf[b]] \in Nat
        BY <4>1, ForkAssumption
      <4>3. BlockNonce[ParentOf[b]] <= n
        BY <2>1, <4>1, <4>2
      <4>4. BranchFacts(ParentOf[b])
        BY <1>3, <4>1, <4>3
      <4>5. QED
        BY <3>2, <4>4, BranchFactsStep DEF New
    <3>3. QED
      BY <3>1, <3>2
  <2>2. QED
    BY <2>1
<1>4. \A n \in Nat : n \in T
  <2> HIDE DEF T
  <2>1. QED
    BY <1>2, <1>3, NatSetInduction
<1>5. ASSUME NEW b \in Block PROVE BranchFacts(b)
  <2>1. BlockNonce[b] \in Nat
    BY ForkAssumption
  <2>2. BlockNonce[b] \in T
    BY <1>4, <2>1
  <2>3. QED
    BY <2>1, <2>2
<1>6. QED
  BY <1>5

(* What the proofs below use of branches. *)
LEMMA Nonces == \A b \in Block : BlockNonce[b] \in Nat
BY ForkAssumption

LEMMA ChildBranch ==
  ASSUME NEW b \in New
  PROVE  /\ b \in Block /\ ParentOf[b] \in Block /\ Branch[b] = {b} \cup Branch[ParentOf[b]]
         /\ BlockNonce[b] = BlockNonce[ParentOf[b]] + 1
BY ForkAssumption, BranchStep DEF New

LEMMA OwnBranch ==
  ASSUME NEW b \in Block
  PROVE  Branch[b] \subseteq Block /\ b \in Branch[b]
BY Branches DEF BranchFacts

LEMMA BranchBelow ==
  ASSUME NEW b \in Block, NEW a \in Branch[b]
  PROVE  /\ a \in Block /\ BlockNonce[a] <= BlockNonce[b] /\ (BlockNonce[a] = BlockNonce[b] => a = b)
         /\ Branch[a] \subseteq Branch[b]
BY Branches DEF BranchFacts

LEMMA BranchLinear ==
  ASSUME NEW b \in Block, NEW a \in Branch[b], NEW c \in Branch[b]
  PROVE  /\ BlockNonce[a] <= BlockNonce[c] => a \in Branch[c]
         /\ BlockNonce[a] = BlockNonce[c] => a = c
<1>1. a \in Block /\ c \in Block /\ BlockNonce[a] \in Nat /\ BlockNonce[c] \in Nat
  BY BranchBelow, Nonces
<1>2. BlockNonce[a] <= BlockNonce[c] => a \in Branch[c]
  BY Branches DEF BranchFacts
<1>3. ASSUME BlockNonce[a] = BlockNonce[c] PROVE a = c
  BY <1>1, <1>2, <1>3, BranchBelow
<1>4. QED
  BY <1>2, <1>3

LEMMA BranchAt ==
  ASSUME NEW b \in Block, NEW a \in Branch[b], NEW n \in Nat, BlockNonce[a] <= n, n <= BlockNonce[b]
  PROVE  \E c \in Branch[b] : BlockNonce[c] = n
BY Branches DEF BranchFacts

(* No block is below the anchor. *)
LEMMA AboveOneIsNew ==
  ASSUME NEW a \in Block, NEW b \in Block, BlockNonce[a] > BlockNonce[b]
  PROVE  a \in New
<1>1. BlockNonce[b] >= BlockNonce[Anchor]
  <2> DEFINE T == {n \in Nat : \A x \in Block : BlockNonce[x] <= n => BlockNonce[x] >= BlockNonce[Anchor]}
  <2>1. ASSUME NEW n \in Nat, NEW x \in Block, BlockNonce[x] <= n + 1, x # Anchor,
               \A y \in Block : BlockNonce[y] <= n => BlockNonce[y] >= BlockNonce[Anchor]
        PROVE  BlockNonce[x] >= BlockNonce[Anchor]
    <3>1. ParentOf[x] \in Block /\ BlockNonce[x] = BlockNonce[ParentOf[x]] + 1
      BY <2>1, ForkAssumption
    <3>2. BlockNonce[ParentOf[x]] \in Nat /\ BlockNonce[Anchor] \in Nat
      BY <3>1, ForkAssumption
    <3>3. QED
      BY <2>1, <3>1, <3>2
  <2>2. 0 \in T
    <3>1. ASSUME NEW x \in Block, BlockNonce[x] <= 0 PROVE BlockNonce[x] >= BlockNonce[Anchor]
      <4>1. CASE x = Anchor
        BY <4>1, ForkAssumption
      <4>2. CASE x # Anchor
        <5>1. ParentOf[x] \in Block /\ BlockNonce[x] = BlockNonce[ParentOf[x]] + 1
          BY <4>2, ForkAssumption
        <5>2. BlockNonce[ParentOf[x]] \in Nat
          BY <5>1, ForkAssumption
        <5>3. QED
          BY <3>1, <5>1, <5>2
      <4>3. QED
        BY <4>1, <4>2
    <3>2. QED
      BY <3>1
  <2>3. ASSUME NEW n \in Nat, n \in T PROVE n + 1 \in T
    <3>1. ASSUME NEW x \in Block, BlockNonce[x] <= n + 1 PROVE BlockNonce[x] >= BlockNonce[Anchor]
      <4>1. CASE x = Anchor
        BY <4>1, ForkAssumption
      <4>2. CASE x # Anchor
        BY <2>1, <2>3, <3>1, <4>2
      <4>3. QED
        BY <4>1, <4>2
    <3>2. QED
      BY <3>1
  <2>4. \A n \in Nat : n \in T
    <3> HIDE DEF T
    <3>1. QED
      BY <2>2, <2>3, NatSetInduction
  <2>5. BlockNonce[b] \in Nat /\ BlockNonce[b] \in T
    BY <2>4, Nonces
  <2>6. QED
    BY <2>5
<1>2. BlockNonce[a] \in Nat /\ BlockNonce[b] \in Nat /\ BlockNonce[Anchor] \in Nat
  BY Nonces, ForkAssumption
<1>3. a # Anchor
  BY <1>1, <1>2
<1>4. QED
  BY <1>3 DEF New

-----------------------------------------------------------------------------
(* The records, the checkpoints and the chain.  hs are the records, f and s  *)
(* the final and the settled block, base the block that finality falls back  *)
(* to, tip the chain with the block being committed, pb the block being      *)
(* rolled back, pl the proofs and dec the blocks decided by the authority.   *)

Proc(hs, b) == \E i \in hs : i.hash = b /\ i.state = "Processed"
Nota(hs, b) == \E i \in hs : i.hash = b /\ i.state = "Notarized"
Above(a, b) == BlockNonce[a] > BlockNonce[b]
ContestedIn(pl, n) == \E p, q \in pl : p # q /\ BlockNonce[p] = n /\ BlockNonce[q] = n
DeadBy(dec, b) == \E c \in dec : BlockNonce[c] <= BlockNonce[b] /\ c \notin Branch[b]

(* The branch of b goes through s and is processed above it. *)
Grounded(hs, s, b) == s \in Branch[b] /\ \A a \in Branch[b] : Above(a, s) => Proc(hs, a)

(* Between the settled and the final block only the final branch is processed. *)
OneBranch(hs, f, s) == \A x \in Block : Proc(hs, x) /\ Above(x, s) /\ Above(f, x) => x \in Branch[f]

(* A processed block beside the final one is on the chain. *)
BesideOnChain(hs, f, s, tip) ==
  Above(f, s) => \A x \in Block : Proc(hs, x) /\ BlockNonce[x] = BlockNonce[f] /\ x # f => x \in Branch[tip]

(* Finality does not get past the block being rolled back. *)
RolledBackAbove(f, s, pb) == pb # NoBlock /\ Above(f, s) => Above(pb, f) \/ pb = f

(* A record left by a rolled back block that was final meanwhile. *)
Stray(hs, s, base, tip, pb, z) ==
  Proc(hs, z) /\ Above(z, base) /\ s \in Branch[z] /\ z \notin Branch[tip] /\ z # pb

(* Its branch is contested above base, and nothing of it can be settled from *)
(* there on but the block itself.                                            *)
BurntAt(hs, base, pl, dec, z, y) ==
  /\ y \in Branch[z] /\ Above(y, base) /\ ContestedIn(pl, BlockNonce[y])
  /\ \A x \in Branch[z] : BlockNonce[y] <= BlockNonce[x] /\ Above(z, x) => DeadBy(dec, x) /\ ~Nota(hs, x)
Burnt(hs, base, pl, dec, z) == \E y \in Block : BurntAt(hs, base, pl, dec, z, y)

StraysBurnt(hs, s, base, tip, pb, pl, dec) ==
  \A z \in Block : Stray(hs, s, base, tip, pb, z) => Burnt(hs, base, pl, dec, z)

Places(f, s, base, tip, pb) ==
  /\ f \in Block /\ s \in Block /\ base \in Block /\ tip \in Block /\ pb \in New \cup {NoBlock}
  /\ ~Above(s, base) /\ base \in Branch[f]
  /\ pb # NoBlock => tip = pb \/ tip = ParentOf[pb]

Core(hs, f, s, base, tip, pb, pl, dec) ==
  /\ Places(f, s, base, tip, pb)
  /\ Grounded(hs, s, f) /\ OneBranch(hs, f, s) /\ BesideOnChain(hs, f, s, tip)
  /\ RolledBackAbove(f, s, pb)
  /\ StraysBurnt(hs, s, base, tip, pb, pl, dec)

SameProcessed(hs, ks, s) ==
  \A x \in Block : (Proc(ks, x) => Proc(hs, x)) /\ (Proc(hs, x) /\ ~Above(s, x) => Proc(ks, x))
NoDeadNotarized(hs, ks, dec) == \A x \in Block : Nota(ks, x) => Nota(hs, x) \/ ~DeadBy(dec, x)

LEMMA BurntOn ==
  ASSUME NEW hs, NEW ks, NEW base, NEW pl, NEW dec, NoDeadNotarized(hs, ks, dec),
         NEW z \in Block, Burnt(hs, base, pl, dec, z)
  PROVE  Burnt(ks, base, pl, dec, z)
<1>1. PICK y \in Block : BurntAt(hs, base, pl, dec, z, y)
  BY DEF Burnt
<1>2. \A x \in Branch[z] : x \in Block
  BY OwnBranch
<1>3. BurntAt(ks, base, pl, dec, z, y)
  BY <1>1, <1>2 DEF BurntAt, NoDeadNotarized
<1>4. QED
  BY <1>3 DEF Burnt

(* Records change, but for the processed ones from the settled nonce on. *)
LEMMA CoreRecords ==
  ASSUME NEW hs, NEW f, NEW s, NEW base, NEW tip, NEW pb, NEW pl, NEW dec,
         Core(hs, f, s, base, tip, pb, pl, dec),
         NEW ks, SameProcessed(hs, ks, s), NoDeadNotarized(hs, ks, dec)
  PROVE  Core(ks, f, s, base, tip, pb, pl, dec)
<1>1. Places(f, s, base, tip, pb)
  BY DEF Core
<1>2. Grounded(ks, s, f)
  <2>1. Grounded(hs, s, f)
    BY DEF Core
  <2>2. ASSUME NEW a \in Branch[f], Above(a, s) PROVE Proc(ks, a)
    <3>1. a \in Block /\ s \in Block /\ BlockNonce[a] \in Nat /\ BlockNonce[s] \in Nat
      BY <1>1, OwnBranch, Nonces DEF Places
    <3>2. Proc(hs, a) /\ ~Above(s, a)
      BY <2>1, <2>2, <3>1 DEF Grounded, Above
    <3>3. QED
      BY <3>1, <3>2 DEF SameProcessed
  <2>3. QED
    BY <2>1, <2>2 DEF Grounded
<1>3. OneBranch(ks, f, s)
  BY DEF Core, OneBranch, SameProcessed
<1>4. BesideOnChain(ks, f, s, tip)
  BY DEF Core, BesideOnChain, SameProcessed
<1>5. StraysBurnt(ks, s, base, tip, pb, pl, dec)
  <2>1. ASSUME NEW z \in Block, Stray(ks, s, base, tip, pb, z) PROVE Burnt(ks, base, pl, dec, z)
    <3>1. Stray(hs, s, base, tip, pb, z)
      BY <2>1 DEF Stray, SameProcessed
    <3>2. Burnt(hs, base, pl, dec, z)
      BY <3>1 DEF Core, StraysBurnt
    <3>3. QED
      BY <3>2, BurntOn
  <2>2. QED
    BY <2>1 DEF StraysBurnt
<1>6. QED
  BY <1>1, <1>2, <1>3, <1>4, <1>5 DEF Core

(* More proofs and more decisions. *)
LEMMA CoreGrows ==
  ASSUME NEW hs, NEW f, NEW s, NEW base, NEW tip, NEW pb, NEW pl, NEW dec,
         Core(hs, f, s, base, tip, pb, pl, dec),
         NEW pn, pl \subseteq pn, NEW dn, dec \subseteq dn
  PROVE  Core(hs, f, s, base, tip, pb, pn, dn)
<1>1. ASSUME NEW z \in Block, Burnt(hs, base, pl, dec, z) PROVE Burnt(hs, base, pn, dn, z)
  <2>1. PICK y \in Block : BurntAt(hs, base, pl, dec, z, y)
    BY <1>1 DEF Burnt
  <2>2. BurntAt(hs, base, pn, dn, z, y)
    BY <2>1 DEF BurntAt, ContestedIn, DeadBy
  <2>3. QED
    BY <2>2 DEF Burnt
<1>2. QED
  BY <1>1 DEF Core, StraysBurnt

(* A commit: the chain grows by b, whose record may be new, but then it is *)
(* not below the final block.                                              *)
LEMMA CoreCommitted ==
  ASSUME NEW hs, NEW f, NEW s, NEW tip, NEW pl, NEW dec,
         Core(hs, f, s, f, tip, NoBlock, pl, dec),
         NEW b \in New, ParentOf[b] = tip,
         NEW ks, \A x \in Block : x # b => (Proc(ks, x) <=> Proc(hs, x)),
         Proc(hs, b) => Proc(ks, b),
         Proc(ks, b) => Proc(hs, b) \/ BlockNonce[b] >= BlockNonce[f],
         NoDeadNotarized(hs, ks, dec)
  PROVE  Core(ks, f, s, f, b, NoBlock, pl, dec)
<1>1. /\ b \in Block /\ tip \in Block /\ Branch[b] = {b} \cup Branch[tip]
      /\ BlockNonce[b] = BlockNonce[tip] + 1
  BY ChildBranch
<1>2. f \in Block /\ s \in Block /\ BlockNonce[f] \in Nat /\ BlockNonce[s] \in Nat /\ BlockNonce[b] \in Nat
  BY <1>1, Nonces DEF Core, Places
<1>3. Places(f, s, f, b, NoBlock)
  BY <1>1 DEF Core, Places
<1>4. Grounded(ks, s, f)
  <2>1. ASSUME NEW a \in Branch[f], Above(a, s) PROVE Proc(ks, a)
    <3>1. a \in Block /\ Proc(hs, a)
      BY <1>2, <2>1, OwnBranch DEF Core, Grounded
    <3>2. QED
      BY <3>1
  <2>2. QED
    BY <2>1 DEF Core, Grounded
<1>5. OneBranch(ks, f, s)
  <2>1. ASSUME NEW x \in Block, Proc(ks, x), Above(x, s), Above(f, x) PROVE x \in Branch[f]
    <3>1. Proc(hs, x)
      BY <1>2, <2>1 DEF Above
    <3>2. QED
      BY <2>1, <3>1 DEF Core, OneBranch
  <2>2. QED
    BY <2>1 DEF OneBranch
<1>6. BesideOnChain(ks, f, s, b)
  <2>1. ASSUME Above(f, s), NEW x \in Block, Proc(ks, x), BlockNonce[x] = BlockNonce[f], x # f
        PROVE  x \in Branch[b]
    <3>1. CASE x = b
      BY <1>1, <3>1
    <3>2. CASE x # b
      <4>1. Proc(hs, x)
        BY <2>1, <3>2
      <4>2. QED
        BY <1>1, <2>1, <4>1 DEF Core, BesideOnChain
    <3>3. QED
      BY <3>1, <3>2
  <2>2. QED
    BY <2>1 DEF BesideOnChain
<1>7. StraysBurnt(ks, s, f, b, NoBlock, pl, dec)
  <2>1. ASSUME NEW z \in Block, Stray(ks, s, f, b, NoBlock, z) PROVE Burnt(ks, f, pl, dec, z)
    <3>1. z # b /\ z \notin Branch[tip]
      BY <1>1, <2>1 DEF Stray
    <3>2. Stray(hs, s, f, tip, NoBlock, z)
      BY <2>1, <3>1 DEF Stray
    <3>3. Burnt(hs, f, pl, dec, z)
      BY <3>2 DEF Core, StraysBurnt
    <3>4. QED
      BY <3>3, BurntOn
  <2>2. QED
    BY <2>1 DEF StraysBurnt
<1>8. QED
  BY <1>3, <1>4, <1>5, <1>6, <1>7 DEF Core, RolledBackAbove

LEMMA ParentOnBranch ==
  ASSUME NEW b \in Block, NEW a \in Branch[b], a \in New
  PROVE  ParentOf[a] \in Branch[b] /\ ParentOf[a] \in Block
<1>1. Branch[a] \subseteq Branch[b]
  BY BranchBelow
<1>2. ParentOf[a] \in Branch[a] /\ ParentOf[a] \in Block
  BY ChildBranch, OwnBranch
<1>3. QED
  BY <1>1, <1>2

(* A grounded branch and the ancestry that a settlement walks along agree    *)
(* from the settled block on, since both have the one processed child.       *)
LEMMA WalkAgrees ==
  ASSUME NEW hs, NEW s \in Block, NEW x \in Block, Grounded(hs, s, x),
         NEW c \in Block, ProcessedAncestry(hs, s, c)
  PROVE  \A a \in Branch[x], b \in Branch[c] :
           BlockNonce[a] = BlockNonce[b] /\ BlockNonce[a] >= BlockNonce[s] => a = b
<1> DEFINE T == {k \in Nat : \A a \in Branch[x], b \in Branch[c] :
                   BlockNonce[a] = BlockNonce[s] + k /\ BlockNonce[b] = BlockNonce[s] + k => a = b}
<1>1. s \in Branch[x] /\ s \in Branch[c]
  BY DEF Grounded, ProcessedAncestry
<1>2. \A a \in Branch[x] \cup Branch[c] : a \in Block /\ BlockNonce[a] \in Nat
  BY OwnBranch, Nonces
<1>3. BlockNonce[s] \in Nat
  BY Nonces
<1>4. 0 \in T
  <2>1. ASSUME NEW a \in Branch[x], NEW b \in Branch[c], BlockNonce[a] = BlockNonce[s], BlockNonce[b] = BlockNonce[s]
        PROVE  a = b
    <3>1. a = s
      BY <1>1, <2>1, BranchLinear
    <3>2. b = s
      BY <1>1, <2>1, BranchLinear
    <3>3. QED
      BY <3>1, <3>2
  <2>2. QED
    BY <1>3, <2>1
<1>5. ASSUME NEW k \in Nat, k \in T PROVE k + 1 \in T
  <2>1. ASSUME NEW a \in Branch[x], NEW b \in Branch[c],
               BlockNonce[a] = BlockNonce[s] + (k + 1), BlockNonce[b] = BlockNonce[s] + (k + 1)
        PROVE  a = b
    <3>1. a \in Block /\ b \in Block /\ BlockNonce[a] > BlockNonce[s] /\ BlockNonce[b] > BlockNonce[s]
      BY <1>2, <1>3, <2>1
    <3>2. a \in New /\ b \in New
      BY <3>1, AboveOneIsNew
    <3>3. ParentOf[a] \in Branch[x] /\ ParentOf[b] \in Branch[c]
      BY <3>2, ParentOnBranch
    <3>4. BlockNonce[a] = BlockNonce[ParentOf[a]] + 1 /\ BlockNonce[b] = BlockNonce[ParentOf[b]] + 1
      BY <3>2, ChildBranch
    <3>5. BlockNonce[ParentOf[a]] = BlockNonce[s] + k /\ BlockNonce[ParentOf[b]] = BlockNonce[s] + k
      BY <1>2, <1>3, <2>1, <3>3, <3>4
    <3>6. ParentOf[a] = ParentOf[b]
      BY <1>5, <3>3, <3>5
    <3>7. Proc(hs, a)
      BY <3>1 DEF Grounded, Above
    <3>8. a \in Processed(hs, BlockNonce[b])
      BY <2>1, <3>7 DEF Proc, Processed, HashesIn, RecordsAt
    <3>9. {h \in Processed(hs, BlockNonce[b]) : ParentOf[h] = ParentOf[b]} = {b}
      BY <3>1 DEF ProcessedAncestry
    <3>10. QED
      BY <3>6, <3>8, <3>9
  <2>2. QED
    BY <2>1
<1>6. \A k \in Nat : k \in T
  <2> HIDE DEF T
  <2>1. QED
    BY <1>4, <1>5, NatSetInduction
<1>7. ASSUME NEW a \in Branch[x], NEW b \in Branch[c], BlockNonce[a] = BlockNonce[b], BlockNonce[a] >= BlockNonce[s]
      PROVE  a = b
  <2>1. PICK k \in Nat : BlockNonce[a] = BlockNonce[s] + k
    <3>1. BlockNonce[a] - BlockNonce[s] \in Nat /\ BlockNonce[a] = BlockNonce[s] + (BlockNonce[a] - BlockNonce[s])
      BY <1>2, <1>3, <1>7
    <3>2. QED
      BY <3>1
  <2>2. k \in T
    BY <1>6
  <2>3. QED
    BY <1>7, <2>1, <2>2
<1>8. QED
  BY <1>7

LEMMA WalkOnBranch ==
  ASSUME NEW hs, NEW s \in Block, NEW x \in Block, Grounded(hs, s, x),
         NEW c \in Block, ProcessedAncestry(hs, s, c)
  PROVE  /\ BlockNonce[c] <= BlockNonce[x] => c \in Branch[x]
         /\ BlockNonce[x] <= BlockNonce[c] => x \in Branch[c]
<1>1. s \in Branch[x] /\ s \in Branch[c] /\ x \in Branch[x] /\ c \in Branch[c]
  BY OwnBranch DEF Grounded, ProcessedAncestry
<1>2. BlockNonce[s] <= BlockNonce[x] /\ BlockNonce[s] <= BlockNonce[c]
  BY <1>1, BranchBelow
<1>3. BlockNonce[s] \in Nat /\ BlockNonce[x] \in Nat /\ BlockNonce[c] \in Nat
  BY Nonces
<1>4. ASSUME BlockNonce[c] <= BlockNonce[x] PROVE c \in Branch[x]
  <2>1. PICK a \in Branch[x] : BlockNonce[a] = BlockNonce[c]
    BY <1>1, <1>2, <1>3, <1>4, BranchAt
  <2>2. a = c
    BY <1>1, <1>2, <1>3, <2>1, WalkAgrees
  <2>3. QED
    BY <2>1, <2>2
<1>5. ASSUME BlockNonce[x] <= BlockNonce[c] PROVE x \in Branch[c]
  <2>1. PICK b \in Branch[c] : BlockNonce[b] = BlockNonce[x]
    BY <1>1, <1>2, <1>3, <1>5, BranchAt
  <2>2. b = x
    BY <1>1, <1>2, <1>3, <2>1, WalkAgrees
  <2>3. QED
    BY <2>1, <2>2
<1>6. QED
  BY <1>4, <1>5

(* Settlement of c, which is notarised and above the settled block. *)
LEMMA CoreSettled ==
  ASSUME NEW hs, NEW f, NEW s, NEW tip, NEW pb, NEW pl, NEW dec,
         Core(hs, f, s, f, tip, pb, pl, dec),
         NEW c \in Block, Nota(hs, c), Above(c, s), ProcessedAncestry(hs, s, c),
         NEW g, g = advanceCheckpoint(f, c)
  PROVE  Core(hs, g, c, g, tip, pb, pl, dec) /\ f \in Branch[g] /\ (g = f \/ g = c)
<1>1. Places(f, s, f, tip, pb) /\ Grounded(hs, s, f)
  BY DEF Core
<1>2. f \in Block /\ s \in Block /\ tip \in Block
  BY <1>1 DEF Places
<1>3. BlockNonce[f] \in Nat /\ BlockNonce[s] \in Nat /\ BlockNonce[c] \in Nat /\ BlockNonce[c] > BlockNonce[s]
  BY <1>2, Nonces DEF Above
<1>4. ASSUME NEW z \in Block, Stray(hs, c, g, tip, pb, z), BlockNonce[g] >= BlockNonce[f],
             BlockNonce[g] > BlockNonce[f] => g = c, g \in Block
      PROVE  Burnt(hs, g, pl, dec, z)
  <2>1. c \in Branch[z] /\ Above(z, g) /\ BlockNonce[g] \in Nat /\ BlockNonce[z] \in Nat
    BY <1>4, Nonces DEF Stray
  <2>2. s \in Branch[c]
    BY DEF ProcessedAncestry
  <2>3. s \in Branch[z]
    BY <2>1, <2>2, BranchBelow
  <2>4. Stray(hs, s, f, tip, pb, z)
    BY <1>3, <1>4, <2>1, <2>3 DEF Stray, Above
  <2>5. PICK y \in Block : BurntAt(hs, f, pl, dec, z, y)
    BY <2>4 DEF Core, StraysBurnt, Burnt
  <2>6. Above(y, g)
    <3>1. BlockNonce[y] \in Nat /\ Above(y, f)
      BY <2>5, Nonces DEF BurntAt
    <3>2. CASE BlockNonce[g] = BlockNonce[f]
      BY <3>1, <3>2 DEF Above
    <3>3. CASE g = c
      <4>1. SUFFICES ASSUME BlockNonce[y] <= BlockNonce[c] PROVE FALSE
        BY <1>3, <3>1, <3>3 DEF Above
      <4>2. Above(z, c)
        BY <2>1, <3>3
      <4>3. QED
        BY <2>1, <2>5, <4>1, <4>2 DEF BurntAt
    <3>4. QED
      BY <1>3, <1>4, <2>1, <3>2, <3>3
  <2>7. BurntAt(hs, g, pl, dec, z, y)
    BY <2>5, <2>6 DEF BurntAt
  <2>8. QED
    BY <2>7 DEF Burnt
<1>5. CASE BlockNonce[c] > BlockNonce[f]
  <2>1. g = c
    BY <1>5 DEF advanceCheckpoint
  <2>2. f \in Branch[c]
    BY <1>1, <1>2, <1>3, <1>5, WalkOnBranch
  <2>3. ~Above(c, c) /\ \A a \in Branch[c] : ~Above(a, c)
    <3>1. \A a \in Branch[c] : BlockNonce[a] <= BlockNonce[c] /\ BlockNonce[a] \in Nat
      BY BranchBelow, Nonces
    <3>2. QED
      BY <1>3, <3>1 DEF Above
  <2>4. Places(c, c, c, tip, pb) /\ Grounded(hs, c, c)
    BY <1>1, <2>3, OwnBranch DEF Places, Grounded
  <2>5. OneBranch(hs, c, c) /\ BesideOnChain(hs, c, c, tip) /\ RolledBackAbove(c, c, pb)
    BY <1>3, <2>3, Nonces DEF OneBranch, BesideOnChain, RolledBackAbove, Above
  <2>6. StraysBurnt(hs, c, c, tip, pb, pl, dec)
    BY <1>3, <1>4, <1>5, <2>1 DEF StraysBurnt
  <2>7. QED
    BY <2>1, <2>2, <2>4, <2>5, <2>6 DEF Core
<1>6. CASE BlockNonce[c] <= BlockNonce[f]
  <2>1. g = f
    BY <1>3, <1>6 DEF advanceCheckpoint
  <2>2. c \in Branch[f]
    BY <1>1, <1>2, <1>3, <1>6, WalkOnBranch
  <2>3. \A a \in Block : BlockNonce[a] \in Nat
    BY Nonces
  <2>4. Branch[f] \subseteq Block
    BY <1>2, OwnBranch
  <2>5. \A a \in Block : Above(a, c) => Above(a, s)
    BY <1>3, <2>3 DEF Above
  <2>6. Places(f, c, f, tip, pb)
    BY <1>1, <1>3, <1>6 DEF Places, Above
  <2>7. Grounded(hs, c, f)
    BY <1>1, <2>2, <2>4, <2>5 DEF Grounded
  <2>8. OneBranch(hs, f, c)
    BY <2>5 DEF Core, OneBranch
  <2>9. BesideOnChain(hs, f, c, tip)
    BY <1>2, <2>5 DEF Core, BesideOnChain
  <2>10. RolledBackAbove(f, c, pb)
    BY <1>2, <2>5 DEF Core, RolledBackAbove
  <2>11. StraysBurnt(hs, c, f, tip, pb, pl, dec)
    BY <1>2, <1>3, <1>4, <2>1 DEF StraysBurnt
  <2>12. f \in Branch[f]
    BY <1>2, OwnBranch
  <2>13. QED
    BY <2>1, <2>6, <2>7, <2>8, <2>9, <2>10, <2>11, <2>12 DEF Core
<1>7. QED
  BY <1>3, <1>5, <1>6

(* Finality goes up to c, a processed child of the final block on the chain, *)
(* which has no processed block beside it.                                   *)
LEMMA CoreRaised ==
  ASSUME NEW hs, NEW f, NEW s, NEW tip, NEW pb, NEW pl, NEW dec,
         Core(hs, f, s, f, tip, pb, pl, dec),
         NEW c \in New, ParentOf[c] = f, Proc(hs, c), c \in Branch[tip] \/ c = pb,
         \A x \in Block : Proc(hs, x) /\ BlockNonce[x] = BlockNonce[c] => x = c
  PROVE  Core(hs, c, s, f, tip, pb, pl, dec)
<1>1. Places(f, s, f, tip, pb) /\ Grounded(hs, s, f) /\ OneBranch(hs, f, s)
  BY DEF Core
<1>2. /\ f \in Block /\ s \in Block /\ c \in Block /\ tip \in Block
      /\ Branch[c] = {c} \cup Branch[f] /\ BlockNonce[c] = BlockNonce[f] + 1
  BY <1>1, ChildBranch DEF Places
<1>3. BlockNonce[f] \in Nat /\ BlockNonce[s] \in Nat /\ BlockNonce[c] \in Nat /\ BlockNonce[tip] \in Nat
  BY <1>2, Nonces
<1>4. f \in Branch[f] /\ c \in Branch[c] /\ Branch[f] \subseteq Block
  BY <1>2, OwnBranch
<1>5. Places(c, s, f, tip, pb)
  BY <1>1, <1>2, <1>4 DEF Places
<1>6. Grounded(hs, s, c)
  BY <1>1, <1>2 DEF Grounded
<1>7. OneBranch(hs, c, s)
  <2>1. ASSUME NEW x \in Block, Proc(hs, x), Above(x, s), Above(c, x) PROVE x \in Branch[c]
    <3>1. BlockNonce[x] \in Nat /\ BlockNonce[x] <= BlockNonce[f]
      BY <1>2, <1>3, <2>1, Nonces DEF Above
    <3>2. CASE BlockNonce[x] < BlockNonce[f]
      BY <1>1, <1>2, <2>1, <3>2 DEF OneBranch, Above
    <3>3. CASE BlockNonce[x] = BlockNonce[f]
      <4>1. SUFFICES ASSUME x # f PROVE FALSE
        BY <1>2, <1>4
      <4>2. Above(f, s)
        BY <2>1, <3>3 DEF Above
      <4>3. x \in Branch[tip]
        BY <2>1, <3>3, <4>1, <4>2 DEF Core, BesideOnChain
      <4>4. f \in Branch[tip]
        <5>1. CASE c \in Branch[tip]
          BY <1>2, <1>4, <5>1, BranchBelow
        <5>2. CASE c = pb
          <6>1. pb # NoBlock
            BY <1>2, <5>2, ForkAssumption DEF NoBlock
          <6>2. tip = c \/ tip = f
            BY <1>1, <5>2, <6>1 DEF Places
          <6>3. QED
            BY <1>2, <1>4, <6>2
        <5>3. QED
          BY <5>1, <5>2
      <4>5. QED
        BY <1>2, <3>3, <4>1, <4>3, <4>4, BranchLinear
    <3>4. QED
      BY <1>3, <3>1, <3>2, <3>3
  <2>2. QED
    BY <2>1 DEF OneBranch
<1>8. BesideOnChain(hs, c, s, tip)
  BY DEF BesideOnChain
<1>9. RolledBackAbove(c, s, pb)
  <2>1. ASSUME pb # NoBlock, pb # c PROVE Above(pb, c)
    <3>1. c \in Branch[tip] /\ pb \in New
      BY <1>1, <2>1 DEF Places
    <3>2. BlockNonce[c] <= BlockNonce[tip] /\ (BlockNonce[c] = BlockNonce[tip] => c = tip)
      BY <1>2, <3>1, BranchBelow
    <3>3. pb \in Block /\ ParentOf[pb] \in Block /\ BlockNonce[pb] = BlockNonce[ParentOf[pb]] + 1
      BY <3>1, ChildBranch
    <3>4. BlockNonce[pb] \in Nat
      BY <3>3, Nonces
    <3>5. tip = pb \/ tip = ParentOf[pb]
      BY <1>1, <2>1 DEF Places
    <3>6. QED
      BY <1>3, <2>1, <3>2, <3>3, <3>4, <3>5 DEF Above
  <2>2. QED
    BY <2>1 DEF RolledBackAbove
<1>10. QED
  BY <1>5, <1>6, <1>7, <1>8, <1>9 DEF Core

(* Finality is taken back to the parent it was raised from. *)
LEMMA CoreTakenBack ==
  ASSUME NEW hs, NEW f, NEW s, NEW base, NEW tip, NEW pb, NEW pl, NEW dec,
         Core(hs, f, s, base, tip, pb, pl, dec), f \in New, ParentOf[f] = base
  PROVE  Core(hs, base, s, base, tip, pb, pl, dec)
<1>1. Places(f, s, base, tip, pb) /\ Grounded(hs, s, f) /\ OneBranch(hs, f, s)
  BY DEF Core
<1>2. /\ f \in Block /\ s \in Block /\ base \in Block
      /\ Branch[f] = {f} \cup Branch[base] /\ BlockNonce[f] = BlockNonce[base] + 1
  BY <1>1, ChildBranch DEF Places
<1>3. BlockNonce[f] \in Nat /\ BlockNonce[s] \in Nat /\ BlockNonce[base] \in Nat
  BY <1>2, Nonces
<1>4. base \in Branch[base] /\ ~Above(s, base)
  BY <1>1, <1>2, OwnBranch DEF Places
<1>5. s # f
  BY <1>2, <1>3, <1>4 DEF Above
<1>6. Places(base, s, base, tip, pb) /\ Grounded(hs, s, base)
  BY <1>1, <1>2, <1>4, <1>5 DEF Places, Grounded
<1>7. ASSUME NEW x \in Block, Proc(hs, x), Above(x, s), BlockNonce[x] <= BlockNonce[base]
      PROVE  x \in Branch[base]
  <2>1. BlockNonce[x] \in Nat
    BY Nonces
  <2>2. Above(f, x) /\ x # f
    BY <1>2, <1>3, <1>7, <2>1 DEF Above
  <2>3. QED
    BY <1>1, <1>2, <1>7, <2>2 DEF OneBranch
<1>8. OneBranch(hs, base, s)
  BY <1>3, <1>7, Nonces DEF OneBranch, Above
<1>9. BesideOnChain(hs, base, s, tip)
  <2>1. ASSUME Above(base, s), NEW x \in Block, Proc(hs, x), BlockNonce[x] = BlockNonce[base] PROVE x = base
    <3>1. x \in Branch[base]
      BY <1>3, <1>7, <2>1 DEF Above
    <3>2. QED
      BY <1>2, <2>1, <3>1, BranchBelow
  <2>2. QED
    BY <2>1 DEF BesideOnChain
<1>10. RolledBackAbove(base, s, pb)
  <2>1. ASSUME pb # NoBlock, Above(base, s) PROVE Above(pb, base)
    <3>1. Above(f, s)
      BY <1>2, <1>3, <2>1 DEF Above
    <3>2. Above(pb, f) \/ pb = f
      BY <2>1, <3>1 DEF Core, RolledBackAbove
    <3>3. pb \in Block /\ BlockNonce[pb] \in Nat
      BY <1>1, <2>1, Nonces DEF Places, New
    <3>4. QED
      BY <1>2, <1>3, <3>2, <3>3 DEF Above
  <2>2. QED
    BY <2>1 DEF RolledBackAbove
<1>11. QED
  BY <1>6, <1>8, <1>9, <1>10 DEF Core

(* Finality that no other proof competes with stays. *)
LEMMA CoreConfirmed ==
  ASSUME NEW hs, NEW f, NEW s, NEW base, NEW tip, NEW pb, NEW pl, NEW dec,
         Core(hs, f, s, base, tip, pb, pl, dec), f \in New, ParentOf[f] = base,
         ~ContestedIn(pl, BlockNonce[f])
  PROVE  Core(hs, f, s, f, tip, pb, pl, dec)
<1>1. Places(f, s, base, tip, pb)
  BY DEF Core
<1>2. f \in Block /\ s \in Block /\ base \in Block /\ BlockNonce[f] = BlockNonce[base] + 1
  BY <1>1, ChildBranch DEF Places
<1>3. BlockNonce[f] \in Nat /\ BlockNonce[s] \in Nat /\ BlockNonce[base] \in Nat
  BY <1>2, Nonces
<1>4. Places(f, s, f, tip, pb)
  BY <1>1, <1>2, <1>3, OwnBranch DEF Places, Above
<1>5. ASSUME NEW z \in Block, Stray(hs, s, f, tip, pb, z) PROVE Burnt(hs, f, pl, dec, z)
  <2>1. BlockNonce[z] \in Nat
    BY Nonces
  <2>2. Stray(hs, s, base, tip, pb, z)
    BY <1>2, <1>3, <1>5, <2>1 DEF Stray, Above
  <2>3. PICK y \in Block : BurntAt(hs, base, pl, dec, z, y)
    BY <2>2 DEF Core, StraysBurnt, Burnt
  <2>4. BlockNonce[y] \in Nat /\ BlockNonce[y] # BlockNonce[f] /\ Above(y, base)
    BY <2>3, Nonces DEF BurntAt
  <2>5. Above(y, f)
    BY <1>2, <1>3, <2>4 DEF Above
  <2>6. BurntAt(hs, f, pl, dec, z, y)
    BY <2>3, <2>5 DEF BurntAt
  <2>7. QED
    BY <2>6 DEF Burnt
<1>6. StraysBurnt(hs, s, f, tip, pb, pl, dec)
  BY <1>5 DEF StraysBurnt
<1>7. QED
  BY <1>4, <1>6 DEF Core

(* A rollback begins, restores the parent as the head, is given up, ends. *)
LEMMA CoreBegun ==
  ASSUME NEW hs, NEW f, NEW s, NEW base, NEW tip, NEW pl, NEW dec,
         Core(hs, f, s, base, tip, NoBlock, pl, dec), tip \in New, Above(tip, f)
  PROVE  Core(hs, f, s, base, tip, tip, pl, dec)
<1>1. Places(f, s, base, tip, tip) /\ RolledBackAbove(f, s, tip)
  BY DEF Core, Places, RolledBackAbove
<1>2. tip \in Branch[tip]
  BY <1>1, OwnBranch DEF Places
<1>3. ASSUME NEW z \in Block, Stray(hs, s, base, tip, tip, z) PROVE Stray(hs, s, base, tip, NoBlock, z)
  BY <1>3, ForkAssumption DEF Stray, NoBlock
<1>4. StraysBurnt(hs, s, base, tip, tip, pl, dec)
  BY <1>3 DEF Core, StraysBurnt
<1>5. QED
  BY <1>1, <1>4 DEF Core

LEMMA CoreRestored ==
  ASSUME NEW hs, NEW f, NEW s, NEW base, NEW pb \in New, NEW pl, NEW dec,
         Core(hs, f, s, base, pb, pb, pl, dec)
  PROVE  Core(hs, f, s, base, ParentOf[pb], pb, pl, dec)
<1>1. PICK tip \in Block : tip = ParentOf[pb]
  BY ChildBranch
<1>2. Branch[pb] = {pb} \cup Branch[tip] /\ pb \in Block
  BY <1>1, ChildBranch
<1>3. pb # NoBlock
  BY <1>2, ForkAssumption DEF NoBlock
<1>4. Places(f, s, base, tip, pb)
  BY <1>1 DEF Core, Places
<1>5. BesideOnChain(hs, f, s, tip)
  <2>1. ASSUME Above(f, s), NEW x \in Block, Proc(hs, x), BlockNonce[x] = BlockNonce[f], x # f
        PROVE  x \in Branch[tip]
    <3>1. x \in Branch[pb]
      BY <2>1 DEF Core, BesideOnChain
    <3>2. Above(pb, f) \/ pb = f
      BY <1>3, <2>1 DEF Core, RolledBackAbove
    <3>3. BlockNonce[f] \in Nat
      BY <1>4, Nonces DEF Places
    <3>4. x # pb
      BY <2>1, <3>2, <3>3 DEF Above
    <3>5. QED
      BY <1>2, <3>1, <3>4
  <2>2. QED
    BY <2>1 DEF BesideOnChain
<1>6. StraysBurnt(hs, s, base, tip, pb, pl, dec)
  <2>1. ASSUME NEW z \in Block, Stray(hs, s, base, tip, pb, z) PROVE Stray(hs, s, base, pb, pb, z)
    BY <1>2, <2>1 DEF Stray
  <2>2. QED
    BY <2>1 DEF Core, StraysBurnt
<1>7. Core(hs, f, s, base, tip, pb, pl, dec)
  BY <1>4, <1>5, <1>6 DEF Core
<1>8. QED
  BY <1>1, <1>7

LEMMA CoreDropped ==
  ASSUME NEW hs, NEW f, NEW s, NEW base, NEW tip, NEW pl, NEW dec,
         Core(hs, f, s, base, tip, tip, pl, dec)
  PROVE  Core(hs, f, s, base, tip, NoBlock, pl, dec)
<1>1. Places(f, s, base, tip, NoBlock) /\ RolledBackAbove(f, s, NoBlock)
  BY DEF Core, Places, RolledBackAbove
<1>2. tip \in Branch[tip]
  BY <1>1, OwnBranch DEF Places
<1>3. ASSUME NEW z \in Block, Stray(hs, s, base, tip, NoBlock, z) PROVE Stray(hs, s, base, tip, tip, z)
  BY <1>2, <1>3 DEF Stray
<1>4. StraysBurnt(hs, s, base, tip, NoBlock, pl, dec)
  BY <1>3 DEF Core, StraysBurnt
<1>5. QED
  BY <1>1, <1>4 DEF Core

(* The record of the block rolled back goes, unless finality has reached it. *)
LEMMA CoreFinished ==
  ASSUME NEW hs, NEW f, NEW s, NEW tip, NEW pb \in New, NEW pl, NEW dec,
         Core(hs, f, s, f, tip, pb, pl, dec),
         NEW ks, \A x \in Block : x # pb => (Proc(ks, x) <=> Proc(hs, x)),
         IF Above(pb, f) THEN ~Proc(ks, pb) ELSE Proc(ks, pb) <=> Proc(hs, pb),
         NoDeadNotarized(hs, ks, dec)
  PROVE  Core(ks, f, s, f, tip, NoBlock, pl, dec)
<1>1. Places(f, s, f, tip, NoBlock) /\ RolledBackAbove(f, s, NoBlock)
  BY DEF Core, Places, RolledBackAbove
<1>2. f \in Block /\ s \in Block /\ BlockNonce[f] \in Nat /\ Branch[f] \subseteq Block
  BY <1>1, Nonces, OwnBranch DEF Places
<1>3. pb \in Block /\ BlockNonce[pb] \in Nat
  BY ForkAssumption DEF New
<1>4. \A x \in Block : Proc(ks, x) => Proc(hs, x)
  OBVIOUS
<1>5. \A x \in Block : Proc(hs, x) /\ ~Above(x, f) => Proc(ks, x)
  OBVIOUS
<1>6. \A x \in Branch[f] : ~Above(x, f)
  <2>1. \A x \in Branch[f] : BlockNonce[x] <= BlockNonce[f] /\ BlockNonce[x] \in Nat
    BY <1>2, BranchBelow, Nonces
  <2>2. QED
    BY <1>2, <2>1 DEF Above
<1>7. Grounded(ks, s, f)
  BY <1>2, <1>5, <1>6 DEF Core, Grounded
<1>8. OneBranch(ks, f, s) /\ BesideOnChain(ks, f, s, tip)
  BY <1>4 DEF Core, OneBranch, BesideOnChain
<1>9. StraysBurnt(ks, s, f, tip, NoBlock, pl, dec)
  <2>1. ASSUME NEW z \in Block, Stray(ks, s, f, tip, NoBlock, z) PROVE Burnt(ks, f, pl, dec, z)
    <3>1. Stray(hs, s, f, tip, pb, z)
      BY <1>4, <2>1 DEF Stray
    <3>2. Burnt(hs, f, pl, dec, z)
      BY <3>1 DEF Core, StraysBurnt
    <3>3. QED
      BY <3>2, BurntOn
  <2>2. QED
    BY <2>1 DEF StraysBurnt
<1>10. QED
  BY <1>1, <1>7, <1>8, <1>9 DEF Core

(* Finality is lowered to g, below nonce n, where a reconciliation leaves    *)
(* off: at the final block, if that is below n, or at the highest processed  *)
(* block below n.                                                            *)
LEMMA CoreLowered ==
  ASSUME NEW hs, NEW f, NEW s, NEW tip, NEW pl, NEW dec,
         Core(hs, f, s, f, tip, NoBlock, pl, dec),
         NEW n \in Nat, NEW ks,
         \A x \in Block : /\ Proc(ks, x) => Proc(hs, x)
                          /\ Proc(hs, x) /\ BlockNonce[x] < n => Proc(ks, x)
                          /\ Nota(ks, x) => Nota(hs, x),
         NEW g, g \in Branch[f], ~Above(s, g), BlockNonce[g] < n,
         g # f => /\ BlockNonce[f] >= n
                  /\ \A x \in Block : Proc(ks, x) /\ Above(x, s) /\ BlockNonce[x] < n => ~Above(x, g),
         \A z \in Block : /\ Proc(ks, z) /\ BlockNonce[z] >= n /\ BlockNonce[z] <= BlockNonce[f]
                          /\ s \in Branch[z] /\ z \notin Branch[tip]
                          => Burnt(ks, g, pl, dec, z)
  PROVE  Core(ks, g, s, g, tip, NoBlock, pl, dec)
<1>1. Places(f, s, f, tip, NoBlock) /\ Grounded(hs, s, f) /\ OneBranch(hs, f, s)
  BY DEF Core
<1>2. f \in Block /\ s \in Block /\ g \in Block
  BY <1>1, OwnBranch DEF Places
<1>3. BlockNonce[f] \in Nat /\ BlockNonce[s] \in Nat /\ BlockNonce[g] \in Nat
  BY <1>2, Nonces
<1>4. g \in Branch[g] /\ Branch[g] \subseteq Branch[f] /\ BlockNonce[g] <= BlockNonce[f]
  BY <1>2, OwnBranch, BranchBelow
<1>5. s \in Branch[f] /\ s \in Branch[g]
  <2>1. s \in Branch[f]
    BY <1>1 DEF Grounded
  <2>2. QED
    BY <1>2, <1>3, <2>1, BranchLinear DEF Above
<1>6. Places(g, s, g, tip, NoBlock) /\ RolledBackAbove(g, s, NoBlock)
  BY <1>1, <1>2, <1>4 DEF Places, RolledBackAbove
<1>7. Grounded(ks, s, g)
  <2>1. ASSUME NEW a \in Branch[g], Above(a, s) PROVE Proc(ks, a)
    <3>1. a \in Block /\ BlockNonce[a] \in Nat /\ BlockNonce[a] <= BlockNonce[g]
      BY <1>2, BranchBelow, Nonces
    <3>2. Proc(hs, a)
      BY <1>1, <1>4, <2>1 DEF Grounded
    <3>3. QED
      BY <1>3, <3>1, <3>2
  <2>2. QED
    BY <1>5, <2>1 DEF Grounded
<1>8. OneBranch(ks, g, s)
  <2>1. ASSUME NEW x \in Block, Proc(ks, x), Above(x, s), Above(g, x) PROVE x \in Branch[g]
    <3>1. BlockNonce[x] \in Nat /\ BlockNonce[x] <= BlockNonce[g]
      BY <1>3, <2>1, Nonces DEF Above
    <3>2. Above(f, x)
      BY <1>3, <1>4, <2>1, <3>1 DEF Above
    <3>3. x \in Branch[f]
      BY <1>1, <2>1, <3>2 DEF OneBranch
    <3>4. QED
      BY <1>2, <3>1, <3>3, BranchLinear
  <2>2. QED
    BY <2>1 DEF OneBranch
<1>9. BesideOnChain(ks, g, s, tip)
  <2>1. CASE g = f
    BY <2>1 DEF Core, BesideOnChain
  <2>2. ASSUME g # f, Above(g, s), NEW x \in Block, Proc(ks, x), BlockNonce[x] = BlockNonce[g] PROVE x = g
    <3>1. Above(x, s) /\ Above(f, x)
      BY <1>3, <2>2 DEF Above
    <3>2. x \in Branch[f]
      BY <1>1, <2>2, <3>1 DEF OneBranch
    <3>3. QED
      BY <1>2, <2>2, <3>2, BranchLinear
  <2>3. QED
    BY <2>1, <2>2 DEF BesideOnChain
<1>10. ASSUME NEW z \in Block, Stray(ks, s, g, tip, NoBlock, z) PROVE Burnt(ks, g, pl, dec, z)
  <2>1. /\ Proc(ks, z) /\ Above(z, g) /\ s \in Branch[z] /\ z \notin Branch[tip] /\ z # NoBlock
        /\ BlockNonce[z] \in Nat
    BY <1>10, Nonces DEF Stray
  <2>2. CASE Above(z, f)
    <3>1. Stray(hs, s, f, tip, NoBlock, z)
      BY <2>1, <2>2 DEF Stray
    <3>2. PICK y \in Block : BurntAt(hs, f, pl, dec, z, y)
      BY <3>1 DEF Core, StraysBurnt, Burnt
    <3>3. BlockNonce[y] \in Nat /\ Above(y, f)
      BY <3>2, Nonces DEF BurntAt
    <3>4. Above(y, g)
      BY <1>3, <1>4, <3>3 DEF Above
    <3>5. Branch[z] \subseteq Block
      BY OwnBranch
    <3>6. BurntAt(ks, g, pl, dec, z, y)
      BY <3>2, <3>4, <3>5 DEF BurntAt
    <3>7. QED
      BY <3>6 DEF Burnt
  <2>3. CASE ~Above(z, f)
    <3>1. BlockNonce[z] <= BlockNonce[f] /\ g # f
      BY <1>3, <2>1, <2>3 DEF Above
    <3>2. BlockNonce[z] >= n
      <4>1. SUFFICES ASSUME BlockNonce[z] < n PROVE FALSE
        BY <2>1
      <4>2. Above(z, s)
        BY <1>3, <2>1 DEF Above
      <4>3. QED
        BY <2>1, <3>1, <4>1, <4>2
    <3>3. QED
      BY <2>1, <3>1, <3>2
  <2>4. QED
    BY <2>2, <2>3
<1>11. StraysBurnt(ks, s, g, tip, NoBlock, pl, dec)
  BY <1>10 DEF StraysBurnt
<1>12. QED
  BY <1>6, <1>7, <1>8, <1>9, <1>11 DEF Core

(* Where LowerFinal leads. *)
LEMMA LoweredOnBranch ==
  ASSUME NEW hs, NEW tip, NEW pl, NEW dec, Core(hs, final, settled, final, tip, NoBlock, pl, dec),
         NEW n \in Nat, n > BlockNonce[settled],
         NEW ks, ks \subseteq headerInfo, \A x \in Block : Proc(ks, x) => Proc(hs, x),
         LowerFinal(ks, n)
  PROVE  /\ final' \in Branch[final] /\ ~Above(settled, final') /\ BlockNonce[final'] < n
         /\ final' # final =>
              /\ BlockNonce[final] >= n
              /\ \A x \in Block : Proc(ks, x) /\ Above(x, settled) /\ BlockNonce[x] < n => ~Above(x, final')
<1>1. final \in Block /\ settled \in Block
  BY DEF Core, Places
<1>2. BlockNonce[final] \in Nat /\ BlockNonce[settled] \in Nat
  BY <1>1, Nonces
<1>3. settled \in Branch[final] /\ final \in Branch[final] /\ BlockNonce[settled] <= BlockNonce[final]
  BY <1>1, OwnBranch, BranchBelow DEF Core, Grounded
<1>4. CASE BlockNonce[final] < n
  BY <1>2, <1>3, <1>4 DEF LowerFinal, Above
<1>5. CASE BlockNonce[final] >= n
  <2> DEFINE below == {m \in BlockNonces : m < n /\ m > BlockNonce[settled] /\ Processed(ks, m) # {}}
  <2>1. ASSUME NEW x \in Block, Proc(ks, x), Above(x, settled), BlockNonce[x] < n
        PROVE  BlockNonce[x] \in below
    <3>1. x \in New
      BY <1>1, <2>1, AboveOneIsNew DEF Above
    <3>2. x \in Processed(ks, BlockNonce[x])
      BY <2>1 DEF Proc, Processed, HashesIn, RecordsAt
    <3>3. BlockNonce[x] \in BlockNonces /\ BlockNonce[x] > BlockNonce[settled]
      BY <2>1, <3>1 DEF BlockNonces, Above
    <3>4. Processed(ks, BlockNonce[x]) # {}
      BY <3>2
    <3>5. QED
      BY <2>1, <3>3, <3>4
  <2>2. CASE below = {}
    <3>1. final' = settled
      BY <1>2, <1>5, <2>2 DEF LowerFinal, highestProcessedCheckpointBelow
    <3>2. QED
      BY <1>2, <1>3, <1>5, <2>1, <2>2, <3>1 DEF Above
  <2>3. CASE below # {}
    <3>1. below \subseteq Nat /\ \A m \in below : m < n /\ m > BlockNonce[settled]
      BY ForkAssumption DEF BlockNonces, New
    <3>2. final' \in Processed(ks, Max(below))
      BY <1>2, <1>5, <2>3 DEF LowerFinal, highestProcessedCheckpointBelow
    <3> HIDE DEF below
    <3>3. Max(below) \in below /\ \A m \in below : m <= Max(below)
      BY <2>3, <3>1, MaxIsGreatest
    <3>4. final' \in Block /\ BlockNonce[final'] = Max(below) /\ Proc(ks, final')
      BY <3>2 DEF Processed, HashesIn, RecordsAt, headerInfo, New, Proc
    <3>5. Above(final', settled) /\ Above(final, final') /\ BlockNonce[final'] < n /\ ~Above(settled, final')
      <4>1. PICK m \in Nat : m = BlockNonce[final'] /\ m < n /\ m > BlockNonce[settled]
        BY <3>1, <3>3, <3>4
      <4>2. QED
        BY <1>2, <1>5, <4>1 DEF Above
    <3>6. final' \in Branch[final]
      BY <3>4, <3>5 DEF Core, OneBranch
    <3>7. ASSUME NEW x \in Block, Proc(ks, x), Above(x, settled), BlockNonce[x] < n PROVE ~Above(x, final')
      <4>1. BlockNonce[x] <= BlockNonce[final'] /\ BlockNonce[x] \in Nat /\ BlockNonce[final'] \in Nat
        BY <2>1, <3>3, <3>4, <3>7, Nonces
      <4>2. QED
        BY <4>1 DEF Above
    <3>8. QED
      BY <1>5, <3>5, <3>6, <3>7
  <2>4. QED
    BY <2>2, <2>3
<1>6. QED
  BY <1>2, <1>4, <1>5

(* Records appended. *)
ProvenRecords(hs) == \A i \in hs : i.state = "Processed" => i.hasProof /\ i.anc
SameProc(hs, ks) == \A x \in Block : Proc(ks, x) <=> Proc(hs, x)

LEMMA AppendRecords ==
  ASSUME NEW hs, hs \subseteq headerInfo, NEW i \in headerInfo
  PROVE  /\ \A x : Proc(appendHeaderInfo(hs, i), x) <=> Proc(hs, x) \/ (i.hash = x /\ i.state = "Processed")
         /\ \A x : Nota(appendHeaderInfo(hs, i), x) <=> Nota(hs, x) \/ (i.hash = x /\ i.state = "Notarized")
<1> DEFINE As == adjustHeadersWithInfo(hs, i)
           ks == appendHeaderInfo(hs, i)
<1>1. \A j \in As : \E k \in hs : k.hash = j.hash /\ k.state = j.state
  BY AdjustKeeps
<1>2. \A k \in hs : \E j \in As : k.hash = j.hash /\ k.state = j.state
  BY AdjustKeeps
<1>3. As \subseteq ks /\ \A j \in ks : j \in As \/ j = i
  BY DEF appendHeaderInfo
<1>4. \E j \in ks : j.hash = i.hash /\ j.state = i.state
  <2>1. CASE isInserted(hs, i)
    BY <2>1 DEF appendHeaderInfo
  <2>2. CASE ~isInserted(hs, i)
    BY <2>2, <1>3 DEF isInserted
  <2>3. QED
    BY <2>1, <2>2
<1> HIDE DEF As, ks
<1>5. /\ \A x : Proc(ks, x) <=> Proc(hs, x) \/ (i.hash = x /\ i.state = "Processed")
      /\ \A x : Nota(ks, x) <=> Nota(hs, x) \/ (i.hash = x /\ i.state = "Notarized")
  BY <1>1, <1>2, <1>3, <1>4 DEF Proc, Nota
<1>6. QED
  BY <1>5 DEF ks

LEMMA AppendProven ==
  ASSUME NEW hs, hs \subseteq headerInfo, NEW i \in headerInfo, ProvenRecords(hs),
         i.state = "Processed" => i.hasProof /\ i.anc
  PROVE  ProvenRecords(appendHeaderInfo(hs, i))
<1> DEFINE enriched(j) == IF j.hash = i.hash
                          THEN [j EXCEPT !.hasProof = @ \/ i.hasProof, !.anc = @ \/ i.anc]
                          ELSE j
<1>1. ASSUME NEW j \in headerInfo
      PROVE  /\ enriched(j).state = j.state
             /\ j.hasProof => enriched(j).hasProof
             /\ j.anc => enriched(j).anc
  <2>1. CASE j.hash = i.hash
    BY <2>1 DEF headerInfo
  <2>2. CASE j.hash # i.hash
    BY <2>2
  <2>3. QED
    BY <2>1, <2>2
<1>2. adjustHeadersWithInfo(hs, i) = {enriched(j) : j \in hs}
  BY DEF adjustHeadersWithInfo
<1> HIDE DEF enriched
<1>3. \A j \in appendHeaderInfo(hs, i) : (\E k \in hs : j = enriched(k)) \/ j = i
  BY <1>2 DEF appendHeaderInfo
<1>4. QED
  BY <1>1, <1>3 DEF ProvenRecords

(* Received records, appended, leave the processed and the notarised blocks. *)
LEMMA AppendReceived ==
  ASSUME NEW hs, hs \subseteq headerInfo, NEW i \in headerInfo, ProvenRecords(hs),
         i.state \in {"Received", "ReceivedTooLate"}
  PROVE  /\ SameProc(hs, appendHeaderInfo(hs, i)) /\ \A x : Nota(appendHeaderInfo(hs, i), x) => Nota(hs, x)
         /\ ProvenRecords(appendHeaderInfo(hs, i)) /\ appendHeaderInfo(hs, i) \subseteq headerInfo
BY AppendRecords, AppendProven, AppendHashes DEF SameProc

-----------------------------------------------------------------------------
(* The chain the records belong to, through every step of the node.          *)

(* Where finality falls back to. *)
Base == IF job.pc \in {"confirm", "instant"} THEN job.support ELSE final

(* The update in progress extends finality along the chain. *)
JobOnChain ==
  /\ job.pc = "set" => /\ job.child \in Branch[Tip] \/ job.child = pending.block
                       /\ \A x \in Block : Proc(headers, x) /\ BlockNonce[x] = BlockNonce[job.child]
                                           => x = job.child
  /\ job.pc \in {"confirm", "instant"} => final \in New /\ ParentOf[final] = job.support
  /\ job.pc = "instant" => final = job.block
  /\ job.kind = "commit" => /\ committing = job.block /\ job.block \in New
                            /\ Proc(headers, job.block)

BootOK(bt) ==
  /\ bt = [pc |-> bt.pc, target |-> bt.target, then |-> bt.then]
  /\ bt.then \in {"tick", "fetch", "reset"}

(* The loop, its pending rollback and the chain handler. *)
LoopOK ==
  /\ head \in Block /\ committing \in New \cup {NoBlock} /\ decided \subseteq Canonical
  /\ committing # NoBlock => ParentOf[committing] = head
  /\ pending = NoPending \/ pending \in [block : New, restored : BOOLEAN]
  /\ pending # NoPending =>
       /\ committing = NoBlock /\ boot.pc \in {"tick", "restore", "finish"}
       /\ pending.restored => head = ParentOf[pending.block]
       /\ ~pending.restored => head = pending.block
  /\ BootOK(boot)
  /\ boot.pc = "restore" => pending # NoPending /\ ~pending.restored
  /\ boot.pc = "finish" => pending # NoPending /\ pending.restored

(* The metachain, which extends finality by commits only. *)
MetaChain ==
  isMeta =>
    /\ final \in Branch[Tip] /\ job.pc \notin {"clean", "set", "confirm"}
    /\ pending # NoPending => Above(pending.block, final)
    /\ \A z \in Block : Proc(headers, z) /\ Above(z, settled) => z \in Branch[Tip] \/ z = pending.block

ChainCore == Core(headers, final, settled, Base, Tip, pending.block, pool, decided)

ChainInv == ChainCore /\ ProvenRecords(headers) /\ JobOnChain /\ LoopOK /\ MetaChain

LEMMA TipOK ==
  ASSUME LoopOK
  PROVE  /\ Tip \in Block /\ head \in Branch[Tip] /\ Tip \in Branch[Tip]
         /\ committing = NoBlock => Tip = head
         /\ committing # NoBlock => Tip = committing /\ committing \in New
<1>1. CASE committing = NoBlock
  BY <1>1, OwnBranch DEF LoopOK, Tip
<1>2. CASE committing # NoBlock
  <2>1. committing \in New /\ ParentOf[committing] = head /\ Tip = committing
    BY <1>2 DEF LoopOK, Tip
  <2>2. committing \in Block /\ Branch[committing] = {committing} \cup Branch[head]
    BY <2>1, ChildBranch
  <2>3. head \in Branch[head]
    BY OwnBranch DEF LoopOK
  <2>4. QED
    BY <1>2, <2>1, <2>2, <2>3
<1>3. QED
  BY <1>1, <1>2

(* A step that leaves finality, the chain and the processed blocks alone. *)
LEMMA ChainFrame ==
  ASSUME ChainInv, UNCHANGED <<isMeta, final, settled, job, pending>>, Tip' = Tip,
         job.kind = "commit" => UNCHANGED committing,
         SameProc(headers, headers'), NoDeadNotarized(headers, headers', decided), ProvenRecords(headers'),
         pool \subseteq pool', decided \subseteq decided', LoopOK'
  PROVE  ChainInv'
<1>1. Base' = Base
  BY DEF Base
<1>2. SameProcessed(headers, headers', settled)
  BY DEF SameProcessed, SameProc
<1>3. Core(headers', final, settled, Base, Tip, pending.block, pool, decided)
  BY <1>2, CoreRecords DEF ChainInv, ChainCore
<1>4. Core(headers', final, settled, Base, Tip, pending.block, pool', decided')
  BY <1>3, CoreGrows
<1>5. ChainCore'
  BY <1>1, <1>4 DEF ChainCore
<1>6. JobOnChain'
  <2>1. job.kind = "commit" => Proc(headers', job.block)
    BY DEF ChainInv, JobOnChain, SameProc, New
  <2>2. job.pc = "set" => \A x \in Block : Proc(headers', x) /\ BlockNonce[x] = BlockNonce[job.child]
                                           => x = job.child
    BY DEF ChainInv, JobOnChain, SameProc
  <2>3. QED
    BY <2>1, <2>2 DEF ChainInv, JobOnChain
<1>7. MetaChain'
  BY DEF ChainInv, MetaChain, SameProc
<1>8. QED
  BY <1>5, <1>6, <1>7 DEF ChainInv

(* Nothing of the records changes. *)
LEMMA SameRecords ==
  ASSUME NEW hs, ProvenRecords(hs), NEW dec
  PROVE  SameProc(hs, hs) /\ NoDeadNotarized(hs, hs, dec)
BY DEF SameProc, NoDeadNotarized

(* A settlement by the notarised headers that starts on the records hs.      *)
Settles == /\ final \in Branch[final']
           /\ final' = final \/ (settled' = final' /\ settled' # settled)

LEMMA ChainUpdate ==
  ASSUME NEW hs, hs \subseteq headerInfo, NEW tip, NEW pb, NEW pl, NEW dec,
         Core(hs, final, settled, final, tip, pb, pl, dec), ProvenRecords(hs),
         NEW amb, NEW kind, NEW b, computeFinalCheckpoint(hs, amb, kind, b)
  PROVE  /\ Core(headers', final', settled', final', tip, pb, pl, dec)
         /\ SameProc(hs, headers') /\ ProvenRecords(headers') /\ Settles
         /\ job' = [pc |-> "clean", kind |-> kind, block |-> b]
<1>0. job' = [pc |-> "clean", kind |-> kind, block |-> b]
  BY DEF computeFinalCheckpoint
<1>1. final \in Block /\ settled \in Block /\ final \in Branch[final]
  BY OwnBranch DEF Core, Places
<1>2. CASE headers' = hs /\ UNCHANGED <<final, settled>>
  BY <1>0, <1>1, <1>2 DEF SameProc, Settles
<1>3. ASSUME NEW c \in SettleCandidates(hs),
             BlockNonce[c] <= BlockNonce[settled] \/ ProcessedAncestry(hs, settled, c),
             headers' = hs \ RejectedByWalk(hs, settled, c), advanceFinalAndSettledCheckpoint(c)
      PROVE  /\ Core(headers', final', settled', final', tip, pb, pl, dec)
             /\ SameProc(hs, headers') /\ ProvenRecords(headers') /\ Settles
  <2>1. c \in Block /\ Nota(hs, c)
    <3>1. c \in New /\ Notarized(hs, BlockNonce[c]) = {c}
      BY DEF SettleCandidates, headerInfo
    <3>2. c \in Notarized(hs, BlockNonce[c])
      BY <3>1
    <3>3. QED
      BY <3>1, <3>2 DEF Notarized, HashesIn, RecordsAt, Nota, New
  <2>2. /\ SameProc(hs, headers') /\ ProvenRecords(headers')
        /\ NoDeadNotarized(hs, headers', dec)
    BY <1>3 DEF RejectedByWalk, SameProc, ProvenRecords, NoDeadNotarized, Proc, Nota
  <2>3. BlockNonce[c] \in Nat /\ BlockNonce[settled] \in Nat /\ BlockNonce[final] \in Nat
    BY <1>1, <2>1, Nonces
  <2>4. settled \in Branch[final] /\ BlockNonce[settled] <= BlockNonce[final]
    BY <1>1, BranchBelow DEF Core, Grounded
  <2>5. CASE BlockNonce[c] <= BlockNonce[settled]
    <3>1. UNCHANGED <<final, settled>>
      BY <1>3, <2>3, <2>4, <2>5 DEF advanceFinalAndSettledCheckpoint, advanceCheckpoint
    <3>2. SameProcessed(hs, headers', settled)
      BY <2>2 DEF SameProcessed, SameProc
    <3>3. Core(headers', final, settled, final, tip, pb, pl, dec)
      BY <2>2, <3>2, CoreRecords
    <3>4. QED
      BY <1>1, <2>2, <3>1, <3>3 DEF Settles
  <2>6. CASE BlockNonce[c] > BlockNonce[settled]
    <3>1. settled' = c /\ final' = advanceCheckpoint(final, c) /\ Above(c, settled)
      BY <1>3, <2>6 DEF advanceFinalAndSettledCheckpoint, advanceCheckpoint, Above
    <3>2. ProcessedAncestry(hs, settled, c)
      BY <1>3, <2>3, <2>6
    <3>3. PICK g : g = final'
      OBVIOUS
    <3>4. Core(hs, g, c, g, tip, pb, pl, dec) /\ final \in Branch[g] /\ (g = final \/ g = c)
      BY <2>1, <3>1, <3>2, <3>3, CoreSettled
    <3>5. SameProcessed(hs, headers', c)
      BY <2>2 DEF SameProcessed, SameProc
    <3>6. Core(headers', g, c, g, tip, pb, pl, dec)
      BY <2>2, <3>4, <3>5, CoreRecords
    <3>7. settled' # settled
      BY <2>3, <2>6, <3>1
    <3>8. QED
      BY <2>2, <3>1, <3>3, <3>4, <3>6, <3>7 DEF Settles
  <2>7. QED
    BY <2>3, <2>5, <2>6
<1>4. QED
  BY <1>0, <1>2, <1>3 DEF computeFinalCheckpoint

(* What the steps may do with finality: FinalForward and FinalOnChain. *)
Moves ==
  /\ \/ OnBranch(final, final')
     \/ job.pc \in {"confirm", "instant"}
     \/ rollBackNonce' # NoNonce /\ BlockNonce[final'] < rollBackNonce'
  /\ OnBranch(final, Tip) => \/ OnBranch(final', Tip')
                             \/ final' = pending.block
                             \/ settled' = final' /\ settled' # settled

LEMMA Stays ==
  ASSUME ChainInv, UNCHANGED final, final \in Branch[Tip] => final \in Branch[Tip'] \/ final = pending.block
  PROVE  Moves
<1>1. final \in Branch[final]
  BY OwnBranch DEF ChainInv, ChainCore, Core, Places
<1>2. QED
  BY <1>1 DEF Moves, OnBranch

LEMMA SettlesMoves ==
  ASSUME ChainInv, Settles, Branch[Tip] \subseteq Branch[Tip']
  PROVE  Moves
BY DEF Moves, OnBranch, Settles

(* Nothing but the blocks processed below the settled one goes.              *)
LEMMA PastRemoved ==
  ASSUME headers \subseteq headerInfo, settled \in Block, ProvenRecords(headers),
         NEW f, NEW cs, removePastOrInvalidRecords(f, cs), UNCHANGED settled
  PROVE  /\ SameProcessed(headers, headers', settled) /\ NoDeadNotarized(headers, headers', decided)
         /\ ProvenRecords(headers') /\ headers' \subseteq headers
         /\ job' = Idle /\ final' = f
<1> DEFINE kept == {i \in headers : BlockNonce[i.hash] >= BlockNonce[settled]}
<1>1. headers' = {i \in kept : ~isInvalidReceived(i, f)} /\ job' = Idle /\ final' = f
  BY DEF removePastOrInvalidRecords
<1>2. headers' \subseteq headers
  BY <1>1
<1>3. ASSUME NEW x \in Block, Proc(headers, x), ~Above(settled, x) PROVE Proc(headers', x)
  <2>1. PICK i \in headers : i.hash = x /\ i.state = "Processed"
    BY <1>3 DEF Proc
  <2>2. BlockNonce[x] \in Nat /\ BlockNonce[settled] \in Nat
    BY Nonces
  <2>3. i \in kept
    BY <1>3, <2>1, <2>2 DEF Above
  <2>4. ~isInvalidReceived(i, f)
    BY <2>1 DEF isInvalidReceived
  <2>5. QED
    BY <1>1, <2>1, <2>3, <2>4 DEF Proc
<1>4. QED
  BY <1>1, <1>2, <1>3 DEF SameProcessed, NoDeadNotarized, ProvenRecords, Proc, Nota

(* A block that no other proof competes with is the only processed one of its nonce. *)
LEMMA Uncontested ==
  ASSUME ProcessedProven, NEW c \in Block, ~hasProofForDifferentHash(c)
  PROVE  /\ \A x \in Block : Proc(headers, x) /\ BlockNonce[x] = BlockNonce[c] => x = c
         /\ ~ContestedIn(pool, BlockNonce[c])
BY DEF ProcessedProven, hasProofForDifferentHash, Proc, ContestedIn

LEMMA CleanChild ==
  ASSUME headers \subseteq headerInfo, NEW c \in getCleanProcessedChild(headers, final)
  PROVE  c \in New /\ ParentOf[c] = final /\ Proc(headers, c)
BY DEF getCleanProcessedChild, RecordsAt, headerInfo, Proc

(* The part of the invariant the steps of an update leave alone. *)
LoopStill == UNCHANGED <<isMeta, pool, decided, head, committing, boot, pending>>

LEMMA LoopStillOK ==
  ASSUME LoopOK, LoopStill
  PROVE  LoopOK' /\ Tip' = Tip
BY DEF LoopOK, LoopStill, Tip

LEMMA FinalityEndShape ==
  ASSUME job \in Jobs, FinalityEnd
  PROVE  /\ UNCHANGED <<headers, settled>>
         /\ job'.pc \in {"idle", "checkpoint"}
         /\ job'.kind = "commit" => job.kind = "commit" /\ job'.block = job.block
<1>1. UNCHANGED <<headers, settled>>
  BY DEF FinalityEnd
<1>2. CASE job.kind = "commit"
  <2>1. job' = [job EXCEPT !.pc = "checkpoint"]
    BY <1>2 DEF FinalityEnd
  <2>2. job'.pc = "checkpoint" /\ job'.kind = "commit" /\ job'.block = job.block
    BY <1>2, <2>1 DEF Jobs
  <2>3. QED
    BY <1>1, <1>2, <2>2
<1>3. CASE job.kind # "commit"
  <2>1. job' = Idle
    BY <1>3 DEF FinalityEnd
  <2>2. QED
    BY <1>1, <2>1 DEF Idle
<1>4. QED
  BY <1>2, <1>3

(* The end of an update, with finality where Core has been shown to hold. *)
LEMMA ChainEnd ==
  ASSUME RollBackInv, ChainInv, LoopStill, job \in Jobs, FinalityEnd,
         Core(headers, final', settled, final', Tip, pending.block, pool, decided),
         isMeta => job.pc \notin {"clean", "set", "confirm"} /\ final' \in Branch[Tip],
         isMeta /\ pending # NoPending => Above(pending.block, final')
  PROVE  ChainInv'
<1>1. /\ UNCHANGED <<headers, settled>>
      /\ job'.pc \in {"idle", "checkpoint"}
      /\ job'.kind = "commit" => job.kind = "commit" /\ job'.block = job.block
  BY FinalityEndShape
<1>2. LoopOK' /\ Tip' = Tip
  BY LoopStillOK DEF ChainInv
<1>3. Base' = final'
  BY <1>1 DEF Base
<1>4. ChainCore'
  BY <1>1, <1>2, <1>3 DEF ChainCore, LoopStill
<1>5. JobOnChain'
  BY <1>1 DEF ChainInv, JobOnChain, LoopStill
<1>6. MetaChain'
  BY <1>1, <1>2 DEF ChainInv, MetaChain, LoopStill
<1>7. QED
  BY <1>1, <1>2, <1>4, <1>5, <1>6 DEF ChainInv

LEMMA JobShape ==
  ASSUME RollBackInv, job.pc # "idle"
  PROVE  /\ job \in Jobs
         /\ job.pc \in {"checkpoint", "instant"} => job.kind = "commit"
<1>1. job # Idle
  BY DEF Idle
<1>2. QED
  BY <1>1 DEF RollBackInv, JobOK

LEMMA FinalityCheckChain ==
  ASSUME RollBackInv, ChainInv, FinalityCheck, LoopStill
  PROVE  ChainInv' /\ Moves
<1>1. PICK c \in getCleanProcessedChild(headers, final) :
        /\ ~hasProofForDifferentHash(c)
        /\ job' = [pc |-> "set", kind |-> job.kind, block |-> job.block, child |-> c]
  BY DEF FinalityCheck
<1>2. job.pc = "clean" /\ UNCHANGED <<headers, final, settled>>
  BY DEF FinalityCheck, checkpointVars
<1>3. Base = final /\ Base' = final' /\ job'.pc = "set" /\ job'.child = c /\ job'.kind = job.kind
      /\ job'.block = job.block
  BY <1>1, <1>2 DEF Base
<1>4. LoopOK' /\ Tip' = Tip
  BY LoopStillOK DEF ChainInv
<1>5. ChainCore'
  BY <1>2, <1>3, <1>4 DEF ChainInv, ChainCore, LoopStill
<1>6. c \in New /\ ParentOf[c] = final /\ Proc(headers, c)
  BY CleanChild DEF RollBackInv
<1>7. c \in Block /\ BlockNonce[c] = BlockNonce[final] + 1 /\ Branch[c] = {c} \cup Branch[final]
  BY <1>6, ChildBranch
<1>8. /\ \A x \in Block : Proc(headers, x) /\ BlockNonce[x] = BlockNonce[c] => x = c
      /\ ~ContestedIn(pool, BlockNonce[c])
  BY <1>1, <1>7, Uncontested DEF RollBackInv
<1>9. c \in Branch[Tip] \/ c = pending.block
  <2> SUFFICES ASSUME c \notin Branch[Tip], c # pending.block PROVE FALSE
    OBVIOUS
  <2>1. final \in Block /\ settled \in Branch[final]
    BY DEF ChainInv, ChainCore, Core, Places, Grounded
  <2>2. BlockNonce[final] \in Nat /\ BlockNonce[c] \in Nat
    BY <1>7, <2>1, Nonces
  <2>3. Stray(headers, settled, final, Tip, pending.block, c)
    BY <1>6, <1>7, <2>1, <2>2 DEF Stray, Above
  <2>4. PICK y \in Block : BurntAt(headers, final, pool, decided, c, y)
    BY <1>3, <1>7, <2>3 DEF ChainInv, ChainCore, Core, StraysBurnt, Burnt
  <2>5. y \in Branch[c] /\ BlockNonce[y] > BlockNonce[final] /\ ContestedIn(pool, BlockNonce[y])
    BY <2>4 DEF BurntAt, Above
  <2>6. BlockNonce[y] <= BlockNonce[c] /\ BlockNonce[y] \in Nat
    BY <1>7, <2>5, BranchBelow, Nonces
  <2>7. BlockNonce[y] = BlockNonce[c]
    BY <1>7, <2>2, <2>5, <2>6
  <2>8. QED
    BY <1>8, <2>5, <2>7
<1>10. JobOnChain'
  BY <1>2, <1>3, <1>4, <1>8, <1>9 DEF ChainInv, JobOnChain, LoopStill
<1>11. MetaChain'
  BY <1>2 DEF ChainInv, MetaChain, LoopStill
<1>12. ChainInv'
  BY <1>2, <1>4, <1>5, <1>10, <1>11 DEF ChainInv
<1>13. Moves
  BY <1>2, <1>4, Stays
<1>14. QED
  BY <1>12, <1>13

LEMMA FinalityStopChain ==
  ASSUME RollBackInv, ChainInv, FinalityStop, LoopStill
  PROVE  ChainInv' /\ Moves
<1>1. job.pc = "clean" /\ UNCHANGED final /\ FinalityEnd
  BY DEF FinalityStop
<1>2. job \in Jobs
  BY <1>1, JobShape
<1>3. Core(headers, final', settled, final', Tip, pending.block, pool, decided)
  BY <1>1 DEF ChainInv, ChainCore, Base
<1>4. ~isMeta
  BY <1>1 DEF ChainInv, MetaChain
<1>5. ChainInv'
  BY <1>1, <1>2, <1>3, <1>4, ChainEnd
<1>6. Tip' = Tip
  BY LoopStillOK DEF ChainInv
<1>7. QED
  BY <1>1, <1>5, <1>6, Stays

LEMMA FinalitySetChain ==
  ASSUME RollBackInv, ChainInv, FinalitySet, LoopStill
  PROVE  ChainInv' /\ Moves
<1>1. job.pc = "set" /\ job \in Jobs /\ Base = final /\ ~isMeta
  <2>1. job.pc = "set"
    BY DEF FinalitySet
  <2>2. QED
    BY <2>1, JobShape DEF Base, ChainInv, MetaChain
<1>2. LoopOK' /\ Tip' = Tip
  BY LoopStillOK DEF ChainInv
<1>3. Core(headers, final, settled, final, Tip, pending.block, pool, decided)
  BY <1>1 DEF ChainInv, ChainCore
<1>4. CASE UNCHANGED final /\ FinalityEnd
  <2>1. Core(headers, final', settled, final', Tip, pending.block, pool, decided)
    BY <1>3, <1>4
  <2>2. ChainInv'
    BY <1>1, <1>4, <2>1, ChainEnd
  <2>3. QED
    BY <1>2, <1>4, <2>2, Stays
<1>5. CASE /\ job.child \in getCleanProcessedChild(headers, final) /\ final' = job.child
           /\ job' = [pc |-> "confirm", kind |-> job.kind, block |-> job.block, support |-> final]
           /\ UNCHANGED <<headers, settled>>
  <2>1. PICK c \in New : c = job.child /\ ParentOf[c] = final /\ Proc(headers, c)
    BY <1>5, CleanChild DEF RollBackInv
  <2>2. /\ c \in Branch[Tip] \/ c = pending.block
        /\ \A x \in Block : Proc(headers, x) /\ BlockNonce[x] = BlockNonce[c] => x = c
    BY <1>1, <2>1 DEF ChainInv, JobOnChain
  <2>3. Core(headers, c, settled, final, Tip, pending.block, pool, decided)
    BY <1>3, <2>1, <2>2, CoreRaised
  <2>4. /\ job'.pc = "confirm" /\ job'.kind = job.kind /\ job'.block = job.block /\ job'.support = final
        /\ final' = c
    BY <1>5, <2>1
  <2>5. ChainCore'
    BY <1>2, <1>5, <2>3, <2>4 DEF ChainCore, Base, LoopStill
  <2>6. JobOnChain'
    BY <1>5, <2>1, <2>4 DEF ChainInv, JobOnChain, LoopStill
  <2>7. MetaChain'
    BY <1>1 DEF MetaChain, LoopStill
  <2>8. ChainInv'
    BY <1>2, <1>5, <2>5, <2>6, <2>7 DEF ChainInv
  <2>9. final \in Branch[final']
    <3>1. final \in Block
      BY DEF RollBackInv, PointersOK
    <3>2. QED
      BY <2>1, <2>4, <3>1, ChildBranch, OwnBranch
  <2>10. Moves
    BY <1>2, <2>2, <2>4, <2>9 DEF Moves, OnBranch
  <2>11. QED
    BY <2>8, <2>10
<1>6. QED
  BY <1>4, <1>5 DEF FinalitySet

LEMMA FinalityConfirmChain ==
  ASSUME RollBackInv, ChainInv, FinalityConfirm, LoopStill
  PROVE  ChainInv' /\ Moves
<1>1. job.pc = "confirm" /\ job \in Jobs /\ Base = job.support /\ ~isMeta
  <2>1. job.pc = "confirm"
    BY DEF FinalityConfirm
  <2>2. QED
    BY <2>1, JobShape DEF Base, ChainInv, MetaChain
<1>2. LoopOK' /\ Tip' = Tip
  BY LoopStillOK DEF ChainInv
<1>3. final \in New /\ ParentOf[final] = Base
  BY <1>1 DEF ChainInv, JobOnChain
<1>4. final \in Block
  BY <1>3 DEF New
<1>5. CASE hasProofForDifferentHash(final) /\ final' = job.support /\ FinalityEnd
  <2>1. Core(headers, Base, settled, Base, Tip, pending.block, pool, decided)
    BY <1>3, CoreTakenBack DEF ChainInv, ChainCore
  <2>2. ChainInv'
    BY <1>1, <1>5, <2>1, ChainEnd
  <2>3. final \in Branch[Tip] => final' \in Branch[Tip]
    <3>1. Tip \in Block
      BY TipOK DEF ChainInv
    <3>2. QED
      BY <1>1, <1>3, <1>5, <3>1, ParentOnBranch
  <2>4. QED
    BY <1>1, <1>2, <2>2, <2>3 DEF Moves, OnBranch
<1>6. CASE /\ ~hasProofForDifferentHash(final)
           /\ job' = [pc |-> "clean", kind |-> job.kind, block |-> job.block]
           /\ UNCHANGED <<headers, final, settled>>
  <2>1. ~ContestedIn(pool, BlockNonce[final])
    BY <1>4, <1>6, Uncontested DEF RollBackInv
  <2>2. Core(headers, final, settled, final, Tip, pending.block, pool, decided)
    BY <1>3, <2>1, CoreConfirmed DEF ChainInv, ChainCore
  <2>3. job'.pc = "clean" /\ job'.kind = job.kind /\ job'.block = job.block
    BY <1>6
  <2>4. ChainCore'
    BY <1>2, <1>6, <2>2, <2>3 DEF ChainCore, Base, LoopStill
  <2>5. JobOnChain'
    BY <1>6, <2>3 DEF ChainInv, JobOnChain, LoopStill
  <2>6. MetaChain'
    BY <1>1 DEF MetaChain, LoopStill
  <2>7. ChainInv'
    BY <1>2, <1>6, <2>4, <2>5, <2>6 DEF ChainInv
  <2>8. QED
    BY <1>2, <1>6, <2>7, Stays
<1>7. QED
  BY <1>5, <1>6 DEF FinalityConfirm, checkpointVars

(* A commit's update: the block being committed is the tip and nothing is rolled back. *)
LEMMA CommitJob ==
  ASSUME RollBackInv, ChainInv, job.pc \in {"checkpoint", "instant"}
  PROVE  /\ job.block \in New /\ job.block = Tip /\ Proc(headers, job.block) /\ job.block \in Branch[Tip]
         /\ pending = NoPending /\ pending.block = NoBlock
<1>1. job.pc # "idle"
  OBVIOUS
<1>2. job.kind = "commit"
  BY <1>1, JobShape
<1>3. committing = job.block /\ job.block \in New /\ Proc(headers, job.block)
  BY <1>2 DEF ChainInv, JobOnChain
<1>4. committing # NoBlock
  BY <1>3, ForkAssumption DEF New, NoBlock
<1>5. Tip = committing /\ Tip \in Branch[Tip]
  BY <1>4, TipOK DEF ChainInv
<1>6. pending = NoPending
  BY <1>4 DEF ChainInv, LoopOK
<1>7. QED
  BY <1>3, <1>5, <1>6 DEF NoPending

(* The end of doJobOnBHProcessed. *)
LEMMA ChainPast ==
  ASSUME RollBackInv, ChainInv, LoopStill, UNCHANGED settled, NEW f, NEW cs,
         removePastOrInvalidRecords(f, cs),
         Core(headers, f, settled, f, Tip, pending.block, pool, decided),
         isMeta => f \in Branch[Tip], pending = NoPending
  PROVE  ChainInv'
<1>1. /\ SameProcessed(headers, headers', settled) /\ NoDeadNotarized(headers, headers', decided)
      /\ ProvenRecords(headers') /\ headers' \subseteq headers /\ job' = Idle /\ final' = f
  BY PastRemoved DEF RollBackInv, PointersOK, ChainInv
<1>2. LoopOK' /\ Tip' = Tip
  BY LoopStillOK DEF ChainInv
<1>3. Core(headers', f, settled, f, Tip, pending.block, pool, decided)
  BY <1>1, CoreRecords
<1>4. job'.pc = "idle" /\ job'.kind = "none" /\ Base' = final'
  BY <1>1 DEF Idle, Base
<1>5. ChainCore'
  BY <1>1, <1>2, <1>3, <1>4 DEF ChainCore, LoopStill
<1>6. JobOnChain'
  BY <1>4 DEF JobOnChain
<1>7. MetaChain'
  <2>1. \A z : Proc(headers', z) => Proc(headers, z)
    BY <1>1 DEF Proc
  <2>2. QED
    BY <1>1, <1>2, <1>4, <2>1 DEF ChainInv, MetaChain, LoopStill
<1>8. QED
  BY <1>1, <1>2, <1>5, <1>6, <1>7 DEF ChainInv

LEMMA AddCheckpointChain ==
  ASSUME RollBackInv, ChainInv, AddCheckpoint, LoopStill
  PROVE  ChainInv' /\ Moves
<1>1. job.pc = "checkpoint" /\ UNCHANGED settled
  BY DEF AddCheckpoint
<1>2. /\ job.block \in New /\ job.block = Tip /\ Proc(headers, job.block) /\ job.block \in Branch[Tip]
      /\ pending = NoPending /\ pending.block = NoBlock
  BY <1>1, CommitJob
<1>3. Core(headers, final, settled, final, Tip, pending.block, pool, decided)
  BY <1>1 DEF ChainInv, ChainCore, Base
<1>4. LoopOK' /\ Tip' = Tip
  BY LoopStillOK DEF ChainInv
<1>5. final \in Block
  BY DEF RollBackInv, PointersOK
<1>6. CASE /\ canInstantlyFinalize(job.block, final)
           /\ final' = job.block /\ UNCHANGED headers
           /\ job' = [pc |-> "instant", kind |-> "commit", block |-> job.block, support |-> final]
  <2>1. PICK c \in New : c = job.block
    BY <1>2
  <2>2. ParentOf[c] = final /\ ~hasProofForDifferentHash(c) /\ c \in Block
    BY <1>6, <2>1 DEF canInstantlyFinalize, isParentCheckpoint, New
  <2>3. \A x \in Block : Proc(headers, x) /\ BlockNonce[x] = BlockNonce[c] => x = c
    BY <2>2, Uncontested DEF RollBackInv
  <2>4. Core(headers, c, settled, final, Tip, pending.block, pool, decided)
    BY <1>2, <1>3, <2>1, <2>2, <2>3, CoreRaised
  <2>5. /\ job'.pc = "instant" /\ job'.kind = "commit" /\ job'.block = c /\ job'.support = final
        /\ final' = c
    BY <1>6, <2>1
  <2>6. ChainCore'
    BY <1>1, <1>4, <1>6, <2>4, <2>5 DEF ChainCore, Base, LoopStill
  <2>7. job.kind = "commit"
    BY <1>1, JobShape
  <2>8. JobOnChain'
    BY <1>2, <1>6, <2>1, <2>2, <2>5, <2>7 DEF ChainInv, JobOnChain, LoopStill
  <2>9. MetaChain'
    BY <1>1, <1>2, <1>4, <1>6, <2>1, <2>5 DEF ChainInv, MetaChain, LoopStill
  <2>10. ChainInv'
    BY <1>4, <1>6, <2>6, <2>8, <2>9 DEF ChainInv
  <2>11. final \in Branch[final']
    BY <1>5, <2>2, <2>5, ChildBranch, OwnBranch
  <2>12. Moves
    BY <1>2, <1>4, <2>1, <2>5, <2>11 DEF Moves, OnBranch
  <2>13. QED
    BY <2>10, <2>12
<1>7. ASSUME NEW cs, removePastOrInvalidRecords(final, cs)
      PROVE  ChainInv' /\ Moves
  <2>1. ChainInv'
    BY <1>1, <1>2, <1>3, <1>7, ChainPast DEF ChainInv, MetaChain
  <2>2. UNCHANGED final
    BY <1>7 DEF removePastOrInvalidRecords
  <2>3. QED
    BY <1>4, <2>1, <2>2, Stays
<1>8. QED
  BY <1>6, <1>7 DEF AddCheckpoint

LEMMA InstantConfirmChain ==
  ASSUME RollBackInv, ChainInv, InstantConfirm, LoopStill
  PROVE  ChainInv' /\ Moves
<1>1. job.pc = "instant" /\ UNCHANGED settled
  BY DEF InstantConfirm
<1>2. pending = NoPending
  BY <1>1, CommitJob
<1>3. final \in New /\ ParentOf[final] = job.support /\ final = job.block /\ Base = job.support
  BY <1>1 DEF ChainInv, JobOnChain, Base
<1>4. final \in Block /\ Tip \in Block
  BY <1>3, TipOK DEF New, ChainInv
<1>5. PICK f : /\ removePastOrInvalidRecords(f, checkpoint)
               /\ f = IF canInstantlyFinalize(job.block, job.support) THEN final ELSE job.support
  BY DEF InstantConfirm
<1>6. Core(headers, f, settled, f, Tip, pending.block, pool, decided)
  <2>1. CASE canInstantlyFinalize(job.block, job.support)
    <3>1. ~hasProofForDifferentHash(final)
      BY <1>3, <2>1 DEF canInstantlyFinalize
    <3>2. ~ContestedIn(pool, BlockNonce[final])
      BY <1>4, <3>1, Uncontested DEF RollBackInv
    <3>3. Core(headers, final, settled, final, Tip, pending.block, pool, decided)
      BY <1>3, <3>2, CoreConfirmed DEF ChainInv, ChainCore
    <3>4. QED
      BY <1>5, <2>1, <3>3
  <2>2. CASE ~canInstantlyFinalize(job.block, job.support)
    <3>1. Core(headers, Base, settled, Base, Tip, pending.block, pool, decided)
      BY <1>3, CoreTakenBack DEF ChainInv, ChainCore
    <3>2. QED
      BY <1>3, <1>5, <2>2, <3>1
  <2>3. QED
    BY <2>1, <2>2
<1>7. final \in Branch[Tip] => f \in Branch[Tip]
  BY <1>3, <1>4, <1>5, ParentOnBranch
<1>8. isMeta => f \in Branch[Tip]
  BY <1>7 DEF ChainInv, MetaChain
<1>9. ChainInv'
  BY <1>1, <1>2, <1>5, <1>6, <1>8, ChainPast
<1>10. final' = f /\ Tip' = Tip
  BY <1>5, LoopStillOK DEF removePastOrInvalidRecords, ChainInv
<1>11. Moves
  BY <1>1, <1>7, <1>10 DEF Moves, OnBranch
<1>12. QED
  BY <1>9, <1>11

LEMMA DetectorStepChain ==
  ASSUME RollBackInv, ChainInv, DetectorStep
  PROVE  ChainInv' /\ Moves
<1>1. JobStep /\ LoopStill
  BY DEF DetectorStep, JobStep, LoopStill, loopVars
<1>2. QED
  BY <1>1, FinalityCheckChain, FinalityStopChain, FinalitySetChain, FinalityConfirmChain,
     AddCheckpointChain, InstantConfirmChain DEF JobStep

-----------------------------------------------------------------------------
(* The callbacks.                                                            *)

(* A step of which only the records, the proofs and the decisions are left. *)
LEMMA ChainCallback ==
  ASSUME ChainInv, UNCHANGED <<isMeta, final, settled, job, pending, head, committing, boot>>,
         SameProc(headers, headers'), NoDeadNotarized(headers, headers', decided), ProvenRecords(headers'),
         pool \subseteq pool', decided \subseteq decided', decided' \subseteq Canonical
  PROVE  ChainInv' /\ Moves
<1>1. Tip' = Tip
  BY DEF Tip
<1>2. LoopOK'
  BY DEF ChainInv, LoopOK
<1>3. ChainInv'
  BY <1>1, <1>2, ChainFrame
<1>4. QED
  BY <1>1, <1>3, Stays

LEMMA ProofStoredChain ==
  ASSUME ChainInv, NEW b \in New, ProofStored(b)
  PROVE  ChainInv' /\ Moves
<1>1. /\ UNCHANGED <<isMeta, headers, final, settled, job, pending, head, committing, boot, decided>>
      /\ pool \subseteq pool'
  BY DEF ProofStored, checkpointVars, loopVars
<1>2. /\ SameProc(headers, headers') /\ NoDeadNotarized(headers, headers', decided)
      /\ ProvenRecords(headers') /\ decided' \subseteq Canonical
  BY <1>1, SameRecords DEF ChainInv, LoopOK
<1>3. QED
  BY <1>1, <1>2, ChainCallback

LEMMA AuthorityDecidesChain ==
  ASSUME ChainInv, NEW b \in Canonical, AuthorityDecides(b)
  PROVE  ChainInv' /\ Moves
<1>1. /\ UNCHANGED <<isMeta, headers, final, settled, job, pending, head, committing, boot, pool>>
      /\ decided' = decided \cup {b}
  BY DEF AuthorityDecides, detectorVars, checkpointVars, loopVars
<1>2. /\ SameProc(headers, headers') /\ NoDeadNotarized(headers, headers', decided)
      /\ ProvenRecords(headers') /\ decided' \subseteq Canonical /\ decided \subseteq decided'
  BY <1>1, SameRecords DEF ChainInv, LoopOK
<1>3. QED
  BY <1>1, <1>2, ChainCallback

LEMMA ProofReceivedChain ==
  ASSUME RollBackInv, ChainInv, NEW b \in New, ProofReceived(b)
  PROVE  ChainInv' /\ Moves
<1>1. UNCHANGED <<isMeta, pool, final, settled, job, pending, head, committing, boot, decided>>
  BY DEF ProofReceived, ReceivedProof, checkpointVars
<1>2. PICK hs : hs = appendHeaderInfo(headers, Info(b, "Received", TRUE, FALSE))
  OBVIOUS
<1>3. /\ SameProc(headers, hs) /\ \A x : Nota(hs, x) => Nota(headers, x)
      /\ ProvenRecords(hs) /\ hs \subseteq headerInfo
  BY <1>2, AppendReceived, AppendedInfo DEF RollBackInv, ChainInv
<1>4. headers' = hs \/ headers' = appendHeaderInfo(hs, ReceivedInfo(b))
  BY <1>2 DEF ProofReceived, ReceivedProof
<1>5. CASE headers' = appendHeaderInfo(hs, ReceivedInfo(b))
  <2>1. SameProc(hs, headers') /\ (\A x : Nota(headers', x) => Nota(hs, x)) /\ ProvenRecords(headers')
    BY <1>3, <1>5, AppendReceived, AppendedInfo
  <2>2. QED
    BY <1>1, <1>3, <2>1, ChainCallback DEF SameProc, NoDeadNotarized, ChainInv, LoopOK
<1>6. CASE headers' = hs
  BY <1>1, <1>3, <1>6, ChainCallback DEF NoDeadNotarized, ChainInv, LoopOK
<1>7. QED
  BY <1>4, <1>5, <1>6

LEMMA HeaderReceivedChain ==
  ASSUME RollBackInv, ChainInv, NEW b \in New, HeaderReceived(b)
  PROVE  ChainInv' /\ Moves
<1>1. UNCHANGED <<isMeta, pool, final, settled, job, pending, head, committing, boot, decided>>
  BY DEF HeaderReceived, AddReceivedHeader, checkpointVars, loopVars
<1>2. headers' = headers \/ headers' = appendHeaderInfo(headers, ReceivedInfo(b))
  BY DEF HeaderReceived, AddReceivedHeader
<1>3. /\ SameProc(headers, headers') /\ \A x : Nota(headers', x) => Nota(headers, x)
      /\ ProvenRecords(headers')
  BY <1>2, AppendReceived, AppendedInfo DEF RollBackInv, ChainInv, SameProc
<1>4. QED
  BY <1>1, <1>3, ChainCallback DEF NoDeadNotarized, ChainInv, LoopOK

(* A finality update that a caller other than a commit starts on the records hs. *)
LEMMA ChainOther ==
  ASSUME RollBackInv, ChainInv, job = Idle, ~isMeta,
         UNCHANGED <<isMeta, pool, pending, head, committing, boot, decided>>,
         NEW hs, hs \subseteq headerInfo, SameProc(headers, hs), NoDeadNotarized(headers, hs, decided),
         ProvenRecords(hs), NEW amb, computeFinalCheckpoint(hs, amb, "other", Anchor)
  PROVE  ChainInv' /\ Moves
<1>1. LoopOK' /\ Tip' = Tip
  BY LoopStillOK DEF ChainInv, LoopStill
<1>2. SameProcessed(headers, hs, settled)
  BY DEF SameProcessed, SameProc
<1>3. Core(headers, final, settled, final, Tip, pending.block, pool, decided)
  BY DEF ChainInv, ChainCore, Base, Idle
<1>4. Core(hs, final, settled, final, Tip, pending.block, pool, decided)
  BY <1>2, <1>3, CoreRecords
<1>5. /\ Core(headers', final', settled', final', Tip, pending.block, pool, decided)
      /\ ProvenRecords(headers') /\ Settles
      /\ job' = [pc |-> "clean", kind |-> "other", block |-> Anchor]
  BY <1>4, ChainUpdate
<1>6. job'.pc = "clean" /\ job'.kind = "other"
  BY <1>5
<1>7. ChainCore'
  BY <1>1, <1>5, <1>6 DEF ChainCore, Base
<1>8. JobOnChain' /\ MetaChain'
  BY <1>6 DEF JobOnChain, MetaChain
<1>9. ChainInv'
  BY <1>1, <1>5, <1>7, <1>8 DEF ChainInv
<1>10. QED
  BY <1>1, <1>5, <1>9, SettlesMoves

LEMMA NotarizeChain ==
  ASSUME RollBackInv, ChainInv, NEW h \in New, Notarize(h)
  PROVE  ChainInv' /\ Moves
<1>1. /\ ReceivedSelfNotarized(h) /\ ~Dead(h) /\ ~isMeta /\ job = Idle
      /\ UNCHANGED <<isMeta, pool, pending, head, committing, boot, decided>>
  BY DEF Notarize, ReceivedSelfNotarized, loopVars
<1>2. PICK hs : hs = appendHeaderInfo(headers, NotarizedInfo(h))
  OBVIOUS
<1>3. NotarizedInfo(h) \in headerInfo /\ NotarizedInfo(h).state = "Notarized" /\ NotarizedInfo(h).hash = h
  BY AppendedInfo DEF NotarizedInfo, Info
<1>4. /\ SameProc(headers, hs) /\ ProvenRecords(hs) /\ hs \subseteq headerInfo
      /\ \A x : Nota(hs, x) => Nota(headers, x) \/ x = h
  BY <1>2, <1>3, AppendRecords, AppendProven, AppendHashes DEF RollBackInv, ChainInv, SameProc
<1>5. NoDeadNotarized(headers, hs, decided)
  BY <1>1, <1>4 DEF NoDeadNotarized, Dead, DeadBy
<1>6. CASE computeFinalCheckpoint(hs, ambiguousAfter(headers, ambiguous, NotarizedInfo(h)), "other", Anchor)
  BY <1>1, <1>4, <1>5, <1>6, ChainOther
<1>7. CASE headers' = hs /\ UNCHANGED <<final, settled, job>>
  BY <1>1, <1>4, <1>5, <1>7, ChainCallback DEF ChainInv, LoopOK
<1>8. QED
  BY <1>1, <1>2, <1>6, <1>7 DEF ReceivedSelfNotarized

(* The parts of the invariant after a commit has begun. *)
LEMMA CommitBegun ==
  ASSUME ChainInv, committing = NoBlock, pending = NoPending,
         NEW b \in New, ParentOf[b] = head, committing' = b,
         UNCHANGED <<isMeta, pool, decided, head, pending>>,
         BootOK(boot'),
         boot'.pc \notin {"restore", "finish"},
         Core(headers', final', settled', final', b, NoBlock, pool, decided), ProvenRecords(headers'),
         job' = Idle \/ /\ job'.pc \in {"clean", "checkpoint"} /\ job'.block = b /\ Proc(headers', b)
                        /\ isMeta => job'.pc = "checkpoint",
         isMeta => /\ final' \in Branch[b]
                   /\ \A z \in Block : Proc(headers', z) /\ Above(z, settled') => z \in Branch[b]
  PROVE  ChainInv' /\ Tip = head /\ Tip' = b /\ Branch[Tip] \subseteq Branch[Tip']
<1>1. b # NoBlock /\ b \in Block /\ Branch[b] = {b} \cup Branch[head]
  BY ChildBranch, ForkAssumption DEF New, NoBlock
<1>2. Tip = head /\ Tip' = b /\ Branch[Tip] \subseteq Branch[Tip']
  BY <1>1 DEF Tip
<1>3. LoopOK'
  BY DEF ChainInv, LoopOK
<1>4. pending'.block = NoBlock /\ Base' = final'
  BY DEF NoPending, Base, Idle
<1>5. ChainCore'
  BY <1>2, <1>4 DEF ChainCore
<1>6. JobOnChain'
  BY DEF JobOnChain, Idle
<1>7. MetaChain'
  BY <1>2, <1>4 DEF MetaChain, Idle
<1>8. QED
  BY <1>2, <1>3, <1>5, <1>6, <1>7 DEF ChainInv

(* The records of a commit, on top of those of the detector. *)
LEMMA CommitRecords ==
  ASSUME RollBackInv, ChainInv, NEW b \in New, NEW i, i = Info(b, "Processed", TRUE, TRUE)
  PROVE  /\ appendHeaderInfo(headers, i) \subseteq headerInfo /\ ProvenRecords(appendHeaderInfo(headers, i))
         /\ \A x : Proc(appendHeaderInfo(headers, i), x) <=> Proc(headers, x) \/ x = b
         /\ \A x : Nota(appendHeaderInfo(headers, i), x) => Nota(headers, x)
<1>1. i \in headerInfo /\ i.hash = b /\ i.state = "Processed" /\ i.hasProof /\ i.anc
  BY AppendedInfo DEF Info
<1>2. headers \subseteq headerInfo /\ ProvenRecords(headers)
  BY DEF RollBackInv, ChainInv
<1>3. appendHeaderInfo(headers, i) \subseteq headerInfo /\ ProvenRecords(appendHeaderInfo(headers, i))
  BY <1>1, <1>2, AppendProven, AppendHashes
<1>4. /\ \A x : Proc(appendHeaderInfo(headers, i), x) <=> Proc(headers, x) \/ (i.hash = x /\ i.state = "Processed")
      /\ \A x : Nota(appendHeaderInfo(headers, i), x) <=> Nota(headers, x) \/ (i.hash = x /\ i.state = "Notarized")
  BY <1>1, <1>2, AppendRecords
<1>5. QED
  BY <1>1, <1>3, <1>4

LEMMA CommitCore ==
  ASSUME ChainInv, job = Idle, committing = NoBlock, pending = NoPending,
         NEW b \in New, ParentOf[b] = head,
         NEW ks, \A x \in Block : x # b => (Proc(ks, x) <=> Proc(headers, x)),
         Proc(headers, b) => Proc(ks, b),
         Proc(ks, b) => Proc(headers, b) \/ BlockNonce[b] >= BlockNonce[final],
         NoDeadNotarized(headers, ks, decided)
  PROVE  Core(ks, final, settled, final, b, NoBlock, pool, decided)
<1>1. Tip = head /\ pending.block = NoBlock /\ Base = final
  BY DEF Tip, NoPending, Base, Idle
<1>2. Core(headers, final, settled, final, head, NoBlock, pool, decided)
  BY <1>1 DEF ChainInv, ChainCore
<1>3. QED
  BY <1>2, CoreCommitted

(* The metachain settles the parent of the block it commits. *)
LEMMA MetaSettles ==
  ASSUME RollBackInv, ChainInv, isMeta, committing = NoBlock, pending = NoPending,
         NEW b \in New, ParentOf[b] = head, advanceFinalAndSettledCheckpoint(head),
         NEW ks, \A x : Proc(ks, x) => Proc(headers, x) \/ x = b
  PROVE  /\ final' = head /\ final \in Branch[head]
         /\ Core(ks, final', settled', final', b, NoBlock, pool, decided)
         /\ \A z \in Block : Proc(ks, z) /\ Above(z, settled') => z \in Branch[b]
<1>1. /\ b \in Block /\ head \in Block /\ Branch[b] = {b} \cup Branch[head]
      /\ BlockNonce[b] = BlockNonce[head] + 1
  BY ChildBranch
<1>2. Tip = head /\ pending.block = NoBlock
  BY DEF Tip, NoPending
<1>3. final \in Branch[head] /\ settled \in Branch[final]
  BY <1>2 DEF ChainInv, MetaChain, ChainCore, Core, Grounded
<1>4. final \in Block /\ settled \in Block /\ settled \in Branch[head]
  BY <1>1, <1>3, BranchBelow DEF RollBackInv, PointersOK
<1>5. /\ BlockNonce[final] <= BlockNonce[head] /\ (BlockNonce[final] = BlockNonce[head] => final = head)
      /\ BlockNonce[settled] <= BlockNonce[head] /\ (BlockNonce[settled] = BlockNonce[head] => settled = head)
  BY <1>1, <1>3, <1>4, BranchBelow
<1>6. BlockNonce[final] \in Nat /\ BlockNonce[settled] \in Nat /\ BlockNonce[head] \in Nat
  BY <1>1, <1>4, Nonces
<1>7. final' = head /\ settled' = head
  BY <1>5, <1>6 DEF advanceFinalAndSettledCheckpoint, advanceCheckpoint
<1>8. \A a \in Branch[head] : a \in Block /\ ~Above(a, head)
  <2>1. \A a \in Branch[head] : a \in Block /\ BlockNonce[a] <= BlockNonce[head] /\ BlockNonce[a] \in Nat
    BY <1>1, BranchBelow, Nonces
  <2>2. QED
    BY <1>6, <2>1 DEF Above
<1>9. ASSUME NEW z \in Block, Proc(ks, z), Above(z, head) PROVE z = b
  <2>1. SUFFICES ASSUME z # b PROVE FALSE
    OBVIOUS
  <2>2. Proc(headers, z)
    BY <1>9, <2>1
  <2>3. Above(z, settled) /\ z # NoBlock
    BY <1>5, <1>6, <1>9, Nonces, ForkAssumption DEF Above, NoBlock
  <2>4. z \in Branch[head]
    BY <1>2, <2>2, <2>3 DEF ChainInv, MetaChain
  <2>5. QED
    BY <1>8, <1>9, <2>4
<1>10. Places(head, head, head, b, NoBlock) /\ Grounded(ks, head, head)
  BY <1>1, <1>8, OwnBranch DEF Places, Grounded
<1>11. OneBranch(ks, head, head) /\ BesideOnChain(ks, head, head, b) /\ RolledBackAbove(head, head, NoBlock)
  BY <1>6, Nonces DEF OneBranch, BesideOnChain, RolledBackAbove, Above
<1>12. StraysBurnt(ks, head, head, b, NoBlock, pool, decided)
  BY <1>1, <1>9 DEF StraysBurnt, Stray
<1>13. Core(ks, head, head, head, b, NoBlock, pool, decided)
  BY <1>10, <1>11, <1>12 DEF Core
<1>14. b \in Branch[b]
  BY <1>1
<1>15. QED
  BY <1>3, <1>7, <1>9, <1>13, <1>14

LEMMA CommitChain ==
  ASSUME RollBackInv, ChainInv, pending = NoPending, UNCHANGED pending,
         BootOK(boot'),
         boot'.pc \notin {"restore", "finish"}, NEW b \in New, CommitBlock(b)
  PROVE  ChainInv' /\ Moves
<1> DEFINE i   == Info(b, "Processed", TRUE, TRUE)
           amb == ambiguousAfter(headers, ambiguous, i)
<1>1. /\ committing = NoBlock /\ ParentOf[b] = head /\ committing' = b
      /\ UNCHANGED <<isMeta, pool, decided, head>>
  BY DEF CommitBlock
<1>2. PICK ns : /\ AddProcessedHeader(b, ns)
                /\ \A h \in ns : h \in New /\ ~Dead(h)
  BY SyncAssumption DEF CommitBlock
<1>3. job = Idle
  BY <1>2 DEF AddProcessedHeader
<1>4. PICK hs : hs = appendHeaderInfo(headers, i)
  OBVIOUS
<1>5. /\ hs \subseteq headerInfo /\ ProvenRecords(hs)
      /\ \A x : Proc(hs, x) <=> Proc(headers, x) \/ x = b
      /\ \A x : Nota(hs, x) => Nota(headers, x)
  BY <1>4, CommitRecords
<1> HIDE DEF i, amb
<1>6. final \in Block /\ Tip = head /\ (isMeta => final \in Branch[head])
  BY <1>1 DEF RollBackInv, PointersOK, Tip, ChainInv, MetaChain
<1>7. Branch[b] = {b} \cup Branch[head]
  BY <1>1, ChildBranch
<1>8. isMeta => \A z \in Block : Proc(headers, z) /\ Above(z, settled) => z \in Branch[head]
  BY <1>6, ForkAssumption DEF ChainInv, MetaChain, NoPending, NoBlock
<1>9. CASE UNCHANGED <<headers, final, settled, job>>
  <2>1. NoDeadNotarized(headers, headers', decided) /\ ProvenRecords(headers')
    BY <1>9 DEF NoDeadNotarized, ChainInv
  <2>2. Core(headers', final', settled', final', b, NoBlock, pool, decided)
    BY <1>1, <1>3, <1>9, <2>1, CommitCore
  <2>3. ChainInv' /\ Tip = head /\ Tip' = b /\ Branch[Tip] \subseteq Branch[Tip']
    BY <1>1, <1>3, <1>6, <1>7, <1>8, <1>9, <2>1, <2>2, CommitBegun
  <2>4. QED
    BY <1>9, <2>3, Stays
<1>10. ASSUME checkBlockBasicValidity(b), NEW ks, \A x : Proc(ks, x) <=> Proc(hs, x),
              NoDeadNotarized(headers, ks, decided)
       PROVE  Core(ks, final, settled, final, b, NoBlock, pool, decided)
  <2>1. BlockNonce[b] >= BlockNonce[final]
    BY <1>10 DEF checkBlockBasicValidity
  <2>2. QED
    BY <1>1, <1>3, <1>5, <1>10, <2>1, CommitCore
<1>11. NoDeadNotarized(headers, hs, decided)
  BY <1>5 DEF NoDeadNotarized
<1>12. CASE /\ checkBlockBasicValidity(b) /\ headers' = hs /\ UNCHANGED <<final, settled>>
            /\ \/ UNCHANGED job
               \/ isMeta /\ job' = [pc |-> "checkpoint", kind |-> "commit", block |-> b]
  <2>1. Core(headers', final', settled', final', b, NoBlock, pool, decided)
    BY <1>10, <1>11, <1>12
  <2>2. job' = Idle \/ /\ job'.pc = "checkpoint" /\ job'.block = b /\ Proc(headers', b)
    BY <1>3, <1>5, <1>12
  <2>3. ProvenRecords(headers') /\ \A x : Proc(headers', x) => Proc(headers, x) \/ x = b
    BY <1>5, <1>12
  <2>4. ChainInv' /\ Tip = head /\ Tip' = b /\ Branch[Tip] \subseteq Branch[Tip']
    BY <1>1, <1>6, <1>7, <1>8, <1>12, <2>1, <2>2, <2>3, CommitBegun
  <2>5. QED
    BY <1>12, <2>4, Stays
<1>13. CASE /\ isMeta /\ headers' = hs /\ job' = [pc |-> "checkpoint", kind |-> "commit", block |-> b]
            /\ isParentCheckpoint(lastCheckpoint(checkpoint), b)
            /\ advanceFinalAndSettledCheckpoint(lastCheckpoint(checkpoint))
  <2>1. lastCheckpoint(checkpoint) = head
    BY <1>1, <1>13 DEF isParentCheckpoint
  <2>2. \A x : Proc(headers', x) => Proc(headers, x) \/ x = b
    BY <1>5, <1>13
  <2>3. /\ final' = head /\ final \in Branch[head]
        /\ Core(headers', final', settled', final', b, NoBlock, pool, decided)
        /\ \A z \in Block : Proc(headers', z) /\ Above(z, settled') => z \in Branch[b]
    BY <1>1, <1>13, <2>1, <2>2, MetaSettles
  <2>4. job'.pc = "checkpoint" /\ job'.block = b /\ Proc(headers', b) /\ ProvenRecords(headers')
    BY <1>5, <1>13
  <2>5. head \in Branch[b]
    BY <1>7, OwnBranch DEF ChainInv, LoopOK
  <2>6. ChainInv' /\ Tip' = b
    BY <1>1, <2>3, <2>4, <2>5, CommitBegun
  <2>7. Moves
    BY <2>3, <2>5, <2>6 DEF Moves, OnBranch
  <2>8. QED
    BY <2>6, <2>7
<1>14. ASSUME ~isMeta, checkBlockBasicValidity(b), NEW ks, ks \subseteq headerInfo, ProvenRecords(ks),
              \A x : Proc(ks, x) <=> Proc(hs, x), NoDeadNotarized(headers, ks, decided),
              NEW am, computeFinalCheckpoint(ks, am, "commit", b)
       PROVE  ChainInv' /\ Moves
  <2>1. Core(ks, final, settled, final, b, NoBlock, pool, decided)
    BY <1>10, <1>14
  <2>2. /\ Core(headers', final', settled', final', b, NoBlock, pool, decided)
        /\ SameProc(ks, headers') /\ ProvenRecords(headers') /\ Settles
        /\ job' = [pc |-> "clean", kind |-> "commit", block |-> b]
    BY <1>14, <2>1, ChainUpdate
  <2>3. job'.pc = "clean" /\ job'.block = b /\ Proc(headers', b)
    BY <1>5, <1>14, <2>2 DEF SameProc, New
  <2>4. ChainInv' /\ Branch[Tip] \subseteq Branch[Tip']
    BY <1>1, <1>14, <2>2, <2>3, CommitBegun
  <2>5. QED
    BY <2>2, <2>4, SettlesMoves
<1>15. CASE ~isMeta /\ checkBlockBasicValidity(b) /\ computeFinalCheckpoint(hs, amb, "commit", b)
  BY <1>5, <1>11, <1>14, <1>15
<1>16. ASSUME ~isMeta, checkBlockBasicValidity(b), NEW h \in ns,
              computeFinalCheckpoint(appendHeaderInfo(hs, NotarizedInfo(h)),
                ambiguousAfter(hs, amb, NotarizedInfo(h)), "commit", b)
       PROVE  ChainInv' /\ Moves
  <2>1. PICK ks : ks = appendHeaderInfo(hs, NotarizedInfo(h))
    OBVIOUS
  <2>2. h \in New /\ ~Dead(h)
    BY <1>2, <1>16
  <2>3. NotarizedInfo(h) \in headerInfo /\ NotarizedInfo(h).state = "Notarized" /\ NotarizedInfo(h).hash = h
    BY <2>2, AppendedInfo DEF NotarizedInfo, Info
  <2>4. /\ ks \subseteq headerInfo /\ ProvenRecords(ks) /\ \A x : Proc(ks, x) <=> Proc(hs, x)
        /\ \A x : Nota(ks, x) => Nota(hs, x) \/ x = h
    BY <1>5, <2>1, <2>3, AppendRecords, AppendProven, AppendHashes
  <2>5. NoDeadNotarized(headers, ks, decided)
    BY <1>5, <2>2, <2>4 DEF NoDeadNotarized, Dead, DeadBy
  <2>6. QED
    BY <1>14, <1>16, <2>1, <2>4, <2>5
<1>17. CASE checkBlockBasicValidity(b) /\ b \in pool /\ hs # headers
  <2>1. CASE ~isInserted(headers, i)
    <3>1. headers' = hs /\ UNCHANGED <<final, settled, job>>
      BY <1>2, <1>4, <1>17, <2>1 DEF AddProcessedHeader, checkpointVars, i
    <3>2. QED
      BY <1>12, <1>17, <3>1
  <2>2. CASE isInserted(headers, i) /\ isMeta
    <3>1. /\ headers' = hs /\ job' = [pc |-> "checkpoint", kind |-> "commit", block |-> b]
          /\ \/ /\ isParentCheckpoint(lastCheckpoint(checkpoint), b)
                /\ advanceFinalAndSettledCheckpoint(lastCheckpoint(checkpoint))
             \/ UNCHANGED <<final, settled>>
      BY <1>2, <1>4, <1>17, <2>2 DEF AddProcessedHeader, i
    <3>2. QED
      BY <1>12, <1>13, <1>17, <2>2, <3>1
  <2>3. CASE isInserted(headers, i) /\ ~isMeta
    <3>1. \/ computeFinalCheckpoint(hs, amb, "commit", b)
          \/ \E h \in ns : computeFinalCheckpoint(appendHeaderInfo(hs, NotarizedInfo(h)),
                              ambiguousAfter(hs, amb, NotarizedInfo(h)), "commit", b)
      BY <1>2, <1>4, <1>17, <2>3 DEF AddProcessedHeader, i, amb
    <3>2. QED
      BY <1>15, <1>16, <1>17, <2>3, <3>1
  <2>4. QED
    BY <2>1, <2>2, <2>3
<1>18. CASE ~checkBlockBasicValidity(b) \/ b \notin pool \/ hs = headers
  <2>1. UNCHANGED <<headers, final, settled, job>>
    BY <1>2, <1>4, <1>18 DEF AddProcessedHeader, checkpointVars, i
  <2>2. QED
    BY <1>9, <2>1
<1>19. QED
  BY <1>17, <1>18

-----------------------------------------------------------------------------
(* Reconciliation.                                                           *)

(* A reconciliation at nonce n lowers finality and orders a rollback. *)
LEMMA ChainLowered ==
  ASSUME RollBackInv, ChainInv, AtTick, job = Idle, headers' \subseteq headerInfo,
         UNCHANGED <<isMeta, pool, settled, job, decided, head, committing, boot, pending>>,
         NEW n \in Nat, n > BlockNonce[settled], LowerFinal(headers', n), rollBackNonce' = n,
         ProvenRecords(headers'),
         \A x \in Block : /\ Proc(headers', x) => Proc(headers, x)
                          /\ Proc(headers, x) /\ BlockNonce[x] < n => Proc(headers', x)
                          /\ Nota(headers', x) => Nota(headers, x),
         \A z \in Block : /\ Proc(headers', z) /\ BlockNonce[z] >= n /\ BlockNonce[z] <= BlockNonce[final]
                          /\ settled \in Branch[z] /\ z \notin Branch[Tip] /\ BlockNonce[final'] < n
                          => Burnt(headers', final', pool, decided, z)
  PROVE  ChainInv' /\ Moves
<1>1. LoopOK' /\ Tip' = Tip /\ Tip \in Block
  BY LoopStillOK, TipOK DEF ChainInv, LoopStill
<1>2. pending.block = NoBlock /\ Base = final /\ Base' = final'
  BY DEF AtTick, NoPending, Base, Idle
<1>3. Core(headers, final, settled, final, Tip, NoBlock, pool, decided)
  BY <1>2 DEF ChainInv, ChainCore
<1>4. /\ final' \in Branch[final] /\ ~Above(settled, final') /\ BlockNonce[final'] < n
      /\ final' # final =>
           /\ BlockNonce[final] >= n
           /\ \A x \in Block : Proc(headers', x) /\ Above(x, settled) /\ BlockNonce[x] < n => ~Above(x, final')
  BY <1>3, LoweredOnBranch
<1>5. PICK g : g = final'
  OBVIOUS
<1>6. PICK ks : ks = headers'
  OBVIOUS
<1>7. \A z \in Block : /\ Proc(ks, z) /\ BlockNonce[z] >= n /\ BlockNonce[z] <= BlockNonce[final]
                       /\ settled \in Branch[z] /\ z \notin Branch[Tip]
                       => Burnt(ks, g, pool, decided, z)
  BY <1>4, <1>5, <1>6
<1>8. \A x \in Block : /\ Proc(ks, x) => Proc(headers, x)
                       /\ Proc(headers, x) /\ BlockNonce[x] < n => Proc(ks, x)
                       /\ Nota(ks, x) => Nota(headers, x)
  BY <1>6
<1>9. /\ g \in Branch[final] /\ ~Above(settled, g) /\ BlockNonce[g] < n
      /\ g # final =>
           /\ BlockNonce[final] >= n
           /\ \A x \in Block : Proc(ks, x) /\ Above(x, settled) /\ BlockNonce[x] < n => ~Above(x, g)
  BY <1>4, <1>5, <1>6
<1>10. Core(ks, g, settled, g, Tip, NoBlock, pool, decided)
  BY <1>3, <1>7, <1>8, <1>9, CoreLowered
<1>11. ChainCore'
  BY <1>1, <1>2, <1>5, <1>6, <1>10 DEF ChainCore
<1>12. JobOnChain'
  BY DEF JobOnChain, Idle
<1>13. final \in Branch[Tip] => final' \in Branch[Tip]
  BY <1>1, <1>4, BranchBelow
<1>14. MetaChain'
  BY <1>1, <1>13 DEF ChainInv, MetaChain, AtTick, Idle
<1>15. ChainInv'
  BY <1>1, <1>11, <1>12, <1>14 DEF ChainInv
<1>16. Moves
  BY <1>1, <1>4, <1>13 DEF Moves, OnBranch, NoNonce
<1>17. QED
  BY <1>15, <1>16

(* A proof that competes at nonce n burns a block of that nonce. *)
LEMMA BurntBySibling ==
  ASSUME NEW ks, NEW g, NEW dec, NEW n \in Nat, ContestedIn(pool, n),
         NEW z \in Block, BlockNonce[z] = n, BlockNonce[g] < n, g \in Block
  PROVE  Burnt(ks, g, pool, dec, z)
<1>1. z \in Branch[z] /\ Above(z, g) /\ BlockNonce[z] \in Nat
  BY OwnBranch, Nonces DEF Above
<1>2. \A x \in Branch[z] : ~(BlockNonce[z] <= BlockNonce[x] /\ Above(z, x))
  <2>1. \A x \in Branch[z] : BlockNonce[x] \in Nat
    BY BranchBelow, Nonces
  <2>2. QED
    BY <1>1, <2>1 DEF Above
<1>3. BurntAt(ks, g, pool, dec, z, z)
  BY <1>1, <1>2 DEF BurntAt
<1>4. QED
  BY <1>3 DEF Burnt

(* The decision for h burns what is built on the other blocks of its nonce. *)
LEMMA BurntByAuthority ==
  ASSUME RollBackInv, ChainInv, AtTick, job = Idle, NEW n \in Nat, n > BlockNonce[settled], ContestedIn(pool, n),
         NEW h \in Block, BlockNonce[h] = n, h \in decided, Processed(headers, n) \ {h} # {},
         NEW ks, \A x \in Block : Nota(ks, x) =>
                   ~/\ \E y \in Branch[x] : y # h /\ BlockNonce[y] = n /\ Proc(headers, y)
                    /\ \A a \in Branch[x] : BlockNonce[a] > n => HasAncestry(headers, a),
         NEW g \in Block, BlockNonce[g] < n,
         NEW z \in Block, Proc(headers, z), BlockNonce[z] >= n, BlockNonce[z] <= BlockNonce[final],
         z \notin Branch[Tip]
  PROVE  Burnt(ks, g, pool, decided, z)
<1>1. BlockNonce[z] \in Nat /\ final \in Block /\ BlockNonce[final] \in Nat /\ settled \in Block
      /\ BlockNonce[settled] \in Nat /\ BlockNonce[g] \in Nat
  BY Nonces DEF RollBackInv, PointersOK
<1>2. CASE BlockNonce[z] = n
  BY <1>2, BurntBySibling
<1>3. CASE BlockNonce[z] > n
  <2>1. Base = final
    BY DEF Base, Idle
  <2>2. Grounded(headers, settled, final) /\ OneBranch(headers, final, settled)
        /\ BesideOnChain(headers, final, settled, Tip)
    BY <2>1 DEF ChainInv, ChainCore, Core
  <2>3. Above(z, settled) /\ Above(final, settled)
    BY <1>1, <1>3 DEF Above
  <2>4. z \in Branch[final]
    <3>1. CASE BlockNonce[z] < BlockNonce[final]
      BY <2>2, <2>3, <3>1 DEF OneBranch, Above
    <3>2. CASE BlockNonce[z] = BlockNonce[final]
      <4>1. z = final
        BY <2>2, <2>3, <3>2 DEF BesideOnChain
      <4>2. QED
        BY <1>1, <4>1, OwnBranch
    <3>3. QED
      BY <1>1, <3>1, <3>2
  <2>5. settled \in Branch[final]
    BY <2>2 DEF Grounded
  <2>6. settled \in Branch[z]
    BY <1>1, <1>3, <2>4, <2>5, BranchLinear
  <2>7. PICK y \in Branch[z] : BlockNonce[y] = n
    BY <1>1, <1>3, <2>6, BranchAt
  <2>8. Branch[z] \subseteq Branch[final] /\ y \in Block
    BY <1>1, <2>4, <2>7, BranchBelow
  <2>9. Proc(headers, y)
    BY <1>1, <2>2, <2>7, <2>8 DEF Grounded, Above
  <2>10. y # h
    <3>1. PICK p \in Processed(headers, n) : p # h
      OBVIOUS
    <3>2. p \in Block /\ Proc(headers, p) /\ BlockNonce[p] = n
      BY <3>1 DEF Processed, HashesIn, RecordsAt, Proc, RollBackInv, headerInfo, New
    <3>3. Above(p, settled) /\ Above(final, p)
      BY <1>1, <1>3, <3>2 DEF Above
    <3>4. p \in Branch[final]
      BY <2>2, <3>2, <3>3 DEF OneBranch
    <3>5. p = y
      BY <1>1, <2>7, <2>8, <3>2, <3>4, BranchLinear
    <3>6. QED
      BY <3>1, <3>5
  <2>11. ASSUME NEW x \in Branch[z], BlockNonce[y] <= BlockNonce[x]
         PROVE  DeadBy(decided, x) /\ ~Nota(ks, x)
    <3>1. x \in Block /\ y \in Branch[x] /\ Branch[x] \subseteq Branch[z]
      BY <2>7, <2>11, BranchLinear, BranchBelow
    <3>2. h \notin Branch[x]
      <4>1. SUFFICES ASSUME h \in Branch[x] PROVE FALSE
        OBVIOUS
      <4>2. h = y
        BY <2>7, <3>1, <4>1, BranchLinear
      <4>3. QED
        BY <2>10, <4>2
    <3>3. DeadBy(decided, x)
      BY <2>7, <2>11, <3>2 DEF DeadBy
    <3>4. ASSUME NEW a \in Branch[x], BlockNonce[a] > n PROVE HasAncestry(headers, a)
      <4>1. a \in Branch[final] /\ a \in Block
        BY <2>8, <3>1, BranchBelow
      <4>2. Above(a, settled)
        BY <1>1, <3>4, <4>1, Nonces DEF Above
      <4>3. Proc(headers, a)
        BY <2>2, <4>1, <4>2 DEF Grounded
      <4>4. QED
        BY <4>3 DEF Proc, ChainInv, ProvenRecords, HasAncestry
    <3>5. ~Nota(ks, x)
      BY <2>7, <2>9, <2>10, <3>1, <3>4
    <3>6. QED
      BY <3>3, <3>5
  <2>12. BurntAt(ks, g, pool, decided, z, y)
    BY <1>1, <2>7, <2>11 DEF BurntAt, Above
  <2>13. QED
    BY <2>8, <2>12 DEF Burnt
<1>4. QED
  BY <1>1, <1>2, <1>3

LEMMA ContestedSame ==
  ASSUME NEW n, Contested(n)
  PROVE  ContestedIn(pool, n)
BY DEF Contested, ContestedIn

LEMMA ReconcileSwitchChain ==
  ASSUME RollBackInv, ChainInv, headers' \subseteq headerInfo, ReconcileSwitch
  PROVE  ChainInv' /\ Moves
<1>1. PICK n, h : n = evidence.nonce /\ h = evidence.competitor
  OBVIOUS
<1>2. /\ AtTick /\ job = Idle /\ h \in pool /\ h \in decided /\ evidence # NoEvidence
      /\ reconcileEvidenceStillApplies(evidence)
      /\ UNCHANGED <<isMeta, pool, job, decided, head, committing, boot, pending>>
  BY <1>1 DEF ReconcileSwitch
<1>3. n \in Nat /\ evidence.local # h /\ (~evidence.byAuthority => Contested(n))
  BY <1>1, <1>2 DEF RollBackInv, EvidenceOK
<1>4. headers \subseteq headerInfo /\ ProvenRecords(headers) /\ decided \subseteq Canonical
  BY DEF RollBackInv, ChainInv, LoopOK
<1>5. CASE UNCHANGED <<headers, final, settled>>
  <2>1. SameProc(headers, headers') /\ NoDeadNotarized(headers, headers', decided) /\ ProvenRecords(headers')
    BY <1>4, <1>5, SameRecords
  <2>2. QED
    BY <1>2, <1>4, <1>5, <2>1, ChainCallback
<1>6. CASE /\ evidence.byAuthority /\ canReconcileFromAuthority(n, h)
           /\ ReconcileFinalCheckpointFromAuthority(n, h) /\ rollBackNonce' = n
  <2>1. n > BlockNonce[settled] /\ h \in Notarized(headers, n) /\ Processed(headers, n) \ {h} # {}
    BY <1>6 DEF canReconcileFromAuthority
  <2>2. UNCHANGED settled /\ LowerFinal(headers', n)
    BY <1>6 DEF ReconcileFinalCheckpointFromAuthority
  <2>3. h \in Block /\ BlockNonce[h] = n
    BY <1>4, <2>1 DEF Notarized, HashesIn, RecordsAt, headerInfo, New
  <2>4. ContestedIn(pool, n)
    <3>1. evidence.local \in Processed(headers, n)
      BY <1>1, <1>2, <1>6 DEF reconcileEvidenceStillApplies
    <3>2. evidence.local \in pool /\ BlockNonce[evidence.local] = n
      BY <3>1 DEF Processed, HashesIn, RecordsAt, RollBackInv, ProcessedProven
    <3>3. QED
      BY <1>2, <1>3, <2>3, <3>2 DEF ContestedIn
  <2> DEFINE others == {i.hash : i \in RecordsAt(headers, n)} \ {h}
             Rejected(b) == /\ others \cap Branch[b] # {}
                            /\ \A a \in Branch[b] : BlockNonce[a] > n => HasAncestry(headers, a)
             kept == {i \in headers : ~(i.state = "Notarized" /\ Rejected(i.hash))}
             marked(i) == IF i.hash = h /\ i.state = "Notarized"
                          THEN [i EXCEPT !.authority = TRUE] ELSE i
  <2>5. headers' = {marked(i) : i \in kept}
    BY <1>6 DEF ReconcileFinalCheckpointFromAuthority
  <2>6. \A i \in headerInfo : /\ marked(i).state = i.state /\ marked(i).hash = i.hash
                              /\ i.state = "Processed" => marked(i) = i
    BY DEF headerInfo
  <2>7. kept \subseteq headerInfo /\ kept \subseteq headers
    BY <1>4
  <2>8. \A i \in headers : i.state = "Processed" => i \in kept
    OBVIOUS
  <2>9. \A i \in kept : i.state = "Notarized" => ~Rejected(i.hash)
    OBVIOUS
  <2> HIDE DEF marked, kept, Rejected
  <2>10. ProvenRecords(headers')
    BY <1>4, <2>5, <2>6, <2>7 DEF ProvenRecords
  <2>11. \A x : Proc(headers', x) <=> Proc(headers, x)
    BY <2>5, <2>6, <2>7, <2>8 DEF Proc
  <2>12. \A x : Nota(headers', x) => Nota(headers, x) /\ ~Rejected(x)
    BY <2>5, <2>6, <2>7, <2>9 DEF Nota
  <2>13. \A x \in Block : Nota(headers', x) =>
           ~/\ \E y \in Branch[x] : y # h /\ BlockNonce[y] = n /\ Proc(headers, y)
            /\ \A a \in Branch[x] : BlockNonce[a] > n => HasAncestry(headers, a)
    <3>1. \A y : y # h /\ BlockNonce[y] = n /\ Proc(headers, y) => y \in others
      BY DEF Proc, RecordsAt
    <3> HIDE DEF others
    <3>2. QED
      BY <2>12, <3>1 DEF Rejected
  <2>14. final' \in Block
    BY <1>3, <1>4, <2>1, <2>2, LoweredBelow DEF RollBackInv
  <2>15. ASSUME NEW z \in Block, Proc(headers', z), BlockNonce[z] >= n, BlockNonce[z] <= BlockNonce[final],
                z \notin Branch[Tip], BlockNonce[final'] < n
         PROVE  Burnt(headers', final', pool, decided, z)
    <3>1. Proc(headers, z)
      BY <2>11, <2>15
    <3>2. QED
      BY <1>2, <1>3, <2>1, <2>3, <2>4, <2>13, <2>14, <2>15, <3>1, BurntByAuthority
  <2>16. QED
    BY <1>2, <1>3, <1>6, <2>1, <2>2, <2>10, <2>11, <2>12, <2>15, ChainLowered
<1>7. CASE /\ ~evidence.byAuthority /\ canReconcileFinal(n) /\ ReconcileFinalCheckpoint(n)
           /\ rollBackNonce' = n
  <2>1. n > BlockNonce[settled] /\ BlockNonce[final] = n /\ ContestedIn(pool, n)
    BY <1>3, <1>7, ContestedSame DEF canReconcileFinal
  <2>2. UNCHANGED <<settled, headers>> /\ LowerFinal(headers', n)
    BY <1>7 DEF ReconcileFinalCheckpoint
  <2>3. final' \in Block
    BY <1>3, <1>4, <2>1, <2>2, LoweredBelow DEF RollBackInv
  <2>4. ASSUME NEW z \in Block, BlockNonce[z] >= n, BlockNonce[z] <= BlockNonce[final], BlockNonce[final'] < n
        PROVE  Burnt(headers', final', pool, decided, z)
    <3>1. BlockNonce[z] = n
      BY <1>3, <2>1, <2>4, Nonces
    <3>2. QED
      BY <1>3, <2>1, <2>3, <2>4, <3>1, BurntBySibling
  <2>5. ProvenRecords(headers')
    BY <1>4, <2>2
  <2>6. QED
    BY <1>2, <1>3, <1>7, <2>1, <2>2, <2>4, <2>5, ChainLowered
<1>8. QED
  BY <1>1, <1>5, <1>6, <1>7 DEF ReconcileSwitch, canReconcile, SetRollBackNonce, checkpointVars

LEMMA ReconcileDivergenceChain ==
  ASSUME RollBackInv, ChainInv, headers' \subseteq headerInfo, NEW n \in BlockNonces, ReconcileDivergence(n)
  PROVE  ChainInv' /\ Moves
<1>1. /\ AtTick /\ job = Idle /\ n > BlockNonce[settled] /\ rollBackNonce' = n
      /\ UNCHANGED <<isMeta, pool, job, decided, head, committing, boot, pending>>
      /\ ReconcileFinalCheckpointBelow(n)
  BY DEF ReconcileDivergence, SetRollBackNonce
<1>2. /\ UNCHANGED settled /\ LowerFinal(headers', n)
      /\ headers' = {i \in headers : BlockNonce[i.hash] < n}
  BY <1>1 DEF ReconcileFinalCheckpointBelow
<1>3. n \in Nat
  BY ForkAssumption DEF BlockNonces, New
<1>4. ProvenRecords(headers')
  BY <1>2 DEF ChainInv, ProvenRecords
<1>5. \A x \in Block : /\ Proc(headers', x) => Proc(headers, x) /\ BlockNonce[x] < n
                       /\ Proc(headers, x) /\ BlockNonce[x] < n => Proc(headers', x)
                       /\ Nota(headers', x) => Nota(headers, x)
  BY <1>2 DEF Proc, Nota
<1>6. \A z \in Block : ~(Proc(headers', z) /\ BlockNonce[z] >= n)
  BY <1>3, <1>5, Nonces
<1>7. QED
  BY <1>1, <1>2, <1>3, <1>4, <1>5, <1>6, ChainLowered

-----------------------------------------------------------------------------
(* The authority's selection.                                                *)

(* What the authority decided is not against another of its decisions. *)
LEMMA DecidedAlive ==
  ASSUME LoopOK, NEW h \in decided
  PROVE  ~DeadBy(decided, h)
<1> SUFFICES ASSUME NEW c \in decided, BlockNonce[c] <= BlockNonce[h] PROVE c \in Branch[h]
  BY DEF DeadBy
<1>1. c \in Canonical /\ h \in Canonical
  BY DEF LoopOK
<1>2. c \in Block /\ h \in Block /\ (c \in Branch[h] \/ h \in Branch[c])
  BY <1>1, SyncAssumption DEF New
<1>3. CASE h \in Branch[c]
  <2>1. BlockNonce[h] <= BlockNonce[c] /\ (BlockNonce[h] = BlockNonce[c] => h = c)
    BY <1>2, <1>3, BranchBelow
  <2>2. h = c
    BY <1>2, <2>1, Nonces
  <2>3. QED
    BY <1>2, <2>2, OwnBranch
<1>4. QED
  BY <1>2, <1>3

LEMMA ResolveAmbiguityChain ==
  ASSUME FlagInv, RollBackInv, ChainInv, NEW n \in BlockNonces, ResolveAmbiguity(n)
  PROVE  ChainInv' /\ Moves
<1>1. /\ UNCHANGED <<isMeta, pool, pending, head, committing, boot, decided>>
      /\ isAmbiguousAt(headers, n)
  BY DEF ResolveAmbiguity, AmbiguousNonce
<1>2. ~isMeta
  BY <1>1, NoneNotarized DEF FlagInv, MetaNotNotarized, isAmbiguous
<1>3. ASSUME NEW h \in decided, job = Idle, applyNotarizedHeaderSelection(n, h)
      PROVE  ChainInv' /\ Moves
  <2> DEFINE mark(i) == IF i.hash = h /\ i.state = "Notarized"
                        THEN [i EXCEPT !.authority = TRUE] ELSE i
             chosen(i) == [i EXCEPT !.state = "Notarized", !.authority = TRUE]
             ls == {j \in headers : j.hash = h /\ j.state = "Processed"}
             ks == {j \in headers : ~(/\ j.state = "Notarized" /\ j.hash # h
                                      /\ BlockNonce[j.hash] = n)}
             selected == IF h \in Notarized(headers, n) THEN {} ELSE {chosen(i) : i \in ls}
             kept == selected \cup {mark(i) : i \in ks}
  <2>1. computeFinalCheckpoint(kept, isAmbiguous(kept), "other", Anchor)
    BY <1>3 DEF applyNotarizedHeaderSelection
  <2>2. \A i \in headerInfo : /\ mark(i) \in headerInfo /\ chosen(i) \in headerInfo
                              /\ mark(i).state = i.state /\ mark(i).hash = i.hash
                              /\ mark(i).hasProof = i.hasProof /\ mark(i).anc = i.anc
                              /\ chosen(i).state = "Notarized" /\ chosen(i).hash = i.hash
    BY DEF headerInfo, States
  <2>3. /\ headers \subseteq headerInfo /\ ks \subseteq headers /\ ls \subseteq headers
        /\ \A i \in headers : i.state = "Processed" => i \in ks
        /\ \A i \in ls : i.hash = h
    BY DEF RollBackInv
  <2> HIDE DEF mark, chosen, ks, ls
  <2>4. kept \subseteq headerInfo
    BY <2>2, <2>3
  <2>5. \A i \in kept : \/ i.state = "Notarized" /\ i.hash = h
                        \/ \E j \in headers : /\ i.hash = j.hash /\ i.state = j.state
                                              /\ i.hasProof = j.hasProof /\ i.anc = j.anc
    BY <2>2, <2>3
  <2>6. \A j \in headers : j.state = "Processed" =>
          \E i \in kept : i.hash = j.hash /\ i.state = j.state
    BY <2>2, <2>3
  <2> HIDE DEF kept, selected
  <2>7. SameProc(headers, kept) /\ ProvenRecords(kept)
    BY <2>5, <2>6 DEF SameProc, Proc, ProvenRecords, ChainInv
  <2>8. NoDeadNotarized(headers, kept, decided)
    BY <1>3, <2>5, DecidedAlive DEF NoDeadNotarized, Nota, ChainInv
  <2>9. QED
    BY <1>1, <1>2, <1>3, <2>1, <2>4, <2>7, <2>8, ChainOther
<1>4. CASE UNCHANGED <<headers, checkpointVars, job>>
  BY <1>1, <1>4, SameRecords, ChainCallback DEF ChainInv, LoopOK, checkpointVars
<1>5. QED
  BY <1>3, <1>4 DEF ResolveAmbiguity

-----------------------------------------------------------------------------
(* The loop.                                                                 *)

LEMMA GoToOK ==
  ASSUME BootOK(boot), NEW pc, GoTo(pc)
  PROVE  BootOK(boot') /\ boot'.pc = pc
<1>1. CASE pc = "tick"
  <2>1. boot' = Tick
    BY <1>1 DEF GoTo
  <2>2. QED
    BY <1>1, <2>1 DEF BootOK, Tick
<1>2. CASE pc # "tick"
  <2>1. boot' = [boot EXCEPT !.pc = pc]
    BY <1>2 DEF GoTo
  <2>2. boot' = [pc |-> pc, target |-> boot.target, then |-> boot.then]
    BY <2>1 DEF BootOK
  <2>3. boot'.pc = pc /\ boot'.target = boot.target /\ boot'.then = boot.then
    BY <2>2
  <2>4. QED
    BY <2>2, <2>3 DEF BootOK
<1>3. QED
  BY <1>1, <1>2

(* A step of the loop that leaves the checkpoints, the processed blocks and  *)
(* the chain alone.                                                          *)
LEMMA LoopQuiet ==
  ASSUME ChainInv, UNCHANGED <<isMeta, pool, final, settled, job, pending, head, committing, decided>>,
         SameProc(headers, headers'), NoDeadNotarized(headers, headers', decided), ProvenRecords(headers'),
         BootOK(boot'), boot'.pc \notin {"restore", "finish"}, pending = NoPending \/ boot'.pc = "tick"
  PROVE  ChainInv' /\ Moves
<1>1. Tip' = Tip
  BY DEF Tip
<1>2. LoopOK'
  BY DEF ChainInv, LoopOK
<1>3. ChainInv'
  BY <1>1, <1>2, ChainFrame DEF ChainInv
<1>4. QED
  BY <1>1, <1>3, Stays

LEMMA ComputeNodeStateChain ==
  ASSUME ChainInv, ComputeNodeState
  PROVE  ChainInv' /\ Moves
<1>1. /\ UNCHANGED <<isMeta, pool, headers, final, settled, job, pending, head, committing, decided>>
      /\ pending = NoPending
  BY DEF ComputeNodeState, AtTick, checkpointVars
<1>2. BootOK(boot') /\ boot'.pc \notin {"restore", "finish"}
  <2>1. CASE fork'.detected
    <3>1. boot' = [pc |-> "rollback", target |-> fork'.nonce,
                   then |-> IF fork'.hash = NoBlock THEN "reset" ELSE "fetch"]
      BY <2>1 DEF ComputeNodeState
    <3>2. QED
      BY <3>1 DEF BootOK
  <2>2. CASE ~fork'.detected
    <3>1. PICK pc \in {"tick", "fetch"} : boot' = [boot EXCEPT !.pc = pc]
      BY <2>2 DEF ComputeNodeState
    <3>2. boot' = [pc |-> pc, target |-> boot.target, then |-> boot.then]
      BY <3>1 DEF ChainInv, LoopOK, BootOK
    <3>3. boot'.pc = pc /\ boot'.target = boot.target /\ boot'.then = boot.then
      BY <3>2
    <3>4. QED
      BY <3>1, <3>2, <3>3 DEF ChainInv, LoopOK, BootOK
  <2>3. QED
    BY <2>1, <2>2
<1>3. SameProc(headers, headers') /\ NoDeadNotarized(headers, headers', decided) /\ ProvenRecords(headers')
  BY <1>1, SameRecords DEF ChainInv
<1>4. QED
  BY <1>1, <1>2, <1>3, LoopQuiet

(* The loop goes back to the tick, on to the reset or to another rollback. *)
LEMMA QuietChain ==
  ASSUME ChainInv,
         RollBackRefused \/ RollBackInterrupted \/ NothingToSync \/ \E b \in New : SyncFail(b)
  PROVE  ChainInv' /\ Moves
<1>1. UNCHANGED <<isMeta, pool, headers, final, settled, job, pending, head, committing, decided>>
  BY DEF RollBackRefused, RollBackInterrupted, NothingToSync, SyncFail, detectorUnchanged, checkpointVars
<1>2. SameProc(headers, headers') /\ NoDeadNotarized(headers, headers', decided) /\ ProvenRecords(headers')
  BY <1>1, SameRecords DEF ChainInv
<1>3. LoopOK /\ BootOK(boot)
  BY DEF ChainInv, LoopOK
<1>4. CASE RollBackRefused
  <2>1. boot.pc = "rollback" /\ GoTo(IF boot.then = "reset" THEN "reset" ELSE "tick")
    BY <1>4 DEF RollBackRefused
  <2>2. pending = NoPending
    BY <1>3, <2>1 DEF LoopOK
  <2>3. BootOK(boot') /\ boot'.pc \in {"reset", "tick"}
    BY <1>3, <2>1, GoToOK
  <2>4. QED
    BY <1>1, <1>2, <2>2, <2>3, LoopQuiet
<1>5. CASE RollBackInterrupted
  <2>1. BootOK(boot') /\ boot'.pc = "tick"
    BY <1>3, <1>5, GoToOK DEF RollBackInterrupted
  <2>2. QED
    BY <1>1, <1>2, <2>1, LoopQuiet
<1>6. CASE NothingToSync
  <2>1. BootOK(boot') /\ boot'.pc = "tick"
    BY <1>3, <1>6, GoToOK DEF NothingToSync
  <2>2. QED
    BY <1>1, <1>2, <2>1, LoopQuiet
<1>7. CASE \E b \in New : SyncFail(b)
  <2>1. boot.pc = "fetch"
    BY <1>7 DEF SyncFail
  <2>2. pending = NoPending
    BY <1>3, <2>1 DEF LoopOK
  <2>3. boot' = Tick \/ boot' = [pc |-> "rollback", target |-> BlockNonce[head], then |-> "tick"]
    BY <1>7 DEF SyncFail
  <2>4. BootOK(boot') /\ boot'.pc \in {"rollback", "tick"}
    BY <2>3 DEF BootOK, Tick
  <2>5. QED
    BY <1>1, <1>2, <2>2, <2>4, LoopQuiet
<1>8. QED
  BY <1>4, <1>5, <1>6, <1>7

LEMMA ResetChain ==
  ASSUME ChainInv, ResetAfterRollBack
  PROVE  ChainInv' /\ Moves
<1>1. UNCHANGED <<isMeta, pool, final, settled, job, pending, head, committing, decided>>
  BY DEF ResetAfterRollBack, ResetProbableHighestNonce, checkpointVars
<1>2. headers' \subseteq headers /\ \A i \in headers : i.hasProof => i \in headers'
  BY DEF ResetAfterRollBack, ResetProbableHighestNonce
<1>3. SameProc(headers, headers') /\ NoDeadNotarized(headers, headers', decided) /\ ProvenRecords(headers')
  BY <1>2 DEF ChainInv, ProvenRecords, SameProc, NoDeadNotarized, Proc, Nota
<1>4. BootOK(boot') /\ boot'.pc = "tick"
  BY GoToOK DEF ResetAfterRollBack, ChainInv, LoopOK
<1>5. QED
  BY <1>1, <1>3, <1>4, LoopQuiet

LEMMA CommitEndChain ==
  ASSUME ChainInv, CommitEnd
  PROVE  ChainInv' /\ Moves
<1>1. /\ UNCHANGED <<isMeta, pool, headers, final, settled, job, pending, decided>>
      /\ committing # NoBlock /\ job.kind # "commit" /\ head' = committing /\ committing' = NoBlock
  BY DEF CommitEnd, detectorVars, checkpointVars
<1>2. LoopOK /\ pending = NoPending /\ committing \in New /\ BootOK(boot)
  BY <1>1 DEF ChainInv, LoopOK
<1>3. Tip' = Tip
  BY <1>1 DEF Tip
<1>4. BootOK(boot') /\ boot'.pc \notin {"restore", "finish"}
  <2>1. CASE boot.pc = "commit"
    BY <1>2, <2>1, GoToOK DEF CommitEnd
  <2>2. CASE UNCHANGED boot
    BY <1>2, <2>2 DEF LoopOK
  <2>3. QED
    BY <2>1, <2>2 DEF CommitEnd
<1>5. LoopOK'
  BY <1>1, <1>2, <1>4 DEF LoopOK, New
<1>6. SameProc(headers, headers') /\ NoDeadNotarized(headers, headers', decided) /\ ProvenRecords(headers')
  BY <1>1, SameRecords DEF ChainInv
<1>7. ChainInv'
  BY <1>1, <1>3, <1>5, <1>6, ChainFrame
<1>8. QED
  BY <1>1, <1>3, <1>7, Stays

-----------------------------------------------------------------------------
(* The rollback.                                                             *)

LEMMA RollBackBeginChain ==
  ASSUME RollBackInv, ChainInv, RollBackBegin
  PROVE  ChainInv' /\ Moves
<1>1. /\ UNCHANGED <<isMeta, pool, headers, final, settled, job, head, committing, decided>>
      /\ boot.pc = "rollback" /\ committing = NoBlock /\ BlockNonce[head] > BlockNonce[final]
      /\ pending' = [block |-> head, restored |-> FALSE] /\ GoTo("restore")
  BY DEF RollBackBegin, shouldAllowRollbackV3, detectorUnchanged, checkpointVars
<1>2. LoopOK /\ head \in Block /\ final \in Block /\ pending = NoPending /\ BootOK(boot)
  BY <1>1 DEF ChainInv, LoopOK, RollBackInv, PointersOK
<1>3. head \in New /\ Above(head, final)
  BY <1>1, <1>2, AboveOneIsNew DEF Above
<1>4. Tip = head /\ Tip' = head /\ pending.block = NoBlock /\ head \in Branch[head]
  BY <1>1, <1>2, OwnBranch DEF Tip, NoPending
<1>5. pending'.block = head /\ pending'.restored = FALSE /\ pending' # NoPending
  <2>1. head # NoBlock
    BY <1>2, ForkAssumption DEF NoBlock
  <2>2. QED
    BY <1>1, <2>1 DEF NoPending
<1>6. BootOK(boot') /\ boot'.pc = "restore"
  BY <1>1, <1>2, GoToOK
<1>7. LoopOK'
  <2>1. pending' \in [block : New, restored : BOOLEAN]
    BY <1>1, <1>3
  <2>2. QED
    BY <1>1, <1>2, <1>5, <1>6, <2>1 DEF LoopOK
<1>8. Base' = Base
  BY <1>1 DEF Base
<1>9. Core(headers, final, settled, Base, head, head, pool, decided)
  BY <1>3, <1>4, CoreBegun DEF ChainInv, ChainCore
<1>10. ChainCore'
  BY <1>1, <1>4, <1>5, <1>8, <1>9 DEF ChainCore
<1>11. JobOnChain'
  <2>1. job.pc = "set" => job.child \in Block
    <3>1. job.pc = "set" => job \in Jobs
      BY JobShape
    <3>2. QED
      BY <3>1 DEF Jobs
  <2>2. job.pc = "set" => job.child \in Branch[head]
    BY <1>4, <2>1, ForkAssumption DEF ChainInv, JobOnChain, NoBlock
  <2>3. QED
    BY <1>1, <1>4, <2>2 DEF ChainInv, JobOnChain
<1>12. MetaChain'
  <2>1. isMeta => \A z \in Block : Proc(headers, z) /\ Above(z, settled) => z \in Branch[head]
    BY <1>4, ForkAssumption DEF ChainInv, MetaChain, NoBlock
  <2>2. QED
    BY <1>1, <1>3, <1>4, <1>5, <2>1 DEF ChainInv, MetaChain
<1>13. ChainInv'
  BY <1>1, <1>7, <1>10, <1>11, <1>12 DEF ChainInv
<1>14. QED
  BY <1>1, <1>4, <1>13, Stays

LEMMA RestoreChain ==
  ASSUME ChainInv, RestoreBlockIntoPools
  PROVE  ChainInv' /\ Moves
<1>1. /\ UNCHANGED <<isMeta, pool, headers, final, settled, job, committing, decided>>
      /\ boot.pc = "restore" /\ ~pending.restored /\ head' = ParentOf[head]
      /\ pending' = [pending EXCEPT !.restored = TRUE] /\ GoTo("finish")
  BY DEF RestoreBlockIntoPools, detectorUnchanged, checkpointVars
<1>2. PICK pb \in New : pb = pending.block /\ pb = head
  BY <1>1 DEF ChainInv, LoopOK
<1>3. /\ LoopOK /\ pending \in [block : New, restored : BOOLEAN] /\ committing = NoBlock /\ BootOK(boot)
      /\ pending # NoPending
  BY <1>1 DEF ChainInv, LoopOK
<1>4. /\ pb \in Block /\ ParentOf[pb] \in Block /\ Branch[pb] = {pb} \cup Branch[ParentOf[pb]]
      /\ BlockNonce[pb] = BlockNonce[ParentOf[pb]] + 1
  BY ChildBranch
<1>5. Tip = pb /\ Tip' = ParentOf[pb]
  BY <1>1, <1>2, <1>3 DEF Tip
<1>6. pending' = [block |-> pb, restored |-> TRUE]
  BY <1>1, <1>2, <1>3
<1>7. /\ pending'.block = pb /\ pending'.restored = TRUE /\ pending' # NoPending
      /\ pending' \in [block : New, restored : BOOLEAN]
  BY <1>6 DEF NoPending
<1>8. BootOK(boot') /\ boot'.pc = "finish"
  BY <1>1, <1>3, GoToOK
<1>9. LoopOK'
  BY <1>1, <1>2, <1>3, <1>4, <1>7, <1>8 DEF LoopOK
<1>10. Core(headers, final, settled, Base, ParentOf[pb], pb, pool, decided)
  BY <1>2, <1>5, CoreRestored DEF ChainInv, ChainCore
<1>11. ChainCore'
  BY <1>1, <1>5, <1>7, <1>10 DEF ChainCore, Base
<1>12. JobOnChain'
  BY <1>1, <1>2, <1>4, <1>5, <1>7 DEF ChainInv, JobOnChain
<1>13. MetaChain'
  <2>1. isMeta => final # pb
    <3>1. BlockNonce[pb] \in Nat
      BY <1>4, Nonces
    <3>2. QED
      BY <1>2, <1>3, <3>1 DEF ChainInv, MetaChain, Above
  <2>2. QED
    BY <1>1, <1>2, <1>3, <1>4, <1>5, <1>7, <2>1 DEF ChainInv, MetaChain
<1>14. ChainInv'
  BY <1>1, <1>9, <1>11, <1>12, <1>13 DEF ChainInv
<1>15. Moves
  BY <1>1, <1>2, <1>4, <1>5, Stays
<1>16. QED
  BY <1>14, <1>15

LEMMA ResumedChain ==
  ASSUME ChainInv, RollBackResumed
  PROVE  ChainInv' /\ Moves
<1>1. /\ UNCHANGED <<isMeta, pool, headers, final, settled, job, head, committing, decided>>
      /\ boot.pc = "tick" /\ pending # NoPending
  BY DEF RollBackResumed, detectorUnchanged, checkpointVars
<1>2. /\ LoopOK /\ committing = NoBlock /\ BootOK(boot) /\ Tip = head /\ Tip' = head
      /\ pending \in [block : New, restored : BOOLEAN]
  BY <1>1 DEF ChainInv, LoopOK, Tip
<1>3. CASE /\ ~pending.restored /\ BlockNonce[pending.block] <= BlockNonce[final]
           /\ pending' = NoPending /\ UNCHANGED boot
  <2>1. head = pending.block /\ head \in Block /\ head \in Branch[head]
    BY <1>1, <1>2, <1>3, OwnBranch DEF LoopOK
  <2>2. pending'.block = NoBlock
    BY <1>3 DEF NoPending
  <2>3. LoopOK'
    BY <1>1, <1>2, <1>3 DEF LoopOK
  <2>4. Core(headers, final, settled, Base, head, NoBlock, pool, decided)
    BY <1>2, <2>1, CoreDropped DEF ChainInv, ChainCore
  <2>5. ChainCore'
    BY <1>1, <1>2, <2>2, <2>4 DEF ChainCore, Base
  <2>6. JobOnChain'
    BY <1>1, <1>2, <2>1 DEF ChainInv, JobOnChain
  <2>7. ~isMeta
    <3>1. BlockNonce[pending.block] \in Nat /\ BlockNonce[final] \in Nat
      BY <2>1, Nonces DEF ChainInv, ChainCore, Core, Places
    <3>2. QED
      BY <1>1, <1>3, <3>1 DEF ChainInv, MetaChain, Above
  <2>8. MetaChain'
    BY <1>1, <2>7 DEF MetaChain
  <2>9. ChainInv'
    BY <1>1, <2>3, <2>5, <2>6, <2>8 DEF ChainInv
  <2>10. QED
    BY <1>1, <1>2, <2>9, Stays
<1>4. CASE /\ boot' = [pc |-> IF pending.restored THEN "finish" ELSE "restore",
                       target |-> BlockNonce[pending.block], then |-> "tick"]
           /\ UNCHANGED pending
  <2>1. BootOK(boot') /\ boot'.pc = IF pending.restored THEN "finish" ELSE "restore"
    BY <1>4 DEF BootOK
  <2>2. LoopOK'
    BY <1>1, <1>2, <1>4, <2>1 DEF LoopOK
  <2>3. SameProc(headers, headers') /\ NoDeadNotarized(headers, headers', decided) /\ ProvenRecords(headers')
    BY <1>1, SameRecords DEF ChainInv
  <2>4. ChainInv'
    BY <1>1, <1>2, <1>4, <2>2, <2>3, ChainFrame
  <2>5. QED
    BY <1>1, <1>2, <2>4, Stays
<1>5. QED
  BY <1>3, <1>4 DEF RollBackResumed

(* What RemoveCommittedHeader leaves of the records of b. *)
LEMMA RevertedRecords ==
  ASSUME RollBackInv, ChainInv, NEW b \in New, RemoveCommittedHeader(b), ~(BlockNonce[b] <= BlockNonce[final])
  PROVE  \E ks : /\ ks \subseteq headerInfo /\ ProvenRecords(ks) /\ NoDeadNotarized(headers, ks, decided)
                 /\ \A x \in Block : x # b => (Proc(ks, x) <=> Proc(headers, x))
                 /\ ~Proc(ks, b)
                 /\ ComputeFinalAndProbable(ks, isAmbiguous(ks))
<1> DEFINE gone == {i \in headers : i.hash = b /\ i.state # "Notarized"}
           proven == {i \in gone : i.hasProof}
           known == \E i \in proven : i.anc
           left == IF proven = {} THEN {} ELSE {Info(b, "Received", TRUE, known)}
           kept == (headers \ gone) \cup left
<1>1. ComputeFinalAndProbable(kept, isAmbiguous(kept))
  BY DEF RemoveCommittedHeader
<1>2. known \in BOOLEAN
  OBVIOUS
<1> HIDE DEF known
<1>3. \A i \in left : i \in headerInfo /\ i.state = "Received" /\ i.hash = b
  <2>1. \A k \in BOOLEAN : /\ Info(b, "Received", TRUE, k) \in headerInfo
                          /\ Info(b, "Received", TRUE, k).state = "Received"
                          /\ Info(b, "Received", TRUE, k).hash = b
    BY DEF Info, headerInfo, States
  <2>2. QED
    BY <1>2, <2>1
<1> HIDE DEF left
<1>4. \A i \in headers : i \in kept \/ (i.hash = b /\ i.state # "Notarized")
  OBVIOUS
<1>5. \A i \in kept : \/ i \in headers /\ ~(i.hash = b /\ i.state # "Notarized")
                      \/ i \in headerInfo /\ i.state = "Received" /\ i.hash = b
  BY <1>3
<1> HIDE DEF kept
<1>6. /\ kept \subseteq headerInfo /\ ProvenRecords(kept) /\ NoDeadNotarized(headers, kept, decided)
      /\ \A x \in Block : x # b => (Proc(kept, x) <=> Proc(headers, x))
      /\ ~Proc(kept, b)
  BY <1>4, <1>5 DEF RollBackInv, ChainInv, ProvenRecords, NoDeadNotarized, Proc, Nota
<1>7. QED
  BY <1>1, <1>6

LEMMA FinishChain ==
  ASSUME RollBackInv, ChainInv, RollBackFinish
  PROVE  ChainInv' /\ Moves
<1>1. /\ boot.pc = "finish" /\ job = Idle /\ RemoveCommittedHeader(pending.block) /\ pending' = NoPending
      /\ GoTo(IF BlockNonce[pending.block] > boot.target THEN "rollback"
              ELSE IF boot.then = "fetch" /\ ambiguous' THEN "tick" ELSE boot.then)
      /\ UNCHANGED <<isMeta, pool, decided, head, committing>>
  BY DEF RollBackFinish
<1>2. /\ LoopOK /\ committing = NoBlock /\ BootOK(boot) /\ pending # NoPending
      /\ pending \in [block : New, restored : BOOLEAN]
  BY <1>1 DEF ChainInv, LoopOK
<1>3. PICK b \in New : b = pending.block
  BY <1>2
<1>4. Tip' = Tip /\ pending'.block = NoBlock /\ b \in Block
  BY <1>1, <1>2, <1>3 DEF Tip, NoPending, New
<1>5. BootOK(boot') /\ boot'.pc \in {"rollback", "tick", "fetch", "reset"}
  <2>1. PICK pc \in {"rollback", "tick", "fetch", "reset"} : GoTo(pc)
    BY <1>1, <1>2 DEF BootOK
  <2>2. QED
    BY <1>2, <2>1, GoToOK
<1>6. LoopOK'
  BY <1>1, <1>2, <1>5 DEF LoopOK
<1>7. Core(headers, final, settled, final, Tip, b, pool, decided)
  BY <1>1, <1>3 DEF ChainInv, ChainCore, Base, Idle
<1>8. BlockNonce[b] \in Nat /\ BlockNonce[final] \in Nat
  BY <1>4, Nonces DEF RollBackInv, PointersOK
<1>9. CASE BlockNonce[b] <= BlockNonce[final]
  <2>1. UNCHANGED <<headers, final, settled, job>> /\ ~Above(b, final)
    BY <1>1, <1>3, <1>8, <1>9 DEF RemoveCommittedHeader, checkpointVars, Above
  <2>2. SameProc(headers, headers') /\ NoDeadNotarized(headers, headers, decided) /\ ProvenRecords(headers')
    BY <2>1, SameRecords DEF ChainInv
  <2>3. Core(headers, final, settled, final, Tip, NoBlock, pool, decided)
    BY <1>7, <2>1, <2>2, CoreFinished
  <2>4. ~isMeta
    BY <1>2, <1>3, <2>1 DEF ChainInv, MetaChain
  <2>5. ChainCore' /\ JobOnChain' /\ MetaChain'
    BY <1>1, <1>4, <2>1, <2>3, <2>4 DEF ChainCore, Base, JobOnChain, MetaChain, Idle
  <2>6. ChainInv'
    BY <1>6, <2>2, <2>5 DEF ChainInv
  <2>7. QED
    BY <1>4, <2>1, <2>6, Stays
<1>10. CASE ~(BlockNonce[b] <= BlockNonce[final])
  <2>1. PICK ks : /\ ks \subseteq headerInfo /\ ProvenRecords(ks) /\ NoDeadNotarized(headers, ks, decided)
                  /\ \A x \in Block : x # b => (Proc(ks, x) <=> Proc(headers, x))
                  /\ ~Proc(ks, b)
                  /\ ComputeFinalAndProbable(ks, isAmbiguous(ks))
    BY <1>1, <1>3, <1>10, RevertedRecords
  <2>2. Above(b, final)
    BY <1>8, <1>10 DEF Above
  <2>3. Core(ks, final, settled, final, Tip, NoBlock, pool, decided)
    BY <1>7, <2>1, <2>2, CoreFinished
  <2>4. CASE isMeta
    <3>1. headers' = ks /\ UNCHANGED <<final, settled, job>>
      BY <2>1, <2>4 DEF ComputeFinalAndProbable
    <3>2. ChainCore'
      BY <1>1, <1>4, <2>3, <3>1 DEF ChainCore, Base, Idle
    <3>3. JobOnChain'
      BY <1>1, <3>1 DEF JobOnChain, Idle
    <3>4. MetaChain'
      BY <1>1, <1>3, <1>4, <2>1, <2>4, <3>1 DEF ChainInv, MetaChain, Idle
    <3>5. ChainInv'
      BY <1>6, <2>1, <3>1, <3>2, <3>3, <3>4 DEF ChainInv
    <3>6. QED
      BY <1>4, <3>1, <3>5, Stays
  <2>5. CASE ~isMeta
    <3>1. computeFinalCheckpoint(ks, isAmbiguous(ks), "other", Anchor)
      BY <2>1, <2>5 DEF ComputeFinalAndProbable
    <3>2. /\ Core(headers', final', settled', final', Tip, NoBlock, pool, decided)
          /\ ProvenRecords(headers') /\ Settles
          /\ job' = [pc |-> "clean", kind |-> "other", block |-> Anchor]
      BY <2>1, <2>3, <3>1, ChainUpdate
    <3>3. job'.pc = "clean" /\ job'.kind = "other"
      BY <3>2
    <3>4. ChainCore'
      BY <1>1, <1>4, <3>2, <3>3 DEF ChainCore, Base
    <3>5. JobOnChain' /\ MetaChain'
      BY <1>1, <2>5, <3>3 DEF JobOnChain, MetaChain
    <3>6. ChainInv'
      BY <1>6, <3>2, <3>4, <3>5 DEF ChainInv
    <3>7. QED
      BY <1>4, <3>2, <3>6, SettlesMoves
  <2>6. QED
    BY <2>4, <2>5
<1>11. QED
  BY <1>9, <1>10

LEMMA CommitsChain ==
  ASSUME RollBackInv, ChainInv, NEW b \in New, ConsensusCommit(b) \/ SyncCommit(b)
  PROVE  ChainInv' /\ Moves
<1>1. LoopOK /\ BootOK(boot)
  BY DEF ChainInv, LoopOK
<1>2. CASE ConsensusCommit(b)
  <2>1. CommitBlock(b) /\ pending = NoPending /\ boot.pc = "tick" /\ UNCHANGED <<pending, boot>>
    BY <1>2 DEF ConsensusCommit, loopVars
  <2>2. QED
    BY <1>1, <2>1, CommitChain
<1>3. CASE SyncCommit(b)
  <2>1. CommitBlock(b) /\ boot.pc = "fetch" /\ UNCHANGED pending /\ GoTo("commit")
    BY <1>3 DEF SyncCommit
  <2>2. pending = NoPending
    BY <1>1, <2>1 DEF LoopOK
  <2>3. BootOK(boot') /\ boot'.pc = "commit"
    BY <1>1, <2>1, GoToOK
  <2>4. QED
    BY <2>1, <2>2, <2>3, CommitChain
<1>4. QED
  BY <1>2, <1>3

LEMMA LoopChain ==
  ASSUME FlagInv, RollBackInv, ChainInv, headers' \subseteq headerInfo, Loop
  PROVE  ChainInv' /\ Moves
<1>1. CASE DropEvidence
  <2>1. UNCHANGED <<isMeta, pool, headers, final, settled, job, pending, head, committing, boot, decided>>
    BY <1>1 DEF DropEvidence, detectorUnchanged, checkpointVars
  <2>2. QED
    BY <2>1, SameRecords, ChainCallback DEF ChainInv, LoopOK
<1>2. CASE ReconcileSwitch
  BY <1>2, ReconcileSwitchChain
<1>3. CASE \E n \in BlockNonces : ResolveAmbiguity(n)
  BY <1>3, ResolveAmbiguityChain
<1>4. CASE \E n \in BlockNonces : ReconcileDivergence(n)
  BY <1>4, ReconcileDivergenceChain
<1>5. CASE ComputeNodeState
  BY <1>5, ComputeNodeStateChain
<1>6. CASE RollBackRefused \/ RollBackInterrupted \/ NothingToSync \/ \E b \in New : SyncFail(b)
  BY <1>6, QuietChain
<1>7. CASE RollBackBegin
  BY <1>7, RollBackBeginChain
<1>8. CASE RestoreBlockIntoPools
  BY <1>8, RestoreChain
<1>9. CASE RollBackResumed
  BY <1>9, ResumedChain
<1>10. CASE RollBackFinish
  BY <1>10, FinishChain
<1>11. CASE ResetAfterRollBack
  BY <1>11, ResetChain
<1>12. CASE \E b \in New : SyncCommit(b)
  BY <1>12, CommitsChain
<1>13. QED
  BY <1>1, <1>2, <1>3, <1>4, <1>5, <1>6, <1>7, <1>8, <1>9, <1>10, <1>11, <1>12 DEF Loop, Reconcile

LEMMA StepChain ==
  ASSUME FlagInv, RollBackInv, ChainInv, headers' \subseteq headerInfo, [SyncNext]_syncVars
  PROVE  ChainInv' /\ Moves
<1>1. CASE DetectorStep
  BY <1>1, DetectorStepChain
<1>2. ASSUME NEW b \in New, ProofStored(b) PROVE ChainInv' /\ Moves
  BY <1>2, ProofStoredChain
<1>3. ASSUME NEW b \in New, ProofReceived(b) PROVE ChainInv' /\ Moves
  BY <1>3, ProofReceivedChain
<1>4. ASSUME NEW b \in New, HeaderReceived(b) PROVE ChainInv' /\ Moves
  BY <1>4, HeaderReceivedChain
<1>5. ASSUME NEW b \in New, ConsensusCommit(b) PROVE ChainInv' /\ Moves
  BY <1>5, CommitsChain
<1>6. ASSUME NEW h \in Notarizable, Notarize(h) PROVE ChainInv' /\ Moves
  BY <1>6, NotarizeChain, SyncAssumption
<1>7. ASSUME NEW b \in Canonical, AuthorityDecides(b) PROVE ChainInv' /\ Moves
  BY <1>7, AuthorityDecidesChain
<1>8. CASE CommitEnd
  BY <1>8, CommitEndChain
<1>9. CASE Loop
  BY <1>9, LoopChain
<1>10. CASE UNCHANGED syncVars
  <2>1. UNCHANGED <<isMeta, pool, headers, final, settled, job, pending, head, committing, boot, decided>>
    BY <1>10 DEF syncVars, detectorVars, checkpointVars, loopVars
  <2>2. QED
    BY <2>1, SameRecords, ChainCallback DEF ChainInv, LoopOK
<1>11. QED
  BY <1>1, <1>2, <1>3, <1>4, <1>5, <1>6, <1>7, <1>8, <1>9, <1>10 DEF SyncNext

LEMMA ChainAtStart ==
  ASSUME SyncInit
  PROVE  ChainInv
<1>1. /\ headers = {} /\ pool = {} /\ final = Anchor /\ settled = Anchor /\ job = Idle /\ decided = {}
      /\ head = Anchor /\ committing = NoBlock /\ boot = Tick /\ pending = NoPending
  BY DEF SyncInit
<1>2. Anchor \in Block /\ Branch[Anchor] = {Anchor} /\ BlockNonce[Anchor] \in Nat
  BY ForkAssumption, BranchStep
<1>3. Base = Anchor /\ Tip = Anchor /\ pending.block = NoBlock
  BY <1>1 DEF Base, Tip, Idle, NoPending
<1>4. \A x : ~Proc({}, x)
  BY DEF Proc
<1>5. Core({}, Anchor, Anchor, Anchor, Anchor, NoBlock, {}, {})
  BY <1>2, <1>4 DEF Core, Places, Grounded, OneBranch, BesideOnChain, RolledBackAbove, StraysBurnt,
                    Stray, Above
<1>6. ChainCore /\ ProvenRecords(headers)
  BY <1>1, <1>3, <1>5 DEF ChainCore, ProvenRecords
<1>7. JobOnChain
  BY <1>1 DEF JobOnChain, Idle
<1>8. LoopOK
  BY <1>1, <1>2 DEF LoopOK, BootOK, Tick
<1>9. MetaChain
  BY <1>1, <1>2, <1>3, <1>4 DEF MetaChain, Idle
<1>10. QED
  BY <1>6, <1>7, <1>8, <1>9 DEF ChainInv

NodeInv == FlagInv /\ RollBackInv /\ ChainInv

LEMMA StepNode ==
  ASSUME NodeInv, [SyncNext]_syncVars
  PROVE  NodeInv' /\ Moves
<1>1. FlagInv'
  BY StepFlags DEF NodeInv
<1>2. headers' \subseteq headerInfo
  BY <1>1 DEF FlagInv
<1>3. RollBackInv'
  BY <1>2, StepWaits DEF NodeInv
<1>4. ChainInv' /\ Moves
  BY <1>2, StepChain DEF NodeInv
<1>5. QED
  BY <1>1, <1>3, <1>4 DEF NodeInv

(* The three invariants hold of every state. *)
LEMMA NodeInvariant == SyncSpec => []NodeInv
<1>1. SyncInit => NodeInv
  <2> SUFFICES ASSUME SyncInit PROVE NodeInv
    OBVIOUS
  <2>1. FlagInv /\ RollBackInv
    BY StartInvariants
  <2>2. QED
    BY <2>1, ChainAtStart DEF NodeInv
<1>2. NodeInv /\ [SyncNext]_syncVars => NodeInv'
  BY StepNode
<1>3. QED
  BY <1>1, <1>2, PTL DEF SyncSpec

(* The settled block is on the branch of the final one: instant finality     *)
(* taken back, a reconciliation and a settlement by the metachain never leave *)
(* finality below the settled block or beside it, for every tree of blocks.  *)
THEOREM SettledIsBelowFinal == SyncSpec => []SettledBelowFinal
<1>1. NodeInv => SettledBelowFinal
  BY DEF NodeInv, ChainInv, ChainCore, Core, Grounded, SettledBelowFinal
<1>2. QED
  BY <1>1, NodeInvariant, PTL

(* Finality moves along its branch, but for the update that takes instant    *)
(* finality back and for a reconciliation, which orders the rollback of what *)
(* was final with it.                                                        *)
THEOREM FinalityMovesForward == SyncSpec => FinalForward
<1>1. NodeInv /\ [SyncNext]_syncVars =>
        [\/ OnBranch(final, final')
         \/ job.pc \in {"confirm", "instant"}
         \/ rollBackNonce' # NoNonce /\ BlockNonce[final'] < rollBackNonce']_final
  <2> SUFFICES ASSUME NodeInv, [SyncNext]_syncVars
               PROVE  \/ OnBranch(final, final')
                      \/ job.pc \in {"confirm", "instant"}
                      \/ rollBackNonce' # NoNonce /\ BlockNonce[final'] < rollBackNonce'
    OBVIOUS
  <2>1. QED
    BY StepNode DEF Moves
<1>2. QED
  BY <1>1, NodeInvariant, PTL DEF SyncSpec, FinalForward

(* A final block on the chain stays on it: no commit, rollback, switch or    *)
(* reconciliation leaves a final block beside the chain, but for a block     *)
(* that became final while it was being rolled back or a record such a block *)
(* left, which the metachain settles.                                        *)
THEOREM FinalStaysOnChain == SyncSpec => FinalOnChain
<1>1. NodeInv /\ [SyncNext]_syncVars =>
        [OnBranch(final, Tip) => \/ OnBranch(final', Tip')
                                 \/ final' = pending.block
                                 \/ settled' = final' /\ settled' # settled]_<<final, Tip>>
  <2> SUFFICES ASSUME NodeInv, [SyncNext]_syncVars, OnBranch(final, Tip)
               PROVE  \/ OnBranch(final', Tip')
                      \/ final' = pending.block
                      \/ settled' = final' /\ settled' # settled
    OBVIOUS
  <2>1. QED
    BY StepNode DEF Moves
<1>2. QED
  BY <1>1, NodeInvariant, PTL DEF SyncSpec, FinalOnChain

-----------------------------------------------------------------------------
(* Every variable holds a value of its kind.                                 *)

(* The nonces of the blocks, which are finitely many, are bounded. *)
BoundedTo(g, k) == \E m \in Nat : \A i \in 1..k : BlockNonce[g[i]] < m

LEMMA NoncesBounded == \E m \in Nat : \A b \in Block : BlockNonce[b] < m
<1>1. PICK n \in Nat : ExistsBijection(1..n, Block)
  BY ForkAssumption, FS_NatBijection
<1>2. PICK g \in Bijection(1..n, Block) : TRUE
  BY <1>1 DEF ExistsBijection
<1>3. /\ \A i \in 1..n : g[i] \in Block
      /\ \A b \in Block : \E i \in 1..n : g[i] = b
  BY <1>2 DEF Bijection, Injection, Surjection
<1> DEFINE T == {k \in Nat : k <= n => BoundedTo(g, k)}
<1>4. 0 \in T
  <2>1. 0 \in Nat /\ \A i \in 1..0 : BlockNonce[g[i]] < 0
    OBVIOUS
  <2>2. QED
    BY <2>1 DEF BoundedTo
<1>5. ASSUME NEW k \in Nat, k \in T PROVE k + 1 \in T
  <2>1. k + 1 <= n => BoundedTo(g, k + 1)
    <3> HAVE k + 1 <= n
    <3>1. k <= n /\ k + 1 \in 1..n /\ \A i \in 1..k : i \in 1..n
      OBVIOUS
    <3>2. PICK m \in Nat : \A i \in 1..k : BlockNonce[g[i]] < m
      BY <1>5, <3>1 DEF BoundedTo
    <3>3. PICK x \in Nat : x = BlockNonce[g[k + 1]]
      BY <1>3, <3>1, ForkAssumption
    <3>4. \A i \in 1..k : BlockNonce[g[i]] \in Nat
      BY <1>3, <3>1, ForkAssumption
    <3>5. \A i \in 1..(k + 1) : i \in 1..k \/ i = k + 1
      OBVIOUS
    <3>6. \A i \in 1..(k + 1) : BlockNonce[g[i]] < m + x + 1
      BY <3>2, <3>3, <3>4, <3>5
    <3>7. m + x + 1 \in Nat
      OBVIOUS
    <3>8. QED
      BY <3>6, <3>7 DEF BoundedTo
  <2>2. QED
    BY <2>1
<1> HIDE DEF T
<1>6. n \in T
  BY <1>4, <1>5, NatSetInduction
<1>7. PICK m \in Nat : \A i \in 1..n : BlockNonce[g[i]] < m
  BY <1>6 DEF T, BoundedTo
<1>8. QED
  BY <1>3, <1>7

(* The greatest of some nonces of blocks. *)
LEMMA MaxOfNonces ==
  ASSUME NEW S, S # {}, \A x \in S : \E b \in Block : x = BlockNonce[b]
  PROVE  Max(S) \in Nat /\ \A x \in S : x <= Max(S)
<1>1. PICK m \in Nat : \A b \in Block : BlockNonce[b] < m
  BY NoncesBounded
<1>2. S \subseteq Nat /\ \A x \in S : x < m
  BY <1>1, ForkAssumption
<1>3. QED
  BY <1>1, <1>2, MaxIsGreatest

LEMMA MaxOfTwo ==
  ASSUME NEW a \in Nat, NEW b \in Nat
  PROVE  Max({a, b}) \in Nat
<1>1. PICK S : S = {a, b}
  OBVIOUS
<1>2. S \subseteq Nat /\ S # {} /\ a + b + 1 \in Nat /\ \A x \in S : x < a + b + 1
  BY <1>1
<1>3. Max(S) \in S
  BY <1>2, MaxIsGreatest
<1>4. QED
  BY <1>1, <1>2, <1>3

-----------------------------------------------------------------------------
(* keepCheckpoints. *)

Keeps(g, cs, kept, n) ==
  g = [k \in 0..n |-> IF k = 0 THEN <<>>
                      ELSE IF cs[k] \in kept THEN Append(g[k - 1], cs[k]) ELSE g[k - 1]]

LEMMA KeepsExist ==
  ASSUME NEW cs, NEW kept
  PROVE  \A n \in Nat : \E g : Keeps(g, cs, kept, n)
<1> DEFINE T == {n \in Nat : \E g : Keeps(g, cs, kept, n)}
<1>1. 0 \in T
  <2>1. PICK g : g = [k \in 0..0 |-> <<>>]
    OBVIOUS
  <2>2. g = [k \in 0..0 |-> IF k = 0 THEN <<>>
                            ELSE IF cs[k] \in kept THEN Append(g[k - 1], cs[k]) ELSE g[k - 1]]
    BY <2>1
  <2>3. QED
    BY <2>2 DEF Keeps
<1>2. ASSUME NEW n \in Nat, n \in T PROVE n + 1 \in T
  <2>1. PICK f : Keeps(f, cs, kept, n)
    BY <1>2
  <2>2. PICK v : v = IF cs[n + 1] \in kept THEN Append(f[n], cs[n + 1]) ELSE f[n]
    OBVIOUS
  <2>3. PICK g : g = [k \in 0..(n + 1) |-> IF k <= n THEN f[k] ELSE v]
    OBVIOUS
  <2>4. \A k \in 0..(n + 1) :
          g[k] = IF k = 0 THEN <<>>
                 ELSE IF cs[k] \in kept THEN Append(g[k - 1], cs[k]) ELSE g[k - 1]
    <3>1. TAKE k \in 0..(n + 1)
    <3>2. CASE k = 0
      <4>1. g[k] = f[0] /\ 0 \in 0..n
        BY <2>3, <3>2
      <4>2. f[0] = <<>>
        BY <2>1, <4>1 DEF Keeps
      <4>3. QED
        BY <3>2, <4>1, <4>2
    <3>3. CASE k # 0 /\ k <= n
      <4>1. k \in 0..n /\ k - 1 \in 0..(n + 1) /\ k - 1 <= n
        BY <3>3
      <4>2. g[k] = f[k] /\ g[k - 1] = f[k - 1]
        BY <2>3, <4>1, <3>3
      <4>3. f[k] = IF cs[k] \in kept THEN Append(f[k - 1], cs[k]) ELSE f[k - 1]
        BY <2>1, <3>3, <4>1 DEF Keeps
      <4>4. QED
        BY <3>3, <4>2, <4>3
    <3>4. CASE k = n + 1
      <4>1. k - 1 = n /\ k # 0 /\ n \in 0..(n + 1) /\ ~(k <= n)
        BY <3>4
      <4>2. g[n] = f[n] /\ g[k] = v
        BY <2>3, <3>1, <4>1
      <4>3. QED
        BY <2>2, <3>4, <4>1, <4>2
    <3>5. QED
      BY <3>2, <3>3, <3>4
  <2>5. PICK D : D = 0..(n + 1)
    OBVIOUS
  <2>6. g = [k \in D |-> g[k]]
    BY <2>3, <2>5
  <2>7. Keeps(g, cs, kept, n + 1)
    BY <2>4, <2>5, <2>6 DEF Keeps
  <2>8. QED
    BY <2>7
<1> HIDE DEF T
<1>3. \A n \in Nat : n \in T
  BY <1>1, <1>2, NatSetInduction
<1>4. QED
  BY <1>3 DEF T

LEMMA KeptCheckpoints ==
  ASSUME NEW cs \in Seq(Block), NEW kept
  PROVE  keepCheckpoints(cs, kept) \in Seq(Block)
<1>1. PICK n \in Nat : n = Len(cs)
  OBVIOUS
<1>2. PICK g : g = CHOOSE h : Keeps(h, cs, kept, n)
  OBVIOUS
<1>3. Keeps(g, cs, kept, n)
  BY <1>2, KeepsExist
<1>4. keepCheckpoints(cs, kept) = g[n]
  BY <1>1, <1>2 DEF keepCheckpoints, Keeps
<1> DEFINE T == {k \in Nat : k <= n => g[k] \in Seq(Block)}
<1>5. 0 \in T
  <2>1. 0 \in 0..n
    OBVIOUS
  <2>2. g[0] = <<>>
    BY <1>3, <2>1 DEF Keeps
  <2>3. <<>> \in Seq(Block)
    OBVIOUS
  <2>4. QED
    BY <2>2, <2>3
<1>6. ASSUME NEW k \in Nat, k \in T PROVE k + 1 \in T
  <2> SUFFICES k + 1 <= n => g[k + 1] \in Seq(Block)
    OBVIOUS
  <2> HAVE k + 1 <= n
  <2>1. k + 1 \in 0..n /\ k + 1 # 0 /\ (k + 1) - 1 = k /\ k <= n
    OBVIOUS
  <2>2. g[k + 1] = IF cs[k + 1] \in kept THEN Append(g[k], cs[k + 1]) ELSE g[k]
    BY <1>3, <2>1 DEF Keeps
  <2>3. g[k] \in Seq(Block)
    BY <1>6, <2>1
  <2>4. cs[k + 1] \in Block
    BY <1>1, <2>1
  <2>5. Append(g[k], cs[k + 1]) \in Seq(Block)
    BY <2>3, <2>4
  <2>6. QED
    BY <2>2, <2>3, <2>5
<1> HIDE DEF T
<1>7. n \in T
  BY <1>5, <1>6, NatSetInduction
<1>8. QED
  BY <1>4, <1>7 DEF T

-----------------------------------------------------------------------------
(* The walk of computeBranchAwareProbable. *)

WalkSelected(hs, n, parent) ==
  IF Notarized(hs, n) # {}
  THEN {h \in Notarized(hs, n) : Cardinality(Notarized(hs, n)) = 1 /\ ParentOf[h] = parent}
  ELSE IF Proven(hs, n) # {} /\ allProvenHeadersHaveKnownAncestry(hs, n)
       THEN PreferredProvenChild(hs, n, parent) ELSE {}

WalkLosing(hs, last, raw, n) ==
  /\ Notarized(hs, n) = {} /\ n > BlockNonce[last]
  /\ Proven(hs, n) # {} /\ allProvenHeadersHaveKnownAncestry(hs, n)
  /\ isCompleteLosingSuffix(hs, n, raw)

WalkFrom(hs, last, raw, n, parent, rest) ==
  IF n = raw THEN raw
  ELSE IF WalkSelected(hs, n + 1, parent) = {}
       THEN IF WalkLosing(hs, last, raw, n + 1) THEN n ELSE raw
       ELSE IF /\ n + 1 <= BlockNonce[last]
               /\ Processed(hs, n + 1) # {CHOOSE x \in WalkSelected(hs, n + 1, parent) : TRUE}
            THEN raw ELSE rest[CHOOSE x \in WalkSelected(hs, n + 1, parent) : TRUE]

Walks(W, hs, last, raw, low) ==
  W = [n \in low..raw |-> [parent \in Block |-> WalkFrom(hs, last, raw, n, parent, W[n + 1])]]

LEMMA WalkFromNumber ==
  ASSUME NEW hs, hs \subseteq headerInfo, NEW last, NEW raw \in Nat, NEW n \in Nat,
         NEW parent, NEW rest, n = raw \/ rest \in [Block -> Nat]
  PROVE  WalkFrom(hs, last, raw, n, parent, rest) \in Nat
<1>1. PICK sel : sel = WalkSelected(hs, n + 1, parent)
  OBVIOUS
<1>2. sel \subseteq Block
  <2>1. Notarized(hs, n + 1) \subseteq Block /\ Proven(hs, n + 1) \subseteq Block
    BY DEF Notarized, HashesIn, Proven, RecordsAt, headerInfo, New
  <2>2. PreferredProvenChild(hs, n + 1, parent) \subseteq Proven(hs, n + 1)
    BY DEF PreferredProvenChild
  <2>3. QED
    BY <1>1, <2>1, <2>2 DEF WalkSelected
<1>3. PICK h : h = CHOOSE x \in sel : TRUE
  OBVIOUS
<1>4. sel # {} => h \in Block
  BY <1>2, <1>3
<1>5. CASE n = raw
  BY <1>5 DEF WalkFrom
<1>6. CASE n # raw /\ sel = {}
  BY <1>1, <1>6 DEF WalkFrom
<1>7. CASE n # raw /\ sel # {}
  <2>1. rest[h] \in Nat
    BY <1>4, <1>7
  <2>2. QED
    BY <1>1, <1>3, <1>7, <2>1 DEF WalkFrom
<1>8. QED
  BY <1>5, <1>6, <1>7

(* The walk is computed from its upper end. *)
LEMMA WalksExist ==
  ASSUME NEW hs, NEW last, NEW raw \in Nat
  PROVE  \A k \in Nat : k <= raw => \E W : Walks(W, hs, last, raw, raw - k)
<1> DEFINE Walk(low) == \E W : Walks(W, hs, last, raw, low)
           T == {k \in Nat : k <= raw => Walk(raw - k)}
<1>1. Walk(raw)
  <2>1. PICK v : v = [parent \in Block |-> WalkFrom(hs, last, raw, raw, parent, Block)]
    OBVIOUS
  <2>2. PICK W : W = [n \in raw..raw |-> v]
    OBVIOUS
  <2>3. \A n \in raw..raw : n = raw
    OBVIOUS
  <2>4. \A parent \in Block :
          WalkFrom(hs, last, raw, raw, parent, Block) = raw /\ WalkFrom(hs, last, raw, raw, parent, W[raw + 1]) = raw
    BY DEF WalkFrom
  <2>5. v = [parent \in Block |-> WalkFrom(hs, last, raw, raw, parent, W[raw + 1])]
    BY <2>1, <2>4
  <2>6. W = [n \in raw..raw |-> [parent \in Block |-> WalkFrom(hs, last, raw, n, parent, W[n + 1])]]
    BY <2>2, <2>3, <2>5
  <2>7. QED
    BY <2>6 DEF Walks
<1>2. ASSUME NEW m \in Nat, m + 1 <= raw, Walk(m + 1) PROVE Walk(m)
  <2>1. PICK U : Walks(U, hs, last, raw, m + 1)
    BY <1>2
  <2>2. PICK v : v = [parent \in Block |-> WalkFrom(hs, last, raw, m, parent, U[m + 1])]
    OBVIOUS
  <2>4. PICK W : W = [n \in m..raw |-> IF n = m THEN v ELSE U[n]]
    OBVIOUS
  <2>5. \A n \in m..raw : W[n] = [parent \in Block |-> WalkFrom(hs, last, raw, n, parent, W[n + 1])]
    <3>1. TAKE n \in m..raw
    <3>2. CASE n = m
      <4>1. m \in m..raw /\ m + 1 \in m..raw /\ m + 1 # m
        BY <1>2
      <4>2. W[m] = v /\ W[m + 1] = U[m + 1]
        BY <2>4, <4>1
      <4>3. QED
        BY <2>2, <3>2, <4>2
    <3>3. CASE n # m /\ n # raw
      <4>1. n \in (m + 1)..raw /\ n + 1 \in m..raw /\ n + 1 # m
        BY <1>2, <3>3
      <4>2. W[n] = U[n] /\ W[n + 1] = U[n + 1]
        BY <2>4, <3>1, <3>3, <4>1
      <4>3. U[n] = [parent \in Block |-> WalkFrom(hs, last, raw, n, parent, U[n + 1])]
        BY <2>1, <4>1 DEF Walks
      <4>4. QED
        BY <4>2, <4>3
    <3>4. CASE n # m /\ n = raw
      <4>1. n \in (m + 1)..raw
        BY <1>2, <3>4
      <4>2. W[n] = U[n]
        BY <2>4, <3>1, <3>4
      <4>3. U[n] = [parent \in Block |-> WalkFrom(hs, last, raw, n, parent, U[n + 1])]
        BY <2>1, <4>1 DEF Walks
      <4>4. \A parent \in Block :
              WalkFrom(hs, last, raw, n, parent, U[n + 1]) = WalkFrom(hs, last, raw, n, parent, W[n + 1])
        BY <3>4 DEF WalkFrom
      <4>5. QED
        BY <4>2, <4>3, <4>4
    <3>5. QED
      BY <3>2, <3>3, <3>4
  <2>6. PICK D : D = m..raw
    OBVIOUS
  <2>7. W = [n \in D |-> W[n]]
    BY <2>4, <2>6
  <2>8. W = [n \in D |-> [parent \in Block |-> WalkFrom(hs, last, raw, n, parent, W[n + 1])]]
    BY <2>5, <2>6, <2>7
  <2>9. Walks(W, hs, last, raw, m)
    BY <2>6, <2>8 DEF Walks
  <2>10. QED
    BY <2>9
<1> HIDE DEF Walk
<1>3. 0 \in T
  <2>1. raw - 0 = raw
    OBVIOUS
  <2>2. QED
    BY <1>1, <2>1
<1>4. ASSUME NEW k \in Nat, k \in T PROVE k + 1 \in T
  <2>1. k + 1 <= raw => Walk(raw - (k + 1))
    <3> HAVE k + 1 <= raw
    <3>1. PICK m \in Nat : m = raw - (k + 1)
      OBVIOUS
    <3>2. m + 1 = raw - k /\ m + 1 <= raw /\ k <= raw
      BY <3>1
    <3>3. Walk(m + 1)
      BY <1>4, <3>2
    <3>4. QED
      BY <1>2, <3>1, <3>2, <3>3
  <2>2. QED
    BY <2>1
<1> HIDE DEF T
<1>5. \A k \in Nat : k \in T
  BY <1>3, <1>4, NatSetInduction
<1>6. QED
  BY <1>5 DEF T, Walk

(* What the walk yields. *)
LEMMA WalkIsNumber ==
  ASSUME NEW hs, hs \subseteq headerInfo, NEW f \in Block, NEW last, NEW raw \in Nat, BlockNonce[f] <= raw
  PROVE  computeBranchAwareProbable(hs, f, last, raw) \in Nat
<1>1. PICK low \in Nat : low = BlockNonce[f]
  BY ForkAssumption
<1>2. PICK W : W = CHOOSE U : Walks(U, hs, last, raw, low)
  OBVIOUS
<1>3. Walks(W, hs, last, raw, low)
  <2>1. raw - low \in Nat /\ raw - low <= raw /\ raw - (raw - low) = low
    BY <1>1
  <2>2. \E U : Walks(U, hs, last, raw, low)
    BY <2>1, WalksExist
  <2>3. QED
    BY <1>2, <2>2
<1>4. computeBranchAwareProbable(hs, f, last, raw) = W[low][f]
  BY <1>1, <1>2 DEF computeBranchAwareProbable, Walks, WalkFrom, WalkSelected, WalkLosing
<1> DEFINE T == {k \in Nat : k <= raw - low => W[raw - k] \in [Block -> Nat]}
<1>5. ASSUME NEW n \in low..raw, n = raw \/ W[n + 1] \in [Block -> Nat]
      PROVE  W[n] \in [Block -> Nat]
  <2>1. W[n] = [parent \in Block |-> WalkFrom(hs, last, raw, n, parent, W[n + 1])]
    BY <1>3 DEF Walks
  <2>2. n \in Nat
    OBVIOUS
  <2>3. \A parent \in Block : WalkFrom(hs, last, raw, n, parent, W[n + 1]) \in Nat
    BY <1>5, <2>2, WalkFromNumber
  <2>4. QED
    BY <2>1, <2>3
<1>6. 0 \in T
  <2>1. raw - 0 = raw /\ raw \in low..raw
    BY <1>1
  <2>2. W[raw] \in [Block -> Nat]
    BY <1>5, <2>1
  <2>3. QED
    BY <2>1, <2>2
<1>7. ASSUME NEW k \in Nat, k \in T PROVE k + 1 \in T
  <2>1. k + 1 <= raw - low => W[raw - (k + 1)] \in [Block -> Nat]
    <3> HAVE k + 1 <= raw - low
    <3>1. PICK m \in low..raw : m = raw - (k + 1)
      BY <1>1
    <3>2. m + 1 = raw - k /\ k <= raw - low
      BY <3>1
    <3>3. W[m + 1] \in [Block -> Nat]
      BY <1>7, <3>2
    <3>4. QED
      BY <1>5, <3>1, <3>3
  <2>2. QED
    BY <2>1
<1> HIDE DEF T
<1>8. raw - low \in T
  <2>1. raw - low \in Nat
    BY <1>1
  <2>2. QED
    BY <1>6, <1>7, <2>1, NatSetInduction
<1>9. W[low] \in [Block -> Nat]
  <2>1. raw - (raw - low) = low /\ raw - low <= raw - low
    BY <1>1
  <2>2. QED
    BY <1>8, <2>1 DEF T
<1>10. QED
  BY <1>4, <1>9

LEMMA ProbableIsNumber ==
  ASSUME NEW hs, hs \subseteq headerInfo, NEW f \in Block, NEW s, NEW cs
  PROVE  computeProbableHighestNonce(hs, f, s, cs) \in Nat
<1>1. PICK S : S = {BlockNonce[f]} \cup {n \in BlockNonces : hasActionableHeader(hs, n)}
  OBVIOUS
<1>2. PICK raw : raw = Max(S)
  OBVIOUS
<1>3. BlockNonce[f] \in S /\ \A x \in S : \E b \in Block : x = BlockNonce[b]
  BY <1>1 DEF BlockNonces, New
<1>4. raw \in Nat /\ BlockNonce[f] <= raw
  BY <1>2, <1>3, MaxOfNonces
<1>5. computeBranchAwareProbable(hs, f, lastCheckpoint(cs), raw) \in Nat
  BY <1>4, WalkIsNumber
<1>6. QED
  BY <1>1, <1>2, <1>4, <1>5 DEF computeProbableHighestNonce
-----------------------------------------------------------------------------
(* What a step may do to the probable nonce, the highest nonce received, the *)
(* checkpoints and the flag.                                                 *)
ProbableStep == UNCHANGED probable \/ recomputeProbable
HighestStep == UNCHANGED highest \/ \E b \in New : setHighestNonceReceived(b)
CheckpointStep ==
  \E b \in Block, kept \in SUBSET Block :
    checkpoint' \in {checkpoint, Append(checkpoint, b), keepCheckpoints(checkpoint, kept),
                     keepCheckpoints(Append(checkpoint, b), kept)}
KindStep == ProbableStep /\ HighestStep /\ CheckpointStep /\ ambiguous' \in BOOLEAN

LEMMA StillKind ==
  ASSUME ambiguous \in BOOLEAN, UNCHANGED <<probable, highest, checkpoint, ambiguous>>
  PROVE  KindStep
<1>1. CheckpointStep
  BY ForkAssumption DEF CheckpointStep
<1>2. QED
  BY <1>1 DEF KindStep, ProbableStep, HighestStep

LEMMA SameCheckpoint ==
  ASSUME UNCHANGED checkpoint
  PROVE  CheckpointStep
  BY ForkAssumption DEF CheckpointStep

LEMMA AppendedCheckpoint ==
  ASSUME NEW b \in Block, checkpoint' = Append(checkpoint, b)
  PROVE  CheckpointStep
  BY DEF CheckpointStep

LEMMA KeptCheckpoint ==
  ASSUME NEW kept \in SUBSET Block, checkpoint' = keepCheckpoints(checkpoint, kept)
  PROVE  CheckpointStep
  BY ForkAssumption DEF CheckpointStep

LEMMA AppendedKeptCheckpoint ==
  ASSUME NEW b \in Block, NEW kept \in SUBSET Block, checkpoint' = keepCheckpoints(Append(checkpoint, b), kept)
  PROVE  CheckpointStep
  BY DEF CheckpointStep

LEMMA Truths ==
  ASSUME NEW hs, NEW amb \in BOOLEAN, NEW i
  PROVE  isAmbiguous(hs) \in BOOLEAN /\ ambiguousAfter(hs, amb, i) \in BOOLEAN
  BY DEF isAmbiguous, ambiguousAfter

LEMMA ComputeFinalKind ==
  ASSUME NEW hs, NEW amb \in BOOLEAN, NEW kind, NEW b, computeFinalCheckpoint(hs, amb, kind, b)
  PROVE  ambiguous' \in BOOLEAN
<1>1. CASE ambiguous' = amb
  BY <1>1
<1>2. ASSUME NEW ks, ambiguous' = IF ks = {} THEN amb ELSE isAmbiguous(hs \ ks)
      PROVE  ambiguous' \in BOOLEAN
  BY <1>2, Truths
<1>3. QED
  BY <1>1, <1>2 DEF computeFinalCheckpoint

LEMMA FinalityEndKind ==
  ASSUME FinalityEnd
  PROVE  ProbableStep /\ UNCHANGED <<checkpoint, ambiguous>>
  BY DEF FinalityEnd, ProbableStep

LEMMA PastRemovedKind ==
  ASSUME NEW f, NEW cs, removePastOrInvalidRecords(f, cs)
  PROVE  /\ ProbableStep /\ ambiguous' \in BOOLEAN
         /\ \E kept \in SUBSET Block : checkpoint' = keepCheckpoints(cs, kept)
  BY DEF removePastOrInvalidRecords, ProbableStep

LEMMA JobStepKind ==
  ASSUME JobStep, ambiguous \in BOOLEAN, RollBackInv
  PROVE  KindStep
<1>1. HighestStep
  BY DEF JobStep, HighestStep
<1> SUFFICES ProbableStep /\ CheckpointStep /\ ambiguous' \in BOOLEAN
  BY <1>1 DEF KindStep
<1>2. CASE UNCHANGED <<probable, checkpoint, ambiguous>>
  BY <1>2, SameCheckpoint DEF ProbableStep
<1>3. CASE FinalityEnd
  BY <1>3, FinalityEndKind, SameCheckpoint
<1>4. CASE FinalityCheck \/ FinalityStop \/ FinalitySet \/ FinalityConfirm
  BY <1>2, <1>3, <1>4 DEF FinalityCheck, FinalityStop, FinalitySet, FinalityConfirm, checkpointVars
<1>5. CASE AddCheckpoint
  <2>1. job.pc = "checkpoint"
    BY <1>5 DEF AddCheckpoint
  <2>2. job.block \in Block
    BY <2>1 DEF RollBackInv, JobOK, Jobs, Idle
  <2>3. PICK b \in Block : b = job.block
    BY <2>2
  <2>4. CASE checkpoint' = Append(checkpoint, b) /\ UNCHANGED <<probable, ambiguous>>
    BY <2>4, AppendedCheckpoint DEF ProbableStep
  <2>5. CASE removePastOrInvalidRecords(final, Append(checkpoint, b))
    BY <2>5, PastRemovedKind, AppendedKeptCheckpoint
  <2>6. QED
    BY <1>5, <2>3, <2>4, <2>5 DEF AddCheckpoint
<1>6. CASE InstantConfirm
  <2>1. PICK f : removePastOrInvalidRecords(f, checkpoint)
    BY <1>6 DEF InstantConfirm
  <2>2. QED
    BY <2>1, PastRemovedKind, KeptCheckpoint
<1>7. QED
  BY <1>4, <1>5, <1>6 DEF JobStep

LEMMA CommitKind ==
  ASSUME NEW b \in New, CommitBlock(b), ambiguous \in BOOLEAN
  PROVE  KindStep
<1>1. PICK ns : AddProcessedHeader(b, ns)
  BY DEF CommitBlock
<1>2. PICK i : i = Info(b, "Processed", TRUE, TRUE)
  OBVIOUS
<1>3. PICK hs : hs = appendHeaderInfo(headers, i)
  OBVIOUS
<1>4. PICK amb : amb = ambiguousAfter(headers, ambiguous, i)
  OBVIOUS
<1>5. amb \in BOOLEAN
  BY <1>4, Truths
<1>6. HighestStep
  BY <1>1 DEF AddProcessedHeader, HighestStep
<1>7. CASE UNCHANGED <<checkpoint, probable, ambiguous>>
  BY <1>6, <1>7, SameCheckpoint DEF KindStep, ProbableStep
<1>8. CASE UNCHANGED <<checkpoint, ambiguous>> /\ recomputeProbable
  BY <1>6, <1>8, SameCheckpoint DEF KindStep, ProbableStep
<1>9. ASSUME UNCHANGED <<checkpoint, probable>>,
             \/ computeFinalCheckpoint(hs, amb, "commit", b)
             \/ \E h : computeFinalCheckpoint(appendHeaderInfo(hs, NotarizedInfo(h)),
                         ambiguousAfter(hs, amb, NotarizedInfo(h)), "commit", b)
      PROVE  KindStep
  <2>1. ambiguous' \in BOOLEAN
    <3>1. CASE computeFinalCheckpoint(hs, amb, "commit", b)
      BY <1>5, <3>1, ComputeFinalKind
    <3>2. ASSUME NEW h, computeFinalCheckpoint(appendHeaderInfo(hs, NotarizedInfo(h)),
                          ambiguousAfter(hs, amb, NotarizedInfo(h)), "commit", b)
          PROVE  ambiguous' \in BOOLEAN
      <4>1. PICK am : am = ambiguousAfter(hs, amb, NotarizedInfo(h))
        OBVIOUS
      <4>2. am \in BOOLEAN
        BY <1>5, <4>1, Truths
      <4>3. QED
        BY <3>2, <4>1, <4>2, ComputeFinalKind
    <3>3. QED
      BY <1>9, <3>1, <3>2
  <2>2. QED
    BY <1>6, <1>9, <2>1, SameCheckpoint DEF KindStep, ProbableStep
<1>10. QED
  BY <1>1, <1>2, <1>3, <1>4, <1>7, <1>8, <1>9 DEF AddProcessedHeader, checkpointVars

LEMMA CallbackKind ==
  ASSUME NEW b \in New, ProofReceived(b) \/ HeaderReceived(b), ambiguous \in BOOLEAN
  PROVE  KindStep
<1>1. UNCHANGED <<checkpoint, ambiguous>>
  BY DEF ProofReceived, HeaderReceived, ReceivedProof, AddReceivedHeader, checkpointVars
<1>2. HighestStep
  BY DEF ProofReceived, HeaderReceived, ReceivedProof, AddReceivedHeader, HighestStep
<1>3. ProbableStep
  BY DEF ProofReceived, HeaderReceived, ReceivedProof, AddReceivedHeader, ProbableStep
<1>4. QED
  BY <1>1, <1>2, <1>3, SameCheckpoint DEF KindStep

LEMMA NotarizeKind ==
  ASSUME NEW h, Notarize(h), ambiguous \in BOOLEAN
  PROVE  KindStep
<1>1. UNCHANGED <<checkpoint, probable, highest>>
  BY DEF Notarize, ReceivedSelfNotarized
<1>2. PICK i : i = NotarizedInfo(h)
  OBVIOUS
<1>3. PICK am : am = ambiguousAfter(headers, ambiguous, i)
  OBVIOUS
<1>4. am \in BOOLEAN
  BY <1>3, Truths
<1>5. CASE UNCHANGED ambiguous
  BY <1>1, <1>5, StillKind
<1>6. CASE computeFinalCheckpoint(appendHeaderInfo(headers, i), am, "other", Anchor)
  BY <1>1, <1>4, <1>6, ComputeFinalKind, SameCheckpoint DEF KindStep, ProbableStep, HighestStep
<1>7. QED
  BY <1>2, <1>3, <1>5, <1>6 DEF Notarize, ReceivedSelfNotarized

LEMMA ReconcileKind ==
  ASSUME ReconcileSwitch, ambiguous \in BOOLEAN
  PROVE  KindStep
<1>1. UNCHANGED highest
  BY DEF ReconcileSwitch
<1>2. CASE UNCHANGED <<checkpoint, probable, ambiguous>>
  BY <1>1, <1>2, StillKind
<1>3. CASE UNCHANGED checkpoint /\ recomputeProbable /\ ambiguous' = isAmbiguous(headers')
  <2>1. ambiguous' \in BOOLEAN
    BY <1>3, Truths
  <2>2. QED
    BY <1>1, <1>3, <2>1, SameCheckpoint DEF KindStep, ProbableStep, HighestStep
<1>4. QED
  BY <1>2, <1>3 DEF ReconcileSwitch, ReconcileFinalCheckpoint, ReconcileFinalCheckpointFromAuthority,
                    checkpointVars

LEMMA DivergenceKind ==
  ASSUME NEW n, ReconcileDivergence(n)
  PROVE  KindStep
<1>1. UNCHANGED highest /\ recomputeProbable
  BY DEF ReconcileDivergence, ReconcileFinalCheckpointBelow
<1>2. ambiguous' \in BOOLEAN
  BY Truths DEF ReconcileDivergence, ReconcileFinalCheckpointBelow, isAmbiguous
<1>3. CheckpointStep
  BY KeptCheckpoint DEF ReconcileDivergence, ReconcileFinalCheckpointBelow
<1>4. QED
  BY <1>1, <1>2, <1>3 DEF KindStep, ProbableStep, HighestStep

LEMMA ResolveKind ==
  ASSUME NEW n, ResolveAmbiguity(n), ambiguous \in BOOLEAN
  PROVE  KindStep
<1>1. UNCHANGED highest
  BY DEF ResolveAmbiguity
<1>2. CASE UNCHANGED <<checkpoint, probable, ambiguous>>
  BY <1>1, <1>2, StillKind
<1>3. ASSUME NEW h, applyNotarizedHeaderSelection(n, h)
      PROVE  KindStep
  <2>1. PICK ks : computeFinalCheckpoint(ks, isAmbiguous(ks), "other", Anchor)
    BY <1>3 DEF applyNotarizedHeaderSelection
  <2>2. PICK am : am = isAmbiguous(ks)
    OBVIOUS
  <2>3. am \in BOOLEAN
    BY <2>2, Truths
  <2>4. ambiguous' \in BOOLEAN
    BY <2>1, <2>2, <2>3, ComputeFinalKind
  <2>5. UNCHANGED <<checkpoint, probable>>
    BY <1>3 DEF applyNotarizedHeaderSelection
  <2>6. QED
    BY <1>1, <2>4, <2>5, SameCheckpoint DEF KindStep, ProbableStep, HighestStep
<1>4. QED
  BY <1>2, <1>3 DEF ResolveAmbiguity, checkpointVars

LEMMA FinishKind ==
  ASSUME RollBackFinish, ambiguous \in BOOLEAN
  PROVE  KindStep
<1>1. UNCHANGED highest /\ RemoveCommittedHeader(pending.block)
  BY DEF RollBackFinish
<1>2. CASE UNCHANGED <<checkpoint, probable, ambiguous>>
  BY <1>1, <1>2, StillKind
<1>3. ASSUME NEW ks, NEW n, checkpoint' = withoutNonce(checkpoint, n),
             ComputeFinalAndProbable(ks, isAmbiguous(ks))
      PROVE  KindStep
  <2>1. PICK am : am = isAmbiguous(ks)
    OBVIOUS
  <2>2. am \in BOOLEAN
    BY <2>1, Truths
  <2>3. ProbableStep
    BY <1>3 DEF ComputeFinalAndProbable, ProbableStep
  <2>4. ambiguous' \in BOOLEAN
    <3>1. CASE isMeta
      BY <1>3, <2>1, <2>2, <3>1 DEF ComputeFinalAndProbable
    <3>2. CASE ~isMeta
      <4>1. computeFinalCheckpoint(ks, am, "other", Anchor)
        BY <1>3, <2>1, <3>2 DEF ComputeFinalAndProbable
      <4>2. QED
        BY <2>2, <4>1, ComputeFinalKind
    <3>3. QED
      BY <3>1, <3>2
  <2>5. CheckpointStep
    BY <1>3, KeptCheckpoint DEF withoutNonce
  <2>6. QED
    BY <1>1, <2>3, <2>4, <2>5 DEF KindStep, HighestStep
<1>4. QED
  BY <1>1, <1>2, <1>3 DEF RemoveCommittedHeader, checkpointVars

LEMMA LoopKind ==
  ASSUME Loop, ambiguous \in BOOLEAN
  PROVE  KindStep
<1>1. CASE DropEvidence \/ RollBackRefused \/ RollBackBegin \/ RestoreBlockIntoPools
           \/ RollBackInterrupted \/ RollBackResumed \/ NothingToSync \/ \E b \in New : SyncFail(b)
  <2>1. UNCHANGED <<probable, highest, checkpoint, ambiguous>>
    BY <1>1 DEF DropEvidence, RollBackRefused, RollBackBegin, RestoreBlockIntoPools, RollBackInterrupted,
                RollBackResumed, NothingToSync, SyncFail, detectorUnchanged, checkpointVars
  <2>2. QED
    BY <2>1, StillKind
<1>2. CASE ReconcileSwitch
  BY <1>2, ReconcileKind
<1>3. CASE \E n \in BlockNonces : ResolveAmbiguity(n)
  BY <1>3, ResolveKind
<1>4. CASE \E n \in BlockNonces : ReconcileDivergence(n)
  BY <1>4, DivergenceKind
<1>5. CASE ComputeNodeState
  <2>1. UNCHANGED <<probable, highest, checkpoint>> /\ ambiguous' = (ambiguous /\ isAmbiguous(headers))
    BY <1>5 DEF ComputeNodeState, checkpointVars
  <2>2. QED
    BY <2>1, SameCheckpoint DEF KindStep, ProbableStep, HighestStep
<1>6. CASE RollBackFinish
  BY <1>6, FinishKind
<1>7. CASE ResetAfterRollBack
  <2>1. UNCHANGED <<highest, checkpoint, ambiguous>> /\ recomputeProbable
    BY <1>7 DEF ResetAfterRollBack, ResetProbableHighestNonce, checkpointVars
  <2>2. QED
    BY <2>1, SameCheckpoint DEF KindStep, ProbableStep, HighestStep
<1>8. CASE \E b \in New : SyncCommit(b)
  BY <1>8, CommitKind DEF SyncCommit
<1>9. QED
  BY <1>1, <1>2, <1>3, <1>4, <1>5, <1>6, <1>7, <1>8 DEF Loop, Reconcile

LEMMA StepKind ==
  ASSUME [SyncNext]_syncVars, ambiguous \in BOOLEAN, RollBackInv
  PROVE  KindStep
<1>1. CASE DetectorStep
  BY <1>1, JobStepKind DEF DetectorStep
<1>2. CASE \E b \in New : ProofReceived(b) \/ HeaderReceived(b)
  BY <1>2, CallbackKind
<1>3. CASE \E b \in New : ConsensusCommit(b)
  BY <1>3, CommitKind DEF ConsensusCommit
<1>4. CASE \E h \in Notarizable : Notarize(h)
  BY <1>4, NotarizeKind
<1>5. CASE (\E b \in New : ProofStored(b)) \/ (\E b \in Canonical : AuthorityDecides(b))
           \/ CommitEnd \/ UNCHANGED syncVars
  <2>1. UNCHANGED <<probable, highest, checkpoint, ambiguous>>
    BY <1>5 DEF ProofStored, AuthorityDecides, CommitEnd, syncVars, detectorVars, checkpointVars
  <2>2. QED
    BY <2>1, StillKind
<1>6. CASE Loop
  BY <1>6, LoopKind
<1>7. QED
  BY <1>1, <1>2, <1>3, <1>4, <1>5, <1>6 DEF SyncNext

-----------------------------------------------------------------------------
(* The nonce a rollback is forced to and the evidence it may come from.      *)
NoncesOK ==
  /\ rollBackNonce \in BlockNonces \cup {NoNonce}
  /\ evidence # NoEvidence => evidence.nonce \in BlockNonces

LEMMA StepNonces ==
  ASSUME [SyncNext]_syncVars, NoncesOK
  PROVE  NoncesOK'
<1>1. CASE UNCHANGED <<rollBackNonce, evidence>>
  BY <1>1 DEF NoncesOK
<1>2. CASE DetectorStep
  BY <1>1, <1>2 DEF DetectorStep, JobStep, loopVars
<1>3. ASSUME NEW b \in New, ProofReceived(b)
      PROVE  NoncesOK'
  <2>1. UNCHANGED rollBackNonce /\ onEquivocationEvidence(b)
    BY <1>3 DEF ProofReceived
  <2>2. BlockNonce[b] \in BlockNonces
    BY DEF BlockNonces
  <2>3. QED
    BY <1>1, <2>1, <2>2 DEF onEquivocationEvidence, NoncesOK
<1>4. CASE (\E b \in New : ProofStored(b) \/ HeaderReceived(b) \/ ConsensusCommit(b))
           \/ (\E h \in Notarizable : Notarize(h))
           \/ (\E b \in Canonical : AuthorityDecides(b)) \/ CommitEnd \/ UNCHANGED syncVars
  BY <1>1, <1>4 DEF ProofStored, HeaderReceived, ConsensusCommit, CommitBlock, Notarize,
                    ReceivedSelfNotarized, AuthorityDecides, CommitEnd, syncVars, detectorVars, loopVars
<1>5. CASE DropEvidence
  BY <1>5 DEF DropEvidence, detectorUnchanged, NoncesOK
<1>6. CASE ReconcileSwitch
  <2>1. evidence # NoEvidence /\ evidence' = NoEvidence
    BY <1>6 DEF ReconcileSwitch
  <2>2. rollBackNonce' = rollBackNonce \/ rollBackNonce' = evidence.nonce
    BY <1>6 DEF ReconcileSwitch, SetRollBackNonce
  <2>3. QED
    BY <2>1, <2>2 DEF NoncesOK
<1>7. ASSUME NEW n \in BlockNonces, ReconcileDivergence(n)
      PROVE  NoncesOK'
  BY <1>7 DEF ReconcileDivergence, SetRollBackNonce, NoncesOK
<1>8. ASSUME NEW n \in BlockNonces, ResolveAmbiguity(n)
      PROVE  NoncesOK'
  <2>1. UNCHANGED rollBackNonce
    BY <1>8 DEF ResolveAmbiguity
  <2>2. UNCHANGED evidence \/ \E h : armAuthorityReconciliation(n, h)
    BY <1>8 DEF ResolveAmbiguity
  <2>3. UNCHANGED evidence \/ evidence'.nonce = n
    BY <2>2 DEF armAuthorityReconciliation
  <2>4. QED
    BY <1>1, <2>1, <2>3 DEF NoncesOK
<1>9. CASE ComputeNodeState
  BY <1>9 DEF ComputeNodeState, NoncesOK
<1>10. CASE RollBackRefused \/ RollBackBegin \/ RestoreBlockIntoPools \/ RollBackInterrupted
            \/ RollBackResumed \/ RollBackFinish \/ ResetAfterRollBack \/ NothingToSync
            \/ \E b \in New : SyncCommit(b) \/ SyncFail(b)
  BY <1>1, <1>10 DEF RollBackRefused, RollBackBegin, RestoreBlockIntoPools, RollBackInterrupted,
         RollBackResumed, RollBackFinish, ResetAfterRollBack, NothingToSync, SyncCommit, CommitBlock,
         SyncFail, detectorUnchanged
<1>11. QED
  BY <1>2, <1>3, <1>4, <1>5, <1>6, <1>7, <1>8, <1>9, <1>10 DEF SyncNext, Loop, Reconcile

-----------------------------------------------------------------------------
KindInv ==
  /\ isMeta \in BOOLEAN /\ ambiguous \in BOOLEAN /\ checkpoint \in Seq(Block)
  /\ probable \in Nat /\ highest \in Nat
  /\ NoncesOK

LEMMA StepKinds ==
  ASSUME NodeInv, KindInv, [SyncNext]_syncVars
  PROVE  KindInv'
<1>1. KindStep /\ NoncesOK' /\ UNCHANGED isMeta
  BY StepKind, StepNonces, SameShard DEF NodeInv, KindInv
<1>2. checkpoint' \in Seq(Block)
  <2>1. PICK b \in Block, kept \in SUBSET Block :
          checkpoint' \in {checkpoint, Append(checkpoint, b), keepCheckpoints(checkpoint, kept),
                           keepCheckpoints(Append(checkpoint, b), kept)}
    BY <1>1 DEF KindStep, CheckpointStep
  <2>2. PICK cs : cs = Append(checkpoint, b)
    OBVIOUS
  <2>3. checkpoint \in Seq(Block) /\ cs \in Seq(Block)
    BY <2>2 DEF KindInv
  <2>4. keepCheckpoints(checkpoint, kept) \in Seq(Block) /\ keepCheckpoints(cs, kept) \in Seq(Block)
    BY <2>3, KeptCheckpoints
  <2>5. QED
    BY <2>1, <2>2, <2>3, <2>4
<1>3. probable' \in Nat
  <2>1. NodeInv'
    BY StepNode
  <2>2. headers' \subseteq headerInfo /\ final' \in Block
    BY <2>1 DEF NodeInv, RollBackInv, PointersOK
  <2>3. computeProbableHighestNonce(headers', final', settled', checkpoint') \in Nat
    BY <2>2, ProbableIsNumber
  <2>4. QED
    BY <1>1, <2>3 DEF KindStep, ProbableStep, recomputeProbable, KindInv
<1>4. highest' \in Nat
  <2>1. CASE UNCHANGED highest
    BY <2>1 DEF KindInv
  <2>2. ASSUME NEW b \in New, setHighestNonceReceived(b)
        PROVE  highest' \in Nat
    <3>1. BlockNonce[b] \in Nat /\ highest \in Nat
      BY ForkAssumption DEF New, KindInv
    <3>2. QED
      BY <2>2, <3>1, MaxOfTwo DEF setHighestNonceReceived
  <2>3. QED
    BY <1>1, <2>1, <2>2 DEF KindStep, HighestStep
<1>5. QED
  BY <1>1, <1>2, <1>3, <1>4 DEF KindStep, KindInv

(* Every part of the detector and of the loop holds a value of its kind, for *)
(* every tree of blocks: the probable nonce, walked up from the final block  *)
(* along the selected branch, is always a nonce, and a forced rollback goes  *)
(* to the nonce of a block.                                                  *)
THEOREM SyncTyped == SyncSpec => []SyncTypeOK
<1>1. SyncInit => KindInv
  <2> SUFFICES ASSUME SyncInit PROVE KindInv
    OBVIOUS
  <2>1. BlockNonce[Anchor] \in Nat /\ <<Anchor>> \in Seq(Block)
    BY ForkAssumption
  <2>2. QED
    BY <2>1 DEF SyncInit, KindInv, NoncesOK
<1>2. NodeInv /\ KindInv /\ [SyncNext]_syncVars => KindInv'
  BY StepKinds
<1>3. NodeInv /\ KindInv => SyncTypeOK
  BY DEF NodeInv, KindInv, NoncesOK, RollBackInv, PointersOK, ChainInv, LoopOK, SyncTypeOK
<1>4. QED
  BY <1>1, <1>2, <1>3, NodeInvariant, PTL DEF SyncSpec
=============================================================================
