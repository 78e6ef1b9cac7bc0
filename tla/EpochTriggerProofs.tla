------------------------- MODULE EpochTriggerProofs -------------------------
(* The shard's epoch start trigger is armed by the block that settled the     *)
(* epoch, and forgets no epoch start block it could settle the epoch with,    *)
(* for every set of competing blocks, any number of rollbacks, evictions and  *)
(* calls in progress.                                                         *)
EXTENDS EpochTrigger, WellFoundedInduction, TLAPS

TriggerRecord ==
  [entered : Seq(Start), epoch : Nat, metaEpoch : Nat, isEpochStart : BOOLEAN,
   epochMetaBlockHash : Start \cup {NoStart}, hdrs : SUBSET Start, finalized : SUBSET Start]

PendingRecord ==
  [proofs : SUBSET Start, headers : SUBSET Nat, finality : SUBSET Start,
   candidates : SUBSET Start, generation : Nat]

CallRecord ==
  [kind : {"header", "proof", "proposal", "recover", "retry", "reconsider"},
   hash : Start \cup {NoStart}, gen : Int,
   at : {"look", "pend", "lock", "move", "remove"}, missing : BOOLEAN]

TriggerTypeOK ==
  /\ trigger \in TriggerRecord
  /\ pend \in PendingRecord
  /\ admitted \in BOOLEAN
  /\ view \in [hdrs : SUBSET Start, proofs : SUBSET Start, support : [Start -> 0..2]]
  /\ calls \subseteq CallRecord

(* The trigger's fields: the shard entered the epochs one after the other,    *)
(* what is retained is of the epoch that comes next, and what settled it is   *)
(* retained.                                                                  *)
WellArmed(t) ==
  /\ \A i \in 1..Len(t.entered) : StartEpoch[t.entered[i]] = i
  /\ Len(t.entered) <= t.epoch
  /\ \A h \in t.hdrs : StartEpoch[h] = Len(t.entered) + 1
  /\ t.finalized \subseteq t.hdrs
  /\ t.isEpochStart => /\ t.epochMetaBlockHash \in t.finalized
                       /\ t.metaEpoch = Len(t.entered) + 1
  /\ ~t.isEpochStart => t.epochMetaBlockHash = LastEntered(t.entered)

(* Only a call that looks into the pool for the next epoch has no block, and  *)
(* only commits make such calls.                                              *)
CallsNamed ==
  \A c \in calls :
    /\ IF c.kind = "reconsider" /\ c.at = "look" THEN trigger.epoch > 0 ELSE c.hash \in Start
    /\ c.at = "move" => c.kind = "recover"

(* Without a rollback the field epoch is the epoch the shard is in. *)
EpochFollows == pend.generation = 0 => trigger.epoch = processedEpoch

(* The metachain extends no other block twice than the ones it keeps. *)
OnlyCanonicalExtended == \A h \in Start : view.support[h] = 2 => h \in CanonicalStart

(* A call that can still process the block. *)
InProgress(h) ==
  \E c \in calls : /\ IsCurrent(c)
                   /\ \/ c.at \in {"look", "lock"} /\ c.hash = h
                      \/ c.at = "look" /\ c.kind = "reconsider"

(* The blocks NotForgotten is about are retained or being processed: pending  *)
(* entries, which other calls remove, are not relied on.                      *)
Retained ==
  admitted /\ (pend.generation > 0 => trigger.epoch > processedEpoch) =>
    \A h \in view.hdrs \cap view.proofs :
      /\ IsActionable(h) /\ ~IsDeadMetaBlock(h)
      /\ trigger.epoch > 0 => Siblings(h) = {}
      => h \in trigger.hdrs \/ InProgress(h)

ArmedInv == TriggerTypeOK /\ WellArmed(trigger) /\ CallsNamed
RetainedInv == ArmedInv /\ EpochFollows /\ OnlyCanonicalExtended /\ Retained

-----------------------------------------------------------------------------
(* The operators.                                                           *)

(* A least block exists, so Min returns one of the blocks. *)
LEMMA MinOfStarts ==
  ASSUME NEW S, S \subseteq Start, S # {}
  PROVE  Min(S) \in S
<1> DEFINE R == {ss \in Nat \X Nat : ss[1] < ss[2]}
<1>1. IsWellFoundedOn(R, Nat)
  BY NatLessThanWellFounded DEF OpToRel
<1>2. S \subseteq Nat
  BY StartAssumption
<1>3. PICK m \in S : \A u \in S : ~(<<u, m>> \in R)
  <2> HIDE DEF R
  <2> QED
    BY <1>1, <1>2, WFMin
<1>4. ASSUME NEW u \in S PROVE m <= u
  <2>1. u \in Nat /\ m \in Nat
    BY <1>2
  <2>2. ~(u < m)
    BY <1>3, <2>1
  <2> QED
    BY <2>1, <2>2
<1> QED
  BY <1>4 DEF Min

(* The operations on pending data return pending data of the same generation. *)
LEMMA PendingTyped ==
  ASSUME NEW p \in PendingRecord, NEW hs \in SUBSET Start, NEW e \in Nat
  PROVE  /\ TrackMissingFinality(p, hs) \in PendingRecord
         /\ TrackMissingFinality(p, hs).generation = p.generation
         /\ RemoveForEpochOrOlder(p, e) \in PendingRecord
         /\ RemoveForEpochOrOlder(p, e).generation = p.generation
<1>1. TrackMissingFinality(p, hs) \in PendingRecord
  BY DEF TrackMissingFinality, PendingRecord
<1>2. TrackMissingFinality(p, hs).generation = p.generation
  BY DEF TrackMissingFinality, PendingRecord
<1>3. RemoveForEpochOrOlder(p, e) \in PendingRecord
  BY DEF RemoveForEpochOrOlder, PendingRecord
<1>4. RemoveForEpochOrOlder(p, e).generation = p.generation
  BY DEF RemoveForEpochOrOlder, PendingRecord
<1> QED
  BY <1>1, <1>2, <1>3, <1>4

(* updateTriggerFromMeta keeps the fields in order, and changes neither the  *)
(* epoch, nor what is retained, nor the recovery generation.                 *)
LEMMA UpdateKeepsArmed ==
  ASSUME NEW t \in TriggerRecord, WellArmed(t), NEW p \in PendingRecord,
         NEW r, r = updateTriggerFromMeta(t, p)
  PROVE  /\ r.t \in TriggerRecord /\ WellArmed(r.t) /\ r.p \in PendingRecord
         /\ r.t.entered = t.entered /\ r.t.epoch = t.epoch /\ r.t.hdrs = t.hdrs
         /\ r.p.generation = p.generation
<1> DEFINE e     == Len(t.entered) + 1
           known == {h \in t.hdrs : StartEpoch[h] = e}
           final == {h \in known : IsMetaHeaderHeldFinal(h)}
           first == Min(final)
           armed == [t EXCEPT !.metaEpoch = e, !.isEpochStart = TRUE, !.epochMetaBlockHash = first]
<1>1. e \in Nat /\ known \subseteq t.hdrs /\ final \subseteq t.hdrs /\ t.hdrs \subseteq Start
  BY DEF TriggerRecord
<1>2. CASE \E h \in t.finalized : StartEpoch[h] = e
  BY <1>2 DEF updateTriggerFromMeta
<1>3. CASE ~(\E h \in t.finalized : StartEpoch[h] = e) /\ final = {}
  <2>1. r = [t |-> t, p |-> TrackMissingFinality(p, known)]
    BY <1>3 DEF updateTriggerFromMeta
  <2>2. r.p \in PendingRecord /\ r.p.generation = p.generation
    BY <1>1, <2>1, PendingTyped
  <2> QED
    BY <2>1, <2>2
<1>4. CASE ~(\E h \in t.finalized : StartEpoch[h] = e) /\ final # {}
  <2>1. r = [t |-> [(IF t.metaEpoch < e THEN armed ELSE t) EXCEPT !.finalized = @ \cup {first}],
             p |-> RemoveForEpochOrOlder(p, e)]
    BY <1>4 DEF updateTriggerFromMeta
  <2>2. first \in t.hdrs /\ first \in Start
    BY <1>1, <1>4, MinOfStarts
  <2>3. ~t.isEpochStart
    BY <1>4 DEF WellArmed
  <2> HIDE DEF first, e, final, known, armed
  <2>4. r.p = RemoveForEpochOrOlder(p, e)
    BY <2>1
  <2>5. r.p \in PendingRecord /\ r.p.generation = p.generation
    BY <1>1, <2>4, PendingTyped
  <2>6. CASE t.metaEpoch < e
    <3>1. r.t = [t EXCEPT !.metaEpoch = e, !.isEpochStart = TRUE, !.epochMetaBlockHash = first,
                          !.finalized = @ \cup {first}]
      BY <2>1, <2>6 DEF TriggerRecord, armed
    <3>2. r.t \in TriggerRecord
      <4>1. t.finalized \cup {first} \in SUBSET Start /\ first \in Start \cup {NoStart}
        BY <2>2 DEF TriggerRecord
      <4> QED
        BY <1>1, <3>1, <4>1 DEF TriggerRecord
    <3>3. /\ r.t \in TriggerRecord
          /\ r.t.entered = t.entered /\ r.t.epoch = t.epoch /\ r.t.hdrs = t.hdrs
          /\ r.t.finalized = t.finalized \cup {first} /\ r.t.isEpochStart = TRUE
          /\ r.t.epochMetaBlockHash = first /\ r.t.metaEpoch = e
      BY <3>1, <3>2 DEF TriggerRecord
    <3>4. WellArmed(r.t)
      BY <2>2, <3>3 DEF WellArmed, e
    <3> QED
      BY <2>5, <3>3, <3>4
  <2>7. CASE ~(t.metaEpoch < e)
    <3>1. r.t = [t EXCEPT !.finalized = @ \cup {first}]
      BY <2>1, <2>7
    <3>2. /\ r.t \in TriggerRecord
          /\ r.t.entered = t.entered /\ r.t.epoch = t.epoch /\ r.t.hdrs = t.hdrs
          /\ r.t.finalized = t.finalized \cup {first} /\ r.t.isEpochStart = t.isEpochStart
          /\ r.t.epochMetaBlockHash = t.epochMetaBlockHash
      BY <2>2, <3>1 DEF TriggerRecord
    <3>3. WellArmed(r.t)
      BY <2>2, <2>3, <3>2 DEF WellArmed
    <3> QED
      BY <2>5, <3>2, <3>3
  <2> QED
    BY <2>6, <2>7
<1> QED
  BY <1>2, <1>3, <1>4

(* A dead block stays dead: the metachain keeps its sibling. *)
LEMMA DeadStays ==
  ASSUME TriggerTypeOK, OnlyCanonicalExtended, NEW g \in Start, NeighboursArrive(g),
         NEW h \in Start, IsDeadMetaBlock(h)
  PROVE  IsDeadMetaBlock(h)'
<1>1. PICK s \in Siblings(h) : view.support[s] = 2
  BY DEF IsDeadMetaBlock
<1>2. s \in Start /\ s # h /\ StartEpoch[s] = StartEpoch[h] /\ s \in CanonicalStart
  BY <1>1 DEF Siblings, OnlyCanonicalExtended
<1>3. h \notin CanonicalStart
  BY <1>2, StartAssumption
<1>4. /\ view.support \in [Start -> 0..2]
      /\ view'.support = [view.support EXCEPT ![g] = @ + 1]
      /\ view.support[g] < 2
      /\ g = h => view.support[h] < 1
  BY <1>3 DEF NeighboursArrive, TriggerTypeOK
<1>5. view'.support[s] = 2 /\ view'.support[h] < 2
  BY <1>1, <1>2, <1>4 DEF IsDeadMetaBlock
<1> QED
  BY <1>1, <1>5 DEF IsDeadMetaBlock, Siblings

-----------------------------------------------------------------------------
(* Calls come and go.                                                       *)

(* A call that goes away, or goes on elsewhere, was not the one a block      *)
(* depended on, or another call has the block.                               *)
LEMMA CallLeaves ==
  ASSUME RetainedInv, NEW c \in CallRecord, calls \ {c} \subseteq calls',
         TriggerTypeOK', CallsNamed', UNCHANGED <<trigger, admitted, view>>,
         pend'.generation = pend.generation,
         \A h \in view.hdrs \cap view.proofs :
           /\ IsActionable(h) /\ IsCurrent(c)
           /\ trigger.epoch > 0 => Siblings(h) = {}
           /\ \/ c.at \in {"look", "lock"} /\ c.hash = h
              \/ c.at = "look" /\ c.kind = "reconsider"
           => InProgress(h)'
  PROVE  RetainedInv'
<1>1. ArmedInv' /\ EpochFollows' /\ OnlyCanonicalExtended'
  BY DEF RetainedInv, ArmedInv, EpochFollows, OnlyCanonicalExtended, WellArmed, LastEntered,
         processedEpoch
<1>2. \A d : IsCurrent(d)' = IsCurrent(d)
  BY DEF IsCurrent
<1>3. ASSUME admitted', pend'.generation > 0 => trigger'.epoch > processedEpoch',
             NEW h \in view'.hdrs \cap view'.proofs,
             IsActionable(h)', ~IsDeadMetaBlock(h)', trigger'.epoch > 0 => Siblings(h) = {}
      PROVE  h \in trigger'.hdrs \/ InProgress(h)'
  <2>1. /\ h \in view.hdrs \cap view.proofs /\ IsActionable(h) /\ ~IsDeadMetaBlock(h)
        /\ trigger.epoch > 0 => Siblings(h) = {}
        /\ admitted /\ (pend.generation > 0 => trigger.epoch > processedEpoch)
    BY <1>3 DEF IsActionable, actionableEpoch, processedEpoch, IsDeadMetaBlock
  <2>2. h \in trigger.hdrs \/ InProgress(h)
    BY <2>1 DEF RetainedInv, Retained
  <2>3. CASE h \in trigger.hdrs
    BY <2>3
  <2>4. CASE InProgress(h)
    <3>1. PICK d \in calls : /\ IsCurrent(d)
                             /\ \/ d.at \in {"look", "lock"} /\ d.hash = h
                                \/ d.at = "look" /\ d.kind = "reconsider"
      BY <2>4 DEF InProgress
    <3>2. CASE d = c
      BY <2>1, <3>1, <3>2
    <3>3. CASE d # c
      <4>1. d \in calls'
        BY <3>3
      <4> QED
        BY <1>2, <3>1, <4>1 DEF InProgress
    <3> QED
      BY <3>2, <3>3
  <2> QED
    BY <2>2, <2>3, <2>4
<1>4. Retained'
  BY <1>3 DEF Retained, Siblings
<1> QED
  BY <1>1, <1>4 DEF RetainedInv

(* Where a call stands after it has gone on. *)
LEMMA CallMoves ==
  ASSUME NEW c \in CallRecord, NEW at \in {"look", "pend", "lock", "move", "remove"}
  PROVE  /\ [c EXCEPT !.at = at] \in CallRecord
         /\ [c EXCEPT !.at = at].hash = c.hash
         /\ [c EXCEPT !.at = at].kind = c.kind
         /\ [c EXCEPT !.at = at].at = at
         /\ [c EXCEPT !.at = at].gen = c.gen
BY DEF CallRecord

(* A call ends: it must not be one that a block depends on. *)
LEMMA CallEnds ==
  ASSUME RetainedInv, NEW c \in CallRecord, Ends(c), UNCHANGED <<trigger, admitted, view>>,
         pend' \in PendingRecord, pend'.generation = pend.generation,
         \A h \in view.hdrs \cap view.proofs :
           /\ IsActionable(h) /\ IsCurrent(c)
           /\ trigger.epoch > 0 => Siblings(h) = {}
           => ~ \/ c.at \in {"look", "lock"} /\ c.hash = h
                \/ c.at = "look" /\ c.kind = "reconsider"
  PROVE  RetainedInv'
<1>1. TriggerTypeOK' /\ CallsNamed' /\ calls \ {c} \subseteq calls'
  BY DEF RetainedInv, ArmedInv, TriggerTypeOK, CallsNamed, Ends
<1> QED
  BY <1>1, CallLeaves

(* A call that has a block goes on elsewhere. *)
LEMMA CallGoesOn ==
  ASSUME RetainedInv, NEW c \in CallRecord, c.hash \in Start,
         NEW at \in {"look", "pend", "lock", "move", "remove"}, GoesTo(c, at),
         UNCHANGED <<trigger, admitted, view>>,
         at = "look" => c.kind # "reconsider", at = "move" => c.kind = "recover",
         pend' \in PendingRecord, pend'.generation = pend.generation,
         \A h \in view.hdrs \cap view.proofs :
           /\ IsActionable(h) /\ IsCurrent(c)
           /\ trigger.epoch > 0 => Siblings(h) = {}
           => ~ \/ c.at \in {"look", "lock"} /\ c.hash = h
                \/ c.at = "look" /\ c.kind = "reconsider"
  PROVE  RetainedInv'
<1> DEFINE d == [c EXCEPT !.at = at]
<1>1. d \in CallRecord /\ d.hash = c.hash /\ d.kind = c.kind /\ d.at = at
  BY CallMoves
<1>2. calls' = (calls \ {c}) \cup {d}
  BY DEF GoesTo
<1> HIDE DEF d
<1>3. TriggerTypeOK' /\ CallsNamed' /\ calls \ {c} \subseteq calls'
  BY <1>1, <1>2 DEF RetainedInv, ArmedInv, TriggerTypeOK, CallsNamed
<1> QED
  BY <1>3, CallLeaves

(* A call prepares the processing of its block, or of the only block that   *)
(* can need it.                                                             *)
LEMMA OwnerPrepared ==
  ASSUME RetainedInv, NEW c \in CallRecord, c.at = "look", NEW h \in Start,
         prepareRecoveryProcessingOwner(c, h), UNCHANGED <<trigger, admitted, view>>,
         \/ c.kind # "reconsider" /\ c.hash = h
         \/ /\ c.kind = "reconsider" /\ IsActionable(h)
            /\ \A g \in view.hdrs \cap view.proofs :
                 IsActionable(g) /\ (trigger.epoch > 0 => Siblings(g) = {}) => g = h
  PROVE  RetainedInv'
<1>1. pend \in PendingRecord
  BY DEF RetainedInv, ArmedInv, TriggerTypeOK
<1>2. CASE ~IsCurrent(c) /\ Ends(c) /\ UNCHANGED pend
  BY <1>1, <1>2, CallEnds
<1>3. CASE IsCurrent(c) /\ ~IsActionable(h) /\ Returns(c) /\ UNCHANGED pend
  <2>1. c.kind # "reconsider" /\ c.hash = h
    BY <1>3
  <2>2. CASE Removes(c.kind)
    <3>1. GoesTo(c, "remove")
      BY <1>3, <2>2 DEF Returns
    <3> QED
      BY <1>1, <1>3, <2>1, <3>1, CallGoesOn
  <2>3. CASE ~Removes(c.kind)
    <3>1. Ends(c)
      BY <1>3, <2>3 DEF Returns
    <3> QED
      BY <1>1, <1>3, <2>1, <3>1, CallEnds
  <2> QED
    BY <2>2, <2>3
<1>4. CASE /\ IsCurrent(c) /\ IsActionable(h)
           /\ pend' = IF IsPending(h) THEN [pend EXCEPT !.candidates = @ \cup {h}] ELSE pend
           /\ calls' = (calls \ {c}) \cup
                {[c EXCEPT !.hash = h, !.at = "lock",
                           !.missing = IsPending(h) /\ ~IsMetaHeaderHeldFinal(h)]}
  <2> DEFINE m == IsPending(h) /\ ~IsMetaHeaderHeldFinal(h)
  <2>1. PICK b \in BOOLEAN : b = m
    OBVIOUS
  <2>2. PICK d : d = [c EXCEPT !.hash = h, !.at = "lock", !.missing = b]
    OBVIOUS
  <2>3. d \in CallRecord /\ d.hash = h /\ d.at = "lock" /\ d.gen = c.gen
    BY <2>2 DEF CallRecord
  <2>4. calls' = (calls \ {c}) \cup {d}
    BY <1>4, <2>1, <2>2
  <2> HIDE DEF m
  <2>5. pend' \in PendingRecord /\ pend'.generation = pend.generation
    BY <1>1, <1>4 DEF PendingRecord
  <2>6. TriggerTypeOK' /\ CallsNamed' /\ calls \ {c} \subseteq calls'
    BY <2>3, <2>4, <2>5 DEF RetainedInv, ArmedInv, TriggerTypeOK, CallsNamed
  <2>7. InProgress(h)'
    <3>1. IsCurrent(d)'
      BY <1>4, <2>3, <2>5 DEF IsCurrent
    <3>2. d \in calls'
      BY <2>4
    <3> QED
      BY <2>3, <3>1, <3>2 DEF InProgress
  <2>8. ASSUME NEW g \in view.hdrs \cap view.proofs, IsActionable(g),
               trigger.epoch > 0 => Siblings(g) = {},
               \/ c.at \in {"look", "lock"} /\ c.hash = g
               \/ c.at = "look" /\ c.kind = "reconsider"
        PROVE  InProgress(g)'
    <3>1. g = h
      BY <2>8
    <3> QED
      BY <2>7, <3>1
  <2> QED
    BY <2>5, <2>6, <2>8, CallLeaves
<1> QED
  BY <1>2, <1>3, <1>4 DEF prepareRecoveryProcessingOwner

-----------------------------------------------------------------------------
(* The calls' steps that leave the trigger's fields alone.                  *)

LEMMA HeaderReceived ==
  ASSUME RetainedInv, NEW c \in calls, receivedMetaBlock(c)
  PROVE  RetainedInv'
<1>1. /\ c \in CallRecord /\ c.kind = "header" /\ c.at = "look" /\ c.hash \in Start
      /\ pend \in PendingRecord
  BY DEF RetainedInv, ArmedInv, TriggerTypeOK, CallsNamed, receivedMetaBlock
<1>2. UNCHANGED <<trigger, admitted, view>>
  BY DEF receivedMetaBlock
<1>3. CASE c.hash \in view.proofs /\ prepareRecoveryProcessingOwner(c, c.hash)
  BY <1>1, <1>2, <1>3, OwnerPrepared
<1>4. CASE c.hash \notin view.proofs /\ UNCHANGED pend /\ GoesTo(c, "pend")
  BY <1>1, <1>2, <1>4, CallGoesOn
<1>5. CASE c.hash \notin view.proofs /\ UNCHANGED pend /\ Ends(c)
  BY <1>1, <1>2, <1>5, CallEnds
<1> QED
  BY <1>3, <1>4, <1>5 DEF receivedMetaBlock

LEMMA ProofReceived ==
  ASSUME RetainedInv, NEW c \in calls, receivedProof(c)
  PROVE  RetainedInv'
<1>1. /\ c \in CallRecord /\ c.kind = "proof" /\ c.at = "look" /\ c.hash \in Start
      /\ pend \in PendingRecord
  BY DEF RetainedInv, ArmedInv, TriggerTypeOK, CallsNamed, receivedProof
<1>2. UNCHANGED <<trigger, admitted, view>>
  BY DEF receivedProof
<1>3. CASE c.hash \in view.hdrs /\ prepareRecoveryProcessingOwner(c, c.hash)
  BY <1>1, <1>2, <1>3, OwnerPrepared
<1>4. CASE c.hash \notin view.hdrs /\ UNCHANGED pend /\ Ends(c)
  BY <1>1, <1>2, <1>4, CallEnds
<1> QED
  BY <1>3, <1>4 DEF receivedProof

LEMMA ProofMadePending ==
  ASSUME RetainedInv, NEW c \in calls, addPendingProof(c)
  PROVE  RetainedInv'
<1>1. c \in CallRecord /\ c.at = "pend" /\ c.hash \in Start /\ pend \in PendingRecord
  BY DEF RetainedInv, ArmedInv, TriggerTypeOK, CallsNamed, addPendingProof
<1>2. pend' \in PendingRecord /\ pend'.generation = pend.generation
  BY <1>1 DEF addPendingProof, AddPendingProof, PendingRecord
<1> QED
  BY <1>1, <1>2, CallEnds DEF addPendingProof

LEMMA PendingRemoved ==
  ASSUME RetainedInv, NEW c \in calls, removePendingEpochStartData(c)
  PROVE  RetainedInv'
<1>1. c \in CallRecord /\ c.at = "remove" /\ pend \in PendingRecord
  BY DEF RetainedInv, ArmedInv, TriggerTypeOK, removePendingEpochStartData
<1>2. pend' \in PendingRecord /\ pend'.generation = pend.generation
  BY <1>1 DEF removePendingEpochStartData, PendingRecord
<1> QED
  BY <1>1, <1>2, CallEnds DEF removePendingEpochStartData

(* A block without siblings is the one of the pool that is taken up. *)
LEMMA PooledReconsidered ==
  ASSUME RetainedInv, NEW c \in calls, reconsiderPooledEpochStart(c)
  PROVE  RetainedInv'
<1> DEFINE pooled == {h \in view.hdrs : IsActionable(h)}
           final  == {h \in pooled : IsMetaHeaderHeldFinal(h)}
           proven == pooled \cap view.proofs
           taken  == IF final # {} THEN final ELSE IF proven # {} THEN proven ELSE pooled
           one    == Min(taken)
<1>1. /\ c \in CallRecord /\ c.at = "look" /\ c.kind = "reconsider" /\ trigger.epoch > 0
      /\ pend \in PendingRecord /\ view.hdrs \subseteq Start
  BY DEF RetainedInv, ArmedInv, TriggerTypeOK, CallsNamed, reconsiderPooledEpochStart
<1>2. UNCHANGED <<trigger, admitted, view>>
  BY DEF reconsiderPooledEpochStart
<1>3. \/ IsCurrent(c) /\ proven # {} /\ prepareRecoveryProcessingOwner(c, one)
      \/ /\ IsCurrent(c) /\ pooled # {} /\ proven = {}
         /\ pend' = AddPendingProof(pend, one) /\ Ends(c)
      \/ (~IsCurrent(c) \/ pooled = {}) /\ Ends(c) /\ UNCHANGED pend
  BY DEF reconsiderPooledEpochStart
<1>4. pooled # {} => one \in pooled
  <2>1. SUFFICES ASSUME pooled # {} PROVE one \in pooled
    OBVIOUS
  <2>2. taken \subseteq pooled /\ taken # {}
    BY <2>1
  <2>3. pooled \subseteq Start
    BY <1>1
  <2> HIDE DEF taken, pooled
  <2>4. one \in taken
    BY <2>2, <2>3, MinOfStarts
  <2> QED
    BY <2>2, <2>4
<1> HIDE DEF taken, one, final
<1>5. CASE IsCurrent(c) /\ proven # {} /\ prepareRecoveryProcessingOwner(c, one)
  <2>1. one \in pooled /\ one \in Start /\ IsActionable(one)
    BY <1>1, <1>4, <1>5
  <2>2. ASSUME NEW g \in view.hdrs \cap view.proofs, IsActionable(g), Siblings(g) = {}
        PROVE  g = one
    BY <1>1, <2>1, <2>2 DEF Siblings, IsActionable
  <2> QED
    BY <1>1, <1>2, <1>5, <2>1, <2>2, OwnerPrepared
<1>6. CASE /\ IsCurrent(c) /\ pooled # {} /\ proven = {}
           /\ pend' = AddPendingProof(pend, one) /\ Ends(c)
  <2>1. one \in Start
    BY <1>1, <1>4, <1>6
  <2>2. pend' \in PendingRecord /\ pend'.generation = pend.generation
    BY <1>1, <1>6, <2>1 DEF AddPendingProof, PendingRecord
  <2>3. \A h \in view.hdrs \cap view.proofs : ~IsActionable(h)
    BY <1>6
  <2> HIDE DEF pooled, proven
  <2> QED
    BY <1>1, <1>2, <1>6, <2>2, <2>3, CallEnds
<1>7. CASE (~IsCurrent(c) \/ pooled = {}) /\ Ends(c) /\ UNCHANGED pend
  <2>1. \A h \in view.hdrs : ~(IsActionable(h) /\ IsCurrent(c))
    BY <1>7
  <2> HIDE DEF pooled, proven
  <2> QED
    BY <1>1, <1>2, <1>7, <2>1, CallEnds
<1> QED
  BY <1>3, <1>5, <1>6, <1>7

LEMMA CandidateRecovered ==
  ASSUME RetainedInv, NEW c \in calls, recoverEpochStartCandidate(c)
  PROVE  RetainedInv'
<1>1. /\ c \in CallRecord /\ c.kind = "recover" /\ c.at = "look" /\ c.hash \in Start
      /\ pend \in PendingRecord
  BY DEF RetainedInv, ArmedInv, TriggerTypeOK, CallsNamed, recoverEpochStartCandidate
<1>2. UNCHANGED <<trigger, admitted, view>>
  BY DEF recoverEpochStartCandidate
<1>3. CASE ~IsCurrent(c) /\ Ends(c) /\ UNCHANGED pend
  BY <1>1, <1>2, <1>3, CallEnds
<1>4. CASE /\ ~IsActionable(c.hash) /\ pend' = [pend EXCEPT !.candidates = @ \ {c.hash}]
           /\ Ends(c)
  <2>1. pend' \in PendingRecord /\ pend'.generation = pend.generation
    BY <1>1, <1>4 DEF PendingRecord
  <2> QED
    BY <1>1, <1>2, <1>4, <2>1, CallEnds
<1>5. CASE prepareRecoveryProcessingOwner(c, c.hash)
  BY <1>1, <1>2, <1>5, OwnerPrepared
<1>6. CASE c.hash \notin view.proofs /\ GoesTo(c, "pend") /\ UNCHANGED pend
  BY <1>1, <1>2, <1>6, CallGoesOn
<1>7. CASE c.hash \notin view.hdrs /\ GoesTo(c, "move") /\ UNCHANGED pend
  BY <1>1, <1>2, <1>7, CallGoesOn
<1> QED
  BY <1>3, <1>4, <1>5, <1>6, <1>7 DEF recoverEpochStartCandidate

LEMMA CandidateMoved ==
  ASSUME RetainedInv, NEW c \in calls, moveCandidateToPendingHeader(c)
  PROVE  RetainedInv'
<1> DEFINE moves == IsCurrent(c) /\ c.hash \in pend.candidates
<1>1. /\ c \in CallRecord /\ c.at = "move" /\ c.kind = "recover" /\ c.hash \in Start /\ pend \in PendingRecord
      /\ StartEpoch[c.hash] \in Nat
  BY StartAssumption
     DEF RetainedInv, ArmedInv, TriggerTypeOK, CallsNamed, moveCandidateToPendingHeader
<1>2. UNCHANGED <<trigger, admitted, view>>
  BY DEF moveCandidateToPendingHeader
<1>3. pend' \in PendingRecord /\ pend'.generation = pend.generation
  BY <1>1 DEF moveCandidateToPendingHeader, PendingRecord
<1>4. CASE GoesTo(c, "look")
  BY <1>1, <1>2, <1>3, <1>4, CallGoesOn
<1>5. CASE Ends(c)
  BY <1>1, <1>2, <1>3, <1>5, CallEnds
<1> QED
  BY <1>4, <1>5 DEF moveCandidateToPendingHeader

-----------------------------------------------------------------------------
(* The pools and bootstrap.                                                 *)

LEMMA NewCallTyped ==
  ASSUME NEW kind \in {"header", "proof", "proposal", "recover", "retry", "reconsider"},
         NEW h \in Start \cup {NoStart}, NEW gen \in Int
  PROVE  LET c == NewCall(kind, h, gen, "look")
         IN  /\ c \in CallRecord /\ c.kind = kind /\ c.hash = h /\ c.gen = gen
             /\ c.at = "look"
BY DEF NewCall, CallRecord

(* Calls are added for the blocks that have come. *)
LEMMA BlocksCome ==
  ASSUME RetainedInv, TriggerTypeOK', CallsNamed', OnlyCanonicalExtended',
         UNCHANGED <<trigger, pend>>, calls \subseteq calls', admitted => admitted',
         \A h \in view'.hdrs \cap view'.proofs :
           \/ admitted /\ h \in view.hdrs \cap view.proofs
           \/ ~admitted'
           \/ \E c \in calls' : c.gen = NoGeneration /\ c.at = "look" /\ c.hash = h,
         \A h \in Start : IsDeadMetaBlock(h) => IsDeadMetaBlock(h)'
  PROVE  RetainedInv'
<1>1. ArmedInv' /\ EpochFollows'
  BY DEF RetainedInv, ArmedInv, EpochFollows, WellArmed, LastEntered, processedEpoch
<1>2. ASSUME admitted', pend'.generation > 0 => trigger'.epoch > processedEpoch',
             NEW h \in view'.hdrs \cap view'.proofs,
             IsActionable(h)', ~IsDeadMetaBlock(h)', trigger'.epoch > 0 => Siblings(h) = {}
      PROVE  h \in trigger'.hdrs \/ InProgress(h)'
  <2>1. h \in Start
    BY DEF TriggerTypeOK
  <2>2. CASE admitted /\ h \in view.hdrs \cap view.proofs
    <3>1. /\ IsActionable(h) /\ ~IsDeadMetaBlock(h)
          /\ trigger.epoch > 0 => Siblings(h) = {}
          /\ pend.generation > 0 => trigger.epoch > processedEpoch
      BY <1>2, <2>1 DEF IsActionable, actionableEpoch, processedEpoch
    <3>2. h \in trigger.hdrs \/ InProgress(h)
      BY <2>2, <3>1 DEF RetainedInv, Retained
    <3>3. \A d : IsCurrent(d) => IsCurrent(d)'
      BY DEF IsCurrent
    <3> QED
      BY <3>2, <3>3 DEF InProgress
  <2>3. CASE \E c \in calls' : c.gen = NoGeneration /\ c.at = "look" /\ c.hash = h
    BY <1>2, <2>3 DEF InProgress, IsCurrent
  <2> QED
    BY <1>2, <2>2, <2>3
<1>3. Retained'
  BY <1>2 DEF Retained, Siblings
<1> QED
  BY <1>1, <1>3 DEF RetainedInv

LEMMA Arrivals ==
  ASSUME RetainedInv, NEW h \in Start, HeaderArrives(h) \/ ProofArrives(h)
  PROVE  RetainedInv'
<1>1. PICK kind \in {"header", "proof"} :
        /\ calls' = calls \cup {NewCall(kind, h, NoGeneration, "look")}
        /\ \/ view' = [view EXCEPT !.hdrs = @ \cup {h}]
           \/ view' = [view EXCEPT !.proofs = @ \cup {h}]
        /\ UNCHANGED <<trigger, pend, admitted>>
  BY DEF HeaderArrives, ProofArrives, Begin
<1>2. PICK c : c = NewCall(kind, h, NoGeneration, "look")
  OBVIOUS
<1>3. /\ c \in CallRecord /\ c.kind = kind /\ c.hash = h /\ c.gen = NoGeneration
      /\ c.at = "look"
  BY <1>2, NewCallTyped DEF NoGeneration
<1>4. calls' = calls \cup {c}
  BY <1>1, <1>2
<1>5. /\ view' \in [hdrs : SUBSET Start, proofs : SUBSET Start, support : [Start -> 0..2]]
      /\ view'.support = view.support
      /\ view'.hdrs \cap view'.proofs \subseteq (view.hdrs \cap view.proofs) \cup {h}
  BY <1>1 DEF RetainedInv, ArmedInv, TriggerTypeOK
<1>6. TriggerTypeOK' /\ CallsNamed' /\ OnlyCanonicalExtended'
  BY <1>1, <1>3, <1>4, <1>5
     DEF RetainedInv, ArmedInv, TriggerTypeOK, CallsNamed, OnlyCanonicalExtended
<1>7. \A g \in Start : IsDeadMetaBlock(g) => IsDeadMetaBlock(g)'
  BY <1>5 DEF IsDeadMetaBlock, Siblings
<1>8. \A g \in view'.hdrs \cap view'.proofs :
        \/ admitted /\ g \in view.hdrs \cap view.proofs
        \/ ~admitted'
        \/ \E d \in calls' : d.gen = NoGeneration /\ d.at = "look" /\ d.hash = g
  BY <1>1, <1>3, <1>4, <1>5
<1> QED
  BY <1>1, <1>4, <1>6, <1>7, <1>8, BlocksCome

LEMMA Neighbours ==
  ASSUME RetainedInv, NEW h \in Start, NeighboursArrive(h)
  PROVE  RetainedInv'
<1>1. /\ view.support \in [Start -> 0..2] /\ view.support[h] < 2
      /\ view.support[h] = 1 => h \in CanonicalStart
      /\ view'.support = [view.support EXCEPT ![h] = @ + 1]
      /\ view'.hdrs = view.hdrs /\ view'.proofs = view.proofs
      /\ view' \in [hdrs : SUBSET Start, proofs : SUBSET Start, support : [Start -> 0..2]]
      /\ UNCHANGED <<trigger, pend, admitted, calls>>
  BY DEF RetainedInv, ArmedInv, TriggerTypeOK, NeighboursArrive
<1>2. TriggerTypeOK' /\ CallsNamed' /\ OnlyCanonicalExtended'
  BY <1>1 DEF RetainedInv, ArmedInv, TriggerTypeOK, CallsNamed, OnlyCanonicalExtended
<1>3. \A g \in Start : IsDeadMetaBlock(g) => IsDeadMetaBlock(g)'
  BY DeadStays DEF RetainedInv, ArmedInv
<1>4. \A g \in view'.hdrs \cap view'.proofs :
        \/ admitted /\ g \in view.hdrs \cap view.proofs
        \/ ~admitted'
  BY <1>1
<1> QED
  BY <1>1, <1>2, <1>3, <1>4, BlocksCome

LEMMA Eviction ==
  ASSUME RetainedInv, NEW h \in Start, Evicted(h)
  PROVE  RetainedInv'
<1>1. /\ view' \in [hdrs : SUBSET Start, proofs : SUBSET Start, support : [Start -> 0..2]]
      /\ view'.support = view.support
      /\ view'.hdrs \cap view'.proofs \subseteq view.hdrs \cap view.proofs
      /\ UNCHANGED <<trigger, pend, admitted, calls>>
  BY DEF RetainedInv, ArmedInv, TriggerTypeOK, Evicted
<1>2. TriggerTypeOK' /\ CallsNamed' /\ OnlyCanonicalExtended'
  BY <1>1 DEF RetainedInv, ArmedInv, TriggerTypeOK, CallsNamed, OnlyCanonicalExtended
<1>3. \A g \in Start : IsDeadMetaBlock(g) => IsDeadMetaBlock(g)'
  BY <1>1 DEF IsDeadMetaBlock, Siblings
<1>4. \A g \in view'.hdrs \cap view'.proofs :
        \/ admitted /\ g \in view.hdrs \cap view.proofs
        \/ ~admitted'
  BY <1>1
<1> QED
  BY <1>1, <1>2, <1>3, <1>4, BlocksCome

LEMMA Bootstrapped ==
  ASSUME RetainedInv, OnBootstrapCompleted
  PROVE  RetainedInv'
<1>1. /\ UNCHANGED <<trigger, pend, view>> /\ ~admitted /\ admitted'
      /\ calls' = calls \cup {NewCall("header", h, NoGeneration, "look") : h \in view.hdrs}
      /\ view.hdrs \subseteq Start
  BY DEF RetainedInv, ArmedInv, TriggerTypeOK, OnBootstrapCompleted, Begin
<1>2. \A h \in view.hdrs :
        LET c == NewCall("header", h, NoGeneration, "look")
        IN  /\ c \in CallRecord /\ c.kind = "header" /\ c.hash = h /\ c.gen = NoGeneration
            /\ c.at = "look"
  BY <1>1, NewCallTyped DEF NoGeneration
<1>3. TriggerTypeOK' /\ CallsNamed' /\ OnlyCanonicalExtended'
  BY <1>1, <1>2 DEF RetainedInv, ArmedInv, TriggerTypeOK, CallsNamed, OnlyCanonicalExtended,
                    OnBootstrapCompleted
<1>4. \A g \in Start : IsDeadMetaBlock(g) => IsDeadMetaBlock(g)'
  BY <1>1 DEF IsDeadMetaBlock, Siblings
<1>5. \A g \in view'.hdrs \cap view'.proofs :
        \E d \in calls' : d.gen = NoGeneration /\ d.at = "look" /\ d.hash = g
  BY <1>1, <1>2
<1> QED
  BY <1>1, <1>3, <1>4, <1>5, BlocksCome

LEMMA ProposalSeen ==
  ASSUME RetainedInv, NEW h \in Start, RequestEpochStartIfNeeded(h)
  PROVE  RetainedInv'
<1>1. PICK c : c = NewCall("proposal", h, NoGeneration, "look")
  OBVIOUS
<1>2. c \in CallRecord /\ c.kind = "proposal" /\ c.hash = h /\ c.at = "look"
  BY <1>1, NewCallTyped DEF NoGeneration
<1>3. prepareRecoveryProcessingOwner(c, h) /\ UNCHANGED <<trigger, admitted, view>>
  BY <1>1 DEF RequestEpochStartIfNeeded
<1> QED
  BY <1>2, <1>3, OwnerPrepared

LEMMA ProofRetried ==
  ASSUME RetainedInv, NEW h \in Start, retryPendingEpochStartProof(h)
  PROVE  RetainedInv'
<1>1. /\ UNCHANGED <<trigger, admitted, view>> /\ pend \in PendingRecord
      /\ StartEpoch[h] \in Nat
  BY StartAssumption DEF RetainedInv, ArmedInv, TriggerTypeOK, retryPendingEpochStartProof
<1>2. CASE /\ UNCHANGED calls
           /\ \/ pend' = [pend EXCEPT !.proofs = @ \ {h}]
              \/ pend' = [pend EXCEPT !.proofs = @ \ {h}, !.headers = @ \cup {StartEpoch[h]}]
  <2>1. pend' \in PendingRecord /\ pend'.generation = pend.generation
    BY <1>1, <1>2 DEF PendingRecord
  <2>2. PICK c : c = [kind |-> "retry", hash |-> h, gen |-> 0, at |-> "remove", missing |-> FALSE]
    OBVIOUS
  <2>3. TriggerTypeOK' /\ CallsNamed'
    BY <1>1, <1>2, <2>1 DEF RetainedInv, ArmedInv, TriggerTypeOK, CallsNamed
  <2>4. c \in CallRecord /\ c.at = "remove"
    BY <2>2 DEF CallRecord
  <2> QED
    BY <1>1, <1>2, <2>1, <2>3, <2>4, CallLeaves
<1>3. CASE prepareRecoveryProcessingOwner(NewCall("retry", h, pend.generation, "look"), h)
  <2>1. PICK c : c = NewCall("retry", h, pend.generation, "look")
    OBVIOUS
  <2>2. pend.generation \in Int
    BY <1>1 DEF PendingRecord
  <2>3. c \in CallRecord /\ c.kind = "retry" /\ c.hash = h /\ c.at = "look"
    BY <2>1, <2>2, NewCallTyped
  <2>4. prepareRecoveryProcessingOwner(c, h)
    BY <1>3, <2>1
  <2> QED
    BY <1>1, <2>3, <2>4, OwnerPrepared
<1> QED
  BY <1>2, <1>3 DEF retryPendingEpochStartProof

-----------------------------------------------------------------------------
(* The steps under mutTrigger.                                              *)

(* Blocks are retained or settle the epoch: a call may go once its block is *)
(* retained.                                                                *)
LEMMA FieldsUpdated ==
  ASSUME RetainedInv, TriggerTypeOK', CallsNamed', UNCHANGED <<admitted, view>>,
         WellArmed(trigger'), trigger'.entered = trigger.entered,
         trigger'.epoch = trigger.epoch, trigger.hdrs \subseteq trigger'.hdrs,
         pend'.generation = pend.generation,
         \A d \in calls : d \in calls' \/ (d.at = "lock" /\ d.hash \in trigger'.hdrs)
  PROVE  RetainedInv'
<1>1. ArmedInv' /\ EpochFollows' /\ OnlyCanonicalExtended'
  BY DEF RetainedInv, ArmedInv, EpochFollows, OnlyCanonicalExtended, WellArmed, LastEntered,
         processedEpoch
<1>2. ASSUME admitted', pend'.generation > 0 => trigger'.epoch > processedEpoch',
             NEW h \in view'.hdrs \cap view'.proofs,
             IsActionable(h)', ~IsDeadMetaBlock(h)', trigger'.epoch > 0 => Siblings(h) = {}
      PROVE  h \in trigger'.hdrs \/ InProgress(h)'
  <2>1. /\ h \in view.hdrs \cap view.proofs /\ IsActionable(h) /\ ~IsDeadMetaBlock(h)
        /\ trigger.epoch > 0 => Siblings(h) = {}
        /\ admitted /\ (pend.generation > 0 => trigger.epoch > processedEpoch)
    BY <1>2 DEF IsActionable, actionableEpoch, processedEpoch, IsDeadMetaBlock
  <2>2. h \in trigger.hdrs \/ InProgress(h)
    BY <2>1 DEF RetainedInv, Retained
  <2>3. \A d : IsCurrent(d)' = IsCurrent(d)
    BY DEF IsCurrent
  <2> QED
    BY <2>2, <2>3 DEF InProgress
<1>3. Retained'
  BY <1>2 DEF Retained, Siblings
<1> QED
  BY <1>1, <1>3 DEF RetainedInv

LEMMA HeaderProcessed ==
  ASSUME RetainedInv, NEW c \in calls, processMetaHeaderWithProof(c)
  PROVE  RetainedInv'
<1>1. /\ c \in CallRecord /\ c.at = "lock" /\ c.hash \in Start /\ pend \in PendingRecord
      /\ trigger \in TriggerRecord /\ WellArmed(trigger) /\ UNCHANGED <<admitted, view>>
  BY DEF RetainedInv, ArmedInv, TriggerTypeOK, CallsNamed, processMetaHeaderWithProof
<1>2. ASSUME Returns(c), trigger'.epoch = trigger.epoch
      PROVE  calls \ {c} \subseteq calls' /\ calls' \subseteq CallRecord /\ CallsNamed'
  <2>1. CASE Ends(c)
    BY <1>2, <2>1 DEF Ends, RetainedInv, ArmedInv, TriggerTypeOK, CallsNamed
  <2>2. CASE GoesTo(c, "remove")
    <3>1. PICK d : d = [c EXCEPT !.at = "remove"]
      OBVIOUS
    <3>2. d \in CallRecord /\ d.hash = c.hash /\ d.at = "remove"
      BY <1>1, <3>1, CallMoves
    <3>3. calls' = (calls \ {c}) \cup {d}
      BY <2>2, <3>1 DEF GoesTo
    <3> QED
      BY <1>1, <1>2, <3>2, <3>3 DEF RetainedInv, ArmedInv, TriggerTypeOK, CallsNamed
  <2> QED
    BY <1>2, <2>1, <2>2 DEF Returns
<1>3. CASE ~IsCurrent(c) /\ Ends(c) /\ UNCHANGED <<trigger, pend>>
  BY <1>1, <1>3, CallEnds
<1>4. CASE IsCurrent(c) /\ ~IsActionable(c.hash) /\ Returns(c) /\ UNCHANGED <<trigger, pend>>
  <2>1. TriggerTypeOK' /\ CallsNamed' /\ calls \ {c} \subseteq calls'
    BY <1>1, <1>2, <1>4 DEF RetainedInv, ArmedInv, TriggerTypeOK
  <2> QED
    BY <1>1, <1>4, <2>1, CallLeaves
<1>5. CASE /\ IsCurrent(c) /\ IsActionable(c.hash) /\ Returns(c)
           /\ LET p == IF c.missing THEN TrackMissingFinality(pend, {c.hash}) ELSE pend
              IN  IF c.hash \in trigger.finalized
                    THEN Apply([t |-> trigger, p |-> p])
                    ELSE Apply(updateTriggerFromMeta(
                                 [trigger EXCEPT !.hdrs = @ \cup {c.hash}], p))
  <2> DEFINE t == [trigger EXCEPT !.hdrs = @ \cup {c.hash}]
  <2>1. PICK p : p = IF c.missing THEN TrackMissingFinality(pend, {c.hash}) ELSE pend
    OBVIOUS
  <2>2. p \in PendingRecord /\ p.generation = pend.generation
    <3>1. 0 \in Nat /\ {c.hash} \in SUBSET Start
      BY <1>1
    <3> QED
      BY <1>1, <2>1, <3>1, PendingTyped
  <2>3. /\ t \in TriggerRecord /\ t.entered = trigger.entered /\ t.epoch = trigger.epoch
        /\ t.hdrs = trigger.hdrs \cup {c.hash} /\ t.finalized = trigger.finalized
        /\ t.isEpochStart = trigger.isEpochStart /\ t.metaEpoch = trigger.metaEpoch
        /\ t.epochMetaBlockHash = trigger.epochMetaBlockHash
    BY <1>1 DEF TriggerRecord
  <2>4. WellArmed(t)
    BY <1>1, <1>5, <2>3 DEF WellArmed, IsActionable, actionableEpoch, processedEpoch
  <2> HIDE DEF t
  <2>5. /\ trigger' \in TriggerRecord /\ WellArmed(trigger') /\ pend' \in PendingRecord
        /\ trigger'.entered = trigger.entered /\ trigger'.epoch = trigger.epoch
        /\ trigger.hdrs \cup {c.hash} \subseteq trigger'.hdrs
        /\ pend'.generation = pend.generation
    <3>1. CASE c.hash \in trigger.finalized
      <4>1. trigger' = trigger /\ pend' = p
        BY <1>5, <2>1, <3>1 DEF Apply
      <4> QED
        BY <1>1, <2>2, <3>1, <4>1 DEF WellArmed
    <3>2. CASE c.hash \notin trigger.finalized
      <4>1. Apply(updateTriggerFromMeta(t, p))
        BY <1>5, <2>1, <3>2 DEF t
      <4>2. PICK r : r = updateTriggerFromMeta(t, p)
        OBVIOUS
      <4>3. trigger' = r.t /\ pend' = r.p
        BY <4>1, <4>2 DEF Apply
      <4>4. /\ r.t \in TriggerRecord /\ WellArmed(r.t) /\ r.p \in PendingRecord
            /\ r.t.entered = t.entered /\ r.t.epoch = t.epoch /\ r.t.hdrs = t.hdrs
            /\ r.p.generation = p.generation
        BY <2>2, <2>3, <2>4, <4>2, UpdateKeepsArmed
      <4> QED
        BY <2>2, <2>3, <4>3, <4>4
    <3> QED
      BY <3>1, <3>2
  <2>6. TriggerTypeOK' /\ CallsNamed' /\ calls \ {c} \subseteq calls'
    BY <1>1, <1>2, <1>5, <2>5 DEF RetainedInv, ArmedInv, TriggerTypeOK
  <2>7. \A d \in calls : d \in calls' \/ (d.at = "lock" /\ d.hash \in trigger'.hdrs)
    BY <1>1, <2>5, <2>6
  <2> QED
    BY <1>1, <2>5, <2>6, <2>7, FieldsUpdated
<1> QED
  BY <1>3, <1>4, <1>5 DEF processMetaHeaderWithProof

(* The two loops that evaluate what is retained. *)
LEMMA Evaluated ==
  ASSUME RetainedInv, Apply(updateTriggerFromMeta(trigger, pend)),
         UNCHANGED <<admitted, view, calls>>
  PROVE  RetainedInv'
<1>1. PICK r : r = updateTriggerFromMeta(trigger, pend)
  OBVIOUS
<1>2. trigger \in TriggerRecord /\ WellArmed(trigger) /\ pend \in PendingRecord
  BY DEF RetainedInv, ArmedInv, TriggerTypeOK
<1>3. trigger' = r.t /\ pend' = r.p
  BY <1>1 DEF Apply
<1>4. /\ r.t \in TriggerRecord /\ WellArmed(r.t) /\ r.p \in PendingRecord
      /\ r.t.entered = trigger.entered /\ r.t.epoch = trigger.epoch /\ r.t.hdrs = trigger.hdrs
      /\ r.p.generation = pend.generation
  BY <1>1, <1>2, UpdateKeepsArmed
<1>5. TriggerTypeOK' /\ CallsNamed'
  BY <1>3, <1>4 DEF RetainedInv, ArmedInv, TriggerTypeOK, CallsNamed
<1> QED
  BY <1>3, <1>4, <1>5, FieldsUpdated

(* The shard enters the next epoch. After a rollback nothing is claimed of   *)
(* it; without one, its blocks in the pool are looked for.                   *)
LEMMA EpochEntered ==
  ASSUME RetainedInv, NEW h \in Start, SetProcessed(h)
  PROVE  RetainedInv'
<1> DEFINE entered == Append(trigger.entered, h)
<1>1. /\ trigger \in TriggerRecord /\ WellArmed(trigger) /\ pend \in PendingRecord
      /\ UNCHANGED <<admitted, view>> /\ h = trigger.epochMetaBlockHash
      /\ StartEpoch[h] = Len(trigger.entered) + 1 /\ StartEpoch[h] \in Nat
      /\ trigger.entered \in Seq(Start)
  BY StartAssumption DEF RetainedInv, ArmedInv, TriggerTypeOK, SetProcessed, IsActionable,
                         actionableEpoch, processedEpoch, TriggerRecord
<1>2. /\ entered \in Seq(Start) /\ Len(entered) = Len(trigger.entered) + 1
      /\ entered # <<>> /\ Len(entered) \in Nat /\ entered[Len(entered)] = h
      /\ \A i \in 1..Len(trigger.entered) : entered[i] = trigger.entered[i]
  BY <1>1
<1>3. trigger' = [trigger EXCEPT !.entered = entered, !.epoch = StartEpoch[h],
                                 !.isEpochStart = FALSE, !.hdrs = {}, !.finalized = {}]
  BY DEF SetProcessed
<1> HIDE DEF entered
<1>4. /\ trigger' \in TriggerRecord /\ trigger'.entered = entered
      /\ trigger'.epoch = StartEpoch[h] /\ trigger'.isEpochStart = FALSE
      /\ trigger'.hdrs = {} /\ trigger'.finalized = {} /\ trigger'.epochMetaBlockHash = h
  BY <1>1, <1>2, <1>3 DEF TriggerRecord
<1>5. WellArmed(trigger')
  <2>1. ASSUME NEW i \in 1..Len(entered) PROVE StartEpoch[entered[i]] = i
    <3>1. CASE i = Len(entered)
      BY <1>1, <1>2, <3>1
    <3>2. CASE i # Len(entered)
      <4>1. i \in 1..Len(trigger.entered)
        BY <1>1, <1>2, <3>2
      <4> QED
        BY <1>1, <1>2, <4>1 DEF WellArmed
    <3> QED
      BY <3>1, <3>2
  <2>2. LastEntered(entered) = h
    BY <1>2 DEF LastEntered, Last
  <2> QED
    BY <1>1, <1>2, <1>4, <2>1, <2>2 DEF WellArmed
<1>6. pend' \in PendingRecord /\ pend'.generation = pend.generation
  <2>1. pend' = RemoveForEpochOrOlder(pend, StartEpoch[h]) /\ {} \in SUBSET Start
    BY DEF SetProcessed
  <2> QED
    BY <1>1, <2>1, PendingTyped
<1>7. PICK c : c = NewCall("reconsider", NoStart, pend.generation, "look")
  OBVIOUS
<1>8. /\ c \in CallRecord /\ c.kind = "reconsider" /\ c.gen = pend.generation
      /\ c.at = "look"
  <2>1. pend.generation \in Int
    BY <1>1 DEF PendingRecord
  <2> QED
    BY <1>7, <2>1, NewCallTyped
<1>9. \/ StartEpoch[h] > trigger.epoch /\ calls' = calls \cup {c}
      \/ ~(StartEpoch[h] > trigger.epoch) /\ calls' = calls
  BY <1>7 DEF SetProcessed, Begin
<1>10. TriggerTypeOK' /\ CallsNamed'
  BY <1>1, <1>4, <1>6, <1>8, <1>9 DEF RetainedInv, ArmedInv, TriggerTypeOK, CallsNamed
<1>11. EpochFollows' /\ OnlyCanonicalExtended'
  BY <1>1, <1>2, <1>4 DEF EpochFollows, processedEpoch, OnlyCanonicalExtended, RetainedInv
<1>12. ASSUME admitted', pend'.generation > 0 => trigger'.epoch > processedEpoch', NEW g
       PROVE  InProgress(g)'
  <2>1. pend.generation = 0
    BY <1>1, <1>2, <1>4, <1>6, <1>12 DEF processedEpoch, PendingRecord
  <2>2. StartEpoch[h] > trigger.epoch
    BY <1>1, <2>1 DEF RetainedInv, EpochFollows, processedEpoch
  <2>3. c \in calls'
    BY <1>9, <2>2
  <2>4. IsCurrent(c)'
    BY <1>6, <1>8, <2>1 DEF IsCurrent, NoGeneration
  <2> QED
    BY <1>8, <2>3, <2>4 DEF InProgress
<1>13. Retained'
  BY <1>12 DEF Retained
<1> QED
  BY <1>5, <1>10, <1>11, <1>13 DEF RetainedInv, ArmedInv

(* The epoch start block of the shard is rolled back; the metachain block it *)
(* named is the only one without siblings the next epoch can start with.     *)
LEMMA EpochReverted ==
  ASSUME RetainedInv, RevertStateToBlock
  PROVE  RetainedInv'
<1> DEFINE entered == Front(trigger.entered)
           h       == Last(trigger.entered)
           gen     == pend.generation + 1
<1>1. /\ trigger \in TriggerRecord /\ WellArmed(trigger) /\ pend \in PendingRecord
      /\ UNCHANGED <<admitted, view>> /\ trigger.entered # <<>>
      /\ trigger.entered \in Seq(Start) /\ gen \in Nat /\ gen > 0
      /\ trigger.epoch \in Nat
  BY DEF RetainedInv, ArmedInv, TriggerTypeOK, RevertStateToBlock, TriggerRecord, PendingRecord
<1>2. /\ entered \in Seq(Start) /\ Len(entered) + 1 = Len(trigger.entered)
      /\ Len(entered) \in Nat /\ h \in Start
      /\ \A i \in 1..Len(entered) : entered[i] = trigger.entered[i]
  BY <1>1 DEF Front, Last
<1>3. StartEpoch[h] = Len(entered) + 1
  <2>1. Len(trigger.entered) \in 1..Len(trigger.entered)
    BY <1>1, <1>2
  <2> QED
    BY <1>1, <1>2, <2>1 DEF WellArmed, Last
<1>4. /\ trigger' = [trigger EXCEPT !.entered = entered, !.metaEpoch = Len(entered),
                       !.isEpochStart = FALSE, !.epochMetaBlockHash = LastEntered(entered),
                       !.hdrs = {}, !.finalized = {}]
      /\ pend' = [EmptyPending(gen) EXCEPT !.candidates = {h}]
      /\ calls' = calls \cup {NewCall("recover", h, gen, "look")}
  BY DEF RevertStateToBlock, Begin
<1>5. PICK x \in Start : x = h
  BY <1>2
<1>6. PICK n \in Nat : n = gen
  BY <1>1
<1>7. PICK s : s = entered
  OBVIOUS
<1>8. LastEntered(s) \in Start \cup {NoStart}
  BY <1>2, <1>7 DEF LastEntered, Last
<1>9. /\ trigger' = [trigger EXCEPT !.entered = s, !.metaEpoch = Len(s),
                       !.isEpochStart = FALSE, !.epochMetaBlockHash = LastEntered(s),
                       !.hdrs = {}, !.finalized = {}]
      /\ pend' = [EmptyPending(n) EXCEPT !.candidates = {x}]
      /\ calls' = calls \cup {NewCall("recover", x, n, "look")}
      /\ s \in Seq(Start) /\ Len(s) \in Nat /\ Len(s) + 1 = Len(trigger.entered) /\ n > 0
      /\ \A i \in 1..Len(s) : s[i] = trigger.entered[i]
      /\ StartEpoch[x] = Len(s) + 1
  BY <1>1, <1>2, <1>3, <1>4, <1>5, <1>6, <1>7
<1> HIDE DEF entered, h, gen
<1>10. /\ trigger' \in TriggerRecord /\ trigger'.entered = s /\ trigger'.epoch = trigger.epoch
       /\ trigger'.isEpochStart = FALSE /\ trigger'.epochMetaBlockHash = LastEntered(s)
       /\ trigger'.hdrs = {} /\ trigger'.finalized = {}
  BY <1>1, <1>8, <1>9 DEF TriggerRecord
<1>11. pend' \in PendingRecord /\ pend'.generation = n
  BY <1>9 DEF EmptyPending, PendingRecord
<1>12. PICK c : c = NewCall("recover", x, n, "look")
  OBVIOUS
<1>13. /\ c \in CallRecord /\ c.kind = "recover" /\ c.gen = n /\ c.hash = x /\ c.at = "look"
       /\ calls' = calls \cup {c}
  BY <1>9, <1>12, NewCallTyped
<1>14. WellArmed(trigger')
  <2>1. \A i \in 1..Len(s) : i \in 1..Len(trigger.entered)
    BY <1>9
  <2>2. \A i \in 1..Len(s) : StartEpoch[s[i]] = i
    BY <1>1, <1>9, <2>1 DEF WellArmed
  <2>3. Len(s) <= trigger.epoch
    BY <1>1, <1>9 DEF WellArmed
  <2> QED
    BY <1>10, <2>2, <2>3 DEF WellArmed
<1>15. TriggerTypeOK' /\ CallsNamed'
  BY <1>1, <1>10, <1>11, <1>13 DEF RetainedInv, ArmedInv, TriggerTypeOK, CallsNamed
<1>16. EpochFollows' /\ OnlyCanonicalExtended'
  BY <1>1, <1>9, <1>11 DEF EpochFollows, OnlyCanonicalExtended, RetainedInv
<1>17. ASSUME NEW g \in view'.hdrs \cap view'.proofs, IsActionable(g)',
              trigger'.epoch > 0 => Siblings(g) = {}
       PROVE  InProgress(g)'
  <2>1. g \in Start
    BY <1>15 DEF TriggerTypeOK
  <2>2. trigger'.epoch > 0
    BY <1>1, <1>9, <1>10 DEF WellArmed
  <2>3. StartEpoch[g] = Len(s) + 1
    BY <1>10, <1>17 DEF IsActionable, actionableEpoch, processedEpoch
  <2>4. g = x
    BY <1>9, <1>17, <2>1, <2>2, <2>3 DEF Siblings
  <2>5. IsCurrent(c)'
    BY <1>11, <1>13 DEF IsCurrent, NoGeneration
  <2> QED
    BY <1>13, <2>4, <2>5 DEF InProgress
<1>18. Retained'
  BY <1>17 DEF Retained, Siblings
<1> QED
  BY <1>14, <1>15, <1>16, <1>18 DEF RetainedInv, ArmedInv

(* The trigger forgets a block that is dead, and no other. *)
LEMMA Disarmed ==
  ASSUME RetainedInv, NEW h \in Start, DisarmDeadEpochStartActivation(h)
  PROVE  RetainedInv'
<1> DEFINE t == [trigger EXCEPT !.finalized = @ \ {h}, !.hdrs = @ \ {h}]
<1>1. /\ trigger \in TriggerRecord /\ WellArmed(trigger) /\ pend \in PendingRecord
      /\ UNCHANGED <<admitted, view, calls>> /\ IsDeadMetaBlock(h) /\ h \in trigger.finalized
      /\ trigger.entered \in Seq(Start) /\ trigger.epoch \in Nat
  BY DEF RetainedInv, ArmedInv, TriggerTypeOK, DisarmDeadEpochStartActivation, TriggerRecord
<1>2. /\ t \in TriggerRecord /\ t.entered = trigger.entered /\ t.epoch = trigger.epoch
      /\ t.hdrs = trigger.hdrs \ {h} /\ t.finalized = trigger.finalized \ {h}
      /\ t.isEpochStart = trigger.isEpochStart /\ t.metaEpoch = trigger.metaEpoch
      /\ t.epochMetaBlockHash = trigger.epochMetaBlockHash
  BY <1>1 DEF TriggerRecord
<1>3. trigger' = IF t.epochMetaBlockHash = h
                   THEN [t EXCEPT !.metaEpoch = t.epoch, !.isEpochStart = FALSE,
                                  !.epochMetaBlockHash = LastEntered(t.entered)]
                   ELSE t
  BY DEF DisarmDeadEpochStartActivation
<1> HIDE DEF t
<1>4. /\ trigger' \in TriggerRecord /\ WellArmed(trigger') /\ trigger'.entered = trigger.entered
      /\ trigger'.epoch = trigger.epoch /\ trigger'.hdrs = trigger.hdrs \ {h}
  <2>1. CASE t.epochMetaBlockHash = h
    <3>1. LastEntered(t.entered) \in Start \cup {NoStart}
      BY <1>1, <1>2 DEF LastEntered, Last
    <3>2. /\ trigger' \in TriggerRecord /\ trigger'.entered = trigger.entered
          /\ trigger'.epoch = trigger.epoch /\ trigger'.hdrs = trigger.hdrs \ {h}
          /\ trigger'.finalized = trigger.finalized \ {h}
          /\ trigger'.isEpochStart = FALSE
          /\ trigger'.epochMetaBlockHash = LastEntered(trigger.entered)
      BY <1>1, <1>2, <1>3, <2>1, <3>1 DEF TriggerRecord
    <3> QED
      BY <1>1, <3>2 DEF WellArmed
  <2>2. CASE t.epochMetaBlockHash # h
    BY <1>1, <1>2, <1>3, <2>2 DEF WellArmed
  <2> QED
    BY <2>1, <2>2
<1>5. pend' \in PendingRecord /\ pend'.generation = pend.generation
  BY <1>1 DEF DisarmDeadEpochStartActivation, PendingRecord
<1>6. TriggerTypeOK' /\ CallsNamed'
  BY <1>1, <1>4, <1>5 DEF RetainedInv, ArmedInv, TriggerTypeOK, CallsNamed
<1>7. EpochFollows' /\ OnlyCanonicalExtended'
  BY <1>1, <1>4, <1>5 DEF RetainedInv, EpochFollows, OnlyCanonicalExtended, processedEpoch
<1>8. ASSUME admitted', pend'.generation > 0 => trigger'.epoch > processedEpoch',
             NEW g \in view'.hdrs \cap view'.proofs,
             IsActionable(g)', ~IsDeadMetaBlock(g)', trigger'.epoch > 0 => Siblings(g) = {}
      PROVE  g \in trigger'.hdrs \/ InProgress(g)'
  <2>1. /\ g \in view.hdrs \cap view.proofs /\ IsActionable(g) /\ ~IsDeadMetaBlock(g)
        /\ trigger.epoch > 0 => Siblings(g) = {}
        /\ admitted /\ (pend.generation > 0 => trigger.epoch > processedEpoch)
    BY <1>1, <1>4, <1>5, <1>8 DEF IsActionable, actionableEpoch, processedEpoch, IsDeadMetaBlock
  <2>2. g # h
    BY <1>1, <2>1
  <2>3. g \in trigger.hdrs \/ InProgress(g)
    BY <2>1 DEF RetainedInv, Retained
  <2>4. \A d : IsCurrent(d)' = IsCurrent(d)
    BY <1>1, <1>5 DEF IsCurrent
  <2> QED
    BY <1>1, <1>4, <2>2, <2>3, <2>4 DEF InProgress
<1>9. Retained'
  BY <1>8 DEF Retained, Siblings
<1> QED
  BY <1>4, <1>6, <1>7, <1>9 DEF RetainedInv, ArmedInv

-----------------------------------------------------------------------------

LEMMA RetainedInit ==
  TriggerInit => RetainedInv
<1> SUFFICES ASSUME TriggerInit PROVE RetainedInv
  OBVIOUS
<1>1. TriggerTypeOK
  BY DEF TriggerInit, TriggerTypeOK, TriggerRecord, PendingRecord, EmptyPending, NoStart
<1>2. WellArmed(trigger)
  BY DEF TriggerInit, WellArmed, LastEntered
<1>3. CallsNamed /\ EpochFollows /\ OnlyCanonicalExtended /\ Retained
  BY DEF TriggerInit, CallsNamed, EpochFollows, processedEpoch, OnlyCanonicalExtended, Retained
<1> QED
  BY <1>1, <1>2, <1>3 DEF RetainedInv, ArmedInv

LEMMA RetainedStep ==
  RetainedInv /\ [TriggerNext]_triggerVars => RetainedInv'
<1> SUFFICES ASSUME RetainedInv, [TriggerNext]_triggerVars PROVE RetainedInv'
  OBVIOUS
<1>1. ASSUME NEW h \in Start,
             HeaderArrives(h) \/ ProofArrives(h) \/ NeighboursArrive(h) \/ Evicted(h)
      PROVE  RetainedInv'
  BY <1>1, Arrivals, Neighbours, Eviction
<1>2. ASSUME NEW c \in calls, CallStep(c) PROVE RetainedInv'
  BY <1>2, HeaderReceived, ProofReceived, ProofMadePending, HeaderProcessed, PendingRemoved,
     PooledReconsidered, CandidateRecovered, CandidateMoved DEF CallStep
<1>3. CASE RetryStep
  BY <1>3, ProofRetried, Evaluated
     DEF RetryStep, retryPendingFinalityEvidence, requestMissingMiniBlocks
<1>4. ASSUME NEW h \in Start, RequestEpochStartIfNeeded(h) PROVE RetainedInv'
  BY <1>4, ProposalSeen
<1>5. CASE OnBootstrapCompleted
  BY <1>5, Bootstrapped
<1>6. ASSUME NEW h \in Start, SetProcessed(h) \/ DisarmDeadEpochStartActivation(h)
      PROVE  RetainedInv'
  BY <1>6, EpochEntered, Disarmed
<1>7. CASE RevertStateToBlock
  BY <1>7, EpochReverted
<1>8. CASE UNCHANGED triggerVars
  BY <1>8 DEF triggerVars, RetainedInv, ArmedInv, TriggerTypeOK, WellArmed, LastEntered,
     CallsNamed, EpochFollows, processedEpoch, OnlyCanonicalExtended, Retained, InProgress,
     IsCurrent, IsActionable, actionableEpoch, IsDeadMetaBlock, Siblings
<1> QED
  BY <1>1, <1>2, <1>3, <1>4, <1>5, <1>6, <1>7, <1>8 DEF TriggerNext

LEMMA TriggerAlwaysRetains ==
  TriggerSpec => []RetainedInv
BY RetainedInit, RetainedStep, PTL DEF TriggerSpec

(* For every set of competing epoch start blocks and any number of rollbacks  *)
(* and calls in progress, the trigger is armed exactly with a block that      *)
(* settled the next epoch, and otherwise names the block of the epoch the     *)
(* shard is in (updateTriggerFromMeta, SetProcessed, RevertStateToBlock,      *)
(* DisarmDeadEpochStartActivation).                                           *)
THEOREM TriggerArmedBySettled == TriggerSpec => []ArmedBySettled
<1>1. RetainedInv => ArmedBySettled
  BY DEF RetainedInv, ArmedInv, WellArmed, ArmedBySettled, actionableEpoch, processedEpoch
<1> QED
  BY <1>1, TriggerAlwaysRetains, PTL

(* For every value of the constants, a pooled and proven epoch start block    *)
(* the trigger may still need is retained, pending or in the hands of a call, *)
(* whatever came first: header, proof, bootstrap, the commit that makes its   *)
(* epoch the next one, or a rollback.                                         *)
THEOREM TriggerForgetsNothing == TriggerSpec => []NotForgotten
<1>1. RetainedInv => NotForgotten
  BY DEF RetainedInv, Retained, NotForgotten, InProgress, IsOwned
<1> QED
  BY <1>1, TriggerAlwaysRetains, PTL
=============================================================================
