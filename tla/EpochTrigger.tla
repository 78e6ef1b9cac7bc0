---------------------------- MODULE EpochTrigger ----------------------------
(* The epoch start trigger of a shard node after the Supernova activation:   *)
(* epochStart/shardchain/trigger.go. Epoch start blocks of the metachain are *)
(* received, proven and held final in any order; the trigger arms the shard  *)
(* for the next epoch, and survives rollbacks of the shard's own epoch start *)
(* block and the death of the metachain block that armed it. Epochs are      *)
(* counted from the one the node starts in. Calls of the trigger run in      *)
(* goroutines of their own; a call is a record with its place.               *)
EXTENDS Integers, Sequences, FiniteSets, SequencesExt, FiniteSetsExt

CONSTANTS Start,           \* epoch start blocks, naturals so that bytes.Compare orders them
          StartEpoch,      \* the epoch each one starts
          CanonicalStart,  \* the ones the metachain keeps
          MaxEvictions,    \* bound on headers and proofs the pools drop
          MaxReverts,      \* bound on rollbacks of the shard's epoch start block
          MaxCalls         \* bound on calls in progress at a time

ASSUME StartAssumption ==
  /\ Start \subseteq Nat \ {0}
  /\ StartEpoch \in [Start -> Nat \ {0}]
  /\ CanonicalStart \subseteq Start
  /\ \A g, h \in CanonicalStart : StartEpoch[g] = StartEpoch[h] => g = h
  /\ MaxEvictions \in Nat /\ MaxReverts \in Nat /\ MaxCalls \in Nat

VARIABLES
  trigger,   \* the fields under mutTrigger
  pend,      \* the fields under mutPendingEpochStartData
  admitted,  \* callbackAdmission
  view,      \* headers pool, proofs pool, and the neighbours they hold
  calls,     \* the calls in progress
  evictions

triggerVars == <<trigger, pend, admitted, view, calls, evictions>>

NoStart == 0
NoGeneration == -1

-----------------------------------------------------------------------------

(* The committed epoch start headers of the shard name the metachain blocks *)
(* in entered; epochStartShardHeader is the last of them.                   *)
processedEpoch == Len(trigger.entered)
actionableEpoch == processedEpoch + 1
IsActionable(h) == StartEpoch[h] = actionableEpoch

LastEntered(entered) == IF entered = <<>> THEN NoStart ELSE Last(entered)

(* Competing epoch start blocks share their parent. *)
Siblings(h) == {s \in Start \ {h} : StartEpoch[s] = StartEpoch[h]}

(* Support 1: the parent is proven and the round not contended, or a child  *)
(* is proven. Support 2: two proven descendants, which a block with a       *)
(* proven sibling needs.                                                    *)
IsMetaHeaderHeldFinal(h) ==
  /\ h \in view.proofs
  /\ view.support[h] >= IF Siblings(h) \cap view.proofs = {} THEN 1 ELSE 2

IsDeadMetaBlock(h) ==
  view.support[h] < 2 /\ \E s \in Siblings(h) : view.support[s] = 2

-----------------------------------------------------------------------------

(* Missing finality evidence of blocks is recorded in place of a candidate. *)
TrackMissingFinality(p, hs) ==
  [p EXCEPT !.finality = @ \cup hs, !.candidates = @ \ hs]

AddPendingProof(p, h) ==
  [p EXCEPT !.proofs = @ \cup {h}, !.candidates = @ \ {h}]

RemoveForEpochOrOlder(p, e) ==
  LET Later(hs) == {h \in hs : StartEpoch[h] > e}
  IN  [p EXCEPT !.proofs = Later(@), !.finality = Later(@), !.candidates = Later(@),
                !.headers = {d \in @ : d > e}]

(* updateTriggerFromMeta over the trigger's fields t and the pending data p: *)
(* the first retained block of the actionable epoch that is held final       *)
(* settles the epoch, and arms the trigger unless metaEpoch got there before. *)
updateTriggerFromMeta(t, p) ==
  LET e     == Len(t.entered) + 1
      known == {h \in t.hdrs : StartEpoch[h] = e}
      final == {h \in known : IsMetaHeaderHeldFinal(h)}
      first == Min(final)
      armed == [t EXCEPT !.metaEpoch = e, !.isEpochStart = TRUE, !.epochMetaBlockHash = first]
  IN  IF \E h \in t.finalized : StartEpoch[h] = e THEN [t |-> t, p |-> p]
      ELSE IF final = {} THEN [t |-> t, p |-> TrackMissingFinality(p, known)]
      ELSE [t |-> [(IF t.metaEpoch < e THEN armed ELSE t) EXCEPT !.finalized = @ \cup {first}],
            p |-> RemoveForEpochOrOlder(p, e)]

Apply(r) == trigger' = r.t /\ pend' = r.p

-----------------------------------------------------------------------------

NewCall(kind, h, gen, at) ==
  [kind |-> kind, hash |-> h, gen |-> gen, at |-> at, missing |-> FALSE]

(* A call begins, ends, or goes on at another place. *)
Begin(cs) == Cardinality(calls \cup cs) <= MaxCalls /\ calls' = calls \cup cs
Ends(c) == calls' = calls \ {c}
GoesTo(c, at) == calls' = (calls \ {c}) \cup {[c EXCEPT !.at = at]}

(* A call of a recovery is void once a rollback has begun a new generation, *)
(* one of a callback before callbacks are admitted.                         *)
IsCurrent(c) == IF c.gen = NoGeneration THEN admitted ELSE c.gen = pend.generation

EmptyPending(gen) ==
  [proofs |-> {}, headers |-> {}, finality |-> {}, candidates |-> {}, generation |-> gen]

TriggerInit ==
  /\ trigger = [entered |-> <<>>, epoch |-> 0, metaEpoch |-> 0, isEpochStart |-> FALSE,
                epochMetaBlockHash |-> NoStart, hdrs |-> {}, finalized |-> {}]
  /\ pend = EmptyPending(0)
  /\ admitted \in BOOLEAN
  /\ view = [hdrs |-> {}, proofs |-> {}, support |-> [h \in Start |-> 0]]
  /\ calls = {}
  /\ evictions = 0

-----------------------------------------------------------------------------
(* The pools. *)

HeaderArrives(h) ==
  /\ h \notin view.hdrs
  /\ view' = [view EXCEPT !.hdrs = @ \cup {h}]
  /\ Begin({NewCall("header", h, NoGeneration, "look")})
  /\ UNCHANGED <<trigger, pend, admitted, evictions>>

ProofArrives(h) ==
  /\ h \notin view.proofs
  /\ view' = [view EXCEPT !.proofs = @ \cup {h}]
  /\ Begin({NewCall("proof", h, NoGeneration, "look")})
  /\ UNCHANGED <<trigger, pend, admitted, evictions>>

(* Neighbours of a block arrive; the metachain extends only one branch twice. *)
NeighboursArrive(h) ==
  /\ view.support[h] < IF h \in CanonicalStart /\ Siblings(h) # {} THEN 2 ELSE 1
  /\ view' = [view EXCEPT !.support[h] = @ + 1]
  /\ UNCHANGED <<trigger, pend, admitted, calls, evictions>>

(* The pools drop what is old: the header or the proof of an epoch start *)
(* block that the shard had processed.                                   *)
Evicted(h) ==
  /\ StartEpoch[h] <= trigger.epoch
  /\ evictions < MaxEvictions
  /\ evictions' = evictions + 1
  /\ \/ h \in view.hdrs /\ view' = [view EXCEPT !.hdrs = @ \ {h}]
     \/ h \in view.proofs /\ view' = [view EXCEPT !.proofs = @ \ {h}]
  /\ UNCHANGED <<trigger, pend, admitted, calls>>

-----------------------------------------------------------------------------
(* The callbacks of the pools, and the processing of a proven header. *)

(* Whether the pending data know the block, its epoch included. *)
IsPending(h) ==
  \/ h \in pend.proofs \cup pend.finality \cup pend.candidates
  \/ StartEpoch[h] \in pend.headers

(* The callers that remove pending data once the block has been processed. *)
Removes(kind) == kind \in {"header", "proof", "recover", "retry"}

(* A call goes on to its caller's removals, or ends. *)
Returns(c) == IF Removes(c.kind) THEN GoesTo(c, "remove") ELSE Ends(c)

(* processMetaHeaderWithProofInternal up to the lock: a pending block becomes *)
(* a candidate of the recovery, and its finality is read.                     *)
prepareRecoveryProcessingOwner(c, h) ==
  \/ ~IsCurrent(c) /\ Ends(c) /\ UNCHANGED pend
  \/ IsCurrent(c) /\ ~IsActionable(h) /\ Returns(c) /\ UNCHANGED pend
  \/ /\ IsCurrent(c) /\ IsActionable(h)
     /\ pend' = IF IsPending(h) THEN [pend EXCEPT !.candidates = @ \cup {h}] ELSE pend
     /\ calls' = (calls \ {c}) \cup
          {[c EXCEPT !.hash = h, !.at = "lock",
                     !.missing = IsPending(h) /\ ~IsMetaHeaderHeldFinal(h)]}

receivedMetaBlock(c) ==
  /\ c.kind = "header" /\ c.at = "look"
  /\ \/ c.hash \in view.proofs /\ prepareRecoveryProcessingOwner(c, c.hash)
     \/ /\ c.hash \notin view.proofs
        /\ IF IsCurrent(c) /\ IsActionable(c.hash) THEN GoesTo(c, "pend") ELSE Ends(c)
        /\ UNCHANGED pend
  /\ UNCHANGED <<trigger, admitted, view, evictions>>

receivedProof(c) ==
  /\ c.kind = "proof" /\ c.at = "look"
  /\ \/ c.hash \in view.hdrs /\ prepareRecoveryProcessingOwner(c, c.hash)
     \/ c.hash \notin view.hdrs /\ Ends(c) /\ UNCHANGED pend
  /\ UNCHANGED <<trigger, admitted, view, evictions>>

(* A shard header of the next epoch names its epoch start block: *)
(* requestEpochStartFromProposal with both parts in the pools.   *)
RequestEpochStartIfNeeded(h) ==
  /\ IsActionable(h)
  /\ h \in view.hdrs \cap view.proofs
  /\ Cardinality(calls) < MaxCalls
  /\ prepareRecoveryProcessingOwner(NewCall("proposal", h, NoGeneration, "look"), h)
  /\ UNCHANGED <<trigger, admitted, view, evictions>>

(* The proof was missing when the call looked. *)
addPendingProof(c) ==
  /\ c.at = "pend"
  /\ pend' = IF IsCurrent(c) /\ (c.kind = "recover" \/ IsActionable(c.hash))
               THEN AddPendingProof(pend, c.hash) ELSE pend
  /\ Ends(c)
  /\ UNCHANGED <<trigger, admitted, view, evictions>>

(* The rest of it, under mutTrigger: the block is retained and evaluated. *)
processMetaHeaderWithProof(c) ==
  /\ c.at = "lock"
  /\ \/ ~IsCurrent(c) /\ Ends(c) /\ UNCHANGED <<trigger, pend>>
     \/ IsCurrent(c) /\ ~IsActionable(c.hash) /\ Returns(c) /\ UNCHANGED <<trigger, pend>>
     \/ /\ IsCurrent(c) /\ IsActionable(c.hash)
        /\ LET p == IF c.missing THEN TrackMissingFinality(pend, {c.hash}) ELSE pend
           IN  IF c.hash \in trigger.finalized
                 THEN Apply([t |-> trigger, p |-> p])
                 ELSE Apply(updateTriggerFromMeta(
                              [trigger EXCEPT !.hdrs = @ \cup {c.hash}], p))
        /\ Returns(c)
  /\ UNCHANGED <<admitted, view, evictions>>

(* What the caller removes once its block has been processed. *)
removePendingEpochStartData(c) ==
  /\ c.at = "remove"
  /\ pend' = [pend EXCEPT
       !.proofs  = IF c.kind \in {"proof", "retry"} /\ IsCurrent(c) THEN @ \ {c.hash} ELSE @,
       !.headers = IF IsCurrent(c) THEN @ \ {StartEpoch[c.hash]} ELSE @]
  /\ Ends(c)
  /\ UNCHANGED <<trigger, admitted, view, evictions>>

(* Callbacks are admitted, and the pooled headers replayed. *)
OnBootstrapCompleted ==
  /\ ~admitted
  /\ admitted' = TRUE
  /\ Begin({NewCall("header", h, NoGeneration, "look") : h \in view.hdrs})
  /\ UNCHANGED <<trigger, pend, view, evictions>>

-----------------------------------------------------------------------------
(* The goroutine that retries what is pending, one entry at a time, and the   *)
(* one that evaluates the retained blocks every 200 ms. Requests are answered *)
(* by arrivals, or lost.                                                      *)

NoRetry ==
  /\ \A c \in calls : c.kind # "retry"
  /\ Cardinality(calls) < MaxCalls

retryPendingEpochStartProof(h) ==
  /\ NoRetry /\ h \in pend.proofs
  /\ \/ /\ StartEpoch[h] <= processedEpoch
        /\ pend' = [pend EXCEPT !.proofs = @ \ {h}]
        /\ UNCHANGED calls
     \/ /\ IsActionable(h) /\ h \notin view.hdrs
        /\ pend' = [pend EXCEPT !.proofs = @ \ {h}, !.headers = @ \cup {StartEpoch[h]}]
        /\ UNCHANGED calls
     \/ /\ IsActionable(h) /\ h \in view.hdrs \cap view.proofs
        /\ prepareRecoveryProcessingOwner(NewCall("retry", h, pend.generation, "look"), h)
  /\ UNCHANGED <<trigger, admitted, view, evictions>>

(* A block of an epoch the shard has entered, or one the trigger does not   *)
(* retain, is never pending for finality: SetProcessed and a rollback drop  *)
(* such entries, and entries are made under mutTrigger with the block       *)
(* retained. The code's branches for them find nothing.                     *)
retryPendingFinalityEvidence(h) ==
  /\ NoRetry /\ h \in pend.finality
  /\ IsActionable(h) /\ h \in view.hdrs \cap view.proofs /\ h \in trigger.hdrs
  /\ Apply(updateTriggerFromMeta(trigger, pend))
  /\ UNCHANGED <<admitted, view, calls, evictions>>

requestMissingMiniBlocks ==
  /\ ~trigger.isEpochStart
  /\ Apply(updateTriggerFromMeta(trigger, pend))
  /\ UNCHANGED <<admitted, view, calls, evictions>>

-----------------------------------------------------------------------------
(* The shard enters the epoch, leaves it in a rollback, or learns that the *)
(* metachain block that armed the trigger is dead.                         *)

(* The shard block of the epoch start is committed: checkEpochCorrectness *)
(* has accepted its epoch and the metachain block it names.               *)
SetProcessed(h) ==
  /\ h = trigger.epochMetaBlockHash
  /\ IsActionable(h)
  /\ StartEpoch[h] = trigger.metaEpoch
  /\ trigger' = [trigger EXCEPT !.entered = Append(@, h), !.epoch = StartEpoch[h],
                                !.isEpochStart = FALSE, !.hdrs = {}, !.finalized = {}]
  /\ pend' = RemoveForEpochOrOlder(pend, StartEpoch[h])
  /\ Begin(IF StartEpoch[h] > trigger.epoch
             THEN {NewCall("reconsider", NoStart, pend.generation, "look")} ELSE {})
  /\ UNCHANGED <<admitted, view, evictions>>

(* Only blocks that are held final are taken up. *)
MutantReconsiderPooledEpochStart(c) ==
  /\ c.kind = "reconsider" /\ c.at = "look"
  /\ LET final == {h \in view.hdrs : IsActionable(h) /\ IsMetaHeaderHeldFinal(h)}
     IN  IF IsCurrent(c) /\ final # {} THEN prepareRecoveryProcessingOwner(c, Min(final))
         ELSE Ends(c) /\ UNCHANGED pend
  /\ UNCHANGED <<trigger, admitted, view, evictions>>

(* The pooled blocks of the new actionable epoch, the held final ones first, *)
(* then the proven ones; one of them is taken up.                            *)
reconsiderPooledEpochStart(c) ==
  /\ c.kind = "reconsider" /\ c.at = "look"
  /\ LET pooled == {h \in view.hdrs : IsActionable(h)}
         final  == {h \in pooled : IsMetaHeaderHeldFinal(h)}
         proven == pooled \cap view.proofs
         one    == Min(IF final # {} THEN final ELSE IF proven # {} THEN proven ELSE pooled)
     IN  \/ IsCurrent(c) /\ proven # {} /\ prepareRecoveryProcessingOwner(c, one)
         \/ /\ IsCurrent(c) /\ pooled # {} /\ proven = {}
            /\ pend' = AddPendingProof(pend, one)
            /\ Ends(c)
         \/ (~IsCurrent(c) \/ pooled = {}) /\ Ends(c) /\ UNCHANGED pend
  /\ UNCHANGED <<trigger, admitted, view, evictions>>

(* As before Supernova: the trigger is armed again, nothing is recovered. *)
MutantRevertStateToBlock ==
  /\ trigger.entered # <<>>
  /\ pend.generation < MaxReverts
  /\ trigger' = [trigger EXCEPT !.entered = Front(@), !.isEpochStart = TRUE]
  /\ pend' = [pend EXCEPT !.generation = @ + 1]
  /\ UNCHANGED <<admitted, view, calls, evictions>>

(* The shard's epoch start block is rolled back; the block it named is      *)
(* recovered in a new generation. The field epoch keeps its value.          *)
RevertStateToBlock ==
  /\ trigger.entered # <<>>
  /\ pend.generation < MaxReverts
  /\ LET entered == Front(trigger.entered)
         h       == Last(trigger.entered)
         gen     == pend.generation + 1
     IN  /\ trigger' = [trigger EXCEPT !.entered = entered, !.metaEpoch = Len(entered),
                          !.isEpochStart = FALSE, !.epochMetaBlockHash = LastEntered(entered),
                          !.hdrs = {}, !.finalized = {}]
         /\ pend' = [EmptyPending(gen) EXCEPT !.candidates = {h}]
         /\ Begin({NewCall("recover", h, gen, "look")})
  /\ UNCHANGED <<admitted, view, evictions>>

recoverEpochStartCandidate(c) ==
  /\ c.kind = "recover" /\ c.at = "look"
  /\ \/ ~IsCurrent(c) /\ Ends(c) /\ UNCHANGED pend
     \/ /\ IsCurrent(c) /\ ~IsActionable(c.hash)
        /\ pend' = [pend EXCEPT !.candidates = @ \ {c.hash}]
        /\ Ends(c)
     \/ /\ IsCurrent(c) /\ IsActionable(c.hash) /\ c.hash \in view.hdrs
        /\ \/ c.hash \in view.proofs /\ prepareRecoveryProcessingOwner(c, c.hash)
           \/ c.hash \notin view.proofs /\ GoesTo(c, "pend") /\ UNCHANGED pend
     \/ /\ IsCurrent(c) /\ IsActionable(c.hash) /\ c.hash \notin view.hdrs
        /\ GoesTo(c, "move")
        /\ UNCHANGED pend
  /\ UNCHANGED <<trigger, admitted, view, evictions>>

(* The header was missing: the epoch's header is asked for in place of the *)
(* candidate, unless it has come since.                                    *)
moveCandidateToPendingHeader(c) ==
  /\ c.at = "move"
  /\ LET moves == IsCurrent(c) /\ c.hash \in pend.candidates
     IN  /\ pend' = IF moves THEN [pend EXCEPT !.candidates = @ \ {c.hash},
                                                !.headers = @ \cup {StartEpoch[c.hash]}]
                     ELSE pend
         /\ IF moves /\ c.hash \in view.hdrs THEN GoesTo(c, "look") ELSE Ends(c)
  /\ UNCHANGED <<trigger, admitted, view, evictions>>

(* The synchroniser reports a dead block that the shard has notarised. *)
DisarmDeadEpochStartActivation(h) ==
  /\ IsDeadMetaBlock(h)
  /\ h \in trigger.finalized
  /\ LET t == [trigger EXCEPT !.finalized = @ \ {h}, !.hdrs = @ \ {h}]
     IN  trigger' = IF t.epochMetaBlockHash = h
                      THEN [t EXCEPT !.metaEpoch = t.epoch, !.isEpochStart = FALSE,
                                     !.epochMetaBlockHash = LastEntered(t.entered)]
                      ELSE t
  /\ pend' = [pend EXCEPT !.finality = @ \ {h}, !.candidates = @ \ {h}]
  /\ UNCHANGED <<admitted, view, calls, evictions>>

-----------------------------------------------------------------------------

CallStep(c) ==
  \/ receivedMetaBlock(c)
  \/ receivedProof(c)
  \/ addPendingProof(c)
  \/ processMetaHeaderWithProof(c)
  \/ removePendingEpochStartData(c)
  \/ reconsiderPooledEpochStart(c)
  \/ recoverEpochStartCandidate(c)
  \/ moveCandidateToPendingHeader(c)

RetryStep ==
  \/ \E h \in Start : retryPendingEpochStartProof(h) \/ retryPendingFinalityEvidence(h)
  \/ requestMissingMiniBlocks

TriggerNext ==
  \/ \E h \in Start : HeaderArrives(h) \/ ProofArrives(h) \/ NeighboursArrive(h) \/ Evicted(h)
  \/ \E c \in calls : CallStep(c)
  \/ RetryStep
  \/ \E h \in Start : RequestEpochStartIfNeeded(h)
  \/ OnBootstrapCompleted
  \/ \E h \in Start : SetProcessed(h) \/ DisarmDeadEpochStartActivation(h)
  \/ RevertStateToBlock

TriggerSpec == TriggerInit /\ [][TriggerNext]_triggerVars

-----------------------------------------------------------------------------

(* Some goroutine goes on, and the two loops run. What the trigger asks for    *)
(* arrives: the header of the actionable epoch, by the watchdog, the proofs it *)
(* has pending and the neighbours of blocks whose finality it misses. Nothing  *)
(* is assumed of other arrivals, of proposals, of rollbacks or of commits.     *)
TriggerFairness ==
  /\ WF_triggerVars(\E c \in calls : CallStep(c))
  /\ WF_triggerVars(requestMissingMiniBlocks)
  /\ \A h \in Start : WF_triggerVars(retryPendingEpochStartProof(h) \/ retryPendingFinalityEvidence(h))
  /\ \A h \in CanonicalStart :
       /\ WF_triggerVars(admitted /\ IsActionable(h) /\ ~trigger.isEpochStart /\ HeaderArrives(h))
       /\ WF_triggerVars(h \in pend.proofs \cup pend.finality /\ ProofArrives(h))
       /\ WF_triggerVars(h \in pend.finality /\ NeighboursArrive(h))

(* The trigger is armed exactly with the block that settled the actionable *)
(* epoch, and otherwise names the block of the epoch the shard is in, also *)
(* after rollbacks and disarming.                                          *)
ArmedBySettled ==
  IF trigger.isEpochStart
    THEN /\ trigger.epochMetaBlockHash \in trigger.finalized \cap trigger.hdrs
         /\ StartEpoch[trigger.epochMetaBlockHash] = actionableEpoch
         /\ trigger.metaEpoch = actionableEpoch
    ELSE trigger.epochMetaBlockHash = LastEntered(trigger.entered)

(* A block that settles the actionable epoch arms the trigger: when the one *)
(* that had armed it is dead, its sibling can.                              *)
SettledArms ==
  \A h \in trigger.finalized \cap CanonicalStart :
    trigger.isEpochStart /\ trigger.epochMetaBlockHash = h

(* The block is retained, pending, or in the hands of a call. *)
IsOwned(h) ==
  \/ h \in trigger.hdrs
  \/ IsPending(h)
  \/ \E c \in calls : c.hash = h \/ (c.kind = "reconsider" /\ c.at = "look")

(* A pooled epoch start block does not call the trigger a second time. While *)
(* one of the actionable epoch that may still be the metachain's is pooled   *)
(* and proven, it is owned, so that its finality is asked for until the      *)
(* epoch is settled. Once an epoch has been entered this is claimed only for *)
(* a block without siblings, since a block is taken up alone both out of the *)
(* pool (reconsiderPooledEpochStart) and after a rollback, and after a       *)
(* rollback only for an epoch that had been entered before.                  *)
NotForgotten ==
  admitted /\ (pend.generation > 0 => trigger.epoch > processedEpoch) =>
    \A h \in view.hdrs \cap view.proofs :
      /\ IsActionable(h) /\ ~IsDeadMetaBlock(h)
      /\ trigger.epoch > 0 => Siblings(h) = {}
      => IsOwned(h)

(* Once callbacks are admitted and its epoch is the next one, the block of an *)
(* uncontended epoch start arms the trigger, whatever came first or was rolled *)
(* back. Not so in an epoch entered again after a rollback: see NotForgotten.  *)
EpochStartArms ==
  \A h \in Start :
    (/\ admitted /\ Siblings(h) = {} /\ IsActionable(h)
     /\ pend.generation > 0 => trigger.epoch > processedEpoch)
    ~> (IsActionable(h) => trigger.isEpochStart /\ trigger.epochMetaBlockHash = h)
=============================================================================
