----------------------------- MODULE BlockSync -----------------------------
(***************************************************************************)
(* process/sync/baseSync.go: the synchronisation loop over the fork        *)
(* detector, with the commits of consensus and the callbacks for headers,  *)
(* proofs and notarisations, which run beside it.                          *)
(*                                                                         *)
(* One tick of the loop reconciles, computes the node state, rolls back    *)
(* where a fork is detected and fetches the next block.  Commits and       *)
(* rollbacks exclude each other (baseSync.go:2413).  The settlement        *)
(* authority, the metachain as the settlement checker sees it, decides for *)
(* blocks of Canonical; before that, headers of a losing metachain branch  *)
(* may notarise others.  A blacklisted hash may have expired whenever it   *)
(* is read.                                                                *)
(***************************************************************************)
EXTENDS ForkDetector

CONSTANTS Canonical,      \* the blocks the metachain settles
          Notarizable,    \* the blocks some metachain header notarises
          Known,          \* headers in the headers pool at the start
          MaxFaults     \* bound on dead metachain blocks, interrupted rollbacks and failed syncs

ASSUME SyncAssumption ==
  /\ Canonical \subseteq New /\ \A a, b \in Canonical : a \in Branch[b] \/ b \in Branch[a]
  /\ Notarizable \subseteq New /\ Known \subseteq New
  /\ MaxFaults \in Nat

VARIABLES
  told,        \* hashes whose proof callback has run
  hdrs,        \* hashes in the headers pool
  decided,     \* blocks the settlement authority is known to have settled
  head,        \* the current block of the chain handler
  committing,  \* the block CommitBlock works on
  boot,        \* the loop: where it is and the nonce it rolls back to
  fork,        \* boot.forkInfo
  synced,      \* boot.isNodeSynchronized while calculated
  pending,     \* boot.pendingV3RollBack
  evidence,    \* boot.pendingReconcile
  blackList,
  faults

NoBlock == -1
NoFork == [detected |-> FALSE]
NoPending == [block |-> NoBlock, restored |-> FALSE]
NoEvidence == [nonce |-> NoNonce]

(* What the loop knows of the fork is not read after the tick.             *)
Tick == [pc |-> "tick", target |-> NoNonce, then |-> "tick"]
GoTo(pc) == /\ boot' = IF pc = "tick" THEN Tick ELSE [boot EXCEPT !.pc = pc]
            /\ fork' = IF pc = "tick" THEN NoFork ELSE fork

loopVars == <<boot, fork, synced, pending, evidence, blackList, faults>>
syncVars == <<detectorVars, told, decided, hdrs, head, committing, loopVars>>

SyncInit ==
  /\ isMeta \in BOOLEAN
  /\ pool = {} /\ headers = {} /\ checkpoint = <<Anchor>>
  /\ final = Anchor /\ settled = Anchor
  /\ probable = BlockNonce[Anchor] /\ highest = BlockNonce[Anchor]
  /\ rollBackNonce = NoNonce /\ ambiguous = FALSE /\ job = Idle
  /\ told = {} /\ decided = {} /\ hdrs = Known /\ head = Anchor /\ committing = NoBlock
  /\ boot = Tick
  /\ fork = NoFork /\ synced = FALSE /\ pending = NoPending
  /\ evidence = NoEvidence /\ blackList = {} /\ faults = 0

-----------------------------------------------------------------------------
(* The callbacks.                                                          *)

(* A proof is stored; its callbacks run later.                             *)
ProofStored(b) ==
  /\ b \notin pool
  /\ pool' = pool \cup {b}
  /\ UNCHANGED <<isMeta, headers, checkpointVars, probable, highest, rollBackNonce,
                 ambiguous, job, told, decided, hdrs, head, committing, loopVars>>

(* processReceivedProof, then onEquivocationEvidence for a proof that      *)
(* competes with the final head.                                           *)
Competitors(b) ==
  IF b # head THEN {b} ELSE {p \in pool \ {b} : BlockNonce[p] = BlockNonce[b]}

onEquivocationEvidence(b) ==
  IF /\ hasProofForDifferentHash(b)
     /\ BlockNonce[b] = BlockNonce[final] /\ BlockNonce[head] = BlockNonce[b]
  THEN \E c \in Competitors(b) :
         evidence' = [nonce |-> BlockNonce[b], local |-> head, competitor |-> c,
                      byAuthority |-> FALSE]
  ELSE UNCHANGED evidence

ProofReceived(b) ==
  /\ b \in pool \ told
  /\ told' = told \cup {b}
  /\ ReceivedProof(b, b \in hdrs)
  /\ onEquivocationEvidence(b)
  /\ UNCHANGED <<isMeta, pool, rollBackNonce, ambiguous, job, decided, hdrs, head,
                 committing, boot, fork, synced, pending, blackList, faults>>

HeaderReceived(b) ==
  /\ b \notin hdrs
  /\ hdrs' = hdrs \cup {b}
  /\ AddReceivedHeader(b)
  /\ UNCHANGED <<isMeta, pool, rollBackNonce, ambiguous, job, told, decided, head,
                 committing, loopVars>>

(* The settlement checker finds the inclusion of a canonical block.        *)
AuthorityDecides(b) ==
  /\ b \in Canonical \ decided
  /\ decided' = decided \cup {b}
  /\ UNCHANGED <<detectorVars, told, hdrs, head, committing, loopVars>>

Dead(b) == \E c \in decided : BlockNonce[c] <= BlockNonce[b] /\ c \notin Branch[b]

Notarize(h) ==
  /\ ~Dead(h)
  /\ ReceivedSelfNotarized(h)
  /\ UNCHANGED <<isMeta, pool, told, decided, hdrs, head, committing, loopVars>>

-----------------------------------------------------------------------------
(* Commits.  The fork detector hears of the block before the chain handler *)
(* does.                                                                   *)

CommitBlock(b) ==
  /\ committing = NoBlock
  /\ b \in pool /\ ParentOf[b] = head
  /\ \E ns \in {{}} \cup {{h} : h \in {g \in Notarizable : BlockNonce[g] < BlockNonce[b] /\ ~Dead(g)}} :
       AddProcessedHeader(b, ns)
  /\ committing' = b
  /\ UNCHANGED <<isMeta, pool, rollBackNonce, told, decided, hdrs, head>>

CommitEnd ==
  /\ committing # NoBlock
  /\ job.kind # "commit"
  /\ head' = committing /\ committing' = NoBlock
  /\ IF boot.pc = "commit" THEN GoTo("tick") ELSE UNCHANGED <<boot, fork>>
  /\ UNCHANGED <<detectorVars, told, decided, hdrs, synced, pending, evidence, blackList, faults>>

(* Consensus works only while the node is synchronized.                    *)
ConsensusCommit(b) ==
  /\ synced /\ boot.pc = "tick" /\ pending = NoPending
  /\ CommitBlock(b)
  /\ UNCHANGED loopVars

-----------------------------------------------------------------------------
(* The tick: reconciliation.                                               *)

AtTick == boot.pc = "tick" /\ pending = NoPending

detectorUnchanged ==
  UNCHANGED <<headers, checkpointVars, probable, highest, rollBackNonce, ambiguous, job>>

reconcileEvidenceStillApplies(e) ==
  IF e.byAuthority
  THEN e.local \in Processed(headers, e.nonce) /\ BlockNonce[head] >= e.nonce
  ELSE head = e.local /\ e.nonce = BlockNonce[final]

DropEvidence ==
  /\ AtTick /\ evidence # NoEvidence
  /\ \/ ~reconcileEvidenceStillApplies(evidence)
     \/ evidence.local \in decided
  /\ evidence' = NoEvidence
  /\ detectorUnchanged
  /\ UNCHANGED <<isMeta, pool, told, decided, hdrs, head, committing, boot, fork, synced, pending,
                 blackList, faults>>

MutantSetRollBackNonce(n) == rollBackNonce' = n - 1
SetRollBackNonce(n) == rollBackNonce' = n

(* applyReconcileSwitch, once the authority has settled the competitor.    *)
canReconcile(e) ==
  IF e.byAuthority THEN canReconcileFromAuthority(e.nonce, e.competitor)
  ELSE canReconcileFinal(e.nonce)

ReconcileSwitch ==
  /\ AtTick /\ evidence # NoEvidence /\ job = Idle /\ committing = NoBlock
  /\ reconcileEvidenceStillApplies(evidence)
  /\ evidence.competitor \in decided \cap pool
  /\ evidence' = NoEvidence
  /\ IF canReconcile(evidence)
     THEN /\ IF evidence.byAuthority
             THEN ReconcileFinalCheckpointFromAuthority(evidence.nonce, evidence.competitor)
             ELSE ReconcileFinalCheckpoint(evidence.nonce)
          /\ blackList' = blackList \cup {evidence.local}
          /\ SetRollBackNonce(evidence.nonce)
          /\ synced' = FALSE
     ELSE UNCHANGED <<headers, checkpointVars, probable, ambiguous, blackList, rollBackNonce, synced>>
  /\ UNCHANGED <<isMeta, pool, highest, job, told, decided, hdrs, head, committing, boot, fork,
                 pending, faults>>

(* tryReconcileDivergence: the own blocks from n on refer to a dead        *)
(* metachain block.                                                        *)
ReconcileDivergence(n) ==
  /\ AtTick /\ ~isMeta /\ job = Idle /\ committing = NoBlock
  /\ \E b \in Branch[head] : BlockNonce[b] = n /\ Dead(b)
  /\ n > BlockNonce[settled] /\ faults < MaxFaults
  /\ faults' = faults + 1
  /\ ReconcileFinalCheckpointBelow(n)
  /\ blackList' = blackList \cup {b \in Branch[head] : BlockNonce[b] >= n}
  /\ SetRollBackNonce(n)
  /\ synced' = FALSE
  /\ UNCHANGED <<isMeta, pool, highest, job, told, decided, hdrs, head, committing, boot, fork,
                 pending, evidence>>

(* tryResolveNotarizedAmbiguity.                                           *)
MutantArmAuthorityReconciliation(n, h) == UNCHANGED evidence
armAuthorityReconciliation(n, h) ==
  IF BlockNonce[head] >= n
  THEN \E p \in Processed(headers, n) \ {h} :
         evidence' = [nonce |-> n, local |-> p, competitor |-> h, byAuthority |-> TRUE]
  ELSE UNCHANGED evidence

ResolveAmbiguity(n) ==
  /\ AtTick /\ ambiguous /\ AmbiguousNonce(n)
  /\ \E h \in Candidates(n) \cap decided :
       \/ /\ job = Idle
          /\ applyNotarizedHeaderSelection(n, h)
          /\ UNCHANGED evidence
       \/ /\ n > BlockNonce[settled] /\ processedHashConflicts(n, h) /\ h \in pool
          /\ armAuthorityReconciliation(n, h)
          /\ UNCHANGED <<headers, checkpointVars, probable, ambiguous, job>>
  /\ UNCHANGED <<isMeta, pool, highest, rollBackNonce, told, decided, hdrs, head, committing, boot,
                 fork, synced, pending, blackList, faults>>

-----------------------------------------------------------------------------
(* The tick: computeNodeState and what follows from it.                    *)

ForkFound ==
  IF rollBackNonce # NoNonce
  THEN {[detected |-> TRUE, nonce |-> rollBackNonce, hash |-> NoBlock, round |-> 0]}
  ELSE IF Forks = {} THEN {NoFork}
  ELSE {[detected |-> TRUE, nonce |-> f.nonce, hash |-> f.hash, round |-> f.round] : f \in LowestFork}

(* getLowestAmbiguousNotarizedHeaderSelection clears a flag nothing backs. *)
ComputeNodeState ==
  /\ AtTick
  /\ fork' \in ForkFound
  /\ rollBackNonce' = NoNonce
  /\ ambiguous' = (ambiguous /\ isAmbiguous(headers))
  /\ synced' = (~fork'.detected /\ ~ambiguous' /\ probable <= BlockNonce[head])
  /\ boot' = IF fork'.detected
             THEN [pc |-> "rollback", target |-> fork'.nonce,
                   then |-> IF fork'.hash = NoBlock THEN "reset" ELSE "fetch"]
             ELSE [boot EXCEPT !.pc = IF synced' \/ ambiguous' THEN "tick" ELSE "fetch"]
  /\ UNCHANGED <<isMeta, pool, headers, checkpointVars, probable, highest, job, told, decided, hdrs,
                 head, committing, pending, evidence, blackList, faults>>

-----------------------------------------------------------------------------
(* rollBack, one block at a time down to boot.target.                      *)

shouldAllowRollbackV3 == BlockNonce[head] > BlockNonce[final]

(* The end of a rollback, with or without an error: ResetProbable for a    *)
(* forced one, the next header for a fork.                                 *)
RollBackRefused ==
  /\ boot.pc = "rollback" /\ committing = NoBlock
  /\ ~shouldAllowRollbackV3 \/ BlockNonce[head] < boot.target
  /\ GoTo(IF boot.then = "reset" THEN "reset" ELSE "tick")
  /\ detectorUnchanged
  /\ UNCHANGED <<isMeta, pool, told, decided, hdrs, head, committing, synced, pending, evidence,
                 blackList, faults>>

RollBackBegin ==
  /\ boot.pc = "rollback" /\ committing = NoBlock
  /\ shouldAllowRollbackV3 /\ BlockNonce[head] >= boot.target
  /\ pending' = [block |-> head, restored |-> FALSE]
  /\ GoTo("restore")
  /\ detectorUnchanged
  /\ UNCHANGED <<isMeta, pool, told, decided, hdrs, head, committing, synced, evidence,
                 blackList, faults>>

(* RestoreBlockIntoPools, then the chain handler goes back to the parent.  *)
RestoreBlockIntoPools ==
  /\ boot.pc = "restore" /\ ~pending.restored
  /\ pending' = [pending EXCEPT !.restored = TRUE]
  /\ head' = ParentOf[head]
  /\ GoTo("finish")
  /\ detectorUnchanged
  /\ UNCHANGED <<isMeta, pool, told, decided, hdrs, committing, synced, evidence, blackList, faults>>

(* The restore, or a step after the chain handler was set back, fails.     *)
RollBackInterrupted ==
  /\ boot.pc \in {"restore", "finish"} /\ faults < MaxFaults
  /\ faults' = faults + 1
  /\ GoTo("tick") /\ synced' = FALSE
  /\ detectorUnchanged
  /\ UNCHANGED <<isMeta, pool, told, decided, hdrs, head, committing, pending, evidence, blackList>>

(* completeInterruptedV3RollBack.                                          *)
RollBackResumed ==
  /\ boot.pc = "tick" /\ pending # NoPending
  /\ IF ~pending.restored /\ BlockNonce[pending.block] <= BlockNonce[final]
     THEN pending' = NoPending /\ UNCHANGED boot
     ELSE /\ boot' = [pc |-> IF pending.restored THEN "finish" ELSE "restore",
                      target |-> BlockNonce[pending.block], then |-> "tick"]
          /\ UNCHANGED pending
  /\ detectorUnchanged
  /\ UNCHANGED <<isMeta, pool, told, decided, hdrs, head, committing, fork, synced, evidence, blackList, faults>>

(* finishRollBackOneBlockV3 from RemoveCommittedHeader on.                 *)
RollBackFinish ==
  /\ boot.pc = "finish" /\ job = Idle
  /\ RemoveCommittedHeader(pending.block)
  /\ blackList' = IF fork.detected /\ boot.then = "fetch" /\ ~isMeta /\ fork.round = 0
                  THEN blackList \cup {pending.block} ELSE blackList
  /\ pending' = NoPending
  /\ GoTo(IF BlockNonce[pending.block] > boot.target THEN "rollback"
          ELSE IF boot.then = "fetch" /\ ambiguous' THEN "tick" ELSE boot.then)
  /\ UNCHANGED <<isMeta, pool, highest, rollBackNonce, told, decided, hdrs, head, committing,
                 synced, evidence, faults>>

(* ResetProbableHighestNonce and removeHeadersHigherThanNonceFromPool.     *)
ResetAfterRollBack ==
  /\ boot.pc = "reset"
  /\ ResetProbableHighestNonce
  /\ hdrs' = {b \in hdrs : BlockNonce[b] <= BlockNonce[head]}
  /\ GoTo("tick") /\ synced' = FALSE
  /\ UNCHANGED <<isMeta, pool, highest, rollBackNonce, ambiguous, job, told,
                 decided, head, committing, pending, evidence, blackList, faults>>

-----------------------------------------------------------------------------
(* getNextHeaderRequestingIfMissing and what syncBlock does with it.       *)

NextNonce == BlockNonce[head] + 1

MutantDirectedHash ==
  IF fork.detected /\ fork.hash # NoBlock THEN {fork.hash} ELSE {}
DirectedHash ==
  IF Cardinality(Notarized(headers, NextNonce)) = 1 THEN Notarized(headers, NextNonce)
  ELSE IF fork.detected /\ fork.hash # NoBlock THEN {fork.hash}
  ELSE {}

ProvenAt(n) == {p \in pool : BlockNonce[p] = n}

(* selectNonBlackListedHash, with the entries of blackList expired or not. *)
NextHeader ==
  LET directed == DirectedHash
                  \cup (IF DirectedHash \cap blackList # {} THEN ProvenAt(NextNonce) ELSE {})
  IN  IF isAmbiguousAt(headers, NextNonce) THEN {}
      ELSE hdrs \cap pool \cap
           IF DirectedHash # {} THEN directed
           ELSE {b \in ProvenAt(NextNonce) : ParentOf[b] = head}

SyncCommit(b) ==
  /\ boot.pc = "fetch" /\ b \in NextHeader
  /\ CommitBlock(b)
  /\ GoTo("commit") /\ synced' = FALSE
  /\ UNCHANGED <<pending, evidence, blackList, faults>>

(* Nothing to sync yet: the header is requested and the loop retries.      *)
NothingToSync ==
  /\ boot.pc = "fetch" /\ NextHeader = {}
  /\ GoTo("tick") /\ synced' = FALSE
  /\ detectorUnchanged
  /\ UNCHANGED <<isMeta, pool, told, decided, hdrs, head, committing, pending, evidence,
                 blackList, faults>>

(* doJobOnSyncBlockFail after a processing error: a header that does not   *)
(* extend the head always fails.                                           *)
SyncFail(b) ==
  /\ boot.pc = "fetch" /\ b \in NextHeader /\ committing = NoBlock
  /\ IF ParentOf[b] = head THEN faults < MaxFaults /\ faults' = faults + 1
     ELSE UNCHANGED faults
  /\ synced' = FALSE
  /\ IF shouldAllowRollbackV3
     THEN /\ boot' = [pc |-> "rollback", target |-> BlockNonce[head], then |-> "tick"]
          /\ hdrs' = hdrs \ {b}
     ELSE boot' = Tick /\ UNCHANGED hdrs
  /\ fork' = NoFork
  /\ detectorUnchanged
  /\ UNCHANGED <<isMeta, pool, told, decided, head, committing, pending, evidence, blackList>>

-----------------------------------------------------------------------------
Reconcile ==
  DropEvidence \/ ReconcileSwitch \/ \E n \in BlockNonces : ResolveAmbiguity(n)

Loop ==
  \/ Reconcile \/ \E n \in BlockNonces : ReconcileDivergence(n)
  \/ ComputeNodeState
  \/ RollBackRefused \/ RollBackBegin \/ RestoreBlockIntoPools \/ RollBackInterrupted
  \/ RollBackResumed \/ RollBackFinish \/ ResetAfterRollBack
  \/ \E b \in New : SyncCommit(b) \/ SyncFail(b)
  \/ NothingToSync

DetectorStep == JobStep /\ UNCHANGED <<told, decided, hdrs, head, committing, loopVars>>

SyncNext ==
  \/ DetectorStep
  \/ \E b \in New : ProofStored(b) \/ ProofReceived(b) \/ HeaderReceived(b) \/ ConsensusCommit(b)
  \/ \E h \in Notarizable : Notarize(h)
  \/ \E b \in Canonical : AuthorityDecides(b)
  \/ CommitEnd
  \/ Loop

SyncSpec == SyncInit /\ [][SyncNext]_syncVars

-----------------------------------------------------------------------------
(* Every part of the detector and of the loop holds a value of its kind.   *)
SyncTypeOK ==
  /\ isMeta \in BOOLEAN /\ pool \subseteq New /\ headers \subseteq headerInfo
  /\ \A k \in DOMAIN checkpoint : checkpoint[k] \in Block
  /\ final \in Block /\ settled \in Block /\ head \in Block
  /\ probable \in Nat /\ highest \in Nat
  /\ rollBackNonce \in BlockNonces \cup {NoNonce} /\ ambiguous \in BOOLEAN
  /\ committing \in New \cup {NoBlock}

OnBranch(a, b) == a \in Branch[b]

(* Whatever is notarised, reconciled or rolled back, in whatever order, the *)
(* settled checkpoint never goes back.                                     *)
SettledGrows == [][BlockNonce[settled'] >= BlockNonce[settled]]_settled

(* Instant finality taken back and every lowering of the final checkpoint  *)
(* stop at the settled block or on its branch above it.                    *)
SettledBelowFinal == settled \in Branch[final]

(* The final checkpoint leaves its branch or goes back only in the update  *)
(* that raised it, when a competing proof came in between, or together     *)
(* with the rollback a reconciliation orders.                              *)
FinalForward ==
  [][\/ OnBranch(final, final')
     \/ job.pc \in {"confirm", "instant"}
     \/ rollBackNonce' # NoNonce /\ BlockNonce[final'] < rollBackNonce']_final

(* A chain as long as the settled block contains it: no rollback, switch   *)
(* or sync exchanges a settled block for a sibling.                        *)
SettledNotReplaced ==
  BlockNonce[head] >= BlockNonce[settled] => settled \in Branch[head]

(* The final block is on the chain, the block being committed included,    *)
(* and stays there, but for one that becomes final while it is rolled back *)
(* (see RollBackAboveFinal) and keeps its record: the metachain may settle *)
(* it when another block is final again.                                   *)
Tip == IF committing = NoBlock THEN head ELSE committing

FinalOnChain ==
  [][OnBranch(final, Tip) => \/ OnBranch(final', Tip')
                             \/ final' = pending.block
                             \/ settled' = final' /\ settled' # settled]_<<final, Tip>>

(* hasAmbiguousNotarization, which lets readers skip the records, is set   *)
(* whenever some nonce has contradicting notarised or processed records.   *)
AmbiguityFlagged == isAmbiguous(headers) => ambiguous

(* A forced rollback above the settled block is possible when it starts:   *)
(* the final checkpoint has been lowered below it and stays there.         *)
RollBackNotBlocked ==
  rollBackNonce > BlockNonce[settled] => BlockNonce[final] < rollBackNonce

(* baseSync.go:2037: "a header v3 switch must never cross the final        *)
(* checkpoint, not even fork-driven".                                      *)
RollBackAboveFinal ==
  [][head' \in Branch[head] \ {head} => BlockNonce[head] > BlockNonce[final]]_head

(* On a shard, whatever the node committed first, it ends on the branch    *)
(* the metachain settles, unless headers of a losing metachain branch made *)
(* it settle another block.                                                *)
SettledAgainst ==
  \E c \in Canonical : BlockNonce[settled] >= BlockNonce[c] /\ c \notin Branch[settled]

Converges == ~isMeta => <>[](SettledAgainst \/ Canonical \subseteq Branch[head])
=============================================================================
