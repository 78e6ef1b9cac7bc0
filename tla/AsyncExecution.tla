--------------------------- MODULE AsyncExecution ---------------------------
(***************************************************************************)
(* Asynchronous execution of proposed and committed blocks                 *)
(* (process/asyncExecution): the queue of header-body pairs, the goroutine *)
(* of the headers executor, the results tracker, and the execution manager *)
(* that consensus and the synchroniser call.                               *)
(*                                                                         *)
(* epc is the place of the executor; call[t] the call that goroutine t is  *)
(* in, mut the holder of the manager's mutex.  A step touches at most one  *)
(* thing that others change.  The queue changes only under mut, and the    *)
(* last execution result only by the executor or while it is paused, so a  *)
(* paused section, and one that touches the queue and the tracker once     *)
(* each under mut, is one step.                                            *)
(***************************************************************************)
EXTENDS ResultsTracker, FiniteSets

CONSTANTS PrevOf,            \* parent of each header
          NotarizedBy,       \* header of the last result each header notarises
          RootOf,            \* root hash that consensus agreed on for each header
          MaxCacheSize,      \* capacity of the queue
          MaxRetryAttempts,  \* maxRetryAttempts
          Failures           \* TRUE: the fallible calls of a step may fail

FirstHeader == FirstResult.hash

None == 0   \* no hash

ASSUME ExecutionAssumption ==
  /\ None \notin Headers
  /\ PrevOf \in [Headers -> Headers]
  /\ \A h \in Headers \ {FirstHeader} : NonceOf[h] = NonceOf[PrevOf[h]] + 1
  /\ PrevOf[FirstHeader] = FirstHeader   \* stands for all that came before it
  /\ NotarizedBy \in [Headers -> Headers]
  /\ RootOf \in [Headers -> Roots]
  /\ FirstResult.root = RootOf[FirstHeader]
  /\ MaxCacheSize \in Nat
  /\ MaxRetryAttempts \in Nat \ {0}
  /\ Failures \in BOOLEAN

VARIABLES
  cache,                \* blocksCache: nonce -> hash of the pair
  lastExecutionResult,  \* blockChain: what SetLastExecutionInfo set
  head,                 \* blockChain: the current block header
  epc,                  \* executor: its place
  pair,                 \* executor: the pair in process
  before,               \* executor: pending results below a replacement block
  root,                 \* executor: root hash of the execution
  tries,                \* executor: 0, or the attempt of handleProcessError
  isPaused,             \* executor: isPaused
  processingDone,       \* executor: PauseExecution waits on processingDone
  closed,               \* manager: closed, the executor's context cancelled
  mut,                  \* manager: holder of its mutex
  call                  \* the calls in progress

execVars  == <<epc, pair, before, root, tries>>
pauseVars == <<isPaused, processingDone>>

asyncVars == <<trackerVars, cache, lastExecutionResult, head, execVars, pauseVars,
               closed, mut, call>>

Consensus == "consensus"
Sync      == "sync"
Callers   == {Consensus, Sync}

Free == "free"   \* nobody holds the manager's mutex

Idle == [pc |-> "idle"]

lastNonce == nonceOf(lastExecutionResult)

-----------------------------------------------------------------------------
(* Headers.                                                                *)

(* The header and its ancestors: what every set that holds the header, and *)
(* with a header its parent, has in common.                                *)
Chain ==
  [h \in Headers |->
     {g \in Headers : \A S \in SUBSET Headers :
                        h \in S /\ (\A x \in S : PrevOf[x] \in S) => g \in S}]

AgreedResult(h) == [hash |-> h, root |-> RootOf[h]]

(* The results that header h notarises, in the order of their nonces. *)
ResultsIn(h) ==
  LET first == NonceOf[NotarizedBy[PrevOf[h]]] + 1
      last  == NonceOf[NotarizedBy[h]]
      At(n) == CHOOSE g \in Chain[h] : NonceOf[g] = n
  IN [i \in 1 .. last - first + 1 |-> AgreedResult(At(first + i - 1))]

-----------------------------------------------------------------------------
(* Replacing the last executed block: UpdateContextForReplacedHeader.      *)

IsReplacement(h) == NonceOf[h] = lastNonce /\ h # lastExecutionResult.hash

PendingBelow(h) == {r \in Pending : nonceOf(r) < NonceOf[h]}

(* The result to go back to: the parent's, notarised or the highest of rs. *)
ParentResult(h, rs) ==
  IF lastNotarizedResult.hash = PrevOf[h]
  THEN {lastNotarizedResult}
  ELSE {r \in rs : r.hash = PrevOf[h] /\ \A s \in rs : nonceOf(s) <= nonceOf(r)}

UpdateContextForReplacedHeader(r) ==
  IF r.hash = lastExecutionResult.hash
  THEN UNCHANGED <<trackerVars, lastExecutionResult>>
  ELSE lastExecutionResult' = r /\ RemoveFromNonce(nonceOf(r) + 1)

-----------------------------------------------------------------------------
(* The headers executor: start, handleProcessError, process.               *)

(* A pause waits for the executor to be between two blocks. *)
acknowledgePause == processingDone' = (processingDone /\ ~isPaused)

(* What an iteration of the loop, and a call of process, leave behind. *)
processDone == before' = {} /\ root' = FirstResult.root

LoopAgain == epc' = "check" /\ tries' = 0 /\ pair' = None /\ processDone

(* Mutant: one attempt more than maxRetryAttempts. *)
MutantHandleProcessError(mismatch) ==
  IF tries = 0 /\ mismatch
  THEN LoopAgain /\ acknowledgePause
  ELSE /\ IF tries > MaxRetryAttempts
          THEN LoopAgain
          ELSE epc' = "retry" /\ tries' = tries + 1 /\ processDone /\ UNCHANGED pair
       /\ UNCHANGED processingDone

(* process returned an error. *)
handleProcessError(mismatch) ==
  IF tries = 0 /\ mismatch
  THEN LoopAgain /\ acknowledgePause
  ELSE /\ IF tries > 0 /\ tries >= MaxRetryAttempts
          THEN LoopAgain
          ELSE epc' = "retry" /\ tries' = tries + 1 /\ processDone /\ UNCHANGED pair
       /\ UNCHANGED processingDone

ProcessFails(mismatch) ==
  /\ handleProcessError(mismatch)
  /\ UNCHANGED <<trackerVars, cache, lastExecutionResult, head, isPaused, closed, mut, call>>

FailsIf(condition) == condition /\ ProcessFails(FALSE)

(* Mutant: a paused executor does not acknowledge the pause. *)
MutantExecLoop ==
  /\ epc = "check"
  /\ epc' = IF closed THEN "stopped" ELSE IF isPaused THEN "check" ELSE "replaced"
  /\ UNCHANGED <<trackerVars, cache, lastExecutionResult, head, pair, before, root, tries,
                 pauseVars, closed, mut, call>>

ExecLoop ==
  /\ epc = "check"
  /\ acknowledgePause
  /\ epc' = IF closed THEN "stopped" ELSE IF isPaused THEN "check" ELSE "replaced"
  /\ UNCHANGED <<trackerVars, cache, lastExecutionResult, head, pair, before, root, tries,
                 isPaused, closed, mut, call>>

ReplacementInCache == lastNonce \in DOMAIN cache /\ cache[lastNonce] # lastExecutionResult.hash

(* Mutant: the pause is acknowledged after the check of isPaused. *)
MutantExecReplacement ==
  /\ epc = "replaced"
  /\ acknowledgePause
  /\ IF ReplacementInCache
     THEN pair' = cache[lastNonce] /\ epc' = "process"
     ELSE epc' = "next" /\ UNCHANGED pair
  /\ UNCHANGED <<trackerVars, cache, lastExecutionResult, head, before, root, tries, isPaused,
                 closed, mut, call>>

ExecReplacement ==
  /\ epc = "replaced"
  /\ IF ReplacementInCache
     THEN pair' = cache[lastNonce] /\ epc' = "process"
     ELSE epc' = "next" /\ UNCHANGED pair
  /\ UNCHANGED <<trackerVars, cache, lastExecutionResult, head, before, root, tries, pauseVars,
                 closed, mut, call>>

ExecNext ==
  /\ epc = "next"
  /\ IF lastNonce + 1 \in DOMAIN cache
     THEN pair' = cache[lastNonce + 1] /\ epc' = "process" /\ UNCHANGED processingDone
     ELSE epc' = "check" /\ acknowledgePause /\ UNCHANGED pair
  /\ UNCHANGED <<trackerVars, cache, lastExecutionResult, head, before, root, tries, isPaused,
                 closed, mut, call>>

checkLastExecutionResultContext ==
  \/ IsReplacement(pair)
  \/ NonceOf[pair] = lastNonce + 1 /\ PrevOf[pair] = lastExecutionResult.hash

ExecProcess ==
  /\ epc = "process"
  /\ \/ ~checkLastExecutionResultContext /\ ProcessFails(TRUE)
     \/ checkLastExecutionResultContext /\ FailsIf(Failures)
     \/ /\ checkLastExecutionResultContext
        /\ IF IsReplacement(pair)
           THEN epc' = "replace" /\ before' = PendingBelow(pair)
           ELSE epc' = "execute" /\ UNCHANGED before
        /\ UNCHANGED <<trackerVars, cache, lastExecutionResult, head, pair, root, tries,
                       pauseVars, closed, mut, call>>

(* SetLastExecutionInfo, then in ExecTrim the removal from the tracker. *)
ExecReplace ==
  /\ epc = "replace"
  /\ \/ FailsIf(Failures \/ ParentResult(pair, before) = {})
     \/ \E r \in ParentResult(pair, before) :
          /\ lastExecutionResult' = r
          /\ epc' = "trim"
          /\ before' = {}
          /\ UNCHANGED <<trackerVars, cache, head, pair, root, tries, pauseVars, closed, mut, call>>

(* Mutant: keeps the result right above the one set. *)
MutantExecTrim ==
  /\ epc = "trim"
  /\ RemoveFromNonce(lastNonce + 2)
  /\ epc' = "execute"
  /\ UNCHANGED <<cache, lastExecutionResult, head, pair, before, root, tries, pauseVars,
                 closed, mut, call>>

ExecTrim ==
  /\ epc = "trim"
  /\ RemoveFromNonce(lastNonce + 1)
  /\ epc' = "execute"
  /\ UNCHANGED <<cache, lastExecutionResult, head, pair, before, root, tries, pauseVars,
                 closed, mut, call>>

ExecExecute ==
  /\ epc = "execute"
  /\ \/ FailsIf(Failures \/ PrevOf[pair] # lastExecutionResult.hash)
     \/ /\ PrevOf[pair] = lastExecutionResult.hash
        /\ root' \in Roots
        /\ epc' = "verify"
        /\ UNCHANGED <<trackerVars, cache, lastExecutionResult, head, pair, before, tries,
                       pauseVars, closed, mut, call>>

CommittedOtherHead == NonceOf[pair] = NonceOf[head] /\ pair # head

ExecVerify ==
  /\ epc = "verify"
  /\ IF /\ checkLastExecutionResultContext
        /\ ~CommittedOtherHead
        /\ PrevOf[pair] = lastExecutionResult.hash
     THEN epc' = "commit" /\ UNCHANGED <<pair, before, root, tries>>
     ELSE LoopAgain
  /\ UNCHANGED <<trackerVars, cache, lastExecutionResult, head, pauseVars, closed, mut, call>>

ExecCommit ==
  /\ epc = "commit"
  /\ PopDismissedResults
  /\ \/ epc' = "add" /\ UNCHANGED <<pair, before, root, tries, processingDone>>
     \/ Failures /\ handleProcessError(FALSE)
  /\ UNCHANGED <<cache, lastExecutionResult, head, isPaused, closed, mut, call>>

ExecutionResult == [hash |-> pair, root |-> root]

ExecAdd ==
  /\ epc = "add"
  /\ CASE CanAdd(ExecutionResult) ->
            /\ AddExecutionResult(ExecutionResult)
            /\ epc' = "publish"
            /\ UNCHANGED <<pair, before, root, tries, processingDone>>
       [] AddRejected(ExecutionResult) ->
            LoopAgain /\ UNCHANGED <<trackerVars, processingDone>>
       [] OTHER -> handleProcessError(FALSE) /\ UNCHANGED trackerVars
  /\ UNCHANGED <<cache, lastExecutionResult, head, isPaused, closed, mut, call>>

ExecPublish ==
  /\ epc = "publish"
  /\ lastExecutionResult' = ExecutionResult
  /\ LoopAgain
  /\ UNCHANGED <<trackerVars, cache, head, pauseVars, closed, mut, call>>

ReplacedInCache == NonceOf[pair] \in DOMAIN cache /\ cache[NonceOf[pair]] # pair

(* The wait for the next attempt; the pair may be replaced during it. *)
ExecRetry ==
  /\ epc = "retry"
  /\ \/ (isPaused \/ closed \/ ReplacedInCache) /\ LoopAgain
     \/ ~isPaused /\ epc' = "process" /\ UNCHANGED <<pair, before, root, tries>>
  /\ UNCHANGED <<trackerVars, cache, lastExecutionResult, head, pauseVars, closed, mut, call>>

Executor ==
  \/ ExecLoop \/ ExecReplacement \/ ExecNext \/ ExecProcess \/ ExecReplace \/ ExecTrim
  \/ ExecExecute \/ ExecVerify \/ ExecCommit \/ ExecAdd \/ ExecPublish \/ ExecRetry

-----------------------------------------------------------------------------
(* The execution manager's mutex and pauses.                               *)

At(t, pc) == call[t].pc = pc

Goto(t, pc) == call' = [call EXCEPT ![t].pc = pc]

Return(t) == call' = [call EXCEPT ![t] = Idle]

Proceed(t) == IF call[t].then = "idle" THEN Return(t) ELSE Goto(t, call[t].then)

PauseExecution == isPaused' = TRUE /\ processingDone' = TRUE

ResumeExecution == isPaused' = FALSE /\ processingDone' = FALSE

LockAndPause(t, pc) == mut' = t /\ PauseExecution /\ Goto(t, pc)

(* PauseExecution has returned. *)
PausedAt(t, pc) == At(t, pc) /\ ~processingDone

ResumeAndUnlock == ResumeExecution /\ mut' = Free

(* Nobody holds the mutex, and the call holds it for this step only. *)
Locked == mut = Free /\ UNCHANGED <<mut, pauseVars>>

-----------------------------------------------------------------------------
(* AddPairForExecution.                                                    *)

HasRoom(h) == NonceOf[h] \in DOMAIN cache \/ Cardinality(DOMAIN cache) < MaxCacheSize

AddPair(t) ==
  /\ At(t, "add")
  /\ mut = Free
  /\ CASE closed -> Return(t) /\ UNCHANGED <<mut, pauseVars>>
       [] ~closed /\ lastNonce >= NonceOf[call[t].h] -> LockAndPause(t, "addReplacement")
       [] OTHER -> mut' = t /\ Goto(t, "addToCache") /\ UNCHANGED pauseVars
  /\ UNCHANGED <<trackerVars, cache, lastExecutionResult, head, execVars, closed>>

AddToCache(t) ==
  LET h   == call[t].h
      n   == NonceOf[h]
      old == IF n \in DOMAIN cache THEN cache[n] ELSE None
  IN /\ At(t, "addToCache")
     /\ IF HasRoom(h)
        THEN /\ cache' = Put(cache, n, h)
             /\ call' = [call EXCEPT ![t] = [@ EXCEPT !.pc = "addReread", !.old = old]]
             /\ UNCHANGED mut
        ELSE Return(t) /\ mut' = Free /\ UNCHANGED cache
     /\ UNCHANGED <<trackerVars, lastExecutionResult, head, execVars, pauseVars, closed>>

(* The executor may have passed the nonce while the pair was being added. *)
AddReread(t) ==
  /\ At(t, "addReread")
  /\ IF lastNonce < NonceOf[call[t].h]
     THEN Proceed(t) /\ mut' = Free /\ UNCHANGED pauseVars
     ELSE LockAndPause(t, "addRaced")
  /\ UNCHANGED <<trackerVars, cache, lastExecutionResult, head, execVars, closed>>

AddReplacementPair(t) ==
  LET h == call[t].h
  IN /\ PausedAt(t, "addReplacement")
     /\ \/ /\ \/ Failures
              \/ ParentResult(h, PendingBelow(h)) = {}
           /\ Return(t)
           /\ UNCHANGED <<trackerVars, cache, lastExecutionResult>>
        \/ \E r \in ParentResult(h, PendingBelow(h)) :
             /\ UpdateContextForReplacedHeader(r)
             /\ IF HasRoom(h)
                THEN cache' = Put(cache, NonceOf[h], h) /\ Proceed(t)
                ELSE Return(t) /\ UNCHANGED cache
     /\ ResumeAndUnlock
     /\ UNCHANGED <<head, execVars, closed>>

wasPairExecuted(h) ==
  IF lastNonce = NonceOf[h]
  THEN lastExecutionResult.hash = h
  ELSE \E r \in Pending : r.hash = h

restoreCachedPair(t) ==
  cache' = IF call[t].old = None
           THEN Without(cache, {NonceOf[call[t].h]})
           ELSE Put(cache, NonceOf[call[t].h], call[t].old)

AddRaced(t) ==
  LET h == call[t].h
  IN /\ PausedAt(t, "addRaced")
     /\ \/ /\ wasPairExecuted(h)
           /\ Proceed(t)
           /\ UNCHANGED <<trackerVars, cache, lastExecutionResult>>
        \/ /\ ~wasPairExecuted(h)
           /\ \/ Failures
              \/ ParentResult(h, PendingBelow(h)) = {}
           /\ restoreCachedPair(t)
           /\ Return(t)
           /\ UNCHANGED <<trackerVars, lastExecutionResult>>
        \/ /\ ~wasPairExecuted(h)
           /\ \E r \in ParentResult(h, PendingBelow(h)) : UpdateContextForReplacedHeader(r)
           /\ Proceed(t)
           /\ UNCHANGED cache
     /\ ResumeAndUnlock
     /\ UNCHANGED <<head, execVars, closed>>

-----------------------------------------------------------------------------
(* CommitBlock of a header V3: what it does to the execution.              *)

(* The head that a failed commit puts back is read at the start. *)
CommitBlock(t) ==
  /\ At(t, "commit")
  /\ call' = [call EXCEPT ![t] =
       [@ EXCEPT !.pc = "validity", !.n = NonceOf[call[t].h], !.old = head, !.then = "restore"]]
  /\ UNCHANGED <<trackerVars, cache, lastExecutionResult, head, execVars, pauseVars, closed, mut>>

checkBlockValidity(t) ==
  /\ At(t, "validity")
  /\ \/ PrevOf[call[t].h] = head /\ Goto(t, "reached")
     \/ (Failures \/ PrevOf[call[t].h] # head) /\ Goto(t, "remove")
  /\ UNCHANGED <<trackerVars, cache, lastExecutionResult, head, execVars, pauseVars, closed, mut>>

Reached(t) ==
  /\ At(t, "reached")
  /\ Locked
  /\ CleanOnConsensusReached(call[t].h, TRUE)
  /\ cache' = Without(cache, {n \in DOMAIN cache : n > NonceOf[call[t].h]})
  /\ Goto(t, "setHead")
  /\ UNCHANGED <<lastExecutionResult, head, execVars, closed>>

SetHead(t) ==
  /\ At(t, "setHead")
  /\ head' = call[t].h
  /\ \/ Goto(t, "confirm")
     \/ Failures /\ Goto(t, "remove")
  /\ UNCHANGED <<trackerVars, cache, lastExecutionResult, execVars, pauseVars, closed, mut>>

Confirmed(rs) == rs = <<>> \/ (PendingInOrder /\ \A i \in DOMAIN rs : Matching(rs, i))

Confirm(t) ==
  LET rs == ResultsIn(call[t].h)
  IN /\ At(t, "confirm")
     /\ Locked
     /\ cache' = Without(cache, NoncesOf({rs[i] : i \in DOMAIN rs}))
     /\ CleanConfirmedExecutionResults(rs)
     /\ \/ Confirmed(rs) /\ Return(t)
        \/ (Failures \/ ~Confirmed(rs)) /\ Goto(t, "remove")
     /\ UNCHANGED <<lastExecutionResult, head, execVars, closed>>

(* The deferred SetCurrentBlockHeaderAndHash of a commit that failed. *)
RestoreHead(t) ==
  /\ At(t, "restore")
  /\ head' = call[t].old
  /\ Return(t)
  /\ UNCHANGED <<trackerVars, cache, lastExecutionResult, execVars, pauseVars, closed, mut>>

-----------------------------------------------------------------------------
(* RemoveAtNonceAndHigher and RewindExecutionStateToTip.                   *)

Remove(t) ==
  /\ At(t, "remove")
  /\ mut = Free
  /\ IF closed
     THEN Proceed(t) /\ UNCHANGED <<mut, pauseVars>>
     ELSE LockAndPause(t, "removing")
  /\ UNCHANGED <<trackerVars, cache, lastExecutionResult, head, execVars, closed>>

(* A header that is not found: the tracker goes back to the notarised result. *)
ResetTrackerToLastNotarized ==
  /\ Clean(lastNotarizedResult)
  /\ cache' = Empty
  /\ UNCHANGED lastExecutionResult

RemoveAtNonceAndHigher(t) ==
  LET n == IF call[t].n <= notarizedNonce THEN notarizedNonce + 1 ELSE call[t].n
  IN /\ PausedAt(t, "removing")
     /\ \/ /\ RemoveFromNonce(n)
           /\ cache' = Without(cache, {k \in DOMAIN cache : k >= n})
           /\ lastExecutionResult' = ResultBefore(n)
        \/ Failures /\ ResetTrackerToLastNotarized
     /\ ResumeAndUnlock
     /\ Proceed(t)
     /\ UNCHANGED <<head, execVars, closed>>

(* A rewind that fails changes nothing and is retried before the sync goes *)
(* on; a roll back that is re-driven finds nothing left to remove.         *)
RewindToTip(t) ==
  /\ At(t, "rewind")
  /\ mut = Free
  /\ IF closed
     THEN Return(t) /\ UNCHANGED <<mut, pauseVars>>
     ELSE LockAndPause(t, "rewinding")
  /\ UNCHANGED <<trackerVars, cache, lastExecutionResult, head, execVars, closed>>

RewindExecutionStateToTip(t) ==
  LET anchor == AgreedResult(NotarizedBy[call[t].old])
  IN /\ PausedAt(t, "rewinding")
     /\ Rewind(anchor, NonceOf[call[t].old])
     /\ cache' = Empty
     /\ lastExecutionResult' = anchor
     /\ ResumeAndUnlock
     /\ Return(t)
     /\ UNCHANGED <<head, execVars, closed>>

Close ==
  /\ mut = Free
  /\ ~closed
  /\ closed' = TRUE
  /\ UNCHANGED <<trackerVars, cache, lastExecutionResult, head, execVars, pauseVars, mut, call>>

-----------------------------------------------------------------------------
(* The calls of consensus and of the synchroniser.                         *)

RollingBack == call[Sync].pc # "idle" /\ call[Sync].then = "rewind"

Begin(t, pc, h, n, old, then) ==
  /\ call[t] = Idle
  /\ call' = [call EXCEPT ![t] = [pc |-> pc, h |-> h, n |-> n, old |-> old, then |-> then]]

(* VerifyBlockProposal: the parent is the head, the results are the local ones. *)
VerifyBlockProposal(h) ==
  PrevOf[h] = head /\ h # FirstHeader /\ Confirmed(ResultsIn(h))

(* Consensus adds a block it verified; "proposed" is the rest of the round. *)
ProposedBlock ==
  /\ ~RollingBack
  /\ \E h \in Headers : VerifyBlockProposal(h) /\ Begin(Consensus, "add", h, 0, None, "proposed")
  /\ UNCHANGED <<trackerVars, cache, lastExecutionResult, head, execVars, pauseVars, closed, mut>>

EndOfRound ==
  /\ At(Consensus, "proposed")
  /\ Return(Consensus) \/ Goto(Consensus, "commit")
  /\ UNCHANGED <<trackerVars, cache, lastExecutionResult, head, execVars, pauseVars, closed, mut>>

SyncBlock ==
  /\ \E h \in Headers : VerifyBlockProposal(h) /\ Begin(Sync, "add", h, 0, None, "commit")
  /\ UNCHANGED <<trackerVars, cache, lastExecutionResult, head, execVars, pauseVars, closed, mut>>

(* prepareForSyncIfNeeded adds committed blocks that are not yet notarised. *)
Backfill ==
  /\ \E h \in Chain[head] :
       NonceOf[h] > NonceOf[NotarizedBy[head]] /\ Begin(Sync, "add", h, 0, None, "idle")
  /\ UNCHANGED <<trackerVars, cache, lastExecutionResult, head, execVars, pauseVars, closed, mut>>

DivergingNonces(h) ==
  LET rs == ResultsIn(h)
  IN {nonceOf(rs[i]) : i \in {j \in DOMAIN rs : \E r \in Pending : nonceOf(r) = nonceOf(rs[j]) /\ r # rs[j]}}

(* tryRecoverFromExecutionResultsMismatch. *)
RecoverFromMismatch ==
  /\ \E h \in Headers \ {FirstHeader} :
       /\ PrevOf[h] = head
       /\ Len(ResultsIn(h)) <= Cardinality(Pending)
       /\ ~Confirmed(ResultsIn(h))
       /\ LET ns == DivergingNonces(h)
              n  == IF ns = {} THEN notarizedNonce + 1 ELSE CHOOSE k \in ns : \A j \in ns : k <= j
          IN Begin(Sync, "remove", h, n, None, "idle")
  /\ UNCHANGED <<trackerVars, cache, lastExecutionResult, head, execVars, pauseVars, closed, mut>>

(* rollBackOneBlockV3, which runs only while consensus is idle. *)
RollBack ==
  /\ call[Consensus] = Idle
  /\ head # FirstHeader
  /\ head' = PrevOf[head]
  /\ Begin(Sync, "remove", head, NonceOf[head], PrevOf[head], "rewind")
  /\ UNCHANGED <<trackerVars, cache, lastExecutionResult, execVars, pauseVars, closed, mut>>

Caller(t) ==
  \/ AddPair(t) \/ AddToCache(t) \/ AddReread(t) \/ AddReplacementPair(t) \/ AddRaced(t)
  \/ CommitBlock(t) \/ checkBlockValidity(t) \/ Reached(t) \/ SetHead(t) \/ Confirm(t) \/ RestoreHead(t)
  \/ Remove(t) \/ RemoveAtNonceAndHigher(t) \/ RewindToTip(t) \/ RewindExecutionStateToTip(t)

-----------------------------------------------------------------------------
AsyncInit ==
  /\ TrackerInit
  /\ cache = Empty
  /\ lastExecutionResult = FirstResult
  /\ head = FirstHeader
  /\ epc = "check"
  /\ pair = None
  /\ before = {}
  /\ root = FirstResult.root
  /\ tries = 0
  /\ isPaused = FALSE
  /\ processingDone = FALSE
  /\ closed = FALSE
  /\ mut = Free
  /\ call = [t \in Callers |-> Idle]

AsyncNext ==
  \/ Executor
  \/ \E t \in Callers : Caller(t)
  \/ ProposedBlock \/ EndOfRound \/ SyncBlock \/ Backfill \/ RecoverFromMismatch \/ RollBack
  \/ Close

AsyncSpec == AsyncInit /\ [][AsyncNext]_asyncVars

(* The executor's goroutine and a call that has begun keep running. *)
AsyncFairness ==
  /\ WF_asyncVars(Executor)
  /\ \A t \in Callers : SF_asyncVars(Caller(t))

AsyncFairSpec == AsyncSpec /\ AsyncFairness

-----------------------------------------------------------------------------
(* Properties.                                                             *)

(* Types of the fields; the queue holds a pair at its own nonce and stays  *)
(* within its capacity.                                                    *)
AsyncTypeOK ==
  /\ TrackerTypeOK
  /\ \A n \in DOMAIN cache : n \in Nat /\ cache[n] \in Headers /\ NonceOf[cache[n]] = n
  /\ Cardinality(DOMAIN cache) <= MaxCacheSize
  /\ lastExecutionResult \in Result
  /\ head \in Headers /\ pair \in Headers \cup {None}
  /\ root \in Roots
  /\ before \subseteq Result
  /\ tries \in 0 .. MaxRetryAttempts
  /\ isPaused \in BOOLEAN /\ processingDone \in BOOLEAN /\ closed \in BOOLEAN
  /\ mut \in Callers \cup {Free}

(* When PauseExecution returns no block execution is in flight, and none   *)
(* starts before ResumeExecution.                                          *)
PauseExcludesExecution ==
  isPaused /\ ~processingDone => epc \in {"check", "stopped"}

(* Every pending result was executed on the pending or notarised result    *)
(* right below it.  AddExecutionResult compares nonces only, so this takes *)
(* the executor's checks against the last execution result, and a manager  *)
(* that moves that and the tracker back together.                          *)
PendingIsChain ==
  \A r \in Pending : PrevOf[r.hash] = ResultBefore(nonceOf(r)).hash

(* Every call of the manager returns: a pause is acknowledged whatever the *)
(* executor is doing, and the mutex is released.                           *)
CallsReturn ==
  \A t \in Callers : ~(At(t, "idle") \/ At(t, "proposed")) ~> (At(t, "idle") \/ At(t, "proposed"))

(* UpdateContextForReplacedHeader "need[s] to remove all execution results *)
(* after the one set": a block is executed with no result above the last   *)
(* execution result in the tracker, unless a commit on another goroutine   *)
(* notarised one after the executor read it.                               *)
ReplacedResultsRemoved ==
  epc = "execute" => lastExecutedNonce <= lastNonce \/ notarizedNonce > lastNonce

=============================================================================
