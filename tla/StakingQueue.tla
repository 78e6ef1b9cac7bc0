--------------------------- MODULE StakingQueue ----------------------------
(* The staking contract of the metachain (vm/systemSmartContracts/staking.go  *)
(* and stakingWaitingList.go): the registrations of the validator keys, the   *)
(* count of staked nodes, and the waiting list, a doubly linked list kept in  *)
(* contract storage. Keys that were jailed once and unjailed queue in front,  *)
(* behind a pointer to the last of them.                                      *)
(*                                                                            *)
(* Contract calls run one after the other and a call that returns an error    *)
(* leaves the storage as it was, so a call is one action and a failing call   *)
(* is no step. The list is passed through the helpers as a record whose field *)
(* ok turns FALSE where the code returns an error. The correction flags       *)
(* (CorrectLastUnJailed, CorrectFirstQueued, CorrectJailedNotUnStaked...) are *)
(* on. What the contract asks of others (the rating of a node, the funds of   *)
(* an owner, the unbond period) is free.                                      *)
EXTENDS Integers, Sequences, FiniteSets, SequencesExt

CONSTANTS
  Key,          \* BLS public keys
  NoKey,        \* the empty key
  OwnerOf,      \* the owner of every key
  MinNodes,     \* MinNumNodes of the contract's configuration
  MaxNodes,     \* values of MaxNumNodes, increasing
  MaxFromQueue, \* bound: nodes staked from the queue in one call
  MaxJailings   \* bound: jailings recorded in the registrations

ASSUME StakingAssumption ==
  /\ NoKey \notin Key /\ IsFiniteSet(Key)
  /\ MinNodes \in Nat /\ MaxNodes \subseteq Nat \ {0}
  /\ MaxFromQueue \in Nat /\ MaxJailings \in Nat

VARIABLES
  reg,              \* registration of every key (StakedDataV2_0)
  list,             \* waiting list: its elements and its head
  stakedNodes,      \* StakedNodes of the configuration
  maxNodes,         \* MaxNumNodes of the configuration
  era               \* epoch flags: the queue, the epoch start that empties it, after

stakingVars == <<reg, list, stakedNodes, maxNodes, era>>

Owner == {OwnerOf[k] : k \in Key}

Missing == [prev |-> NoKey, next |-> NoKey, stored |-> FALSE]
Element(prev, next) == [prev |-> prev, next |-> next, stored |-> TRUE]

EmptyHead(elem) ==
  [elem |-> elem, first |-> NoKey, last |-> NoKey, length |-> 0,
   lastJailed |-> NoKey, ok |-> TRUE]

Unregistered ==
  [registered |-> FALSE, staked |-> FALSE, waiting |-> FALSE, jailed |-> FALSE,
   numJailed |-> 0]

InStore(l, k) == k # NoKey /\ l.elem[k].stored
Failed(l) == [l EXCEPT !.ok = FALSE]

----------------------------------------------------------------------------
(* The waiting list.                                                       *)

(* The key at every place of a walk from the head; NoKey after its end.    *)
Places(l) ==
  LET at[i \in 1..l.length] ==
        IF i = 1 THEN l.first
        ELSE IF InStore(l, at[i - 1]) THEN l.elem[at[i - 1]].next ELSE NoKey
  IN  at

(* The keys getFirstElementsFromWaitingList returns, in order; the walk    *)
(* fails on a key without a stored element.                                *)
Walk(l) ==
  LET places == Places(l)
  IN  [i \in {j \in 1..l.length : places[j] # NoKey} |-> places[i]]
WalkOK(l) == \A i \in DOMAIN Walk(l) : InStore(l, Walk(l)[i])

startWaitingList(l, k, addJailed) ==
  [l EXCEPT !.first = k, !.last = k, !.length = 1,
            !.lastJailed = IF addJailed THEN k ELSE @,
            !.elem = [@ EXCEPT ![k] = Element(k, NoKey)]]

addToEndOfTheList(l, k) ==
  IF InStore(l, l.last)
  THEN [l EXCEPT !.elem = [@ EXCEPT ![l.last].next = k, ![k] = Element(l.last, NoKey)],
                 !.last = k, !.length = @ + 1]
  ELSE Failed(l)

MutantInsertBeforeFirst(l, k) ==
  [l EXCEPT !.elem[k] = Element(k, l.first),
            !.first = k, !.lastJailed = k, !.length = @ + 1]

insertBeforeFirst(l, k) ==
  IF InStore(l, l.first)
  THEN [l EXCEPT !.elem = [@ EXCEPT ![l.first].prev = k, ![k] = Element(k, l.first)],
                 !.first = k, !.lastJailed = k, !.length = @ + 1]
  ELSE Failed(l)

insertAfterLastJailed(l, k) ==
  LET jailed == l.lastJailed
      next   == l.elem[jailed].next
  IN  IF jailed = NoKey THEN insertBeforeFirst(l, k)
      ELSE IF ~InStore(l, jailed) THEN Failed(l)
      ELSE IF l.last = jailed THEN addToEndOfTheList([l EXCEPT !.lastJailed = k], k)
      ELSE IF ~InStore(l, next) THEN Failed(l)
      ELSE [l EXCEPT !.lastJailed = k, !.length = @ + 1,
                     !.elem = [@ EXCEPT ![jailed].next = k, ![next].prev = k,
                                        ![k] = Element(jailed, next)]]

addToWaitingList(l, k, addJailed) ==
  IF InStore(l, k) THEN l
  ELSE IF l.length = 0 THEN startWaitingList(l, k, addJailed)
  ELSE IF addJailed THEN insertAfterLastJailed(l, k)
  ELSE addToEndOfTheList(l, k)

removeFirst(l, k, next) ==
  IF InStore(l, next)
  THEN [l EXCEPT !.first = next, !.elem[next].prev = next,
                 !.lastJailed = IF @ = k THEN NoKey ELSE @]
  ELSE Failed(l)

removeLast(l, k, prev) ==
  IF InStore(l, prev)
  THEN [l EXCEPT !.last = prev, !.elem[prev].next = NoKey,
                 !.lastJailed = IF @ = k THEN prev ELSE @]
  ELSE Failed(l)

MutantRemoveInner(l, k, prev, next) ==
  IF InStore(l, prev) /\ InStore(l, next)
  THEN [l EXCEPT !.elem = [@ EXCEPT ![next].prev = prev, ![prev].next = next],
                 !.lastJailed = prev]
  ELSE Failed(l)

removeInner(l, k, prev, next) ==
  IF InStore(l, prev) /\ InStore(l, next)
  THEN [l EXCEPT !.elem = [@ EXCEPT ![next].prev = prev, ![prev].next = next],
                 !.lastJailed = IF @ = k THEN prev ELSE @]
  ELSE Failed(l)

removeFromWaitingList(l, k) ==
  LET element == l.elem[k]
      without == [l EXCEPT !.elem = [@ EXCEPT ![k] = Missing], !.length = @ - 1]
  IN  IF ~l.ok \/ ~InStore(l, k) THEN l
      ELSE IF l.length = 0 THEN Failed(l)
      ELSE IF l.length = 1 THEN EmptyHead(without.elem)
      ELSE IF l.first = k THEN removeFirst(without, k, element.next)
      ELSE IF element.next = NoKey THEN removeLast(without, k, element.prev)
      ELSE removeInner(without, k, element.prev, element.next)

(* The keys of the sequence that are in leaving are removed, in its order. *)
removeAll(l, keys, leaving) ==
  LET without[i \in 0..Len(keys)] ==
        IF i = 0 THEN l
        ELSE IF keys[i] \in leaving THEN removeFromWaitingList(without[i - 1], keys[i])
        ELSE without[i - 1]
  IN  without[Len(keys)]

----------------------------------------------------------------------------
(* Registrations and the count of staked nodes.                            *)

activeStakingFor(r) ==
  [r EXCEPT !.staked = TRUE, !.waiting = FALSE]
doUnStake(r) ==
  [r EXCEPT !.staked = FALSE, !.waiting = FALSE]

canStake == era # "queue" \/ stakedNodes < maxNodes
canStakeIfOneRemoved == stakedNodes <= maxNodes
canUnStake(n) == n - MinNodes > 0
removeFromStakedNodes(n) == IF n > 0 THEN n - 1 ELSE n

(* Writes the outcome of a call: nothing when the list reported an error.  *)
Save(l, r, n) ==
  /\ l.ok
  /\ list' = l /\ reg' = r /\ stakedNodes' = n
  /\ UNCHANGED <<maxNodes, era>>

Transactions == era \in {"queue", "v4"}   \* no transaction is in the block that empties the queue
EndOfEpoch == era \in {"queue", "step1"}  \* epoch start calls on the waiting list

MutantProcessStake(k, r, addFirst) ==
  \/ r.staked /\ Save(list, [reg EXCEPT ![k] = r], stakedNodes)
  \/ /\ ~r.staked /\ canStake
     /\ Save(list, [reg EXCEPT ![k] = activeStakingFor(r)], stakedNodes + 1)
  \/ /\ ~r.staked /\ ~canStake
     /\ Save(addToWaitingList(list, k, addFirst),
             [reg EXCEPT ![k] = [r EXCEPT !.waiting = TRUE]], stakedNodes)

processStake(k, r, addFirst) ==
  \/ r.staked /\ Save(list, [reg EXCEPT ![k] = r], stakedNodes)
  \/ /\ ~r.staked /\ canStake
     /\ Save(IF era = "queue" THEN removeFromWaitingList(list, k) ELSE list,
             [reg EXCEPT ![k] = activeStakingFor(r)], stakedNodes + 1)
  \/ /\ ~r.staked /\ ~canStake
     /\ Save(addToWaitingList(list, k, addFirst),
             [reg EXCEPT ![k] = [r EXCEPT !.waiting = TRUE]], stakedNodes)

(* moveFirstFromWaitingToStaked: the first waiting key is staked.          *)
First == list.first
notEmpty == list.length > 0
MovedList == removeFromWaitingList(list, First)
moveFirstFromWaitingToStaked(r) == [r EXCEPT ![First] = activeStakingFor(@)]
firstIsValid == InStore(list, First) /\ reg[First].registered /\ ~reg[First].staked

----------------------------------------------------------------------------
(* Calls in transactions (through the validator contract).                 *)

register(k) ==
  /\ Transactions /\ ~reg[k].jailed
  /\ Save(list, [reg EXCEPT ![k].registered = TRUE], stakedNodes)

stake(k) ==
  /\ Transactions /\ ~reg[k].jailed
  /\ processStake(k, [reg[k] EXCEPT !.registered = TRUE], FALSE)

unJail(k) ==
  /\ Transactions /\ reg[k].registered
  /\ processStake(k, [reg[k] EXCEPT !.jailed = FALSE], reg[k].numJailed = 1)

checkUnStakeArgs(k) ==
  reg[k].registered /\ ~reg[k].jailed /\ (reg[k].staked \/ reg[k].waiting)

unStakeV1(k) ==
  /\ era = "queue" /\ checkUnStakeArgs(k)
  /\ \/ /\ ~reg[k].staked
        /\ Save(removeFromWaitingList(list, k), [reg EXCEPT ![k].waiting = FALSE], stakedNodes)
     \/ /\ reg[k].staked /\ canStakeIfOneRemoved /\ notEmpty /\ firstIsValid
        /\ canUnStake(stakedNodes + 1)
        /\ Save(MovedList, [moveFirstFromWaitingToStaked(reg) EXCEPT ![k] = doUnStake(reg[k])],
                stakedNodes)
     \/ /\ reg[k].staked /\ ~(canStakeIfOneRemoved /\ notEmpty)
        /\ canUnStake(stakedNodes)
        /\ Save(list, [reg EXCEPT ![k] = doUnStake(@)], removeFromStakedNodes(stakedNodes))

unStakeV2(k) ==
  /\ era = "v4" /\ checkUnStakeArgs(k) /\ reg[k].staked /\ canUnStake(stakedNodes)
  /\ Save(list, [reg EXCEPT ![k] = doUnStake(@)], removeFromStakedNodes(stakedNodes))

unBond(k) ==
  /\ Transactions /\ reg[k].registered
  /\ ~reg[k].staked /\ ~reg[k].jailed /\ ~reg[k].waiting
  /\ stakedNodes - MinNodes >= 0
  /\ Save(list, [reg EXCEPT ![k] = Unregistered], stakedNodes)

----------------------------------------------------------------------------
(* Calls at the epoch start.                                               *)

(* The list, the registrations and the count after the first waiting key   *)
(* took a place (moveFirstFromWaitingToStakedIfNeeded).                    *)
Moved(k) ==
  IF InStore(list, k) THEN [l |-> removeFromWaitingList(list, k), r |-> reg, n |-> stakedNodes]
  ELSE IF notEmpty
       THEN [l |-> IF firstIsValid THEN MovedList ELSE Failed(list),
             r |-> moveFirstFromWaitingToStaked(reg), n |-> stakedNodes + 1]
  ELSE [l |-> list, r |-> reg, n |-> stakedNodes]

(* Bound: the jailings recorded so far are fewer than MaxJailings.         *)
jailingsLeft == FoldFunction(LAMBDA r, n : r.numJailed + n, 0, reg) < MaxJailings

switchJailedWithWaiting(k) ==
  LET moved  == Moved(k)
      jailed == [reg[k] EXCEPT !.jailed = TRUE, !.numJailed = IF @ = 0 THEN 1 ELSE 2]
  IN  /\ EndOfEpoch /\ reg[k].registered /\ reg[k].staked /\ ~reg[k].jailed
      /\ jailingsLeft
      /\ IF canUnStake(moved.n)
         THEN Save(moved.l,
                   [moved.r EXCEPT ![k] = [jailed EXCEPT !.staked = FALSE]],
                   removeFromStakedNodes(moved.n))
         ELSE Save(moved.l, [moved.r EXCEPT ![k] = jailed], moved.n)

unStakeAtEndOfEpoch(k) ==
  /\ reg[k].registered /\ (reg[k].staked \/ reg[k].waiting)
  /\ ~(reg[k].jailed /\ ~reg[k].staked)
  /\ Save(IF reg[k].waiting THEN removeFromWaitingList(list, k) ELSE list,
          [reg EXCEPT ![k] = doUnStake(@)],
          IF reg[k].staked THEN removeFromStakedNodes(stakedNodes) ELSE stakedNodes)

(* How many nodes an owner must give up (checkValidatorFunds).             *)
Shortages == {s \in [Owner -> 0..Cardinality(Key)] :
                \A o \in Owner : s[o] <= Cardinality({k \in Key : OwnerOf[k] = o})}

(* The first num waiting keys whose owner lacks nothing are staked.        *)
FundedFirst(num, short) ==
  LET walk == Walk(list)
      funded == {i \in DOMAIN walk : OwnerOf[walk[i]] \notin short}
  IN  {walk[i] : i \in {j \in funded : Cardinality({m \in funded : m <= j}) <= num}}

StakedFromQueue(num, short) ==
  LET keys == FundedFirst(num, short)
  IN  [l |-> removeAll(list, Walk(list), keys),
       r |-> [k \in Key |-> IF k \in keys THEN activeStakingFor(reg[k]) ELSE reg[k]],
       n |-> stakedNodes + Cardinality(keys)]

stakeNodesFromQueue(num, short) ==
  LET queue == StakedFromQueue(num, short)
  IN  /\ era = "queue" /\ notEmpty /\ WalkOK(list)
      /\ Save(queue.l, queue.r, queue.n)

(* updateMaxNodes: the raised limit is filled from the queue.              *)
updateMaxNodes(max, short) ==
  LET queue == StakedFromQueue(max - maxNodes, short)
  IN  /\ era = "queue" /\ max > maxNodes /\ WalkOK(list) /\ queue.l.ok
      /\ maxNodes' = max
      /\ list' = queue.l /\ reg' = queue.r /\ stakedNodes' = queue.n
      /\ UNCHANGED era

(* The last waiting keys of an owner with a shortage leave the list.       *)
cleanAdditionalQueue(short) ==
  LET walk == Walk(list)
      leaves(i) == Cardinality({j \in i..Len(walk) : OwnerOf[walk[j]] = OwnerOf[walk[i]]})
                     <= short[OwnerOf[walk[i]]]
      keys   == {walk[i] : i \in {j \in DOMAIN walk : leaves(j)}}
  IN  /\ EndOfEpoch /\ notEmpty /\ WalkOK(list)
      /\ Save(removeAll(list, Reverse(walk), keys),
              [k \in Key |-> IF k \in keys THEN doUnStake(reg[k]) ELSE reg[k]],
              stakedNodes)

resetLastUnJailedFromQueue ==
  EndOfEpoch /\ list.lastJailed # NoKey
  /\ Save([list EXCEPT !.lastJailed = NoKey], reg, stakedNodes)

(* StakingV4Step1Flag: the epoch start block in which the queue is emptied.*)
StartStakingV4 ==
  /\ era = "queue" /\ era' = "step1"
  /\ UNCHANGED <<reg, list, stakedNodes, maxNodes>>

unStakeAllNodesFromQueue ==
  LET walk == Walk(list)
      left == {walk[i] : i \in DOMAIN walk}
  IN  /\ era = "step1" /\ WalkOK(list)
      /\ era' = "v4"
      /\ reg' = [k \in Key |-> IF k \in left THEN doUnStake(reg[k]) ELSE reg[k]]
      /\ list' = EmptyHead([k \in Key |-> IF k \in left THEN Missing ELSE list.elem[k]])
      /\ UNCHANGED <<stakedNodes, maxNodes>>

----------------------------------------------------------------------------
StakingInit ==
  /\ reg = [k \in Key |-> Unregistered]
  /\ list = EmptyHead([k \in Key |-> Missing])
  /\ stakedNodes = 0
  /\ maxNodes \in {n \in MaxNodes : \A m \in MaxNodes : n <= m}
  /\ era = "queue"

StakingNext ==
  \/ \E k \in Key : \/ register(k) \/ stake(k) \/ unJail(k) \/ unStakeV1(k) \/ unStakeV2(k)
                    \/ unBond(k)
                    \/ switchJailedWithWaiting(k) \/ unStakeAtEndOfEpoch(k)
  \/ \E short \in Shortages : cleanAdditionalQueue(short)
  \/ \E short \in SUBSET Owner :
       \/ \E num \in 1..MaxFromQueue : stakeNodesFromQueue(num, short)
       \/ \E max \in MaxNodes : updateMaxNodes(max, short)
  \/ resetLastUnJailedFromQueue
  \/ StartStakingV4 \/ unStakeAllNodesFromQueue

StakingSpec == StakingInit /\ [][StakingNext]_stakingVars

----------------------------------------------------------------------------
InList == {k \in Key : InStore(list, k)}

(* However keys join and leave, in front, behind or from the middle, a walk  *)
(* from the head meets every stored element exactly once and ends at the     *)
(* last one, every previous key points back along it, and the last jailed    *)
(* key is one of them (addToWaitingList, removeFromWaitingList). An element  *)
(* off the walk would be a node that never gets its turn; a pointer to a     *)
(* removed element makes every later call on the list fail.                  *)
QueueWellFormed ==
  LET walk == Walk(list)
  IN  /\ WalkOK(list)
      /\ Len(walk) = list.length /\ Cardinality(InList) = list.length
      /\ Range(walk) = InList
      /\ list.length > 0 => /\ list.last = walk[list.length]
                            /\ list.elem[list.last].next = NoKey
                            /\ list.elem[list.first].prev = list.first
      /\ \A i \in 2..list.length : list.elem[walk[i]].prev = walk[i - 1]
      /\ list.lastJailed # NoKey => InStore(list, list.lastJailed)

(* The records of a node agree after every call of every era: an element is  *)
(* stored exactly for the keys whose registration says Waiting, none of      *)
(* these is staked (processStake, unStakeAtEndOfEpoch,                       *)
(* unStakeAllNodesFromQueue), and StakedNodes, which canStake and canUnStake *)
(* decide by, is the number of registrations that are staked, although calls *)
(* that stake one node and unstake another change it in two places           *)
(* (addToStakedNodes, removeFromStakedNodes).                                *)
RegistrationAgrees ==
  /\ \A k \in Key : /\ InStore(list, k) <=> reg[k].waiting
                    /\ reg[k].waiting => reg[k].registered /\ ~reg[k].staked
  /\ stakedNodes = Cardinality({k \in Key : reg[k].staked})

(* The keys up to the last jailed one are keys that were jailed once and     *)
(* unjailed, so that nobody else overtakes the queue with them               *)
(* (insertAfterLastJailed and the pointer's update on removal).              *)
UnjailedInFront ==
  LET walk == Walk(list)
  IN  \A i, j \in DOMAIN walk :
        walk[j] = list.lastJailed /\ i <= j => reg[walk[i]].numJailed = 1
=============================================================================
