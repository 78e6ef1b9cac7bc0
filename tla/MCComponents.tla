--------------------------- MODULE MCComponents ----------------------------
(* Five components that stand alone: the committee's promise, the tracker of  *)
(* execution results, the pool of proofs, the staking contract and the epoch  *)
(* start trigger. They share no state, and a behaviour is one of one of them, *)
(* while the others stay in their initial state.                              *)
EXTENDS Committee, ResultsTracker, ProofsPool, StakingQueue, MCEpochTrigger, TLC

CONSTANTS o1, o2, o3, f1, a1, a2, a3, b1

(* Committee: headers 1 and 2 are of round 1, 3 and 4 of round 2. *)
MCRoundOf == [h \in Hash |-> <<0, 1, 1, 2, 2>>[h + 1]]

(* Tracker: two competing headers at nonce 1 and one header at nonce 2. *)
MCNonceOf == <<0, 1, 1, 2>>
MCFirstResult == [hash |-> 1, root |-> 0]

(* Pool: three competing headers at nonce 4, whose rounds are not in the order of *)
(* their hashes, a header at a later nonce of the same bucket, one in the next    *)
(* bucket and one that the round exclusion handler rejects.                       *)
MCProofNonce == (1 :> 4) @@ (2 :> 4) @@ (3 :> 4) @@ (5 :> 5) @@ (6 :> 8) @@ (9 :> 4)
MCProofRound == (1 :> 12) @@ (2 :> 11) @@ (3 :> 11) @@ (5 :> 13) @@ (6 :> 14) @@ (9 :> 10)

(* Staking: one owner of three keys and one of a single key. *)
MCOwnerOf == [k \in Key |-> IF k = b1 THEN 2 ELSE 1]

MCSymmetry == Permutations(Thread) \cup Permutations({a1, a2, a3})

VARIABLE part

componentVars == <<part, committeeVars, trackerVars, poolVars, stakingVars, triggerVars>>

ComponentsInit ==
  /\ part \in {"committee", "tracker", "pool", "staking", "contended start", "successive starts"}
  /\ Init /\ TrackerInit /\ PoolInit /\ StakingInit /\ TriggerInit
  /\ part \notin {"contended start", "successive starts"} => admitted

(* Trigger: the blocks that arrive are the competing ones of epoch 1, which the *)
(* pools keep, or the canonical ones of epochs 1 and 2.                         *)
Arrives(h) == h \in view'.hdrs \cup view'.proofs \/ view'.support[h] > 0

ComponentsNext ==
  /\ UNCHANGED part
  /\ \/ /\ part = "committee" /\ Next
        /\ UNCHANGED <<trackerVars, poolVars, stakingVars, triggerVars>>
     \/ /\ part = "tracker" /\ TrackerNext
        /\ UNCHANGED <<committeeVars, poolVars, stakingVars, triggerVars>>
     \/ /\ part = "pool" /\ PoolNext
        /\ UNCHANGED <<committeeVars, trackerVars, stakingVars, triggerVars>>
     \/ /\ part = "staking" /\ StakingNext
        /\ UNCHANGED <<committeeVars, trackerVars, poolVars, triggerVars>>
     \/ /\ TriggerNext
        /\ \/ part = "contended start" /\ ~Arrives(3) /\ evictions' = 0
           \/ part = "successive starts" /\ ~Arrives(1)
        /\ UNCHANGED <<committeeVars, trackerVars, poolVars, stakingVars>>

ComponentsSpec == ComponentsInit /\ [][ComponentsNext]_componentVars
=============================================================================
