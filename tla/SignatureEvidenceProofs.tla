----------------------- MODULE SignatureEvidenceProofs -----------------------
(***************************************************************************)
(* Theorems about the signature evidence store and the assembly of proofs  *)
(* from it, for every consensus group, threshold, set of headers and       *)
(* number of snapshots alive.                                              *)
(***************************************************************************)
EXTENDS SignatureEvidence, FiniteSetTheorems, WellFoundedInduction, TLAPS

-----------------------------------------------------------------------------
(* Lemmas about the operators of the store.                                *)

(* A snapshot that has not been collected. *)
Live(es) == {e \in EvId : es[e] # Free}

(* Every live snapshot is well formed: its invalid shares are shares, and *)
(* one that is about to be added to the pool has none.                    *)
HeapOK(es) ==
  /\ es \in [EvId -> roundSignatureEvidence \cup {Free}]
  /\ \A e \in Live(es) : /\ es[e] \in roundSignatureEvidence
                         /\ es[e].bad \subseteq es[e].shares
                         /\ es[e].asm = "add" => es[e].bad = {}

LEMMA RecordsAreNotFree == \A r \in roundSignatureEvidence : r # Free
BY DEF roundSignatureEvidence, Free

(* Capture takes a free place of the heap: Min picks an element. *)
LEMMA FreePlace == FreeIds # {} => Min(FreeIds) \in FreeIds
<1> SUFFICES ASSUME FreeIds # {} PROVE Min(FreeIds) \in FreeIds
  OBVIOUS
<1> DEFINE R == {ss \in Nat \X Nat : ss[1] < ss[2]}
<1>1. FreeIds \subseteq Nat
  BY EvidenceAssumption DEF FreeIds, EvId
<1>2. IsWellFoundedOn(R, Nat)
  BY NatLessThanWellFounded DEF OpToRel
<1>3. PICK m \in FreeIds : \A u \in FreeIds : ~(<<u, m>> \in R)
  <2> HIDE DEF R
  <2> QED
    BY <1>1, <1>2, WFMin
<1>4. \A u \in FreeIds : m <= u
  <2> SUFFICES ASSUME NEW u \in FreeIds PROVE m <= u
    OBVIOUS
  <2>1. u \in Nat /\ m \in Nat
    BY <1>1
  <2>2. ~(u < m)
    BY <1>3, <2>1
  <2> QED
    BY <2>1, <2>2
<1> QED
  BY <1>4 DEF Min

(* Counting signature shares: a subset has no more of them. *)
LEMMA ShareCounts ==
  ASSUME NEW S \in SUBSET Group, NEW T \in SUBSET S
  PROVE  /\ Cardinality(S) \in Nat
         /\ Cardinality(T) \in Nat
         /\ Cardinality(T) <= Cardinality(S)
<1>1. IsFiniteSet(S)
  BY EvidenceAssumption, FS_Subset
<1>2. IsFiniteSet(T) /\ Cardinality(T) <= Cardinality(S)
  BY <1>1, FS_Subset
<1> QED
  BY <1>1, <1>2, FS_CardinalityType

(* Garbage collection keeps the snapshots of the slots as they are, and *)
(* leaves no half-collected snapshot.                                   *)
LEMMA CollectKeeps ==
  ASSUME NEW es, HeapOK(es), NEW p, NEW r
  PROVE  /\ HeapOK(Collect(es, p, r))
         /\ \A e \in Live(es) \cap {p, r} : Collect(es, p, r)[e] = es[e]
         /\ \A e \in EvId : Collect(es, p, r)[e] \in {es[e], Free}
BY DEF HeapOK, Collect, Live

(* Starting goroutines changes no snapshot but for the launched flag. *)
LEMMA LaunchKeeps ==
  ASSUME NEW es, HeapOK(es), NEW S \in SUBSET Live(es)
  PROVE  /\ HeapOK(Launch(es, S))
         /\ Live(Launch(es, S)) = Live(es)
         /\ \A e \in Live(es) : /\ Launch(es, S)[e].hash = es[e].hash
                                /\ Launch(es, S)[e].round = es[e].round
                                /\ Launch(es, S)[e].shares = es[e].shares
                                /\ Launch(es, S)[e].bad = es[e].bad
                                /\ Launch(es, S)[e].asm = es[e].asm
<1>1. \A e \in EvId \ S : Launch(es, S)[e] = es[e]
  BY DEF Launch
<1>2. \A e \in S : /\ es[e] \in roundSignatureEvidence
                   /\ Launch(es, S)[e] = [es[e] EXCEPT !.launched = TRUE]
  BY DEF Launch, HeapOK, Live
<1>3. \A r \in roundSignatureEvidence :
        LET l == [r EXCEPT !.launched = TRUE]
        IN /\ l \in roundSignatureEvidence
           /\ l.hash = r.hash /\ l.round = r.round
           /\ l.shares = r.shares /\ l.bad = r.bad /\ l.asm = r.asm
  BY DEF roundSignatureEvidence
<1>4. \A e \in Live(es) : /\ Launch(es, S)[e] \in roundSignatureEvidence
                          /\ Launch(es, S)[e].hash = es[e].hash
                          /\ Launch(es, S)[e].round = es[e].round
                          /\ Launch(es, S)[e].shares = es[e].shares
                          /\ Launch(es, S)[e].bad = es[e].bad
                          /\ Launch(es, S)[e].asm = es[e].asm
  <2> SUFFICES ASSUME NEW e \in Live(es)
               PROVE  /\ Launch(es, S)[e] \in roundSignatureEvidence
                      /\ Launch(es, S)[e].hash = es[e].hash
                      /\ Launch(es, S)[e].round = es[e].round
                      /\ Launch(es, S)[e].shares = es[e].shares
                      /\ Launch(es, S)[e].bad = es[e].bad
                      /\ Launch(es, S)[e].asm = es[e].asm
    OBVIOUS
  <2>1. es[e] \in roundSignatureEvidence
    BY DEF HeapOK
  <2>2. CASE e \in S
    BY <1>2, <1>3, <2>2
  <2>3. CASE e \notin S
    <3>1. Launch(es, S)[e] = es[e]
      BY <1>1, <2>3 DEF Live
    <3> QED
      BY <2>1, <3>1
  <2> QED
    BY <2>2, <2>3
<1>5. \A e \in EvId \ Live(es) : Launch(es, S)[e] = Free
  BY <1>1 DEF Live
<1>6. Live(Launch(es, S)) = Live(es)
  BY <1>4, <1>5, RecordsAreNotFree DEF Live
<1>7. Launch(es, S) \in [EvId -> roundSignatureEvidence \cup {Free}]
  <2>1. Launch(es, S) = [e \in EvId |-> Launch(es, S)[e]]
    BY DEF Launch
  <2>2. \A e \in EvId : Launch(es, S)[e] \in roundSignatureEvidence \cup {Free}
    BY <1>4, <1>5
  <2> HIDE DEF Launch
  <2> QED
    BY <2>1, <2>2
<1>8. \A e \in Live(es) : es[e].bad \subseteq es[e].shares /\ (es[e].asm = "add" => es[e].bad = {})
  BY DEF HeapOK
<1>9. HeapOK(Launch(es, S))
  BY <1>4, <1>6, <1>7, <1>8 DEF HeapOK
<1> QED
  BY <1>4, <1>6, <1>9

-----------------------------------------------------------------------------
(* What the two places that write the store do to it.                      *)

(* The slots refer to live snapshots. *)
SlotsLive(es, p, r) == {p, r} \ {None} \subseteq Live(es)

(* A snapshot keeps the header and the shares it was taken with. *)
SameShares(es, fs, e) ==
  /\ fs[e].hash = es[e].hash /\ fs[e].round = es[e].round
  /\ fs[e].shares = es[e].shares /\ fs[e].bad = es[e].bad

(* A goroutine is to run, or runs, on the snapshot. *)
Busy(r) == r.launched \/ r.asm # "idle"

(* What a capture leaves: well formed slots, every snapshot an old one with *)
(* its shares or the new one, goroutines started on a quorum only.          *)
Captured(cr, hs, shares, bad) ==
  /\ HeapOK(evs')
  /\ SlotsLive(evs', previous', retained')
  /\ retained' = IF Promotes(previous) THEN previous ELSE retained
  /\ \A e \in ({previous, retained} \cap {previous', retained'}) \ {None} :
       SameShares(evs, evs', e)
  /\ \A e \in Live(evs') :
       \/ e \in Live(evs) /\ SameShares(evs, evs', e)
       \/ /\ e \notin Live(evs) /\ evs'[e].hash \in hs /\ evs'[e].round = cr
          /\ evs'[e].shares = shares /\ evs'[e].bad = bad
  /\ \A e \in Live(evs') :
       Busy(evs'[e]) => \/ getCount(evs', e) >= Threshold
                        \/ e \in Live(evs) /\ Busy(evs[e])
  /\ (\E h \in hs : HasEvidence(h, shares)) => previous' # None /\ previous' \notin Live(evs)

LEMMA CaptureKeeps ==
  ASSUME HeapOK(evs), SlotsLive(evs, previous, retained),
         NEW cr \in Nat, NEW hs \in SUBSET Hash,
         NEW shares \in SUBSET Group, NEW bad \in SUBSET shares,
         captureSignatureEvidence(cr, hs, shares, bad)
  PROVE  Captured(cr, hs, shares, bad)
<1> DEFINE new  == \E h \in hs : HasEvidence(h, shares)
           id   == IF new THEN Min(FreeIds) ELSE None
           ret  == IF Promotes(previous) THEN previous ELSE retained
           rec  == buildSignatureEvidence(cr, CHOOSE h \in hs : TRUE, shares, bad)
           held == IF new THEN [evs EXCEPT ![id] = rec] ELSE evs
           S    == GetAssemblyCandidate(held, id, ret)
           out  == Launch(held, S)
<1>1. /\ new => FreeIds # {}
      /\ previous' = id
      /\ retained' = ret
      /\ evs' = Collect(out, id, ret)
  BY DEF captureSignatureEvidence
<1>2. evs \in [EvId -> roundSignatureEvidence \cup {Free}]
  BY DEF HeapOK
<1>3. new => id \in EvId /\ evs[id] = Free
  BY <1>1, FreePlace DEF FreeIds
<1>4. new => /\ rec \in roundSignatureEvidence
             /\ rec.hash \in hs /\ rec.round = cr /\ rec.shares = shares /\ rec.bad = bad
             /\ rec.asm = "idle" /\ ~rec.launched
  <2> SUFFICES ASSUME new
               PROVE  /\ rec \in roundSignatureEvidence
                      /\ rec.hash \in hs /\ rec.round = cr /\ rec.shares = shares /\ rec.bad = bad
                      /\ rec.asm = "idle" /\ ~rec.launched
    OBVIOUS
  <2>1. (CHOOSE h \in hs : TRUE) \in hs
    OBVIOUS
  <2> QED
    BY <2>1 DEF buildSignatureEvidence, roundSignatureEvidence
<1> HIDE DEF rec
<1>5. /\ HeapOK(held)
      /\ \A e \in Live(evs) : e \in Live(held) /\ held[e] = evs[e]
      /\ \A e \in Live(held) : e \notin Live(evs) => new /\ held[e] = rec
  <2>1. CASE ~new
    <3>1. held = evs
      BY <2>1
    <3> QED
      BY <3>1
  <2>2. CASE new
    <3>1. held = [evs EXCEPT ![id] = rec]
      BY <2>2
    <3>2. held \in [EvId -> roundSignatureEvidence \cup {Free}]
      BY <1>2, <1>4, <2>2, <3>1
    <3>3. held[id] = rec /\ id \in EvId
      BY <1>2, <1>3, <2>2, <3>1
    <3>4. \A e \in EvId : e # id => held[e] = evs[e]
      BY <1>2, <3>1
    <3>5. \A e \in Live(evs) : e # id
      BY <1>3, <2>2 DEF Live
    <3>6. \A e \in Live(evs) : e \in Live(held) /\ held[e] = evs[e]
      BY <3>4, <3>5 DEF Live
    <3>7. \A e \in Live(held) : e = id \/ e \in Live(evs)
      BY <3>4 DEF Live
    <3> HIDE DEF held, id, new
    <3> QED
      BY <1>4, <2>2, <3>2, <3>3, <3>6, <3>7 DEF HeapOK
  <2> QED
    BY <2>1, <2>2
<1>6. {id, ret} \ {None} \subseteq Live(held)
  <2>1. id # None => id \in Live(held)
    <3>1. id # None => new
      OBVIOUS
    <3>2. new => held[id] = rec /\ id \in EvId
      BY <1>2, <1>3
    <3>3. new => rec # Free
      BY <1>4, RecordsAreNotFree
    <3> HIDE DEF id, held, new
    <3> QED
      BY <3>1, <3>2, <3>3 DEF Live
  <2>2. ret \in {previous, retained}
    OBVIOUS
  <2> HIDE DEF held, ret, id
  <2> QED
    BY <1>5, <2>1, <2>2 DEF SlotsLive
<1> HIDE DEF held, id, ret, new
<1>7. S \in SUBSET Live(held) /\ \A e \in S : getCount(held, e) >= Threshold
  BY <1>6 DEF GetAssemblyCandidate, IsCandidate
<1> HIDE DEF S
<1>8. /\ HeapOK(out)
      /\ Live(out) = Live(held)
      /\ \A e \in Live(held) : SameShares(held, out, e)
  BY <1>5, <1>7, LaunchKeeps DEF SameShares
<1>8a. \A e \in Live(held) \ S : out[e] = held[e]
  BY DEF Launch, Live
<1> HIDE DEF out
<1>9. /\ HeapOK(evs')
      /\ \A e \in EvId : evs'[e] \in {out[e], Free}
      /\ \A e \in Live(out) \cap {id, ret} : evs'[e] = out[e]
  BY <1>1, <1>8, CollectKeeps
<1>10. SlotsLive(evs', previous', retained')
  BY <1>1, <1>6, <1>8, <1>9 DEF SlotsLive, Live
<1>11. ASSUME NEW e \in ({previous, retained} \cap {previous', retained'}) \ {None}
       PROVE  SameShares(evs, evs', e)
  <2>1. e \in Live(evs) /\ e \in Live(held) /\ held[e] = evs[e]
    BY <1>5 DEF SlotsLive
  <2>2. evs'[e] = out[e] /\ SameShares(held, out, e)
    BY <1>1, <1>8, <1>9, <2>1
  <2> QED
    BY <2>1, <2>2 DEF SameShares
<1>12. \A e \in Live(evs') : e \in Live(held) /\ evs'[e] = out[e] /\ SameShares(held, evs', e)
  BY <1>8, <1>9 DEF Live, SameShares
<1>13. ASSUME NEW e \in Live(evs')
       PROVE  \/ e \in Live(evs) /\ SameShares(evs, evs', e)
              \/ /\ e \notin Live(evs) /\ evs'[e].hash \in hs /\ evs'[e].round = cr
                 /\ evs'[e].shares = shares /\ evs'[e].bad = bad
  BY <1>4, <1>5, <1>12 DEF SameShares
<1>14. ASSUME NEW e \in Live(evs'), Busy(evs'[e])
       PROVE  \/ getCount(evs', e) >= Threshold
              \/ e \in Live(evs) /\ Busy(evs[e])
  <2>1. CASE e \in S
    BY <1>7, <1>12, <2>1 DEF getCount, SameShares
  <2>2. CASE e \notin S
    <3>1. evs'[e] = held[e]
      BY <1>12, <1>8a, <2>2
    <3> QED
      BY <1>4, <1>5, <1>12, <1>14, <3>1 DEF Busy
  <2> QED
    BY <2>1, <2>2
<1>15. new => previous' # None /\ previous' \notin Live(evs)
  BY <1>1, <1>3 DEF id, Live, EvId, None
<1> QED
  BY <1>1, <1>9, <1>10, <1>11, <1>13, <1>14, <1>15 DEF ret, new, Captured

(* The end of an attempt clears the running flag and empties at most the   *)
(* retained slot, and that only for the nonce of the attempt.              *)
LEMMA EndAssemblyKeeps ==
  ASSUME NEW es, HeapOK(es), SlotsLive(es, previous, retained),
         NEW e \in Live(es), NEW drop \in BOOLEAN, EndAssembly(es, e, drop)
  PROVE  /\ HeapOK(evs')
         /\ previous' = previous
         /\ retained' \in {retained, None}
         /\ SlotsLive(evs', previous', retained')
         /\ \A s \in {previous', retained'} \ {None} : SameShares(es, evs', s)
         /\ retained' # retained => drop /\ nonce(es, retained) = nonce(es, e)
         /\ evs'[e].asm \in {"free", "idle"}
<1> DEFINE done == [es EXCEPT ![e].asm = "idle"]
           ret  == IF drop THEN DropRetained(es, nonce(es, e)) ELSE retained
<1>1. /\ retained' = ret
      /\ evs' = Collect(done, previous, ret)
      /\ previous' = previous
  BY DEF EndAssembly
<1>2. /\ ret \in {retained, None}
      /\ ret # retained => drop /\ nonce(es, retained) = nonce(es, e)
  BY DEF DropRetained
<1>3. /\ es \in [EvId -> roundSignatureEvidence \cup {Free}]
      /\ e \in EvId
      /\ es[e] \in roundSignatureEvidence
  BY DEF HeapOK, Live
<1>4. /\ done[e] \in roundSignatureEvidence
      /\ done[e].asm = "idle"
      /\ SameShares(es, done, e)
  <2>1. done[e] = [es[e] EXCEPT !.asm = "idle"]
    BY <1>3
  <2>2. \A r \in roundSignatureEvidence :
          LET l == [r EXCEPT !.asm = "idle"]
          IN /\ l \in roundSignatureEvidence /\ l.asm = "idle"
             /\ l.hash = r.hash /\ l.round = r.round /\ l.shares = r.shares /\ l.bad = r.bad
    BY DEF roundSignatureEvidence
  <2> HIDE DEF done
  <2> QED
    BY <1>3, <2>1, <2>2 DEF SameShares
<1>5. \A f \in EvId : f # e => done[f] = es[f]
  BY <1>3
<1>6. done \in [EvId -> roundSignatureEvidence \cup {Free}]
  <2>1. done = [f \in EvId |-> done[f]]
    BY <1>3
  <2> HIDE DEF done
  <2> QED
    BY <1>3, <1>4, <1>5, <2>1
<1> HIDE DEF done, ret
<1>7. Live(done) = Live(es)
  BY <1>3, <1>4, <1>5, RecordsAreNotFree DEF Live
<1>8. HeapOK(done) /\ \A f \in Live(es) : SameShares(es, done, f)
  <2>1. \A f \in Live(es) : SameShares(es, done, f)
    BY <1>4, <1>5 DEF SameShares, Live
  <2> QED
    BY <1>4, <1>5, <1>6, <1>7, <2>1 DEF HeapOK, SameShares, Live
<1>9. /\ HeapOK(evs')
      /\ \A f \in Live(done) \cap {previous, ret} : evs'[f] = done[f]
      /\ \A f \in EvId : evs'[f] \in {done[f], Free}
  BY <1>1, <1>8, CollectKeeps
<1>10. {previous', retained'} \ {None} \subseteq Live(es)
  BY <1>1, <1>2 DEF SlotsLive
<1>11. SlotsLive(evs', previous', retained')
  BY <1>1, <1>7, <1>9, <1>10 DEF SlotsLive, Live
<1>12. \A s \in {previous', retained'} \ {None} : SameShares(es, evs', s)
  BY <1>1, <1>7, <1>8, <1>9, <1>10 DEF SameShares
<1>13. evs'[e].asm \in {"free", "idle"}
  BY <1>3, <1>4, <1>9 DEF Free
<1> QED
  BY <1>1, <1>2, <1>9, <1>11, <1>12, <1>13

-----------------------------------------------------------------------------
(* The inductive invariant and what a step must respect.                   *)

(* AssembledSharesValid needs HeapOK: a snapshot whose aggregate verified   *)
(* keeps no invalid share until its proof is added or refused.              *)
EvidenceInv == TypeOK /\ HeapOK(evs) /\ AssembledSharesValid

(* One step of QuorumEvidenceKept. *)
QuorumKept ==
  \A n \in Nonces :
    ValidQuorumFor(n) => \/ ValidQuorumFor(n)'
                         \/ isNonceSettled(n)'
                         \/ retained' \notin {None, retained}
                         \/ DemotedAt(n)

(* One step of AssembledOnFreeNonce. *)
AddsOnFree == \A a \in assembled' \ assembled : ~isNonceSettled(NonceOf[a.hash])

ValidShares(es, e) == es[e].shares \ es[e].bad

(* The previous slot keeps its snapshot with its valid shares: only Capture *)
(* replaces it.                                                             *)
PreviousKept ==
  /\ previous' = previous
  /\ previous # None => /\ evs'[previous].hash = evs[previous].hash
                        /\ evs'[previous].round = evs[previous].round
                        /\ ValidShares(evs', previous) = ValidShares(evs, previous)

LEMMA SlotsAreLive == EvidenceInv => SlotsLive(evs, previous, retained)
BY DEF EvidenceInv, TypeOK, SlotsLive, Live

(* The new state satisfies the invariant when its parts do. *)
LEMMA InvAfter ==
  ASSUME index' \in Nat, proofs' \subseteq Hash,
         HeapOK(evs'), SlotsLive(evs', previous', retained'),
         assembled' \subseteq [hash : Hash, signers : Nat, bad : SUBSET Group],
         \A a \in assembled' : a.bad = {}
  PROVE  EvidenceInv'
<1>1. /\ {previous', retained'} \subseteq EvId \cup {None}
      /\ \A e \in {previous', retained'} \ {None} : evs'[e] # Free
  BY DEF SlotsLive, Live
<1>2. /\ evs' \in [EvId -> roundSignatureEvidence \cup {Free}]
      /\ \A e \in EvId : evs'[e] # Free => evs'[e].bad \subseteq evs'[e].shares
  BY DEF HeapOK, Live
<1>3. HeapOK(evs)'
  BY DEF HeapOK, Live
<1> QED
  BY <1>1, <1>2, <1>3 DEF EvidenceInv, TypeOK, AssembledSharesValid

(* Evidence is kept by a step that leaves the previous slot alone, and     *)
(* empties the retained one only when its nonce is settled or demoted.     *)
LEMMA KeptWhenSlotsStay ==
  ASSUME EvidenceInv, previous' = previous, retained' \in {retained, None},
         \A s \in {previous', retained'} \ {None} :
           evs'[s].hash = evs[s].hash /\ ValidShares(evs', s) = ValidShares(evs, s),
         retained' # retained => \/ \E h \in proofs' : NonceOf[h] = nonce(evs, retained)
                                 \/ \E n \in Nonces : n = nonce(evs, retained) /\ DemotedAt(n)
  PROVE  QuorumKept
<1> SUFFICES ASSUME NEW n \in Nonces, ValidQuorumFor(n),
                    ~isNonceSettled(n)', ~DemotedAt(n)
             PROVE  ValidQuorumFor(n)'
  BY DEF QuorumKept
<1>1. PICK e \in {previous, retained} \ {None} :
        nonce(evs, e) = n /\ Cardinality(ValidShares(evs, e)) >= Threshold
  BY DEF ValidQuorumFor, ValidShares
<1>2. e = retained => retained' = retained
  <2> SUFFICES ASSUME e = retained, retained' # retained PROVE FALSE
    OBVIOUS
  <2>1. \A m : m = nonce(evs, retained) => m = n
    BY <1>1
  <2>2. \A h \in proofs' : NonceOf[h] # nonce(evs, retained)
    BY <1>1 DEF isNonceSettled
  <2> QED
    BY <2>1, <2>2
<1>3. e \in {previous', retained'} \ {None}
  BY <1>2
<1>4. nonce(evs', e) = n /\ Cardinality(ValidShares(evs', e)) >= Threshold
  BY <1>1, <1>3 DEF nonce
<1> QED
  BY <1>3, <1>4 DEF ValidQuorumFor, ValidShares, nonce

-----------------------------------------------------------------------------
(* The actions.                                                            *)

LEMMA StartRoundStep ==
  ASSUME EvidenceInv, StartRound
  PROVE  EvidenceInv' /\ QuorumKept /\ AddsOnFree
<1>1. SlotsLive(evs, previous, retained) /\ HeapOK(evs) /\ index \in Nat
  BY SlotsAreLive DEF EvidenceInv, TypeOK
<1>2. PICK hs \in SUBSET Hash, shares \in SUBSET Group, bad \in SUBSET Group :
        bad \subseteq shares /\ captureSignatureEvidence(index, hs, shares, bad)
  BY DEF StartRound
<1>3. /\ HeapOK(evs')
      /\ SlotsLive(evs', previous', retained')
      /\ retained' = IF Promotes(previous) THEN previous ELSE retained
      /\ \A e \in ({previous, retained} \cap {previous', retained'}) \ {None} :
           SameShares(evs, evs', e)
  BY <1>1, <1>2, CaptureKeeps DEF Captured
<1>4. index' \in Nat /\ UNCHANGED <<proofs, assembled>>
  BY <1>1, EvidenceAssumption DEF StartRound
<1>5. EvidenceInv'
  <2>1. /\ proofs' \subseteq Hash
        /\ assembled' \subseteq [hash : Hash, signers : Nat, bad : SUBSET Group]
        /\ \A a \in assembled' : a.bad = {}
    BY <1>4 DEF EvidenceInv, TypeOK, AssembledSharesValid
  <2> QED
    BY <1>3, <1>4, <2>1, InvAfter
<1>6. QuorumKept
  <2> SUFFICES ASSUME NEW n \in Nonces, ValidQuorumFor(n), ~isNonceSettled(n)',
                      retained' \in {None, retained}
               PROVE  ValidQuorumFor(n)'
    BY DEF QuorumKept
  <2>1. PICK e \in {previous, retained} \ {None} :
          nonce(evs, e) = n /\ Cardinality(ValidShares(evs, e)) >= Threshold
    BY DEF ValidQuorumFor, ValidShares
  <2>2. ~isNonceSettled(n)
    BY <1>4 DEF isNonceSettled
  <2>3. e \in Live(evs)
    BY <1>1 DEF SlotsLive
  <2>4. evs[e].shares \in SUBSET Group
    BY <1>1, <2>3 DEF HeapOK, roundSignatureEvidence
  <2>5. getCount(evs, e) >= Threshold
    <3>1. ValidShares(evs, e) \in SUBSET evs[e].shares
      BY DEF ValidShares
    <3>2. /\ Cardinality(evs[e].shares) \in Nat
          /\ Cardinality(ValidShares(evs, e)) \in Nat
          /\ Cardinality(ValidShares(evs, e)) <= Cardinality(evs[e].shares)
      BY <2>4, <3>1, ShareCounts
    <3>3. Threshold \in Int
      <4>1. Cardinality(Group) \in Nat
        BY EvidenceAssumption, FS_CardinalityType
      <4> QED
        BY <4>1, EvidenceAssumption
    <3> QED
      BY <2>1, <3>2, <3>3 DEF getCount
  <2>6. e = previous => Promotes(previous)
    BY <2>1, <2>2, <2>5 DEF Promotes
  <2>7. e = retained'
    BY <1>3, <2>6 DEF Promotes
  <2>8. SameShares(evs, evs', e)
    BY <1>3, <2>7
  <2> QED
    BY <2>1, <2>7, <2>8 DEF ValidQuorumFor, ValidShares, SameShares, nonce
<1>7. AddsOnFree
  BY <1>4 DEF AddsOnFree
<1> QED
  BY <1>5, <1>6, <1>7

LEMMA RefuseStep ==
  ASSUME EvidenceInv, NEW n \in Nonces, RefuseOnEvidence(n)
  PROVE  EvidenceInv' /\ QuorumKept /\ AddsOnFree
<1>1. SlotsLive(evs, previous, retained) /\ HeapOK(evs)
  BY SlotsAreLive DEF EvidenceInv
<1>2. UNCHANGED <<index, proofs, previous, retained, assembled>>
  BY DEF RefuseOnEvidence
<1>3. PICK e \in EvidenceFor(n, index) : evs' = Launch(evs, {e})
  BY DEF RefuseOnEvidence
<1>4. {e} \in SUBSET Live(evs)
  BY <1>1 DEF EvidenceFor, GetPreviousRoundEvidence, GetRetainedQuorumEvidence, SlotsLive
<1>5. /\ HeapOK(evs')
      /\ Live(evs') = Live(evs)
      /\ \A f \in Live(evs) : SameShares(evs, evs', f)
  BY <1>1, <1>3, <1>4, LaunchKeeps DEF SameShares
<1>6. SlotsLive(evs', previous', retained')
  BY <1>1, <1>2, <1>5 DEF SlotsLive
<1>7. EvidenceInv'
  <2>1. /\ index' \in Nat
        /\ proofs' \subseteq Hash
        /\ assembled' \subseteq [hash : Hash, signers : Nat, bad : SUBSET Group]
        /\ \A a \in assembled' : a.bad = {}
    BY <1>2 DEF EvidenceInv, TypeOK, AssembledSharesValid
  <2> QED
    BY <1>5, <1>6, <2>1, InvAfter
<1>8. \A s \in {previous', retained'} \ {None} :
        evs'[s].hash = evs[s].hash /\ ValidShares(evs', s) = ValidShares(evs, s)
  BY <1>1, <1>2, <1>5 DEF SlotsLive, SameShares, ValidShares
<1>9. QuorumKept
  BY <1>2, <1>8, KeptWhenSlotsStay
<1>10. AddsOnFree
  BY <1>2 DEF AddsOnFree
<1> QED
  BY <1>7, <1>9, <1>10

LEMMA AddProofStep ==
  ASSUME EvidenceInv, NEW h \in Hash, AddProof(h)
  PROVE  EvidenceInv' /\ QuorumKept /\ AddsOnFree
<1>1. proofs' = proofs \cup {h} /\ UNCHANGED <<index, evs, previous, retained, assembled>>
  BY DEF AddProof, evidenceVars
<1>2. SlotsLive(evs', previous', retained') /\ HeapOK(evs')
  BY <1>1, SlotsAreLive DEF EvidenceInv
<1>3. EvidenceInv'
  <2>1. /\ index' \in Nat
        /\ proofs' \subseteq Hash
        /\ assembled' \subseteq [hash : Hash, signers : Nat, bad : SUBSET Group]
        /\ \A a \in assembled' : a.bad = {}
    BY <1>1 DEF EvidenceInv, TypeOK, AssembledSharesValid
  <2> QED
    BY <1>2, <2>1, InvAfter
<1>4. QuorumKept
  BY <1>1, KeptWhenSlotsStay
<1>5. AddsOnFree
  BY <1>1 DEF AddsOnFree
<1> QED
  BY <1>3, <1>4, <1>5

(* A snapshot with the header and the shares of r, at the place a. *)
SameRecord(r, x, a) ==
  /\ x.hash = r.hash /\ x.round = r.round
  /\ x.shares = r.shares /\ x.bad = r.bad
  /\ x.asm = a

LEMMA AssembleStartStep ==
  ASSUME EvidenceInv, NEW e \in EvId, NEW eligible \in BOOLEAN, NEW refused \in BOOLEAN,
         AssembleStart(e, eligible, refused)
  PROVE  EvidenceInv' /\ QuorumKept /\ AddsOnFree /\ PreviousKept
<1> DEFINE reached == [evs EXCEPT ![e].launched = FALSE]
           taken   == [reached EXCEPT ![e].next = index + 1]
           going   == [taken EXCEPT ![e].asm = "aggregate"]
<1>1. SlotsLive(evs, previous, retained) /\ HeapOK(evs) /\ index \in Nat
  BY SlotsAreLive DEF EvidenceInv, TypeOK
<1>2. e \in Live(evs) /\ UNCHANGED <<index, proofs, assembled>>
  BY DEF AssembleStart, Live
<1>3. evs \in [EvId -> roundSignatureEvidence \cup {Free}] /\ evs[e] \in roundSignatureEvidence
  BY <1>1, <1>2 DEF HeapOK
<1>4. ASSUME NEW r \in roundSignatureEvidence
      PROVE  /\ [r EXCEPT !.launched = FALSE] \in roundSignatureEvidence
             /\ SameRecord(r, [r EXCEPT !.launched = FALSE], r.asm)
             /\ [r EXCEPT !.next = index + 1] \in roundSignatureEvidence
             /\ SameRecord(r, [r EXCEPT !.next = index + 1], r.asm)
             /\ [r EXCEPT !.asm = "aggregate"] \in roundSignatureEvidence
             /\ SameRecord(r, [r EXCEPT !.asm = "aggregate"], "aggregate")
  <2>1. /\ [r EXCEPT !.launched = FALSE] \in roundSignatureEvidence
        /\ SameRecord(r, [r EXCEPT !.launched = FALSE], r.asm)
    BY DEF roundSignatureEvidence, SameRecord
  <2>2. index + 1 \in Nat
    BY <1>1
  <2>3. \A i \in Nat : /\ [r EXCEPT !.next = i] \in roundSignatureEvidence
                       /\ SameRecord(r, [r EXCEPT !.next = i], r.asm)
    BY DEF roundSignatureEvidence, SameRecord
  <2>4. /\ [r EXCEPT !.asm = "aggregate"] \in roundSignatureEvidence
        /\ SameRecord(r, [r EXCEPT !.asm = "aggregate"], "aggregate")
    BY DEF roundSignatureEvidence, SameRecord
  <2> QED
    BY <2>1, <2>2, <2>3, <2>4
<1>5. ASSUME NEW es \in {reached, taken, going}
      PROVE  HeapOK(es) /\ Live(es) = Live(evs) /\ \A f \in Live(evs) : SameShares(evs, es, f)
  <2>1. /\ reached[e] = [evs[e] EXCEPT !.launched = FALSE]
        /\ taken[e] = [reached[e] EXCEPT !.next = index + 1]
        /\ going[e] = [taken[e] EXCEPT !.asm = "aggregate"]
    BY <1>3
  <2>2. /\ es[e] \in roundSignatureEvidence
        /\ SameShares(evs, es, e)
        /\ es[e].asm \in {evs[e].asm, "aggregate"}
    <3> HIDE DEF reached, taken, going
    <3>1. reached[e] \in roundSignatureEvidence /\ SameRecord(evs[e], reached[e], evs[e].asm)
      BY <1>3, <1>4, <2>1
    <3>2. taken[e] \in roundSignatureEvidence /\ SameRecord(reached[e], taken[e], reached[e].asm)
      BY <1>4, <2>1, <3>1
    <3>3. going[e] \in roundSignatureEvidence /\ SameRecord(taken[e], going[e], "aggregate")
      BY <1>4, <2>1, <3>2
    <3>4. CASE es = reached
      BY <3>1, <3>4 DEF SameRecord, SameShares
    <3>5. CASE es = taken
      BY <3>1, <3>2, <3>5 DEF SameRecord, SameShares
    <3>6. CASE es = going
      BY <3>1, <3>2, <3>3, <3>6 DEF SameRecord, SameShares
    <3> QED
      BY <3>4, <3>5, <3>6
  <2>3. es = [f \in EvId |-> es[f]] /\ \A f \in EvId : f # e => es[f] = evs[f]
    BY <1>3
  <2>4. es \in [EvId -> roundSignatureEvidence \cup {Free}]
    BY <1>3, <2>2, <2>3
  <2>5. Live(es) = Live(evs)
    BY <1>2, <2>2, <2>3, RecordsAreNotFree DEF Live
  <2>6. \A f \in Live(evs) : SameShares(evs, es, f)
    BY <2>2, <2>3 DEF SameShares, Live
  <2>7. HeapOK(es)
    BY <1>1, <1>2, <2>2, <2>3, <2>4, <2>5 DEF HeapOK, SameShares, Live
  <2> QED
    BY <2>5, <2>6, <2>7
<1>6. \/ evs' = Collect(reached, previous, retained) /\ UNCHANGED <<previous, retained>>
      \/ EndAssembly(taken, e, isNonceSettled(nonce(evs, e)))
      \/ evs' = going /\ UNCHANGED <<previous, retained>>
  BY DEF AssembleStart
<1> HIDE DEF reached, taken, going
<1>7. /\ HeapOK(evs')
      /\ previous' = previous
      /\ retained' \in {retained, None}
      /\ SlotsLive(evs', previous', retained')
      /\ \A s \in {previous', retained'} \ {None} : SameShares(evs, evs', s)
      /\ retained' # retained => isNonceSettled(nonce(evs, retained))
  <2>1. CASE evs' = Collect(reached, previous, retained) /\ UNCHANGED <<previous, retained>>
    <3>1. /\ HeapOK(evs')
          /\ \A f \in Live(evs) \cap {previous, retained} : evs'[f] = reached[f]
      BY <1>5, <2>1, CollectKeeps
    <3>2. SlotsLive(evs', previous', retained')
      BY <1>1, <1>5, <2>1, <3>1 DEF SlotsLive, Live
    <3> QED
      BY <1>1, <1>5, <2>1, <3>1, <3>2 DEF SlotsLive, SameShares
  <2>2. CASE EndAssembly(taken, e, isNonceSettled(nonce(evs, e)))
    <3>1. isNonceSettled(nonce(evs, e)) \in BOOLEAN
      BY DEF isNonceSettled
    <3>2. HeapOK(taken) /\ SlotsLive(taken, previous, retained) /\ e \in Live(taken)
      BY <1>1, <1>2, <1>5 DEF SlotsLive
    <3>3. /\ HeapOK(evs')
          /\ previous' = previous
          /\ retained' \in {retained, None}
          /\ SlotsLive(evs', previous', retained')
          /\ \A s \in {previous', retained'} \ {None} : SameShares(taken, evs', s)
          /\ retained' # retained => /\ isNonceSettled(nonce(evs, e))
                                     /\ nonce(taken, retained) = nonce(taken, e)
      BY <2>2, <3>1, <3>2, EndAssemblyKeeps
    <3>4. \A s \in Live(evs) : nonce(taken, s) = nonce(evs, s)
      BY <1>5 DEF nonce, SameShares
    <3>5. retained' # retained => retained \in Live(evs)
      BY <1>1, <3>3 DEF SlotsLive
    <3>6. {previous', retained'} \ {None} \subseteq Live(evs)
      BY <1>1, <3>3 DEF SlotsLive
    <3>7. \A s \in {previous', retained'} \ {None} : SameShares(evs, evs', s)
      BY <1>5, <3>3, <3>6 DEF SameShares
    <3>8. retained' # retained => isNonceSettled(nonce(evs, retained))
      BY <1>2, <3>3, <3>4, <3>5
    <3> QED
      BY <3>3, <3>7, <3>8
  <2>3. CASE evs' = going /\ UNCHANGED <<previous, retained>>
    BY <1>1, <1>5, <2>3 DEF SlotsLive
  <2> QED
    BY <1>6, <2>1, <2>2, <2>3
<1>8. EvidenceInv'
  <2>1. /\ index' \in Nat
        /\ proofs' \subseteq Hash
        /\ assembled' \subseteq [hash : Hash, signers : Nat, bad : SUBSET Group]
        /\ \A a \in assembled' : a.bad = {}
    BY <1>2 DEF EvidenceInv, TypeOK, AssembledSharesValid
  <2> QED
    BY <1>7, <2>1, InvAfter
<1>9. QuorumKept
  <2>1. \A s \in {previous', retained'} \ {None} :
          evs'[s].hash = evs[s].hash /\ ValidShares(evs', s) = ValidShares(evs, s)
    BY <1>7 DEF SameShares, ValidShares
  <2>2. retained' # retained => \E h \in proofs' : NonceOf[h] = nonce(evs, retained)
    BY <1>2, <1>7 DEF isNonceSettled
  <2> QED
    BY <1>7, <2>1, <2>2, KeptWhenSlotsStay
<1>10. AddsOnFree
  BY <1>2 DEF AddsOnFree
<1>11. PreviousKept
  BY <1>7 DEF PreviousKept, SameShares, ValidShares
<1> QED
  BY <1>8, <1>9, <1>10, <1>11

(* Writing one live snapshot with a well-formed record keeps the heap. *)
LEMMA ReplaceKeeps ==
  ASSUME HeapOK(evs), NEW e \in Live(evs), NEW x \in roundSignatureEvidence,
         x.bad \subseteq x.shares, x.asm = "add" => x.bad = {}
  PROVE  LET es == [evs EXCEPT ![e] = x]
         IN /\ HeapOK(es)
            /\ Live(es) = Live(evs)
            /\ es[e] = x
            /\ \A f \in EvId : f # e => es[f] = evs[f]
<1> DEFINE es == [evs EXCEPT ![e] = x]
<1>1. evs \in [EvId -> roundSignatureEvidence \cup {Free}] /\ e \in EvId
  BY DEF HeapOK, Live
<1>2. /\ es \in [EvId -> roundSignatureEvidence \cup {Free}]
      /\ es[e] = x
      /\ \A f \in EvId : f # e => es[f] = evs[f]
  BY <1>1
<1> HIDE DEF es
<1>3. Live(es) = Live(evs)
  BY <1>1, <1>2, RecordsAreNotFree DEF Live
<1>4. HeapOK(es)
  BY <1>1, <1>2, <1>3 DEF HeapOK, Live
<1> QED
  BY <1>2, <1>3, <1>4 DEF es

(* stripInvalidShares removes invalid shares only, and all of them or none. *)
LEMMA StripKeeps ==
  ASSUME NEW ev \in roundSignatureEvidence, ev.bad \subseteq ev.shares,
         NEW left \in stripInvalidShares(ev)
  PROVE  /\ left \in roundSignatureEvidence
         /\ left.bad \subseteq left.shares
         /\ left.hash = ev.hash /\ left.round = ev.round /\ left.asm = ev.asm
         /\ left.shares \ left.bad = ev.shares \ ev.bad
<1>1. left = ev \/ left = [ev EXCEPT !.shares = @ \ ev.bad, !.bad = {}]
  BY DEF stripInvalidShares
<1>2. CASE left = ev
  BY <1>2
<1>3. CASE left = [ev EXCEPT !.shares = @ \ ev.bad, !.bad = {}]
  <2>1. /\ left \in roundSignatureEvidence
        /\ left.hash = ev.hash /\ left.round = ev.round /\ left.asm = ev.asm
        /\ left.shares = ev.shares \ ev.bad /\ left.bad = {}
    BY <1>3 DEF roundSignatureEvidence
  <2> QED
    BY <2>1
<1> QED
  BY <1>1, <1>2, <1>3

LEMMA AssembleAggregateStep ==
  ASSUME EvidenceInv, NEW e \in EvId, AssembleAggregate(e)
  PROVE  EvidenceInv' /\ QuorumKept /\ AddsOnFree /\ PreviousKept
<1>1. SlotsLive(evs, previous, retained) /\ HeapOK(evs)
  BY SlotsAreLive DEF EvidenceInv
<1>2. /\ e \in Live(evs) /\ evs[e].asm = "aggregate"
      /\ UNCHANGED <<index, proofs, assembled>>
  BY DEF AssembleAggregate, Live
<1>3. /\ evs \in [EvId -> roundSignatureEvidence \cup {Free}]
      /\ evs[e] \in roundSignatureEvidence
      /\ evs[e].bad \subseteq evs[e].shares
  BY <1>1, <1>2 DEF HeapOK
<1>4. ASSUME NEW x \in roundSignatureEvidence, x.bad = {},
             x.hash = evs[e].hash, x.round = evs[e].round,
             x.shares \ x.bad = evs[e].shares \ evs[e].bad,
             evs' = [evs EXCEPT ![e] = [x EXCEPT !.asm = "add"]],
             UNCHANGED <<previous, retained>>
      PROVE  /\ HeapOK(evs')
             /\ SlotsLive(evs', previous', retained')
             /\ QuorumKept /\ PreviousKept
  <2> DEFINE y == [x EXCEPT !.asm = "add"]
  <2>1. /\ y \in roundSignatureEvidence
        /\ y.hash = x.hash /\ y.round = x.round /\ y.shares = x.shares /\ y.bad = x.bad
    BY DEF roundSignatureEvidence
  <2> HIDE DEF y
  <2>2. /\ HeapOK(evs')
        /\ Live(evs') = Live(evs)
        /\ evs'[e] = y
        /\ \A f \in EvId : f # e => evs'[f] = evs[f]
    <3>1. evs' = [evs EXCEPT ![e] = y]
      BY <1>4 DEF y
    <3>2. y.bad \subseteq y.shares /\ (y.asm = "add" => y.bad = {})
      BY <1>4, <2>1
    <3> DEFINE es == [evs EXCEPT ![e] = y]
    <3>3. /\ HeapOK(es)
          /\ Live(es) = Live(evs)
          /\ es[e] = y
          /\ \A f \in EvId : f # e => es[f] = evs[f]
      BY <1>1, <1>2, <2>1, <3>2, ReplaceKeeps
    <3> HIDE DEF es
    <3>4. evs' = es
      BY <3>1 DEF es
    <3> QED
      BY <3>3, <3>4
  <2>3. SlotsLive(evs', previous', retained')
    BY <1>1, <1>4, <2>2 DEF SlotsLive
  <2>4. \A s \in EvId : /\ evs'[s].hash = evs[s].hash /\ evs'[s].round = evs[s].round
                        /\ ValidShares(evs', s) = ValidShares(evs, s)
    BY <1>4, <2>1, <2>2 DEF ValidShares
  <2>5. \A s \in {previous', retained'} \ {None} :
          /\ evs'[s].hash = evs[s].hash /\ evs'[s].round = evs[s].round
          /\ ValidShares(evs', s) = ValidShares(evs, s)
    BY <2>3, <2>4 DEF SlotsLive, Live
  <2>6. QuorumKept
    BY <1>4, <2>5, KeptWhenSlotsStay
  <2> QED
    BY <1>4, <2>2, <2>3, <2>5, <2>6 DEF PreviousKept
<1>5. ASSUME NEW left \in stripInvalidShares(evs[e]),
             EndAssembly([evs EXCEPT ![e] = left], e, getCount([evs EXCEPT ![e] = left], e) < Threshold)
      PROVE  /\ HeapOK(evs')
             /\ SlotsLive(evs', previous', retained')
             /\ QuorumKept /\ PreviousKept
  <2> DEFINE es == [evs EXCEPT ![e] = left]
             below == getCount(es, e) < Threshold
  <2>1. /\ left \in roundSignatureEvidence
        /\ left.bad \subseteq left.shares
        /\ left.hash = evs[e].hash /\ left.round = evs[e].round /\ left.asm = "aggregate"
        /\ left.shares \ left.bad = evs[e].shares \ evs[e].bad
    BY <1>2, <1>3, StripKeeps
  <2>2. /\ HeapOK(es)
        /\ Live(es) = Live(evs)
        /\ es[e] = left
        /\ \A f \in EvId : f # e => es[f] = evs[f]
    BY <1>1, <1>2, <2>1, ReplaceKeeps
  <2>3. below \in BOOLEAN /\ EndAssembly(es, e, below)
    BY <1>5
  <2> HIDE DEF es
  <2>4. SlotsLive(es, previous, retained)
    BY <1>1, <2>2 DEF SlotsLive
  <2>5. e \in Live(es)
    BY <1>2, <2>2
  <2>6. /\ HeapOK(evs')
        /\ previous' = previous
        /\ retained' \in {retained, None}
        /\ SlotsLive(evs', previous', retained')
        /\ \A s \in {previous', retained'} \ {None} : SameShares(es, evs', s)
        /\ retained' # retained => below /\ nonce(es, retained) = nonce(es, e)
        /\ evs'[e].asm \in {"free", "idle"}
    <3> HIDE DEF below
    <3> QED
      BY <2>2, <2>3, <2>4, <2>5, EndAssemblyKeeps
  <2>7. \A s \in EvId : /\ es[s].hash = evs[s].hash /\ es[s].round = evs[s].round
                        /\ ValidShares(es, s) = ValidShares(evs, s)
    BY <2>1, <2>2 DEF ValidShares
  <2>8. \A s \in {previous', retained'} \ {None} :
          /\ evs'[s].hash = evs[s].hash /\ evs'[s].round = evs[s].round
          /\ ValidShares(evs', s) = ValidShares(evs, s)
    BY <2>6, <2>7 DEF SlotsLive, Live, SameShares, ValidShares
  <2>9. retained' # retained => \E n \in Nonces : n = nonce(evs, retained) /\ DemotedAt(n)
    <3> SUFFICES ASSUME retained' # retained
                 PROVE  nonce(evs, retained) \in Nonces /\ DemotedAt(nonce(evs, retained))
      OBVIOUS
    <3>1. retained \in Live(evs) /\ retained \in EvId
      BY <1>1, <2>6 DEF SlotsLive, Live
    <3>2. nonce(evs, e) = nonce(evs, retained)
      BY <2>6, <2>7, <3>1 DEF nonce
    <3>3. nonce(evs, e) \in Nonces
      BY <1>3 DEF nonce, Nonces, roundSignatureEvidence
    <3>4. Cardinality(evs[e].shares \ evs[e].bad) < Threshold
      <4>1. Cardinality(left.shares) < Threshold
        BY <2>2, <2>6 DEF getCount
      <4>2. left.shares \in SUBSET Group
        BY <2>1 DEF roundSignatureEvidence
      <4>3. /\ Cardinality(left.shares) \in Nat
            /\ Cardinality(left.shares \ left.bad) \in Nat
            /\ Cardinality(left.shares \ left.bad) <= Cardinality(left.shares)
        BY <4>2, ShareCounts
      <4>4. Threshold \in Int
        <5>1. Cardinality(Group) \in Nat
          BY EvidenceAssumption, FS_CardinalityType
        <5> QED
          BY <5>1, EvidenceAssumption
      <4> QED
        BY <2>1, <4>1, <4>3, <4>4
    <3>5. DemotedAt(nonce(evs, retained))
      <4>1. evs[e] # Free
        BY <1>2 DEF Live
      <4> QED
        BY <1>2, <2>6, <3>2, <3>4, <4>1 DEF DemotedAt
    <3> QED
      BY <3>2, <3>3, <3>5
  <2>10. QuorumKept
    BY <2>6, <2>8, <2>9, KeptWhenSlotsStay
  <2> QED
    BY <2>6, <2>8, <2>10 DEF PreviousKept
<1>6. /\ HeapOK(evs')
      /\ SlotsLive(evs', previous', retained')
      /\ QuorumKept /\ PreviousKept
  <2>1. CASE /\ aggregateAndVerifyEvidence(evs[e])
             /\ evs' = [evs EXCEPT ![e].asm = "add"]
             /\ UNCHANGED <<previous, retained>>
    <3>1. evs' = [evs EXCEPT ![e] = [evs[e] EXCEPT !.asm = "add"]]
      BY <1>3, <2>1
    <3>2. evs[e].bad = {}
      BY <2>1 DEF aggregateAndVerifyEvidence
    <3> QED
      BY <1>3, <1>4, <2>1, <3>1, <3>2
  <2>2. CASE \E left \in stripInvalidShares(evs[e]) :
               /\ aggregateAndVerifyEvidence(left)
               /\ evs' = [[evs EXCEPT ![e] = left] EXCEPT ![e].asm = "add"]
               /\ UNCHANGED <<previous, retained>>
    <3>1. PICK left \in stripInvalidShares(evs[e]) :
            /\ aggregateAndVerifyEvidence(left)
            /\ evs' = [[evs EXCEPT ![e] = left] EXCEPT ![e].asm = "add"]
            /\ UNCHANGED <<previous, retained>>
      BY <2>2
    <3>2. left.bad = {}
      BY <3>1 DEF aggregateAndVerifyEvidence
    <3>3. evs' = [evs EXCEPT ![e] = [left EXCEPT !.asm = "add"]]
      BY <1>3, <3>1
    <3>4. /\ left \in roundSignatureEvidence
          /\ left.hash = evs[e].hash /\ left.round = evs[e].round
          /\ left.shares \ left.bad = evs[e].shares \ evs[e].bad
      BY <1>3, StripKeeps
    <3> QED
      BY <1>4, <3>1, <3>2, <3>3, <3>4
  <2>3. CASE \E left \in stripInvalidShares(evs[e]) :
               EndAssembly([evs EXCEPT ![e] = left], e,
                           getCount([evs EXCEPT ![e] = left], e) < Threshold)
    BY <1>5, <2>3
  <2> QED
    BY <2>1, <2>2, <2>3 DEF AssembleAggregate
<1>7. EvidenceInv'
  <2>1. /\ index' \in Nat
        /\ proofs' \subseteq Hash
        /\ assembled' \subseteq [hash : Hash, signers : Nat, bad : SUBSET Group]
        /\ \A a \in assembled' : a.bad = {}
    BY <1>2 DEF EvidenceInv, TypeOK, AssembledSharesValid
  <2> QED
    BY <1>6, <2>1, InvAfter
<1>8. AddsOnFree
  BY <1>2 DEF AddsOnFree
<1> QED
  BY <1>6, <1>7, <1>8

LEMMA AssembleAddStep ==
  ASSUME EvidenceInv, NEW e \in EvId, NEW refused \in BOOLEAN, AssembleAdd(e, refused)
  PROVE  EvidenceInv' /\ QuorumKept /\ AddsOnFree /\ PreviousKept
<1>1. SlotsLive(evs, previous, retained) /\ HeapOK(evs) /\ index' \in Nat
  BY SlotsAreLive DEF EvidenceInv, TypeOK, AssembleAdd
<1>2. e \in Live(evs) /\ evs[e].asm = "add" /\ EndAssembly(evs, e, ~refused)
  BY DEF AssembleAdd, Live
<1>3. evs[e] \in roundSignatureEvidence /\ evs[e].bad = {}
  BY <1>1, <1>2 DEF HeapOK
<1>4. /\ HeapOK(evs')
      /\ previous' = previous
      /\ retained' \in {retained, None}
      /\ SlotsLive(evs', previous', retained')
      /\ \A s \in {previous', retained'} \ {None} : SameShares(evs, evs', s)
      /\ retained' # retained => ~refused /\ nonce(evs, retained) = nonce(evs, e)
  BY <1>1, <1>2, EndAssemblyKeeps
<1> DEFINE a == [hash |-> evs[e].hash, signers |-> getCount(evs, e), bad |-> evs[e].bad]
<1>5. \/ /\ ~isNonceSettled(NonceOf[evs[e].hash])
         /\ proofs' = proofs \cup {evs[e].hash}
         /\ assembled' = assembled \cup {a}
      \/ /\ refused \/ isNonceSettled(NonceOf[evs[e].hash])
         /\ UNCHANGED <<proofs, assembled>>
  BY DEF AssembleAdd, AddProofIfNoneAtNonce
<1>6. a \in [hash : Hash, signers : Nat, bad : SUBSET Group] /\ a.bad = {} /\ a.hash = evs[e].hash
  <2>1. evs[e].shares \in SUBSET Group /\ evs[e].hash \in Hash
    BY <1>3 DEF roundSignatureEvidence
  <2>2. getCount(evs, e) \in Nat
    BY <2>1, ShareCounts DEF getCount
  <2> QED
    BY <1>3, <2>1, <2>2
<1> HIDE DEF a
<1>7. /\ proofs' \subseteq Hash
      /\ assembled' \subseteq [hash : Hash, signers : Nat, bad : SUBSET Group]
      /\ \A x \in assembled' : x.bad = {}
  <2>1. evs[e].hash \in Hash
    BY <1>3 DEF roundSignatureEvidence
  <2> QED
    BY <1>5, <1>6, <2>1 DEF EvidenceInv, TypeOK, AssembledSharesValid
<1>8. EvidenceInv'
  BY <1>1, <1>4, <1>7, InvAfter
<1>9. QuorumKept
  <2>1. \A s \in {previous', retained'} \ {None} :
          evs'[s].hash = evs[s].hash /\ ValidShares(evs', s) = ValidShares(evs, s)
    BY <1>4 DEF SameShares, ValidShares
  <2>2. ~refused => \E h \in proofs' : NonceOf[h] = nonce(evs, e)
    BY <1>5 DEF isNonceSettled, nonce
  <2>3. retained' # retained => \E h \in proofs' : NonceOf[h] = nonce(evs, retained)
    BY <1>4, <2>2
  <2> QED
    BY <1>4, <2>1, <2>3, KeptWhenSlotsStay
<1>10. AddsOnFree
  <2> SUFFICES ASSUME NEW x \in assembled' \ assembled
               PROVE  ~isNonceSettled(NonceOf[x.hash])
    BY DEF AddsOnFree
  <2>1. x = a /\ ~isNonceSettled(NonceOf[evs[e].hash])
    BY <1>5
  <2> QED
    BY <1>6, <2>1
<1>11. PreviousKept
  BY <1>4 DEF PreviousKept, SameShares, ValidShares
<1> QED
  BY <1>8, <1>9, <1>10, <1>11

(* Every snapshot of fs is one of es with its shares, and has a goroutine  *)
(* only if it had one.                                                     *)
Inherits(es, fs) ==
  \A f \in Live(fs) : /\ f \in Live(es)
                      /\ fs[f].hash = es[f].hash
                      /\ fs[f].shares = es[f].shares /\ fs[f].bad = es[f].bad
                      /\ Busy(fs[f]) => Busy(es[f])

LEMMA CollectInherits ==
  ASSUME NEW es, NEW fs, Inherits(es, fs), NEW p, NEW r
  PROVE  Inherits(es, Collect(fs, p, r))
<1>1. \A f \in EvId : Collect(fs, p, r)[f] \in {fs[f], Free}
  BY DEF Collect
<1>2. \A f \in Live(Collect(fs, p, r)) : f \in Live(fs) /\ Collect(fs, p, r)[f] = fs[f]
  BY <1>1 DEF Live
<1> QED
  BY <1>2 DEF Inherits

(* Writing one busy snapshot without changing its shares. *)
LEMMA ReplaceInherits ==
  ASSUME HeapOK(evs), NEW e \in Live(evs), Busy(evs[e]), NEW fs, NEW x,
         fs = [evs EXCEPT ![e] = x],
         x.hash = evs[e].hash, x.shares = evs[e].shares, x.bad = evs[e].bad
  PROVE  Inherits(evs, fs)
<1>1. evs \in [EvId -> roundSignatureEvidence \cup {Free}] /\ e \in EvId
  BY DEF HeapOK, Live
<1>2. fs[e] = x /\ \A f \in EvId : f # e => fs[f] = evs[f]
  BY <1>1
<1> QED
  BY <1>2 DEF Inherits, Live

(* When no share is invalid, no attempt changes the shares of a snapshot or *)
(* starts another one.                                                      *)
LEMMA AssembleInherits ==
  ASSUME HeapOK(evs), \A e \in Live(evs) : evs[e].bad = {},
         NEW e \in EvId, NEW eligible \in BOOLEAN, NEW refused \in BOOLEAN,
         \/ AssembleStart(e, eligible, refused)
         \/ AssembleAggregate(e)
         \/ AssembleAdd(e, refused)
  PROVE  Inherits(evs, evs')
<1>1. e \in Live(evs) /\ Busy(evs[e])
  <2>1. CASE AssembleStart(e, eligible, refused)
    BY <2>1 DEF AssembleStart, Live, Busy
  <2>2. CASE AssembleAggregate(e)
    BY <2>2 DEF AssembleAggregate, Live, Busy
  <2>3. CASE AssembleAdd(e, refused)
    BY <2>3 DEF AssembleAdd, Live, Busy
  <2> QED
    BY <2>1, <2>2, <2>3
<1>2. /\ evs \in [EvId -> roundSignatureEvidence \cup {Free}]
      /\ evs[e] \in roundSignatureEvidence /\ evs[e].bad = {}
  BY <1>1 DEF HeapOK
<1>3. ASSUME NEW r \in roundSignatureEvidence, NEW a \in {"idle", "aggregate", "add"},
             NEW i \in Nat, NEW l \in BOOLEAN
      PROVE  /\ [r EXCEPT !.asm = a] \in roundSignatureEvidence
             /\ SameRecord(r, [r EXCEPT !.asm = a], a)
             /\ [r EXCEPT !.next = i] \in roundSignatureEvidence
             /\ SameRecord(r, [r EXCEPT !.next = i], r.asm)
             /\ [r EXCEPT !.launched = l] \in roundSignatureEvidence
             /\ SameRecord(r, [r EXCEPT !.launched = l], r.asm)
  <2>1. /\ [r EXCEPT !.asm = a] \in roundSignatureEvidence
        /\ SameRecord(r, [r EXCEPT !.asm = a], a)
    BY DEF roundSignatureEvidence, SameRecord
  <2>2. /\ [r EXCEPT !.next = i] \in roundSignatureEvidence
        /\ SameRecord(r, [r EXCEPT !.next = i], r.asm)
    BY DEF roundSignatureEvidence, SameRecord
  <2>3. /\ [r EXCEPT !.launched = l] \in roundSignatureEvidence
        /\ SameRecord(r, [r EXCEPT !.launched = l], r.asm)
    BY DEF roundSignatureEvidence, SameRecord
  <2> QED
    BY <2>1, <2>2, <2>3
<1>4. ASSUME NEW es, NEW x \in roundSignatureEvidence, es = [evs EXCEPT ![e] = x],
             SameRecord(evs[e], x, x.asm), NEW drop, EndAssembly(es, e, drop)
      PROVE  Inherits(evs, evs')
  <2> DEFINE y == [x EXCEPT !.asm = "idle"]
             done == [es EXCEPT ![e].asm = "idle"]
  <2>1. y.hash = evs[e].hash /\ y.shares = evs[e].shares /\ y.bad = evs[e].bad
    BY <1>3, <1>4, 0 \in Nat, TRUE \in BOOLEAN DEF SameRecord
  <2>2. done = [evs EXCEPT ![e] = y]
    BY <1>1, <1>2, <1>4 DEF Live
  <2> HIDE DEF y, done
  <2>3. Inherits(evs, done)
    BY <1>1, <2>1, <2>2, ReplaceInherits
  <2>4. \E ret : evs' = Collect(done, previous, ret)
    BY <1>4 DEF EndAssembly, done
  <2> QED
    BY <2>3, <2>4, CollectInherits
<1>5. SameRecord(evs[e], evs[e], evs[e].asm) /\ evs = [evs EXCEPT ![e] = evs[e]]
  BY <1>2 DEF SameRecord
<1>6. CASE AssembleStart(e, eligible, refused)
  <2> DEFINE x == [evs[e] EXCEPT !.launched = FALSE]
             y == [x EXCEPT !.next = index + 1]
             z == [y EXCEPT !.asm = "aggregate"]
             reached == [evs EXCEPT ![e].launched = FALSE]
             taken == [reached EXCEPT ![e].next = index + 1]
  <2>2. /\ reached = [evs EXCEPT ![e] = x]
        /\ taken = [evs EXCEPT ![e] = y]
        /\ [taken EXCEPT ![e].asm = "aggregate"] = [evs EXCEPT ![e] = z]
    BY <1>1, <1>2 DEF Live
  <2>3. /\ x.hash = evs[e].hash /\ x.shares = evs[e].shares /\ x.bad = evs[e].bad
        /\ y.hash = evs[e].hash /\ y.shares = evs[e].shares /\ y.bad = evs[e].bad
        /\ z.hash = evs[e].hash /\ z.shares = evs[e].shares /\ z.bad = evs[e].bad
    BY <1>2 DEF roundSignatureEvidence
  <2>4. [y EXCEPT !.asm = "idle"].hash = evs[e].hash /\ [y EXCEPT !.asm = "idle"].shares = evs[e].shares
        /\ [y EXCEPT !.asm = "idle"].bad = evs[e].bad
    BY <1>2 DEF roundSignatureEvidence
  <2>5. [taken EXCEPT ![e].asm = "idle"] = [evs EXCEPT ![e] = [y EXCEPT !.asm = "idle"]]
    BY <1>1, <1>2 DEF Live
  <2>6. \/ evs' = Collect(reached, previous, retained)
        \/ \E ret : evs' = Collect([taken EXCEPT ![e].asm = "idle"], previous, ret)
        \/ evs' = [taken EXCEPT ![e].asm = "aggregate"]
    BY <1>6 DEF AssembleStart, EndAssembly
  <2> HIDE DEF x, y, z, reached, taken
  <2>7. Inherits(evs, reached)
    BY <1>1, <2>2, <2>3, ReplaceInherits
  <2>8. Inherits(evs, [taken EXCEPT ![e].asm = "idle"])
    BY <1>1, <2>4, <2>5, ReplaceInherits
  <2>9. Inherits(evs, [taken EXCEPT ![e].asm = "aggregate"])
    BY <1>1, <2>2, <2>3, ReplaceInherits
  <2> QED
    BY <2>6, <2>7, <2>8, <2>9, CollectInherits
<1>7. CASE AssembleAggregate(e)
  <2>1. ASSUME NEW left \in stripInvalidShares(evs[e])
        PROVE  left \in roundSignatureEvidence /\ SameRecord(evs[e], left, left.asm)
    <3>1. left = evs[e] \/ left = [evs[e] EXCEPT !.shares = @ \ evs[e].bad, !.bad = {}]
      BY DEF stripInvalidShares
    <3>2. CASE left = evs[e]
      BY <1>2, <3>2 DEF SameRecord
    <3>3. CASE left = [evs[e] EXCEPT !.shares = @ \ evs[e].bad, !.bad = {}]
      BY <1>2, <3>3 DEF SameRecord, roundSignatureEvidence
    <3> QED
      BY <3>1, <3>2, <3>3
  <2>2. ASSUME NEW left \in roundSignatureEvidence, SameRecord(evs[e], left, left.asm),
               evs' = [[evs EXCEPT ![e] = left] EXCEPT ![e].asm = "add"]
        PROVE  Inherits(evs, evs')
    <3> DEFINE y == [left EXCEPT !.asm = "add"]
    <3>1. y.hash = evs[e].hash /\ y.shares = evs[e].shares /\ y.bad = evs[e].bad
      BY <2>2 DEF SameRecord, roundSignatureEvidence
    <3>2. evs' = [evs EXCEPT ![e] = y]
      BY <1>1, <1>2, <2>2 DEF Live
    <3> HIDE DEF y
    <3> QED
      BY <1>1, <3>1, <3>2, ReplaceInherits
  <2>3. CASE evs' = [evs EXCEPT ![e].asm = "add"]
    <3>1. evs' = [[evs EXCEPT ![e] = evs[e]] EXCEPT ![e].asm = "add"]
      BY <1>5, <2>3
    <3> QED
      BY <1>2, <1>5, <2>2, <3>1
  <2>4. CASE \E left \in stripInvalidShares(evs[e]) :
               evs' = [[evs EXCEPT ![e] = left] EXCEPT ![e].asm = "add"]
    BY <2>1, <2>2, <2>4
  <2>5. CASE \E left \in stripInvalidShares(evs[e]) : \E drop :
               EndAssembly([evs EXCEPT ![e] = left], e, drop)
    <3>1. PICK left \in stripInvalidShares(evs[e]) : \E drop :
            EndAssembly([evs EXCEPT ![e] = left], e, drop)
      BY <2>5
    <3>2. left \in roundSignatureEvidence /\ SameRecord(evs[e], left, left.asm)
      BY <2>1
    <3> QED
      BY <1>4, <3>1, <3>2
  <2> QED
    BY <1>7, <2>3, <2>4, <2>5 DEF AssembleAggregate
<1>8. CASE AssembleAdd(e, refused)
  <2>1. EndAssembly(evs, e, ~refused)
    BY <1>8 DEF AssembleAdd
  <2> QED
    BY <1>2, <1>4, <1>5, <2>1
<1> QED
  BY <1>6, <1>7, <1>8

(* Every step keeps the invariant and respects both action properties. *)
LEMMA EvidenceStep ==
  ASSUME EvidenceInv, [Next]_vars
  PROVE  EvidenceInv' /\ (UNCHANGED vars \/ (QuorumKept /\ AddsOnFree))
<1>1. CASE StartRound
  BY <1>1, StartRoundStep
<1>2. ASSUME NEW n \in Nonces, RefuseOnEvidence(n)
      PROVE  EvidenceInv' /\ QuorumKept /\ AddsOnFree
  BY <1>2, RefuseStep
<1>3. ASSUME NEW h \in Hash, AddProof(h)
      PROVE  EvidenceInv' /\ QuorumKept /\ AddsOnFree
  BY <1>3, AddProofStep
<1>4. ASSUME NEW e \in EvId, Assemble(e)
      PROVE  EvidenceInv' /\ QuorumKept /\ AddsOnFree
  <2>1. CASE AssembleStart(e, TRUE, FALSE)
    BY <2>1, AssembleStartStep
  <2>2. CASE AssembleAggregate(e)
    BY <2>2, AssembleAggregateStep
  <2>3. CASE AssembleAdd(e, FALSE)
    BY <2>3, AssembleAddStep
  <2> QED
    BY <1>4, <2>1, <2>2, <2>3 DEF Assemble
<1>5. CASE UNCHANGED vars
  <2>1. UNCHANGED <<index, proofs, evs, previous, retained, assembled>>
    BY <1>5 DEF vars, evidenceVars
  <2>2. EvidenceInv'
    <3>1. HeapOK(evs') /\ SlotsLive(evs', previous', retained')
      BY <2>1, SlotsAreLive DEF EvidenceInv
    <3>2. /\ index' \in Nat
          /\ proofs' \subseteq Hash
          /\ assembled' \subseteq [hash : Hash, signers : Nat, bad : SUBSET Group]
          /\ \A a \in assembled' : a.bad = {}
      BY <2>1 DEF EvidenceInv, TypeOK, AssembledSharesValid
    <3> QED
      BY <3>1, <3>2, InvAfter
  <2> QED
    BY <1>5, <2>2
<1> QED
  BY <1>1, <1>2, <1>3, <1>4, <1>5 DEF Next

LEMMA EvidenceInitially == Init => EvidenceInv
<1> SUFFICES ASSUME Init PROVE EvidenceInv
  OBVIOUS
<1>1. /\ index = 1 /\ proofs = {} /\ previous = None /\ retained = None /\ assembled = {}
      /\ evs = [e \in EvId |-> Free]
  BY DEF Init, EvidenceInit
<1>2. HeapOK(evs) /\ Live(evs) = {}
  BY <1>1 DEF HeapOK, Live
<1>3. TypeOK
  BY <1>1 DEF TypeOK
<1> QED
  BY <1>1, <1>2, <1>3 DEF EvidenceInv, AssembledSharesValid

LEMMA EvidenceInvariant == Spec => []EvidenceInv
BY EvidenceInitially, EvidenceStep, PTL DEF Spec

(* The heap of snapshots and the two slots of signatureEvidenceStore stay  *)
(* well formed: a slot never refers to a collected snapshot, whatever      *)
(* goroutines of trySelfAssembleProof run on shared ones.                  *)
THEOREM EvidenceTyped == Spec => []TypeOK
<1>1. EvidenceInv => TypeOK
  BY DEF EvidenceInv
<1> QED
  BY <1>1, EvidenceInvariant, PTL

(* trySelfAssembleProof never puts a proof with an invalid signature share *)
(* in the pool, although stripInvalidShares works on a shared snapshot and *)
(* may be stopped by a failure of the verification itself.                 *)
THEOREM AssembledProofsValid == Spec => []AssembledSharesValid
<1>1. EvidenceInv => AssembledSharesValid
  BY DEF EvidenceInv
<1> QED
  BY <1>1, EvidenceInvariant, PTL

(* trySelfAssembleProof adds its proof only at a nonce that has none at    *)
(* that moment, whatever proofs arrived since its first check.             *)
THEOREM AssemblyNeverCompetes == Spec => AssembledOnFreeNonce
<1>1. ASSUME EvidenceInv, [Next]_vars
      PROVE  [\A a \in assembled' \ assembled : ~isNonceSettled(NonceOf[a.hash])]_vars
  BY <1>1, EvidenceStep DEF AddsOnFree
<1> QED
  BY <1>1, EvidenceInvariant, PTL DEF Spec, AssembledOnFreeNonce

(* Quorum evidence stays in a slot until its nonce has a proof, a later    *)
(* quorum takes the retained slot or an attempt found it below threshold.  *)
THEOREM QuorumEvidenceStays == Spec => QuorumEvidenceKept
<1>1. ASSUME EvidenceInv, [Next]_vars
      PROVE  [QuorumKept]_vars
  BY <1>1, EvidenceStep
<1> QED
  BY <1>1, EvidenceInvariant, PTL DEF Spec, QuorumEvidenceKept, QuorumKept
=============================================================================
