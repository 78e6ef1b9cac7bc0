----------------------------- MODULE ProofsPool -----------------------------
(***************************************************************************)
(* The equivalent-proofs pool of one shard                                 *)
(* (dataRetriever/dataPool/proofsCache).  A header proof certifies one     *)
(* header hash; several hashes may be certified at one nonce, which is     *)
(* equivocation evidence.  Interceptors, the consensus subrounds and the   *)
(* self-assembly routine call the pool concurrently: the existence test of *)
(* AddProof and the insertion are two critical sections, and the           *)
(* subscribers are notified after the cache lock is released.              *)
(*                                                                         *)
(* The caches of different shards share nothing, so one shard is           *)
(* modelled.  The list of hashes at a nonce is a set: it is sorted by      *)
(* (round, hash) wherever its order could matter.                          *)
(***************************************************************************)
EXTENDS Integers, FiniteSets, FiniteSetsExt

CONSTANTS ProofHash,               \* header hashes, naturals so that bytes.Compare orders them
          ProofNonce, ProofRound,  \* the nonce and the round of the header with a hash
          Excluded,                \* hashes the round exclusion handler rejects
          Sig,                     \* different aggregated signatures (bitmaps) for one hash
          Thread,                  \* goroutines that call the pool
          CleanupNonce,            \* nonces CleanupProofsBehindNonce is called with
          MaxProofsPerNonce,       \* maxProofsPerNonce
          CleanupNonceDelta,       \* cleanupNonceDelta
          BucketSize               \* bucketSize

ASSUME PoolAssumption ==
  /\ ProofHash \subseteq Nat
  /\ ProofNonce \in [ProofHash -> Nat]
  /\ ProofRound \in [ProofHash -> Nat]
  /\ Excluded \subseteq ProofHash
  /\ CleanupNonce \subseteq Nat
  /\ MaxProofsPerNonce \in Nat \ {0}
  /\ CleanupNonceDelta \in Nat
  /\ BucketSize \in Nat \ {0}

VARIABLES
  buckets,       \* proofsByNonceBuckets: key -> [maxNonce, proofsByNonce]
  proofsByHash,  \* hash -> signature of the stored proof
  call,          \* thread -> the pool call it is executing
  added,         \* history: hashes stored at each nonce since it was last cleaned
  reports        \* history: <<hash, competing hash>> given to the equivocation subscribers

poolVars == <<buckets, proofsByHash, call, added, reports>>

Nonces == {ProofNonce[h] : h \in ProofHash}

Idle == [pc |-> "idle"]

Calls ==
  [pc : {"add"}, hash : ProofHash, sig : Sig] \cup {Idle}
    \cup [pc : {"notify"}, hash : ProofHash, competing : SUBSET ProofHash]

-----------------------------------------------------------------------------
(* The cache, read under mutProofsCache.                                   *)

getBucketKey(n) == (n \div BucketSize) * BucketSize

(* hashesAt of the bucket of the nonce; empty when the bucket is missing. *)
hashesAt(bs, n) ==
  LET k == getBucketKey(n)
  IN IF k \in DOMAIN bs /\ n \in DOMAIN bs[k].proofsByNonce
       THEN bs[k].proofsByNonce[n] ELSE {}

lessProof(a, b) ==
  IF ProofRound[a] # ProofRound[b] THEN ProofRound[a] < ProofRound[b] ELSE a < b

(* The stored hashes at a nonce; proofs without an entry are skipped. *)
proofsAtNonce(bs, pbh, n) == hashesAt(bs, n) \cap DOMAIN pbh

(* The hash of the canonical proof at a nonce, as a set: empty when there is none. *)
lowestProofAtNonce(bs, pbh, n) ==
  {h \in proofsAtNonce(bs, pbh, n) :
     \A g \in proofsAtNonce(bs, pbh, n) \ {h} : lessProof(h, g)}

hasProofForDifferentHash(n, h) == hashesAt(buckets, n) \ {h} # {}

HasProof(h) == h \in DOMAIN proofsByHash

-----------------------------------------------------------------------------
(* The cache, written under mutProofsCache.                                *)

newProofBucket == [maxNonce |-> 0, proofsByNonce |-> <<>>]

getOrCreateBucket(bs, n) ==
  IF getBucketKey(n) \in DOMAIN bs THEN bs[getBucketKey(n)] ELSE newProofBucket

(* Functions with one point changed or added, with some points dropped. *)
PutAt(f, k, v) == [x \in DOMAIN f \cup {k} |-> IF x = k THEN v ELSE f[x]]
Drop(f, S) == [x \in DOMAIN f \ S |-> f[x]]

MutantInsert(b, n, h) ==
  [b EXCEPT !.proofsByNonce =
     PutAt(@, n, (IF n \in DOMAIN @ THEN @[n] ELSE {}) \cup {h})]

insert(b, n, h) ==
  LET old == IF n \in DOMAIN b.proofsByNonce THEN b.proofsByNonce[n] ELSE {}
  IN IF h \in old
       THEN b
       ELSE [maxNonce      |-> IF n > b.maxNonce THEN n ELSE b.maxNonce,
             proofsByNonce |-> PutAt(b.proofsByNonce, n, old \cup {h})]

recomputeMaxNonce(pbn) == IF DOMAIN pbn = {} THEN 0 ELSE Max(DOMAIN pbn)

remove(b, n, evicted) ==
  LET remaining == b.proofsByNonce[n] \ evicted
  IN IF remaining # {}
       THEN [b EXCEPT !.proofsByNonce[n] = remaining]
       ELSE LET pbn == Drop(b.proofsByNonce, {n})
            IN [maxNonce |-> IF n = b.maxNonce THEN recomputeMaxNonce(pbn) ELSE b.maxNonce,
                proofsByNonce |-> pbn]

MutantEvict(hs) ==
  {h \in hs : Cardinality({g \in hs : lessProof(h, g)}) >= MaxProofsPerNonce}

(* The proofs beyond the MaxProofsPerNonce lowest ones. *)
evictExcessProofsAtNonce(hs) ==
  {h \in hs : Cardinality({g \in hs : lessProof(g, h)}) >= MaxProofsPerNonce}

MutantStoreProof(h, sig) ==
  LET n == ProofNonce[h]
      b == insert(getOrCreateBucket(buckets, n), n, h)
      evicted == evictExcessProofsAtNonce(b.proofsByNonce[n])
  IN /\ buckets' = PutAt(buckets, getBucketKey(n), IF evicted = {} THEN b ELSE remove(b, n, evicted))
     /\ proofsByHash' = PutAt(proofsByHash, h, sig)
     /\ added' = [added EXCEPT ![n] = @ \cup {h}]

(* proofsCache.addProof: insert, overwrite, evict. *)
StoreProof(h, sig) ==
  LET n       == ProofNonce[h]
      b       == insert(getOrCreateBucket(buckets, n), n, h)
      pbh     == PutAt(proofsByHash, h, sig)
      evicted == evictExcessProofsAtNonce(b.proofsByNonce[n] \cap DOMAIN pbh)
  IN /\ buckets' = PutAt(buckets, getBucketKey(n), IF evicted = {} THEN b ELSE remove(b, n, evicted))
     /\ proofsByHash' = Drop(pbh, evicted)
     /\ added' = [added EXCEPT ![n] = @ \cup {h}]

MutantCompetingProofs(h) ==
  IF h \in hashesAt(buckets', ProofNonce[h])
    THEN {} ELSE proofsAtNonce(buckets, proofsByHash, ProofNonce[h]) \ {h}

(* What addProof returns: the competing proofs, only for a newly stored hash. *)
competingProofs(h) ==
  IF h \in hashesAt(buckets, ProofNonce[h])
    THEN {} ELSE proofsAtNonce(buckets, proofsByHash, ProofNonce[h]) \ {h}

-----------------------------------------------------------------------------
(* The pool's operations.                                                  *)

PoolInit ==
  /\ buckets = <<>>
  /\ proofsByHash = <<>>
  /\ call = [t \in Thread |-> Idle]
  /\ added = [n \in Nonces |-> {}]
  /\ reports = {}

(* AddProof up to the existence test, which is a critical section of its own. *)
AddProof(t, h, sig) ==
  /\ call[t] = Idle
  /\ h \notin Excluded
  /\ ~HasProof(h)
  /\ call' = [call EXCEPT ![t] = [pc |-> "add", hash |-> h, sig |-> sig]]
  /\ UNCHANGED <<buckets, proofsByHash, added, reports>>

(* UpsertProof has no existence test. *)
UpsertProof(t, h, sig) ==
  /\ call[t] = Idle
  /\ h \notin Excluded
  /\ call' = [call EXCEPT ![t] = [pc |-> "add", hash |-> h, sig |-> sig]]
  /\ UNCHANGED <<buckets, proofsByHash, added, reports>>

(* The common tail of both, up to the release of the cache lock. *)
addProof(t) ==
  /\ call[t].pc = "add"
  /\ StoreProof(call[t].hash, call[t].sig)
  /\ call' = [call EXCEPT ![t] = [pc |-> "notify", hash |-> call[t].hash,
                                  competing |-> competingProofs(call[t].hash)]]
  /\ UNCHANGED reports

(* callEquivocationSubscribers with the competing proofs, and callAddedProofSubscribers. *)
callSubscribers(t) ==
  /\ call[t].pc = "notify"
  /\ reports' = reports \cup ({call[t].hash} \X call[t].competing)
  /\ call' = [call EXCEPT ![t] = Idle]
  /\ UNCHANGED <<buckets, proofsByHash, added>>

(* AddProofIfNoneAtNonce: test and insertion in one critical section. *)
AddProofIfNoneAtNonce(t, h, sig) ==
  /\ call[t] = Idle
  /\ h \notin Excluded
  /\ lowestProofAtNonce(buckets, proofsByHash, ProofNonce[h]) = {}
  /\ LET n == ProofNonce[h]
     IN /\ buckets' = PutAt(buckets, getBucketKey(n), insert(getOrCreateBucket(buckets, n), n, h))
        /\ proofsByHash' = PutAt(proofsByHash, h, sig)
        /\ added' = [added EXCEPT ![n] = @ \cup {h}]
  /\ call' = [call EXCEPT ![t] = [pc |-> "notify", hash |-> h, competing |-> {}]]
  /\ UNCHANGED reports

(* cleanupProofsBehindNonce drops whole buckets that lie behind the nonce. *)
staleBuckets(nonce) == {k \in DOMAIN buckets : nonce > buckets[k].maxNonce}

CleanupProofsBehindNonce(t, nonce) ==
  /\ call[t] = Idle
  /\ nonce > CleanupNonceDelta
  /\ LET stale == staleBuckets(nonce - CleanupNonceDelta)
         gone  == UNION {UNION {buckets[k].proofsByNonce[n] :
                                 n \in DOMAIN buckets[k].proofsByNonce} : k \in stale}
     IN /\ buckets' = Drop(buckets, stale)
        /\ proofsByHash' = Drop(proofsByHash, gone)
        /\ added' = [n \in Nonces |-> IF getBucketKey(n) \in stale THEN {} ELSE added[n]]
  /\ UNCHANGED <<call, reports>>

PoolNext ==
  \E t \in Thread :
    \/ \E h \in ProofHash, sig \in Sig :
         \/ AddProof(t, h, sig)
         \/ UpsertProof(t, h, sig)
         \/ AddProofIfNoneAtNonce(t, h, sig)
    \/ addProof(t)
    \/ callSubscribers(t)
    \/ \E n \in CleanupNonce : CleanupProofsBehindNonce(t, n)

PoolSpec == PoolInit /\ [][PoolNext]_poolVars

-----------------------------------------------------------------------------
(* Properties.                                                             *)

Stored(n) == proofsAtNonce(buckets, proofsByHash, n)

BucketOK(b, k) ==
  /\ b = [maxNonce |-> b.maxNonce, proofsByNonce |-> b.proofsByNonce]
  /\ b.maxNonce \in Nat
  /\ \A n \in DOMAIN b.proofsByNonce :
       /\ n \in Nonces /\ getBucketKey(n) = k
       /\ k <= n /\ n < k + BucketSize /\ n <= b.maxNonce
       /\ b.proofsByNonce[n] # {}
       /\ \A h \in b.proofsByNonce[n] : h \in ProofHash /\ ProofNonce[h] = n

(* Type invariant: a bucket lists, at nonces of its own window and up to its maxNonce,
   non-empty sets of hashes of headers with that nonce. *)
PoolTypeOK ==
  /\ \A k \in DOMAIN buckets : BucketOK(buckets[k], k)
  /\ DOMAIN proofsByHash \subseteq ProofHash
  /\ \A h \in DOMAIN proofsByHash : proofsByHash[h] \in Sig
  /\ call \in [Thread -> Calls]
  /\ added \in [Nonces -> SUBSET ProofHash]
  /\ reports \subseteq ProofHash \X ProofHash

(* The two indexes of the cache agree: a proof is stored by hash exactly when its
   hash is listed at its nonce, whatever was evicted, overwritten or cleaned. *)
IndexConsistent ==
  \A h \in ProofHash : HasProof(h) <=> h \in hashesAt(buckets, ProofNonce[h])

(* Eviction keeps exactly the MaxProofsPerNonce lowest (round, hash) proofs ever stored
   at a nonce since its cleanup, so GetProofByNonce never moves to a higher proof
   and does not depend on the order in which the proofs arrived. *)
KeepsLowestProofs ==
  \A n \in Nonces :
    Stored(n) = {h \in added[n] :
                   Cardinality({g \in added[n] : lessProof(g, h)}) < MaxProofsPerNonce}

(* Two proofs that are in the pool for one nonce were reported to the
   equivocation subscribers as a pair, or the goroutine that stored the second one is about to. *)
EquivocationReported ==
  \A n \in Nonces : \A g, h \in Stored(n) :
    g # h =>
      \/ <<g, h>> \in reports
      \/ <<h, g>> \in reports
      \/ \E t \in Thread : /\ call[t].pc = "notify"
                          /\ \/ call[t].hash = h /\ g \in call[t].competing
                             \/ call[t].hash = g /\ h \in call[t].competing

(* A cleanup never drops a proof that is less than CleanupNonceDelta behind its nonce,
   although it drops whole buckets by their cached maximum nonce. *)
CleanupKeepsRecent ==
  [][\A t \in Thread, c \in CleanupNonce :
       CleanupProofsBehindNonce(t, c) =>
         \A h \in DOMAIN proofsByHash :
           ProofNonce[h] >= c - CleanupNonceDelta => h \in DOMAIN proofsByHash']_poolVars

=============================================================================
