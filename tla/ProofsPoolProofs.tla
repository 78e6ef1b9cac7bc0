-------------------------- MODULE ProofsPoolProofs --------------------------
(***************************************************************************)
(* Theorems about the proofs pool for every set of headers, every number   *)
(* of goroutines and every value of the three bounds.                      *)
(***************************************************************************)
EXTENDS ProofsPool, FiniteSetTheorems, WellFoundedInduction, TLAPS

(* recomputeMaxNonce returns a greatest element: nonces of a bucket are bounded by its window. *)
LEMMA MaxOfBounded ==
  ASSUME NEW S, S \subseteq Nat, S # {}, NEW b \in Nat, \A x \in S : x <= b
  PROVE  Max(S) \in S /\ \A y \in S : y <= Max(S)
<1> DEFINE T == {u \in Nat : \A x \in S : x <= u}
           R == OpToRel(<, Nat)
<1>1. PICK m \in T : \A u \in T : ~(<<u, m>> \in R)
  <2>1. T # {} /\ T \subseteq Nat
    OBVIOUS
  <2> HIDE DEF T, R
  <2>2. IsWellFoundedOn(R, Nat)
    BY NatLessThanWellFounded DEF R
  <2> QED
    BY <2>1, <2>2, WFMin
<1>2. \A u \in T : ~(u < m)
  BY <1>1 DEF OpToRel
<1>3. m \in S
  <2>1. SUFFICES ASSUME m \notin S PROVE FALSE
    OBVIOUS
  <2>2. \A x \in S : x < m
    BY <2>1
  <2>3. m - 1 \in Nat
    <3>1. PICK z \in S : TRUE
      OBVIOUS
    <3>2. z \in Nat /\ z < m /\ m \in Nat
      BY <2>2
    <3> QED
      BY <3>2
  <2>4. \A x \in S : x <= m - 1
    BY <2>2
  <2> QED
    BY <2>3, <2>4, <1>2
<1>4. \E x \in S : \A y \in S : x >= y
  BY <1>3
<1> QED
  BY <1>4 DEF Max

(* A nonce lies in the window of its bucket. *)
LEMMA BucketWindow ==
  ASSUME NEW n \in Nat
  PROVE  /\ getBucketKey(n) \in Nat
         /\ getBucketKey(n) <= n
         /\ n < getBucketKey(n) + BucketSize
BY PoolAssumption DEF getBucketKey

LEMMA NonceTypes == \A h \in ProofHash : ProofNonce[h] \in Nonces /\ ProofNonce[h] \in Nat
BY PoolAssumption DEF Nonces

(* proofNonceBucket.insert keeps a bucket well formed and adds exactly the hash at its nonce. *)
LEMMA InsertBucket ==
  ASSUME NEW h \in ProofHash, NEW b, BucketOK(b, getBucketKey(ProofNonce[h]))
  PROVE  LET n == ProofNonce[h]
             c == insert(b, n, h)
         IN /\ BucketOK(c, getBucketKey(n))
            /\ DOMAIN c.proofsByNonce = DOMAIN b.proofsByNonce \cup {n}
            /\ \A m \in DOMAIN b.proofsByNonce \ {n} :
                 c.proofsByNonce[m] = b.proofsByNonce[m]
            /\ c.proofsByNonce[n] =
                 (IF n \in DOMAIN b.proofsByNonce THEN b.proofsByNonce[n] ELSE {}) \cup {h}
<1> DEFINE n == ProofNonce[h]
           k == getBucketKey(n)
           old == IF n \in DOMAIN b.proofsByNonce THEN b.proofsByNonce[n] ELSE {}
           c == insert(b, n, h)
<1>1. /\ n \in Nat /\ n \in Nonces /\ k \in Nat /\ k <= n /\ n < k + BucketSize
  BY NonceTypes, BucketWindow
<1>2. /\ b.maxNonce \in Nat
      /\ \A m \in DOMAIN b.proofsByNonce :
           /\ m \in Nonces /\ m \in Nat /\ getBucketKey(m) = k
           /\ k <= m /\ m < k + BucketSize /\ m <= b.maxNonce
           /\ b.proofsByNonce[m] # {}
           /\ \A g \in b.proofsByNonce[m] : g \in ProofHash /\ ProofNonce[g] = m
  BY NonceTypes DEF BucketOK, Nonces
<1>3. CASE h \in old
  <2>1. c = b
    BY <1>3 DEF insert
  <2>2. n \in DOMAIN b.proofsByNonce /\ old = b.proofsByNonce[n]
    BY <1>3
  <2> QED
    BY <2>1, <2>2, <1>3
<1>4. CASE h \notin old
  <2> DEFINE p == PutAt(b.proofsByNonce, n, old \cup {h})
             x == IF n > b.maxNonce THEN n ELSE b.maxNonce
  <2>1. c = [maxNonce |-> x, proofsByNonce |-> p]
    BY <1>4 DEF insert
  <2>2. /\ DOMAIN p = DOMAIN b.proofsByNonce \cup {n}
        /\ p[n] = old \cup {h}
        /\ \A m \in DOMAIN b.proofsByNonce \ {n} : p[m] = b.proofsByNonce[m]
    BY DEF PutAt
  <2>3. x \in Nat /\ n <= x /\ \A m \in DOMAIN b.proofsByNonce : m <= x
    BY <1>1, <1>2
  <2>4. \A g \in old \cup {h} : g \in ProofHash /\ ProofNonce[g] = n
    BY <1>2
  <2>5. BucketOK(c, k)
    <3> HIDE DEF p, x, old, n, k
    <3>1. c.maxNonce = x /\ c.proofsByNonce = p
      BY <2>1
    <3>2. \A m \in DOMAIN p :
           /\ m \in Nonces /\ getBucketKey(m) = k
           /\ k <= m /\ m < k + BucketSize /\ m <= x
           /\ p[m] # {}
           /\ \A g \in p[m] : g \in ProofHash /\ ProofNonce[g] = m
      <4> TAKE m \in DOMAIN p
      <4>1. CASE m = n
        BY <4>1, <1>1, <2>2, <2>3, <2>4 DEF k
      <4>2. CASE m # n
        BY <4>2, <1>2, <2>2, <2>3
      <4> QED
        BY <4>1, <4>2
    <3> QED
      BY <2>1, <3>1, <3>2, <2>3 DEF BucketOK
  <2> QED
    BY <2>1, <2>2, <2>5
<1> QED
  BY <1>3, <1>4

(* proofNonceBucket.remove keeps a bucket well formed and drops exactly the evicted hashes. *)
LEMMA RemoveBucket ==
  ASSUME NEW h \in ProofHash, NEW b, BucketOK(b, getBucketKey(ProofNonce[h])),
         ProofNonce[h] \in DOMAIN b.proofsByNonce, NEW evicted
  PROVE  LET n == ProofNonce[h]
             c == remove(b, n, evicted)
         IN /\ BucketOK(c, getBucketKey(n))
            /\ \A m \in DOMAIN b.proofsByNonce \ {n} :
                 m \in DOMAIN c.proofsByNonce /\ c.proofsByNonce[m] = b.proofsByNonce[m]
            /\ DOMAIN c.proofsByNonce \subseteq DOMAIN b.proofsByNonce
            /\ (IF n \in DOMAIN c.proofsByNonce THEN c.proofsByNonce[n] ELSE {})
                 = b.proofsByNonce[n] \ evicted
<1> DEFINE n == ProofNonce[h]
           k == getBucketKey(n)
           remaining == b.proofsByNonce[n] \ evicted
           c == remove(b, n, evicted)
<1>1. /\ n \in Nat /\ n \in Nonces /\ k \in Nat /\ k <= n /\ n < k + BucketSize
  BY NonceTypes, BucketWindow
<1>2. /\ b = [maxNonce |-> b.maxNonce, proofsByNonce |-> b.proofsByNonce]
      /\ b.maxNonce \in Nat
      /\ \A m \in DOMAIN b.proofsByNonce :
           /\ m \in Nonces /\ m \in Nat /\ getBucketKey(m) = k
           /\ k <= m /\ m < k + BucketSize /\ m <= b.maxNonce
           /\ b.proofsByNonce[m] # {}
           /\ \A g \in b.proofsByNonce[m] : g \in ProofHash /\ ProofNonce[g] = m
  BY NonceTypes DEF BucketOK, Nonces
<1>3. CASE remaining # {}
  <2> DEFINE p == [b.proofsByNonce EXCEPT ![n] = remaining]
  <2>1. c = [maxNonce |-> b.maxNonce, proofsByNonce |-> p]
    <3>1. c = [b EXCEPT !.proofsByNonce = p]
      BY <1>3 DEF remove
    <3> QED
      BY <3>1, <1>2
  <2>2. /\ DOMAIN p = DOMAIN b.proofsByNonce
        /\ p[n] = remaining
        /\ \A m \in DOMAIN b.proofsByNonce \ {n} : p[m] = b.proofsByNonce[m]
    OBVIOUS
  <2>3. \A g \in remaining : g \in ProofHash /\ ProofNonce[g] = n
    BY <1>2
  <2>4. BucketOK(c, k)
    <3> HIDE DEF p, remaining, n, k
    <3>1. c.maxNonce = b.maxNonce /\ c.proofsByNonce = p
      BY <2>1
    <3>2. \A m \in DOMAIN p : p[m] # {} /\ \A g \in p[m] : g \in ProofHash /\ ProofNonce[g] = m
      BY <1>2, <1>3, <2>2, <2>3
    <3> QED
      BY <1>2, <2>1, <2>2, <3>1, <3>2 DEF BucketOK
  <2> QED
    BY <2>1, <2>2, <2>4
<1>4. CASE remaining = {}
  <2> DEFINE p == Drop(b.proofsByNonce, {n})
             x == IF n = b.maxNonce THEN recomputeMaxNonce(p) ELSE b.maxNonce
  <2>1. c = [maxNonce |-> x, proofsByNonce |-> p]
    BY <1>4 DEF remove
  <2>2. /\ DOMAIN p = DOMAIN b.proofsByNonce \ {n}
        /\ \A m \in DOMAIN b.proofsByNonce \ {n} : p[m] = b.proofsByNonce[m]
    BY DEF Drop
  <2>3. x \in Nat /\ \A m \in DOMAIN p : m <= x
    <3>1. CASE n # b.maxNonce
      BY <3>1, <2>2, <1>2
    <3>2. CASE n = b.maxNonce /\ DOMAIN p = {}
      BY <3>2 DEF recomputeMaxNonce
    <3>3. CASE n = b.maxNonce /\ DOMAIN p # {}
      <4>1. DOMAIN p \subseteq Nat /\ \A m \in DOMAIN p : m <= b.maxNonce
        BY <1>2, <2>2
      <4>2. x = Max(DOMAIN p)
        BY <3>3 DEF recomputeMaxNonce
      <4> HIDE DEF p, x
      <4>3. Max(DOMAIN p) \in DOMAIN p /\ \A y \in DOMAIN p : y <= Max(DOMAIN p)
        BY <3>3, <4>1, <1>2, MaxOfBounded
      <4> QED
        BY <4>1, <4>2, <4>3
    <3> QED
      BY <3>1, <3>2, <3>3
  <2>4. BucketOK(c, k)
    <3> HIDE DEF p, x, remaining, n, k
    <3>1. c.maxNonce = x /\ c.proofsByNonce = p
      BY <2>1
    <3> QED
      BY <1>2, <2>1, <2>2, <2>3, <3>1 DEF BucketOK
  <2>5. c.proofsByNonce = p
    BY <2>1
  <2> QED
    BY <1>4, <2>2, <2>4, <2>5
<1> QED
  BY <1>3, <1>4

(* The hashes that bucket b lists at a nonce. *)
ListedIn(b, n) == IF n \in DOMAIN b.proofsByNonce THEN b.proofsByNonce[n] ELSE {}

Inv == PoolTypeOK /\ IndexConsistent

LEMMA CreateBucket ==
  ASSUME PoolTypeOK, NEW h \in ProofHash
  PROVE  LET b == getOrCreateBucket(buckets, ProofNonce[h])
         IN /\ BucketOK(b, getBucketKey(ProofNonce[h]))
            /\ \A m : getBucketKey(m) = getBucketKey(ProofNonce[h])
                     => hashesAt(buckets, m) = ListedIn(b, m)
<1> DEFINE n == ProofNonce[h]
           k == getBucketKey(n)
           b == getOrCreateBucket(buckets, n)
<1>1. CASE k \in DOMAIN buckets
  <2>1. b = buckets[k]
    BY <1>1 DEF getOrCreateBucket
  <2> QED
    BY <1>1, <2>1 DEF PoolTypeOK, hashesAt, ListedIn
<1>2. CASE k \notin DOMAIN buckets
  <2>1. b = [maxNonce |-> 0, proofsByNonce |-> <<>>]
    BY <1>2 DEF getOrCreateBucket, newProofBucket
  <2>2. b.maxNonce = 0 /\ b.proofsByNonce = <<>> /\ DOMAIN b.proofsByNonce = {}
    BY <2>1
  <2>3. BucketOK(b, k)
    BY <2>1, <2>2 DEF BucketOK
  <2>4. \A m : getBucketKey(m) = k => hashesAt(buckets, m) = {} /\ ListedIn(b, m) = {}
    BY <1>2, <2>2 DEF hashesAt, ListedIn
  <2> QED
    BY <2>3, <2>4
<1> QED
  BY <1>1, <1>2

(* Replacing the bucket of a nonce changes only what that bucket lists. *)
(* The buckets bs differ from the stored ones in c at key k. *)
PutEffect(bs, k, c) ==
  /\ DOMAIN bs = DOMAIN buckets \cup {k}
  /\ bs[k] = c
  /\ \A j \in DOMAIN buckets \ {k} : bs[j] = buckets[j]
  /\ \A m : hashesAt(bs, m) = IF getBucketKey(m) = k
                                THEN ListedIn(c, m) ELSE hashesAt(buckets, m)

LEMMA PutBucket ==
  ASSUME NEW k, NEW c, NEW bs, bs = PutAt(buckets, k, c)
  PROVE  PutEffect(bs, k, c)
<1>1. /\ DOMAIN bs = DOMAIN buckets \cup {k}
      /\ bs[k] = c
      /\ \A j \in DOMAIN buckets \ {k} : bs[j] = buckets[j]
  BY DEF PutAt
<1>2. ASSUME NEW m
      PROVE  hashesAt(bs, m) = IF getBucketKey(m) = k
                                 THEN ListedIn(c, m) ELSE hashesAt(buckets, m)
  BY <1>1 DEF hashesAt, ListedIn
<1> QED
  BY <1>1, <1>2 DEF PutEffect

(* What a critical section that stores h and evicts E does to the two indexes. *)
StoreEffect(h, E) ==
  /\ \A k \in DOMAIN buckets' : BucketOK(buckets'[k], k)
  /\ hashesAt(buckets', ProofNonce[h]) = (hashesAt(buckets, ProofNonce[h]) \cup {h}) \ E
  /\ \A m \in Nonces \ {ProofNonce[h]} : hashesAt(buckets', m) = hashesAt(buckets, m)
  /\ DOMAIN proofsByHash' = (DOMAIN proofsByHash \cup {h}) \ E
  /\ E \subseteq hashesAt(buckets, ProofNonce[h]) \cup {h}
  /\ \A g \in DOMAIN proofsByHash' : proofsByHash'[g] \in Sig

LEMMA StoreProofEffect ==
  ASSUME PoolTypeOK, NEW h \in ProofHash, NEW sig \in Sig, StoreProof(h, sig)
  PROVE  StoreEffect(h, evictExcessProofsAtNonce(Stored(ProofNonce[h]) \cup {h}))
<1> DEFINE n == ProofNonce[h]
           k == getBucketKey(n)
           b0 == getOrCreateBucket(buckets, n)
           b == insert(b0, n, h)
           pbh == PutAt(proofsByHash, h, sig)
           E == evictExcessProofsAtNonce(b.proofsByNonce[n] \cap DOMAIN pbh)
           c == IF E = {} THEN b ELSE remove(b, n, E)
<1>1. /\ BucketOK(b0, k)
      /\ \A m : getBucketKey(m) = k => hashesAt(buckets, m) = ListedIn(b0, m)
  BY CreateBucket
<1> HIDE DEF b0
<1>2. /\ BucketOK(b, k)
      /\ DOMAIN b.proofsByNonce = DOMAIN b0.proofsByNonce \cup {n}
      /\ \A m \in DOMAIN b0.proofsByNonce \ {n} : b.proofsByNonce[m] = b0.proofsByNonce[m]
      /\ b.proofsByNonce[n] = ListedIn(b0, n) \cup {h}
  BY <1>1, InsertBucket DEF ListedIn
<1>3. E \subseteq b.proofsByNonce[n]
  BY DEF evictExcessProofsAtNonce
<1>4. buckets' = PutAt(buckets, k, c) /\ proofsByHash' = Drop(pbh, E)
  BY DEF StoreProof, b0
<1> HIDE DEF b, E
<1>5. /\ BucketOK(c, k)
      /\ \A m : m # n => ListedIn(c, m) = ListedIn(b0, m)
      /\ ListedIn(c, n) = (ListedIn(b0, n) \cup {h}) \ E
  <2>1. CASE E = {}
    BY <2>1, <1>2 DEF ListedIn
  <2>2. CASE E # {}
    <3>1. n \in DOMAIN b.proofsByNonce
      BY <1>2
    <3>2. /\ BucketOK(c, k)
          /\ \A m \in DOMAIN b.proofsByNonce \ {n} :
               m \in DOMAIN c.proofsByNonce /\ c.proofsByNonce[m] = b.proofsByNonce[m]
          /\ DOMAIN c.proofsByNonce \subseteq DOMAIN b.proofsByNonce
          /\ ListedIn(c, n) = b.proofsByNonce[n] \ E
      BY <2>2, <3>1, <1>2, RemoveBucket DEF ListedIn
    <3> HIDE DEF c
    <3> QED
      BY <3>2, <1>2 DEF ListedIn
  <2> QED
    BY <2>1, <2>2
<1> HIDE DEF c
<1>6. /\ DOMAIN buckets' = DOMAIN buckets \cup {k}
      /\ buckets'[k] = c
      /\ \A j \in DOMAIN buckets \ {k} : buckets'[j] = buckets[j]
      /\ \A m : hashesAt(buckets', m) = IF getBucketKey(m) = k
                                           THEN ListedIn(c, m) ELSE hashesAt(buckets, m)
  <2> HIDE DEF k
  <2>1. PutEffect(buckets', k, c)
    BY <1>4, PutBucket
  <2> QED
    BY <2>1 DEF PutEffect
<1>7. \A j \in DOMAIN buckets' : BucketOK(buckets'[j], j)
  BY <1>5, <1>6 DEF PoolTypeOK
<1>8. hashesAt(buckets', n) = (hashesAt(buckets, n) \cup {h}) \ E
  BY <1>1, <1>5, <1>6
<1>9. \A m \in Nonces \ {n} : hashesAt(buckets', m) = hashesAt(buckets, m)
  BY <1>1, <1>5, <1>6
<1>10. /\ DOMAIN proofsByHash' = (DOMAIN proofsByHash \cup {h}) \ E
       /\ \A g \in DOMAIN proofsByHash' : proofsByHash'[g] \in Sig
  BY <1>4 DEF PutAt, Drop, PoolTypeOK
<1>11. E \subseteq hashesAt(buckets, n) \cup {h}
  BY <1>1, <1>2, <1>3
<1>12. StoreEffect(h, E)
  BY <1>7, <1>8, <1>9, <1>10, <1>11 DEF StoreEffect
<1>13. b.proofsByNonce[n] \cap DOMAIN pbh = Stored(n) \cup {h}
  <2>1. DOMAIN pbh = DOMAIN proofsByHash \cup {h}
    BY DEF PutAt
  <2>2. b.proofsByNonce[n] = hashesAt(buckets, n) \cup {h}
    BY <1>1, <1>2
  <2> QED
    BY <2>1, <2>2 DEF Stored, proofsAtNonce
<1>14. E = evictExcessProofsAtNonce(Stored(n) \cup {h})
  BY <1>13 DEF E
<1> QED
  BY <1>12, <1>14

LEMMA AddIfNoneEffect ==
  ASSUME PoolTypeOK, NEW t \in Thread, NEW h \in ProofHash, NEW sig \in Sig,
         AddProofIfNoneAtNonce(t, h, sig)
  PROVE  StoreEffect(h, {})
<1> DEFINE n == ProofNonce[h]
           k == getBucketKey(n)
           b0 == getOrCreateBucket(buckets, n)
           c == insert(b0, n, h)
<1>1. /\ BucketOK(b0, k)
      /\ \A m : getBucketKey(m) = k => hashesAt(buckets, m) = ListedIn(b0, m)
  BY CreateBucket
<1>2. buckets' = PutAt(buckets, k, c) /\ proofsByHash' = PutAt(proofsByHash, h, sig)
  BY DEF AddProofIfNoneAtNonce
<1> HIDE DEF b0
<1>3. /\ BucketOK(c, k)
      /\ DOMAIN c.proofsByNonce = DOMAIN b0.proofsByNonce \cup {n}
      /\ \A m \in DOMAIN b0.proofsByNonce \ {n} : c.proofsByNonce[m] = b0.proofsByNonce[m]
      /\ c.proofsByNonce[n] = ListedIn(b0, n) \cup {h}
  BY <1>1, InsertBucket DEF ListedIn
<1> HIDE DEF c
<1>4. /\ \A m : m # n => ListedIn(c, m) = ListedIn(b0, m)
      /\ ListedIn(c, n) = ListedIn(b0, n) \cup {h}
  BY <1>3 DEF ListedIn
<1>5. /\ DOMAIN buckets' = DOMAIN buckets \cup {k}
      /\ buckets'[k] = c
      /\ \A j \in DOMAIN buckets \ {k} : buckets'[j] = buckets[j]
      /\ \A m : hashesAt(buckets', m) = IF getBucketKey(m) = k
                                           THEN ListedIn(c, m) ELSE hashesAt(buckets, m)
  <2> HIDE DEF k
  <2>1. PutEffect(buckets', k, c)
    BY <1>2, PutBucket
  <2> QED
    BY <2>1 DEF PutEffect
<1>6. \A j \in DOMAIN buckets' : BucketOK(buckets'[j], j)
  BY <1>3, <1>5 DEF PoolTypeOK
<1>7. hashesAt(buckets', n) = hashesAt(buckets, n) \cup {h}
  BY <1>1, <1>4, <1>5
<1>8. \A m \in Nonces \ {n} : hashesAt(buckets', m) = hashesAt(buckets, m)
  BY <1>1, <1>4, <1>5
<1>9. /\ DOMAIN proofsByHash' = DOMAIN proofsByHash \cup {h}
      /\ \A g \in DOMAIN proofsByHash' : proofsByHash'[g] \in Sig
  BY <1>2 DEF PutAt, PoolTypeOK
<1> QED
  BY <1>6, <1>7, <1>8, <1>9 DEF StoreEffect

(* Both indexes stay equal when one hash is stored and some of its nonce are evicted. *)
LEMMA StoreKeepsIndexes ==
  ASSUME Inv, NEW h \in ProofHash, NEW E, StoreEffect(h, E)
  PROVE  /\ \A k \in DOMAIN buckets' : BucketOK(buckets'[k], k)
         /\ DOMAIN proofsByHash' \subseteq ProofHash
         /\ \A g \in DOMAIN proofsByHash' : proofsByHash'[g] \in Sig
         /\ IndexConsistent'
<1>1. \A g \in hashesAt(buckets, ProofNonce[h]) : g \in ProofHash /\ ProofNonce[g] = ProofNonce[h]
  BY DEF Inv, PoolTypeOK, hashesAt, BucketOK
<1>2. \A g \in E : g \in ProofHash /\ ProofNonce[g] = ProofNonce[h]
  BY <1>1 DEF StoreEffect
<1>3. \A g \in ProofHash : g \in DOMAIN proofsByHash' <=> g \in hashesAt(buckets', ProofNonce[g])
  <2> TAKE g \in ProofHash
  <2>1. CASE ProofNonce[g] = ProofNonce[h]
    BY <2>1 DEF StoreEffect, Inv, IndexConsistent, HasProof
  <2>2. CASE ProofNonce[g] # ProofNonce[h]
    BY <2>2, <1>2, NonceTypes DEF StoreEffect, Inv, IndexConsistent, HasProof
  <2> QED
    BY <2>1, <2>2
<1> QED
  BY <1>3 DEF StoreEffect, Inv, PoolTypeOK, IndexConsistent, HasProof

(* The pending call of a thread is well typed after each of the pool's steps. *)
LEMMA CallTypes ==
  ASSUME PoolTypeOK, NEW t \in Thread, NEW c \in Calls, call' = [call EXCEPT ![t] = c]
  PROVE  call' \in [Thread -> Calls]
BY DEF PoolTypeOK

LEMMA InductiveStep == Inv /\ [PoolNext]_poolVars => Inv'
<1> SUFFICES ASSUME Inv, [PoolNext]_poolVars PROVE Inv'
  OBVIOUS
<1> USE DEF Inv
<1>1. ASSUME NEW t \in Thread, NEW h \in ProofHash, NEW sig \in Sig, AddProof(t, h, sig) \/ UpsertProof(t, h, sig)
      PROVE  Inv'
  <2>1. [pc |-> "add", hash |-> h, sig |-> sig] \in Calls
    BY DEF Calls
  <2>2. UNCHANGED <<buckets, proofsByHash, added, reports>>
    BY <1>1 DEF AddProof, UpsertProof
  <2>3. call' = [call EXCEPT ![t] = [pc |-> "add", hash |-> h, sig |-> sig]]
    BY <1>1 DEF AddProof, UpsertProof
  <2>4. call' \in [Thread -> Calls]
    BY <2>1, <2>3, CallTypes
  <2> QED
    BY <2>2, <2>4 DEF PoolTypeOK, IndexConsistent, HasProof
<1>2. ASSUME NEW t \in Thread, NEW h \in ProofHash, NEW sig \in Sig, AddProofIfNoneAtNonce(t, h, sig)
      PROVE  Inv'
  <2>1. StoreEffect(h, {})
    BY <1>2, AddIfNoneEffect
  <2>2. /\ \A k \in DOMAIN buckets' : BucketOK(buckets'[k], k)
        /\ DOMAIN proofsByHash' \subseteq ProofHash
        /\ \A g \in DOMAIN proofsByHash' : proofsByHash'[g] \in Sig
        /\ IndexConsistent'
    BY <2>1, StoreKeepsIndexes
  <2>3. [pc |-> "notify", hash |-> h, competing |-> {}] \in Calls
    BY DEF Calls
  <2>4. call' \in [Thread -> Calls]
    BY <1>2, <2>3, CallTypes DEF AddProofIfNoneAtNonce
  <2>5. added' \in [Nonces -> SUBSET ProofHash] /\ reports' = reports
    BY <1>2, NonceTypes DEF AddProofIfNoneAtNonce, PoolTypeOK
  <2> QED
    BY <2>2, <2>4, <2>5 DEF PoolTypeOK
<1>3. ASSUME NEW t \in Thread, addProof(t)
      PROVE  Inv'
  <2> DEFINE h == call[t].hash
             C == competingProofs(h)
  <2>1. h \in ProofHash /\ call[t].sig \in Sig
    BY <1>3 DEF addProof, PoolTypeOK, Calls, Idle
  <2>2. StoreProof(h, call[t].sig)
    BY <1>3 DEF addProof
  <2>3. \E E : StoreEffect(h, E)
    BY <2>1, <2>2, StoreProofEffect
  <2>4. /\ \A k \in DOMAIN buckets' : BucketOK(buckets'[k], k)
        /\ DOMAIN proofsByHash' \subseteq ProofHash
        /\ \A g \in DOMAIN proofsByHash' : proofsByHash'[g] \in Sig
        /\ IndexConsistent'
    BY <2>1, <2>3, StoreKeepsIndexes
  <2>5. C \subseteq ProofHash
    BY DEF competingProofs, proofsAtNonce, PoolTypeOK
  <2>6. call' = [call EXCEPT ![t] = [pc |-> "notify", hash |-> h, competing |-> C]]
    BY <1>3 DEF addProof
  <2> HIDE DEF h, C
  <2>7. [pc |-> "notify", hash |-> h, competing |-> C] \in Calls
    BY <2>1, <2>5 DEF Calls
  <2>8. call' \in [Thread -> Calls]
    BY <2>6, <2>7, CallTypes
  <2>9. added' \in [Nonces -> SUBSET ProofHash] /\ reports' = reports
    <3>1. added' = [added EXCEPT ![ProofNonce[h]] = added[ProofNonce[h]] \cup {h}]
      BY <2>2 DEF StoreProof
    <3>2. reports' = reports
      BY <1>3 DEF addProof
    <3> QED
      BY <2>1, <3>1, <3>2, NonceTypes DEF PoolTypeOK
  <2> QED
    BY <2>4, <2>8, <2>9 DEF PoolTypeOK
<1>4. ASSUME NEW t \in Thread, callSubscribers(t)
      PROVE  Inv'
  <2>1. call[t] \in Calls /\ call[t].pc = "notify"
    BY <1>4 DEF callSubscribers, PoolTypeOK
  <2>2. call[t].hash \in ProofHash /\ call[t].competing \in SUBSET ProofHash
    BY <2>1 DEF Calls, Idle
  <2>3. reports' \subseteq ProofHash \X ProofHash
    BY <1>4, <2>2 DEF callSubscribers, PoolTypeOK
  <2>4. Idle \in Calls
    BY DEF Calls
  <2>5. call' \in [Thread -> Calls]
    BY <1>4, <2>4, CallTypes DEF callSubscribers
  <2> QED
    BY <1>4, <2>3, <2>5 DEF callSubscribers, PoolTypeOK, IndexConsistent, HasProof
<1>5. ASSUME NEW t \in Thread, NEW n \in CleanupNonce, CleanupProofsBehindNonce(t, n)
      PROVE  Inv'
  <2> DEFINE stale == staleBuckets(n - CleanupNonceDelta)
             gone == UNION {UNION {buckets[k].proofsByNonce[m] :
                               m \in DOMAIN buckets[k].proofsByNonce} : k \in stale}
  <2>1. /\ buckets' = Drop(buckets, stale)
        /\ proofsByHash' = Drop(proofsByHash, gone)
        /\ added' = [m \in Nonces |-> IF getBucketKey(m) \in stale THEN {} ELSE added[m]]
        /\ UNCHANGED <<call, reports>>
    BY <1>5 DEF CleanupProofsBehindNonce
  <2>2. stale \subseteq DOMAIN buckets
    BY DEF staleBuckets
  <2>3. \A h \in ProofHash : HasProof(h) => (h \in gone <=> getBucketKey(ProofNonce[h]) \in stale)
    <3> SUFFICES ASSUME NEW h \in ProofHash, HasProof(h)
                 PROVE  h \in gone <=> getBucketKey(ProofNonce[h]) \in stale
      OBVIOUS
    <3> HIDE DEF stale
    <3>1. h \in hashesAt(buckets, ProofNonce[h])
      BY DEF IndexConsistent
    <3>2. ASSUME h \in gone PROVE getBucketKey(ProofNonce[h]) \in stale
      <4>1. PICK k \in stale : \E m \in DOMAIN buckets[k].proofsByNonce : h \in buckets[k].proofsByNonce[m]
        BY <3>2
      <4>2. BucketOK(buckets[k], k)
        BY <2>2 DEF PoolTypeOK
      <4> QED
        BY <4>1, <4>2 DEF BucketOK
    <3>3. ASSUME getBucketKey(ProofNonce[h]) \in stale PROVE h \in gone
      BY <3>1, <3>3 DEF hashesAt
    <3> QED
      BY <3>2, <3>3
  <2> HIDE DEF stale, gone
  <2>4. \A m : hashesAt(buckets', m) = IF getBucketKey(m) \in stale THEN {} ELSE hashesAt(buckets, m)
    BY <2>1 DEF Drop, hashesAt
  <2>5. DOMAIN proofsByHash' = DOMAIN proofsByHash \ gone
    BY <2>1 DEF Drop
  <2>6. IndexConsistent'
    <3>1. ASSUME NEW h \in ProofHash
          PROVE  h \in DOMAIN proofsByHash' <=> h \in hashesAt(buckets', ProofNonce[h])
      BY <2>3, <2>4, <2>5 DEF IndexConsistent, HasProof
    <3> QED
      BY <3>1 DEF IndexConsistent, HasProof
  <2>7. \A k \in DOMAIN buckets' : BucketOK(buckets'[k], k)
    BY <2>1 DEF Drop, PoolTypeOK
  <2>8. \A g \in DOMAIN proofsByHash' : proofsByHash'[g] \in Sig
    BY <2>1 DEF Drop, PoolTypeOK
  <2>9. added' \in [Nonces -> SUBSET ProofHash]
    BY <2>1 DEF PoolTypeOK
  <2> QED
    BY <2>1, <2>5, <2>6, <2>7, <2>8, <2>9 DEF PoolTypeOK
<1>6. CASE UNCHANGED poolVars
  BY <1>6 DEF poolVars, PoolTypeOK, IndexConsistent, HasProof
<1> QED
  BY <1>1, <1>2, <1>3, <1>4, <1>5, <1>6 DEF PoolNext

LEMMA InitInv == PoolInit => Inv
<1> SUFFICES ASSUME PoolInit PROVE Inv
  OBVIOUS
<1>1. DOMAIN buckets = {} /\ DOMAIN proofsByHash = {}
  BY DEF PoolInit
<1>2. call \in [Thread -> Calls] /\ added \in [Nonces -> SUBSET ProofHash] /\ reports = {}
  BY DEF PoolInit, Calls
<1>3. \A n : hashesAt(buckets, n) = {}
  BY <1>1 DEF hashesAt
<1> QED
  BY <1>1, <1>2, <1>3 DEF Inv, PoolTypeOK, IndexConsistent, HasProof

(* The pool is well formed and its two indexes agree in every reachable state: no order of
   concurrent additions, overwrites, evictions and cleanups leaves a proof that is found by
   hash but not by nonce, or listed at a nonce but missing. *)
THEOREM IndexesAgree == PoolSpec => [](PoolTypeOK /\ IndexConsistent)
<1>1. PoolInit => Inv
  BY InitInv
<1>2. Inv /\ [PoolNext]_poolVars => Inv'
  BY InductiveStep
<1> QED
  BY <1>1, <1>2, PTL DEF PoolSpec, Inv

(* A cleanup drops no proof less than CleanupNonceDelta behind its nonce. *)
THEOREM CleanupIsSafe == PoolSpec => CleanupKeepsRecent
<1>1. ASSUME Inv, NEW t \in Thread, NEW c \in CleanupNonce, CleanupProofsBehindNonce(t, c),
             NEW h \in DOMAIN proofsByHash, ProofNonce[h] >= c - CleanupNonceDelta
      PROVE  h \in DOMAIN proofsByHash'
  <2> DEFINE stale == staleBuckets(c - CleanupNonceDelta)
             gone == UNION {UNION {buckets[k].proofsByNonce[m] :
                               m \in DOMAIN buckets[k].proofsByNonce} : k \in stale}
  <2>1. proofsByHash' = Drop(proofsByHash, gone)
    BY <1>1 DEF CleanupProofsBehindNonce
  <2>2. h \notin gone
    <3> SUFFICES ASSUME NEW k \in stale, NEW m \in DOMAIN buckets[k].proofsByNonce,
                        h \in buckets[k].proofsByNonce[m]
                 PROVE  FALSE
      OBVIOUS
    <3>1. k \in DOMAIN buckets /\ c - CleanupNonceDelta > buckets[k].maxNonce
      BY DEF staleBuckets
    <3>2. /\ buckets[k].maxNonce \in Nat /\ m <= buckets[k].maxNonce
          /\ h \in ProofHash /\ ProofNonce[h] = m
      BY <1>1, <3>1 DEF Inv, PoolTypeOK, BucketOK
    <3>3. m \in Nat /\ c \in Nat
      BY <3>2, PoolAssumption
    <3> QED
      BY <1>1, <3>1, <3>2, <3>3, PoolAssumption
  <2> HIDE DEF gone
  <2> QED
    BY <2>1, <2>2 DEF Drop
<1>2. Inv /\ [PoolNext]_poolVars =>
        [\A t \in Thread, c \in CleanupNonce :
           CleanupProofsBehindNonce(t, c) =>
             \A h \in DOMAIN proofsByHash :
               ProofNonce[h] >= c - CleanupNonceDelta => h \in DOMAIN proofsByHash']_poolVars
  BY <1>1
<1>3. PoolSpec => []Inv
  BY InitInv, InductiveStep, PTL DEF PoolSpec
<1> QED
  BY <1>2, <1>3, PTL DEF PoolSpec, CleanupKeepsRecent

-----------------------------------------------------------------------------
(* What the pool keeps at a nonce.                                         *)

(* The proofs before h in the order of lessProof. *)
Below(S, h) == {g \in S : lessProof(g, h)}

(* The MaxProofsPerNonce lowest proofs of a set. *)
Lowest(S) == {h \in S : Cardinality(Below(S, h)) < MaxProofsPerNonce}

LEMMA ProofOrder ==
  ASSUME NEW a \in ProofHash, NEW b \in ProofHash, NEW c \in ProofHash
  PROVE  /\ ~lessProof(a, a)
         /\ a # b => lessProof(a, b) \/ lessProof(b, a)
         /\ lessProof(a, b) /\ lessProof(b, c) => lessProof(a, c)
<1>1. /\ a \in Nat /\ b \in Nat /\ c \in Nat
      /\ ProofRound[a] \in Nat /\ ProofRound[b] \in Nat /\ ProofRound[c] \in Nat
  BY PoolAssumption
<1> QED
  BY <1>1 DEF lessProof

(* A non-empty set of naturals has a least element. *)
LEMMA LeastNat ==
  ASSUME NEW S, S \subseteq Nat, S # {}
  PROVE  \E m \in S : \A u \in S : m <= u
<1> DEFINE R == {ss \in Nat \X Nat : ss[1] < ss[2]}
<1>1. IsWellFoundedOn(R, Nat)
  BY NatLessThanWellFounded DEF OpToRel
<1>2. PICK m \in S : \A u \in S : ~(<<u, m>> \in R)
  <2> HIDE DEF R
  <2> QED
    BY <1>1, WFMin
<1>3. \A u \in S : m <= u
  <2> SUFFICES ASSUME NEW u \in S PROVE m <= u
    OBVIOUS
  <2>1. u \in Nat /\ m \in Nat
    OBVIOUS
  <2>2. ~(u < m)
    BY <1>2, <2>1
  <2> QED
    BY <2>1, <2>2
<1> QED
  BY <1>3

(* A non-empty set of proofs has a lowest one: the least hash of the least round. *)
LEMMA LowestProofExists ==
  ASSUME NEW S, S \subseteq ProofHash, S # {}
  PROVE  \E h \in S : \A g \in S \ {h} : lessProof(h, g)
<1> DEFINE rounds == {ProofRound[h] : h \in S}
<1>1. \A h \in S : h \in Nat /\ ProofRound[h] \in Nat
  BY PoolAssumption
<1>2. rounds \subseteq Nat /\ rounds # {}
  BY <1>1
<1> HIDE DEF rounds
<1>3. PICK r \in rounds : \A u \in rounds : r <= u
  BY <1>2, LeastNat
<1> DEFINE T == {h \in S : ProofRound[h] = r}
<1>4. T \subseteq Nat /\ T # {}
  BY <1>1, <1>3 DEF rounds
<1>5. PICK h \in T : \A u \in T : h <= u
  <2> HIDE DEF T
  <2> QED
    BY <1>4, LeastNat
<1>6. \A g \in S \ {h} : lessProof(h, g)
  <2> SUFFICES ASSUME NEW g \in S, g # h PROVE lessProof(h, g)
    OBVIOUS
  <2>1. /\ h \in Nat /\ g \in Nat /\ ProofRound[h] = r
        /\ ProofRound[g] \in Nat /\ ProofRound[h] \in Nat
    BY <1>1, <1>5
  <2>2. r <= ProofRound[g]
    BY <1>3 DEF rounds
  <2>3. ProofRound[g] = r => h <= g
    BY <1>5
  <2> QED
    BY <2>1, <2>2, <2>3 DEF lessProof
<1> QED
  BY <1>5, <1>6

(* Counting the proofs below one. *)
LEMMA BelowCounts ==
  ASSUME NEW B, IsFiniteSet(B), NEW C \in SUBSET B
  PROVE  /\ Cardinality(C) \in Nat /\ Cardinality(B) \in Nat
         /\ Cardinality(C) <= Cardinality(B)
BY FS_Subset, FS_CardinalityType

(* Eviction forgets nothing it needs: adding a proof to the lowest ones and evicting     *)
(* gives the lowest ones of all that were ever added, an evicted hash that returns too.  *)
LEMMA LowestOfLowest ==
  ASSUME NEW A, A \subseteq ProofHash, IsFiniteSet(A), NEW h \in ProofHash
  PROVE  Lowest(Lowest(A) \cup {h}) = Lowest(A \cup {h})
<1> DEFINE B == A \cup {h}
           T == Lowest(A) \cup {h}
<1>1. T \subseteq B /\ B \subseteq ProofHash
  BY DEF Lowest
<1>2. IsFiniteSet(B)
  BY FS_AddElement
<1>3. \A S \in SUBSET B : \A x : IsFiniteSet(Below(S, x))
  <2> SUFFICES ASSUME NEW S \in SUBSET B, NEW x PROVE IsFiniteSet(Below(S, x))
    OBVIOUS
  <2>1. Below(S, x) \subseteq B
    BY DEF Below
  <2> HIDE DEF B
  <2> QED
    BY <1>2, <2>1, FS_Subset
<1>4. MaxProofsPerNonce \in Nat
  BY PoolAssumption
<1>5. ASSUME NEW x \in Lowest(B) PROVE x \in Lowest(T)
  <2>1. x \in B /\ Cardinality(Below(B, x)) < MaxProofsPerNonce
    BY <1>5 DEF Lowest
  <2>2. /\ Below(T, x) \in SUBSET Below(B, x)
        /\ Below(A, x) \in SUBSET Below(B, x)
    BY <1>1 DEF Below
  <2>3. IsFiniteSet(Below(B, x))
    BY <1>3
  <2> HIDE DEF B, T
  <2>4. /\ Cardinality(Below(T, x)) < MaxProofsPerNonce
        /\ Cardinality(Below(A, x)) < MaxProofsPerNonce
    <3>1. /\ Cardinality(Below(B, x)) \in Nat
          /\ Cardinality(Below(T, x)) \in Nat /\ Cardinality(Below(T, x)) <= Cardinality(Below(B, x))
          /\ Cardinality(Below(A, x)) \in Nat /\ Cardinality(Below(A, x)) <= Cardinality(Below(B, x))
      BY <2>2, <2>3, BelowCounts
    <3> QED
      BY <1>4, <2>1, <3>1
  <2>5. x \in T
    BY <2>1, <2>4 DEF T, B, Lowest
  <2> QED
    BY <2>4, <2>5 DEF Lowest
<1>6. ASSUME NEW x \in Lowest(T), x \notin Lowest(B) PROVE FALSE
  <2>1. x \in T /\ x \in B /\ Cardinality(Below(T, x)) < MaxProofsPerNonce
    BY <1>1, <1>6 DEF Lowest
  <2>2. ~(Cardinality(Below(B, x)) < MaxProofsPerNonce)
    BY <1>6, <2>1 DEF Lowest
  <2> DEFINE G == {g \in B \ T : lessProof(g, x)}
  <2>3. G # {}
    <3> SUFFICES ASSUME G = {} PROVE FALSE
      OBVIOUS
    <3>1. Below(B, x) = Below(T, x)
      BY <1>1 DEF Below
    <3> QED
      BY <2>1, <2>2, <3>1
  <2>4. G \subseteq ProofHash
    BY <1>1
  <2>5. PICK g \in G : \A u \in G \ {g} : lessProof(g, u)
    <3> HIDE DEF G
    <3> QED
      BY <2>3, <2>4, LowestProofExists
  <2>6. g \in A /\ g \notin Lowest(A) /\ lessProof(g, x) /\ g \in ProofHash /\ x \in ProofHash
    BY <1>1, <2>1, <2>4
  <2>7. ~(Cardinality(Below(A, g)) < MaxProofsPerNonce)
    BY <2>6 DEF Lowest
  <2>8. Below(A, g) \subseteq Below(T, x)
    <3> SUFFICES ASSUME NEW y \in A, lessProof(y, g) PROVE y \in T /\ lessProof(y, x)
      BY DEF Below
    <3>1. y \in ProofHash
      OBVIOUS
    <3>2. lessProof(y, x)
      BY <2>6, <3>1, ProofOrder
    <3>3. y \notin G
      <4> SUFFICES ASSUME y \in G PROVE FALSE
        OBVIOUS
      <4>1. y = g \/ lessProof(g, y)
        BY <2>5
      <4>2. ~lessProof(y, y) /\ ~lessProof(g, g)
        BY <2>6, <3>1, ProofOrder
      <4>3. lessProof(g, y) /\ lessProof(y, g) => lessProof(g, g)
        BY <2>6, <3>1, ProofOrder
      <4> HIDE DEF G
      <4> QED
        BY <4>1, <4>2, <4>3
    <3> QED
      BY <3>2, <3>3
  <2>9. IsFiniteSet(Below(T, x))
    BY <1>1, <1>3
  <2> HIDE DEF T, B, G
  <2>10. /\ Cardinality(Below(A, g)) \in Nat /\ Cardinality(Below(T, x)) \in Nat
         /\ Cardinality(Below(A, g)) <= Cardinality(Below(T, x))
    BY <2>8, <2>9, BelowCounts
  <2> QED
    BY <1>4, <2>1, <2>7, <2>10
<1>7. Lowest(T) \subseteq Lowest(B)
  <2> HIDE DEF T, B
  <2> QED
    BY <1>6
<1> QED
  BY <1>5, <1>7

(* Nothing is stored at a nonce only when nothing was added to it. *)
LEMMA LowestOfSome ==
  ASSUME NEW A, A \subseteq ProofHash, Lowest(A) = {}
  PROVE  A = {}
<1> SUFFICES ASSUME A # {} PROVE FALSE
  OBVIOUS
<1>1. PICK h \in A : \A g \in A \ {h} : lessProof(h, g)
  BY LowestProofExists
<1>2. Below(A, h) = {}
  <2> SUFFICES ASSUME NEW g \in A, lessProof(g, h) PROVE FALSE
    BY DEF Below
  <2>1. g \in ProofHash /\ h \in ProofHash
    OBVIOUS
  <2>2. ~lessProof(h, h) /\ (lessProof(g, h) /\ lessProof(h, g) => lessProof(g, g)) /\ ~lessProof(g, g)
    BY <2>1, ProofOrder
  <2> QED
    BY <1>1, <2>2
<1>3. Cardinality(Below(A, h)) = 0
  BY <1>2, FS_EmptySet
<1> QED
  BY <1>3, PoolAssumption DEF Lowest

LEMMA LowestOfOne ==
  ASSUME NEW h \in ProofHash
  PROVE  Lowest({h}) = {h} /\ evictExcessProofsAtNonce({h}) = {}
<1>1. Below({h}, h) = {}
  BY ProofOrder DEF Below
<1>2. Cardinality(Below({h}, h)) = 0
  BY <1>1, FS_EmptySet
<1>3. MaxProofsPerNonce \in Nat /\ MaxProofsPerNonce > 0
  BY PoolAssumption
<1> QED
  BY <1>2, <1>3 DEF Lowest, evictExcessProofsAtNonce, Below

(* What stays after the eviction. *)
LEMMA EvictLeavesLowest ==
  ASSUME NEW S, S \subseteq ProofHash, IsFiniteSet(S)
  PROVE  S \ evictExcessProofsAtNonce(S) = Lowest(S)
<1>1. \A h \in S : Cardinality(Below(S, h)) \in Nat
  <2> SUFFICES ASSUME NEW h \in S PROVE Cardinality(Below(S, h)) \in Nat
    OBVIOUS
  <2>1. Below(S, h) \in SUBSET S
    BY DEF Below
  <2> QED
    BY <2>1, BelowCounts
<1>2. MaxProofsPerNonce \in Nat
  BY PoolAssumption
<1>3. evictExcessProofsAtNonce(S) = {h \in S : Cardinality(Below(S, h)) >= MaxProofsPerNonce}
  BY DEF evictExcessProofsAtNonce, Below
<1> QED
  BY <1>1, <1>2, <1>3 DEF Lowest

(* Under the index invariant the proofs at a nonce are the listed hashes. *)
LEMMA StoredIsListed ==
  ASSUME Inv, NEW n \in Nonces
  PROVE  Stored(n) = hashesAt(buckets, n) /\ Stored(n) \subseteq ProofHash
<1>1. \A g \in hashesAt(buckets, n) : g \in ProofHash /\ ProofNonce[g] = n
  BY DEF Inv, PoolTypeOK, hashesAt, BucketOK
<1> QED
  BY <1>1 DEF Inv, IndexConsistent, HasProof, Stored, proofsAtNonce

LEMMA StoredIsListedNext ==
  ASSUME Inv', NEW n \in Nonces
  PROVE  Stored(n)' = hashesAt(buckets', n)
<1>1. \A g \in hashesAt(buckets', n) : g \in ProofHash /\ ProofNonce[g] = n
  BY DEF Inv, PoolTypeOK, hashesAt, BucketOK
<1> QED
  BY <1>1 DEF Inv, IndexConsistent, HasProof, Stored, proofsAtNonce

(* What the two critical sections that store a proof leave at its nonce. *)
LEMMA StoredAfter ==
  ASSUME Inv, Inv', NEW h \in ProofHash, NEW E, StoreEffect(h, E)
  PROVE  /\ Stored(ProofNonce[h])' = (Stored(ProofNonce[h]) \cup {h}) \ E
         /\ \A n \in Nonces \ {ProofNonce[h]} : Stored(n)' = Stored(n)
<1>1. ProofNonce[h] \in Nonces
  BY NonceTypes
<1>2. \A n \in Nonces : Stored(n) = hashesAt(buckets, n) /\ Stored(n)' = hashesAt(buckets', n)
  BY StoredIsListed, StoredIsListedNext
<1> QED
  BY <1>1, <1>2 DEF StoreEffect

(* AddProofIfNoneAtNonce takes a proof only when none is stored at the nonce. *)
LEMMA NoneStored ==
  ASSUME Inv, NEW h \in ProofHash,
         lowestProofAtNonce(buckets, proofsByHash, ProofNonce[h]) = {}
  PROVE  Stored(ProofNonce[h]) = {}
<1> SUFFICES ASSUME Stored(ProofNonce[h]) # {} PROVE FALSE
  OBVIOUS
<1>1. Stored(ProofNonce[h]) \subseteq ProofHash
  BY StoredIsListed, NonceTypes
<1>2. PICK g \in Stored(ProofNonce[h]) : \A x \in Stored(ProofNonce[h]) \ {g} : lessProof(g, x)
  BY <1>1, LowestProofExists
<1> QED
  BY <1>2 DEF lowestProofAtNonce, Stored

(* Cleaning drops all proofs of a nonce, with the history of what was added, or none. *)
LEMMA StoredAfterCleanup ==
  ASSUME Inv, Inv', NEW t \in Thread, NEW c \in CleanupNonce, CleanupProofsBehindNonce(t, c),
         NEW n \in Nonces
  PROVE  \/ Stored(n)' = {} /\ added'[n] = {}
         \/ Stored(n)' = Stored(n) /\ added'[n] = added[n]
<1> DEFINE stale == staleBuckets(c - CleanupNonceDelta)
<1>1. /\ buckets' = Drop(buckets, stale)
      /\ added' = [m \in Nonces |-> IF getBucketKey(m) \in stale THEN {} ELSE added[m]]
  BY DEF CleanupProofsBehindNonce
<1> HIDE DEF stale
<1>2. hashesAt(buckets', n) = IF getBucketKey(n) \in stale THEN {} ELSE hashesAt(buckets, n)
  BY <1>1 DEF Drop, hashesAt
<1>3. Stored(n) = hashesAt(buckets, n) /\ Stored(n)' = hashesAt(buckets', n)
  BY StoredIsListed, StoredIsListedNext
<1> QED
  BY <1>1, <1>2, <1>3

(* KeepsLowestProofs with the finiteness its counting needs. *)
LowestInv ==
  \A n \in Nonces : IsFiniteSet(added[n]) /\ Stored(n) = Lowest(added[n])

LEMMA LowestStep ==
  ASSUME Inv, Inv', LowestInv, [PoolNext]_poolVars
  PROVE  LowestInv'
<1> USE DEF Inv
<1>1. ASSUME UNCHANGED <<buckets, proofsByHash, added>> PROVE LowestInv'
  BY <1>1 DEF LowestInv, Stored
<1>2. ASSUME NEW h \in ProofHash,
             added' = [added EXCEPT ![ProofNonce[h]] = added[ProofNonce[h]] \cup {h}],
             Stored(ProofNonce[h])' = Lowest(Stored(ProofNonce[h]) \cup {h}),
             \A n \in Nonces \ {ProofNonce[h]} : Stored(n)' = Stored(n)
      PROVE  LowestInv'
  <2>1. ProofNonce[h] \in Nonces /\ added \in [Nonces -> SUBSET ProofHash]
    BY NonceTypes DEF PoolTypeOK
  <2>2. ASSUME NEW n \in Nonces
        PROVE  IsFiniteSet(added'[n]) /\ Stored(n)' = Lowest(added'[n])
    <3>1. IsFiniteSet(added[n]) /\ Stored(n) = Lowest(added[n]) /\ added[n] \subseteq ProofHash
      BY <2>1 DEF LowestInv
    <3>2. CASE n = ProofNonce[h]
      <4>1. added'[n] = added[n] \cup {h}
        BY <1>2, <2>1, <3>2
      <4>2. IsFiniteSet(added[n] \cup {h})
        BY <3>1, FS_AddElement
      <4>3. Stored(n)' = Lowest(Lowest(added[n]) \cup {h})
        BY <1>2, <3>1, <3>2
      <4> QED
        BY <3>1, <4>1, <4>2, <4>3, LowestOfLowest
    <3>3. CASE n # ProofNonce[h]
      BY <1>2, <2>1, <3>1, <3>3
    <3> QED
      BY <3>2, <3>3
  <2> QED
    BY <2>2 DEF LowestInv
<1>3. ASSUME NEW t \in Thread, addProof(t) PROVE LowestInv'
  <2>0. PICK h \in ProofHash : h = call[t].hash
    BY <1>3 DEF addProof, PoolTypeOK, Calls, Idle
  <2>1. h \in ProofHash /\ call[t].sig \in Sig
    BY <1>3, <2>0 DEF addProof, PoolTypeOK, Calls, Idle
  <2>2. StoreProof(h, call[t].sig)
    BY <1>3, <2>0 DEF addProof
  <2> DEFINE S == Stored(ProofNonce[h]) \cup {h}
  <2>3. StoreEffect(h, evictExcessProofsAtNonce(S))
    BY <2>1, <2>2, StoreProofEffect
  <2>4. added' = [added EXCEPT ![ProofNonce[h]] = added[ProofNonce[h]] \cup {h}]
    BY <2>2 DEF StoreProof
  <2>5. /\ Stored(ProofNonce[h])' = S \ evictExcessProofsAtNonce(S)
        /\ \A n \in Nonces \ {ProofNonce[h]} : Stored(n)' = Stored(n)
    BY <2>1, <2>3, StoredAfter
  <2>6. S \subseteq ProofHash /\ IsFiniteSet(S)
    <3>1. ProofNonce[h] \in Nonces
      BY <2>1, NonceTypes
    <3>2. /\ Stored(ProofNonce[h]) = Lowest(added[ProofNonce[h]])
          /\ IsFiniteSet(added[ProofNonce[h]])
          /\ Stored(ProofNonce[h]) \subseteq ProofHash
      BY <3>1, StoredIsListed DEF LowestInv
    <3>3. Lowest(added[ProofNonce[h]]) \subseteq added[ProofNonce[h]]
      BY DEF Lowest
    <3>4. IsFiniteSet(Stored(ProofNonce[h]))
      BY <3>2, <3>3, FS_Subset
    <3> QED
      BY <2>1, <3>2, <3>4, FS_AddElement
  <2>7. S \ evictExcessProofsAtNonce(S) = Lowest(S)
    <3> HIDE DEF S
    <3> QED
      BY <2>6, EvictLeavesLowest
  <2> QED
    BY <1>2, <2>1, <2>4, <2>5, <2>7
<1>4. ASSUME NEW t \in Thread, NEW h \in ProofHash, NEW sig \in Sig, AddProofIfNoneAtNonce(t, h, sig)
      PROVE  LowestInv'
  <2>1. StoreEffect(h, {})
    BY <1>4, AddIfNoneEffect
  <2>2. Stored(ProofNonce[h]) = {}
    BY <1>4, NoneStored DEF AddProofIfNoneAtNonce
  <2>3. added' = [added EXCEPT ![ProofNonce[h]] = added[ProofNonce[h]] \cup {h}]
    BY <1>4 DEF AddProofIfNoneAtNonce
  <2>4. /\ Stored(ProofNonce[h])' = {h}
        /\ \A n \in Nonces \ {ProofNonce[h]} : Stored(n)' = Stored(n)
    BY <2>1, <2>2, StoredAfter
  <2>5. Stored(ProofNonce[h])' = Lowest(Stored(ProofNonce[h]) \cup {h})
    BY <2>2, <2>4, LowestOfOne
  <2> QED
    BY <1>2, <2>3, <2>4, <2>5
<1>5. ASSUME NEW t \in Thread, NEW c \in CleanupNonce, CleanupProofsBehindNonce(t, c)
      PROVE  LowestInv'
  <2>1. ASSUME NEW n \in Nonces
        PROVE  IsFiniteSet(added'[n]) /\ Stored(n)' = Lowest(added'[n])
    <3>1. \/ Stored(n)' = {} /\ added'[n] = {}
          \/ Stored(n)' = Stored(n) /\ added'[n] = added[n]
      BY <1>5, StoredAfterCleanup
    <3>2. Lowest({}) = {} /\ IsFiniteSet({})
      BY FS_EmptySet DEF Lowest
    <3> QED
      BY <3>1, <3>2 DEF LowestInv
  <2> QED
    BY <2>1 DEF LowestInv
<1>6. CASE PoolNext
  <2>1. PICK t \in Thread :
          \/ \E h \in ProofHash, sig \in Sig :
               \/ AddProof(t, h, sig)
               \/ UpsertProof(t, h, sig)
               \/ AddProofIfNoneAtNonce(t, h, sig)
          \/ addProof(t)
          \/ callSubscribers(t)
          \/ \E n \in CleanupNonce : CleanupProofsBehindNonce(t, n)
    BY <1>6 DEF PoolNext
  <2>2. CASE \/ \E h \in ProofHash, sig \in Sig : AddProof(t, h, sig) \/ UpsertProof(t, h, sig)
             \/ callSubscribers(t)
    BY <1>1, <2>2 DEF AddProof, UpsertProof, callSubscribers
  <2> QED
    BY <1>3, <1>4, <1>5, <2>1, <2>2
<1>7. CASE UNCHANGED poolVars
  BY <1>1, <1>7 DEF poolVars
<1> QED
  BY <1>6, <1>7

(* Eviction keeps exactly the MaxProofsPerNonce lowest proofs added at a nonce since its
   cleanup, in whatever order concurrent calls added them, so that nodes which saw the same
   proofs name the same canonical one. *)
THEOREM LowestProofsKept == PoolSpec => []KeepsLowestProofs
<1>1. PoolInit => LowestInv
  <2> SUFFICES ASSUME PoolInit, NEW n \in Nonces
               PROVE  IsFiniteSet(added[n]) /\ Stored(n) = Lowest(added[n])
    BY DEF LowestInv
  <2>1. added[n] = {} /\ Stored(n) = {}
    BY DEF PoolInit, Stored, proofsAtNonce
  <2>2. Lowest({}) = {} /\ IsFiniteSet({})
    BY FS_EmptySet DEF Lowest
  <2> QED
    BY <2>1, <2>2
<1>2. Inv /\ Inv' /\ LowestInv /\ [PoolNext]_poolVars => LowestInv'
  BY LowestStep
<1>3. LowestInv => KeepsLowestProofs
  BY DEF LowestInv, KeepsLowestProofs, Lowest, Below
<1>4. PoolSpec => []Inv
  BY InitInv, InductiveStep, PTL DEF PoolSpec
<1> QED
  BY <1>1, <1>2, <1>3, <1>4, PTL DEF PoolSpec

(* One of the pair was reported against the other, or is about to be. *)
Reported(g, h) ==
  \/ <<g, h>> \in reports
  \/ <<h, g>> \in reports
  \/ \E t \in Thread : /\ call[t].pc = "notify"
                       /\ \/ call[t].hash = h /\ g \in call[t].competing
                          \/ call[t].hash = g /\ h \in call[t].competing

LEMMA ReportedStep ==
  ASSUME Inv, Inv', EquivocationReported, [PoolNext]_poolVars
  PROVE  EquivocationReported'
<1> USE DEF Inv
<1>1. ASSUME NEW n \in Nonces, NEW g \in Stored(n), NEW h \in Stored(n), g # h
      PROVE  Reported(g, h)
  BY <1>1 DEF EquivocationReported, Reported
<1>2. call \in [Thread -> Calls]
  BY DEF PoolTypeOK
<1>3. ASSUME NEW t \in Thread, NEW v, call' = [call EXCEPT ![t] = v], call[t].pc # "notify",
             reports' = reports, NEW g, NEW h, Reported(g, h)
      PROVE  Reported(g, h)'
  <2>1. CASE <<g, h>> \in reports \/ <<h, g>> \in reports
    BY <1>3, <2>1 DEF Reported
  <2>2. CASE \E u \in Thread : /\ call[u].pc = "notify"
                               /\ \/ call[u].hash = h /\ g \in call[u].competing
                                  \/ call[u].hash = g /\ h \in call[u].competing
    <3>1. PICK u \in Thread : /\ call[u].pc = "notify"
                              /\ \/ call[u].hash = h /\ g \in call[u].competing
                                 \/ call[u].hash = g /\ h \in call[u].competing
      BY <2>2
    <3>2. call'[u] = call[u]
      BY <1>2, <1>3, <3>1
    <3> QED
      BY <3>1, <3>2 DEF Reported
  <2> QED
    BY <1>3, <2>1, <2>2 DEF Reported
<1>4. SUFFICES ASSUME NEW n \in Nonces, NEW g, NEW h, g \in Stored(n)', h \in Stored(n)', g # h
               PROVE  Reported(g, h)'
  BY <1>4 DEF EquivocationReported, Reported
<1>5. ASSUME NEW t \in Thread, NEW x \in ProofHash, NEW sig \in Sig,
             AddProof(t, x, sig) \/ UpsertProof(t, x, sig)
      PROVE  Reported(g, h)'
  <2>1. /\ UNCHANGED <<buckets, proofsByHash, reports>>
        /\ call' = [call EXCEPT ![t] = [pc |-> "add", hash |-> x, sig |-> sig]]
        /\ call[t].pc # "notify"
    BY <1>5 DEF AddProof, UpsertProof, Idle
  <2>2. Stored(n)' = Stored(n)
    BY <2>1 DEF Stored
  <2> QED
    BY <1>1, <1>3, <1>4, <2>1, <2>2
<1>6. ASSUME NEW t \in Thread, NEW x \in ProofHash, NEW sig \in Sig, AddProofIfNoneAtNonce(t, x, sig)
      PROVE  Reported(g, h)'
  <2>1. Stored(ProofNonce[x])' = {x} /\ \A m \in Nonces \ {ProofNonce[x]} : Stored(m)' = Stored(m)
    <3>1. StoreEffect(x, {})
      BY <1>6, AddIfNoneEffect
    <3>2. Stored(ProofNonce[x]) = {}
      BY <1>6, NoneStored DEF AddProofIfNoneAtNonce
    <3> QED
      BY <3>1, <3>2, StoredAfter
  <2>2. n # ProofNonce[x]
    BY <1>4, <2>1
  <2>3. g \in Stored(n) /\ h \in Stored(n)
    BY <1>4, <2>1, <2>2
  <2>4. /\ call' = [call EXCEPT ![t] = [pc |-> "notify", hash |-> x, competing |-> {}]]
        /\ call[t].pc # "notify" /\ reports' = reports
    BY <1>6 DEF AddProofIfNoneAtNonce, Idle
  <2> QED
    BY <1>1, <1>3, <1>4, <2>3, <2>4
<1>7. ASSUME NEW t \in Thread, addProof(t) PROVE Reported(g, h)'
  <2>0. PICK x \in ProofHash : x = call[t].hash
    BY <1>7 DEF addProof, PoolTypeOK, Calls, Idle
  <2> DEFINE C == competingProofs(x)
  <2>1. x \in ProofHash /\ call[t].sig \in Sig /\ StoreProof(x, call[t].sig)
    BY <1>7, <2>0 DEF addProof, PoolTypeOK, Calls, Idle
  <2>2. /\ call' = [call EXCEPT ![t] = [pc |-> "notify", hash |-> x, competing |-> C]]
        /\ call[t].pc # "notify" /\ reports' = reports
    BY <1>7, <2>0 DEF addProof
  <2>3. ProofNonce[x] \in Nonces
    BY <2>1, NonceTypes
  <2>4. C = IF x \in Stored(ProofNonce[x]) THEN {} ELSE Stored(ProofNonce[x]) \ {x}
    BY <2>3, StoredIsListed DEF competingProofs, Stored
  <2> HIDE DEF C
  <2>5. /\ Stored(ProofNonce[x])' \subseteq Stored(ProofNonce[x]) \cup {x}
        /\ \A m \in Nonces \ {ProofNonce[x]} : Stored(m)' = Stored(m)
    BY <2>1, StoreProofEffect, StoredAfter
  <2>6. CASE g \in Stored(n) /\ h \in Stored(n)
    BY <1>1, <1>3, <1>4, <2>2, <2>6
  <2>7. CASE ~(g \in Stored(n) /\ h \in Stored(n))
    <3>1. n = ProofNonce[x] /\ x \notin Stored(n)
      BY <1>4, <2>5, <2>7
    <3>2. \/ g = x /\ h \in Stored(n) \ {x}
          \/ h = x /\ g \in Stored(n) \ {x}
      BY <1>4, <2>5, <2>7, <3>1
    <3>3. call'[t].pc = "notify" /\ call'[t].hash = x /\ call'[t].competing = Stored(n) \ {x}
      BY <1>2, <2>2, <2>4, <3>1
    <3> QED
      BY <3>2, <3>3 DEF Reported
  <2> QED
    BY <2>6, <2>7
<1>8. ASSUME NEW t \in Thread, callSubscribers(t) PROVE Reported(g, h)'
  <2>1. /\ UNCHANGED <<buckets, proofsByHash>>
        /\ call' = [call EXCEPT ![t] = Idle]
        /\ reports' = reports \cup ({call[t].hash} \X call[t].competing)
    BY <1>8 DEF callSubscribers
  <2>2. Reported(g, h)
    BY <1>1, <1>4, <2>1 DEF Stored
  <2>3. CASE <<g, h>> \in reports \/ <<h, g>> \in reports
    BY <2>1, <2>3 DEF Reported
  <2>4. CASE \E u \in Thread : /\ call[u].pc = "notify"
                               /\ \/ call[u].hash = h /\ g \in call[u].competing
                                  \/ call[u].hash = g /\ h \in call[u].competing
    <3>1. PICK u \in Thread : /\ call[u].pc = "notify"
                              /\ \/ call[u].hash = h /\ g \in call[u].competing
                                 \/ call[u].hash = g /\ h \in call[u].competing
      BY <2>4
    <3>2. CASE u = t
      BY <2>1, <3>1, <3>2 DEF Reported
    <3>3. CASE u # t
      <4>1. call'[u] = call[u]
        BY <1>2, <2>1, <3>3
      <4> QED
        BY <3>1, <4>1 DEF Reported
    <3> QED
      BY <3>2, <3>3
  <2> QED
    BY <2>2, <2>3, <2>4 DEF Reported
<1>9. ASSUME NEW t \in Thread, NEW c \in CleanupNonce, CleanupProofsBehindNonce(t, c)
      PROVE  Reported(g, h)'
  <2>1. Stored(n)' \subseteq Stored(n) /\ UNCHANGED <<call, reports>>
    BY <1>9, StoredAfterCleanup DEF CleanupProofsBehindNonce
  <2> QED
    BY <1>1, <1>4, <2>1 DEF Reported
<1>10. CASE UNCHANGED poolVars
  <2>1. UNCHANGED <<buckets, proofsByHash, call, reports>>
    BY <1>10 DEF poolVars
  <2>2. Reported(g, h)
    BY <1>1, <1>4, <2>1 DEF Stored
  <2> QED
    BY <2>1, <2>2 DEF Reported
<1> QED
  BY <1>5, <1>6, <1>7, <1>8, <1>9, <1>10 DEF PoolNext

(* Two proofs that stand in the pool at one nonce were reported to the equivocation
   subscribers as a pair, or the goroutine that stored the second is about to report them:
   the competing proofs are taken in the critical section that stores, so no interleaving of
   additions, evictions and cleanups hides a pair. *)
THEOREM EquivocationIsReported == PoolSpec => []EquivocationReported
<1>1. PoolInit => EquivocationReported
  BY DEF PoolInit, EquivocationReported, Stored, proofsAtNonce
<1>2. Inv /\ Inv' /\ EquivocationReported /\ [PoolNext]_poolVars => EquivocationReported'
  BY ReportedStep
<1>3. PoolSpec => []Inv
  BY InitInv, InductiveStep, PTL DEF PoolSpec
<1> QED
  BY <1>1, <1>2, <1>3, PTL DEF PoolSpec
=============================================================================
