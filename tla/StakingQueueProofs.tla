------------------------- MODULE StakingQueueProofs -------------------------
(* The waiting list of the staking contract stays a list, and agrees with the *)
(* registrations and the count of staked nodes, for every set of keys.        *)
(*                                                                            *)
(* The invariant names the sequence the linked list stands for. Each helper   *)
(* of the list is shown to put a key into that sequence or to take one out    *)
(* (InsertedLists, TakenOutLists), so that a call on the list is a change of  *)
(* the set of waiting keys (AddedLists, RemovedLists, RemovedAllLists), and   *)
(* each call of the contract writes the registrations that go with it.        *)
EXTENDS StakingQueue, FiniteSetTheorems, WellFoundedInduction, TLAPS

KeyOrNone == Key \cup {NoKey}
Elements == [prev : KeyOrNone, next : KeyOrNone, stored : BOOLEAN]
ElementMaps == [Key -> Elements]
WaitingLists ==
  [elem : ElementMaps, first : KeyOrNone, last : KeyOrNone, length : Nat,
   lastJailed : KeyOrNone, ok : BOOLEAN]

(* The sequence w runs over the list, whose keys are S. *)
Linked(l, w, S) ==
  /\ w \in [1..l.length -> Key]
  /\ \A i, j \in 1..l.length : w[i] = w[j] => i = j
  /\ \A k \in Key : k \in S <=> \E i \in 1..l.length : w[i] = k
  /\ \A k \in Key : l.elem[k].stored <=> k \in S
  /\ \A i \in 1..l.length :
       /\ l.elem[w[i]].next = IF i = l.length THEN NoKey ELSE w[i + 1]
       /\ l.elem[w[i]].prev = IF i = 1 THEN w[1] ELSE w[i - 1]
  /\ l.length > 0 => l.first = w[1] /\ l.last = w[l.length]

(* The last jailed key is in the list, and the keys up to it are of J. *)
Fronted(l, w, J) ==
  l.lastJailed # NoKey =>
    \E j \in 1..l.length : w[j] = l.lastJailed /\ \A i \in 1..j : w[i] \in J

Rep(l, w, S, J) ==
  /\ l \in WaitingLists /\ l.ok /\ S \subseteq Key
  /\ Linked(l, w, S)
  /\ Fronted(l, w, J)

ListOf(l, S, J) == \E w : Rep(l, w, S, J)

-----------------------------------------------------------------------------
(* A list with every field written out. *)
HeadOf(e, first, last, n, jailed) ==
  [elem |-> e, first |-> first, last |-> last, length |-> n, lastJailed |-> jailed,
   ok |-> TRUE]

LEMMA HeadFields ==
  ASSUME NEW e \in ElementMaps, NEW first \in KeyOrNone, NEW last \in KeyOrNone,
         NEW n \in Nat, NEW jailed \in KeyOrNone, NEW m,
         m = HeadOf(e, first, last, n, jailed)
  PROVE  /\ m \in WaitingLists /\ m.ok /\ m.elem = e /\ m.first = first /\ m.last = last
         /\ m.length = n /\ m.lastJailed = jailed
BY DEF HeadOf, WaitingLists

(* The key k is put after the first p places of a list. *)
Inserted(l, w, k, p, e, first, last) ==
  /\ e \in ElementMaps
  /\ e[k].stored
  /\ e[k].next = IF p = l.length THEN NoKey ELSE w[p + 1]
  /\ e[k].prev = IF p = 0 THEN k ELSE w[p]
  /\ \A x \in Key : x # k => (e[x].stored <=> l.elem[x].stored)
  /\ \A i \in 1..l.length :
       /\ e[w[i]].next = IF i = p THEN k ELSE l.elem[w[i]].next
       /\ e[w[i]].prev = IF i = p + 1 THEN k ELSE l.elem[w[i]].prev
  /\ first = IF p = 0 THEN k ELSE l.first
  /\ last = IF p = l.length THEN k ELSE l.last

LEMMA InsertedLists ==
  ASSUME NEW l, NEW w, NEW S, NEW J, NEW k \in Key, k \notin S,
         Rep(l, w, S, J), NEW p \in 0..l.length,
         NEW e, NEW first, NEW last, NEW jailed,
         Inserted(l, w, k, p, e, first, last),
         \/ jailed = NoKey
         \/ \E j \in 1..p : w[j] = jailed /\ \A i \in 1..j : w[i] \in J
         \/ jailed = k /\ k \in J /\ \A i \in 1..p : w[i] \in J,
         NEW m, m = HeadOf(e, first, last, l.length + 1, jailed)
  PROVE  ListOf(m, S \cup {k}, J)
<1> DEFINE n == l.length
           n1 == l.length + 1
           v == [i \in 1..n1 |-> IF i <= p THEN w[i] ELSE IF i = p + 1 THEN k ELSE w[i - 1]]
<1>0. /\ NoKey \notin Key /\ n \in Nat /\ n1 \in Nat /\ n1 = n + 1 /\ p \in Nat /\ p <= n
      /\ w \in [1..n -> Key]
      /\ \A i \in 1..n : w[i] # k
  BY StakingAssumption DEF Rep, Linked, WaitingLists
<1>1. /\ \A i \in 1..p : i \in 1..n /\ i \in 1..n1 /\ v[i] = w[i]
      /\ p + 1 \in 1..n1 /\ v[p + 1] = k
      /\ \A i \in p + 1 .. n : i \in 1..n /\ i + 1 \in 1..n1 /\ v[i + 1] = w[i]
      /\ \A i \in 1..n1 : i \in 1..p \/ i = p + 1 \/ (i - 1 \in p + 1 .. n /\ v[i] = w[i - 1])
  BY <1>0
<1>2. v \in [1..n1 -> Key]
  BY <1>0
<1>3. /\ m \in WaitingLists /\ m.ok /\ m.elem = e /\ m.first = first /\ m.last = last
      /\ m.length = n1 /\ m.lastJailed = jailed
  <2>1. e \in ElementMaps /\ first \in KeyOrNone /\ last \in KeyOrNone
    BY DEF Inserted, Rep, WaitingLists, KeyOrNone
  <2>2. jailed \in KeyOrNone
    BY <1>0 DEF KeyOrNone
  <2> HIDE DEF v, n
  <2>3. m = HeadOf(e, first, last, n1, jailed) /\ n1 \in Nat
    BY <1>0
  <2> HIDE DEF n1
  <2>4. QED
    BY <2>1, <2>2, <2>3, HeadFields
<1>4. Linked(m, v, S \cup {k})
  <2> HIDE DEF v, n, n1
  <2>1. \A i, j \in 1..n1 : v[i] = v[j] => i = j
    <3>1. \A i, j \in 1..n : w[i] = w[j] => i = j
      BY DEF Rep, Linked, n
    <3>2. QED
      BY <1>0, <1>1, <3>1
  <2>2. \A x \in Key : x \in S \cup {k} <=> \E i \in 1..n1 : v[i] = x
    <3>1. \A x \in Key : x \in S <=> \E i \in 1..n : w[i] = x
      BY DEF Rep, Linked, n
    <3>2. ASSUME NEW x \in Key, x \in S PROVE \E i \in 1..n1 : v[i] = x
      <4>1. PICK i \in 1..n : w[i] = x
        BY <3>1, <3>2
      <4>2. CASE i <= p
        BY <1>0, <1>1, <4>1, <4>2
      <4>3. CASE i > p
        BY <1>0, <1>1, <4>1, <4>3
      <4>4. QED
        BY <1>0, <4>2, <4>3
    <3>3. ASSUME NEW x \in Key, NEW i \in 1..n1, v[i] = x PROVE x \in S \cup {k}
      <4>1. CASE i \in 1..p
        BY <1>1, <3>1, <3>3, <4>1
      <4>2. CASE i = p + 1
        BY <1>1, <3>3, <4>2
      <4>3. CASE i - 1 \in p + 1 .. n /\ v[i] = w[i - 1]
        BY <1>1, <3>1, <3>3, <4>3
      <4>4. QED
        BY <1>1, <4>1, <4>2, <4>3
    <3>4. QED
      BY <1>1, <3>2, <3>3
  <2>3. \A x \in Key : e[x].stored <=> x \in S \cup {k}
    BY DEF Inserted, Rep, Linked
  <2>4. \A i \in 1..n : /\ l.elem[w[i]].next = IF i = n THEN NoKey ELSE w[i + 1]
                        /\ l.elem[w[i]].prev = IF i = 1 THEN w[1] ELSE w[i - 1]
    BY DEF Rep, Linked, n
  <2>5. /\ e[k].next = IF p = n THEN NoKey ELSE w[p + 1]
        /\ e[k].prev = IF p = 0 THEN k ELSE w[p]
        /\ \A i \in 1..n : /\ e[w[i]].next = IF i = p THEN k ELSE l.elem[w[i]].next
                           /\ e[w[i]].prev = IF i = p + 1 THEN k ELSE l.elem[w[i]].prev
    BY DEF Inserted, n
  <2>6. ASSUME NEW i \in 1..n1
        PROVE  /\ e[v[i]].next = IF i = n1 THEN NoKey ELSE v[i + 1]
               /\ e[v[i]].prev = IF i = 1 THEN v[1] ELSE v[i - 1]
    <3>1. CASE i \in 1..p
      <4>1. i \in 1..n /\ v[i] = w[i] /\ i # n1
        BY <1>0, <1>1, <3>1
      <4>2. e[w[i]].next = IF i = p THEN k ELSE l.elem[w[i]].next
        BY <2>5, <4>1
      <4>3. e[w[i]].prev = l.elem[w[i]].prev
        BY <1>0, <2>5, <3>1, <4>1
      <4>4. e[w[i]].next = v[i + 1]
        <5>1. CASE i = p
          BY <1>1, <4>2, <5>1
        <5>2. CASE i # p
          BY <1>0, <1>1, <2>4, <3>1, <4>1, <4>2, <5>2
        <5>3. QED
          BY <5>1, <5>2
      <4>5. e[w[i]].prev = IF i = 1 THEN v[1] ELSE v[i - 1]
        BY <1>0, <1>1, <2>4, <3>1, <4>1, <4>3
      <4>6. QED
        BY <4>1, <4>4, <4>5
    <3>2. CASE i = p + 1
      <4>1. v[i] = k
        BY <1>1, <3>2
      <4>2. e[k].next = IF i = n1 THEN NoKey ELSE v[i + 1]
        BY <1>0, <1>1, <2>5, <3>2
      <4>3. e[k].prev = IF i = 1 THEN v[1] ELSE v[i - 1]
        BY <1>0, <1>1, <2>5, <3>2
      <4>4. QED
        BY <4>1, <4>2, <4>3
    <3>3. CASE i - 1 \in p + 1 .. n /\ v[i] = w[i - 1]
      <4>1. i - 1 \in 1..n /\ i # 1 /\ i - 1 # p
        BY <1>0, <3>3
      <4>2. e[w[i - 1]].next = l.elem[w[i - 1]].next
        BY <2>5, <4>1
      <4>3. e[w[i - 1]].prev = IF i - 1 = p + 1 THEN k ELSE l.elem[w[i - 1]].prev
        BY <2>5, <4>1
      <4>4. e[w[i - 1]].next = IF i = n1 THEN NoKey ELSE v[i + 1]
        <5>1. CASE i = n1
          BY <1>0, <2>4, <4>1, <4>2, <5>1
        <5>2. CASE i # n1
          <6>1. i \in p + 1 .. n /\ i - 1 # n /\ (i - 1) + 1 = i
            BY <1>0, <3>3, <5>2
          <6>2. v[i + 1] = w[i]
            BY <1>1, <6>1
          <6>3. l.elem[w[i - 1]].next = w[i]
            BY <2>4, <4>1, <6>1
          <6>4. QED
            BY <4>2, <5>2, <6>2, <6>3
        <5>3. QED
          BY <5>1, <5>2
      <4>5. e[w[i - 1]].prev = v[i - 1]
        <5>1. CASE i - 1 = p + 1
          BY <1>1, <4>3, <5>1
        <5>2. CASE i - 1 # p + 1
          <6>1. (i - 1) - 1 \in p + 1 .. n /\ i - 1 # 1 /\ ((i - 1) - 1) + 1 = i - 1
            BY <1>0, <3>3, <5>2
          <6>2. v[i - 1] = w[(i - 1) - 1]
            BY <1>1, <6>1
          <6>3. l.elem[w[i - 1]].prev = w[(i - 1) - 1]
            BY <2>4, <4>1, <6>1
          <6>4. QED
            BY <4>3, <5>2, <6>2, <6>3
        <5>3. QED
          BY <5>1, <5>2
      <4>6. QED
        BY <3>3, <4>1, <4>4, <4>5
    <3>4. QED
      BY <1>1, <3>1, <3>2, <3>3
  <2>7. first = v[1] /\ last = v[n1]
    <3>1. n > 0 => l.first = w[1] /\ l.last = w[n]
      BY DEF Rep, Linked, n
    <3>2. first = IF p = 0 THEN k ELSE l.first
      BY DEF Inserted
    <3>3. last = IF p = n THEN k ELSE l.last
      BY DEF Inserted, n
    <3>4. first = v[1]
      BY <1>0, <1>1, <3>1, <3>2
    <3>5. last = v[n1]
      BY <1>0, <1>1, <3>1, <3>3
    <3>6. QED
      BY <3>4, <3>5
  <2>8. QED
    BY <1>2, <1>3, <2>1, <2>2, <2>3, <2>6, <2>7 DEF Linked
<1>5. Fronted(m, v, J)
  <2> HIDE DEF v, n, n1
  <2>1. CASE \E j \in 1..p : w[j] = jailed /\ \A i \in 1..j : w[i] \in J
    <3>1. PICK j \in 1..p : w[j] = jailed /\ \A i \in 1..j : w[i] \in J
      BY <2>1
    <3>2. j \in 1..n1 /\ v[j] = jailed /\ \A i \in 1..j : i \in 1..p /\ v[i] = w[i]
      BY <1>0, <1>1, <3>1
    <3>3. QED
      BY <1>3, <3>1, <3>2 DEF Fronted
  <2>2. CASE jailed = k /\ k \in J /\ \A i \in 1..p : w[i] \in J
    <3>1. \A i \in 1..(p + 1) : v[i] \in J
      BY <1>0, <1>1, <2>2
    <3>2. QED
      BY <1>1, <1>3, <2>2, <3>1 DEF Fronted
  <2>3. QED
    BY <1>3, <2>1, <2>2 DEF Fronted
<1>6. QED
  BY <1>3, <1>4, <1>5 DEF ListOf, Rep

(* The key at place p is taken out of a list of several. *)
TakenOut(l, w, p, e, first, last) ==
  /\ e \in ElementMaps
  /\ ~e[w[p]].stored
  /\ \A x \in Key : x # w[p] => (e[x].stored <=> l.elem[x].stored)
  /\ \A i \in 1..l.length : i # p =>
       /\ e[w[i]].next = IF i = p - 1 THEN l.elem[w[p]].next ELSE l.elem[w[i]].next
       /\ e[w[i]].prev = IF i = p + 1 THEN IF p = 1 THEN w[2] ELSE w[p - 1]
                         ELSE l.elem[w[i]].prev
  /\ first = IF p = 1 THEN w[2] ELSE l.first
  /\ last = IF p = l.length THEN w[p - 1] ELSE l.last

FrontOut(l, w, p) ==
  IF l.lastJailed # w[p] THEN l.lastJailed ELSE IF p = 1 THEN NoKey ELSE w[p - 1]

LEMMA TakenOutLists ==
  ASSUME NEW l, NEW w, NEW S, NEW J, Rep(l, w, S, J), NEW p \in 1..l.length, l.length > 1,
         NEW e, NEW first, NEW last, NEW jailed,
         TakenOut(l, w, p, e, first, last),
         jailed = FrontOut(l, w, p),
         NEW m, m = HeadOf(e, first, last, l.length - 1, jailed)
  PROVE  ListOf(m, S \ {w[p]}, J)
<1> USE DEF FrontOut
<1> DEFINE n == l.length
           n1 == l.length - 1
           v == [i \in 1..n1 |-> IF i < p THEN w[i] ELSE w[i + 1]]
<1>0. /\ NoKey \notin Key /\ n \in Nat /\ n1 \in Nat /\ n = n1 + 1 /\ n1 > 0
      /\ p \in Nat /\ p <= n /\ p > 0
      /\ w \in [1..n -> Key]
      /\ \A i, j \in 1..n : w[i] = w[j] => i = j
  BY StakingAssumption DEF Rep, Linked, WaitingLists
<1>1. /\ \A i \in 1..(p - 1) : i \in 1..n /\ i \in 1..n1 /\ v[i] = w[i]
      /\ \A i \in p .. n1 : i + 1 \in 1..n /\ i \in 1..n1 /\ v[i] = w[i + 1]
      /\ \A i \in 1..n1 : i \in 1..(p - 1) \/ i \in p .. n1
  BY <1>0
<1>2. v \in [1..n1 -> Key]
  BY <1>0
<1>3. /\ m \in WaitingLists /\ m.ok /\ m.elem = e /\ m.first = first /\ m.last = last
      /\ m.length = n1 /\ m.lastJailed = jailed
  <2>0. w[2] \in Key /\ (p # 1 => w[p - 1] \in Key)
    BY <1>0
  <2>1. e \in ElementMaps /\ first \in KeyOrNone /\ last \in KeyOrNone
    BY <1>0, <2>0 DEF TakenOut, Rep, WaitingLists, KeyOrNone
  <2>2. jailed \in KeyOrNone
    BY <2>0 DEF KeyOrNone, Rep, WaitingLists
  <2> HIDE DEF v, n
  <2>3. m = HeadOf(e, first, last, n1, jailed) /\ n1 \in Nat
    BY <1>0
  <2> HIDE DEF n1
  <2>4. QED
    BY <2>1, <2>2, <2>3, HeadFields
<1>4. Linked(m, v, S \ {w[p]})
  <2> HIDE DEF v, n, n1
  <2>1. \A i, j \in 1..n1 : v[i] = v[j] => i = j
    BY <1>0, <1>1
  <2>2. \A x \in Key : x \in S \ {w[p]} <=> \E i \in 1..n1 : v[i] = x
    <3>1. \A x \in Key : x \in S <=> \E i \in 1..n : w[i] = x
      BY DEF Rep, Linked, n
    <3>2. ASSUME NEW x \in Key, x \in S \ {w[p]} PROVE \E i \in 1..n1 : v[i] = x
      <4>1. PICK i \in 1..n : w[i] = x
        BY <3>1, <3>2
      <4>2. CASE i < p
        <5>1. i \in 1..(p - 1)
          BY <1>0, <4>2
        <5>2. QED
          BY <1>1, <4>1, <5>1
      <4>3. CASE i > p
        <5>1. i - 1 \in p .. n1 /\ (i - 1) + 1 = i
          BY <1>0, <4>3
        <5>2. i - 1 \in 1..n1 /\ v[i - 1] = w[i]
          BY <1>1, <5>1
        <5>3. QED
          BY <4>1, <5>2
      <4>4. QED
        BY <1>0, <3>2, <4>1, <4>2, <4>3
    <3>3. ASSUME NEW x \in Key, NEW i \in 1..n1, v[i] = x PROVE x \in S \ {w[p]}
      <4>1. CASE i \in 1..(p - 1)
        <5>1. x = w[i] /\ i \in 1..n /\ i # p /\ p \in 1..n
          BY <1>0, <1>1, <3>3, <4>1
        <5>2. QED
          BY <1>0, <3>1, <5>1
      <4>2. CASE i \in p .. n1
        <5>1. x = w[i + 1] /\ i + 1 \in 1..n /\ i + 1 # p /\ p \in 1..n
          BY <1>0, <1>1, <3>3, <4>2
        <5>2. QED
          BY <1>0, <3>1, <5>1
      <4>3. QED
        BY <1>1, <4>1, <4>2
    <3>4. QED
      BY <3>2, <3>3
  <2>3. \A x \in Key : e[x].stored <=> x \in S \ {w[p]}
    BY <1>0 DEF TakenOut, Rep, Linked
  <2>4. \A i \in 1..n : /\ l.elem[w[i]].next = IF i = n THEN NoKey ELSE w[i + 1]
                        /\ l.elem[w[i]].prev = IF i = 1 THEN w[1] ELSE w[i - 1]
    BY DEF Rep, Linked, n
  <2>5. \A i \in 1..n : i # p =>
          /\ e[w[i]].next = IF i = p - 1 THEN l.elem[w[p]].next ELSE l.elem[w[i]].next
          /\ e[w[i]].prev = IF i = p + 1 THEN IF p = 1 THEN w[2] ELSE w[p - 1]
                            ELSE l.elem[w[i]].prev
    BY DEF TakenOut, n
  <2>6. ASSUME NEW i \in 1..n1
        PROVE  /\ e[v[i]].next = IF i = n1 THEN NoKey ELSE v[i + 1]
               /\ e[v[i]].prev = IF i = 1 THEN v[1] ELSE v[i - 1]
    <3>1. CASE i \in 1..(p - 1)
      <4>1. i \in 1..n /\ v[i] = w[i] /\ i # p /\ i # p + 1 /\ i # n /\ p \in 1..n
        BY <1>0, <1>1, <3>1
      <4>2. e[w[i]].prev = l.elem[w[i]].prev
        BY <2>5, <4>1
      <4>3. e[w[i]].prev = IF i = 1 THEN v[1] ELSE v[i - 1]
        <5>1. CASE i = 1
          BY <2>4, <4>1, <4>2, <5>1
        <5>2. CASE i # 1
          <6>1. i - 1 \in 1..(p - 1)
            BY <1>0, <3>1, <5>2
          <6>2. v[i - 1] = w[i - 1]
            BY <1>1, <6>1
          <6>3. QED
            BY <2>4, <4>1, <4>2, <5>2, <6>2
        <5>3. QED
          BY <5>1, <5>2
      <4>4. e[w[i]].next = IF i = n1 THEN NoKey ELSE v[i + 1]
        <5>1. CASE i = p - 1
          <6>1. e[w[i]].next = l.elem[w[p]].next
            BY <2>5, <4>1, <5>1
          <6>2. l.elem[w[p]].next = IF p = n THEN NoKey ELSE w[p + 1]
            BY <2>4, <4>1
          <6>3. i # n1 => p \in p .. n1 /\ i + 1 = p
            BY <1>0, <5>1
          <6>4. i # n1 => v[i + 1] = w[p + 1]
            BY <1>1, <6>3
          <6>5. i = n1 <=> p = n
            BY <1>0, <5>1
          <6>6. QED
            BY <6>1, <6>2, <6>4, <6>5
        <5>2. CASE i # p - 1
          <6>1. i + 1 \in 1..(p - 1) /\ i # n1
            BY <1>0, <3>1, <5>2
          <6>2. v[i + 1] = w[i + 1]
            BY <1>1, <6>1
          <6>3. e[w[i]].next = l.elem[w[i]].next
            BY <2>5, <4>1, <5>2
          <6>4. QED
            BY <2>4, <4>1, <6>1, <6>2, <6>3
        <5>3. QED
          BY <5>1, <5>2
      <4>5. QED
        BY <4>1, <4>3, <4>4
    <3>2. CASE i \in p .. n1
      <4>1. i + 1 \in 1..n /\ v[i] = w[i + 1] /\ i + 1 # p /\ i + 1 # p - 1 /\ i + 1 # 1
        BY <1>0, <1>1, <3>2
      <4>2. e[w[i + 1]].next = l.elem[w[i + 1]].next
        BY <2>5, <4>1
      <4>3. e[w[i + 1]].next = IF i = n1 THEN NoKey ELSE v[i + 1]
        <5>1. CASE i = n1
          BY <1>0, <2>4, <4>1, <4>2, <5>1
        <5>2. CASE i # n1
          <6>1. i + 1 \in p .. n1 /\ i + 1 # n
            BY <1>0, <3>2, <5>2
          <6>2. v[i + 1] = w[(i + 1) + 1]
            BY <1>1, <6>1
          <6>3. QED
            BY <2>4, <4>1, <4>2, <5>2, <6>1, <6>2
        <5>3. QED
          BY <5>1, <5>2
      <4>4. e[w[i + 1]].prev = IF i = 1 THEN v[1] ELSE v[i - 1]
        <5>1. CASE i = p /\ p = 1
          <6>1. e[w[i + 1]].prev = w[2]
            BY <2>5, <4>1, <5>1
          <6>2. i + 1 = 2
            BY <5>1
          <6>3. QED
            BY <4>1, <5>1, <6>1, <6>2
        <5>2. CASE i = p /\ p # 1
          <6>1. e[w[i + 1]].prev = w[p - 1]
            BY <2>5, <4>1, <5>2
          <6>2. p - 1 \in 1..(p - 1)
            BY <1>0, <5>2
          <6>3. v[p - 1] = w[p - 1]
            BY <1>1, <6>2
          <6>4. QED
            BY <5>2, <6>1, <6>3
        <5>3. CASE i # p
          <6>1. i + 1 # p + 1 /\ i - 1 \in p .. n1 /\ (i - 1) + 1 = i /\ i # 1 /\ (i + 1) - 1 = i
            BY <1>0, <3>2, <5>3
          <6>2. v[i - 1] = w[i]
            BY <1>1, <6>1
          <6>3. e[w[i + 1]].prev = l.elem[w[i + 1]].prev
            BY <2>5, <4>1, <6>1
          <6>4. l.elem[w[i + 1]].prev = w[i]
            BY <2>4, <4>1, <6>1
          <6>5. QED
            BY <6>1, <6>2, <6>3, <6>4
        <5>4. QED
          BY <5>1, <5>2, <5>3
      <4>5. QED
        BY <4>1, <4>3, <4>4
    <3>3. QED
      BY <1>1, <3>1, <3>2
  <2>7. first = v[1] /\ last = v[n1]
    <3>1. l.first = w[1] /\ l.last = w[n]
      BY <1>0 DEF Rep, Linked, n
    <3>2. first = IF p = 1 THEN w[2] ELSE l.first
      BY DEF TakenOut
    <3>3. last = IF p = n THEN w[p - 1] ELSE l.last
      BY DEF TakenOut, n
    <3>4. first = v[1]
      BY <1>0, <1>1, <3>1, <3>2
    <3>5. last = v[n1]
      BY <1>0, <1>1, <3>1, <3>3
    <3>6. QED
      BY <3>4, <3>5
  <2>8. QED
    BY <1>2, <1>3, <2>1, <2>2, <2>3, <2>6, <2>7 DEF Linked
<1>5. Fronted(m, v, J)
  <2> HIDE DEF v, n, n1
  <2>1. SUFFICES ASSUME jailed # NoKey
                 PROVE  \E j \in 1..n1 : v[j] = jailed /\ \A i \in 1..j : v[i] \in J
    BY <1>3 DEF Fronted
  <2>2. l.lastJailed # NoKey
    BY <1>0, <2>1
  <2>3. PICK q \in 1..n : w[q] = l.lastJailed /\ \A i \in 1..q : w[i] \in J
    BY <2>2 DEF Rep, Fronted, n
  <2>4. CASE q < p
    <3>1. jailed = w[q]
      BY <1>0, <2>3, <2>4
    <3>2. q \in 1..(p - 1) /\ \A i \in 1..q : i \in 1..(p - 1)
      BY <1>0, <2>4
    <3>3. q \in 1..n1 /\ v[q] = w[q] /\ \A i \in 1..q : v[i] = w[i]
      BY <1>1, <3>2
    <3>4. QED
      BY <2>3, <3>1, <3>3
  <2>5. CASE q = p
    <3>1. p # 1 /\ jailed = w[p - 1]
      BY <2>1, <2>3, <2>5
    <3>2. p - 1 \in 1..(p - 1)
      BY <1>0, <3>1
    <3>3. p - 1 \in 1..n1 /\ \A i \in 1..(p - 1) : v[i] = w[i] /\ i \in 1..q
      BY <1>0, <1>1, <2>5, <3>2
    <3>4. QED
      BY <2>3, <3>1, <3>2, <3>3
  <2>6. CASE q > p
    <3>1. jailed = w[q]
      BY <1>0, <2>3, <2>6
    <3>2. q - 1 \in p .. n1 /\ (q - 1) + 1 = q
      BY <1>0, <2>6
    <3>3. q - 1 \in 1..n1 /\ v[q - 1] = w[q]
      BY <1>1, <3>2
    <3>4. \A i \in 1..(q - 1) : v[i] \in J
      <4>1. TAKE i \in 1..(q - 1)
      <4>2. CASE i \in 1..(p - 1)
        <5>1. v[i] = w[i] /\ i \in 1..q
          BY <1>0, <1>1, <4>2
        <5>2. QED
          BY <2>3, <5>1
      <4>3. CASE i \in p .. n1
        <5>1. v[i] = w[i + 1] /\ i + 1 \in 1..q
          BY <1>0, <1>1, <4>3
        <5>2. QED
          BY <2>3, <5>1
      <4>4. QED
        BY <1>0, <1>1, <4>2, <4>3
    <3>5. QED
      BY <3>1, <3>3, <3>4
  <2>7. QED
    BY <1>0, <2>4, <2>5, <2>6
<1>6. QED
  BY <1>3, <1>4, <1>5 DEF ListOf, Rep

-----------------------------------------------------------------------------
(* Adding a key. *)

(* The element maps after an element was written, and its neighbours' pointers. *)
WriteOne(f, k, a, b) == [f EXCEPT ![k] = Element(a, b)]
WriteNext(f, y, k, a, b) == [f EXCEPT ![y].next = k, ![k] = Element(a, b)]
WritePrev(f, y, k, a, b) == [f EXCEPT ![y].prev = k, ![k] = Element(a, b)]
WriteBoth(f, y, z, k, a, b) ==
  [f EXCEPT ![y].next = k, ![z].prev = k, ![k] = Element(a, b)]

(* What the helpers that add a key make of a list, its fields written out. *)
LEMMA StartShape ==
  ASSUME NEW l \in WaitingLists, l.ok, NEW k, NEW a, NEW m, m = startWaitingList(l, k, a),
         NEW jailed, jailed = IF a THEN k ELSE l.lastJailed
  PROVE  m = HeadOf(WriteOne(l.elem, k, k, NoKey), k, k, 1, jailed)
BY DEF WaitingLists, startWaitingList, HeadOf, WriteOne, WriteNext, WritePrev, WriteBoth

LEMMA EndShape ==
  ASSUME NEW l \in WaitingLists, l.ok, NEW k, InStore(l, l.last),
         NEW m, m = addToEndOfTheList(l, k)
  PROVE  m = HeadOf(WriteNext(l.elem, l.last, k, l.last, NoKey),
                    l.first, k, l.length + 1, l.lastJailed)
BY DEF WaitingLists, addToEndOfTheList, HeadOf, WriteOne, WriteNext, WritePrev, WriteBoth

LEMMA FirstShape ==
  ASSUME NEW l \in WaitingLists, l.ok, NEW k, InStore(l, l.first),
         NEW m, m = insertBeforeFirst(l, k)
  PROVE  m = HeadOf(WritePrev(l.elem, l.first, k, k, l.first),
                    k, l.last, l.length + 1, k)
BY DEF WaitingLists, insertBeforeFirst, HeadOf, WriteOne, WriteNext, WritePrev, WriteBoth

LEMMA JailedLastShape ==
  ASSUME NEW l \in WaitingLists, l.ok, NEW k, InStore(l, l.last), l.last = l.lastJailed,
         NEW m, m = insertAfterLastJailed(l, k)
  PROVE  m = HeadOf(WriteNext(l.elem, l.last, k, l.last, NoKey),
                    l.first, k, l.length + 1, k)
BY DEF WaitingLists, insertAfterLastJailed, addToEndOfTheList, InStore, HeadOf, WriteOne, WriteNext, WritePrev, WriteBoth

LEMMA JailedInnerShape ==
  ASSUME NEW l \in WaitingLists, l.ok, NEW k, NEW x, NEW y, x = l.lastJailed,
         InStore(l, x), l.last # x, y = l.elem[x].next, InStore(l, y),
         NEW m, m = insertAfterLastJailed(l, k)
  PROVE  m = HeadOf(WriteBoth(l.elem, x, y, k, x, y),
                    l.first, l.last, l.length + 1, k)
BY DEF WaitingLists, insertAfterLastJailed, InStore, HeadOf, WriteOne, WriteNext, WritePrev, WriteBoth

(* Element maps after a write, field by field. *)
LEMMA OneWritten ==
  ASSUME NEW f \in ElementMaps, NEW k \in Key, NEW a \in KeyOrNone, NEW b \in KeyOrNone,
         NEW e, e = WriteOne(f, k, a, b)
  PROVE  /\ e \in ElementMaps
         /\ e[k].stored /\ e[k].prev = a /\ e[k].next = b
         /\ \A x \in Key : x # k => e[x] = f[x]
BY DEF ElementMaps, Elements, Element, WriteOne, WriteNext, WritePrev

NextWrote(e, f, y, k, a, b) ==
  /\ e \in ElementMaps
  /\ e[k].stored /\ e[k].prev = a /\ e[k].next = b
  /\ e[y].next = k /\ e[y].prev = f[y].prev /\ (e[y].stored <=> f[y].stored)
  /\ \A x \in Key : x # k /\ x # y => e[x] = f[x]

LEMMA NextWritten ==
  ASSUME NEW f \in ElementMaps, NEW k \in Key, NEW a \in KeyOrNone, NEW b \in KeyOrNone,
         k \in KeyOrNone, NEW y \in Key, y # k, NEW e, e = WriteNext(f, y, k, a, b)
  PROVE  NextWrote(e, f, y, k, a, b)
BY DEF ElementMaps, Elements, Element, WriteNext, NextWrote

LEMMA PrevWritten ==
  ASSUME NEW f \in ElementMaps, NEW k \in Key, NEW a \in KeyOrNone, NEW b \in KeyOrNone,
         k \in KeyOrNone, NEW y \in Key, y # k,
         NEW e, e = WritePrev(f, y, k, a, b)
  PROVE  /\ e \in ElementMaps
         /\ e[k].stored /\ e[k].prev = a /\ e[k].next = b
         /\ e[y].prev = k /\ e[y].next = f[y].next /\ (e[y].stored <=> f[y].stored)
         /\ \A x \in Key : x # k /\ x # y => e[x] = f[x]
BY DEF ElementMaps, Elements, Element, WriteOne, WriteNext, WritePrev

BothWrote(e, f, y, z, k, a, b) ==
  /\ e \in ElementMaps
  /\ e[k].stored /\ e[k].prev = a /\ e[k].next = b
  /\ e[y].next = k /\ e[y].prev = f[y].prev /\ (e[y].stored <=> f[y].stored)
  /\ e[z].prev = k /\ e[z].next = f[z].next /\ (e[z].stored <=> f[z].stored)
  /\ \A x \in Key : x # k /\ x # y /\ x # z => e[x] = f[x]

LEMMA BothWritten ==
  ASSUME NEW f \in ElementMaps, NEW k \in Key, NEW a \in KeyOrNone, NEW b \in KeyOrNone,
         NEW y \in Key, y # k, NEW z \in Key, z # k, z # y,
         NEW e, e = WriteBoth(f, y, z, k, a, b)
  PROVE  BothWrote(e, f, y, z, k, a, b)
BY DEF ElementMaps, Elements, Element, KeyOrNone, WriteBoth, BothWrote

(* What Rep says of the ends and the places of a list. *)
LEMMA RepFacts ==
  ASSUME NEW l, NEW w, NEW S, NEW J, Rep(l, w, S, J)
  PROVE  /\ l \in WaitingLists /\ l.ok /\ l.length \in Nat /\ l.elem \in ElementMaps
         /\ l.lastJailed \in KeyOrNone /\ S \subseteq Key /\ NoKey \notin Key
         /\ w \in [1..l.length -> Key]
         /\ \A i, j \in 1..l.length : w[i] = w[j] => i = j
         /\ \A i \in 1..l.length : w[i] \in S /\ w[i] \in Key /\ InStore(l, w[i])
         /\ \A k \in Key : InStore(l, k) <=> k \in S
         /\ \A k \in S : \E i \in 1..l.length : w[i] = k
         /\ \A i \in 1..l.length :
              /\ l.elem[w[i]].next = IF i = l.length THEN NoKey ELSE w[i + 1]
              /\ l.elem[w[i]].prev = IF i = 1 THEN w[1] ELSE w[i - 1]
         /\ l.length > 0 => l.first = w[1] /\ l.last = w[l.length]
<1>1. /\ l \in WaitingLists /\ l.ok /\ S \subseteq Key /\ NoKey \notin Key /\ Linked(l, w, S)
  BY StakingAssumption DEF Rep
<1>2. /\ l.length \in Nat /\ l.elem \in ElementMaps /\ l.lastJailed \in KeyOrNone
  BY <1>1 DEF WaitingLists
<1>3. /\ w \in [1..l.length -> Key]
      /\ \A i, j \in 1..l.length : w[i] = w[j] => i = j
      /\ \A k \in Key : k \in S <=> \E i \in 1..l.length : w[i] = k
      /\ \A k \in Key : l.elem[k].stored <=> k \in S
      /\ \A i \in 1..l.length :
           /\ l.elem[w[i]].next = IF i = l.length THEN NoKey ELSE w[i + 1]
           /\ l.elem[w[i]].prev = IF i = 1 THEN w[1] ELSE w[i - 1]
      /\ l.length > 0 => l.first = w[1] /\ l.last = w[l.length]
  BY <1>1 DEF Linked
<1>4. \A k \in Key : InStore(l, k) <=> k \in S
  BY <1>1, <1>3 DEF InStore
<1>5. \A i \in 1..l.length : w[i] \in S /\ w[i] \in Key /\ InStore(l, w[i])
  BY <1>3, <1>4
<1>6. \A k \in S : \E i \in 1..l.length : w[i] = k
  BY <1>1, <1>3
<1>7. QED
  BY <1>1, <1>2, <1>3, <1>4, <1>5, <1>6

LEMMA AddedLists ==
  ASSUME NEW l, NEW S, NEW J, ListOf(l, S, J), NEW k \in Key, NEW a \in BOOLEAN,
         a => k \in J, NEW m, m = addToWaitingList(l, k, a)
  PROVE  ListOf(m, S \cup {k}, J)
<1>1. PICK w : Rep(l, w, S, J)
  BY DEF ListOf
<1> DEFINE n == l.length
<1>2. /\ l \in WaitingLists /\ l.ok /\ n \in Nat /\ l.elem \in ElementMaps
      /\ l.lastJailed \in KeyOrNone /\ S \subseteq Key /\ NoKey \notin Key
      /\ w \in [1..n -> Key]
      /\ \A i, j \in 1..n : w[i] = w[j] => i = j
      /\ \A i \in 1..n : w[i] \in S /\ w[i] \in Key /\ InStore(l, w[i])
      /\ \A x \in Key : InStore(l, x) <=> x \in S
      /\ \A i \in 1..n : l.elem[w[i]].next = IF i = n THEN NoKey ELSE w[i + 1]
      /\ n > 0 => l.first = w[1] /\ l.last = w[n]
  BY <1>1, RepFacts
<1>3. l.lastJailed # NoKey =>
         \E j \in 1..n : w[j] = l.lastJailed /\ \A i \in 1..j : w[i] \in J
  BY <1>1 DEF Rep, Fronted
<1> HIDE DEF n
<1>4. CASE k \in S
  <2>1. m = l /\ S \cup {k} = S
    BY <1>2, <1>4 DEF addToWaitingList
  <2>2. QED
    BY <2>1
<1>5. CASE k \notin S /\ n = 0
  <2>1. m = startWaitingList(l, k, a)
    BY <1>2, <1>5 DEF addToWaitingList, n
  <2>2. l.lastJailed = NoKey
    BY <1>2, <1>3, <1>5
  <2>3. PICK e : e = WriteOne(l.elem, k, k, NoKey)
    OBVIOUS
  <2>4. PICK jailed : jailed = IF a THEN k ELSE l.lastJailed
    OBVIOUS
  <2>5. m = HeadOf(e, k, k, l.length + 1, jailed)
    <3>1. l.length + 1 = 1
      BY <1>5 DEF n
    <3>2. m = HeadOf(e, k, k, 1, jailed)
      BY <1>2, <2>1, <2>3, <2>4, StartShape
    <3>3. QED
      BY <3>1, <3>2
  <2>6. /\ e \in ElementMaps /\ e[k].stored /\ e[k].prev = k /\ e[k].next = NoKey
        /\ \A x \in Key : x # k => e[x] = l.elem[x]
    <3>1. PICK f : f = l.elem
      OBVIOUS
    <3>2. f \in ElementMaps /\ k \in KeyOrNone /\ NoKey \in KeyOrNone
      BY <1>2, <3>1 DEF KeyOrNone
    <3>3. /\ e \in ElementMaps /\ e[k].stored /\ e[k].prev = k /\ e[k].next = NoKey
          /\ \A x \in Key : x # k => e[x] = f[x]
      BY <2>3, <3>1, <3>2, OneWritten
    <3>4. QED
      BY <3>1, <3>3
  <2>7. Inserted(l, w, k, 0, e, k, k)
    BY <1>5, <2>6 DEF Inserted, n
  <2>8. 0 \in 0..l.length /\ \A i \in 1..0 : w[i] \in J
    BY <1>2, <1>5 DEF n
  <2>9. QED
    BY <1>1, <1>5, <2>2, <2>4, <2>5, <2>7, <2>8, InsertedLists
<1>6. CASE k \notin S /\ n # 0 /\ ~a
  <2>1. InStore(l, l.last) /\ l.last = w[n] /\ n \in 1..n
    BY <1>2, <1>6
  <2>2. m = addToEndOfTheList(l, k)
    BY <1>2, <1>6 DEF addToWaitingList, n
  <2>3. PICK e : e = WriteNext(l.elem, l.last, k, l.last, NoKey)
    OBVIOUS
  <2>4. m = HeadOf(e, l.first, k, l.length + 1, l.lastJailed)
    BY <1>2, <2>1, <2>2, <2>3, EndShape
  <2>5. w[n] \in Key /\ w[n] # k /\ \A i \in 1..n : w[i] # k
    BY <1>2, <1>6, <2>1
  <2>6. /\ e \in ElementMaps /\ e[k].stored /\ e[k].prev = w[n] /\ e[k].next = NoKey
        /\ e[w[n]].next = k /\ e[w[n]].prev = l.elem[w[n]].prev
        /\ (e[w[n]].stored <=> l.elem[w[n]].stored)
        /\ \A x \in Key : x # k /\ x # w[n] => e[x] = l.elem[x]
    <3>1. PICK y : y = w[n]
      OBVIOUS
    <3>2. PICK f : f = l.elem
      OBVIOUS
    <3>3. /\ f \in ElementMaps /\ y \in Key /\ y # k
          /\ y \in KeyOrNone /\ NoKey \in KeyOrNone /\ k \in KeyOrNone
      BY <1>2, <2>5, <3>1, <3>2 DEF KeyOrNone
    <3>4. e = WriteNext(f, y, k, y, NoKey)
      BY <2>1, <2>3, <3>1, <3>2
    <3>5. NextWrote(e, f, y, k, y, NoKey)
      BY <3>3, <3>4, NextWritten
    <3>6. QED
      BY <3>1, <3>2, <3>5 DEF NextWrote
  <2>7. Inserted(l, w, k, n, e, l.first, k)
    <3>1. \A x \in Key : x # k => (e[x].stored <=> l.elem[x].stored)
      BY <2>6
    <3>2. ASSUME NEW i \in 1..n
          PROVE  /\ e[w[i]].next = IF i = n THEN k ELSE l.elem[w[i]].next
                 /\ e[w[i]].prev = IF i = n + 1 THEN k ELSE l.elem[w[i]].prev
      <4>0. i # n + 1
        BY <1>2
      <4>1. CASE i = n
        BY <2>6, <4>0, <4>1
      <4>2. CASE i # n
        <5>1. e[w[i]] = l.elem[w[i]]
          BY <1>2, <2>1, <2>5, <2>6, <4>2
        <5>2. QED
          BY <4>0, <4>2, <5>1
      <4>3. QED
        BY <4>1, <4>2
    <3>3. QED
      BY <1>6, <2>6, <3>1, <3>2 DEF Inserted, n
  <2>8. n \in 0..l.length
    BY <1>2 DEF n
  <2>9. QED
    BY <1>1, <1>3, <1>6, <2>4, <2>7, <2>8, InsertedLists
<1>7. CASE k \notin S /\ n # 0 /\ a /\ l.lastJailed = NoKey
  <2>1. InStore(l, l.first) /\ l.first = w[1] /\ 1 \in 1..n
    BY <1>2, <1>7
  <2>2. m = insertBeforeFirst(l, k)
    BY <1>2, <1>7 DEF addToWaitingList, insertAfterLastJailed, n
  <2>3. PICK e : e = WritePrev(l.elem, l.first, k, k, l.first)
    OBVIOUS
  <2>4. m = HeadOf(e, k, l.last, l.length + 1, k)
    BY <1>2, <2>1, <2>2, <2>3, FirstShape
  <2>5. w[1] \in Key /\ w[1] # k /\ \A i \in 1..n : w[i] # k
    BY <1>2, <1>7, <2>1
  <2>6. /\ e \in ElementMaps /\ e[k].stored /\ e[k].prev = k /\ e[k].next = w[1]
        /\ e[w[1]].prev = k /\ e[w[1]].next = l.elem[w[1]].next
        /\ (e[w[1]].stored <=> l.elem[w[1]].stored)
        /\ \A x \in Key : x # k /\ x # w[1] => e[x] = l.elem[x]
    <3>1. PICK y : y = w[1]
      OBVIOUS
    <3>2. PICK f : f = l.elem
      OBVIOUS
    <3>3. f \in ElementMaps /\ y \in Key /\ y # k /\ y \in KeyOrNone /\ k \in KeyOrNone
      BY <1>2, <2>5, <3>1, <3>2 DEF KeyOrNone
    <3>4. e = WritePrev(f, y, k, k, y)
      BY <2>1, <2>3, <3>1, <3>2
    <3>5. /\ e \in ElementMaps /\ e[k].stored /\ e[k].prev = k /\ e[k].next = y
          /\ e[y].prev = k /\ e[y].next = f[y].next /\ (e[y].stored <=> f[y].stored)
          /\ \A x \in Key : x # k /\ x # y => e[x] = f[x]
      BY <3>3, <3>4, PrevWritten
    <3>6. QED
      BY <3>1, <3>2, <3>5
  <2>7. Inserted(l, w, k, 0, e, k, l.last)
    <3>1. \A x \in Key : x # k => (e[x].stored <=> l.elem[x].stored)
      BY <2>6
    <3>2. ASSUME NEW i \in 1..n
          PROVE  /\ e[w[i]].next = IF i = 0 THEN k ELSE l.elem[w[i]].next
                 /\ e[w[i]].prev = IF i = 0 + 1 THEN k ELSE l.elem[w[i]].prev
      <4>0. i # 0 /\ 0 + 1 = 1
        BY <1>2
      <4>1. CASE i = 1
        BY <2>6, <4>0, <4>1
      <4>2. CASE i # 1
        <5>1. e[w[i]] = l.elem[w[i]]
          BY <1>2, <2>1, <2>5, <2>6, <4>2
        <5>2. QED
          BY <4>0, <4>2, <5>1
      <4>3. QED
        BY <4>1, <4>2
    <3>3. QED
      BY <1>7, <2>6, <3>1, <3>2 DEF Inserted, n
  <2>8. 0 \in 0..l.length /\ \A i \in 1..0 : w[i] \in J
    BY <1>2 DEF n
  <2>9. QED
    BY <1>1, <1>7, <2>4, <2>7, <2>8, InsertedLists
<1>8. CASE k \notin S /\ n # 0 /\ a /\ l.lastJailed # NoKey
  <2>1. PICK j \in 1..n : w[j] = l.lastJailed /\ \A i \in 1..j : w[i] \in J
    BY <1>3, <1>8
  <2>2. m = insertAfterLastJailed(l, k) /\ k \in J
    BY <1>2, <1>8 DEF addToWaitingList, n
  <2>3. \A i \in 1..n : w[i] # k
    BY <1>2, <1>8
  <2>4. l.last = w[n] /\ n \in 1..n /\ j \in 0..l.length
    BY <1>2, <1>8, <2>1 DEF n
  <2>5. CASE j = n
    <3>1. InStore(l, l.last) /\ l.last = l.lastJailed
      BY <1>2, <2>1, <2>4, <2>5
    <3>2. PICK e : e = WriteNext(l.elem, l.last, k, l.last, NoKey)
      OBVIOUS
    <3>3. m = HeadOf(e, l.first, k, l.length + 1, k)
      BY <1>2, <2>2, <3>1, <3>2, JailedLastShape
    <3>4. w[n] \in Key /\ w[n] # k
      BY <1>2, <2>3, <2>4
    <3>5. /\ e \in ElementMaps /\ e[k].stored /\ e[k].prev = w[n] /\ e[k].next = NoKey
          /\ e[w[n]].next = k /\ e[w[n]].prev = l.elem[w[n]].prev
          /\ (e[w[n]].stored <=> l.elem[w[n]].stored)
          /\ \A x \in Key : x # k /\ x # w[n] => e[x] = l.elem[x]
      <4>1. PICK y : y = w[n]
        OBVIOUS
      <4>2. PICK f : f = l.elem
        OBVIOUS
      <4>3. /\ f \in ElementMaps /\ y \in Key /\ y # k
            /\ y \in KeyOrNone /\ NoKey \in KeyOrNone /\ k \in KeyOrNone
        BY <1>2, <3>4, <4>1, <4>2 DEF KeyOrNone
      <4>4. e = WriteNext(f, y, k, y, NoKey)
        BY <2>4, <3>2, <4>1, <4>2
      <4>5. NextWrote(e, f, y, k, y, NoKey)
        BY <4>3, <4>4, NextWritten
      <4>6. QED
        BY <4>1, <4>2, <4>5 DEF NextWrote
    <3>6. Inserted(l, w, k, j, e, l.first, k)
      <4>1. \A x \in Key : x # k => (e[x].stored <=> l.elem[x].stored)
        BY <3>5
      <4>2. ASSUME NEW i \in 1..n
            PROVE  /\ e[w[i]].next = IF i = n THEN k ELSE l.elem[w[i]].next
                   /\ e[w[i]].prev = IF i = n + 1 THEN k ELSE l.elem[w[i]].prev
        <5>0. i # n + 1
          BY <1>2
        <5>1. CASE i = n
          BY <3>5, <5>0, <5>1
        <5>2. CASE i # n
          <6>1. e[w[i]] = l.elem[w[i]]
            BY <1>2, <2>3, <2>4, <3>5, <5>2
          <6>2. QED
            BY <5>0, <5>2, <6>1
        <5>3. QED
          BY <5>1, <5>2
      <4>3. QED
        BY <1>8, <2>5, <3>5, <4>1, <4>2 DEF Inserted, n
    <3>7. QED
      BY <1>1, <1>8, <2>1, <2>2, <2>4, <3>3, <3>6, InsertedLists
  <2>6. CASE j # n
    <3>1. j \in 1..n /\ j + 1 \in 1..n /\ j # j + 1 /\ n \in Nat /\ j # 0 /\ j \in Nat
      BY <1>2, <2>1, <2>6
    <3>2. PICK x : x = w[j]
      OBVIOUS
    <3>3. PICK y : y = w[j + 1]
      OBVIOUS
    <3>4. /\ x \in Key /\ y \in Key /\ x # y /\ x # k /\ y # k
          /\ x = l.lastJailed /\ InStore(l, x) /\ l.last # x /\ y = l.elem[x].next
          /\ InStore(l, y)
      BY <1>2, <2>1, <2>3, <2>4, <2>6, <3>1, <3>2, <3>3
    <3>5. PICK e : e = WriteBoth(l.elem, x, y, k, x, y)
      OBVIOUS
    <3>6. m = HeadOf(e, l.first, l.last, l.length + 1, k)
      BY <1>2, <2>2, <3>4, <3>5, JailedInnerShape
    <3>7. /\ e \in ElementMaps /\ e[k].stored /\ e[k].prev = x /\ e[k].next = y
          /\ e[x].next = k /\ e[x].prev = l.elem[x].prev /\ (e[x].stored <=> l.elem[x].stored)
          /\ e[y].prev = k /\ e[y].next = l.elem[y].next /\ (e[y].stored <=> l.elem[y].stored)
          /\ \A z \in Key : z # k /\ z # x /\ z # y => e[z] = l.elem[z]
      <4>1. PICK f : f = l.elem
        OBVIOUS
      <4>2. f \in ElementMaps /\ x \in KeyOrNone /\ y \in KeyOrNone
        BY <1>2, <3>4, <4>1 DEF KeyOrNone
      <4>3. e = WriteBoth(f, x, y, k, x, y)
        BY <3>5, <4>1
      <4>4. BothWrote(e, f, x, y, k, x, y)
        BY <3>4, <4>2, <4>3, BothWritten
      <4>5. QED
        BY <4>1, <4>4 DEF BothWrote
    <3>8. Inserted(l, w, k, j, e, l.first, l.last)
      <4>1. \A z \in Key : z # k => (e[z].stored <=> l.elem[z].stored)
        BY <3>7
      <4>2. ASSUME NEW i \in 1..n
            PROVE  /\ e[w[i]].next = IF i = j THEN k ELSE l.elem[w[i]].next
                   /\ e[w[i]].prev = IF i = j + 1 THEN k ELSE l.elem[w[i]].prev
        <5>1. CASE i = j
          BY <3>1, <3>2, <3>7, <5>1
        <5>2. CASE i = j + 1
          BY <3>1, <3>3, <3>7, <5>2
        <5>3. CASE i # j /\ i # j + 1
          <6>1. w[i] \in Key /\ w[i] # x /\ w[i] # y
            BY <1>2, <3>1, <3>2, <3>3, <5>3
          <6>2. e[w[i]] = l.elem[w[i]]
            BY <2>3, <3>7, <6>1
          <6>3. QED
            BY <5>3, <6>2
        <5>4. QED
          BY <5>1, <5>2, <5>3
      <4>3. QED
        BY <2>6, <3>1, <3>2, <3>3, <3>7, <4>1, <4>2 DEF Inserted, n
    <3>9. QED
      BY <1>1, <1>8, <2>1, <2>2, <2>4, <3>6, <3>8, InsertedLists
  <2>7. QED
    BY <2>5, <2>6
<1>9. QED
  BY <1>4, <1>5, <1>6, <1>7, <1>8

-----------------------------------------------------------------------------
(* Removing a key. *)

(* The element maps after an element was deleted, and its neighbours joined. *)
Drop(f, k) == [f EXCEPT ![k] = Missing]
SetPrev(f, y, a) == [f EXCEPT ![y].prev = a]
SetNext(f, y, a) == [f EXCEPT ![y].next = a]
Join(f, x, y) == [f EXCEPT ![y].prev = x, ![x].next = y]

PrevSet(e, f, k, y, a) ==
  /\ e \in ElementMaps /\ ~e[k].stored
  /\ e[y].prev = a /\ e[y].next = f[y].next /\ (e[y].stored <=> f[y].stored)
  /\ \A x \in Key : x # k /\ x # y => e[x] = f[x]

NextSet(e, f, k, y, a) ==
  /\ e \in ElementMaps /\ ~e[k].stored
  /\ e[y].next = a /\ e[y].prev = f[y].prev /\ (e[y].stored <=> f[y].stored)
  /\ \A x \in Key : x # k /\ x # y => e[x] = f[x]

Joined(e, f, k, y, z) ==
  /\ e \in ElementMaps /\ ~e[k].stored
  /\ e[y].next = z /\ e[y].prev = f[y].prev /\ (e[y].stored <=> f[y].stored)
  /\ e[z].prev = y /\ e[z].next = f[z].next /\ (e[z].stored <=> f[z].stored)
  /\ \A x \in Key : x # k /\ x # y /\ x # z => e[x] = f[x]

LEMMA Dropped ==
  ASSUME NEW f \in ElementMaps, NEW k \in Key, NEW e, e = Drop(f, k)
  PROVE  /\ e \in ElementMaps /\ ~e[k].stored
         /\ \A x \in Key : x # k => e[x] = f[x]
BY DEF ElementMaps, Elements, KeyOrNone, Missing, Drop

LEMMA PrevIsSet ==
  ASSUME NEW f \in ElementMaps, NEW k \in Key, NEW y \in Key, y # k, NEW a \in KeyOrNone,
         NEW g, g = Drop(f, k), NEW e, e = SetPrev(g, y, a)
  PROVE  PrevSet(e, f, k, y, a)
<1>1. /\ g \in ElementMaps /\ ~g[k].stored
      /\ \A x \in Key : x # k => g[x] = f[x]
  BY Dropped
<1>2. QED
  BY <1>1 DEF ElementMaps, Elements, SetPrev, PrevSet

LEMMA NextIsSet ==
  ASSUME NEW f \in ElementMaps, NEW k \in Key, NEW y \in Key, y # k, NEW a \in KeyOrNone,
         NEW g, g = Drop(f, k), NEW e, e = SetNext(g, y, a)
  PROVE  NextSet(e, f, k, y, a)
<1>1. /\ g \in ElementMaps /\ ~g[k].stored
      /\ \A x \in Key : x # k => g[x] = f[x]
  BY Dropped
<1>2. QED
  BY <1>1 DEF ElementMaps, Elements, SetNext, NextSet

LEMMA AreJoined ==
  ASSUME NEW f \in ElementMaps, NEW k \in Key, NEW y \in Key, y # k,
         NEW z \in Key, z # k, z # y, NEW g, g = Drop(f, k), NEW e, e = Join(g, y, z)
  PROVE  Joined(e, f, k, y, z)
<1>1. /\ g \in ElementMaps /\ ~g[k].stored
      /\ \A x \in Key : x # k => g[x] = f[x]
  BY Dropped
<1>2. QED
  BY <1>1 DEF ElementMaps, Elements, KeyOrNone, Join, Joined

(* What the helpers that remove a key make of a list. *)
LEMMA RemoveOnlyShape ==
  ASSUME NEW l \in WaitingLists, l.ok, NEW k, InStore(l, k), l.length = 1,
         NEW m, m = removeFromWaitingList(l, k)
  PROVE  m = HeadOf(Drop(l.elem, k), NoKey, NoKey, 0, NoKey)
BY DEF WaitingLists, removeFromWaitingList, EmptyHead, HeadOf, Drop

LEMMA WithoutShape ==
  ASSUME NEW l \in WaitingLists, l.ok, NEW k, NEW r,
         r = [l EXCEPT !.elem = [@ EXCEPT ![k] = Missing], !.length = @ - 1]
  PROVE  r = HeadOf(Drop(l.elem, k), l.first, l.last, l.length - 1, l.lastJailed)
BY DEF WaitingLists, HeadOf, Drop

LEMMA RemoveShape ==
  ASSUME NEW l \in WaitingLists, l.ok, NEW k, InStore(l, k), l.length > 1,
         NEW rest, rest = HeadOf(Drop(l.elem, k), l.first, l.last, l.length - 1, l.lastJailed),
         NEW m, m = removeFromWaitingList(l, k),
         NEW a, a = l.elem[k].next, NEW b, b = l.elem[k].prev
  PROVE  m = IF l.first = k THEN removeFirst(rest, k, a)
             ELSE IF a = NoKey THEN removeLast(rest, k, b)
             ELSE removeInner(rest, k, b, a)
<1>0. PICK r : r = [l EXCEPT !.elem = [@ EXCEPT ![k] = Missing], !.length = @ - 1]
  OBVIOUS
<1>1. r = rest
  BY <1>0, WithoutShape
<1>2. l.length # 0 /\ l.length # 1
  BY DEF WaitingLists
<1>3. QED
  BY <1>0, <1>1, <1>2 DEF removeFromWaitingList

LEMMA RemoveFirstShape ==
  ASSUME NEW e, NEW first, NEW last, NEW n, NEW jailed, NEW rest,
         rest = HeadOf(e, first, last, n, jailed), NEW k, NEW a, a # NoKey, e[a].stored,
         NEW m, m = removeFirst(rest, k, a), NEW j, j = IF jailed = k THEN NoKey ELSE jailed
  PROVE  m = HeadOf(SetPrev(e, a, a), a, last, n, j)
BY DEF removeFirst, InStore, HeadOf, SetPrev

LEMMA RemoveLastShape ==
  ASSUME NEW e, NEW first, NEW last, NEW n, NEW jailed, NEW rest,
         rest = HeadOf(e, first, last, n, jailed), NEW k, NEW b, b # NoKey, e[b].stored,
         NEW m, m = removeLast(rest, k, b), NEW j, j = IF jailed = k THEN b ELSE jailed
  PROVE  m = HeadOf(SetNext(e, b, NoKey), first, b, n, j)
BY DEF removeLast, InStore, HeadOf, SetNext

LEMMA RemoveInnerShape ==
  ASSUME NEW e, NEW first, NEW last, NEW n, NEW jailed, NEW rest,
         rest = HeadOf(e, first, last, n, jailed), NEW k, NEW a, a # NoKey, e[a].stored,
         NEW b, b # NoKey, e[b].stored,
         NEW m, m = removeInner(rest, k, b, a), NEW j, j = IF jailed = k THEN b ELSE jailed
  PROVE  m = HeadOf(Join(e, b, a), first, last, n, j)
BY DEF removeInner, InStore, HeadOf, Join

LEMMA RemovedLists ==
  ASSUME NEW l, NEW S, NEW J, ListOf(l, S, J), NEW k \in Key,
         NEW m, m = removeFromWaitingList(l, k)
  PROVE  ListOf(m, S \ {k}, J)
<1>1. PICK w : Rep(l, w, S, J)
  BY DEF ListOf
<1> DEFINE n == l.length
<1>2. /\ l \in WaitingLists /\ l.ok /\ n \in Nat /\ l.elem \in ElementMaps
      /\ l.lastJailed \in KeyOrNone /\ S \subseteq Key /\ NoKey \notin Key
      /\ w \in [1..n -> Key]
      /\ \A i, j \in 1..n : w[i] = w[j] => i = j
      /\ \A i \in 1..n : w[i] \in S /\ w[i] \in Key /\ InStore(l, w[i])
      /\ \A x \in Key : InStore(l, x) <=> x \in S
      /\ \A x \in S : \E i \in 1..n : w[i] = x
      /\ \A i \in 1..n : /\ l.elem[w[i]].next = IF i = n THEN NoKey ELSE w[i + 1]
                         /\ l.elem[w[i]].prev = IF i = 1 THEN w[1] ELSE w[i - 1]
      /\ n > 0 => l.first = w[1] /\ l.last = w[n]
  BY <1>1, RepFacts
<1> HIDE DEF n
<1>3. CASE k \notin S
  <2>1. m = l /\ S \ {k} = S
    BY <1>2, <1>3 DEF removeFromWaitingList
  <2>2. QED
    BY <2>1
<1>4. ASSUME k \in S PROVE ListOf(m, S \ {k}, J)
  <2>1. PICK p \in 1..n : w[p] = k
    BY <1>2, <1>4
  <2>2. InStore(l, k)
    BY <1>2, <1>4
  <2>3. CASE n = 1
    <3>0. PICK f : f = l.elem
      OBVIOUS
    <3>1. PICK e : e = Drop(f, k)
      OBVIOUS
    <3>2. m = HeadOf(e, NoKey, NoKey, 0, NoKey)
      BY <1>2, <2>2, <2>3, <3>0, <3>1, RemoveOnlyShape DEF n
    <3>3. /\ e \in ElementMaps /\ ~e[k].stored
          /\ \A x \in Key : x # k => e[x] = f[x]
      <4>1. f \in ElementMaps
        BY <1>2, <3>0
      <4>2. QED
        BY <3>1, <4>1, Dropped
    <3>4. /\ m \in WaitingLists /\ m.ok /\ m.elem = e /\ m.length = 0
          /\ m.lastJailed = NoKey
      <4>1. NoKey \in KeyOrNone /\ 0 \in Nat
        BY DEF KeyOrNone
      <4>2. QED
        BY <3>2, <3>3, <4>1, HeadFields
    <3>5. \A x \in Key : x # k => x \notin S
      BY <1>2, <2>1, <2>3
    <3>6. \A x \in Key : ~e[x].stored
      BY <1>2, <3>0, <3>3, <3>5 DEF InStore
    <3>7. S \ {k} = {}
      BY <1>2, <3>5
    <3>8. PICK v : v = [i \in 1..0 |-> k]
      OBVIOUS
    <3>9. Linked(m, v, {}) /\ Fronted(m, v, J)
      BY <3>4, <3>6, <3>8 DEF Linked, Fronted
    <3>10. QED
      BY <3>4, <3>7, <3>9 DEF ListOf, Rep
  <2>4. CASE n > 1
    <3>0. PICK f : f = l.elem
      OBVIOUS
    <3>1. PICK rest : rest = HeadOf(Drop(f, k), l.first, l.last, l.length - 1, l.lastJailed)
      OBVIOUS
    <3>2. PICK a : a = l.elem[k].next
      OBVIOUS
    <3>3. PICK b : b = l.elem[k].prev
      OBVIOUS
    <3>4. m = IF l.first = k THEN removeFirst(rest, k, a)
              ELSE IF a = NoKey THEN removeLast(rest, k, b)
              ELSE removeInner(rest, k, b, a)
      BY <1>2, <2>2, <2>4, <3>0, <3>1, <3>2, <3>3, RemoveShape DEF n
    <3>5. /\ a = IF p = n THEN NoKey ELSE w[p + 1]
          /\ b = IF p = 1 THEN w[1] ELSE w[p - 1]
      BY <1>2, <2>1, <3>2, <3>3
    <3>6. l.first = k <=> p = 1
      BY <1>2, <2>1, <2>4
    <3>7. PICK g : g = Drop(f, k)
      OBVIOUS
    <3>8. f \in ElementMaps /\ \A x \in Key : x # k => g[x] = f[x]
      <4>1. f \in ElementMaps
        BY <1>2, <3>0
      <4>2. \A x \in Key : x # k => g[x] = f[x]
        BY <3>7, <4>1, Dropped
      <4>3. QED
        BY <4>1, <4>2
    <3>9. \A i \in 1..n : i # p => /\ w[i] # k /\ w[i] # NoKey /\ w[i] \in Key
                                   /\ g[w[i]].stored
      <4>1. TAKE i \in 1..n
      <4>2. HAVE i # p
      <4>3. w[i] # k /\ w[i] # NoKey /\ w[i] \in Key /\ l.elem[w[i]].stored
        BY <1>2, <2>1, <4>2 DEF InStore
      <4>4. g[w[i]] = l.elem[w[i]]
        BY <3>0, <3>8, <4>3
      <4>5. QED
        BY <4>3, <4>4
    <3>10. PICK j : j = FrontOut(l, w, p)
      OBVIOUS
    <3>11. p \in Nat /\ p >= 1 /\ p <= n /\ 1 \in 1..n /\ n \in Nat
      BY <1>2, <2>4
    <3>12. p \in 1..l.length /\ l.length > 1
      BY <2>4 DEF n
    <3>13. CASE p = 1
      <4>1. 2 \in 1..n /\ 2 # p /\ a = w[2]
        BY <2>4, <3>5, <3>11, <3>13
      <4>2. a # k /\ a # NoKey /\ a \in Key /\ g[a].stored
        BY <3>9, <4>1
      <4>3. m = removeFirst(rest, k, a)
        BY <3>4, <3>6, <3>13
      <4>4. j = IF l.lastJailed = k THEN NoKey ELSE l.lastJailed
        BY <2>1, <3>10, <3>13 DEF FrontOut
      <4>5. PICK e : e = SetPrev(g, a, a)
        OBVIOUS
      <4>6. m = HeadOf(e, a, l.last, l.length - 1, j)
        BY <3>1, <3>7, <4>2, <4>3, <4>4, <4>5, RemoveFirstShape
      <4>7. PrevSet(e, f, k, a, a)
        BY <3>7, <3>8, <4>2, <4>5, PrevIsSet DEF KeyOrNone
      <4>8. TakenOut(l, w, p, e, a, l.last)
        <5>1. \A x \in Key : x # w[p] => (e[x].stored <=> l.elem[x].stored)
          BY <2>1, <3>0, <4>7 DEF PrevSet
        <5>2. ASSUME NEW i \in 1..n, i # p
              PROVE  /\ e[w[i]].next = IF i = p - 1 THEN l.elem[w[p]].next ELSE l.elem[w[i]].next
                     /\ e[w[i]].prev = IF i = p + 1 THEN IF p = 1 THEN w[2] ELSE w[p - 1]
                                       ELSE l.elem[w[i]].prev
          <6>0. i # p - 1 /\ p + 1 = 2
            BY <3>13
          <6>1. CASE i = 2
            BY <3>0, <3>13, <4>1, <4>7, <6>0, <6>1 DEF PrevSet
          <6>2. CASE i # 2
            <7>1. w[i] # a
              BY <1>2, <4>1, <6>2
            <7>2. e[w[i]] = l.elem[w[i]]
              BY <3>0, <3>9, <4>7, <5>2, <7>1 DEF PrevSet
            <7>3. QED
              BY <6>0, <6>2, <7>2
          <6>3. QED
            BY <6>1, <6>2
        <5>3. p # n
          BY <2>4, <3>13
        <5>4. QED
          BY <2>1, <3>13, <4>1, <4>7, <5>1, <5>2, <5>3 DEF TakenOut, PrevSet, n
      <4>9. ListOf(m, S \ {w[p]}, J)
        BY <1>1, <3>10, <3>12, <4>6, <4>8, TakenOutLists
      <4>10. QED
        BY <2>1, <4>9
    <3>14. CASE p # 1 /\ p = n
      <4>1. p - 1 \in 1..n /\ p - 1 # p /\ a = NoKey /\ b = w[p - 1]
        BY <3>5, <3>11, <3>14
      <4>2. b # k /\ b # NoKey /\ b \in Key /\ g[b].stored
        BY <3>9, <4>1
      <4>3. m = removeLast(rest, k, b)
        BY <3>4, <3>6, <3>14, <4>1
      <4>4. j = IF l.lastJailed = k THEN b ELSE l.lastJailed
        BY <2>1, <3>10, <3>14, <4>1 DEF FrontOut
      <4>5. PICK e : e = SetNext(g, b, NoKey)
        OBVIOUS
      <4>6. m = HeadOf(e, l.first, b, l.length - 1, j)
        BY <3>1, <3>7, <4>2, <4>3, <4>4, <4>5, RemoveLastShape
      <4>7. NextSet(e, f, k, b, NoKey)
        BY <3>7, <3>8, <4>2, <4>5, NextIsSet DEF KeyOrNone
      <4>8. TakenOut(l, w, p, e, l.first, b)
        <5>1. \A x \in Key : x # w[p] => (e[x].stored <=> l.elem[x].stored)
          BY <2>1, <3>0, <4>7 DEF NextSet
        <5>2. ASSUME NEW i \in 1..n, i # p
              PROVE  /\ e[w[i]].next = IF i = p - 1 THEN l.elem[w[p]].next ELSE l.elem[w[i]].next
                     /\ e[w[i]].prev = IF i = p + 1 THEN IF p = 1 THEN w[2] ELSE w[p - 1]
                                       ELSE l.elem[w[i]].prev
          <6>0. i # p + 1
            BY <3>11, <3>14
          <6>1. CASE i = p - 1
            <7>1. e[w[i]].next = NoKey /\ e[w[i]].prev = l.elem[w[i]].prev
              BY <3>0, <4>1, <4>7, <6>1 DEF NextSet
            <7>2. l.elem[w[p]].next = NoKey
              BY <2>1, <3>2, <4>1
            <7>3. QED
              BY <6>0, <6>1, <7>1, <7>2
          <6>2. CASE i # p - 1
            <7>1. w[i] # b
              BY <1>2, <4>1, <6>2
            <7>2. e[w[i]] = l.elem[w[i]]
              BY <3>0, <3>9, <4>7, <5>2, <7>1 DEF NextSet
            <7>3. QED
              BY <6>0, <6>2, <7>2
          <6>3. QED
            BY <6>1, <6>2
        <5>3. QED
          BY <2>1, <3>14, <4>1, <4>7, <5>1, <5>2 DEF TakenOut, NextSet, n
      <4>9. ListOf(m, S \ {w[p]}, J)
        BY <1>1, <3>10, <3>12, <4>6, <4>8, TakenOutLists
      <4>10. QED
        BY <2>1, <4>9
    <3>15. CASE p # 1 /\ p # n
      <4>1. /\ p - 1 \in 1..n /\ p - 1 # p /\ p + 1 \in 1..n /\ p + 1 # p /\ p - 1 # p + 1
            /\ a = w[p + 1] /\ b = w[p - 1]
        BY <3>5, <3>11, <3>15
      <4>2. /\ a # k /\ a # NoKey /\ a \in Key /\ g[a].stored
            /\ b # k /\ b # NoKey /\ b \in Key /\ g[b].stored
        BY <3>9, <4>1
      <4>3. m = removeInner(rest, k, b, a)
        BY <3>4, <3>6, <3>15, <4>2
      <4>4. j = IF l.lastJailed = k THEN b ELSE l.lastJailed
        BY <2>1, <3>10, <3>15, <4>1 DEF FrontOut
      <4>5. PICK e : e = Join(g, b, a)
        OBVIOUS
      <4>6. m = HeadOf(e, l.first, l.last, l.length - 1, j)
        BY <3>1, <3>7, <4>2, <4>3, <4>4, <4>5, RemoveInnerShape
      <4>7. a # b
        BY <1>2, <4>1
      <4>8. Joined(e, f, k, b, a)
        BY <3>7, <3>8, <4>2, <4>5, <4>7, AreJoined
      <4>9. TakenOut(l, w, p, e, l.first, l.last)
        <5>1. \A x \in Key : x # w[p] => (e[x].stored <=> l.elem[x].stored)
          BY <2>1, <3>0, <4>8 DEF Joined
        <5>2. ASSUME NEW i \in 1..n, i # p
              PROVE  /\ e[w[i]].next = IF i = p - 1 THEN l.elem[w[p]].next ELSE l.elem[w[i]].next
                     /\ e[w[i]].prev = IF i = p + 1 THEN IF p = 1 THEN w[2] ELSE w[p - 1]
                                       ELSE l.elem[w[i]].prev
          <6>1. CASE i = p - 1
            <7>1. e[w[i]].next = a /\ e[w[i]].prev = l.elem[w[i]].prev
              BY <3>0, <4>1, <4>8, <6>1 DEF Joined
            <7>2. l.elem[w[p]].next = a /\ i # p + 1
              BY <2>1, <3>2, <4>1, <6>1
            <7>3. QED
              BY <6>1, <7>1, <7>2
          <6>2. CASE i = p + 1
            <7>1. e[w[i]].prev = b /\ e[w[i]].next = l.elem[w[i]].next
              BY <3>0, <4>1, <4>8, <6>2 DEF Joined
            <7>2. i # p - 1
              BY <4>1, <6>2
            <7>3. QED
              BY <3>15, <4>1, <6>2, <7>1, <7>2
          <6>3. CASE i # p - 1 /\ i # p + 1
            <7>1. w[i] # a /\ w[i] # b
              BY <1>2, <4>1, <6>3
            <7>2. e[w[i]] = l.elem[w[i]]
              BY <3>0, <3>9, <4>8, <5>2, <7>1 DEF Joined
            <7>3. QED
              BY <6>3, <7>2
          <6>4. QED
            BY <6>1, <6>2, <6>3
        <5>3. QED
          BY <2>1, <3>15, <4>8, <5>1, <5>2 DEF TakenOut, Joined, n
      <4>10. ListOf(m, S \ {w[p]}, J)
        BY <1>1, <3>10, <3>12, <4>6, <4>9, TakenOutLists
      <4>11. QED
        BY <2>1, <4>10
    <3>16. QED
      BY <3>13, <3>14, <3>15
  <2>5. QED
    BY <1>2, <2>1, <2>3, <2>4
<1>5. QED
  BY <1>3, <1>4

-----------------------------------------------------------------------------
(* Removing several keys, and walking along the list. *)

(* Induction over the naturals, for sets. *)
LEMMA NatSetInduction ==
  ASSUME NEW T, 0 \in T, \A n \in Nat : n \in T => n + 1 \in T
  PROVE  \A n \in Nat : n \in T
<1> DEFINE R == {ss \in Nat \X Nat : ss[1] < ss[2]}
           U == {n \in Nat : n \notin T}
<1>1. IsWellFoundedOn(R, Nat)
  BY NatLessThanWellFounded DEF OpToRel
<1>2. SUFFICES ASSUME U # {} PROVE FALSE
  OBVIOUS
<1>3. PICK x \in U : \A y \in U : <<y, x>> \notin R
  <2>1. U \subseteq Nat
    OBVIOUS
  <2> HIDE DEF R, U
  <2>2. QED
    BY <1>1, <1>2, <2>1, WFMin
<1>4. x # 0 /\ x - 1 \in Nat /\ x - 1 < x /\ (x - 1) + 1 = x
  OBVIOUS
<1>5. x - 1 \in T
  BY <1>3, <1>4
<1>6. QED
  BY <1>4, <1>5

(* The recursive function of removeAll. *)
Removals(f, l, keys, leaving, n) ==
  f = [i \in 0..n |-> IF i = 0 THEN l
                      ELSE IF keys[i] \in leaving THEN removeFromWaitingList(f[i - 1], keys[i])
                      ELSE f[i - 1]]

LEMMA RemovalsExist ==
  ASSUME NEW l, NEW keys, NEW leaving
  PROVE  \A n \in Nat : \E f : Removals(f, l, keys, leaving, n)
<1> DEFINE T == {n \in Nat : \E f : Removals(f, l, keys, leaving, n)}
<1>1. 0 \in T
  <2>1. PICK f : f = [i \in 0..0 |-> l]
    OBVIOUS
  <2>2. f = [i \in 0..0 |-> IF i = 0 THEN l
                            ELSE IF keys[i] \in leaving THEN removeFromWaitingList(f[i - 1], keys[i])
                            ELSE f[i - 1]]
    BY <2>1
  <2>3. QED
    BY <2>2 DEF Removals
<1>2. ASSUME NEW n \in Nat, n \in T PROVE n + 1 \in T
  <2>1. PICK f : Removals(f, l, keys, leaving, n)
    BY <1>2
  <2>2. PICK g : g = [i \in 0..(n + 1) |->
                        IF i <= n THEN f[i]
                        ELSE IF keys[n + 1] \in leaving
                             THEN removeFromWaitingList(f[n], keys[n + 1]) ELSE f[n]]
    OBVIOUS
  <2>3. \A i \in 0..(n + 1) :
          g[i] = IF i = 0 THEN l
                 ELSE IF keys[i] \in leaving THEN removeFromWaitingList(g[i - 1], keys[i])
                 ELSE g[i - 1]
    <3>1. TAKE i \in 0..(n + 1)
    <3>2. CASE i = 0
      <4>1. g[i] = f[0] /\ 0 \in 0..n
        BY <2>2, <3>2
      <4>2. f[0] = l
        BY <2>1, <4>1 DEF Removals
      <4>3. QED
        BY <3>2, <4>1, <4>2
    <3>3. CASE i # 0 /\ i <= n
      <4>1. i \in 0..n /\ i - 1 \in 0..(n + 1) /\ i - 1 <= n
        BY <3>3
      <4>2. g[i] = f[i] /\ g[i - 1] = f[i - 1]
        BY <2>2, <4>1, <3>3
      <4>3. f[i] = IF keys[i] \in leaving THEN removeFromWaitingList(f[i - 1], keys[i])
                   ELSE f[i - 1]
        BY <2>1, <3>3, <4>1 DEF Removals
      <4>4. QED
        BY <3>3, <4>2, <4>3
    <3>4. CASE i = n + 1
      <4>1. i - 1 = n /\ i # 0 /\ n \in 0..(n + 1) /\ ~(i <= n)
        BY <3>4
      <4>2. g[n] = f[n]
        BY <2>2, <4>1
      <4>3. g[i] = IF keys[n + 1] \in leaving THEN removeFromWaitingList(f[n], keys[n + 1])
                   ELSE f[n]
        BY <2>2, <3>1, <4>1
      <4>4. QED
        BY <3>4, <4>1, <4>2, <4>3
    <3>5. QED
      BY <3>2, <3>3, <3>4
  <2>4. PICK D : D = 0..(n + 1)
    OBVIOUS
  <2>5. g = [i \in D |-> g[i]]
    BY <2>2, <2>4
  <2>6. Removals(g, l, keys, leaving, n + 1)
    BY <2>3, <2>4, <2>5 DEF Removals
  <2>7. QED
    BY <2>6
<1> HIDE DEF T
<1>3. \A n \in Nat : n \in T
  BY <1>1, <1>2, NatSetInduction
<1>4. QED
  BY <1>3 DEF T

LEMMA RemovedAllLists ==
  ASSUME NEW l, NEW S, NEW J, ListOf(l, S, J), NEW keys, Len(keys) \in Nat,
         \A i \in 1..Len(keys) : keys[i] \in Key,
         NEW leaving, \A k \in leaving : \E i \in 1..Len(keys) : keys[i] = k,
         NEW m, m = removeAll(l, keys, leaving)
  PROVE  ListOf(m, S \ leaving, J)
<1>1. PICK n : n = Len(keys)
  OBVIOUS
<1>2. PICK f : f = CHOOSE g : Removals(g, l, keys, leaving, n)
  OBVIOUS
<1>3. Removals(f, l, keys, leaving, n)
  BY <1>1, <1>2, RemovalsExist
<1>4. m = f[n]
  BY <1>1, <1>2 DEF removeAll, Removals
<1> DEFINE Gone(i) == {k \in leaving : \E j \in 1..i : keys[j] = k}
           T == {i \in Nat : i <= n => ListOf(f[i], S \ Gone(i), J)}
<1>5. 0 \in T
  <2>1. f[0] = l
    BY <1>1, <1>3 DEF Removals
  <2>2. S \ Gone(0) = S
    OBVIOUS
  <2> HIDE DEF Gone
  <2>3. QED
    BY <2>1, <2>2
<1>6. ASSUME NEW i \in Nat, i \in T PROVE i + 1 \in T
  <2>1. SUFFICES ASSUME i + 1 <= n PROVE ListOf(f[i + 1], S \ Gone(i + 1), J)
    <3> HIDE DEF Gone
    <3>1. i + 1 \in Nat
      OBVIOUS
    <3>2. QED
      BY <3>1
  <2>2. i + 1 \in 1..n /\ i + 1 \in 0..n /\ (i + 1) - 1 = i /\ i + 1 # 0 /\ i <= n
    BY <1>1, <2>1
  <2>3. ListOf(f[i], S \ Gone(i), J)
    BY <1>6, <2>2
  <2>4. f[i + 1] = IF keys[i + 1] \in leaving THEN removeFromWaitingList(f[i], keys[i + 1])
                   ELSE f[i]
    BY <1>3, <2>2 DEF Removals
  <2>5. \A j : j \in 1..(i + 1) <=> j \in 1..i \/ j = i + 1
    OBVIOUS
  <2>6. CASE keys[i + 1] \in leaving
    <3>1. S \ Gone(i + 1) = (S \ Gone(i)) \ {keys[i + 1]}
      BY <2>5, <2>6
    <3>2. keys[i + 1] \in Key
      BY <1>1, <2>2
    <3> HIDE DEF Gone
    <3>3. PICK a : a = f[i]
      OBVIOUS
    <3>4. PICK x : x = keys[i + 1]
      OBVIOUS
    <3>5. PICK U : U = S \ Gone(i)
      OBVIOUS
    <3>6. ListOf(f[i + 1], U \ {x}, J)
      BY <2>3, <2>4, <2>6, <3>2, <3>3, <3>4, <3>5, RemovedLists
    <3>7. QED
      BY <3>1, <3>4, <3>5, <3>6
  <2>7. CASE keys[i + 1] \notin leaving
    <3>1. S \ Gone(i + 1) = S \ Gone(i)
      BY <2>5, <2>7
    <3> HIDE DEF Gone
    <3>2. QED
      BY <2>3, <2>4, <2>7, <3>1
  <2>8. QED
    BY <2>6, <2>7
<1>7. \A i \in Nat : i \in T
  <2> HIDE DEF T
  <2>1. QED
    BY <1>5, <1>6, NatSetInduction
<1>8. ListOf(f[n], S \ Gone(n), J)
  <2> HIDE DEF Gone
  <2>1. n \in Nat /\ n <= n
    BY <1>1
  <2>2. QED
    BY <1>7, <2>1
<1>9. Gone(n) = leaving
  <2>1. \A k \in leaving : \E j \in 1..n : keys[j] = k
    BY <1>1
  <2>2. QED
    BY <2>1
<1> HIDE DEF Gone
<1>10. QED
  BY <1>4, <1>8, <1>9

(* The walk along a list is its sequence. *)
PlacesOf(at, l) ==
  at = [i \in 1..l.length |-> IF i = 1 THEN l.first
                              ELSE IF InStore(l, at[i - 1]) THEN l.elem[at[i - 1]].next
                              ELSE NoKey]

LEMMA WalkIs ==
  ASSUME NEW l, NEW w, NEW S, NEW J, Rep(l, w, S, J)
  PROVE  Walk(l) = w
<1>1. PICK n : n = l.length
  OBVIOUS
<1>2. /\ n \in Nat /\ NoKey \notin Key /\ w \in [1..n -> Key]
      /\ \A i \in 1..n : w[i] \in Key /\ InStore(l, w[i])
      /\ \A i \in 1..n : l.elem[w[i]].next = IF i = n THEN NoKey ELSE w[i + 1]
      /\ n > 0 => l.first = w[1]
  BY <1>1, RepFacts
<1>3. \A i \in 1..n : w[i] = IF i = 1 THEN l.first
                             ELSE IF InStore(l, w[i - 1]) THEN l.elem[w[i - 1]].next
                             ELSE NoKey
  <2>1. TAKE i \in 1..n
  <2>2. CASE i = 1
    BY <1>2, <2>2
  <2>3. CASE i # 1
    <3>1. i - 1 \in 1..n /\ i - 1 # n /\ (i - 1) + 1 = i
      BY <1>2, <2>3
    <3>2. QED
      BY <1>2, <2>3, <3>1
  <2>4. QED
    BY <2>2, <2>3
<1>4. PlacesOf(w, l)
  <2>1. w = [i \in 1..n |-> w[i]]
    BY <1>2
  <2>2. QED
    BY <1>1, <1>3, <2>1 DEF PlacesOf
<1>5. PICK at : at = CHOOSE g : PlacesOf(g, l)
  OBVIOUS
<1>6. PlacesOf(at, l)
  BY <1>4, <1>5
<1>7. Places(l) = at
  BY <1>5 DEF Places, PlacesOf
<1> DEFINE T == {i \in Nat : i + 1 <= n => at[i + 1] = w[i + 1]}
<1>8. 0 \in T
  <2>1. SUFFICES ASSUME 1 <= n PROVE at[1] = w[1]
    OBVIOUS
  <2>2. 1 \in 1..n /\ n > 0
    BY <1>2, <2>1
  <2>3. at[1] = l.first
    BY <1>1, <1>6, <2>2 DEF PlacesOf
  <2>4. QED
    BY <1>2, <2>2, <2>3
<1>9. ASSUME NEW i \in Nat, i \in T PROVE i + 1 \in T
  <2>1. SUFFICES ASSUME (i + 1) + 1 <= n PROVE at[(i + 1) + 1] = w[(i + 1) + 1]
    OBVIOUS
  <2>2. PICK j : j = (i + 1) + 1
    OBVIOUS
  <2>3. j \in 1..n /\ j # 1 /\ j - 1 = i + 1 /\ i + 1 <= n
    BY <1>2, <2>1, <2>2
  <2>4. at[j - 1] = w[j - 1]
    BY <1>9, <2>3
  <2>5. at[j] = IF InStore(l, at[j - 1]) THEN l.elem[at[j - 1]].next ELSE NoKey
    BY <1>1, <1>6, <2>3 DEF PlacesOf
  <2>6. w[j] = IF InStore(l, w[j - 1]) THEN l.elem[w[j - 1]].next ELSE NoKey
    BY <1>3, <2>3
  <2>7. QED
    BY <2>2, <2>4, <2>5, <2>6
<1>10. \A i \in Nat : i \in T
  <2> HIDE DEF T
  <2>1. QED
    BY <1>8, <1>9, NatSetInduction
<1>11. \A i \in 1..n : at[i] = w[i]
  <2>1. TAKE i \in 1..n
  <2>2. i - 1 \in Nat /\ (i - 1) + 1 = i /\ i <= n
    BY <1>2
  <2>3. QED
    BY <1>10, <2>2
<1>12. {j \in 1..l.length : at[j] # NoKey} = 1..n
  BY <1>1, <1>2, <1>11
<1>13. PICK D : D = {j \in 1..l.length : at[j] # NoKey}
  OBVIOUS
<1>14. Walk(l) = [i \in D |-> at[i]]
  BY <1>7, <1>13 DEF Walk
<1>15. Walk(l) = [i \in 1..n |-> w[i]]
  BY <1>11, <1>12, <1>13, <1>14
<1>16. QED
  BY <1>2, <1>15

(* What a caller learns of a list: its first key, its walk, its length. *)
LEMMA ListFacts ==
  ASSUME NEW l, NEW S, NEW J, ListOf(l, S, J)
  PROVE  /\ l \in WaitingLists /\ l.ok /\ l.length \in Nat /\ S \subseteq Key
         /\ NoKey \notin Key
         /\ l.length > 0 => l.first \in S
         /\ l.length = 0 => S = {}
         /\ \A k \in Key : InStore(l, k) <=> k \in S
<1>1. PICK w : Rep(l, w, S, J)
  BY DEF ListOf
<1>2. /\ l \in WaitingLists /\ l.ok /\ l.length \in Nat /\ S \subseteq Key /\ NoKey \notin Key
      /\ \A i \in 1..l.length : w[i] \in S
      /\ \A k \in Key : InStore(l, k) <=> k \in S
      /\ \A k \in S : \E i \in 1..l.length : w[i] = k
      /\ l.length > 0 => l.first = w[1]
  BY <1>1, RepFacts
<1>3. l.length > 0 => l.first \in S
  <2>1. l.length > 0 => 1 \in 1..l.length
    BY <1>2
  <2>2. QED
    BY <1>2, <2>1
<1>4. l.length = 0 => S = {}
  <2>1. SUFFICES ASSUME l.length = 0, NEW k \in S PROVE FALSE
    OBVIOUS
  <2>2. PICK i \in 1..l.length : w[i] = k
    BY <1>2
  <2>3. QED
    BY <2>1, <2>2
<1>5. QED
  BY <1>2, <1>3, <1>4

LEMMA WalkFacts ==
  ASSUME NEW l, NEW S, NEW J, ListOf(l, S, J), NEW w, w = Walk(l)
  PROVE  /\ Rep(l, w, S, J)
         /\ w \in Seq(Key) /\ Len(w) = l.length /\ DOMAIN w = 1..l.length
         /\ \A i \in 1..l.length : w[i] \in S
         /\ \A k \in S : \E i \in 1..l.length : w[i] = k
<1>1. PICK v : Rep(l, v, S, J)
  BY DEF ListOf
<1>2. v = w
  BY <1>1, WalkIs
<1>3. /\ l.length \in Nat /\ w \in [1..l.length -> Key]
      /\ \A i \in 1..l.length : w[i] \in S
      /\ \A k \in S : \E i \in 1..l.length : w[i] = k
  BY <1>1, <1>2, RepFacts
<1>4. PICK n : n = l.length
  OBVIOUS
<1>5. n \in Nat /\ w \in [1..n -> Key]
  BY <1>3, <1>4
<1>6. w \in Seq(Key) /\ Len(w) = n /\ DOMAIN w = 1..n
  BY <1>5
<1>7. QED
  BY <1>1, <1>2, <1>3, <1>4, <1>6

(* Only what J says of the keys in the list matters. *)
LEMMA SameFront ==
  ASSUME NEW l, NEW S, NEW J, ListOf(l, S, J), NEW K, \A k \in S : k \in J => k \in K
  PROVE  ListOf(l, S, K)
<1>1. PICK w : Rep(l, w, S, J)
  BY DEF ListOf
<1>2. \A i \in 1..l.length : w[i] \in S
  BY <1>1, RepFacts
<1>3. l.length \in Nat
  BY <1>1, RepFacts
<1>4. Fronted(l, w, K)
  <2>1. SUFFICES ASSUME l.lastJailed # NoKey
                 PROVE  \E j \in 1..l.length : w[j] = l.lastJailed /\ \A i \in 1..j : w[i] \in K
    BY DEF Fronted
  <2>2. PICK j \in 1..l.length : w[j] = l.lastJailed /\ \A i \in 1..j : w[i] \in J
    BY <1>1, <2>1 DEF Rep, Fronted
  <2>3. \A i \in 1..j : i \in 1..l.length
    BY <1>3
  <2>4. \A i \in 1..j : w[i] \in K
    BY <1>2, <2>2, <2>3
  <2>5. QED
    BY <2>2, <2>4
<1>5. QED
  BY <1>1, <1>4 DEF Rep, ListOf

LEMMA ResetLists ==
  ASSUME NEW l, NEW S, NEW J, ListOf(l, S, J), NEW m, m = [l EXCEPT !.lastJailed = NoKey]
  PROVE  ListOf(m, S, J)
<1>1. PICK w : Rep(l, w, S, J)
  BY DEF ListOf
<1>2. l \in WaitingLists /\ l.ok /\ Linked(l, w, S) /\ S \subseteq Key
  BY <1>1 DEF Rep
<1>3. /\ m \in WaitingLists /\ m.ok /\ m.elem = l.elem /\ m.first = l.first /\ m.last = l.last
      /\ m.length = l.length /\ m.lastJailed = NoKey
  BY <1>2 DEF WaitingLists, KeyOrNone
<1>4. Linked(m, w, S)
  BY <1>2, <1>3 DEF Linked
<1>5. Fronted(m, w, J)
  BY <1>3 DEF Fronted
<1>6. QED
  BY <1>2, <1>3, <1>4, <1>5 DEF Rep, ListOf

LEMMA EmptyLists ==
  ASSUME NEW e \in ElementMaps, \A k \in Key : ~e[k].stored, NEW J, NEW m, m = EmptyHead(e)
  PROVE  ListOf(m, {}, J)
<1>1. m = HeadOf(e, NoKey, NoKey, 0, NoKey)
  BY DEF EmptyHead, HeadOf
<1>2. NoKey \in KeyOrNone /\ 0 \in Nat
  BY DEF KeyOrNone
<1>3. /\ m \in WaitingLists /\ m.ok /\ m.elem = e /\ m.length = 0 /\ m.lastJailed = NoKey
  BY <1>1, <1>2, HeadFields
<1>4. PICK v : v \in [1..0 -> Key]
  <2>1. [i \in 1..0 |-> NoKey] \in [1..0 -> Key]
    OBVIOUS
  <2>2. QED
    BY <2>1
<1>5. Linked(m, v, {}) /\ Fronted(m, v, J)
  BY <1>3, <1>4 DEF Linked, Fronted
<1>6. QED
  BY <1>3, <1>5 DEF ListOf, Rep

-----------------------------------------------------------------------------
(* Registrations. *)
Registrations ==
  [registered : BOOLEAN, staked : BOOLEAN, waiting : BOOLEAN, jailed : BOOLEAN,
   numJailed : 0..2]
RegistrationMaps == [Key -> Registrations]
Waiting(r) == {k \in Key : r[k].waiting}
Staked(r) == {k \in Key : r[k].staked}
JailedOnce(r) == {k \in Key : r[k].numJailed = 1}

(* The registrations r, the list l and the count n agree. *)
RecordsOf(r, l, n) ==
  /\ r \in RegistrationMaps
  /\ ListOf(l, Waiting(r), JailedOnce(r))
  /\ \A k \in Key : r[k].waiting => r[k].registered /\ ~r[k].staked
  /\ n = Cardinality(Staked(r))

StakingInv ==
  /\ RecordsOf(reg, list, stakedNodes)
  /\ era \in {"queue", "step1", "v4"}
  /\ era = "v4" => Waiting(reg) = {}

LEMMA StakedFinite ==
  ASSUME NEW r
  PROVE  IsFiniteSet(Staked(r)) /\ Cardinality(Staked(r)) \in Nat
<1>1. Staked(r) \in SUBSET Key /\ IsFiniteSet(Key)
  BY StakingAssumption DEF Staked
<1>2. IsFiniteSet(Staked(r))
  BY <1>1, FS_Subset
<1>3. QED
  BY <1>2, FS_CardinalityType

Written(r, k, v) == [r EXCEPT ![k] = v]
WaitingAfter(r, k, v) == IF v.waiting THEN Waiting(r) \cup {k} ELSE Waiting(r) \ {k}

(* A registration that waits is registered, not staked, and was jailed as often as before. *)
Fits(v, was) ==
  /\ v \in Registrations
  /\ v.waiting => v.registered /\ ~v.staked /\ v.numJailed = was.numJailed

(* How the count of staked nodes follows a registration. *)
CountAfter(n, was, is) ==
  IF is.staked /\ ~was.staked THEN n + 1 ELSE IF ~is.staked /\ was.staked THEN n - 1 ELSE n

LEMMA OneRegistration ==
  ASSUME NEW r, NEW l, NEW n, RecordsOf(r, l, n), NEW k \in Key, NEW v, Fits(v, r[k]),
         NEW m, ListOf(m, WaitingAfter(r, k, v), JailedOnce(r)),
         NEW c, c = CountAfter(n, r[k], v),
         NEW q, q = Written(r, k, v)
  PROVE  RecordsOf(q, m, c)
<1>1. r \in RegistrationMaps
  BY DEF RecordsOf
<1> USE DEF Fits
<1>2. q \in RegistrationMaps /\ q[k] = v /\ \A x \in Key : x # k => q[x] = r[x]
  BY <1>1 DEF Written, RegistrationMaps
<1>3. Waiting(q) = IF v.waiting THEN Waiting(r) \cup {k} ELSE Waiting(r) \ {k}
  BY <1>2 DEF Waiting
<1>4. ListOf(m, Waiting(q), JailedOnce(r))
  BY <1>3 DEF WaitingAfter
<1>5. \A x \in Waiting(q) : x \in JailedOnce(r) => x \in JailedOnce(q)
  <2>1. TAKE x \in Waiting(q)
  <2>2. CASE x = k
    BY <1>2, <2>2 DEF Waiting, JailedOnce
  <2>3. CASE x # k
    BY <1>2, <2>3 DEF Waiting, JailedOnce
  <2>4. QED
    BY <2>2, <2>3
<1>6. ListOf(m, Waiting(q), JailedOnce(q))
  BY <1>4, <1>5, SameFront
<1>7. \A x \in Key : q[x].waiting => q[x].registered /\ ~q[x].staked
  <2>1. TAKE x \in Key
  <2>2. CASE x = k
    BY <1>2, <2>2
  <2>3. CASE x # k
    BY <1>2, <2>3 DEF RecordsOf
  <2>4. QED
    BY <2>2, <2>3
<1>8. Staked(q) = IF v.staked THEN Staked(r) \cup {k} ELSE Staked(r) \ {k}
  BY <1>2 DEF Staked
<1>9. IsFiniteSet(Staked(r)) /\ n = Cardinality(Staked(r)) /\ n \in Nat
  BY StakedFinite DEF RecordsOf
<1>10. k \in Staked(r) <=> r[k].staked
  BY DEF Staked
<1>11. c = Cardinality(Staked(q))
  <2>1. CASE v.staked
    <3>1. Cardinality(Staked(r) \cup {k}) = IF k \in Staked(r) THEN n ELSE n + 1
      BY <1>9, FS_AddElement
    <3>2. QED
      BY <1>8, <1>10, <2>1, <3>1 DEF CountAfter
  <2>2. CASE ~v.staked
    <3>1. Cardinality(Staked(r) \ {k}) = IF k \in Staked(r) THEN n - 1 ELSE n
      BY <1>9, FS_RemoveElement
    <3>2. QED
      BY <1>8, <1>10, <2>2, <3>1 DEF CountAfter
  <2>3. QED
    BY <2>1, <2>2
<1>12. QED
  BY <1>2, <1>6, <1>7, <1>11 DEF RecordsOf

(* Several waiting keys are staked, or leave the queue. *)
LEMMA BatchStaked ==
  ASSUME NEW r, NEW l, NEW n, RecordsOf(r, l, n), NEW keys, keys \subseteq Waiting(r),
         NEW m, ListOf(m, Waiting(r) \ keys, JailedOnce(r)),
         NEW c, c = n + Cardinality(keys),
         NEW q, q = [k \in Key |-> IF k \in keys THEN activeStakingFor(r[k]) ELSE r[k]]
  PROVE  RecordsOf(q, m, c)
<1>1. r \in RegistrationMaps
  BY DEF RecordsOf
<1>2. ASSUME NEW k \in Key, k \in keys
      PROVE  /\ q[k] \in Registrations /\ q[k].staked /\ ~q[k].waiting
             /\ q[k].numJailed = r[k].numJailed
  <2>1. r[k] \in Registrations /\ q[k] = activeStakingFor(r[k])
    BY <1>1, <1>2 DEF RegistrationMaps
  <2>2. QED
    BY <2>1 DEF Registrations, activeStakingFor
<1>3. \A k \in Key : k \notin keys => q[k] = r[k]
  OBVIOUS
<1>4. q \in RegistrationMaps
  <2>1. \A k \in Key : q[k] \in Registrations
    BY <1>1, <1>2, <1>3 DEF RegistrationMaps
  <2>2. QED
    BY <2>1 DEF RegistrationMaps
<1>5. Waiting(q) = Waiting(r) \ keys
  BY <1>2, <1>3 DEF Waiting
<1>6. Staked(q) = Staked(r) \cup keys
  BY <1>2, <1>3 DEF Staked, Waiting
<1>7. \A x \in Waiting(q) : x \in JailedOnce(r) => x \in JailedOnce(q)
  BY <1>2, <1>3 DEF JailedOnce, Waiting
<1>8. ListOf(m, Waiting(q), JailedOnce(q))
  <2>1. ListOf(m, Waiting(q), JailedOnce(r))
    BY <1>5
  <2>2. QED
    BY <1>7, <2>1, SameFront
<1>9. \A x \in Key : q[x].waiting => q[x].registered /\ ~q[x].staked
  BY <1>2, <1>3 DEF RecordsOf
<1>10. IsFiniteSet(Staked(r)) /\ n = Cardinality(Staked(r)) /\ n \in Nat
  BY StakedFinite DEF RecordsOf
<1>11. IsFiniteSet(keys) /\ Cardinality(keys) \in Nat
  <2>1. keys \in SUBSET Key /\ IsFiniteSet(Key)
    BY StakingAssumption DEF Waiting
  <2>2. QED
    BY <2>1, FS_Subset, FS_CardinalityType
<1>12. Staked(r) \cap keys = {}
  BY DEF RecordsOf, Staked, Waiting
<1>13. Cardinality(Staked(r) \cup keys) = n + Cardinality(keys) - Cardinality(Staked(r) \cap keys)
  BY <1>10, <1>11, FS_Union
<1>14. Cardinality(Staked(r) \cap keys) = 0
  BY <1>12, FS_EmptySet
<1>15. c = Cardinality(Staked(q))
  <2>1. Cardinality(Staked(q)) = Cardinality(Staked(r) \cup keys)
    BY <1>6, Zenon
  <2>2. PICK all, card : all = Cardinality(Staked(r) \cup keys) /\ card = Cardinality(keys)
    BY Zenon
  <2>3. all = n + card - 0 /\ n \in Nat /\ card \in Nat /\ c = n + card
    BY <1>10, <1>11, <1>13, <1>14, <2>2, Zenon
  <2>4. all = c
    BY <2>3
  <2>5. QED
    BY <2>1, <2>2, <2>4, Zenon
<1>16. QED
  BY <1>4, <1>8, <1>9, <1>15 DEF RecordsOf

LEMMA BatchLeft ==
  ASSUME NEW r, NEW l, NEW n, RecordsOf(r, l, n), NEW keys, keys \subseteq Waiting(r),
         NEW m, ListOf(m, Waiting(r) \ keys, JailedOnce(r)),
         NEW q, q = [k \in Key |-> IF k \in keys THEN doUnStake(r[k]) ELSE r[k]]
  PROVE  RecordsOf(q, m, n)
<1>1. r \in RegistrationMaps
  BY DEF RecordsOf
<1>2. ASSUME NEW k \in Key, k \in keys
      PROVE  /\ q[k] \in Registrations /\ ~q[k].staked /\ ~q[k].waiting
             /\ q[k].numJailed = r[k].numJailed
  <2>1. r[k] \in Registrations /\ q[k] = doUnStake(r[k])
    BY <1>1, <1>2 DEF RegistrationMaps
  <2>2. QED
    BY <2>1 DEF Registrations, doUnStake
<1>3. \A k \in Key : k \notin keys => q[k] = r[k]
  OBVIOUS
<1>4. q \in RegistrationMaps
  <2>1. \A k \in Key : q[k] \in Registrations
    BY <1>1, <1>2, <1>3 DEF RegistrationMaps
  <2>2. QED
    BY <2>1 DEF RegistrationMaps
<1>5. Waiting(q) = Waiting(r) \ keys
  BY <1>2, <1>3 DEF Waiting
<1>6. Staked(q) = Staked(r)
  <2>1. \A k \in keys : k \in Key /\ ~r[k].staked
    BY DEF Waiting, RecordsOf
  <2>2. QED
    BY <1>2, <1>3, <2>1 DEF Staked
<1>7. \A x \in Waiting(q) : x \in JailedOnce(r) => x \in JailedOnce(q)
  BY <1>2, <1>3 DEF JailedOnce, Waiting
<1>8. ListOf(m, Waiting(q), JailedOnce(q))
  <2>1. ListOf(m, Waiting(q), JailedOnce(r))
    BY <1>5
  <2>2. QED
    BY <1>7, <2>1, SameFront
<1>9. \A x \in Key : q[x].waiting => q[x].registered /\ ~q[x].staked
  BY <1>2, <1>3 DEF RecordsOf
<1>10. QED
  BY <1>4, <1>6, <1>8, <1>9 DEF RecordsOf

-----------------------------------------------------------------------------
(* Calls of the contract. *)

(* The outcome of a call that writes one registration. *)
LEMMA OneSaved ==
  ASSUME StakingInv, NEW k \in Key, NEW v, Fits(v, reg[k]),
         NEW m, ListOf(m, WaitingAfter(reg, k, v), JailedOnce(reg)),
         v.waiting /\ era = "v4" => reg[k].waiting,
         NEW c, c = CountAfter(stakedNodes, reg[k], v),
         Save(m, Written(reg, k, v), c)
  PROVE  StakingInv'
<1>1. PICK q : q = Written(reg, k, v)
  OBVIOUS
<1>2. RecordsOf(reg, list, stakedNodes)
  BY DEF StakingInv
<1>3. RecordsOf(q, m, c)
  BY <1>1, <1>2, OneRegistration
<1>4. reg' = q /\ list' = m /\ stakedNodes' = c /\ era' = era
  BY <1>1 DEF Save
<1>5. era = "v4" => Waiting(q) = {}
  <2>1. SUFFICES ASSUME era = "v4", NEW x \in Key, q[x].waiting PROVE FALSE
    BY DEF Waiting
  <2>2. \A y \in Key : ~reg[y].waiting
    BY <2>1 DEF StakingInv, Waiting
  <2>3. reg \in RegistrationMaps
    BY <1>2 DEF RecordsOf
  <2>4. q[k] = v /\ \A y \in Key : y # k => q[y] = reg[y]
    BY <1>1, <2>3 DEF Written, RegistrationMaps
  <2>5. QED
    BY <2>1, <2>2, <2>4
<1>6. QED
  BY <1>3, <1>4, <1>5 DEF StakingInv

(* A registration that keeps its place in the list. *)
LEMMA SamePlace ==
  ASSUME StakingInv, NEW k \in Key, NEW v, v.waiting <=> reg[k].waiting
  PROVE  ListOf(list, WaitingAfter(reg, k, v), JailedOnce(reg))
<1>1. WaitingAfter(reg, k, v) = Waiting(reg)
  BY DEF WaitingAfter, Waiting
<1>2. QED
  BY <1>1 DEF StakingInv, RecordsOf

LEMMA RegisterSteps ==
  ASSUME StakingInv, NEW k \in Key, register(k)
  PROVE  StakingInv'
<1>1. reg \in RegistrationMaps /\ reg[k] \in Registrations
  BY DEF StakingInv, RecordsOf, RegistrationMaps
<1>2. PICK v : v = [reg[k] EXCEPT !.registered = TRUE]
  OBVIOUS
<1>3. /\ v \in Registrations /\ v.registered /\ (v.staked <=> reg[k].staked)
      /\ (v.waiting <=> reg[k].waiting) /\ v.numJailed = reg[k].numJailed
  BY <1>1, <1>2 DEF Registrations
<1>4. [reg EXCEPT ![k].registered = TRUE] = Written(reg, k, v)
  BY <1>2 DEF Written
<1>5. Save(list, Written(reg, k, v), stakedNodes)
  BY <1>4 DEF register
<1>6. Fits(v, reg[k])
  BY <1>3 DEF Fits, StakingInv, RecordsOf
<1>7. stakedNodes = CountAfter(stakedNodes, reg[k], v)
  BY <1>3 DEF CountAfter
<1>8. QED
  BY <1>3, <1>5, <1>6, <1>7, SamePlace, OneSaved

(* processStake of a registration that is registered and otherwise as before. *)
LEMMA ProcessSteps ==
  ASSUME StakingInv, NEW k \in Key, NEW r, r \in Registrations, r.registered,
         r.staked <=> reg[k].staked, r.waiting <=> reg[k].waiting,
         r.numJailed = reg[k].numJailed, NEW a \in BOOLEAN, a => reg[k].numJailed = 1,
         Transactions, processStake(k, r, a)
  PROVE  StakingInv'
<1>1. reg \in RegistrationMaps /\ reg[k] \in Registrations
  BY DEF StakingInv, RecordsOf, RegistrationMaps
<1>2. ListOf(list, Waiting(reg), JailedOnce(reg))
  BY DEF StakingInv, RecordsOf
<1>3. CASE r.staked /\ Save(list, [reg EXCEPT ![k] = r], stakedNodes)
  <2>1. Fits(r, reg[k])
    BY DEF Fits, StakingInv, RecordsOf
  <2>2. stakedNodes = CountAfter(stakedNodes, reg[k], r)
    BY DEF CountAfter
  <2>3. Save(list, Written(reg, k, r), stakedNodes)
    BY <1>3 DEF Written
  <2>4. QED
    BY <2>1, <2>2, <2>3, SamePlace, OneSaved
<1>4. CASE /\ ~r.staked /\ canStake
           /\ Save(IF era = "queue" THEN removeFromWaitingList(list, k) ELSE list,
                   [reg EXCEPT ![k] = activeStakingFor(r)], stakedNodes + 1)
  <2>1. PICK v : v = activeStakingFor(r)
    OBVIOUS
  <2>2. PICK m : m = IF era = "queue" THEN removeFromWaitingList(list, k) ELSE list
    OBVIOUS
  <2>3. PICK c : c = stakedNodes + 1
    OBVIOUS
  <2>4. v \in Registrations /\ v.staked /\ ~v.waiting
    BY <2>1 DEF Registrations, activeStakingFor
  <2>5. Save(m, Written(reg, k, v), c)
    BY <1>4, <2>1, <2>2, <2>3 DEF Written
  <2>6. Fits(v, reg[k])
    BY <2>4 DEF Fits
  <2>7. c = CountAfter(stakedNodes, reg[k], v)
    BY <1>4, <2>3, <2>4 DEF CountAfter
  <2>8. ListOf(m, Waiting(reg) \ {k}, JailedOnce(reg))
    <3>1. CASE era = "queue"
      BY <1>2, <2>2, <3>1, RemovedLists
    <3>2. CASE era # "queue"
      <4>1. Waiting(reg) = {}
        BY <3>2 DEF StakingInv, Transactions
      <4>2. Waiting(reg) \ {k} = Waiting(reg)
        BY <4>1
      <4>3. QED
        BY <1>2, <2>2, <3>2, <4>2
    <3>3. QED
      BY <3>1, <3>2
  <2>9. WaitingAfter(reg, k, v) = Waiting(reg) \ {k}
    BY <2>4 DEF WaitingAfter
  <2>10. QED
    BY <2>4, <2>5, <2>6, <2>7, <2>8, <2>9, OneSaved
<1>5. CASE /\ ~r.staked /\ ~canStake
           /\ Save(addToWaitingList(list, k, a),
                   [reg EXCEPT ![k] = [r EXCEPT !.waiting = TRUE]], stakedNodes)
  <2>1. PICK v : v = [r EXCEPT !.waiting = TRUE]
    OBVIOUS
  <2>2. PICK m : m = addToWaitingList(list, k, a)
    OBVIOUS
  <2>3. /\ v \in Registrations /\ ~v.staked /\ v.waiting /\ v.registered
        /\ v.numJailed = reg[k].numJailed
    BY <1>5, <2>1 DEF Registrations
  <2>4. Save(m, Written(reg, k, v), stakedNodes)
    BY <1>5, <2>1, <2>2 DEF Written
  <2>5. Fits(v, reg[k])
    BY <2>3 DEF Fits
  <2>6. stakedNodes = CountAfter(stakedNodes, reg[k], v)
    BY <1>5, <2>3 DEF CountAfter
  <2>7. a => k \in JailedOnce(reg)
    BY DEF JailedOnce
  <2>8. ListOf(m, Waiting(reg) \cup {k}, JailedOnce(reg))
    BY <1>2, <2>2, <2>7, AddedLists
  <2>9. WaitingAfter(reg, k, v) = Waiting(reg) \cup {k}
    BY <2>3 DEF WaitingAfter
  <2>10. era # "v4"
    BY <1>5 DEF canStake
  <2>11. QED
    BY <2>4, <2>5, <2>6, <2>8, <2>9, <2>10, OneSaved
<1>6. QED
  BY <1>3, <1>4, <1>5 DEF processStake

LEMMA StakeSteps ==
  ASSUME StakingInv, NEW k \in Key, stake(k) \/ unJail(k)
  PROVE  StakingInv'
<1>1. reg \in RegistrationMaps /\ reg[k] \in Registrations
  BY DEF StakingInv, RecordsOf, RegistrationMaps
<1>2. CASE stake(k)
  <2>1. PICK r : r = [reg[k] EXCEPT !.registered = TRUE]
    OBVIOUS
  <2>2. /\ r \in Registrations /\ r.registered /\ (r.staked <=> reg[k].staked)
        /\ (r.waiting <=> reg[k].waiting) /\ r.numJailed = reg[k].numJailed
    BY <1>1, <2>1 DEF Registrations
  <2>3. Transactions /\ processStake(k, r, FALSE)
    BY <1>2, <2>1 DEF stake
  <2>4. QED
    BY <2>2, <2>3, ProcessSteps
<1>3. CASE unJail(k)
  <2>1. PICK r : r = [reg[k] EXCEPT !.jailed = FALSE]
    OBVIOUS
  <2>2. PICK a : a = (reg[k].numJailed = 1)
    OBVIOUS
  <2>3. /\ r \in Registrations /\ r.registered /\ (r.staked <=> reg[k].staked)
        /\ (r.waiting <=> reg[k].waiting) /\ r.numJailed = reg[k].numJailed
    BY <1>1, <1>3, <2>1 DEF Registrations, unJail
  <2>4. Transactions /\ processStake(k, r, a)
    BY <1>3, <2>1, <2>2 DEF unJail
  <2>5. a \in BOOLEAN /\ (a => reg[k].numJailed = 1)
    BY <2>2
  <2>6. QED
    BY <2>3, <2>4, <2>5, ProcessSteps
<1>4. QED
  BY <1>2, <1>3

LEMMA RecordsSaved ==
  ASSUME StakingInv, NEW q, NEW m, NEW c, RecordsOf(q, m, c), Save(m, q, c), era # "v4"
  PROVE  StakingInv'
BY DEF StakingInv, Save

LEMMA StakingTypes ==
  ASSUME StakingInv
  PROVE  /\ reg \in RegistrationMaps /\ \A x \in Key : reg[x] \in Registrations
         /\ ListOf(list, Waiting(reg), JailedOnce(reg))
         /\ \A x \in Key : reg[x].waiting => reg[x].registered /\ ~reg[x].staked
         /\ stakedNodes \in Nat
         /\ \A x \in Key : reg[x].staked => stakedNodes > 0
<1>1. /\ reg \in RegistrationMaps /\ \A x \in Key : reg[x] \in Registrations
      /\ ListOf(list, Waiting(reg), JailedOnce(reg))
      /\ \A x \in Key : reg[x].waiting => reg[x].registered /\ ~reg[x].staked
  BY DEF StakingInv, RecordsOf, RegistrationMaps
<1>2. stakedNodes = Cardinality(Staked(reg)) /\ stakedNodes \in Nat /\ IsFiniteSet(Staked(reg))
  BY StakedFinite DEF StakingInv, RecordsOf
<1>3. ASSUME NEW x \in Key, reg[x].staked PROVE stakedNodes > 0
  <2>1. Staked(reg) # {}
    BY <1>3 DEF Staked
  <2>2. stakedNodes # 0
    BY <1>2, <2>1, FS_EmptySet
  <2>3. QED
    BY <1>2, <2>2
<1>4. QED
  BY <1>1, <1>2, <1>3

(* doUnStake of a staked or waiting key that leaves the list. *)
LEMMA Unstaked ==
  ASSUME NEW r \in Registrations, NEW v, v = doUnStake(r)
  PROVE  v \in Registrations /\ ~v.staked /\ ~v.waiting /\ v.numJailed = r.numJailed
BY DEF Registrations, doUnStake

LEMMA UnstakedSaved ==
  ASSUME StakingInv, NEW k \in Key, reg[k].staked,
         Save(list, [reg EXCEPT ![k] = doUnStake(@)], removeFromStakedNodes(stakedNodes))
  PROVE  StakingInv'
<1>1. PICK v : v = doUnStake(reg[k])
  OBVIOUS
<1>2. PICK c : c = removeFromStakedNodes(stakedNodes)
  OBVIOUS
<1>3. v \in Registrations /\ ~v.staked /\ ~v.waiting
  BY <1>1, StakingTypes, Unstaked
<1>4. ~reg[k].waiting /\ stakedNodes > 0
  BY StakingTypes
<1>5. ListOf(list, WaitingAfter(reg, k, v), JailedOnce(reg))
  BY <1>3, <1>4, SamePlace
<1>6. c = CountAfter(stakedNodes, reg[k], v)
  BY <1>2, <1>3, <1>4 DEF CountAfter, removeFromStakedNodes
<1>7. Save(list, Written(reg, k, v), c)
  BY <1>1, <1>2 DEF Written
<1>8. Fits(v, reg[k])
  BY <1>3 DEF Fits
<1>9. QED
  BY <1>3, <1>5, <1>6, <1>7, <1>8, OneSaved

(* moveFirstFromWaitingToStaked. *)
LEMMA FirstMoved ==
  ASSUME StakingInv, notEmpty, NEW q, q = moveFirstFromWaitingToStaked(reg),
         NEW m, m = MovedList, NEW c, c = stakedNodes + 1
  PROVE  /\ RecordsOf(q, m, c)
         /\ First \in Key /\ reg[First].waiting
         /\ \A x \in Key : x # First => q[x] = reg[x]
<1>1. /\ reg \in RegistrationMaps /\ \A x \in Key : reg[x] \in Registrations
      /\ ListOf(list, Waiting(reg), JailedOnce(reg))
      /\ \A x \in Key : reg[x].waiting => reg[x].registered /\ ~reg[x].staked
      /\ stakedNodes \in Nat
  BY StakingTypes
<1>2. First \in Waiting(reg)
  BY <1>1, ListFacts DEF notEmpty, First
<1>3. First \in Key /\ reg[First].waiting /\ ~reg[First].staked
  BY <1>1, <1>2 DEF Waiting
<1>4. PICK f : f = First
  OBVIOUS
<1>5. PICK v : v = activeStakingFor(reg[f])
  OBVIOUS
<1>6. v \in Registrations /\ v.staked /\ ~v.waiting
  BY <1>1, <1>3, <1>4, <1>5 DEF Registrations, activeStakingFor
<1>7. q = Written(reg, f, v)
  BY <1>4, <1>5 DEF moveFirstFromWaitingToStaked, Written
<1>8. ListOf(m, Waiting(reg) \ {f}, JailedOnce(reg))
  <2>1. m = removeFromWaitingList(list, f) /\ f \in Key
    BY <1>3, <1>4 DEF MovedList
  <2>2. QED
    BY <1>1, <2>1, RemovedLists
<1>9. WaitingAfter(reg, f, v) = Waiting(reg) \ {f}
  BY <1>6 DEF WaitingAfter
<1>10. c = CountAfter(stakedNodes, reg[f], v)
  BY <1>3, <1>4, <1>6 DEF CountAfter
<1>11. Fits(v, reg[f])
  BY <1>6 DEF Fits
<1>12. RecordsOf(reg, list, stakedNodes) /\ f \in Key
  BY <1>3, <1>4 DEF StakingInv
<1>13. RecordsOf(q, m, c)
  BY <1>7, <1>8, <1>9, <1>10, <1>11, <1>12, OneRegistration
<1>14. \A x \in Key : x # First => q[x] = reg[x]
  BY <1>1, <1>4, <1>7 DEF Written, RegistrationMaps
<1>15. QED
  BY <1>3, <1>13, <1>14

(* A staked key's registration is rewritten after the first waiting key took a place. *)
LEMMA MovedAndWritten ==
  ASSUME StakingInv, notEmpty, NEW k \in Key, reg[k].staked,
         NEW v \in Registrations, ~v.waiting,
         NEW q, q = [moveFirstFromWaitingToStaked(reg) EXCEPT ![k] = v],
         NEW m, m = MovedList, NEW c, c = IF v.staked THEN stakedNodes + 1 ELSE stakedNodes
  PROVE  RecordsOf(q, m, c)
<1>1. PICK r : r = moveFirstFromWaitingToStaked(reg)
  OBVIOUS
<1>2. PICK n : n = stakedNodes + 1
  OBVIOUS
<1>3. /\ RecordsOf(r, m, n)
      /\ First \in Key /\ reg[First].waiting
      /\ \A x \in Key : x # First => r[x] = reg[x]
  BY <1>1, <1>2, FirstMoved
<1>4. k # First
  BY <1>3, StakingTypes
<1>5. r[k] = reg[k] /\ r[k].staked /\ ~r[k].waiting
  BY <1>3, <1>4, StakingTypes
<1>6. WaitingAfter(r, k, v) = Waiting(r)
  BY <1>5 DEF WaitingAfter, Waiting
<1>7. ListOf(m, WaitingAfter(r, k, v), JailedOnce(r))
  BY <1>3, <1>6 DEF RecordsOf
<1>8. c = CountAfter(n, r[k], v)
  <2>1. stakedNodes \in Nat
    BY StakingTypes
  <2>2. QED
    BY <1>2, <1>5, <2>1 DEF CountAfter
<1>9. Fits(v, r[k])
  BY DEF Fits
<1>10. q = Written(r, k, v)
  BY <1>1 DEF Written
<1>11. RecordsOf(r, m, n)
  BY <1>3
<1>12. QED
  BY <1>7, <1>8, <1>9, <1>10, <1>11, OneRegistration

LEMMA UnStakeV1Steps ==
  ASSUME StakingInv, NEW k \in Key, unStakeV1(k)
  PROVE  StakingInv'
<1>1. /\ reg \in RegistrationMaps /\ reg[k] \in Registrations
      /\ ListOf(list, Waiting(reg), JailedOnce(reg))
  BY StakingTypes
<1>2. CASE /\ ~reg[k].staked
           /\ Save(removeFromWaitingList(list, k), [reg EXCEPT ![k].waiting = FALSE], stakedNodes)
  <2>1. PICK v : v = [reg[k] EXCEPT !.waiting = FALSE]
    OBVIOUS
  <2>2. PICK m : m = removeFromWaitingList(list, k)
    OBVIOUS
  <2>3. v \in Registrations /\ ~v.staked /\ ~v.waiting
    BY <1>1, <1>2, <2>1 DEF Registrations
  <2>4. Save(m, Written(reg, k, v), stakedNodes)
    BY <1>2, <2>1, <2>2 DEF Written
  <2>5. ListOf(m, Waiting(reg) \ {k}, JailedOnce(reg))
    BY <1>1, <2>2, RemovedLists
  <2>6. WaitingAfter(reg, k, v) = Waiting(reg) \ {k}
    BY <2>3 DEF WaitingAfter
  <2>7. Fits(v, reg[k]) /\ stakedNodes = CountAfter(stakedNodes, reg[k], v)
    BY <1>2, <2>3 DEF Fits, CountAfter
  <2>8. QED
    BY <2>3, <2>4, <2>5, <2>6, <2>7, OneSaved
<1>3. CASE /\ reg[k].staked /\ notEmpty
           /\ Save(MovedList, [moveFirstFromWaitingToStaked(reg) EXCEPT ![k] = doUnStake(reg[k])],
                   stakedNodes)
  <2>1. PICK v : v = doUnStake(reg[k])
    OBVIOUS
  <2>2. PICK m : m = MovedList
    OBVIOUS
  <2>3. PICK q : q = [moveFirstFromWaitingToStaked(reg) EXCEPT ![k] = v]
    OBVIOUS
  <2>4. v \in Registrations /\ ~v.staked /\ ~v.waiting
    BY <1>1, <2>1, Unstaked
  <2>5. PICK c : c = IF v.staked THEN stakedNodes + 1 ELSE stakedNodes
    OBVIOUS
  <2>6. RecordsOf(q, m, c) /\ c = stakedNodes
    BY <1>3, <2>2, <2>3, <2>4, <2>5, MovedAndWritten
  <2>7. Save(m, q, c) /\ era # "v4"
    BY <1>3, <2>1, <2>2, <2>3, <2>6 DEF unStakeV1
  <2>8. QED
    BY <2>6, <2>7, RecordsSaved
<1>4. CASE /\ reg[k].staked
           /\ Save(list, [reg EXCEPT ![k] = doUnStake(@)], removeFromStakedNodes(stakedNodes))
  BY <1>4, UnstakedSaved
<1>5. QED
  BY <1>2, <1>3, <1>4 DEF unStakeV1

LEMMA UnStakeV2Steps ==
  ASSUME StakingInv, NEW k \in Key, unStakeV2(k)
  PROVE  StakingInv'
BY UnstakedSaved DEF unStakeV2

LEMMA UnBondSteps ==
  ASSUME StakingInv, NEW k \in Key, unBond(k)
  PROVE  StakingInv'
<1>1. PICK v : v = Unregistered
  OBVIOUS
<1>2. v \in Registrations /\ ~v.staked /\ ~v.waiting
  BY <1>1 DEF Unregistered, Registrations
<1>3. ~reg[k].staked /\ ~reg[k].waiting
  BY DEF unBond
<1>4. Save(list, Written(reg, k, v), stakedNodes)
  BY <1>1 DEF unBond, Written
<1>5. ListOf(list, WaitingAfter(reg, k, v), JailedOnce(reg))
  BY <1>2, <1>3, SamePlace
<1>6. Fits(v, reg[k]) /\ stakedNodes = CountAfter(stakedNodes, reg[k], v)
  BY <1>2, <1>3 DEF Fits, CountAfter
<1>7. QED
  BY <1>2, <1>4, <1>5, <1>6, OneSaved

NotStaked(r) == [r EXCEPT !.staked = FALSE]

LEMMA NotStakedType ==
  ASSUME NEW r \in Registrations, ~r.waiting, NEW v, v = NotStaked(r)
  PROVE  v \in Registrations /\ ~v.staked /\ ~v.waiting
BY DEF Registrations, NotStaked

JailedTimes(r, n) == [r EXCEPT !.jailed = TRUE, !.numJailed = n]

LEMMA JailedTimesType ==
  ASSUME NEW r \in Registrations, NEW n \in 0..2, NEW v, v = JailedTimes(r, n)
  PROVE  v \in Registrations /\ (v.staked <=> r.staked) /\ (v.waiting <=> r.waiting)
BY DEF Registrations, JailedTimes

LEMMA SwitchSteps ==
  ASSUME StakingInv, NEW k \in Key, switchJailedWithWaiting(k)
  PROVE  StakingInv'
<1>1. /\ reg \in RegistrationMaps /\ reg[k] \in Registrations
      /\ ListOf(list, Waiting(reg), JailedOnce(reg))
      /\ reg[k].staked /\ ~reg[k].waiting /\ stakedNodes \in Nat /\ stakedNodes > 0
      /\ era # "v4"
  BY StakingTypes DEF switchJailedWithWaiting, EndOfEpoch
<1>2. PICK moved : moved = Moved(k)
  OBVIOUS
<1>3. PICK jailed : jailed = JailedTimes(reg[k], IF reg[k].numJailed = 0 THEN 1 ELSE 2)
  OBVIOUS
<1>4. jailed \in Registrations /\ jailed.staked /\ ~jailed.waiting
  <2>1. PICK n : n = IF reg[k].numJailed = 0 THEN 1 ELSE 2
    OBVIOUS
  <2>2. n \in 0..2 /\ jailed = JailedTimes(reg[k], n)
    BY <1>3, <2>1
  <2>3. QED
    BY <1>1, <2>2, JailedTimesType
<1>5. PICK free : free = NotStaked(jailed)
  OBVIOUS
<1>6. free \in Registrations /\ ~free.staked /\ ~free.waiting
  BY <1>4, <1>5, NotStakedType
<1>7. PICK v : v = IF canUnStake(moved.n) THEN free ELSE jailed
  OBVIOUS
<1>8. v \in Registrations /\ ~v.waiting
  BY <1>4, <1>6, <1>7
<1>9. PICK c : c = IF v.staked THEN moved.n ELSE removeFromStakedNodes(moved.n)
  OBVIOUS
<1>10. Save(moved.l, [moved.r EXCEPT ![k] = v], c)
  BY <1>2, <1>3, <1>4, <1>5, <1>6, <1>7, <1>9 DEF switchJailedWithWaiting, NotStaked, JailedTimes
<1>11. ~InStore(list, k)
  BY <1>1, ListFacts DEF Waiting
<1>12. CASE notEmpty
  <2>1. /\ moved.l = IF firstIsValid THEN MovedList ELSE Failed(list)
        /\ moved.r = moveFirstFromWaitingToStaked(reg) /\ moved.n = stakedNodes + 1
    BY <1>2, <1>11, <1>12 DEF Moved
  <2>2. moved.l = MovedList
    <3>1. ~Failed(list).ok
      BY <1>1, ListFacts DEF Failed, WaitingLists
    <3>2. moved.l.ok
      BY <1>10 DEF Save
    <3>3. QED
      BY <2>1, <3>1, <3>2
  <2>3. c = IF v.staked THEN stakedNodes + 1 ELSE stakedNodes
    BY <1>1, <1>9, <2>1 DEF removeFromStakedNodes
  <2>4. PICK q : q = [moveFirstFromWaitingToStaked(reg) EXCEPT ![k] = v]
    OBVIOUS
  <2>5. PICK m : m = MovedList
    OBVIOUS
  <2>6. RecordsOf(q, m, c)
    BY <1>1, <1>8, <1>12, <2>3, <2>4, <2>5, MovedAndWritten
  <2>7. Save(m, q, c)
    BY <1>10, <2>1, <2>2, <2>4, <2>5
  <2>8. QED
    BY <1>1, <2>6, <2>7, RecordsSaved
<1>13. CASE ~notEmpty
  <2>1. moved.l = list /\ moved.r = reg /\ moved.n = stakedNodes
    BY <1>2, <1>11, <1>13 DEF Moved
  <2>2. c = CountAfter(stakedNodes, reg[k], v)
    BY <1>1, <1>9, <2>1 DEF removeFromStakedNodes, CountAfter
  <2>3. Save(list, Written(reg, k, v), c)
    BY <1>10, <2>1 DEF Written
  <2>4. ListOf(list, WaitingAfter(reg, k, v), JailedOnce(reg))
    BY <1>1, <1>8, SamePlace
  <2>5. Fits(v, reg[k])
    BY <1>8 DEF Fits
  <2>6. QED
    BY <1>8, <2>2, <2>3, <2>4, <2>5, OneSaved
<1>14. QED
  BY <1>12, <1>13

LEMMA UnStakeAtEndSteps ==
  ASSUME StakingInv, NEW k \in Key, unStakeAtEndOfEpoch(k)
  PROVE  StakingInv'
<1>1. /\ reg \in RegistrationMaps /\ reg[k] \in Registrations
      /\ ListOf(list, Waiting(reg), JailedOnce(reg)) /\ stakedNodes \in Nat
      /\ reg[k].staked => stakedNodes > 0
  BY StakingTypes
<1>2. PICK v : v = doUnStake(reg[k])
  OBVIOUS
<1>3. v \in Registrations /\ ~v.staked /\ ~v.waiting
  BY <1>1, <1>2, Unstaked
<1>4. PICK m : m = IF reg[k].waiting THEN removeFromWaitingList(list, k) ELSE list
  OBVIOUS
<1>5. PICK c : c = IF reg[k].staked THEN removeFromStakedNodes(stakedNodes) ELSE stakedNodes
  OBVIOUS
<1>6. Save(m, Written(reg, k, v), c)
  BY <1>2, <1>4, <1>5 DEF unStakeAtEndOfEpoch, Written
<1>7. c = CountAfter(stakedNodes, reg[k], v)
  BY <1>1, <1>3, <1>5 DEF CountAfter, removeFromStakedNodes
<1>8. WaitingAfter(reg, k, v) = Waiting(reg) \ {k}
  BY <1>3 DEF WaitingAfter
<1>9. ListOf(m, Waiting(reg) \ {k}, JailedOnce(reg))
  <2>1. CASE reg[k].waiting
    BY <1>1, <1>4, <2>1, RemovedLists
  <2>2. CASE ~reg[k].waiting
    <3>1. Waiting(reg) \ {k} = Waiting(reg)
      BY <2>2 DEF Waiting
    <3>2. QED
      BY <1>1, <1>4, <2>2, <3>1
  <2>3. QED
    BY <2>1, <2>2
<1>10. Fits(v, reg[k])
  BY <1>3 DEF Fits
<1>11. QED
  BY <1>3, <1>6, <1>7, <1>8, <1>9, <1>10, OneSaved

(* The queue after the keys of a part of it were removed along the walk. *)
LEMMA QueueStaked ==
  ASSUME StakingInv, NEW num, NEW short, NEW queue, queue = StakedFromQueue(num, short)
  PROVE  RecordsOf(queue.r, queue.l, queue.n)
<1>1. ListOf(list, Waiting(reg), JailedOnce(reg)) /\ RecordsOf(reg, list, stakedNodes)
  BY DEF StakingInv, RecordsOf
<1>2. PICK w : w = Walk(list)
  OBVIOUS
<1>3. PICK n : n = list.length
  OBVIOUS
<1>4. /\ Len(w) = n /\ n \in Nat /\ DOMAIN w = 1..n
      /\ \A i \in 1..n : w[i] \in Waiting(reg)
  BY <1>1, <1>2, <1>3, WalkFacts, ListFacts
<1>5. PICK keys : keys = FundedFirst(num, short)
  OBVIOUS
<1>6. \A k \in keys : \E i \in 1..n : w[i] = k
  BY <1>2, <1>4, <1>5 DEF FundedFirst
<1>7. keys \subseteq Waiting(reg)
  BY <1>4, <1>6
<1>8. PICK m : m = removeAll(list, w, keys)
  OBVIOUS
<1>9. ListOf(m, Waiting(reg) \ keys, JailedOnce(reg))
  <2>1. Len(w) \in Nat /\ \A i \in 1..Len(w) : w[i] \in Key
    BY <1>4 DEF Waiting
  <2>2. \A k \in keys : \E i \in 1..Len(w) : w[i] = k
    BY <1>4, <1>6
  <2>3. QED
    BY <1>1, <1>8, <2>1, <2>2, RemovedAllLists
<1>10. PICK q : q = [k \in Key |-> IF k \in keys THEN activeStakingFor(reg[k]) ELSE reg[k]]
  OBVIOUS
<1>11. PICK c : c = stakedNodes + Cardinality(keys)
  OBVIOUS
<1>12. RecordsOf(q, m, c)
  BY <1>1, <1>7, <1>9, <1>10, <1>11, BatchStaked
<1>13. queue.r = q /\ queue.l = m /\ queue.n = c
  BY <1>2, <1>5, <1>8, <1>10, <1>11 DEF StakedFromQueue
<1>14. QED
  BY <1>12, <1>13

LEMMA StakeFromQueueSteps ==
  ASSUME StakingInv, NEW num, NEW short, stakeNodesFromQueue(num, short)
  PROVE  StakingInv'
<1>1. PICK queue : queue = StakedFromQueue(num, short)
  OBVIOUS
<1>2. RecordsOf(queue.r, queue.l, queue.n)
  BY <1>1, QueueStaked
<1>3. Save(queue.l, queue.r, queue.n) /\ era # "v4"
  BY <1>1 DEF stakeNodesFromQueue
<1>4. QED
  BY <1>2, <1>3, RecordsSaved

LEMMA UpdateMaxSteps ==
  ASSUME StakingInv, NEW max, NEW short, updateMaxNodes(max, short)
  PROVE  StakingInv'
<1>1. PICK num : num = max - maxNodes
  OBVIOUS
<1>2. PICK queue : queue = StakedFromQueue(num, short)
  OBVIOUS
<1>3. RecordsOf(queue.r, queue.l, queue.n)
  BY <1>2, QueueStaked
<1>4. list' = queue.l /\ reg' = queue.r /\ stakedNodes' = queue.n /\ era' = "queue"
  BY <1>1, <1>2 DEF updateMaxNodes
<1>5. QED
  BY <1>3, <1>4 DEF StakingInv

LEMMA CleanSteps ==
  ASSUME StakingInv, NEW short, cleanAdditionalQueue(short)
  PROVE  StakingInv'
<1>1. ListOf(list, Waiting(reg), JailedOnce(reg)) /\ RecordsOf(reg, list, stakedNodes)
  BY DEF StakingInv, RecordsOf
<1>2. PICK w : w = Walk(list)
  OBVIOUS
<1>3. PICK n : n = list.length
  OBVIOUS
<1>4. /\ w \in Seq(Key) /\ Len(w) = n /\ n \in Nat /\ DOMAIN w = 1..n
      /\ \A i \in 1..n : w[i] \in Waiting(reg)
  BY <1>1, <1>2, <1>3, WalkFacts, ListFacts
<1>5. PICK keys : keys = {w[i] : i \in {j \in DOMAIN w :
                            Cardinality({x \in j..Len(w) : OwnerOf[w[x]] = OwnerOf[w[j]]})
                              <= short[OwnerOf[w[j]]]}}
  OBVIOUS
<1>6. \A k \in keys : \E i \in 1..n : w[i] = k
  BY <1>4, <1>5
<1>7. keys \subseteq Waiting(reg)
  BY <1>4, <1>6
<1>8. PICK back : back = Reverse(w)
  OBVIOUS
<1>9. /\ Len(back) = n
      /\ \A i \in 1..n : back[i] \in Key
      /\ \A k \in keys : \E i \in 1..n : back[i] = k
  <2>1. back = [i \in 1..n |-> w[(n - i) + 1]]
    BY <1>4, <1>8 DEF Reverse
  <2>2. \A i \in 1..n : (n - i) + 1 \in 1..n /\ (n - ((n - i) + 1)) + 1 = i
    BY <1>4
  <2>3. \A i \in 1..n : back[i] \in Key
    BY <1>4, <2>1, <2>2 DEF Waiting
  <2>4. \A i \in 1..n : back[(n - i) + 1] = w[i]
    BY <2>1, <2>2
  <2>5. \A k \in keys : \E i \in 1..n : back[i] = k
    BY <1>6, <2>2, <2>4
  <2>6. back \in [1..n -> Key]
    BY <2>1, <2>3
  <2>7. Len(back) = n
    BY <1>4, <2>6
  <2>8. QED
    BY <2>3, <2>5, <2>7
<1>10. PICK m : m = removeAll(list, back, keys)
  OBVIOUS
<1>11. ListOf(m, Waiting(reg) \ keys, JailedOnce(reg))
  BY <1>1, <1>4, <1>9, <1>10, RemovedAllLists
<1>12. PICK q : q = [k \in Key |-> IF k \in keys THEN doUnStake(reg[k]) ELSE reg[k]]
  OBVIOUS
<1>13. RecordsOf(q, m, stakedNodes)
  BY <1>1, <1>7, <1>11, <1>12, BatchLeft
<1>14. Save(m, q, stakedNodes) /\ era # "v4"
  BY <1>2, <1>5, <1>8, <1>10, <1>12 DEF cleanAdditionalQueue, EndOfEpoch
<1>15. QED
  BY <1>13, <1>14, RecordsSaved

LEMMA ResetSteps ==
  ASSUME StakingInv, resetLastUnJailedFromQueue
  PROVE  StakingInv'
<1>1. PICK m : m = [list EXCEPT !.lastJailed = NoKey]
  OBVIOUS
<1>2. ListOf(m, Waiting(reg), JailedOnce(reg))
  BY <1>1, StakingTypes, ResetLists
<1>3. RecordsOf(reg, m, stakedNodes)
  BY <1>2 DEF StakingInv, RecordsOf
<1>4. Save(m, reg, stakedNodes) /\ era # "v4"
  BY <1>1 DEF resetLastUnJailedFromQueue, EndOfEpoch
<1>5. QED
  BY <1>3, <1>4, RecordsSaved

LEMMA UnStakeAllSteps ==
  ASSUME StakingInv, unStakeAllNodesFromQueue
  PROVE  StakingInv'
<1>1. ListOf(list, Waiting(reg), JailedOnce(reg)) /\ RecordsOf(reg, list, stakedNodes)
  BY DEF StakingInv, RecordsOf
<1>2. PICK w : w = Walk(list)
  OBVIOUS
<1>3. PICK left : left = {w[i] : i \in DOMAIN w}
  OBVIOUS
<1>4. left = Waiting(reg)
  <2>1. /\ DOMAIN w = 1..list.length
        /\ \A i \in 1..list.length : w[i] \in Waiting(reg)
        /\ \A k \in Waiting(reg) : \E i \in 1..list.length : w[i] = k
    BY <1>1, <1>2, WalkFacts
  <2>2. QED
    BY <1>3, <2>1
<1>5. PICK e : e = [k \in Key |-> IF k \in left THEN Missing ELSE list.elem[k]]
  OBVIOUS
<1>6. PICK m : m = EmptyHead(e)
  OBVIOUS
<1>7. e \in ElementMaps /\ \A k \in Key : ~e[k].stored
  <2>1. list.elem \in ElementMaps /\ NoKey \notin Key
    BY <1>1, ListFacts DEF WaitingLists
  <2>2. ASSUME NEW k \in Key PROVE e[k] \in Elements /\ ~e[k].stored
    <3>1. CASE k \in left
      BY <1>5, <3>1 DEF Missing, Elements, KeyOrNone
    <3>2. CASE k \notin left
      <4>1. e[k] = list.elem[k] /\ e[k] \in Elements
        BY <1>5, <2>1, <3>2 DEF ElementMaps
      <4>2. ~InStore(list, k) /\ k # NoKey
        BY <1>1, <1>4, <2>1, <3>2, ListFacts
      <4>3. QED
        BY <4>1, <4>2 DEF InStore
    <3>3. QED
      BY <3>1, <3>2
  <2>3. QED
    BY <1>5, <2>2 DEF ElementMaps
<1>8. ListOf(m, {}, JailedOnce(reg))
  BY <1>6, <1>7, EmptyLists
<1>9. PICK q : q = [k \in Key |-> IF k \in left THEN doUnStake(reg[k]) ELSE reg[k]]
  OBVIOUS
<1>10. RecordsOf(q, m, stakedNodes)
  <2>1. left \subseteq Waiting(reg) /\ Waiting(reg) \ left = {}
    BY <1>4
  <2>2. ListOf(m, Waiting(reg) \ left, JailedOnce(reg))
    BY <1>8, <2>1
  <2>3. QED
    BY <1>1, <1>9, <2>1, <2>2, BatchLeft
<1>11. Waiting(q) = {}
  <2>1. ListOf(m, Waiting(q), JailedOnce(q)) /\ m.length = 0
    BY <1>6, <1>10 DEF RecordsOf, EmptyHead
  <2>2. QED
    BY <2>1, ListFacts
<1>12. reg' = q /\ list' = m /\ stakedNodes' = stakedNodes /\ era' = "v4"
  BY <1>2, <1>3, <1>5, <1>6, <1>9 DEF unStakeAllNodesFromQueue
<1>13. QED
  BY <1>10, <1>11, <1>12 DEF StakingInv

-----------------------------------------------------------------------------
(* The invariant holds, and what it says. *)

LEMMA StakingInitially ==
  ASSUME StakingInit
  PROVE  StakingInv
<1>1. PICK e : e = [k \in Key |-> Missing]
  OBVIOUS
<1>2. e \in ElementMaps /\ \A k \in Key : ~e[k].stored
  BY <1>1 DEF ElementMaps, Elements, Missing, KeyOrNone
<1>3. ListOf(list, {}, JailedOnce(reg))
  BY <1>1, <1>2, EmptyLists DEF StakingInit
<1>4. /\ reg \in RegistrationMaps
      /\ \A k \in Key : ~reg[k].waiting /\ ~reg[k].staked
  BY DEF StakingInit, RegistrationMaps, Registrations, Unregistered
<1>5. Waiting(reg) = {} /\ Staked(reg) = {}
  BY <1>4 DEF Waiting, Staked
<1>6. stakedNodes = Cardinality(Staked(reg)) /\ era = "queue"
  BY <1>5, FS_EmptySet DEF StakingInit
<1>7. QED
  BY <1>3, <1>4, <1>5, <1>6 DEF StakingInv, RecordsOf

LEMMA StakingStep ==
  ASSUME StakingInv, [StakingNext]_stakingVars
  PROVE  StakingInv'
<1>1. ASSUME NEW k \in Key, register(k) PROVE StakingInv'
  BY <1>1, RegisterSteps
<1>2. ASSUME NEW k \in Key, stake(k) PROVE StakingInv'
  BY <1>2, StakeSteps
<1>3. ASSUME NEW k \in Key, unJail(k) PROVE StakingInv'
  BY <1>3, StakeSteps
<1>4. ASSUME NEW k \in Key, unStakeV1(k) PROVE StakingInv'
  BY <1>4, UnStakeV1Steps
<1>5. ASSUME NEW k \in Key, unStakeV2(k) PROVE StakingInv'
  BY <1>5, UnStakeV2Steps
<1>6. ASSUME NEW k \in Key, unBond(k) PROVE StakingInv'
  BY <1>6, UnBondSteps
<1>7. ASSUME NEW k \in Key, switchJailedWithWaiting(k) PROVE StakingInv'
  BY <1>7, SwitchSteps
<1>8. ASSUME NEW k \in Key, unStakeAtEndOfEpoch(k) PROVE StakingInv'
  BY <1>8, UnStakeAtEndSteps
<1>9. ASSUME NEW short, cleanAdditionalQueue(short) PROVE StakingInv'
  BY <1>9, CleanSteps
<1>10. ASSUME NEW num, NEW short, stakeNodesFromQueue(num, short) PROVE StakingInv'
  BY <1>10, StakeFromQueueSteps
<1>11. ASSUME NEW max, NEW short, updateMaxNodes(max, short) PROVE StakingInv'
  BY <1>11, UpdateMaxSteps
<1>12. ASSUME resetLastUnJailedFromQueue PROVE StakingInv'
  BY <1>12, ResetSteps
<1>13. ASSUME StartStakingV4 PROVE StakingInv'
  BY <1>13 DEF StakingInv, StartStakingV4
<1>14. ASSUME unStakeAllNodesFromQueue PROVE StakingInv'
  BY <1>14, UnStakeAllSteps
<1>15. ASSUME UNCHANGED stakingVars PROVE StakingInv'
  BY <1>15 DEF StakingInv, stakingVars
<1>16. QED
  BY <1>1, <1>2, <1>3, <1>4, <1>5, <1>6, <1>7, <1>8, <1>9, <1>10, <1>11, <1>12, <1>13,
     <1>14, <1>15 DEF StakingNext

(* A list holds as many keys as its length says. *)
LEMMA ListSize ==
  ASSUME NEW l, NEW w, NEW S, NEW J, Rep(l, w, S, J)
  PROVE  Cardinality(S) = l.length
<1>1. PICK n : n = l.length
  OBVIOUS
<1>2. /\ n \in Nat /\ w \in [1..n -> Key]
      /\ \A i, j \in 1..n : w[i] = w[j] => i = j
      /\ \A i \in 1..n : w[i] \in S
      /\ \A k \in S : \E i \in 1..n : w[i] = k
  BY <1>1, RepFacts
<1>3. w \in [1..n -> S]
  BY <1>2
<1>4. w \in Surjection(1..n, S) /\ w \in Injection(1..n, S)
  BY <1>2, <1>3 DEF Surjection, Injection, IsInjective
<1>5. IsFiniteSet(1..n) /\ Cardinality(1..n) = n
  <2>1. IsFiniteSet(1..n) /\ Cardinality(1..n) = IF 1 > n THEN 0 ELSE n - 1 + 1
    BY <1>2, FS_Interval
  <2>2. QED
    BY <1>2, <2>1
<1>6. Cardinality(S) = Cardinality(1..n)
  BY <1>4, <1>5, FS_Surjection
<1>7. QED
  BY <1>1, <1>5, <1>6

LEMMA WellFormedThen ==
  ASSUME StakingInv
  PROVE  QueueWellFormed
<1>1. PICK w : w = Walk(list)
  OBVIOUS
<1>2. PICK S : S = Waiting(reg)
  OBVIOUS
<1>3. PICK J : J = JailedOnce(reg)
  OBVIOUS
<1>4. ListOf(list, S, J)
  BY <1>2, <1>3 DEF StakingInv, RecordsOf
<1>5. Rep(list, w, S, J) /\ Len(w) = list.length /\ DOMAIN w = 1..list.length
  BY <1>1, <1>4, WalkFacts
<1>6. PICK n : n = list.length
  OBVIOUS
<1>7. /\ n \in Nat /\ S \subseteq Key /\ NoKey \notin Key
      /\ \A i \in 1..n : w[i] \in S /\ w[i] \in Key /\ InStore(list, w[i])
      /\ \A k \in Key : InStore(list, k) <=> k \in S
      /\ \A k \in S : \E i \in 1..n : w[i] = k
      /\ \A i \in 1..n : /\ list.elem[w[i]].next = IF i = n THEN NoKey ELSE w[i + 1]
                         /\ list.elem[w[i]].prev = IF i = 1 THEN w[1] ELSE w[i - 1]
      /\ n > 0 => list.first = w[1] /\ list.last = w[n]
  BY <1>5, <1>6, RepFacts
<1>8. InList = S
  BY <1>7 DEF InList
<1>9. WalkOK(list)
  BY <1>1, <1>5, <1>6, <1>7 DEF WalkOK
<1>10. Cardinality(InList) = list.length
  BY <1>5, <1>8, ListSize
<1>11. Range(w) = InList
  <2>1. Range(w) = {w[i] : i \in 1..n}
    BY <1>5, <1>6 DEF Range
  <2>2. QED
    BY <1>7, <1>8, <2>1
<1>12. n > 0 => /\ list.last = w[n] /\ list.elem[list.last].next = NoKey
                /\ list.elem[list.first].prev = list.first
  <2>1. n > 0 => 1 \in 1..n /\ n \in 1..n
    BY <1>7
  <2>2. QED
    BY <1>7, <2>1
<1>13. \A i \in 2..n : list.elem[w[i]].prev = w[i - 1]
  <2>1. \A i \in 2..n : i \in 1..n /\ i # 1
    BY <1>7
  <2>2. QED
    BY <1>7, <2>1
<1>14. list.lastJailed # NoKey => InStore(list, list.lastJailed)
  <2>1. ASSUME list.lastJailed # NoKey
        PROVE  \E j \in 1..n : w[j] = list.lastJailed
    BY <1>5, <1>6, <2>1 DEF Rep, Fronted
  <2>2. QED
    BY <1>7, <2>1
<1>15. QED
  BY <1>1, <1>5, <1>6, <1>9, <1>10, <1>11, <1>12, <1>13, <1>14 DEF QueueWellFormed

LEMMA AgreesThen ==
  ASSUME StakingInv
  PROVE  RegistrationAgrees
<1>1. /\ ListOf(list, Waiting(reg), JailedOnce(reg))
      /\ \A k \in Key : reg[k].waiting => reg[k].registered /\ ~reg[k].staked
      /\ stakedNodes = Cardinality(Staked(reg))
  BY DEF StakingInv, RecordsOf
<1>2. \A k \in Key : InStore(list, k) <=> k \in Waiting(reg)
  BY <1>1, ListFacts
<1>3. QED
  BY <1>1, <1>2 DEF RegistrationAgrees, Waiting, Staked

LEMMA InFrontThen ==
  ASSUME StakingInv
  PROVE  UnjailedInFront
<1>1. PICK w : w = Walk(list)
  OBVIOUS
<1>2. ListOf(list, Waiting(reg), JailedOnce(reg))
  BY DEF StakingInv, RecordsOf
<1>3. PICK n : n = list.length
  OBVIOUS
<1>4. Rep(list, w, Waiting(reg), JailedOnce(reg)) /\ DOMAIN w = 1..n
  BY <1>1, <1>2, <1>3, WalkFacts
<1>5. /\ n \in Nat /\ NoKey \notin Key
      /\ \A i, j \in 1..n : w[i] = w[j] => i = j
      /\ \A i \in 1..n : w[i] \in Key
  BY <1>3, <1>4, RepFacts
<1>6. ASSUME NEW i \in 1..n, NEW j \in 1..n, w[j] = list.lastJailed, i <= j
      PROVE  reg[w[i]].numJailed = 1
  <2>1. list.lastJailed # NoKey
    BY <1>5, <1>6
  <2>2. PICK p \in 1..n : w[p] = list.lastJailed /\ \A x \in 1..p : w[x] \in JailedOnce(reg)
    BY <1>3, <1>4, <2>1 DEF Rep, Fronted
  <2>3. p = j
    BY <1>5, <1>6, <2>2
  <2>4. w[i] \in JailedOnce(reg)
    BY <1>5, <1>6, <2>2, <2>3
  <2>5. QED
    BY <2>4 DEF JailedOnce
<1>7. QED
  BY <1>1, <1>4, <1>6 DEF UnjailedInFront

LEMMA StakingAlways == StakingSpec => []StakingInv
<1>1. StakingInit => StakingInv
  BY StakingInitially
<1>2. StakingInv /\ [StakingNext]_stakingVars => StakingInv'
  BY StakingStep
<1>3. QED
  BY <1>1, <1>2, PTL DEF StakingSpec

(* Whatever keys join and leave in whatever order, a walk along the waiting   *)
(* list meets every stored element once, its pointers back agree, and the     *)
(* last jailed key is in it (addToWaitingList, removeFromWaitingList).        *)
THEOREM QueueStaysWellFormed == StakingSpec => []QueueWellFormed
<1>1. StakingInv => QueueWellFormed
  BY WellFormedThen
<1>2. QED
  BY <1>1, StakingAlways, PTL

(* In every era a key has an element in the list exactly when its registra-   *)
(* tion waits, a waiting key is registered and not staked, and StakedNodes    *)
(* counts the staked registrations (processStake, switchJailedWithWaiting).   *)
THEOREM RegistrationsAgree == StakingSpec => []RegistrationAgrees
<1>1. StakingInv => RegistrationAgrees
  BY AgreesThen
<1>2. QED
  BY <1>1, StakingAlways, PTL

(* The keys up to the last jailed one were all jailed exactly once, through   *)
(* every insertion behind that key, removal of it and reset of the pointer    *)
(* (insertAfterLastJailed, removeFromWaitingList).                            *)
THEOREM UnjailedStayInFront == StakingSpec => []UnjailedInFront
<1>1. StakingInv => UnjailedInFront
  BY InFrontThen
<1>2. QED
  BY <1>1, StakingAlways, PTL
=============================================================================
