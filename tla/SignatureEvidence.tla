------------------------- MODULE SignatureEvidence -------------------------
(***************************************************************************)
(* Signature evidence and proof self-assembly                              *)
(* (consensus/spos/bls/v2/signatureEvidence.go, proofSelfAssembly.go).     *)
(*                                                                         *)
(* At the start of a round the node snapshots the signature shares it saw  *)
(* for the previous round's block.  A snapshot with a quorum of shares for *)
(* a nonce that has no proof yet is aggregated into a proof by a goroutine *)
(* (at most one attempt per round and evidence); the snapshot survives in  *)
(* a second slot, retainedQuorum, so that the attempt can be repeated.     *)
(*                                                                         *)
(* Snapshots are heap objects: the two slots and the goroutines share      *)
(* them, and stripping invalid shares changes the shared object.  evs is   *)
(* the heap, a slot holds an identity or None.  The proofs pool is the set *)
(* of hashes with a proof (module ProofsPool has its detail).              *)
(***************************************************************************)
EXTENDS Integers, FiniteSets, FiniteSetsExt

CONSTANTS Hash,           \* header hashes, naturals so that bytes.Compare orders them
          NonceOf,        \* nonce of the header with a hash
          RoundOf,        \* round of the header with a hash
          Group,          \* the consensus group
          Faulty,         \* members that may send invalid signature shares
          Threshold,      \* signatures a proof needs
          MaxRound,       \* bound on the round index
          MaxEvidence,    \* bound on the snapshots alive at a time
          InfraFailures   \* TRUE: share verification may fail for every share at once

ASSUME EvidenceAssumption ==
  /\ Hash \subseteq Nat
  /\ NonceOf \in [Hash -> Nat]
  /\ RoundOf \in [Hash -> Nat]
  /\ IsFiniteSet(Group)
  /\ Faulty \subseteq Group
  /\ Threshold \in 1 .. Cardinality(Group)
  /\ MaxRound \in Nat
  /\ MaxEvidence \in Nat \ {0}
  /\ InfraFailures \in BOOLEAN

VARIABLES
  index,      \* RoundHandler().Index()
  proofs,     \* hashes with a proof in the pool
  evs,        \* the heap of snapshots: EvId -> roundSignatureEvidence or Free
  previous,   \* signatureEvidenceStore.previous
  retained,   \* signatureEvidenceStore.retainedQuorum
  assembled   \* history: the proofs this node assembled from evidence

evidenceVars == <<evs, previous, retained>>

vars == <<index, proofs, evidenceVars, assembled>>

Nonces == {NonceOf[h] : h \in Hash}

EvId == 1 .. MaxEvidence
None == 0

Free == [asm |-> "free"]

(* asm is the assemblyRunning flag with the goroutine's place; launched: a *)
(* goroutine was started on the snapshot and has not run yet.              *)
roundSignatureEvidence ==
  [round : Nat, hash : Hash, shares : SUBSET Group, bad : SUBSET Group,
   next : Nat, asm : {"idle", "aggregate", "add"}, launched : BOOLEAN]

-----------------------------------------------------------------------------
(* The store.                                                              *)

nonce(es, e) == NonceOf[es[e].hash]

getCount(es, e) == Cardinality(es[e].shares)

isNonceSettled(n) == \E h \in proofs : NonceOf[h] = n

(* A snapshot no slot and no goroutine refers to is garbage. *)
Collect(es, p, r) ==
  [e \in EvId |-> IF /\ es[e] # Free
                     /\ e \in {p, r} \/ es[e].launched \/ es[e].asm # "idle"
                    THEN es[e] ELSE Free]

FreeIds == {e \in EvId : evs[e] = Free}

MutantPromotes(e) ==
  /\ e # None
  /\ getCount(evs, e) > Threshold
  /\ ~isNonceSettled(nonce(evs, e))

(* Capture promotes the replaced snapshot to the retained slot. *)
Promotes(e) ==
  /\ e # None
  /\ getCount(evs, e) >= Threshold
  /\ ~isNonceSettled(nonce(evs, e))

IsCandidate(es, e) ==
  /\ e # None
  /\ getCount(es, e) >= Threshold
  /\ ~isNonceSettled(nonce(es, e))

(* The previous slot first, then the retained one; a set of at most one. *)
GetAssemblyCandidate(es, p, r) ==
  IF IsCandidate(es, p) THEN {p} ELSE IF IsCandidate(es, r) THEN {r} ELSE {}

GetPreviousRoundEvidence(n, r) ==
  {e \in {previous} \ {None} : nonce(evs, e) = n /\ evs[e].round = r - 1}

GetRetainedQuorumEvidence(n) ==
  {e \in {retained} \ {None} : nonce(evs, e) = n}

(* The evidence the proposal and the signing decisions look at. *)
EvidenceFor(n, r) ==
  IF GetPreviousRoundEvidence(n, r) # {}
    THEN GetPreviousRoundEvidence(n, r) ELSE GetRetainedQuorumEvidence(n)

DropRetained(es, n) ==
  IF retained # None /\ nonce(es, retained) = n THEN None ELSE retained

(* go trySelfAssembleProof on every snapshot of a set. *)
Launch(es, S) ==
  [e \in EvId |-> IF e \in S THEN [es[e] EXCEPT !.launched = TRUE] ELSE es[e]]

-----------------------------------------------------------------------------
(* StartRound: snapshot the shares of the consensus round cr.              *)

(* nil when there is no block, no share or already a proof at the nonce. *)
HasEvidence(h, shares) == shares # {} /\ ~isNonceSettled(NonceOf[h])

buildSignatureEvidence(cr, h, shares, bad) ==
  [round |-> cr, hash |-> h, shares |-> shares, bad |-> bad,
   next |-> 0, asm |-> "idle", launched |-> FALSE]

captureSignatureEvidence(cr, hs, shares, bad) ==
  LET new  == \E h \in hs : HasEvidence(h, shares)
      id   == IF new THEN Min(FreeIds) ELSE None
      ret  == IF Promotes(previous) THEN previous ELSE retained
      held == IF new
                THEN [evs EXCEPT ![id] =
                        buildSignatureEvidence(cr, CHOOSE h \in hs : TRUE, shares, bad)]
                ELSE evs
  IN /\ new => FreeIds # {}
     /\ previous' = id
     /\ retained' = ret
     /\ evs' = Collect(Launch(held, GetAssemblyCandidate(held, id, ret)), id, ret)

-----------------------------------------------------------------------------
(* trySelfAssembleProof, in the steps other goroutines can come between.   *)

(* The goroutine ends with the heap es, dropping the retained slot or not. *)
EndAssembly(es, e, drop) ==
  LET done == [es EXCEPT ![e].asm = "idle"]
      ret  == IF drop THEN DropRetained(es, nonce(es, e)) ELSE retained
  IN /\ retained' = ret
     /\ evs' = Collect(done, previous, ret)
     /\ UNCHANGED previous

(* The round gate, the running flag, abortOnExistingProof, the eligibility *)
(* of the node and ShouldRefuseCompetingParent (refused).                  *)
AssembleStart(e, eligible, refused) ==
  LET ev      == evs[e]
      reached == [evs EXCEPT ![e].launched = FALSE]
      taken   == [reached EXCEPT ![e].next = index + 1]
  IN /\ ev # Free /\ ev.launched
     /\ \/ /\ ev.next > index \/ ev.asm # "idle"
           /\ evs' = Collect(reached, previous, retained)
           /\ UNCHANGED <<previous, retained>>
        \/ /\ ev.next <= index /\ ev.asm = "idle"
           /\ isNonceSettled(nonce(evs, e)) \/ ~eligible \/ refused
           /\ EndAssembly(taken, e, isNonceSettled(nonce(evs, e)))
        \/ /\ ev.next <= index /\ ev.asm = "idle"
           /\ ~isNonceSettled(nonce(evs, e)) /\ eligible /\ ~refused
           /\ evs' = [taken EXCEPT ![e].asm = "aggregate"]
           /\ UNCHANGED <<previous, retained>>
     /\ UNCHANGED <<index, proofs, assembled>>

MutantStripInvalidShares(ev) == {ev}

MutantDropShares(ev) == {[ev EXCEPT !.shares = @ \ ev.bad]}

(* stripInvalidShares: the snapshots it may leave.  When every share fails *)
(* it keeps them all.                                                      *)
stripInvalidShares(ev) ==
  (IF ev.bad = ev.shares \/ InfraFailures THEN {ev} ELSE {})
    \cup (IF ev.bad # ev.shares
            THEN {[ev EXCEPT !.shares = @ \ ev.bad, !.bad = {}]} ELSE {})

MutantVerifies(ev) == TRUE

(* aggregateAndVerifyEvidence succeeds; no share count is checked. *)
aggregateAndVerifyEvidence(ev) == ev.bad = {}

AssembleAggregate(e) ==
  LET ev == evs[e]
  IN /\ ev # Free /\ ev.asm = "aggregate"
     /\ \/ /\ aggregateAndVerifyEvidence(ev)
           /\ evs' = [evs EXCEPT ![e].asm = "add"]
           /\ UNCHANGED <<previous, retained>>
        \/ /\ ~aggregateAndVerifyEvidence(ev) \/ InfraFailures
           /\ \E left \in stripInvalidShares(ev) :
                LET es    == [evs EXCEPT ![e] = left]
                    below == getCount(es, e) < Threshold
                IN \/ /\ ~below /\ aggregateAndVerifyEvidence(left)
                      /\ evs' = [es EXCEPT ![e].asm = "add"]
                      /\ UNCHANGED <<previous, retained>>
                   \/ /\ below \/ ~aggregateAndVerifyEvidence(left) \/ InfraFailures
                      /\ EndAssembly(es, e, below)
     /\ UNCHANGED <<index, proofs, assembled>>

MutantAddProofIfNoneAtNonce(h) == TRUE

(* AddProofIfNoneAtNonce takes the proof. *)
AddProofIfNoneAtNonce(h) == ~isNonceSettled(NonceOf[h])

(* The second parent check, the atomic add and the broadcast. *)
AssembleAdd(e, refused) ==
  LET ev == evs[e]
  IN /\ ev # Free /\ ev.asm = "add"
     /\ IF ~refused /\ AddProofIfNoneAtNonce(ev.hash)
          THEN /\ proofs' = proofs \cup {ev.hash}
               /\ assembled' = assembled \cup
                    {[hash |-> ev.hash, signers |-> getCount(evs, e), bad |-> ev.bad]}
          ELSE UNCHANGED <<proofs, assembled>>
     /\ EndAssembly(evs, e, ~refused)
     /\ UNCHANGED index

-----------------------------------------------------------------------------
(* The store on its own, driven by every sequence of snapshots.            *)

EvidenceInit ==
  /\ evs = [e \in EvId |-> Free]
  /\ previous = None
  /\ retained = None
  /\ assembled = {}

Init == index = 1 /\ proofs = {} /\ EvidenceInit

(* A new round, rounds may be skipped.  The consensus block of a round is  *)
(* a header of that round; without evidence for it nothing is captured.    *)
StartRound ==
  /\ \E r \in index + 1 .. MaxRound : index' = r
  /\ \/ captureSignatureEvidence(index, {}, {}, {})
     \/ \E h \in {g \in Hash : RoundOf[g] = index}, shares \in SUBSET Group :
          /\ HasEvidence(h, shares)
          /\ \E bad \in SUBSET (shares \cap Faulty) :
               captureSignatureEvidence(index, {h}, shares, bad)
  /\ UNCHANGED <<proofs, assembled>>

(* The leader or a signer meets quorum evidence: it refuses and assembles. *)
RefuseOnEvidence(n) ==
  /\ \E e \in EvidenceFor(n, index) :
       /\ getCount(evs, e) >= Threshold
       /\ ~evs[e].launched   \* one start stands for all that are pending
       /\ evs' = Launch(evs, {e})
  /\ UNCHANGED <<index, proofs, previous, retained, assembled>>

(* A proof from the network or from the end round subround; a second one   *)
(* at a nonce would change nothing that the store looks at.                *)
AddProof(h) ==
  /\ ~isNonceSettled(NonceOf[h])
  /\ proofs' = proofs \cup {h}
  /\ UNCHANGED <<index, evidenceVars, assembled>>

Assemble(e) ==
  \/ AssembleStart(e, TRUE, FALSE)
  \/ AssembleAggregate(e)
  \/ AssembleAdd(e, FALSE)

Next ==
  \/ StartRound
  \/ \E n \in Nonces : RefuseOnEvidence(n)
  \/ \E h \in Hash : AddProof(h)
  \/ \E e \in EvId : Assemble(e)

Spec == Init /\ [][Next]_vars

(* A started goroutine is eventually scheduled, at each of its steps. *)
EvidenceFairness ==
  \A e \in EvId : /\ WF_vars(AssembleStart(e, TRUE, FALSE))
                  /\ WF_vars(AssembleAggregate(e))
                  /\ WF_vars(AssembleAdd(e, FALSE))

-----------------------------------------------------------------------------

(* The heap and the slots are well formed: the slots hold live snapshots, *)
(* invalid shares are shares, and only live snapshots have goroutines.    *)
TypeOK ==
  /\ index \in Nat
  /\ proofs \subseteq Hash
  /\ evs \in [EvId -> roundSignatureEvidence \cup {Free}]
  /\ {previous, retained} \subseteq EvId \cup {None}
  /\ \A e \in {previous, retained} \ {None} : evs[e] # Free
  /\ \A e \in EvId : evs[e] # Free => evs[e].bad \subseteq evs[e].shares
  /\ assembled \subseteq [hash : Hash, signers : Nat, bad : SUBSET Group]

(* trySelfAssembleProof never creates a second proof: whatever arrives    *)
(* between its checks and its add, it adds only at a nonce without proof. *)
AssembledOnFreeNonce ==
  [][\A a \in assembled' \ assembled : ~isNonceSettled(NonceOf[a.hash])]_vars

(* An assembled proof aggregates valid shares only, however the shares of *)
(* the snapshot were stripped by earlier attempts.                        *)
AssembledSharesValid == \A a \in assembled : a.bad = {}

(* An assembled proof carries a quorum of signatures.                     *)
AssembledHasQuorum == \A a \in assembled : a.signers >= Threshold

(* A slot holds a quorum of valid shares for the nonce. *)
ValidQuorumFor(n) ==
  \E e \in {previous, retained} \ {None} :
    nonce(evs, e) = n /\ Cardinality(evs[e].shares \ evs[e].bad) >= Threshold

(* An attempt on a snapshot of the nonce ends with its shares stripped     *)
(* below the threshold: the nonce goes back to waiting for a quorum.       *)
DemotedAt(n) ==
  \E e \in EvId :
    /\ evs[e] # Free /\ nonce(evs, e) = n
    /\ evs[e].asm = "aggregate" /\ evs'[e].asm \in {"free", "idle"}
    /\ Cardinality(evs[e].shares \ evs[e].bad) < Threshold

(* Quorum evidence for a nonce is kept, so that assembly can be retried,   *)
(* until the nonce has a proof, a later quorum takes the retained slot or  *)
(* trySelfAssembleProof demotes the nonce.                                 *)
QuorumEvidenceKept ==
  [][\A n \in Nonces :
       ValidQuorumFor(n) => \/ ValidQuorumFor(n)'
                            \/ isNonceSettled(n)'
                            \/ retained' \notin {None, retained}
                            \/ DemotedAt(n)]_vars

(* A quorum of valid shares seen at the start of a round is turned into a *)
(* proof, by this node or by another one: its nonce gets a proof.         *)
QuorumSettles ==
  \A n \in Nonces :
    (previous # None /\ nonce(evs, previous) = n
       /\ Cardinality(evs[previous].shares \ evs[previous].bad) >= Threshold)
      ~> isNonceSettled(n)
=============================================================================
