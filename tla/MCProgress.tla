---------------------------- MODULE MCProgress -----------------------------
(* What must happen in the end, for the three components that state it over *)
(* variables of their own: a behaviour is one of the signature evidence, of *)
(* the synchroniser or of the epoch start trigger, under the fairness of    *)
(* that component.                                                          *)
EXTENDS MCSignatureEvidence, MCBlockSync, MCEpochTrigger

VARIABLE part

progressVars == <<part, vars, syncVars, triggerVars>>

ProgressInit ==
  /\ part \in {"evidence", "sync", "trigger"}
  /\ Init /\ SyncInit /\ TriggerInit
  /\ part # "trigger" => ~admitted
  /\ isMeta = (part # "sync")

ProgressNext ==
  /\ UNCHANGED part
  /\ \/ part = "evidence" /\ Next /\ UNCHANGED <<syncVars, triggerVars>>
     \/ part = "sync" /\ SyncNext /\ UNCHANGED <<vars, triggerVars>>
     \/ part = "trigger" /\ TriggerNext /\ UNCHANGED <<vars, syncVars>>

(* The callbacks run and requested headers arrive.  A canonical block is   *)
(* proven, notarised and settled in the end.  Every tick reaches           *)
(* ComputeNodeState; the other steps of a tick are tried once per round,   *)
(* so one whose condition comes back round after round is taken.           *)
InSync == part = "sync"

SyncFairness ==
  /\ WF_syncVars(InSync /\ DetectorStep) /\ WF_syncVars(InSync /\ CommitEnd)
  /\ WF_syncVars(InSync /\ Loop)
  /\ \A b \in New : /\ WF_syncVars(InSync /\ ProofReceived(b))
                    /\ WF_syncVars(InSync /\ HeaderReceived(b))
  /\ \A b \in Canonical : /\ WF_syncVars(InSync /\ ProofStored(b))
                          /\ SF_syncVars(InSync /\ Notarize(b))
                          /\ WF_syncVars(InSync /\ AuthorityDecides(b))
  /\ SF_syncVars(InSync /\ ComputeNodeState) /\ SF_syncVars(InSync /\ Reconcile)

ProgressSpec ==
  /\ ProgressInit /\ [][ProgressNext]_progressVars
  /\ EvidenceFairness /\ TriggerFairness /\ SyncFairness

(* Bound: a divergence from the metachain is met only where the dead block *)
(* became final before its sibling is proven.                              *)
MCEarlyDivergence ==
  (\E n \in BlockNonces : ReconcileDivergence(n)) => final # Anchor /\ pool \cap Canonical = {}
=============================================================================
