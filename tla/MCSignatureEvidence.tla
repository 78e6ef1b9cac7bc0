------------------------ MODULE MCSignatureEvidence ------------------------
(* Headers 1 and 2 compete at nonce 1, header 3 is at nonce 2.             *)
EXTENDS SignatureEvidence, TLC

CONSTANTS k1, k2, k3

MCNonceOf == (1 :> 1) @@ (2 :> 1) @@ (3 :> 2)
MCRoundOf == (1 :> 1) @@ (2 :> 2) @@ (3 :> 3)

MCSymmetry == Permutations({k1, k2})
=============================================================================
