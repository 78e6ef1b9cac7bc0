-------------------------- MODULE MCAsyncExecution --------------------------
EXTENDS AsyncExecution

(* Two blocks at nonce 1, a child of each; the child of 2 notarises it. *)
MCNonceOf     == [h \in Headers |-> <<0, 1, 1, 2, 2>>[h]]
MCPrevOf      == [h \in Headers |-> <<1, 1, 1, 2, 3>>[h]]
MCNotarizedBy == [h \in Headers |-> <<1, 1, 1, 2, 1>>[h]]
MCRootOf      == [h \in Headers |-> 0]
MCFirstResult == [hash |-> 1, root |-> 0]

=============================================================================
