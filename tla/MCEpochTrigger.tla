--------------------------- MODULE MCEpochTrigger ---------------------------
EXTENDS EpochTrigger

(* Two competing blocks of epoch 1, one block of epoch 2. *)
MCStartEpoch == [h \in Start |-> <<1, 1, 2>>[h]]
=============================================================================
