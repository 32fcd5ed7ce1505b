------------------------------ MODULE BlockStore ------------------------------
(***************************************************************************)
(* What a group promises about the blocks it is given, with the files and  *)
(* indexes left out: blocks are offered to it, any of them may become      *)
(* durable, and a durable block is never lost again, whatever crashes.     *)
(***************************************************************************)
CONSTANT Block

VARIABLES
  offered,   \* blocks that were ever handed to Put
  durable    \* blocks that a restart would find

storeVars == <<offered, durable>>

StoreInit == offered = {} /\ durable = {}

Offer ==
  /\ offered \subseteq offered' /\ offered' \subseteq Block
  /\ UNCHANGED durable

Persist ==
  /\ durable \subseteq durable' /\ durable' \subseteq offered
  /\ UNCHANGED offered

StoreNext == Offer \/ Persist

StoreSpec == StoreInit /\ [][StoreNext]_storeVars
===============================================================================
