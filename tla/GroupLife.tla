------------------------------- MODULE GroupLife ------------------------------
(***************************************************************************)
(* The life of a group as its row in the groups table records it           *)
(* (iface.GroupState): filled once, given its car and its CommP in this    *)
(* order, and from then on offloaded and loaded again.  It never goes back *)
(* to a state before its CommP, whatever workers, batches, readers and     *)
(* crashes do in between.                                                  *)
(***************************************************************************)
VARIABLE life   \* groups.g_state, "none" before the row is inserted

Moves(from, to) == life = from /\ life' = to

LifeInit == life \in {"none", "Writable"}

Create     == Moves("none", "Writable")
Fill       == Moves("Writable", "Full")
Finalize   == Moves("Full", "VRCARDone")
GenCommP   == Moves("VRCARDone", "LocalReady")
Offload    == Moves("LocalReady", "Offloaded")
LoadFilCar == Moves("Offloaded", "Reload")
FinDataReload == Moves("Reload", "LocalReady")

LifeNext ==
  \/ Create \/ Fill \/ Finalize \/ GenCommP
  \/ Offload \/ LoadFilCar \/ FinDataReload

LifeSpec == LifeInit /\ [][LifeNext]_life
===============================================================================
