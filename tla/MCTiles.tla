------------------------------- MODULE MCTiles --------------------------------
(* Small instances of Tiles for TLC. *)
EXTENDS Tiles
MCPage == {"GroupsTile", "TopIndexTile", "IoStats", "StagingStats", "P2PNodes", "GoRuntimeStats",
           "Providers", "ContentHead", "WorkerStats", "CarUploadStatsTile", "Provider", "Repair",
           "Groups", "DealCountsChart", "Status", "Views"}
MCMaxVersion ==
  [p \in MCPage |-> IF p = "Status" THEN 1 ELSE IF SetAfter(p) = <<1>> THEN 4 ELSE 2]
(* The group appears, uploads, is forgotten while idle, and starts again.  *)
MCBytesAt == (0 :> -1) @@ (1 :> 1) @@ (2 :> 5) @@ (3 :> -1) @@ (4 :> 2)
MCTotalAt == (0 :> 0) @@ (1 :> 100) @@ (2 :> 500) @@ (3 :> 500) @@ (4 :> 700)
MCInput == 0..1100 \cup 9900..10100 \cup 86000..86500 \cup 999900..1000100 \cup 1024000..1024100
           \cup 1048500..1048600 \cup 1499900..1500100 \cup 2591900..2592100
===============================================================================
