------------------------------- MODULE MCPages --------------------------------
(* Small instances of Pages and GroupPanel for TLC. *)
EXTENDS Pages, TLC
MCStateOf == (0 :> 0) @@ (1 :> 4)
(* A block in one group is answered twice, unless it was in another; null is <<>>. *)
MCResult == {<<1, 1>>, <<2>>, <<>>}
===============================================================================
