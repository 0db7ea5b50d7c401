-------------------------------- MODULE IntrMC -------------------------------
(* Model-checking instance of Intr: which devices are where. *)
EXTENDS Intr

CONSTANTS d1, d2, d3

Shared == [irq |-> (d1 :> 1 @@ d2 :> 10 @@ d3 :> 10), level |-> {10}, asks |-> 3]
Edges  == [irq |-> (d1 :> 7 @@ d2 :> 15 @@ d3 :> 15), level |-> {}, asks |-> 3]
Mixed  == [irq |-> (d1 :> 3 @@ d2 :> 12 @@ d3 :> 11), level |-> {3, 11}, asks |-> 3]

DeviceLoads == {Shared, Edges, Mixed}
=============================================================================
