-------------------------- MODULE MCContainerStart ---------------------------
(***************************************************************************)
(* Three runs: two of one garden, one after the other, and one of another    *)
(* garden whose name may have the same first eight characters.  All three    *)
(* containers have one name.                                                 *)
(***************************************************************************)
EXTENDS ContainerStart, TLC

CONSTANTS a1, a2, b1, gardenA, gardenB, vethA, vethB, ipFirst, web

MCGardenOf == a1 :> gardenA @@ a2 :> gardenA @@ b1 :> gardenB
MCNameOf   == a1 :> web @@ a2 :> web @@ b1 :> web
MCSameVeth == a1 :> vethA @@ a2 :> vethA @@ b1 :> vethA
MCOwnVeth  == a1 :> vethA @@ a2 :> vethA @@ b1 :> vethB
MCVethNames == {MCSameVeth, MCOwnVeth}
MCAuto == [p \in {a1, a2, b1} |-> AutoIp]

MCLayers  == [layers |-> TRUE,  found |-> TRUE,  host |-> TRUE]
MCImage   == [layers |-> TRUE,  found |-> TRUE,  host |-> FALSE]
MCPath    == [layers |-> FALSE, found |-> TRUE,  host |-> FALSE]
MCMissing == [layers |-> FALSE, found |-> FALSE, host |-> FALSE]
MCRootfses ==
    {a1 :> MCLayers @@ a2 :> MCLayers @@ b1 :> MCImage,
     a1 :> MCPath @@ a2 :> MCPath @@ b1 :> MCMissing}
MCImages == {[p \in Pods |-> MCImage]}
=============================================================================
