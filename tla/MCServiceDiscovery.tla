------------------------- MODULE MCServiceDiscovery --------------------------
(***************************************************************************)
(* The last two subnets of the pool, with two hosts each, and two pods: the  *)
(* name of one is the end of the other's, after a dot or without one.  One    *)
(* service's name is the end of the other's.                                 *)
(***************************************************************************)
EXTENDS ServiceDiscovery, TLC

CONSTANTS web, other

MCPieces == {".", "garden", "web", "db", "my-", "api", "v2-"}
MCNamings ==
    {web :> <<"web">> @@ other :> n : n \in {<<"db", ".", "web">>, <<"my-", "web">>}}
MCServices == {<<"api">>, <<"v2-", "api">>}
=============================================================================
