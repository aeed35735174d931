---------------------------- MODULE MCRouteTable ----------------------------
(***************************************************************************)
(* Instances of RouteTable.                                                *)
(***************************************************************************)
EXTENDS RouteTable
=============================================================================
