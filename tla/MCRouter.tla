------------------------------ MODULE MCRouter ------------------------------
(***************************************************************************)
(* One announcement of this router and one of another node.                *)
(***************************************************************************)
EXTENDS Router
=============================================================================
