----------------------------- MODULE MCDesktop -----------------------------
(***************************************************************************)
(* One press of the button in flight, one announced block.                 *)
(***************************************************************************)
EXTENDS Desktop
=============================================================================
