----------------------------- MODULE MCAccounts -----------------------------
(***************************************************************************)
(* Two usernames and three accounts, so that a name is free again after a  *)
(* deletion; one invite, two sessions, lifetimes shorter than the clock.   *)
(***************************************************************************)
EXTENDS Accounts, TLC

MCMaxId == [user |-> 3, invite |-> 1, rt |-> 2]

\* Usernames and requests are opaque: only equality is ever asked of them.
MCSymmetry == Permutations(Names) \cup Permutations(Reqs)
=============================================================================
