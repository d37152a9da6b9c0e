------------------------------ MODULE MCStore -------------------------------
(***************************************************************************)
(* A small database: two users, two nodes, two zones, two announcements.   *)
(* The first real subnet overlaps the second, and the synthetic pool holds *)
(* two blocks of the larger size or four of the smaller.                   *)
(***************************************************************************)
EXTENDS Store, TLC

MCMaxRows    == [user |-> 2, node |-> 2, zone |-> 2, ann |-> 2]
MCSynthPool  == [base |-> 4, len |-> 2]
MCRealBlocks == {[base |-> 0, len |-> 3], [base |-> 1, len |-> 4], [base |-> 2, len |-> 4]}

\* Keys and zone names are opaque: only equality is ever asked of them.
MCSymmetry   == Permutations(Keys) \cup Permutations(ZoneNames)
=============================================================================
