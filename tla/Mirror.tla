------------------------------- MODULE Mirror -------------------------------
(***************************************************************************)
(* What it means that one piece of state is derived from another (the      *)
(* relay's kernel state from its database: "DB is the single source of     *)
(* truth", specs/005).  want is the set of facts the source records,       *)
(* have the set of facts the derived state shows, up tells whether the     *)
(* owner of both is serving.                                               *)
(*                                                                         *)
(* The source moves first and freely.  The derived state only ever moves   *)
(* towards it: a step may show a fact that is wanted or drop one that is   *)
(* not, never the reverse.  While the owner is down the derived state is   *)
(* torn down and rebuilt in any way, but the owner is up again only when   *)
(* the two agree.                                                          *)
(***************************************************************************)
VARIABLES want, have, up

mvars == <<want, have, up>>

Init == up = TRUE /\ have = want

\* A transaction on the source; the derived state has yet to follow.
Change == up /\ UNCHANGED <<have, up>>

\* A call on the derived state.
Follow ==
    /\ up
    /\ have' \subseteq have \cup want
    /\ have \cap want \subseteq have'
    /\ UNCHANGED <<want, up>>

Stop    == up /\ ~ up' /\ UNCHANGED <<want, have>>
Rebuild == ~ up /\ UNCHANGED <<want, up>>
Serve   == ~ up /\ up' /\ have' = want /\ UNCHANGED want

Next == Change \/ Follow \/ Stop \/ Rebuild \/ Serve

Spec == Init /\ [][Next]_mvars
=============================================================================
