----------------------------- MODULE MCSession -----------------------------
(* One machine of either kind, two interchangeable accounts. *)
EXTENDS Session, TLC

Accounts == Permutations(Users)

\* The daemon beside the commands makes the router's state space the larger one.
Bounds ==
    [k \in Kinds |->
        IF k = "desktop" THEN [faults |-> 1, events |-> 2, both |-> 3, logins |-> 3, keys |-> 2]
                         ELSE [faults |-> 1, events |-> 1, both |-> 1, logins |-> 2, keys |-> 2]]
=============================================================================
