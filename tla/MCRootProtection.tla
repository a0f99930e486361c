-------------------------- MODULE MCRootProtection --------------------------
(***************************************************************************)
(* Bounded instances of RootProtection.  One root with more changes than   *)
(* there is room for hints meets every disturbance; two roots meet each    *)
(* other with room for every hint; and two roots with too little room lose *)
(* a hint.                                                                 *)
(***************************************************************************)
EXTENDS RootProtection

CONSTANTS r1, r2

(* The first two instances in one: a second root is registered only where  *)
(* nothing is disturbed and roots change once.                             *)
Within ==
    /\ r2 \in registered => r1 \in registered
    /\ r2 \in registered => disturbances = 0 /\ \A r \in Roots : content[r] <= 2

RootSpec == Init /\ [][Next /\ Within']_vars /\ Fairness

=============================================================================
