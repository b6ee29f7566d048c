------------------------------ MODULE MCDiscovery ------------------------------
(* Two domains: one with up to two users, the other with a user and an unused name. *)
EXTENDS Discovery

CONSTANTS ej, jeff, carl, nobody, here, there

MCHome == [n \in Name |-> IF n \in {ej, jeff} THEN here ELSE there]

=============================================================================
