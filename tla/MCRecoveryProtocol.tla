------------------------- MODULE MCRecoveryProtocol -------------------------
(* TLC's instance of RecoveryProtocol: a session s1 under k1, and a session *)
(* s2 under k2, which may begin first or be reserved as s1's recovery child *)
(* (and the other way round).                                              *)
EXTENDS RecoveryProtocol, TLC

CONSTANTS s1, s2, k1, k2, q1

MCCorrelationOf == (s1 :> k1) @@ (s2 :> k2)
MCRequestOf == [s \in Sessions |-> q1]

Symmetry == Permutations(Auths) \cup Permutations(Clients)
=============================================================================
