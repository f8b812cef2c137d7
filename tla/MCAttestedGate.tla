--------------------------- MODULE MCAttestedGate ---------------------------
(* TLC's instance of AttestedGate: two devices and two executables, of     *)
(* which a full store holds one device only, and two processes; a second   *)
(* measurement that contradicts the first process, and one of a device     *)
(* there is no room for.                                                   *)
EXTENDS AttestedGate, TLC

CONSTANTS d1, d2, x1, x2, p1, p2, a1, a2, a3, a4, c1, c2

Of(d, x, p, c, t) ==
    [device |-> d, executable |-> x, process |-> p, challenge |-> c, observed |-> t]

SomeEvidence ==
    (a1 :> Of(d1, x1, p1, c1, 1)) @@ (a2 :> Of(d1, x2, p2, c2, 2))
        @@ (a3 :> Of(d1, x2, p1, c1, 2)) @@ (a4 :> Of(d2, x1, p2, c1, 1))
=============================================================================
