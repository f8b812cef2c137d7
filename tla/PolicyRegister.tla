--------------------------- MODULE PolicyRegister ---------------------------
(***************************************************************************)
(* What the signed policy registry promises, with no file and no racing    *)
(* process in it: which of the registered policies is the active one is    *)
(* changed by controls only, each counts once, names the policy it was     *)
(* signed to replace, and a revoked policy never comes back.               *)
(* PolicyRegistry implements it (PolicyRegistry!Register).                 *)
(***************************************************************************)
CONSTANTS
    Policies,       \* immutable policy ids
    Nonces,         \* nonces of the control signer
    None            \* no policy

VARIABLES
    known,          \* registered policies
    ever,           \* policies that have been active
    revoked,        \* policies that are revoked
    active,         \* the active policy, or None
    spent,          \* nonces of the controls that counted
    frozen          \* the registry has lost its integrity

register == <<known, ever, revoked, active, spent, frozen>>

Init ==
    /\ known = {} /\ ever = {} /\ revoked = {} /\ spent = {}
    /\ active = None
    /\ frozen = FALSE

Register(p) ==
    /\ ~frozen
    /\ p \notin known
    /\ known' = known \cup {p}
    /\ UNCHANGED <<ever, revoked, active, spent, frozen>>

\* A control counts: its nonce is fresh and `expected' is what it replaces.
Control(p, expected, n) ==
    /\ ~frozen
    /\ expected = active
    /\ p \in known \ revoked
    /\ n \notin spent
    /\ spent' = spent \cup {n}
    /\ UNCHANGED <<known, frozen>>

Activate(p, expected, n) ==
    /\ Control(p, expected, n)
    /\ p # active
    /\ active' = p
    /\ ever' = ever \cup {p}
    /\ UNCHANGED revoked

\* No replacement is chosen for a revoked policy.
Revoke(p, expected, n) ==
    /\ Control(p, expected, n)
    /\ revoked' = revoked \cup {p}
    /\ active' = IF active = p THEN None ELSE active
    /\ UNCHANGED ever

\* Integrity is lost: everything stops where it is.
Freeze ==
    /\ ~frozen
    /\ frozen' = TRUE
    /\ UNCHANGED <<known, ever, revoked, active, spent>>

Next ==
    \/ \E p \in Policies :
        \/ Register(p)
        \/ \E expected \in Policies \cup {None}, n \in Nonces :
            Activate(p, expected, n) \/ Revoke(p, expected, n)
    \/ Freeze

Spec == Init /\ [][Next]_register
=============================================================================
