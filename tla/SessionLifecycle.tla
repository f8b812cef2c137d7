-------------------------- MODULE SessionLifecycle --------------------------
(***************************************************************************)
(* What the transaction journal promises about sessions and recovery, with *)
(* no file, no scan and no concurrent writer in it: every step is atomic.  *)
(* SessionJournal implements it (SessionJournal!Lifecycle).                *)
(***************************************************************************)
CONSTANTS
    Sessions,       \* immutable session ids
    Correlations,   \* correlation ids
    Auths,          \* recovery authorizations (their SHA-256)
    None            \* "not yet"

VARIABLES
    phase,          \* phase[s]: "absent", "open" or "closed"
    used,           \* correlations some session has begun under
    promise,        \* promise[k]: the [parent, auth] a recovery reserved k for, or None
    started,        \* started[k]: the session that took the reservation of k, or None
    frozen          \* the journal has lost its integrity

lifecycle == <<phase, used, promise, started, frozen>>

Init ==
    /\ phase = [s \in Sessions |-> "absent"]
    /\ used = {}
    /\ promise = [k \in Correlations |-> None]
    /\ started = [k \in Correlations |-> None]
    /\ frozen = FALSE

\* An ordinary session begins: a new identity, under a correlation nobody
\* holds a reservation on.
Start(s, k) ==
    /\ ~frozen
    /\ phase[s] = "absent"
    /\ promise[k] # None => started[k] # None
    /\ phase' = [phase EXCEPT ![s] = "open"]
    /\ used' = used \cup {k}
    /\ UNCHANGED <<promise, started, frozen>>

\* A recovery child begins: with the very decision that reserved k.
StartChild(s, k, parent, auth) ==
    /\ ~frozen
    /\ phase[s] = "absent"
    /\ promise[k] = [parent |-> parent, auth |-> auth]
    /\ started[k] = None
    /\ phase' = [phase EXCEPT ![s] = "open"]
    /\ used' = used \cup {k}
    /\ started' = [started EXCEPT ![k] = s]
    /\ UNCHANGED <<promise, frozen>>

\* COMMIT, ABORT or a DISMISS decision: an open session closes, once.
Close(s) ==
    /\ ~frozen
    /\ phase[s] = "open"
    /\ phase' = [phase EXCEPT ![s] = "closed"]
    /\ UNCHANGED <<used, promise, started, frozen>>

\* A RETRY decision: the parent closes and a never used correlation is kept
\* for its child.
Retry(s, k, auth) ==
    /\ ~frozen
    /\ phase[s] = "open"
    /\ k \notin used
    /\ promise[k] = None
    /\ phase' = [phase EXCEPT ![s] = "closed"]
    /\ promise' = [promise EXCEPT ![k] = [parent |-> s, auth |-> auth]]
    /\ UNCHANGED <<used, started, frozen>>

\* Integrity is lost: everything stops where it is.
Freeze ==
    /\ ~frozen
    /\ frozen' = TRUE
    /\ UNCHANGED <<phase, used, promise, started>>

Next ==
    \/ \E s \in Sessions :
        \/ Close(s)
        \/ \E k \in Correlations :
            \/ Start(s, k)
            \/ \E a \in Auths :
                \/ Retry(s, k, a)
                \/ \E p \in Sessions : StartChild(s, k, p, a)
    \/ Freeze

Spec == Init /\ [][Next]_lifecycle
=============================================================================
