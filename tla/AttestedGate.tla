---------------------------- MODULE AttestedGate ----------------------------
(***************************************************************************)
(* The gate of src/src/runtime_attestation.cpp with the identity-tracking  *)
(* provider of src/src/runtime_identity_store.cpp in front of it: the      *)
(* runtime is measured, the evidence is recorded in the identity store,    *)
(* the gate checks challenge, context and freshness, and only then is the  *)
(* lease gate asked (GateChain; here it answers as it likes).  The process *)
(* may die, an append may fail and the clock may move between the steps.   *)
(*                                                                         *)
(* Measuring is external: the provider may return any evidence, stale,     *)
(* answered to another challenge, or the very same as before (as the       *)
(* native one does when asked twice within a millisecond).                 *)
(***************************************************************************)
EXTENDS Naturals, FiniteSets, JournalFile

CONSTANTS
    Devices, Executables, Processes, Attestations, Seen,                \* as in
    MaxDevices, MaxExecutables, MaxProcesses, MaxAttestations,          \* RuntimeIdentityStore
    Challenges,     \* nonces of requests, each with its slot, session and layer
    Times,          \* the times (in ms) the clock may show
    MaxAge,         \* the age both the request and the policy allow
    MaxSkew,        \* how far ahead of the clock an observation may be
    MaxFailures,    \* bound: failed appends
    None            \* absent

VARIABLES
    idFile, idMem,  \* the identity store
    now,            \* the clock
    call,           \* the running authorization, or None
    granted,        \* history: attestations the lease gate was asked for
    struck,         \* history: revocations that were acknowledged
    failures        \* history: failed appends so far

idVars == <<idFile, idMem>>
vars == <<idVars, now, call, granted, struck, failures>>

Store == INSTANCE RuntimeIdentityStore

ASSUME GateAssumption ==
    /\ Times \subseteq Nat \ {0}
    /\ {MaxAge, MaxSkew, MaxFailures} \subseteq Nat
    /\ {MaxDevices, MaxExecutables, MaxProcesses, MaxAttestations} \subseteq Nat \ {0}
    /\ Seen \in [Attestations -> [device : Devices, executable : Executables,
                                  process : Processes, challenge : Challenges,
                                  observed : Times]]
    /\ None \notin Store!Books

Calls == [at : {"record", "check", "lease"}, asked : Challenges, got : Attestations]

Init ==
    /\ Store!Init
    /\ now \in Times
    /\ call = None
    /\ granted = {}
    /\ struck = {}
    /\ failures = 0

Idle == idMem # None /\ call = None

Fails == failures < MaxFailures /\ failures' = failures + 1

Clock(t) ==
    /\ t # now
    /\ now' = t
    /\ UNCHANGED <<idVars, call, granted, struck, failures>>

Open ==
    /\ idMem = None
    /\ Store!Open
    /\ UNCHANGED <<now, call, granted, struck, failures>>

Die ==
    /\ idMem # None
    /\ idMem' = None /\ call' = None
    /\ UNCHANGED <<idFile, now, granted, struck, failures>>

-----------------------------------------------------------------------------
(* An authorization.                                                       *)

\* The inner provider answers the request.
Measure(c, a) ==
    /\ Idle
    /\ call' = [at |-> "record", asked |-> c, got |-> a]
    /\ UNCHANGED <<idVars, now, granted, struck, failures>>

At(step) == idMem # None /\ call # None /\ call.at = step

Goto(step) == call' = [call EXCEPT !.at = step]

\* The tracking provider: what is not stored is EVIDENCE_INVALID.
RecordOrGoOn ==    \* mutated: a failed append is no reason to stop
    /\ At("record")
    /\ LET a == call.got IN
       \/ Store!AlreadyRecorded(a) /\ Goto("check") /\ UNCHANGED <<idVars, failures>>
       \/ /\ Store!MayRecord(a)
          /\ \/ Store!Append(Store!ObservationLine(a)) /\ UNCHANGED failures
             \/ Store!AppendFails(Store!ObservationLine(a)) /\ Fails
          /\ Goto("check")
    /\ UNCHANGED <<now, granted, struck>>
Record ==
    /\ At("record")
    /\ LET a == call.got IN
       \/ /\ Store!AlreadyRecorded(a)
          /\ Goto("check")
          /\ UNCHANGED <<idVars, failures>>
       \/ /\ Store!MayRecord(a)
          /\ Store!Append(Store!ObservationLine(a))
          /\ Goto("check")
          /\ UNCHANGED failures
       \/ /\ Store!MayRecord(a)
          /\ Store!AppendFails(Store!ObservationLine(a))
          /\ call' = None
          /\ Fails
       \/ /\ ~Store!AlreadyRecorded(a) /\ ~Store!MayRecord(a)
          /\ call' = None
          /\ UNCHANGED <<idVars, failures>>
    /\ UNCHANGED <<now, granted, struck>>

\* Not too far ahead, not too old, and within its own validity.
Fresh(a) ==
    /\ Seen[a].observed <= now + MaxSkew
    /\ now <= Seen[a].observed + MaxAge

Answers == Seen[call.got].challenge = call.asked /\ Fresh(call.got)

Check ==
    /\ At("check")
    /\ IF Answers THEN Goto("lease") ELSE call' = None
    /\ UNCHANGED <<idVars, now, granted, struck, failures>>

\* The lease gate is asked, with the measured binding.
AskLeaseGate ==
    /\ At("lease")
    /\ granted' = granted \cup {[asked |-> call.asked, got |-> call.got]}
    /\ call' = None
    /\ UNCHANGED <<idVars, now, struck, failures>>

\* revoke_device, revoke_executable or revoke_process.
Revoke(x) ==
    /\ Idle
    /\ Store!MayRevoke(x)
    /\ \/ /\ Store!Append(Store!RevocationLine(x))
          /\ struck' = struck \cup {x}
          /\ UNCHANGED failures
       \/ /\ Store!AppendFails(Store!RevocationLine(x))
          /\ Fails
          /\ UNCHANGED struck
    /\ UNCHANGED <<now, call, granted>>

Next ==
    \/ \E t \in Times : Clock(t)
    \/ Open
    \/ Die
    \/ \E c \in Challenges, a \in Attestations : Measure(c, a)
    \/ Record
    \/ Check
    \/ AskLeaseGate
    \/ \E x \in Store!Identities : Revoke(x)

Spec == Init /\ [][Next]_vars

-----------------------------------------------------------------------------
(* Properties.                                                             *)

\* The books a decision can be taken from: the running one, and a journal that
\* replays.
Readable == {b \in {idFile.view} \cup ({idMem} \ {None}) : b.healthy}

\* README law 79, identity persistence precedes privilege: evidence the lease
\* gate was asked with is held by every readable book, was answered to the
\* challenge that was asked, and is not contradicted: no other measurement of
\* its process has been given privilege, across restarts and torn appends.
PersistedBeforePrivilege ==
    \A g \in granted :
        /\ \A b \in Readable : g.got \in b.seen
        /\ Seen[g.got].challenge = g.asked
        /\ \A h \in granted :
            Seen[h.got].process = Seen[g.got].process =>
                Store!Parts(h.got) = Store!Parts(g.got)

\* README laws 74 and 78: a revocation is final.  Once acknowledged it is in
\* every readable book, whatever failed or restarted, so that identity_active
\* denies every attestation of the identity; and no new evidence of it enters
\* the running book.
RevokedForGood ==
    [][/\ \A x \in struck : \A b \in Readable : x \in b.revoked
       /\ \A a \in Attestations :
            /\ Store!Parts(a) \cap struck # {} => ~Store!IdentityActive(a)
            /\ idMem # None /\ idMem' # None /\ a \in idMem'.seen \ idMem.seen =>
                Store!Parts(a) \cap struck = {}
      ]_vars

\* What the operations write is what replay accepts: as long as no append has
\* failed, the journal replays, to the very book the process holds, and that
\* book is within the budget, at the limits as anywhere.
WithinBudget(b) ==
    /\ Cardinality(Store!Recorded(b) \cap Devices) <= MaxDevices
    /\ Cardinality(Store!Recorded(b) \cap Executables) <= MaxExecutables
    /\ Cardinality(Store!Recorded(b) \cap Processes) <= MaxProcesses
    /\ Cardinality(b.seen) <= MaxAttestations

ReplayAgrees ==
    /\ failures = 0 => idFile.view.healthy
    /\ idFile.clean /\ idFile.view.healthy =>
        \A b \in {idMem} \ {None} : b = idFile.view
    /\ \A b \in Readable : WithinBudget(b)
=============================================================================
