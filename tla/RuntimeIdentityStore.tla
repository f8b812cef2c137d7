------------------------ MODULE RuntimeIdentityStore ------------------------
(***************************************************************************)
(* The store of src/src/runtime_identity_store.cpp: which devices,         *)
(* executables and processes have been seen in which attestations, and     *)
(* which of them are revoked.  It is bounded, kept in memory and in an     *)
(* append-only journal that is replayed when it is opened.                 *)
(*                                                                         *)
(* A book holds the attestations and the revocations; the records of the   *)
(* identities follow from the attestations.  Counters of observations,     *)
(* first and last sighting and the strongest trust are left out.           *)
(***************************************************************************)
EXTENDS Naturals, FiniteSets, JournalFile

CONSTANTS
    Devices, Executables, Processes,    \* record ids of the three kinds
    Attestations,   \* attestation ids
    Seen,           \* Seen[a]: the device, executable and process a was taken of
    MaxDevices, MaxExecutables, MaxProcesses, MaxAttestations,  \* the budget
    None            \* no process has the store open

VARIABLES
    idFile,         \* the journal
    idMem           \* the book of the running process, or None

idVars == <<idFile, idMem>>

Identities == Devices \cup Executables \cup Processes

Books ==
    [healthy : BOOLEAN, next : Nat, seen : SUBSET Attestations,
     revoked : SUBSET Identities]

EmptyBook == [healthy |-> TRUE, next |-> 1, seen |-> {}, revoked |-> {}]

Parts(a) == {Seen[a].device, Seen[a].executable, Seen[a].process}

Recorded(b) == UNION {Parts(a) : a \in b.seen}

\* A process is recorded with other measurements than those of a.
Collides(b, a) ==
    \E x \in b.seen : Seen[x].process = Seen[a].process /\ Parts(x) # Parts(a)

\* Room for a: what is recorded already takes none.
Fits(b, a) ==
    LET all == Recorded(b) \cup Parts(a) IN
    /\ Cardinality(all \cap Devices) <= MaxDevices
    /\ Cardinality(all \cap Executables) <= MaxExecutables
    /\ Cardinality(all \cap Processes) <= MaxProcesses
    /\ Cardinality(b.seen) < MaxAttestations

-----------------------------------------------------------------------------
(* Lines: O an observation; D, E and P, here R, a revocation.               *)

After(b, l) ==
    IF l.kind = "O"
    THEN [b EXCEPT !.next = @ + 1, !.seen = @ \cup {l.of}]
    ELSE [b EXCEPT !.next = @ + 1, !.revoked = @ \cup {l.of}]

\* Replay does not look at the revocations when it reads an observation.
Accepts(b, l) ==
    /\ l.seq = b.next
    /\ l.kind = "O" => l.of \notin b.seen /\ Fits(b, l.of) /\ ~Collides(b, l.of)
    /\ l.kind = "R" => l.of \in Recorded(b) \ b.revoked

ReplayLine(b, l) ==
    IF ~b.healthy THEN b
    ELSE IF Accepts(b, l) THEN After(b, l)
    ELSE Spoil(b)

\* append_event returns true, and then memory follows.
Append(l) ==
    /\ idFile' = Appended(idFile, ReplayLine(idFile.disk, l))
    /\ idMem' = After(idMem, l)

\* It returns false: memory stays as it was.
AppendFails(l) ==
    /\ idFile' \in Damaged(idFile, ReplayLine(idFile.disk, l))
    /\ UNCHANGED idMem

-----------------------------------------------------------------------------
(* The operations.  Each comes with its guard; Line(...) is what it appends. *)

Init ==
    /\ idFile = EmptyFile(EmptyBook)
    /\ idMem = None

Open == idMem' = idFile.view /\ UNCHANGED idFile

Running == idMem # None /\ idMem.healthy

\* record_attestation answers ALREADY_RECORDED before it looks at revocations.
AlreadyRecorded(a) == Running /\ a \in idMem.seen

ObservationLine(a) == [kind |-> "O", seq |-> idMem.next, of |-> a]
MayRecordRevoked(a) ==    \* mutated: the process only is asked for its revocation
    /\ Running
    /\ a \notin idMem.seen
    /\ Seen[a].process \notin idMem.revoked
    /\ ~Collides(idMem, a)
    /\ Fits(idMem, a)
MayRecordUnbounded(a) ==    \* mutated: the limit on attestations is forgotten
    /\ Running
    /\ a \notin idMem.seen
    /\ Parts(a) \cap idMem.revoked = {}
    /\ ~Collides(idMem, a)
MayRecord(a) ==
    /\ Running
    /\ a \notin idMem.seen
    /\ Parts(a) \cap idMem.revoked = {}
    /\ ~Collides(idMem, a)
    /\ Fits(idMem, a)

RevocationLine(x) == [kind |-> "R", seq |-> idMem.next, of |-> x]
MayRevoke(x) == Running /\ x \in Recorded(idMem) \ idMem.revoked

\* identity_active, as the policy engine asks it.
IdentityActive(a) ==
    Running /\ Parts(a) \subseteq Recorded(idMem) /\ Parts(a) \cap idMem.revoked = {}
=============================================================================
