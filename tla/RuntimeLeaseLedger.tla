------------------------- MODULE RuntimeLeaseLedger -------------------------
(***************************************************************************)
(* The ledger of src/src/runtime_lease.cpp: leases that a session key      *)
(* signed for one exact runtime (device, executable, process, slot,        *)
(* session, layer), with their uses and revocations.  A lease is immutable; *)
(* one whose signature, identity or fields do not agree with its bundle is *)
(* refused before any state is read and is left out.                       *)
(***************************************************************************)
EXTENDS Naturals, JournalFile

CONSTANTS
    Leases,         \* lease ids
    Lease,          \* Lease[l]: its branch, its runtime, its uses, its end
    Branches,       \* ids of the session-key receipts
    BranchMax,      \* BranchMax[s]: the signed uses of branch s
    BranchExpires,  \* BranchExpires[s]: its signed end
    Runtimes,       \* runtime bindings
    None            \* absent

VARIABLES
    leaseFile,      \* the journal
    leaseMem,       \* the book of the running process, or None
    now             \* the clock

leaseVars == <<leaseFile, leaseMem>>

Books ==
    [healthy : BOOLEAN, next : Nat, registered : SUBSET Leases,
     uses : [Leases -> Nat], revoked : SUBSET Leases]

EmptyBook ==
    [healthy |-> TRUE, next |-> 1, registered |-> {}, uses |-> [l \in Leases |-> 0],
     revoked |-> {}]

\* The lease stays within the branch that signed it (issue and validate_lease).
Valid(l) ==
    /\ Lease[l].max <= BranchMax[Lease[l].branch]
    /\ Lease[l].expires <= BranchExpires[Lease[l].branch]

-----------------------------------------------------------------------------
(* Lines: L registers a lease, U counts a use, X revokes a lease.           *)

After(b, r) ==
    LET c == [b EXCEPT !.next = @ + 1] IN
    CASE r.kind = "L" -> [c EXCEPT !.registered = @ \cup {r.lease}]
      [] r.kind = "U" -> [c EXCEPT !.uses[r.lease] = r.index]
      [] r.kind = "X" -> [c EXCEPT !.revoked = @ \cup {r.lease}]

\* Unlike that of the session keys, this replay does not compare the index of
\* a use with the signed maximum.
Accepts(b, r) ==
    /\ r.seq = b.next
    /\ r.kind = "L" <=> r.lease \notin b.registered
    /\ r.kind = "U" => r.index = b.uses[r.lease] + 1
    /\ r.kind = "X" => r.lease \notin b.revoked

ReplayLine(b, r) ==
    IF ~b.healthy THEN b
    ELSE IF Accepts(b, r) THEN After(b, r)
    ELSE Spoil(b)

\* append_event returns true, and then memory follows.
Append(r) ==
    /\ leaseFile' = Appended(leaseFile, ReplayLine(leaseFile.disk, r))
    /\ leaseMem' = After(leaseMem, r)

\* It returns false: memory stays as it was.
AppendFails(r) ==
    /\ leaseFile' \in Damaged(leaseFile, ReplayLine(leaseFile.disk, r))
    /\ UNCHANGED leaseMem

-----------------------------------------------------------------------------
(* The operations.  Each comes with its guard; Line(...) is what it appends. *)

Init ==
    /\ leaseFile = EmptyFile(EmptyBook)
    /\ leaseMem = None

Open == leaseMem' = leaseFile.view /\ UNCHANGED leaseFile

Running == leaseMem # None /\ leaseMem.healthy

RegisterLine(l) == [kind |-> "L", seq |-> leaseMem.next, lease |-> l]
MayRegister(l) ==
    Running /\ Valid(l) /\ l \notin leaseMem.registered /\ now < Lease[l].expires

Spendable(l) ==
    /\ Running
    /\ l \in leaseMem.registered
    /\ l \notin leaseMem.revoked
    /\ now < Lease[l].expires
    /\ leaseMem.uses[l] < Lease[l].max

\* preflight, for the runtime that was observed.
Preflight(l, runtime) == Spendable(l) /\ Valid(l) /\ runtime = Lease[l].runtime

\* consume asks for the revocation, the expiry and the budget again.
UseLine(l) == [kind |-> "U", seq |-> leaseMem.next, lease |-> l, index |-> leaseMem.uses[l] + 1]
MayConsume(l) == Spendable(l)

\* The time of a revocation is written but never read: it counts at once.
RevokeLine(l) == [kind |-> "X", seq |-> leaseMem.next, lease |-> l]
MayRevoke(l) == Running /\ l \in leaseMem.registered /\ l \notin leaseMem.revoked
=============================================================================
