--------------------------- MODULE PolicyRegistry ---------------------------
(***************************************************************************)
(* The registry of src/src/policy_registry.cpp: an append-only journal of  *)
(* REGISTER, ACTIVATE, ROLLBACK and REVOKE lines that decides which signed *)
(* policy is active.  Every operation scans the file, checks what the scan *)
(* found and appends a line; nothing locks the file, so the scan and the   *)
(* append of one process have the appends of others between them.          *)
(*                                                                         *)
(* A policy stands for itself and its signed package.  A control is what   *)
(* its envelope says, so that its id is the control itself; one signer     *)
(* signs them all, and any control may have been signed, by the console    *)
(* (which fills in the active policy it sees) or by hand.                  *)
(*                                                                         *)
(* A signature is long when it exceeds the 8192 bytes that deserialize     *)
(* allows and the operations do not look at; one so long that its line     *)
(* passes the line ceiling is refused before anything is written.          *)
(***************************************************************************)
EXTENDS Naturals, FiniteSets, JournalFile

CONSTANTS
    Policies,       \* immutable policy ids
    Nonces,         \* nonces of the control signer
    Operators,      \* processes that change the registry
    MaxRecords, MaxPolicies,    \* PolicyRegistryBudget
    None            \* no policy, no line

VARIABLES
    regFile,        \* the journal
    regPending,     \* regPending[o]: the line o has built from its scan, or None
    regAcked        \* history: the lines whose append returned READY

Controls ==
    [action : {"ACTIVATE", "ROLLBACK", "REVOKE"}, policy : Policies,
     expected : Policies \cup {None}, nonce : Nonces]

Lines ==
    [seq : Nat, long : BOOLEAN, kind : {"REGISTER"}, policy : Policies]
        \cup [seq : Nat, long : BOOLEAN, kind : {"CONTROL"}, control : Controls]

Books ==
    [healthy : BOOLEAN, next : Nat, known : SUBSET Policies, ever : SUBSET Policies,
     revoked : SUBSET Policies, active : Policies \cup {None}, used : SUBSET Controls]

EmptyBook ==
    [healthy |-> TRUE, next |-> 0, known |-> {}, ever |-> {}, revoked |-> {},
     active |-> None, used |-> {}]

-----------------------------------------------------------------------------
(* scan_registry, a line at a time.                                         *)

\* The control is not consumed, and its nonce not bound to another one.
Fresh(b, c) == \A u \in b.used : u.nonce # c.nonce

\* What the action asks of its target.
Possible(b, c) ==
    /\ c.policy \in b.known \ b.revoked
    /\ c.action # "REVOKE" => c.policy # b.active
    /\ c.action = "ROLLBACK" => c.policy \in b.ever

AcceptsAnyOrder(b, l) ==    \* mutated: no sequence check
    /\ ~l.long
    /\ b.next < MaxRecords
    /\ l.kind = "REGISTER" =>
        l.policy \notin b.known /\ Cardinality(b.known) < MaxPolicies
    /\ l.kind = "CONTROL" => Fresh(b, l.control) /\ Possible(b, l.control)
Accepts(b, l) ==
    /\ ~l.long
    /\ b.next < MaxRecords
    /\ l.seq = b.next
    /\ l.kind = "REGISTER" =>
        l.policy \notin b.known /\ Cardinality(b.known) < MaxPolicies
    /\ l.kind = "CONTROL" =>
        /\ l.control.expected = b.active
        /\ Fresh(b, l.control)
        /\ Possible(b, l.control)

AfterControlKeepsActive(b, c) ==    \* mutated: a revoked policy stays active
    IF c.action = "REVOKE"
    THEN [b EXCEPT !.next = @ + 1, !.used = @ \cup {c}, !.revoked = @ \cup {c.policy}]
    ELSE [b EXCEPT !.next = @ + 1, !.used = @ \cup {c}, !.ever = @ \cup {c.policy},
                   !.active = c.policy]
AfterControl(b, c) ==
    IF c.action = "REVOKE"
    THEN [b EXCEPT !.next = @ + 1, !.used = @ \cup {c}, !.revoked = @ \cup {c.policy},
                   !.active = IF @ = c.policy THEN None ELSE @]
    ELSE [b EXCEPT !.next = @ + 1, !.used = @ \cup {c}, !.ever = @ \cup {c.policy},
                   !.active = c.policy]

ScanLine(b, l) ==
    IF ~b.healthy THEN b
    ELSE IF ~Accepts(b, l) THEN Spoil(b)
    ELSE IF l.kind = "REGISTER" THEN [b EXCEPT !.next = @ + 1, !.known = @ \cup {l.policy}]
    ELSE AfterControl(b, l.control)

-----------------------------------------------------------------------------
(* The operations: scan and check, then append.                             *)

Init ==
    /\ regFile = EmptyFile(EmptyBook)
    /\ regPending = [o \in Operators |-> None]
    /\ regAcked = {}

Scan == regFile.view

Prepare(o, l) ==
    /\ regPending[o] = None
    /\ regPending' = [regPending EXCEPT ![o] = l]
    /\ UNCHANGED <<regFile, regAcked>>

RegisterPolicy(o, p, long) ==
    /\ Scan.healthy
    /\ Scan.next < MaxRecords
    /\ p \notin Scan.known
    /\ Cardinality(Scan.known) < MaxPolicies
    /\ Prepare(o, [seq |-> Scan.next, long |-> long, kind |-> "REGISTER", policy |-> p])

MayApplyRollback(c) ==    \* mutated: a rollback does not ask whether its target was active
    /\ Scan.healthy
    /\ Scan.next < MaxRecords
    /\ Fresh(Scan, c)
    /\ c.expected = Scan.active
    /\ c.policy \in Scan.known \ Scan.revoked
    /\ c.action # "REVOKE" => c.policy # Scan.active
MayApply(c) ==
    /\ Scan.healthy
    /\ Scan.next < MaxRecords
    /\ Fresh(Scan, c)
    /\ c.expected = Scan.active
    /\ Possible(Scan, c)

ApplyControl(o, c, long) ==
    /\ MayApply(c)
    /\ Prepare(o, [seq |-> Scan.next, long |-> long, kind |-> "CONTROL", control |-> c])

Append(o) ==
    LET l == regPending[o] IN
    /\ l # None
    /\ regFile' = Appended(regFile, ScanLine(regFile.disk, l))
    /\ regPending' = [regPending EXCEPT ![o] = None]
    /\ regAcked' = regAcked \cup {l}

\* Open, write or flush fails, or the process dies in it: STORAGE_FAILURE at best.
AppendFails(o) ==
    LET l == regPending[o] IN
    /\ l # None
    /\ regFile' \in Damaged(regFile, ScanLine(regFile.disk, l))
    /\ regPending' = [regPending EXCEPT ![o] = None]
    /\ UNCHANGED regAcked

\* is_policy_active: one more scan.
IsPolicyActive(p) == Scan.healthy /\ Scan.active = p /\ p \in Scan.known \ Scan.revoked

-----------------------------------------------------------------------------
(* Properties.                                                             *)

\* Of the lines acknowledged while processes raced and appends tore, a healthy
\* registry holds every one: a control counts, its nonce is spent on it alone,
\* a revocation sticks, and no two lines took one place in the chain.  None of
\* them has a long signature: once such a line is acknowledged, the registry is
\* never healthy again.
InEffect(b, l) ==
    IF l.kind = "REGISTER" THEN l.policy \in b.known
    ELSE /\ l.control \in b.used
         /\ l.control.action = "REVOKE" => l.control.policy \in b.revoked
         /\ \A u \in b.used : u.nonce = l.control.nonce => u = l.control

RegistryAcked ==
    Scan.healthy =>
        /\ \A l \in regAcked : ~l.long /\ InEffect(Scan, l)
        /\ \A l, m \in regAcked : l.seq = m.seq => l = m

\* A line nobody overtook between its scan and its append is one the scan will
\* accept, unless its signature is long, and then never: of all that replay
\* checks, the length of the signature is what the operations do not.
RegistryReplays ==
    \A o \in Operators :
        LET l == regPending[o] IN
        l # None /\ regFile.disk.healthy /\ l.seq = regFile.disk.next =>
            (Accepts(regFile.disk, l) <=> ~l.long)

\* The terminated lines implement the atomic register.
Register ==
    INSTANCE PolicyRegister WITH
        known <- regFile.disk.known, ever <- regFile.disk.ever,
        revoked <- regFile.disk.revoked, active <- regFile.disk.active,
        spent <- {c.nonce : c \in regFile.disk.used}, frozen <- ~regFile.disk.healthy

\* Docs law 3, activation is compare-and-swap, and laws 4 to 6: however the
\* processes interleave, every step of the file is a control that replaces the
\* very policy it was signed against and counts once, or no step at all.
ImplementsRegister == Register!Spec
=============================================================================
