-------------------------- MODULE SessionKeyLedger --------------------------
(***************************************************************************)
(* The ledger of src/src/session_key.cpp: ephemeral keys a signer handed   *)
(* authority to, one branch per key, with the uses and the revocations of  *)
(* the branch.  A bundle (voucher, certificate, child receipt) is signed   *)
(* and immutable; one whose signatures, fingerprints or fields do not agree *)
(* is refused by the verifications of preflight and is left out.           *)
(***************************************************************************)
EXTENDS Naturals, JournalFile

CONSTANTS
    Branches,       \* ids of the session-key receipts
    BackedBy,       \* BackedBy[s]: the voucher of branch s
    KeyOf,          \* KeyOf[s]: its ephemeral key
    EphemeralKeys,  \* (child signer id, child key id) pairs
    MaxUses,        \* MaxUses[v]: the signed number of uses of voucher v
    Expires,        \* Expires[v]: its signed end
    Times,          \* the times (in ms) the clock may show
    None            \* absent

VARIABLES
    keyFile,        \* the journal
    keyMem,         \* the book of the running process, or None
    now             \* the clock

keyVars == <<keyFile, keyMem>>

\* What a parent signer certifies for a key: the authority of the voucher, to
\* the letter.
Certificate(s) ==
    [voucher |-> BackedBy[s], key |-> KeyOf[s], max |-> MaxUses[BackedBy[s]],
     expires |-> Expires[BackedBy[s]]]

\* The receipt that the key signs repeats the certificate.
Bundle == [s \in Branches |-> Certificate(s)]

\* 0 stands for "not revoked".
Books ==
    [healthy : BOOLEAN, next : Nat, registered : SUBSET Branches,
     uses : [Branches -> Nat], revoked : [Branches -> Times \cup {0}],
     keyRevoked : [EphemeralKeys -> Times \cup {0}]]

EmptyBook ==
    [healthy |-> TRUE, next |-> 1, registered |-> {}, uses |-> [s \in Branches |-> 0],
     revoked |-> [s \in Branches |-> 0],
     keyRevoked |-> [k \in EphemeralKeys |-> 0]]

InEffect(at) == at # 0 /\ now >= at

\* No registered branch has this key.
KeyIsFree(b, k) == \A s \in b.registered : Bundle[s].key # k

-----------------------------------------------------------------------------
(* Lines: H registers a branch, U counts a use, X revokes a branch, R a key. *)

After(b, l) ==
    LET c == [b EXCEPT !.next = @ + 1] IN
    CASE l.kind = "H" -> [c EXCEPT !.registered = @ \cup {l.branch}]
      [] l.kind = "U" -> [c EXCEPT !.uses[l.branch] = l.index]
      [] l.kind = "X" -> [c EXCEPT !.revoked[l.branch] = l.at]
      [] l.kind = "R" -> [c EXCEPT !.keyRevoked[l.key] = l.at]

Accepts(b, l) ==
    /\ l.seq = b.next
    /\ l.kind = "H" => l.branch \notin b.registered /\ KeyIsFree(b, Bundle[l.branch].key)
    /\ l.kind \in {"U", "X"} => l.branch \in b.registered
    /\ l.kind = "U" => l.index = b.uses[l.branch] + 1 /\ l.index <= Bundle[l.branch].max
    /\ l.kind = "X" => b.revoked[l.branch] = 0
    /\ l.kind = "R" => b.keyRevoked[l.key] = 0

ReplayLine(b, l) ==
    IF ~b.healthy THEN b
    ELSE IF Accepts(b, l) THEN After(b, l)
    ELSE Spoil(b)

\* append_event returns true, and then memory follows.
Append(l) ==
    /\ keyFile' = Appended(keyFile, ReplayLine(keyFile.disk, l))
    /\ keyMem' = After(keyMem, l)

\* It returns false: memory stays as it was.
AppendFails(l) ==
    /\ keyFile' \in Damaged(keyFile, ReplayLine(keyFile.disk, l))
    /\ UNCHANGED keyMem

-----------------------------------------------------------------------------
(* The operations.  Each comes with its guard; Line(...) is what it appends. *)

Init ==
    /\ keyFile = EmptyFile(EmptyBook)
    /\ keyMem = None

Open == keyMem' = keyFile.view /\ UNCHANGED keyFile

Running == keyMem # None /\ keyMem.healthy

HandOffLine(s) == [kind |-> "H", seq |-> keyMem.next, branch |-> s]
MayRegisterAgain(s) ==    \* mutated: a key may back several branches
    Running /\ s \notin keyMem.registered
MayRegister(s) ==
    Running /\ s \notin keyMem.registered /\ KeyIsFree(keyMem, Bundle[s].key)

\* preflight, for a bundle whose signatures verify and whose purpose, subject,
\* scope and capability are those asked for.
PreflightForgetsKey(s) ==    \* mutated: the revocation of the key is not asked for
    /\ Running
    /\ s \in keyMem.registered
    /\ now < Bundle[s].expires
    /\ ~InEffect(keyMem.revoked[s])
    /\ keyMem.uses[s] < Bundle[s].max
Preflight(s) ==
    /\ Running
    /\ s \in keyMem.registered
    /\ now < Bundle[s].expires
    /\ ~InEffect(keyMem.revoked[s])
    /\ ~InEffect(keyMem.keyRevoked[Bundle[s].key])
    /\ keyMem.uses[s] < Bundle[s].max

\* consume asks neither for the expiry nor for the revocations again.
UseLine(s) == [kind |-> "U", seq |-> keyMem.next, branch |-> s, index |-> keyMem.uses[s] + 1]
MayConsume(s) == Running /\ s \in keyMem.registered /\ keyMem.uses[s] < Bundle[s].max

RevokeBranchLine(s, at) == [kind |-> "X", seq |-> keyMem.next, branch |-> s, at |-> at]
MayRevokeBranch(s) == Running /\ s \in keyMem.registered /\ keyMem.revoked[s] = 0

RevokeKeyLine(k, at) == [kind |-> "R", seq |-> keyMem.next, key |-> k, at |-> at]
MayRevokeKey(k) == Running /\ keyMem.keyRevoked[k] = 0 /\ ~KeyIsFree(keyMem, k)
=============================================================================
