-------------------------- MODULE AuthorityLedger ---------------------------
(***************************************************************************)
(* The authority ledger of src/src/authority_ledger.cpp: signed receipts,  *)
(* their use counts, delegations, revocations and the keys that sign them, *)
(* kept in the memory of a process and in an append-only journal.  A       *)
(* process replays the journal once, when it starts; afterwards it decides *)
(* from memory and appends one line before it says ALLOWED.  Any number of *)
(* processes may run, one after the other or at the same time.             *)
(*                                                                         *)
(* A receipt is a signed, immutable envelope.  Envelopes come from outside: *)
(* those whose signature does not verify, or that are presented for another *)
(* purpose, subject or scope, are refused before any state is touched and  *)
(* are left out.  SHA-256 is taken as collision free and nobody edits the  *)
(* journal, so a line whose number fits carries the right hashes.          *)
(***************************************************************************)
EXTENDS Naturals, FiniteSets

CONSTANTS
    Receipts,       \* receipt ids
    Envelope,       \* Envelope[r]: what r was signed for
    Keys,           \* (signer id, key id) pairs
    Nonces,         \* (signer id, key id, nonce) triples
    Times,          \* the times (in ms) the clock may show
    Ledgers,        \* processes that may open the journal
    Faults,         \* what a failed append may leave in the file
    None            \* absent

VARIABLES
    disk,           \* replay of the newline-terminated lines of the journal
    view,           \* replay of the whole journal, as a process starting now sees it
    clean,          \* the journal is empty or ends with a newline
    mem,            \* mem[i]: the state of the running ledger i, or None
    now,            \* the clock
    shared,         \* history: two ledgers have run at the same time
    grants,         \* history: grants[r], how often a use of r was ALLOWED
    issued,         \* history: children some ledger has taken for registered
    killed          \* history: revocations that returned ALLOWED

vars == <<disk, view, clean, mem, now, shared, grants, issued, killed>>

\* "lost": no byte arrived; "torn": some did; "whole": all but the newline.
FaultKinds == {"lost", "torn", "whole"}

\* parent is the signed parent_receipt_id; reach stands for the scope path and
\* the capabilities, ordered by containment.
Envelopes ==
    [key : Keys, nonce : Nonces, max : Nat \ {0}, issued : Times, expires : Nat,
     parent : Receipts \cup {None}, depth : Nat, maxDepth : Nat, reach : SUBSET STRING]

\* 0 stands for "not set", as in the code.
KeyStates == [from : Times, until : Times \cup {0}, revoked : Times \cup {0}]

\* A receipt id is one identifier, a key a pair of them.
ASSUME AuthorityAssumption ==
    /\ Times \subseteq Nat \ {0}
    /\ Faults \subseteq FaultKinds
    /\ None \notin Receipts \cup KeyStates
    /\ Receipts \cap Keys = {}
    /\ Envelope \in [Receipts -> Envelopes]

Books ==
    [healthy : BOOLEAN, next : Nat, keys : [Keys -> KeyStates \cup {None}],
     uses : [Receipts -> Nat], reserved : [Receipts -> Nat],
     revoked : [Receipts -> Times \cup {0}],
     bound : [Nonces -> Receipts \cup {None}],
     lineage : [Receipts -> Receipts \cup {None}]]

\* A journal line.  Only the fields its kind needs count.
\* K trust key, T retire key, R revoke key, X revoke receipt, U use, D delegate.
Lines ==
    [kind : {"K"}, seq : Nat, key : Keys, from : Times, until : Times \cup {0}]
        \cup [kind : {"T", "R"}, seq : Nat, key : Keys, at : Times]
        \cup [kind : {"X"}, seq : Nat, receipt : Receipts, at : Times]
        \cup [kind : {"U", "D"}, seq : Nat, receipt : Receipts, index : Nat]

EmptyBook ==
    [healthy |-> TRUE, next |-> 1, keys |-> [k \in Keys |-> None],
     uses |-> [r \in Receipts |-> 0], reserved |-> [r \in Receipts |-> 0],
     revoked |-> [r \in Receipts |-> 0], bound |-> [n \in Nonces |-> None],
     lineage |-> [r \in Receipts |-> None]]

Parent(r) == Envelope[r].parent

\* The nonce of r is free, or bound to r.
BindsAnything(b, r) == TRUE    \* mutated: nonces are not compared
Binds(b, r) == b.bound[Envelope[r].nonce] \in {None, r}

-----------------------------------------------------------------------------
(* What one line does to a book.                                           *)

AfterKeyLine(b, l) ==
    [b EXCEPT !.next = @ + 1,
              !.keys[l.key] =
                  CASE l.kind = "K" -> [from |-> l.from, until |-> l.until, revoked |-> 0]
                    [] l.kind = "T" -> [@ EXCEPT !.until = l.at]
                    [] l.kind = "R" -> [@ EXCEPT !.revoked = l.at]]

AfterRevocation(b, l) ==
    [b EXCEPT !.next = @ + 1, !.revoked[l.receipt] = l.at]

AfterUse(b, l) ==
    [b EXCEPT !.next = @ + 1,
              !.uses[l.receipt] = l.index,
              !.bound[Envelope[l.receipt].nonce] = l.receipt]

\* The line of a delegation names the child; the parent is the child's.
AfterDelegationReleases(b, l) ==    \* mutated: the reservation is given back
    [b EXCEPT !.next = @ + 1,
              !.uses[Parent(l.receipt)] = l.index,
              !.reserved[Parent(l.receipt)] = @ - Envelope[l.receipt].max,
              !.lineage[l.receipt] = Parent(l.receipt)]
AfterDelegation(b, l) ==
    LET p == Parent(l.receipt) IN
    [b EXCEPT !.next = @ + 1,
              !.uses[p] = l.index,
              !.reserved[p] = @ + Envelope[l.receipt].max,
              !.bound = [@ EXCEPT ![Envelope[p].nonce] = p,
                                  ![Envelope[l.receipt].nonce] = l.receipt],
              !.lineage[l.receipt] = p]

After(b, l) ==
    CASE l.kind \in {"K", "T", "R"} -> AfterKeyLine(b, l)
      [] l.kind = "X" -> AfterRevocation(b, l)
      [] l.kind = "U" -> AfterUse(b, l)
      [] l.kind = "D" -> AfterDelegation(b, l)

\* What replay asks of a line before it counts it.
AcceptsAnyIndex(b, l) ==    \* mutated: neither the number nor the use index fits
    /\ l.kind = "K" => b.keys[l.key] = None
    /\ l.kind \in {"T", "R"} => b.keys[l.key] # None
    /\ l.kind = "X" => b.revoked[l.receipt] = 0
    /\ l.kind = "D" => b.lineage[l.receipt] = None
Accepts(b, l) ==
    /\ l.seq = b.next
    /\ l.kind = "K" => b.keys[l.key] = None
    /\ l.kind \in {"T", "R"} => b.keys[l.key] # None
    /\ l.kind = "X" => b.revoked[l.receipt] = 0
    /\ l.kind = "U" => l.index = b.uses[l.receipt] + 1 /\ Binds(b, l.receipt)
    /\ l.kind = "D" =>
        /\ b.lineage[l.receipt] = None
        /\ l.index = b.uses[Parent(l.receipt)] + 1
        /\ Binds(b, Parent(l.receipt)) /\ Binds(b, l.receipt)

SkipBadLine(b) == b    \* mutated: a line that does not fit is passed over
Spoil(b) == [b EXCEPT !.healthy = FALSE]

\* The first line that does not fit stops the replay.
ReplayLine(b, l) ==
    IF ~b.healthy THEN b
    ELSE IF Accepts(b, l) THEN After(b, l)
    ELSE Spoil(b)

-----------------------------------------------------------------------------
(* The decisions of a ledger, from its book alone.                         *)

\* The receipts above r: the least set closed under lineage that holds the
\* parent of r.  (The code walks up at most nine links; a signed chain has
\* at most eight.)
Closed(lineage, S) == \A x \in S : lineage[x] # None => lineage[x] \in S

Above(lineage, r) ==
    {a \in Receipts : \A S \in SUBSET Receipts :
        Closed(lineage, S) /\ (lineage[r] # None => lineage[r] \in S) => a \in S}

InEffect(at) == at # 0 /\ now >= at

RevokedOrigin(b, r) == InEffect(b.revoked[r])    \* mutated: ancestors are not asked
RevokedHere(b, r) ==
    InEffect(b.revoked[r]) \/ \E a \in Above(b.lineage, r) : InEffect(b.revoked[a])

Registered(b, r) == Parent(r) # None => b.lineage[r] = Parent(r)

\* The key of r is trusted, r was issued in its window, and it is not revoked.
KeyAdmits(b, r) ==
    LET k == b.keys[Envelope[r].key] IN
    /\ k # None
    /\ Envelope[r].issued <= now
    /\ k.from <= Envelope[r].issued
    /\ k.until # 0 => Envelope[r].issued < k.until
    /\ ~InEffect(k.revoked)

MayUseIgnoringReserve(b, r) ==    \* mutated: reservations do not count
    /\ b.healthy
    /\ Registered(b, r)
    /\ KeyAdmits(b, r)
    /\ now < Envelope[r].expires
    /\ ~RevokedHere(b, r)
    /\ Binds(b, r)
    /\ b.uses[r] < Envelope[r].max
MayUse(b, r) ==
    /\ b.healthy
    /\ Registered(b, r)
    /\ KeyAdmits(b, r)
    /\ now < Envelope[r].expires
    /\ ~RevokedHere(b, r)
    /\ Binds(b, r)
    /\ b.uses[r] + b.reserved[r] < Envelope[r].max

\* The signed envelope of c is within that of its parent, and strictly so.
Attenuates(c) ==
    LET e == Envelope[c]
        p == Envelope[Parent(c)] IN
    /\ e.depth = p.depth + 1 /\ e.depth <= e.maxDepth /\ e.maxDepth <= p.maxDepth
    /\ e.key = p.key
    /\ e.reach \subseteq p.reach
    /\ p.issued <= e.issued /\ e.issued < e.expires /\ e.expires <= p.expires
    /\ \/ e.reach # p.reach
       \/ e.expires < p.expires
       \/ e.max < p.max
       \/ e.maxDepth < p.maxDepth

MayDelegate(b, c) ==
    LET p == Parent(c) IN
    /\ b.healthy
    /\ p # None
    /\ Attenuates(c)
    /\ b.lineage[c] = None /\ b.uses[c] = 0
    /\ Registered(b, p)
    /\ KeyAdmits(b, p) /\ KeyAdmits(b, c)
    /\ now < Envelope[p].expires /\ now < Envelope[c].expires
    /\ b.revoked[p] = 0 /\ b.revoked[c] = 0 /\ ~RevokedHere(b, p)
    /\ Binds(b, p) /\ Binds(b, c)
    /\ b.uses[p] + b.reserved[p] + 1 + Envelope[c].max <= Envelope[p].max

-----------------------------------------------------------------------------
(* The actions.                                                            *)

Init ==
    /\ disk = EmptyBook
    /\ view = EmptyBook
    /\ clean = TRUE
    /\ mem = [i \in Ledgers |-> None]
    /\ now \in Times
    /\ shared = FALSE
    /\ grants = [r \in Receipts |-> 0]
    /\ issued = {}
    /\ killed = {}

\* A ledger is constructed: it replays the journal.
Start(i) ==
    /\ mem[i] = None
    /\ mem' = [mem EXCEPT ![i] = view]
    /\ shared' = (shared \/ \E j \in Ledgers : mem[j] # None)
    /\ issued' = issued \cup {c \in Receipts : view.healthy /\ view.lineage[c] # None}
    /\ UNCHANGED <<disk, view, clean, now, grants, killed>>

\* Its process ends or dies: its memory is gone.
Stop(i) ==
    /\ mem[i] # None
    /\ mem' = [mem EXCEPT ![i] = None]
    /\ UNCHANGED <<disk, view, clean, now, shared, grants, issued, killed>>

\* The system clock: it may also be set back.
Clock(t) ==
    /\ t # now
    /\ now' = t
    /\ UNCHANGED <<disk, view, clean, mem, shared, grants, issued, killed>>

Revocations == [of : Receipts \cup Keys, at : Times]

\* append_event succeeds and the operation returns ALLOWED.  After a tail
\* without a newline, the line completes a malformed one.
Append(i, l) ==
    /\ disk' = IF clean THEN ReplayLine(disk, l) ELSE Spoil(disk)
    /\ view' = disk'
    /\ clean' = TRUE
    /\ mem' = [mem EXCEPT ![i] = After(@, l)]
    /\ grants' = IF l.kind = "U" THEN [grants EXCEPT ![l.receipt] = @ + 1] ELSE grants
    /\ issued' = issued \cup (IF l.kind = "D" THEN {l.receipt} ELSE {})
    /\ killed' = killed \cup
           (IF l.kind = "X" THEN {[of |-> l.receipt, at |-> l.at]}
            ELSE IF l.kind = "R" THEN {[of |-> l.key, at |-> l.at]}
            ELSE {})
    /\ UNCHANGED <<now, shared>>

\* It fails: STORAGE_ERROR, and memory stays as it was.  What arrived of the
\* line is the new tail of the file.
AppendFailsAfterMemory(i, l) ==    \* mutated: memory is changed before the append
    /\ mem' = [mem EXCEPT ![i] = After(@, l)]
    /\ UNCHANGED <<disk, view, clean, now, shared, grants, issued, killed>>
AppendFails(i, l) ==
    /\ UNCHANGED <<disk, mem, now, shared, grants, issued, killed>>
    /\ \/ /\ "lost" \in Faults
          /\ UNCHANGED <<view, clean>>
       \/ /\ "torn" \in Faults
          /\ view' = Spoil(disk)
          /\ clean' = FALSE
       \/ /\ "whole" \in Faults
          /\ view' = IF clean THEN ReplayLine(disk, l) ELSE Spoil(disk)
          /\ clean' = FALSE

Write(i, l) == Append(i, l) \/ AppendFails(i, l)

Running(i) == mem[i] # None /\ mem[i].healthy

TrustKey(i, k, from, until) ==
    /\ Running(i)
    /\ mem[i].keys[k] = None
    /\ until # 0 => until > from
    /\ Write(i, [kind |-> "K", seq |-> mem[i].next, key |-> k, from |-> from,
                 until |-> until])

RetireKey(i, k, at) ==
    /\ Running(i)
    /\ mem[i].keys[k] # None
    /\ at > mem[i].keys[k].from
    /\ mem[i].keys[k].until # 0 => at <= mem[i].keys[k].until
    /\ Write(i, [kind |-> "T", seq |-> mem[i].next, key |-> k, at |-> at])

RevokeKey(i, k, at) ==
    /\ Running(i)
    /\ mem[i].keys[k] # None
    /\ mem[i].keys[k].revoked = 0
    /\ Write(i, [kind |-> "R", seq |-> mem[i].next, key |-> k, at |-> at])

RevokeReceipt(i, r, at) ==
    /\ Running(i)
    /\ mem[i].revoked[r] = 0
    /\ Write(i, [kind |-> "X", seq |-> mem[i].next, receipt |-> r, at |-> at])

RegisterDelegation(i, c) ==
    /\ Running(i)
    /\ MayDelegate(mem[i], c)
    /\ Write(i, [kind |-> "D", seq |-> mem[i].next, receipt |-> c,
                 index |-> mem[i].uses[Parent(c)] + 1])

AuthorizeAndConsume(i, r) ==
    /\ Running(i)
    /\ MayUse(mem[i], r)
    /\ Write(i, [kind |-> "U", seq |-> mem[i].next, receipt |-> r,
                 index |-> mem[i].uses[r] + 1])

Next ==
    \/ \E t \in Times : Clock(t)
    \/ \E i \in Ledgers :
        \/ Start(i)
        \/ Stop(i)
        \/ \E k \in Keys, t \in Times :
            \/ \E u \in Times \cup {0} : TrustKey(i, k, t, u)
            \/ RetireKey(i, k, t)
            \/ RevokeKey(i, k, t)
        \/ \E r \in Receipts :
            \/ \E t \in Times : RevokeReceipt(i, r, t)
            \/ RegisterDelegation(i, r)
            \/ AuthorizeAndConsume(i, r)

Spec == Init /\ [][Next]_vars

-----------------------------------------------------------------------------
(* Properties.                                                             *)

\* The maps of a ledger have the types authority_ledger.hpp gives them; no
\* count is ever negative.
AuthorityTypeOK ==
    /\ disk \in Books
    /\ view \in Books
    /\ clean \in BOOLEAN
    /\ mem \in [Ledgers -> Books \cup {None}]
    /\ now \in Times
    /\ shared \in BOOLEAN
    /\ grants \in [Receipts -> Nat]
    /\ issued \subseteq Receipts
    /\ killed \subseteq Revocations

\* What a ledger keeps up to date line by line, through every operation, is
\* what a replay of its journal would make of it: a restart changes nothing.
MemoryIsJournal ==
    ~shared /\ clean /\ view.healthy =>
        \A i \in Ledgers : mem[i] # None => mem[i] = view

\* The books a decision can still be taken from: a journal that replays, and,
\* of ledgers that never overlapped, the one that runs, whatever the journal
\* has become under it.
Known ==
    {b \in {view} : b.healthy}
        \cup {mem[i] : i \in {j \in Ledgers : ~shared /\ Running(j)}}

Children(b, r) == {c \in Receipts : b.lineage[c] = r}

\* Durable before side effects (README law 47): each book a decision can be
\* taken from counts every use that was ALLOWED, to whichever process, and
\* each registered child; it holds every acknowledged revocation, and the
\* lineage of every child that was used.
Counts(b) ==
    /\ \A r \in Receipts :
        /\ grants[r] + Cardinality(Children(b, r)) <= b.uses[r]
        /\ grants[r] > 0 => Registered(b, r)
    /\ \A k \in killed :
        /\ k.of \in Receipts => b.revoked[k.of] = k.at
        /\ k.of \in Keys => b.keys[k.of] # None /\ b.keys[k.of].revoked = k.at

AcknowledgedCounts == \A b \in Known : Counts(b)

\* docs/AUTHORITY_DELEGATION.md, Use-budget conservation: direct uses, plus
\* delegations, plus the uses reserved for children, stay within the signed
\* number, across restarts and across processes that share the journal.
BudgetKept ==
    \A b \in Known, r \in Receipts :
        grants[r] + Cardinality(Children(b, r)) + b.reserved[r] <= Envelope[r].max

SignedParents == [r \in Receipts |-> Parent(r)]

\* README laws 45 and 54: no use is ALLOWED once a revocation of the receipt,
\* of any receipt above it in the signed chain, or of its key has been
\* acknowledged and is in effect, whatever restarts and torn appends lie
\* between.  (Of overlapping ledgers, a stale one may, but its line spoils
\* the journal.)
RevocationHonored ==
    [][\A r \in Receipts :
        grants'[r] > grants[r] /\ (~shared \/ view'.healthy) =>
            \A k \in killed :
                k.of \in {r, Envelope[r].key} \cup Above(SignedParents, r) =>
                    ~InEffect(k.at)
      ]_vars

\* With one process at a time, the ledger implements the abstract budget: what
\* it has said ALLOWED to, uses and delegations together, is what an atomic,
\* never failing counter would have allowed, across restarts, torn appends and
\* a journal that has become unreadable under the running process.
Budget ==
    INSTANCE AuthorityBudget WITH
        MaxUses <- [r \in Receipts |-> Envelope[r].max], ParentOf <- SignedParents,
        granted <- grants

ImplementsBudget == Budget!Spec

\* README law 48: a nonce is consumed by one receipt only.
OneReceiptPerNonce ==
    \A b \in Known : \A r, s \in Receipts :
        /\ b.uses[r] > 0 /\ b.uses[s] > 0
        /\ Envelope[r].nonce = Envelope[s].nonce
        => r = s
=============================================================================
