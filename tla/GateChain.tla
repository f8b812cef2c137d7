----------------------------- MODULE GateChain ------------------------------
(***************************************************************************)
(* The chain of gates in front of a protected operation: the lease gate    *)
(* (src/src/runtime_lease.cpp) asks the session-key gate, which asks the   *)
(* authority ledger, and each writes a journal of its own (session_key.cpp).*)
(* One call checks the lease, checks the key, consumes the voucher, then   *)
(* the key, then the lease; the process may die, an append may fail and    *)
(* the clock may move between any two of these steps.  A hand-off delegates *)
(* a voucher in the authority ledger and registers its branch afterwards.  *)
(*                                                                         *)
(* The authority ledger is AuthorityBudget, which AuthorityLedger is shown *)
(* to implement.  One process at a time has the ledgers open; its calls do *)
(* not overlap (no ledger has a lock).                                     *)
(***************************************************************************)
EXTENDS Naturals, FiniteSets, Functions, JournalFile

CONSTANTS
    Receipts, MaxUses, ParentOf,                \* as in AuthorityBudget
    Branches, BackedBy, KeyOf, EphemeralKeys, Expires, Times,   \* as in SessionKeyLedger
    Leases, Lease, Runtimes,                    \* as in RuntimeLeaseLedger
    MaxMishaps,     \* bound: failed appends, deaths and late expiries together
    None            \* absent

VARIABLES
    granted, issued,        \* the authority ledger
    keyFile, keyMem,        \* the session-key ledger
    leaseFile, leaseMem,    \* the runtime-lease ledger
    now,                    \* the clock
    call,                   \* where the running call is, or None
    allowed,                \* history: allowed[l], how often l was ALLOWED
    handed,                 \* history: branches whose hand-off was ISSUED
    struck,                 \* history: revocations that were acknowledged
    mishaps                 \* history: failures so far

budgetVars == <<granted, issued>>
keyVars == <<keyFile, keyMem>>
leaseVars == <<leaseFile, leaseMem>>
histories == <<allowed, handed, struck>>
vars == <<budgetVars, keyVars, leaseVars, now, call, histories, mishaps>>

Authority == INSTANCE AuthorityBudget
SessionKeys == INSTANCE SessionKeyLedger

Bundle == SessionKeys!Bundle

RuntimeLeases == INSTANCE RuntimeLeaseLedger WITH
    BranchMax <- [s \in Branches |-> Bundle[s].max],
    BranchExpires <- [s \in Branches |-> Bundle[s].expires]

\* Where a call of the lease gate can be, and the second half of a hand-off.
Steps == {"checkKey", "useVoucher", "useKey", "useLease"}
Calls == [at : Steps, lease : Leases] \cup [at : {"register"}, branch : Branches]

ASSUME ChainAssumption ==
    /\ MaxMishaps \in Nat
    /\ None \notin Leases \cup Calls
    /\ IsFiniteSet(Branches) /\ IsFiniteSet(Leases)
    \* Ids of different kinds differ.
    /\ Branches \cap EphemeralKeys = {} /\ (Branches \cup EphemeralKeys) \cap Leases = {}
    /\ Times \subseteq Nat \ {0}
    /\ MaxUses \in [Receipts -> Nat \ {0}] /\ Expires \in [Receipts -> Nat]
    /\ BackedBy \in [Branches -> Receipts] /\ KeyOf \in [Branches -> EphemeralKeys]
    /\ Lease \in [Leases -> [branch : Branches, runtime : Runtimes, max : Nat \ {0},
                             expires : Nat]]
    \* Each hand-off delegates a voucher of its own.
    /\ \A s, t \in Branches : BackedBy[s] = BackedBy[t] => s = t

Voucher(s) == Bundle[s].voucher
BranchOf(l) == Lease[l].branch

Running == keyMem # None
Idle == Running /\ call = None

Init ==
    /\ Authority!Init
    /\ SessionKeys!Init
    /\ RuntimeLeases!Init
    /\ now \in Times
    /\ call = None
    /\ allowed = [l \in Leases |-> 0]
    /\ handed = {}
    /\ struck = {}
    /\ mishaps = 0

Mishap == mishaps < MaxMishaps /\ mishaps' = mishaps + 1

-----------------------------------------------------------------------------
(* The process and the clock.                                              *)

Clock(t) ==
    /\ t # now
    /\ now' = t
    /\ UNCHANGED <<budgetVars, keyVars, leaseVars, call, histories, mishaps>>

\* A process starts: it replays both journals.
Open ==
    /\ ~Running
    /\ SessionKeys!Open
    /\ RuntimeLeases!Open
    /\ UNCHANGED <<budgetVars, now, call, histories, mishaps>>

\* It ends, or dies wherever its call happens to be.
Die ==
    /\ Running
    /\ Mishap
    /\ keyMem' = None /\ leaseMem' = None /\ call' = None
    /\ UNCHANGED <<budgetVars, keyFile, leaseFile, now, histories>>

-----------------------------------------------------------------------------
(* The hand-off: a voucher first, the branch second.                       *)

\* The delegation is ALLOWED by the authority ledger.
IssueVoucher(s) ==
    /\ Idle
    /\ Authority!Delegate(Voucher(s))
    /\ call' = [at |-> "register", branch |-> s]
    /\ UNCHANGED <<keyVars, leaseVars, now, histories, mishaps>>

Registering == Running /\ call # None /\ call.at = "register"

\* register_bundle: ISSUED, or STORE_REJECTED with the voucher left behind.  A
\* signer that fails before leaves the same behind as an append that is lost.
RegisterBranch ==
    /\ Registering
    /\ LET s == call.branch
           line == SessionKeys!HandOffLine(s) IN
       \/ /\ SessionKeys!MayRegister(s)
          /\ SessionKeys!Append(line)
          /\ handed' = handed \cup {s}
          /\ UNCHANGED mishaps
       \/ /\ SessionKeys!MayRegister(s)
          /\ SessionKeys!AppendFails(line)
          /\ Mishap
          /\ UNCHANGED handed
       \/ /\ ~SessionKeys!MayRegister(s)
          /\ UNCHANGED <<keyVars, handed, mishaps>>
    /\ call' = None
    /\ UNCHANGED <<budgetVars, leaseVars, now, allowed, struck>>

-----------------------------------------------------------------------------
(* The lease gate and the session-key gate below it.                       *)

\* RuntimeLeaseAuthorityGate::authorize begins: the lease's own preflight.
CheckLease(l, runtime) ==
    /\ Idle
    /\ RuntimeLeases!Preflight(l, runtime)
    /\ call' = [at |-> "checkKey", lease |-> l]
    /\ UNCHANGED <<budgetVars, keyVars, leaseVars, now, histories, mishaps>>

At(step) == Running /\ call # None /\ call.at = step

Goto(step) == call' = [call EXCEPT !.at = step]

\* SessionKeyAuthorityGate::authorize begins.
CheckKeyLast ==    \* mutated: the voucher is consumed before the key is checked
    /\ At("checkKey")
    /\ \/ /\ Authority!Use(Voucher(BranchOf(call.lease)))
          /\ IF SessionKeys!Preflight(BranchOf(call.lease)) THEN Goto("useKey") ELSE call' = None
       \/ UNCHANGED budgetVars /\ call' = None
    /\ UNCHANGED <<keyVars, leaseVars, now, histories, mishaps>>
CheckKey ==
    /\ At("checkKey")
    /\ IF SessionKeys!Preflight(BranchOf(call.lease)) THEN Goto("useVoucher") ELSE call' = None
    /\ UNCHANGED <<budgetVars, keyVars, leaseVars, now, histories, mishaps>>

\* The backing gate: it may refuse for reasons of its own.
UseVoucher ==
    /\ At("useVoucher")
    /\ \/ Authority!Use(Voucher(BranchOf(call.lease))) /\ Goto("useKey")
       \/ UNCHANGED budgetVars /\ call' = None
    /\ UNCHANGED <<keyVars, leaseVars, now, histories, mishaps>>

UseKeyAnyway ==    \* mutated: a use that could not be written is reported as ALLOWED
    /\ At("useKey")
    /\ LET s == BranchOf(call.lease)
           line == SessionKeys!UseLine(s) IN
       /\ SessionKeys!MayConsume(s)
       /\ \/ SessionKeys!Append(line) /\ UNCHANGED mishaps
          \/ SessionKeys!AppendFails(line) /\ Mishap
       /\ Goto("useLease")
    /\ UNCHANGED <<budgetVars, leaseVars, now, histories>>
UseKey ==
    /\ At("useKey")
    /\ LET s == BranchOf(call.lease)
           line == SessionKeys!UseLine(s) IN
       /\ SessionKeys!MayConsume(s)
       /\ \/ SessionKeys!Append(line) /\ Goto("useLease") /\ UNCHANGED mishaps
          \/ SessionKeys!AppendFails(line) /\ call' = None /\ Mishap
    /\ UNCHANGED <<budgetVars, leaseVars, now, histories>>

\* The lease may have expired since it was checked.
UseLease ==
    /\ At("useLease")
    /\ LET l == call.lease
           line == RuntimeLeases!UseLine(l) IN
       \/ /\ RuntimeLeases!MayConsume(l)
          /\ RuntimeLeases!Append(line)
          /\ allowed' = [allowed EXCEPT ![l] = @ + 1]
          /\ UNCHANGED mishaps
       \/ /\ RuntimeLeases!MayConsume(l)
          /\ RuntimeLeases!AppendFails(line)
          /\ Mishap
          /\ UNCHANGED allowed
       \/ /\ ~RuntimeLeases!MayConsume(l)
          /\ Mishap
          /\ UNCHANGED <<leaseVars, allowed>>
    /\ call' = None
    /\ UNCHANGED <<budgetVars, keyVars, now, handed, struck>>

-----------------------------------------------------------------------------
(* The other operations of the two ledgers.                                *)

\* A lease is signed from a bundle, which only an ISSUED hand-off returns.
RegisterLease(l) ==
    /\ Idle
    /\ BranchOf(l) \in handed
    /\ RuntimeLeases!MayRegister(l)
    /\ \/ RuntimeLeases!Append(RuntimeLeases!RegisterLine(l)) /\ UNCHANGED mishaps
       \/ RuntimeLeases!AppendFails(RuntimeLeases!RegisterLine(l)) /\ Mishap
    /\ UNCHANGED <<budgetVars, keyVars, now, call, histories>>

Strike(x, at) == struck' = struck \cup {[of |-> x, at |-> at]}

RevokeLease(l) ==
    /\ Idle
    /\ RuntimeLeases!MayRevoke(l)
    /\ \/ RuntimeLeases!Append(RuntimeLeases!RevokeLine(l)) /\ Strike(l, 1) /\ UNCHANGED mishaps
       \/ RuntimeLeases!AppendFails(RuntimeLeases!RevokeLine(l)) /\ Mishap /\ UNCHANGED struck
    /\ UNCHANGED <<budgetVars, keyVars, now, call, allowed, handed>>

\* The line of a key operation; x is what it revokes.
WriteKeyLine(line, x, at) ==
    /\ \/ SessionKeys!Append(line) /\ Strike(x, at) /\ UNCHANGED mishaps
       \/ SessionKeys!AppendFails(line) /\ Mishap /\ UNCHANGED struck
    /\ UNCHANGED <<budgetVars, leaseVars, now, call, allowed, handed>>

RevokeBranch(s, at) ==
    /\ Idle
    /\ SessionKeys!MayRevokeBranch(s)
    /\ WriteKeyLine(SessionKeys!RevokeBranchLine(s, at), s, at)

RevokeKey(k, at) ==
    /\ Idle
    /\ SessionKeys!MayRevokeKey(k)
    /\ WriteKeyLine(SessionKeys!RevokeKeyLine(k, at), k, at)

Next ==
    \/ \E t \in Times : Clock(t)
    \/ Open
    \/ Die
    \/ RegisterBranch
    \/ CheckKey
    \/ UseVoucher
    \/ UseKey
    \/ UseLease
    \/ \E s \in Branches : IssueVoucher(s) \/ \E t \in Times : RevokeBranch(s, t)
    \/ \E k \in EphemeralKeys, t \in Times : RevokeKey(k, t)
    \/ \E l \in Leases :
        \/ RegisterLease(l)
        \/ RevokeLease(l)
        \/ \E r \in Runtimes : CheckLease(l, r)

Spec == Init /\ [][Next]_vars

-----------------------------------------------------------------------------
(* Properties.                                                             *)

\* The books keep the types their headers give them, and no call is at a step
\* that does not exist.
GateTypeOK ==
    /\ keyFile \in Files(SessionKeys!Books)
    /\ keyMem \in SessionKeys!Books \cup {None}
    /\ leaseFile \in Files(RuntimeLeases!Books)
    /\ leaseMem \in RuntimeLeases!Books \cup {None}
    /\ call \in Calls \cup {None}

LeasesOf(s) == {l \in Leases : BranchOf(l) = s}

KeyBooks == {keyFile.view} \cup ({keyMem} \ {None})
LeaseBooks == {leaseFile.view} \cup ({leaseMem} \ {None})

\* README laws 58 and 65: no layer is ever ahead of the one below it.  Whatever
\* died or failed in between, each book of leases counts at most the uses every
\* readable book of session keys counts for their branch, and those are at most
\* the uses the authority ledger ALLOWED of its voucher.  What the lease gate
\* ALLOWED is in every readable book of leases.
UsesAreBacked ==
    \A s \in Branches :
        /\ \A k \in KeyBooks : k.healthy =>
            /\ k.uses[s] <= granted[Voucher(s)]
            /\ \A b \in LeaseBooks :
                SumFunctionOnSet(b.uses, LeasesOf(s)) <= k.uses[s]
        /\ \A b \in LeaseBooks : b.healthy =>
            \A l \in LeasesOf(s) : allowed[l] <= b.uses[l]

\* README law 63 and docs/SESSION_KEYS.md: only a failure burns authority.  The
\* vouchers' uses that no lease was ALLOWED for are at most the failures, plus
\* the one of a call still under way: a mismatch, a revocation, an expiry or a
\* spent budget found by a check costs nothing upstream.
InFlight == IF call # None /\ call.at \in {"useKey", "useLease"} THEN 1 ELSE 0

OnlyFailuresBurn ==
    SumFunctionOnSet([s \in Branches |-> granted[Voucher(s)]], Branches)
        <= SumFunctionOnSet(allowed, Leases) + mishaps + InFlight

\* README laws 60 and 67: from an acknowledged revocation that is in effect on,
\* no call gets past the check of its key, and none is ALLOWED for a revoked
\* lease, whatever restarts and torn appends lie between.
RevocationsHold ==
    [][ /\ At("checkKey") /\ call' \notin {None, call} =>
            \A r \in struck :
                r.of \in {BranchOf(call.lease), Bundle[BranchOf(call.lease)].key} =>
                    now < r.at
        /\ \A l \in Leases : allowed'[l] > allowed[l] => \A r \in struck : r.of # l
      ]_vars

\* README law 59: an ephemeral key backs one branch.  Of the branches whose
\* hand-off was ISSUED no two share a key, and no voucher is spent for another.
OneBranchPerKey ==
    /\ \A s, t \in handed : Bundle[s].key = Bundle[t].key => s = t
    /\ \A s \in Branches : granted[Voucher(s)] > 0 => s \in handed
=============================================================================
