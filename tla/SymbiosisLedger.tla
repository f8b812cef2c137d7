-------------------------- MODULE SymbiosisLedger ---------------------------
(***************************************************************************)
(* The symbiosis ledger of src/src/symbiosis_ledger.cpp: grants to observe *)
(* sources, the stamps of what was observed, and the memories promoted     *)
(* from stamped observations, in the memory of one process and, as far as  *)
(* a grant's retention policy asks for it, in an append-only journal.  The *)
(* lines carry no number and no checksum: replay skips a line it cannot    *)
(* use, goes on with the next, and returns whether every line was good.    *)
(*                                                                         *)
(* A process constructs the ledger and replays the journal once.  Inputs   *)
(* the operations refuse for their own shape (a source id that does not    *)
(* bind to the grant, a summary too long) are left out.                    *)
(***************************************************************************)
EXTENDS Naturals, Sequences, FiniteSets

CONSTANTS
    Grants,         \* grant ids
    Policy,         \* Policy[g]: life time and retention policy of g
    Observations,   \* (source id, content) pairs
    GrantOf,        \* GrantOf[o]: the grant the source id of o binds to
    Memories,       \* promotion ids: (observation, summary) pairs
    SourceOf,       \* SourceOf[m]: the observation m was promoted from
    Times,          \* the times the callers may pass as now_unix_ms
    Faults,         \* what a failed append may leave in the file
    None            \* absent

VARIABLES
    disk,           \* replay of the newline-terminated lines of the journal
    view,           \* replay of the whole journal
    clean,          \* the journal is empty or ends with a newline
    mem,            \* the state of the running ledger, or None
    now,            \* the callers' clock
    revoked,        \* history: persistent grants whose revocation returned OK
    gone            \* history: memories forgotten and not asked to be promoted since

vars == <<disk, view, clean, mem, now, revoked, gone>>

\* "lost": no byte arrived; "torn": an unusable part; "whole": a part that
\* still parses, the newline missing.
FaultKinds == {"lost", "torn", "whole"}

Policies ==
    [issued : Times, expires : Nat, persist : BOOLEAN, stamps : BOOLEAN,
     promote : BOOLEAN, cap : Nat \ {0}]

ASSUME SymbiosisAssumption ==
    /\ Times \subseteq Nat \ {0}
    /\ Faults \subseteq FaultKinds
    /\ Policy \in [Grants -> Policies]
    /\ \A g \in Grants : Policy[g].stamps => Policy[g].persist
    /\ GrantOf \in [Observations -> Grants]
    /\ SourceOf \in [Memories -> Observations]
    /\ None \notin Times \cup {0}

\* grants[g] is None, or the time of its revocation (0: not revoked).  The two
\* vectors of the ledger are kept apart by what their searches look for: the
\* stamps by grant, and the promotions by id, where promotions[m][i] says whether
\* the i-th promotion with the id m has been forgotten.
Books ==
    [sound : BOOLEAN, grants : [Grants -> Times \cup {0, None}],
     stamps : [Grants -> Seq(Observations)], promotions : [Memories -> Seq(BOOLEAN)]]

ASSUME NoBook == None \notin Books

EmptyBook ==
    [sound |-> TRUE, grants |-> [g \in Grants |-> None],
     stamps |-> [g \in Grants |-> <<>>], promotions |-> [m \in Memories |-> <<>>]]

GrantOfMemory(m) == GrantOf[SourceOf[m]]

-----------------------------------------------------------------------------
(* What an event does to a book.                                           *)

\* retain_stamp: the new stamp goes last; the oldest of its grant makes room.
Retain(stamps, o) ==
    LET all == Append(stamps, o) IN
    IF Len(all) > Policy[GrantOf[o]].cap THEN Tail(all) ELSE all

\* A forget event means the first promotion with its id.
CanForget(b, m) == b.promotions[m] # <<>> /\ ~b.promotions[m][1]

After(b, e) ==
    CASE e.kind = "G" -> [b EXCEPT !.grants[e.of] = 0]
      [] e.kind = "R" -> [b EXCEPT !.grants[e.of] = e.at]
      [] e.kind = "S" -> [b EXCEPT !.stamps[GrantOf[e.of]] = Retain(@, e.of)]
      [] e.kind = "P" -> [b EXCEPT !.promotions[e.of] = Append(@, FALSE)]
      [] e.kind = "F" -> [b EXCEPT !.promotions[e.of][1] = TRUE]

\* What replay asks of an event.
UsableOrphan(b, e) ==    \* mutated: a promotion needs no grant
    CASE e.kind = "G" -> b.grants[e.of] = None
      [] e.kind = "R" -> b.grants[e.of] = 0
      [] e.kind = "S" -> b.grants[GrantOf[e.of]] # None
      [] e.kind = "P" -> TRUE
      [] e.kind = "F" -> CanForget(b, e.of)
Usable(b, e) ==
    CASE e.kind = "G" -> b.grants[e.of] = None
      [] e.kind = "R" -> b.grants[e.of] = 0
      [] e.kind = "S" -> b.grants[GrantOf[e.of]] # None
      [] e.kind = "P" -> b.grants[GrantOfMemory(e.of)] # None
      [] e.kind = "F" -> CanForget(b, e.of)

SkipQuietly(b) == b    \* mutated: replay does not report the line
Skip(b) == [b EXCEPT !.sound = FALSE]

ReplayEvent(b, e) == IF Usable(b, e) THEN After(b, e) ELSE Skip(b)

-----------------------------------------------------------------------------
(* The operations.                                                         *)

Init ==
    /\ disk = EmptyBook
    /\ view = EmptyBook
    /\ clean = TRUE
    /\ mem = None
    /\ now \in Times
    /\ revoked = {}
    /\ gone = {}

Open ==
    /\ mem = None
    /\ mem' = view
    /\ UNCHANGED <<disk, view, clean, now, revoked, gone>>

\* The process ends or dies.  What was only in its memory is gone with it.
Exit ==
    /\ mem # None
    /\ mem' = None
    /\ gone' = {m \in gone : Policy[GrantOfMemory(m)].persist}
    /\ UNCHANGED <<disk, view, clean, now, revoked>>

Clock(t) ==
    /\ t > now
    /\ now' = t
    /\ UNCHANGED <<disk, view, clean, mem, revoked, gone>>

\* The operation returns OK: memory changes, after the line of a persistent
\* event is in the file.
Done(e) ==
    /\ mem' = After(mem, e)
    /\ revoked' = IF e.kind = "R" /\ Policy[e.of].persist THEN revoked \cup {e.of} ELSE revoked
    /\ gone' = CASE e.kind = "F" -> gone \cup {e.of}
                [] e.kind = "P" -> gone \ {e.of}
                [] OTHER -> gone
    /\ UNCHANGED now

Note(e) ==
    /\ Done(e)
    /\ UNCHANGED <<disk, view, clean>>

\* After a tail without a newline, the line completes a malformed one.
Write(e) ==
    /\ Done(e)
    /\ disk' = IF clean THEN ReplayEvent(disk, e) ELSE Skip(disk)
    /\ view' = disk'
    /\ clean' = TRUE

WriteFailsLate(e) ==    \* mutated: memory is changed before the append
    /\ mem' = After(mem, e)
    /\ UNCHANGED <<disk, view, clean, now, revoked, gone>>
WriteFails(e) ==
    /\ UNCHANGED <<disk, mem, now, revoked>>
    /\ gone' = IF e.kind = "P" THEN gone \ {e.of} ELSE gone
    /\ \/ "lost" \in Faults /\ UNCHANGED <<view, clean>>
       \/ "torn" \in Faults /\ view' = Skip(disk) /\ clean' = FALSE
       \/ /\ "whole" \in Faults
          /\ view' = IF clean THEN ReplayEvent(disk, e) ELSE Skip(disk)
          /\ clean' = FALSE

Perform(e, persistent) ==
    IF persistent THEN Write(e) \/ WriteFails(e) ELSE Note(e)

\* grant_state(g, now) = Active
Active(g) ==
    /\ mem.grants[g] # None
    /\ now >= Policy[g].issued
    /\ ~(mem.grants[g] # 0 /\ now >= mem.grants[g])
    /\ ~(Policy[g].expires # 0 /\ now >= Policy[g].expires)

CreateGrant(g) ==
    /\ mem # None
    /\ mem.grants[g] = None
    /\ Perform([kind |-> "G", of |-> g], Policy[g].persist)

RevokeGrantAtExpiry(g) ==    \* mutated: the grant only ends when it expires
    /\ mem # None
    /\ mem.grants[g] = 0
    /\ now >= Policy[g].issued
    /\ Perform([kind |-> "R", of |-> g, at |-> Policy[g].expires], Policy[g].persist)
RevokeGrant(g) ==
    /\ mem # None
    /\ mem.grants[g] = 0
    /\ now >= Policy[g].issued
    /\ Perform([kind |-> "R", of |-> g, at |-> now], Policy[g].persist)

Stamped(b, o) == \E i \in DOMAIN b.stamps[GrantOf[o]] : b.stamps[GrantOf[o]][i] = o

StampObservation(o) ==
    /\ mem # None
    /\ Active(GrantOf[o])
    /\ ~Stamped(mem, o)
    /\ Perform([kind |-> "S", of |-> o], Policy[GrantOf[o]].stamps)

Live(b, m) == {i \in DOMAIN b.promotions[m] : ~b.promotions[m][i]}

PromotesTwice(m) == TRUE    \* mutated: no duplicate check
NotPromoted(m) == Live(mem, m) = {}

PromoteMemory(m) ==
    LET g == GrantOfMemory(m) IN
    /\ mem # None
    /\ Active(g)
    /\ Policy[g].promote
    /\ Stamped(mem, SourceOf[m])
    /\ NotPromoted(m)
    /\ Perform([kind |-> "P", of |-> m], Policy[g].persist)

ForgetPromotion(m) ==
    /\ mem # None
    /\ CanForget(mem, m)
    /\ Perform([kind |-> "F", of |-> m], Policy[GrantOfMemory(m)].persist)

Next ==
    \/ Open
    \/ Exit
    \/ \E t \in Times : Clock(t)
    \/ \E g \in Grants : CreateGrant(g) \/ RevokeGrant(g)
    \/ \E o \in Observations : StampObservation(o)
    \/ \E m \in Memories : PromoteMemory(m) \/ ForgetPromotion(m)

Spec == Init /\ [][Next]_vars

-----------------------------------------------------------------------------
(* Properties.                                                             *)

SymbiosisTypeOK ==
    /\ disk \in Books
    /\ view \in Books
    /\ clean \in BOOLEAN
    /\ mem \in Books \cup {None}
    /\ now \in Times
    /\ revoked \subseteq Grants
    /\ gone \subseteq Memories

\* The part of a book that its grants' policies keep.
Kept(b) ==
    [grants |-> [g \in {x \in Grants : Policy[x].persist} |-> b.grants[g]],
     stamps |-> [g \in {x \in Grants : Policy[x].stamps} |-> b.stamps[g]],
     promotions |->
        [m \in {x \in Memories : Policy[GrantOfMemory(x)].persist} |-> b.promotions[m]]]

\* A clean replay reconstructs exactly the persistent state the ledger had,
\* stamps evicted and promotions forgotten included.
ReplayRestores ==
    mem # None /\ clean /\ view.sound => Kept(mem) = Kept(view)

\* The books an operation may be decided from: the running ledger's, if it was
\* built from a replay that returned true, and a journal that replays cleanly.
Trusted == {b \in {view, mem} \ {None} : b.sound}

\* README law 15: a revoked persistent grant stays revoked, across restarts and
\* failed appends, unless replay reports a bad line.
RevocationSticks ==
    \A b \in Trusted, g \in revoked : b.grants[g] \in Times /\ b.grants[g] <= now

\* docs/SYMBIOSIS_LEDGER.md, Memory promotion: a forgotten memory does not come
\* back unless its promotion is asked for anew, and no memory is held twice.
ForgottenStaysForgotten ==
    \A b \in Trusted, m \in Memories :
        /\ m \in gone => Live(b, m) = {}
        /\ Cardinality(Live(b, m)) <= 1

\* A promotion is backed by a grant that allows it, in every book whatever a
\* damaged journal has lost.
PromotionsAllowed ==
    \A b \in {view, mem} \ {None} : \A m \in Memories :
        b.promotions[m] # <<>> =>
            Policy[GrantOfMemory(m)].promote /\ b.grants[GrantOfMemory(m)] # None

-----------------------------------------------------------------------------
(* What the documentation says and the code does not keep.                 *)

\* README law 16 and docs/SYMBIOSIS_LEDGER.md: promoted summaries can be
\* forgotten ("A promotion can later be explicitly forgotten").
LiveCanBeForgotten ==
    mem # None => \A m \in Memories : Live(mem, m) # {} => CanForget(mem, m)
=============================================================================
