--------------------------- MODULE SessionJournal ---------------------------
(***************************************************************************)
(* The transaction journal of src/src/session_journal.cpp: an append-only  *)
(* file of BEGIN, COMMIT, ABORT, RECOVERY_DISMISS and RECOVERY_RETRY lines. *)
(* Every operation scans the whole file, checks what the scan found and    *)
(* appends one line.  Nothing locks the file, so the scan and the append   *)
(* are two steps, and another process may append in between.               *)
(*                                                                         *)
(* scan_journal folds ScanLine over the lines, so the scan of a longer     *)
(* file is one more ScanLine: the model keeps the result of the scan, not  *)
(* the lines.  SHA-256 is taken as collision free, and nobody edits the    *)
(* file: then a line whose sequence number fits also carries the right     *)
(* previous-record hash, and a BEGIN is identified by its number.          *)
(***************************************************************************)
EXTENDS Naturals, FiniteSets

CONSTANTS
    Sessions,       \* immutable session ids
    Correlations,   \* correlation ids
    Requests,       \* digests of the request contract
    Auths,          \* recovery authorizations (their SHA-256)
    Clients,        \* processes that use the journal
    Faults,         \* what a failed append may leave in the file
    None            \* absent

VARIABLES
    disk,           \* scan of the newline-terminated lines of the file
    view,           \* scan of the whole file, as scan_journal returns it now
    clean,          \* the file is empty or ends with a newline
    pending,        \* pending[c]: the line c has built from its scan, not yet appended
    acked           \* history: the lines whose append returned OK

journal == <<disk, view, clean, pending, acked>>

Kinds == {"BEGIN", "COMMIT", "ABORT", "DISMISS", "RETRY"}

\* "lost": no byte arrived; "torn": some did; "whole": all but the newline.
FaultKinds == {"lost", "torn", "whole"}

\* A line.  On a BEGIN, parent and auth are not written to the file: they
\* record the proof begin_recovery_child was called with (None for begin),
\* and ScanLine only copies them into the history field `proof'.
Records ==
    {r \in [kind : Kinds, seq : Nat, session : Sessions, corr : Correlations,
            request : Requests, parent : Sessions \cup {None},
            auth : Auths \cup {None}, child : Correlations \cup {None}] :
        r.kind = "RETRY" => r.auth \in Auths /\ r.child \in Correlations}

Begins == [session : Sessions, corr : Correlations, request : Requests, seq : Nat]

Proofs == [parent : Sessions \cup {None}, auth : Auths \cup {None}]

Lineages ==
    [parent : Sessions, auth : Auths, child : Correlations,
     childSession : Sessions \cup {None}, proof : Proofs]

ScanStates ==
    [healthy : BOOLEAN, next : Nat, open : SUBSET Begins, seen : SUBSET Sessions,
     used : SUBSET Correlations, lineages : SUBSET Lineages]

ASSUME JournalAssumption ==
    /\ Faults \subseteq FaultKinds
    /\ None \notin Records
    /\ None \notin Sessions
    /\ None \notin Auths
    /\ None \notin Correlations

NoProof == [parent |-> None, auth |-> None]

EmptyScan ==
    [healthy |-> TRUE, next |-> 0, open |-> {}, seen |-> {}, used |-> {}, lineages |-> {}]

-----------------------------------------------------------------------------
(* What one line does to the scan.                                         *)

\* The BEGIN that r wants to close is open, with the same contract.
ClosesOpen(s, r) ==
    \E b \in s.open :
        b.session = r.session /\ b.corr = r.corr /\ b.request = r.request

\* A correlation no BEGIN has used and no decision has reserved.
FreshChildOfUsed(s, k) == k \notin s.used    \* mutated: reservations are not looked at
FreshChild(s, k) ==
    k \notin s.used /\ \A l \in s.lineages : l.child # k

AcceptsAnyOrder(s, r) ==    \* mutated: no sequence check
    /\ r.kind = "BEGIN" => r.session \notin s.seen
    /\ r.kind # "BEGIN" => ClosesOpen(s, r)
    /\ r.kind = "RETRY" => FreshChild(s, r.child)
Accepts(s, r) ==
    /\ r.seq = s.next
    /\ r.kind = "BEGIN" => r.session \notin s.seen
    /\ r.kind # "BEGIN" => ClosesOpen(s, r)
    /\ r.kind = "RETRY" => FreshChild(s, r.child)

\* A BEGIN takes the reservation of its correlation, if one is waiting.
Waiting(l, k) == l.childSession = None /\ l.child = k

TakenByAnyone(l, r) ==    \* mutated: a reservation can be taken again
    IF l.child = r.corr THEN [l EXCEPT !.childSession = r.session] ELSE l
TakenBy(l, r) ==
    IF Waiting(l, r.corr)
    THEN [l EXCEPT !.childSession = r.session,
                   !.proof = [parent |-> r.parent, auth |-> r.auth]]
    ELSE l

AfterBegin(s, r) ==
    [s EXCEPT !.next = @ + 1,
              !.seen = @ \cup {r.session},
              !.used = @ \cup {r.corr},
              !.open = @ \cup {[session |-> r.session, corr |-> r.corr,
                                request |-> r.request, seq |-> r.seq]},
              !.lineages = {TakenBy(l, r) : l \in @}]

Reservation(r) ==
    [parent |-> r.session, auth |-> r.auth, child |-> r.child,
     childSession |-> None, proof |-> NoProof]

AfterClose(s, r) ==
    [s EXCEPT !.next = @ + 1,
              !.open = {b \in @ : b.session # r.session},
              !.lineages = @ \cup (IF r.kind = "RETRY" THEN {Reservation(r)} ELSE {})]

\* A line that does not fit ends the scan: what was read before it stands,
\* and nothing after it is looked at.
SkipBadLine(s) == s    \* mutated: a line that does not fit is passed over
Spoil(s) == [s EXCEPT !.healthy = FALSE]

ScanPastFailure(s, r) ==    \* mutated: the scan goes on after a failure
    IF ~Accepts(s, r) THEN Spoil(s)
    ELSE IF r.kind = "BEGIN" THEN AfterBegin(s, r)
    ELSE AfterClose(s, r)
ScanLine(s, r) ==
    IF ~s.healthy THEN s
    ELSE IF ~Accepts(s, r) THEN Spoil(s)
    ELSE IF r.kind = "BEGIN" THEN AfterBegin(s, r)
    ELSE AfterClose(s, r)

-----------------------------------------------------------------------------
(* The operations: scan, check, and the line to append.                    *)

Init ==
    /\ disk = EmptyScan
    /\ view = EmptyScan
    /\ clean = TRUE
    /\ pending = [c \in Clients |-> None]
    /\ acked = {}

\* A process is inside one operation at a time.
Enter(c) == pending[c] = None

Prepare(c, r) ==
    /\ Enter(c)
    /\ pending' = [pending EXCEPT ![c] = r]
    /\ UNCHANGED <<disk, view, clean, acked>>

BeginLine(b, parent, auth) ==
    [kind |-> "BEGIN", seq |-> view.next, session |-> b.session, corr |-> b.corr,
     request |-> b.request, parent |-> parent, auth |-> auth, child |-> None]

MayBeginAgain(b) ==    \* mutated: the session id may repeat
    /\ view.healthy
    /\ \A l \in view.lineages : ~Waiting(l, b.corr)
MayBegin(b) ==
    /\ view.healthy
    /\ b.session \notin view.seen
    /\ \A l \in view.lineages : ~Waiting(l, b.corr)

MayBeginChild(b, parent, auth) ==
    /\ view.healthy
    /\ b.session \notin view.seen
    /\ \E l \in view.lineages :
        Waiting(l, b.corr) /\ l.parent = parent /\ l.auth = auth

MayFinish(b) == view.healthy /\ ClosesOpen(view, b)

MayRecover(b, kind, child) ==
    /\ view.healthy
    /\ b \in view.open
    /\ kind = "RETRY" => FreshChild(view, child)

Begin(c, b) ==
    /\ MayBegin(b)
    /\ Prepare(c, BeginLine(b, None, None))

BeginRecoveryChild(c, b, parent, auth) ==
    /\ MayBeginChild(b, parent, auth)
    /\ Prepare(c, BeginLine(b, parent, auth))

CloseLineNoChild(kind, b, auth, child) ==    \* mutated: the child is not written
    [kind |-> kind, seq |-> view.next, session |-> b.session, corr |-> b.corr,
     request |-> b.request, parent |-> None, auth |-> auth, child |-> None]
CloseLine(kind, b, auth, child) ==
    [kind |-> kind, seq |-> view.next, session |-> b.session, corr |-> b.corr,
     request |-> b.request, parent |-> None, auth |-> auth, child |-> child]

Finish(c, b, kind) ==
    /\ kind \in {"COMMIT", "ABORT"}
    /\ MayFinish(b)
    /\ Prepare(c, CloseLine(kind, b, None, None))

\* b.seq stands for begin_record_sha256: the decision names one BEGIN line.
Recover(c, b, kind, auth, child) ==
    /\ kind \in {"DISMISS", "RETRY"}
    /\ MayRecover(b, kind, child)
    /\ Prepare(c, CloseLine(kind, b, auth, IF kind = "RETRY" THEN child ELSE None))

\* append_record: the line and its newline reach the file.  After a tail
\* without a newline they complete that tail's line, which then reads as one
\* malformed line.
Append(c) ==
    /\ pending[c] # None
    /\ disk' = IF clean THEN ScanLine(disk, pending[c]) ELSE Spoil(disk)
    /\ view' = disk'
    /\ clean' = TRUE
    /\ acked' = acked \cup {pending[c]}
    /\ pending' = [pending EXCEPT ![c] = None]

\* The append fails, or the process dies in it.  What arrived of the line is
\* the new tail of the file: std::getline returns it like a line.
AppendFails(c) ==
    /\ pending[c] # None
    /\ pending' = [pending EXCEPT ![c] = None]
    /\ UNCHANGED <<disk, acked>>
    /\ \/ /\ "lost" \in Faults
          /\ UNCHANGED <<view, clean>>
       \/ /\ "torn" \in Faults
          /\ view' = Spoil(disk)
          /\ clean' = FALSE
       \/ /\ "whole" \in Faults
          /\ view' = IF clean THEN ScanLine(disk, pending[c]) ELSE Spoil(disk)
          /\ clean' = FALSE

Operation(c) ==
    \E s \in Sessions, k \in Correlations, q \in Requests :
        LET b == [session |-> s, corr |-> k, request |-> q] IN
        \/ Begin(c, b)
        \/ \E kind \in {"COMMIT", "ABORT"} : Finish(c, b, kind)
        \/ \E p \in Sessions, a \in Auths : BeginRecoveryChild(c, b, p, a)

Decision(c) ==
    \E b \in view.open, a \in Auths, k \in Correlations, kind \in {"DISMISS", "RETRY"} :
        Recover(c, b, kind, a, k)

Next ==
    \E c \in Clients :
        \/ Operation(c)
        \/ Decision(c)
        \/ Append(c)
        \/ AppendFails(c)

Spec == Init /\ [][Next]_journal

-----------------------------------------------------------------------------
(* Properties.                                                             *)

\* The variables have the types scan_journal and the callers give them.
TypeOK ==
    /\ disk \in ScanStates
    /\ view \in ScanStates
    /\ clean \in BOOLEAN
    /\ pending \in [Clients -> Records \cup {None}]
    /\ acked \subseteq Records

\* What the scan must show of a line once it has been accepted.
Applied(s, r) ==
    /\ r.session \in s.seen
    /\ r.seq < s.next
    /\ r.kind = "BEGIN" => r.corr \in s.used
    /\ r.kind # "BEGIN" => \A b \in s.open : b.session # r.session
    /\ r.kind = "RETRY" =>
        \E l \in s.lineages :
            l.parent = r.session /\ l.auth = r.auth /\ l.child = r.child

\* A line whose append returned OK is in effect as long as the journal reads
\* as healthy, whoever wrote to the file in between and however torn their
\* appends were: a lost record can only come with a refused journal.
AckedIn(s) == s.healthy => \A r \in acked : Applied(s, r)

AckedDurable == AckedIn(view)

\* As long as the journal reads as healthy, no two lines acknowledged to two
\* processes share a place in the chain, begin the same session or close the
\* same session: of two racing operations, at most one counts.
Conflict(r1, r2) ==
    \/ r1.seq = r2.seq
    \/ r1.session = r2.session /\ (r1.kind = "BEGIN" <=> r2.kind = "BEGIN")

OneWinnerIn(s) == s.healthy => \A r1, r2 \in acked : Conflict(r1, r2) => r1 = r2

OneWinner == OneWinnerIn(view)

\* A reserved child correlation is begun only by the call that proved the
\* parent and the authorization that reserved it (README law 44), even when
\* an ordinary BEGIN of that correlation scanned the file before the
\* reservation was written.
Proven(s) ==
    \A l \in s.lineages :
        l.childSession # None => l.proof = [parent |-> l.parent, auth |-> l.auth]

StartedWithProof == Proven(view)

\* The scan's tables agree with one another: an open session was begun; a
\* recovered parent is closed for good; a correlation is reserved for one
\* child only; a reservation still waiting has never been used.
Sound(s) ==
    /\ \A b \in s.open : b.session \in s.seen /\ b.corr \in s.used
    /\ \A l \in s.lineages :
        /\ l.parent \in s.seen
        /\ \A b \in s.open : b.session # l.parent
        /\ l.childSession = None <=> l.child \notin s.used
        /\ l.childSession # None => l.childSession \in s.seen
    /\ \A l, m \in s.lineages : l.child = m.child \/ l.parent = m.parent => l = m

LineageSound == Sound(view)

\* An integrity failure is final, and what is readable then is all that ever
\* will be (README law 38).
FailureIsFinal ==
    [][~view.healthy =>
        /\ ~view'.healthy
        /\ <<view'.seen, view'.open, view'.lineages>> = <<view.seen, view.open, view.lineages>>
      ]_journal

\* The abstract state a scan stands for.
PhaseIn(s) ==
    [x \in Sessions |->
        IF x \notin s.seen THEN "absent"
        ELSE IF \E b \in s.open : b.session = x THEN "open" ELSE "closed"]

ReservationOf(s, k) == CHOOSE l \in s.lineages : l.child = k

PromiseIn(s) ==
    [k \in Correlations |->
        IF \E l \in s.lineages : l.child = k
        THEN [parent |-> ReservationOf(s, k).parent, auth |-> ReservationOf(s, k).auth]
        ELSE None]

StartedIn(s) ==
    [k \in Correlations |->
        IF \E l \in s.lineages : l.child = k
        THEN ReservationOf(s, k).childSession ELSE None]

\* The terminated lines implement the abstract life of the sessions.
Lifecycle ==
    INSTANCE SessionLifecycle WITH
        phase <- PhaseIn(disk), used <- disk.used, promise <- PromiseIn(disk),
        started <- StartedIn(disk), frozen <- ~disk.healthy

\* Every step of the journal is a step of the abstract life or none at all.
ImplementsLifecycle == Lifecycle!Spec
=============================================================================
