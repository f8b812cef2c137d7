---------------------------- MODULE ReviewQueue -----------------------------
(***************************************************************************)
(* OperatorReviewQueue of src/src/operator_console.cpp: an append-only     *)
(* journal of ENQUEUE and CLOSE lines about human-review tickets, bounded  *)
(* in lines and in tickets.  As in PolicyRegistry, an operation scans the  *)
(* file, checks and appends, and nothing keeps another process out.        *)
(***************************************************************************)
EXTENDS Naturals, FiniteSets, JournalFile

CONSTANTS
    Tickets,        \* ticket ids: digests of what the ticket says
    Operators,      \* processes that use the queue
    Resolutions,    \* states to close a ticket in: DEFERRED, REFUSED, SUPERSEDED
    MaxRecords, MaxTickets,     \* OperatorReviewQueueBudget
    None            \* no line

VARIABLES
    queueFile,      \* the journal
    queuePending,   \* queuePending[o]: the line o has built from its scan, or None
    queueAcked      \* history: the lines whose append returned READY

Lines ==
    [seq : Nat, kind : {"ENQUEUE"}, ticket : Tickets]
        \cup [seq : Nat, kind : {"CLOSE"}, ticket : Tickets, state : Resolutions]

Books ==
    [healthy : BOOLEAN, next : Nat, tickets : SUBSET Tickets,
     closed : SUBSET [ticket : Tickets, state : Resolutions]]

EmptyBook == [healthy |-> TRUE, next |-> 0, tickets |-> {}, closed |-> {}]

Pending(b) == b.tickets \ {x.ticket : x \in b.closed}

-----------------------------------------------------------------------------
(* scan_queue, a line at a time.                                            *)

Accepts(b, l) ==
    /\ b.next < MaxRecords
    /\ l.seq = b.next
    /\ l.kind = "ENQUEUE" =>
        l.ticket \notin b.tickets /\ Cardinality(b.tickets) < MaxTickets
    /\ l.kind = "CLOSE" => l.ticket \in Pending(b)

After(b, l) ==
    IF l.kind = "ENQUEUE" THEN [b EXCEPT !.next = @ + 1, !.tickets = @ \cup {l.ticket}]
    ELSE [b EXCEPT !.next = @ + 1,
                   !.closed = @ \cup {[ticket |-> l.ticket, state |-> l.state]}]

ScanLine(b, l) ==
    IF ~b.healthy THEN b
    ELSE IF Accepts(b, l) THEN After(b, l)
    ELSE Spoil(b)

-----------------------------------------------------------------------------
(* The operations.                                                          *)

Init ==
    /\ queueFile = EmptyFile(EmptyBook)
    /\ queuePending = [o \in Operators |-> None]
    /\ queueAcked = {}

Scan == queueFile.view

Prepare(o, l) ==
    /\ queuePending[o] = None
    /\ queuePending' = [queuePending EXCEPT ![o] = l]
    /\ UNCHANGED <<queueFile, queueAcked>>

MayEnqueue(t) ==
    /\ Scan.healthy
    /\ Scan.next < MaxRecords
    /\ Cardinality(Scan.tickets) < MaxTickets
    /\ t \notin Scan.tickets

Enqueue(o, t) ==
    /\ MayEnqueue(t)
    /\ Prepare(o, [seq |-> Scan.next, kind |-> "ENQUEUE", ticket |-> t])

MayClose(t) ==
    /\ Scan.healthy
    /\ Scan.next < MaxRecords
    /\ t \in Pending(Scan)

Close(o, t, state) ==
    /\ MayClose(t)
    /\ Prepare(o, [seq |-> Scan.next, kind |-> "CLOSE", ticket |-> t, state |-> state])

Append(o) ==
    LET l == queuePending[o] IN
    /\ l # None
    /\ queueFile' = Appended(queueFile, ScanLine(queueFile.disk, l))
    /\ queuePending' = [queuePending EXCEPT ![o] = None]
    /\ queueAcked' = queueAcked \cup {l}

AppendFails(o) ==
    LET l == queuePending[o] IN
    /\ l # None
    /\ queueFile' \in Damaged(queueFile, ScanLine(queueFile.disk, l))
    /\ queuePending' = [queuePending EXCEPT ![o] = None]
    /\ UNCHANGED queueAcked

-----------------------------------------------------------------------------
(* Properties.                                                             *)

\* Of the lines acknowledged while processes raced and appends tore, a healthy
\* queue holds every one: a ticket is not lost, and two operators who closed
\* the same ticket in two ways cannot both have been told READY.
QueueAcked ==
    Scan.healthy =>
        /\ \A l \in queueAcked :
            /\ l.ticket \in Scan.tickets
            /\ l.kind = "CLOSE" =>
                {x \in Scan.closed : x.ticket = l.ticket}
                    = {[ticket |-> l.ticket, state |-> l.state]}
        /\ \A l, m \in queueAcked : l.seq = m.seq => l = m

\* A line nobody overtook is one the scan will accept.
QueueReplays ==
    \A o \in Operators :
        LET l == queuePending[o] IN
        l # None /\ queueFile.disk.healthy /\ l.seq = queueFile.disk.next =>
            Accepts(queueFile.disk, l)
=============================================================================
