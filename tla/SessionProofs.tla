---------------------------- MODULE SessionProofs ---------------------------
(***************************************************************************)
(* Proofs about the session journal, the execution sessions over it and    *)
(* the recovery protocol, for any number of sessions, receipts,            *)
(* correlations and processes, whose operations overlap and die anywhere,  *)
(* and any failed appends.                                                 *)
(*                                                                         *)
(* 1. SessionJournal.  Its properties speak of view, the scan of the whole *)
(* file, and are not inductive: a tail without a newline is read now and   *)
(* lost when the next append completes its line.  The invariant therefore  *)
(* holds of disk and of view, says how the two relate, and says that a     *)
(* line prepared on an undamaged file that still fits the chain saw the    *)
(* file as it is.                                                          *)
(*                                                                         *)
(* 2. ExecutionSession and RecoveryProtocol.  Every step of a process is   *)
(* quiet (it acknowledges no line) or loud (its append succeeds), and the  *)
(* invariant has four parts besides the types, each kept by both: FileInv  *)
(* (what the lines on file and the pending ones can be), EarnInv (a COMMIT *)
(* stands for work done), ReceiptInv (a decision has consumed its receipt) *)
(* and OnceInv (a session is begun and decided about once, unless the      *)
(* operations overlapped and the journal is damaged).                      *)
(***************************************************************************)
EXTENDS RecoveryProtocol, TLAPS

CheckedOn(s, r) ==
    /\ r.kind = "BEGIN" =>
        \/ \A l \in s.lineages : ~Waiting(l, r.corr)
        \/ \E l \in s.lineages :
            Waiting(l, r.corr) /\ l.parent = r.parent /\ l.auth = r.auth

\* A pending line is not ahead of the file; one that still fits was checked
\* against the file as it is.
PendingCurrent ==
    clean /\ disk.healthy =>
        \A c \in Clients :
            pending[c] # None =>
                /\ pending[c].seq <= disk.next
                /\ pending[c].seq = disk.next => CheckedOn(disk, pending[c])

\* What the tail after the last newline can make of the scan.
TailRead ==
    /\ clean => view = disk
    /\ view.healthy => disk.healthy
    /\ ~view.healthy => view = Spoil(disk)

IInv ==
    /\ TypeOK
    /\ TailRead
    /\ PendingCurrent
    /\ Sound(disk) /\ Sound(view)
    /\ Proven(disk) /\ Proven(view)
    /\ AckedIn(disk) /\ AckedIn(view)
    /\ OneWinnerIn(disk)

-----------------------------------------------------------------------------
(* What one line does to a scan.                                           *)

LEMMA SpoilTyped ==
    ASSUME NEW s \in ScanStates
    PROVE  /\ Spoil(s) \in ScanStates
           /\ ~Spoil(s).healthy
           /\ Spoil(s).next = s.next
           /\ Spoil(s).open = s.open
           /\ Spoil(s).seen = s.seen
           /\ Spoil(s).used = s.used
           /\ Spoil(s).lineages = s.lineages
BY DEF Spoil, ScanStates

LEMMA TakenByTyped ==
    ASSUME NEW l \in Lineages, NEW r \in Records
    PROVE  /\ TakenBy(l, r) \in Lineages
           /\ TakenBy(l, r).parent = l.parent
           /\ TakenBy(l, r).auth = l.auth
           /\ TakenBy(l, r).child = l.child
           /\ Waiting(l, r.corr) =>
                /\ TakenBy(l, r).childSession = r.session
                /\ TakenBy(l, r).proof = [parent |-> r.parent, auth |-> r.auth]
           /\ ~Waiting(l, r.corr) => TakenBy(l, r) = l
BY DEF TakenBy, Lineages, Records, Proofs

LEMMA AfterBeginTyped ==
    ASSUME NEW s \in ScanStates, NEW r \in Records
    PROVE  /\ AfterBegin(s, r) \in ScanStates
           /\ AfterBegin(s, r).healthy = s.healthy
           /\ AfterBegin(s, r).next = s.next + 1
           /\ AfterBegin(s, r).open =
                s.open \cup {[session |-> r.session, corr |-> r.corr,
                              request |-> r.request, seq |-> r.seq]}
           /\ AfterBegin(s, r).seen = s.seen \cup {r.session}
           /\ AfterBegin(s, r).used = s.used \cup {r.corr}
           /\ AfterBegin(s, r).lineages = {TakenBy(l, r) : l \in s.lineages}
<1> DEFINE b == [session |-> r.session, corr |-> r.corr,
                 request |-> r.request, seq |-> r.seq]
<1>1. b \in Begins
  BY DEF Begins, Records
<1> DEFINE L == {TakenBy(l, r) : l \in s.lineages}
<1>2. L \subseteq Lineages
  <2>1. s.lineages \subseteq Lineages
    BY DEF ScanStates
  <2> QED BY <2>1, TakenByTyped
<1>3. r.session \in Sessions /\ r.corr \in Correlations
  BY DEF Records
<1>4. /\ s.healthy \in BOOLEAN /\ s.next + 1 \in Nat
      /\ s.open \cup {b} \in SUBSET Begins
      /\ s.seen \cup {r.session} \in SUBSET Sessions
      /\ s.used \cup {r.corr} \in SUBSET Correlations
  BY <1>1, <1>3 DEF ScanStates
<1>5. AfterBegin(s, r) = [s EXCEPT !.next = s.next + 1, !.seen = s.seen \cup {r.session},
                                   !.used = s.used \cup {r.corr},
                                   !.open = s.open \cup {b}, !.lineages = L]
  BY DEF AfterBegin
<1> HIDE DEF b, L
<1>6. /\ AfterBegin(s, r) \in ScanStates
      /\ AfterBegin(s, r).healthy = s.healthy
      /\ AfterBegin(s, r).next = s.next + 1
      /\ AfterBegin(s, r).open = s.open \cup {b}
      /\ AfterBegin(s, r).seen = s.seen \cup {r.session}
      /\ AfterBegin(s, r).used = s.used \cup {r.corr}
      /\ AfterBegin(s, r).lineages = L
  BY <1>2, <1>4, <1>5 DEF ScanStates
<1> QED
  BY <1>6 DEF b, L

LEMMA ReservationTyped ==
    ASSUME NEW r \in Records, r.kind = "RETRY"
    PROVE  /\ Reservation(r) \in Lineages
           /\ Reservation(r).parent = r.session
           /\ Reservation(r).auth = r.auth
           /\ Reservation(r).child = r.child
           /\ Reservation(r).childSession = None
BY DEF Reservation, Records, Lineages, Proofs, NoProof

LEMMA AfterCloseTyped ==
    ASSUME NEW s \in ScanStates, NEW r \in Records
    PROVE  /\ AfterClose(s, r) \in ScanStates
           /\ AfterClose(s, r).healthy = s.healthy
           /\ AfterClose(s, r).next = s.next + 1
           /\ AfterClose(s, r).open = {b \in s.open : b.session # r.session}
           /\ AfterClose(s, r).seen = s.seen
           /\ AfterClose(s, r).used = s.used
           /\ AfterClose(s, r).lineages =
                s.lineages \cup (IF r.kind = "RETRY" THEN {Reservation(r)} ELSE {})
<1> DEFINE O == {b \in s.open : b.session # r.session}
           L == s.lineages \cup (IF r.kind = "RETRY" THEN {Reservation(r)} ELSE {})
<1>1. s.open \subseteq Begins /\ s.lineages \subseteq Lineages /\ s.next + 1 \in Nat
  BY DEF ScanStates
<1>2. O \in SUBSET Begins /\ L \in SUBSET Lineages
  BY <1>1, ReservationTyped
<1>3. AfterClose(s, r) = [s EXCEPT !.next = s.next + 1, !.open = O, !.lineages = L]
  BY DEF AfterClose
<1> HIDE DEF O, L
<1>4. /\ AfterClose(s, r) \in ScanStates
      /\ AfterClose(s, r).healthy = s.healthy
      /\ AfterClose(s, r).next = s.next + 1
      /\ AfterClose(s, r).open = O
      /\ AfterClose(s, r).seen = s.seen
      /\ AfterClose(s, r).used = s.used
      /\ AfterClose(s, r).lineages = L
  BY <1>1, <1>2, <1>3 DEF ScanStates
<1> QED
  BY <1>4 DEF O, L

LEMMA ScanLineTyped ==
    ASSUME NEW s \in ScanStates, NEW r \in Records
    PROVE  ScanLine(s, r) \in ScanStates
BY SpoilTyped, AfterBeginTyped, AfterCloseTyped DEF ScanLine

\* A scan that is still healthy after a line has accepted the line.
LEMMA HealthyLine ==
    ASSUME NEW s \in ScanStates, NEW r \in Records, ScanLine(s, r).healthy
    PROVE  /\ s.healthy
           /\ Accepts(s, r)
           /\ r.kind = "BEGIN" => ScanLine(s, r) = AfterBegin(s, r)
           /\ r.kind # "BEGIN" => ScanLine(s, r) = AfterClose(s, r)
BY SpoilTyped DEF ScanLine

\* One that is not healthy after it reads as much as before it.
LEMMA UnhealthyLine ==
    ASSUME NEW s \in ScanStates, NEW r \in Records, ~ScanLine(s, r).healthy
    PROVE  ScanLine(s, r) = Spoil(s)
BY AfterBeginTyped, AfterCloseTyped DEF ScanLine, Spoil, ScanStates

\* The tables of a scan stay consistent line after line.
LEMMA SpoilSound ==
    ASSUME NEW s \in ScanStates, Sound(s)
    PROVE  Sound(Spoil(s))
BY SpoilTyped DEF Sound

LEMMA ScanLineSound ==
    ASSUME NEW s \in ScanStates, NEW r \in Records, Sound(s)
    PROVE  Sound(ScanLine(s, r))
<1> DEFINE t == ScanLine(s, r)
<1>1. CASE ~t.healthy
  BY <1>1, UnhealthyLine, SpoilSound
<1>2. CASE t.healthy /\ r.kind = "BEGIN"
  <2>1. t = AfterBegin(s, r) /\ r.session \notin s.seen
    BY <1>2, HealthyLine DEF Accepts
  <2>2. /\ t.seen = s.seen \cup {r.session}
        /\ t.used = s.used \cup {r.corr}
        /\ t.lineages = {TakenBy(l, r) : l \in s.lineages}
        /\ t.open = s.open \cup {[session |-> r.session, corr |-> r.corr,
                                  request |-> r.request, seq |-> r.seq]}
    BY <2>1, AfterBeginTyped
  <2>3. \A b \in t.open : b.session \in t.seen /\ b.corr \in t.used
    BY <2>2 DEF Sound
  <2>4. s.lineages \subseteq Lineages
    BY DEF ScanStates
  <2>5. ASSUME NEW l \in s.lineages
        PROVE  /\ TakenBy(l, r).parent \in t.seen
               /\ \A b \in t.open : b.session # TakenBy(l, r).parent
               /\ TakenBy(l, r).childSession = None <=> TakenBy(l, r).child \notin t.used
               /\ TakenBy(l, r).childSession # None => TakenBy(l, r).childSession \in t.seen
    <3>1. /\ l.parent \in s.seen
          /\ \A b \in s.open : b.session # l.parent
          /\ l.childSession = None <=> l.child \notin s.used
          /\ l.childSession # None => l.childSession \in s.seen
      BY DEF Sound
    <3>2. TakenBy(l, r).parent = l.parent /\ TakenBy(l, r).child = l.child
      BY <2>4, TakenByTyped
    <3>3. CASE Waiting(l, r.corr)
      <4>1. TakenBy(l, r).childSession = r.session /\ l.child = r.corr
        BY <2>4, <3>3, TakenByTyped DEF Waiting
      <4>2. r.session # None
        BY JournalAssumption DEF Records
      <4> QED BY <2>1, <2>2, <3>1, <3>2, <4>1, <4>2
    <3>4. CASE ~Waiting(l, r.corr)
      <4>1. TakenBy(l, r) = l
        BY <2>4, <3>4, TakenByTyped
      <4> QED BY <2>1, <2>2, <3>1, <3>4, <4>1 DEF Waiting
    <3> QED BY <3>3, <3>4
  <2>6. ASSUME NEW l \in s.lineages, NEW m \in s.lineages,
               \/ TakenBy(l, r).child = TakenBy(m, r).child
               \/ TakenBy(l, r).parent = TakenBy(m, r).parent
        PROVE  TakenBy(l, r) = TakenBy(m, r)
    <3>1. l.child = m.child \/ l.parent = m.parent
      BY <2>4, <2>6, TakenByTyped
    <3>2. l = m
      BY <3>1 DEF Sound
    <3> QED BY <3>2
  <2>7. t = ScanLine(s, r)
    OBVIOUS
  <2> HIDE DEF t
  <2>8. Sound(t)
    BY <2>2, <2>3, <2>5, <2>6 DEF Sound
  <2> QED BY <2>7, <2>8
<1>3. CASE t.healthy /\ r.kind # "BEGIN"
  <2>1. t = AfterClose(s, r) /\ Accepts(s, r)
    BY <1>3, HealthyLine
  <2>2. /\ t.seen = s.seen
        /\ t.used = s.used
        /\ t.open = {b \in s.open : b.session # r.session}
        /\ t.lineages = s.lineages \cup (IF r.kind = "RETRY" THEN {Reservation(r)} ELSE {})
    BY <2>1, AfterCloseTyped
  <2>3. PICK b0 \in s.open : b0.session = r.session
    BY <1>3, <2>1 DEF Accepts, ClosesOpen
  <2>4. r.kind = "RETRY" => FreshChild(s, r.child)
    BY <2>1 DEF Accepts
  <2>5. \A l \in s.lineages : l.parent # r.session
    BY <2>3 DEF Sound
  <2>6. r.session \in s.seen
    BY <2>3 DEF Sound
  <2>7. t = ScanLine(s, r)
    OBVIOUS
  <2> HIDE DEF t
  <2>8. Sound(t)
    <3>1. CASE r.kind = "RETRY"
      <4>1. t.lineages = s.lineages \cup {Reservation(r)}
        BY <2>2, <3>1
      <4>2. r.child \notin s.used /\ \A l \in s.lineages : l.child # r.child
        BY <2>4, <3>1 DEF FreshChild
      <4> QED BY <2>2, <2>5, <2>6, <4>1, <4>2, ReservationTyped DEF Sound
    <3>2. CASE r.kind # "RETRY"
      BY <2>2, <3>2 DEF Sound
    <3> QED BY <3>1, <3>2
  <2> QED BY <2>7, <2>8
<1> QED BY <1>1, <1>2, <1>3

\* What an accepted line did stays done, line after line.
LEMMA ScanLineApplied ==
    ASSUME NEW s \in ScanStates, NEW r \in Records, NEW q \in Records,
           Sound(s), Applied(s, q), ScanLine(s, r).healthy
    PROVE  Applied(ScanLine(s, r), q)
<1> DEFINE t == ScanLine(s, r)
<1>0. q.seq \in Nat /\ s.next \in Nat /\ s.lineages \subseteq Lineages
  BY DEF Records, ScanStates
<1>1. CASE r.kind = "BEGIN"
  <2>1. t = AfterBegin(s, r) /\ r.session \notin s.seen
    BY <1>1, HealthyLine DEF Accepts
  <2>2. /\ t.next = s.next + 1
        /\ t.seen = s.seen \cup {r.session}
        /\ t.used = s.used \cup {r.corr}
        /\ t.lineages = {TakenBy(l, r) : l \in s.lineages}
        /\ t.open = s.open \cup {[session |-> r.session, corr |-> r.corr,
                                  request |-> r.request, seq |-> r.seq]}
    BY <2>1, AfterBeginTyped
  <2> HIDE DEF t
  <2>3. q.session \in t.seen /\ q.seq < t.next /\ (q.kind = "BEGIN" => q.corr \in t.used)
    BY <1>0, <2>2 DEF Applied
  <2>4. q.kind # "BEGIN" => \A b \in t.open : b.session # q.session
    BY <2>1, <2>2 DEF Applied
  <2>5. ASSUME q.kind = "RETRY"
        PROVE  \E l \in t.lineages :
                  l.parent = q.session /\ l.auth = q.auth /\ l.child = q.child
    <3>1. PICK l \in s.lineages :
            l.parent = q.session /\ l.auth = q.auth /\ l.child = q.child
      BY <2>5 DEF Applied
    <3>2. TakenBy(l, r) \in t.lineages
      BY <2>2
    <3>3. l \in Lineages
      BY <1>0
    <3>4. /\ TakenBy(l, r).parent = l.parent
          /\ TakenBy(l, r).auth = l.auth
          /\ TakenBy(l, r).child = l.child
      BY <3>3, TakenByTyped
    <3> QED BY <3>1, <3>2, <3>4
  <2> QED BY <2>3, <2>4, <2>5 DEF Applied, t
<1>2. CASE r.kind # "BEGIN"
  <2>1. t = AfterClose(s, r)
    BY <1>2, HealthyLine
  <2>2. /\ t.next = s.next + 1
        /\ t.seen = s.seen
        /\ t.used = s.used
        /\ t.open = {b \in s.open : b.session # r.session}
        /\ s.lineages \subseteq t.lineages
    BY <2>1, AfterCloseTyped
  <2> QED BY <1>0, <2>2 DEF Applied
<1> QED BY <1>1, <1>2

\* The line itself is applied, it comes after every line already applied, and
\* it conflicts with none of them.
LEMMA ScanLineWins ==
    ASSUME NEW s \in ScanStates, NEW r \in Records, Sound(s), ScanLine(s, r).healthy
    PROVE  /\ Applied(ScanLine(s, r), r)
           /\ \A q \in Records : Applied(s, q) => ~Conflict(q, r)
<1> DEFINE t == ScanLine(s, r)
<1>0. r.seq \in Nat /\ s.next \in Nat
  BY DEF Records, ScanStates
<1>1. Accepts(s, r)
  BY HealthyLine
<1>2. Applied(t, r)
  <2>1. CASE r.kind = "BEGIN"
    <3>1. t = AfterBegin(s, r)
      BY <2>1, HealthyLine
    <3> QED BY <1>0, <1>1, <2>1, <3>1, AfterBeginTyped DEF Applied, Accepts
  <2>2. CASE r.kind # "BEGIN"
    <3>1. t = AfterClose(s, r)
      BY <2>2, HealthyLine
    <3>2. r.session \in s.seen
      BY <1>1, <2>2 DEF Accepts, ClosesOpen, Sound
    <3>3. r.kind = "RETRY" =>
            \E l \in t.lineages :
                l.parent = r.session /\ l.auth = r.auth /\ l.child = r.child
      BY <3>1, AfterCloseTyped, ReservationTyped
    <3> QED BY <1>0, <1>1, <2>2, <3>1, <3>2, <3>3, AfterCloseTyped DEF Applied, Accepts
  <2> QED BY <2>1, <2>2
<1>3. ASSUME NEW q \in Records, Applied(s, q)
      PROVE  ~Conflict(q, r)
  <2>1. q.seq < s.next /\ r.seq = s.next /\ q.seq \in Nat
    BY <1>1, <1>3 DEF Applied, Accepts, Records
  <2>2. q.seq # r.seq
    BY <1>0, <2>1
  <2>3. CASE r.kind = "BEGIN"
    BY <1>1, <1>3, <2>2, <2>3 DEF Accepts, Applied, Conflict
  <2>4. CASE r.kind # "BEGIN"
    BY <1>1, <1>3, <2>2, <2>4 DEF Accepts, ClosesOpen, Applied, Conflict
  <2> QED BY <2>3, <2>4
<1> QED BY <1>2, <1>3

\* A line checked against the scan it joins keeps every start proven.
LEMMA ScanLineProven ==
    ASSUME NEW s \in ScanStates, NEW r \in Records, Sound(s), Proven(s),
           s.healthy /\ r.seq = s.next => CheckedOn(s, r)
    PROVE  Proven(ScanLine(s, r))
<1> DEFINE t == ScanLine(s, r)
<1>0. s.lineages \subseteq Lineages
  BY DEF ScanStates
<1>1. CASE ~t.healthy
  BY <1>1, UnhealthyLine, SpoilTyped DEF Proven
<1>2. CASE t.healthy /\ r.kind = "BEGIN"
  <2>1. t = AfterBegin(s, r) /\ CheckedOn(s, r)
    BY <1>2, HealthyLine DEF Accepts
  <2>2. t.lineages = {TakenBy(l, r) : l \in s.lineages}
    BY <2>1, AfterBeginTyped
  <2>3. ASSUME NEW l \in s.lineages, TakenBy(l, r).childSession # None
        PROVE  TakenBy(l, r).proof =
                 [parent |-> TakenBy(l, r).parent, auth |-> TakenBy(l, r).auth]
    <3>1. CASE Waiting(l, r.corr)
      <4>1. PICK m \in s.lineages :
              Waiting(m, r.corr) /\ m.parent = r.parent /\ m.auth = r.auth
        BY <1>2, <2>1, <3>1 DEF CheckedOn
      <4>2. l = m
        BY <3>1, <4>1 DEF Sound, Waiting
      <4>3. l \in Lineages
        BY <1>0
      <4>4. /\ TakenBy(l, r).parent = l.parent
            /\ TakenBy(l, r).auth = l.auth
            /\ TakenBy(l, r).proof = [parent |-> r.parent, auth |-> r.auth]
        BY <3>1, <4>3, TakenByTyped
      <4> QED BY <4>1, <4>2, <4>4
    <3>2. CASE ~Waiting(l, r.corr)
      BY <1>0, <2>3, <3>2, TakenByTyped DEF Proven
    <3> QED BY <3>1, <3>2
  <2> HIDE DEF t
  <2>4. Proven(t)
    BY <2>2, <2>3 DEF Proven
  <2> QED BY <2>4 DEF t
<1>3. CASE t.healthy /\ r.kind # "BEGIN"
  <2>1. t = AfterClose(s, r)
    BY <1>3, HealthyLine
  <2>2. \A l \in t.lineages : l \in s.lineages \/ l.childSession = None
    BY <2>1, AfterCloseTyped, ReservationTyped
  <2> QED BY <2>2 DEF Proven
<1> QED BY <1>1, <1>2, <1>3

-----------------------------------------------------------------------------
(* The invariant.                                                          *)

LEMMA EmptyScanSound ==
    /\ EmptyScan \in ScanStates
    /\ Sound(EmptyScan)
    /\ Proven(EmptyScan)
BY DEF EmptyScan, ScanStates, Sound, Proven

LEMMA InitIInv == Init => IInv
<1> SUFFICES ASSUME Init PROVE IInv
  OBVIOUS
<1>1. TypeOK
  BY EmptyScanSound DEF Init, TypeOK
<1>2. TailRead /\ PendingCurrent
  BY DEF Init, TailRead, PendingCurrent, EmptyScan
<1>3. AckedIn(disk) /\ AckedIn(view) /\ OneWinnerIn(disk)
  BY DEF Init, AckedIn, OneWinnerIn
<1> QED
  BY <1>1, <1>2, <1>3, EmptyScanSound DEF Init, IInv

\* Preparing a line changes nothing but pending; on an undamaged file the line
\* is the next one, and it was checked.
LEMMA PrepareIInv ==
    ASSUME IInv, NEW c \in Clients, NEW r \in Records, Prepare(c, r),
           r.seq = view.next, CheckedOn(view, r)
    PROVE  IInv'
<1>1. /\ pending' = [pending EXCEPT ![c] = r]
      /\ UNCHANGED <<disk, view, clean, acked>>
  BY DEF Prepare
<1>2. TypeOK'
  BY <1>1 DEF IInv, TypeOK
<1>3. PendingCurrent'
  <2> SUFFICES ASSUME clean, disk.healthy, NEW d \in Clients, pending'[d] # None
               PROVE  /\ pending'[d].seq <= disk.next
                      /\ pending'[d].seq = disk.next => CheckedOn(disk, pending'[d])
    BY <1>1 DEF PendingCurrent
  <2>1. view = disk /\ disk.next \in Nat
    BY DEF IInv, TailRead, TypeOK, ScanStates
  <2>2. CASE d = c
    BY <1>1, <2>1, <2>2 DEF IInv, TypeOK
  <2>3. CASE d # c
    BY <1>1, <2>3 DEF IInv, TypeOK, PendingCurrent
  <2> QED BY <2>2, <2>3
<1>4. (TailRead /\ Sound(disk) /\ Sound(view) /\ Proven(disk) /\ Proven(view))'
  BY <1>1 DEF IInv, TailRead
<1>5. (AckedIn(disk) /\ AckedIn(view) /\ OneWinnerIn(disk))'
  BY <1>1 DEF IInv, AckedIn, OneWinnerIn
<1> QED BY <1>2, <1>3, <1>4, <1>5 DEF IInv

\* The operations prepare well-typed, checked lines.
LEMMA BeginIInv ==
    ASSUME IInv, NEW c \in Clients, NEW s \in Sessions, NEW k \in Correlations,
           NEW q \in Requests,
           Begin(c, [session |-> s, corr |-> k, request |-> q])
    PROVE  IInv'
<1> DEFINE b == [session |-> s, corr |-> k, request |-> q]
           r == BeginLine(b, None, None)
<1>1. r \in Records /\ r.seq = view.next /\ r.corr = k
  BY DEF IInv, TypeOK, ScanStates, BeginLine, Records, Kinds
<1>2. Prepare(c, r) /\ \A l \in view.lineages : ~Waiting(l, k)
  BY DEF Begin, MayBegin
<1>3. CheckedOn(view, r)
  BY <1>1, <1>2 DEF CheckedOn
<1> QED BY <1>1, <1>2, <1>3, PrepareIInv

LEMMA BeginRecoveryChildIInv ==
    ASSUME IInv, NEW c \in Clients, NEW s \in Sessions, NEW k \in Correlations,
           NEW q \in Requests, NEW p \in Sessions, NEW a \in Auths,
           BeginRecoveryChild(c, [session |-> s, corr |-> k, request |-> q], p, a)
    PROVE  IInv'
<1> DEFINE b == [session |-> s, corr |-> k, request |-> q]
           r == BeginLine(b, p, a)
<1>1. /\ r \in Records /\ r.seq = view.next
      /\ r.corr = k /\ r.parent = p /\ r.auth = a
  BY DEF IInv, TypeOK, ScanStates, BeginLine, Records, Kinds
<1>2. /\ Prepare(c, r)
      /\ \E l \in view.lineages : Waiting(l, k) /\ l.parent = p /\ l.auth = a
  BY DEF BeginRecoveryChild, MayBeginChild
<1>3. CheckedOn(view, r)
  BY <1>1, <1>2 DEF CheckedOn
<1> QED BY <1>1, <1>2, <1>3, PrepareIInv

LEMMA FinishIInv ==
    ASSUME IInv, NEW c \in Clients, NEW s \in Sessions, NEW k \in Correlations,
           NEW q \in Requests, NEW kind,
           Finish(c, [session |-> s, corr |-> k, request |-> q], kind)
    PROVE  IInv'
<1> DEFINE b == [session |-> s, corr |-> k, request |-> q]
           r == CloseLine(kind, b, None, None)
<1>1. r \in Records /\ r.seq = view.next /\ r.kind # "BEGIN" /\ Prepare(c, r)
  BY DEF IInv, TypeOK, ScanStates, Finish, CloseLine, Records, Kinds
<1>2. CheckedOn(view, r)
  BY <1>1 DEF CheckedOn
<1> QED BY <1>1, <1>2, PrepareIInv

LEMMA RecoverIInv ==
    ASSUME IInv, NEW c \in Clients, NEW b \in view.open, NEW a \in Auths,
           NEW k \in Correlations, NEW kind, Recover(c, b, kind, a, k)
    PROVE  IInv'
<1> DEFINE r == CloseLine(kind, b, a, IF kind = "RETRY" THEN k ELSE None)
<1>1. b \in Begins /\ view.next \in Nat
  BY DEF IInv, TypeOK, ScanStates
<1>2. r \in Records /\ r.seq = view.next /\ r.kind # "BEGIN" /\ Prepare(c, r)
  BY <1>1 DEF Recover, CloseLine, Records, Kinds, Begins
<1>3. CheckedOn(view, r)
  BY <1>2 DEF CheckedOn
<1> QED BY <1>2, <1>3, PrepareIInv

\* The line of an append that returned OK.
LEMMA AppendIInv ==
    ASSUME IInv, NEW c \in Clients, Append(c)
    PROVE  IInv'
<1> DEFINE r == pending[c]
<1>1. /\ r \in Records
      /\ disk \in ScanStates /\ view \in ScanStates
      /\ acked \subseteq Records
      /\ view' = disk' /\ clean' /\ clean' = TRUE
      /\ acked' = acked \cup {r}
      /\ pending' = [pending EXCEPT ![c] = None]
  BY DEF Append, IInv, TypeOK
<1>2. CASE clean
  <2>1. disk' = ScanLine(disk, r)
    BY <1>2 DEF Append
  <2>2. disk.healthy /\ r.seq = disk.next => CheckedOn(disk, r)
    BY <1>1, <1>2, JournalAssumption DEF IInv, PendingCurrent
  <2>3. TypeOK'
    BY <1>1, <2>1, ScanLineTyped DEF IInv, TypeOK
  <2>4. Sound(disk)' /\ Sound(view)'
    BY <1>1, <2>1, ScanLineSound DEF IInv
  <2>5. Proven(disk)' /\ Proven(view)'
    BY <1>1, <2>1, <2>2, ScanLineProven DEF IInv
  <2>6. TailRead'
    BY <1>1, <2>3 DEF TailRead, Spoil, TypeOK, ScanStates
  <2>7. CASE disk'.healthy
    <3>1. /\ disk.healthy /\ disk'.next = disk.next + 1
          /\ r.seq = disk.next
      <4>1. disk.healthy /\ Accepts(disk, r)
        BY <1>1, <2>1, <2>7, HealthyLine
      <4>2. disk'.next = disk.next + 1
        <5>1. disk' = AfterBegin(disk, r) \/ disk' = AfterClose(disk, r)
          BY <1>1, <2>1, <2>7, HealthyLine
        <5> QED BY <1>1, <5>1, AfterBeginTyped, AfterCloseTyped
      <4> QED BY <4>1, <4>2 DEF Accepts
    <3>2. PendingCurrent'
      <4> SUFFICES ASSUME NEW d \in Clients, pending'[d] # None
                   PROVE  /\ pending'[d].seq <= disk'.next
                          /\ pending'[d].seq # disk'.next
        BY DEF PendingCurrent
      <4>1. pending'[d] = pending[d] /\ pending[d] # None
        BY <1>1 DEF IInv, TypeOK
      <4>2. pending[d].seq <= disk.next /\ pending[d].seq \in Nat /\ disk.next \in Nat
        BY <1>2, <3>1, <4>1 DEF IInv, PendingCurrent, TypeOK, ScanStates, Records
      <4> QED BY <3>1, <4>1, <4>2
    <3>3. \A q \in acked : Applied(disk, q)
      BY <3>1 DEF IInv, AckedIn
    <3>4. \A q \in acked : Applied(disk', q)
      BY <1>1, <2>1, <2>7, <3>3, ScanLineApplied DEF IInv
    <3>5. Applied(disk', r) /\ \A q \in acked : ~Conflict(q, r)
      BY <1>1, <2>1, <2>7, <3>3, ScanLineWins DEF IInv
    <3>6. AckedIn(disk)' /\ AckedIn(view)'
      BY <1>1, <3>4, <3>5 DEF AckedIn
    <3>7. OneWinnerIn(disk)'
      <4> SUFFICES ASSUME NEW r1 \in acked', NEW r2 \in acked', Conflict(r1, r2)
                   PROVE  r1 = r2
        BY DEF OneWinnerIn
      <4>1. Conflict(r2, r1)
        BY DEF Conflict
      <4> QED BY <1>1, <3>1, <3>5, <4>1 DEF IInv, OneWinnerIn
    <3> QED BY <2>3, <2>4, <2>5, <2>6, <3>2, <3>6, <3>7 DEF IInv
  <2>8. CASE ~disk'.healthy
    BY <1>1, <2>3, <2>4, <2>5, <2>6, <2>8 DEF IInv, PendingCurrent, AckedIn, OneWinnerIn
  <2> QED BY <2>7, <2>8
<1>3. CASE ~clean
  <2>1. disk' = Spoil(disk) /\ ~disk'.healthy
    BY <1>1, <1>3, SpoilTyped DEF Append
  <2>2. TypeOK'
    BY <1>1, <2>1, SpoilTyped DEF IInv, TypeOK
  <2>3. Sound(disk)' /\ Sound(view)'
    BY <1>1, <2>1, SpoilSound DEF IInv
  <2>4. Proven(disk)' /\ Proven(view)'
    BY <1>1, <2>1, SpoilTyped DEF IInv, Proven
  <2>5. TailRead'
    BY <1>1, <2>1 DEF TailRead, Spoil
  <2> QED BY <1>1, <2>1, <2>2, <2>3, <2>4, <2>5
          DEF IInv, PendingCurrent, AckedIn, OneWinnerIn
<1> QED BY <1>2, <1>3 DEF IInv, TypeOK

\* What a failed append leaves behind.
LEMMA AppendFailsIInv ==
    ASSUME IInv, NEW c \in Clients, AppendFails(c)
    PROVE  IInv'
<1> DEFINE r == pending[c]
<1>1. /\ r \in Records
      /\ disk \in ScanStates /\ view \in ScanStates
      /\ acked \subseteq Records
      /\ disk' = disk /\ acked' = acked
      /\ pending' = [pending EXCEPT ![c] = None]
  BY DEF AppendFails, IInv, TypeOK
<1>2. (Sound(disk) /\ Proven(disk) /\ AckedIn(disk) /\ OneWinnerIn(disk))'
  BY <1>1 DEF IInv, AckedIn, OneWinnerIn
<1>3. pending' \in [Clients -> Records \cup {None}]
  BY <1>1 DEF IInv, TypeOK
<1>4. CASE UNCHANGED <<view, clean>>
  <2>1. PendingCurrent'
    BY <1>1, <1>4 DEF IInv, TypeOK, PendingCurrent
  <2> QED BY <1>1, <1>2, <1>3, <1>4, <2>1 DEF IInv, TypeOK, TailRead, AckedIn
<1>5. CASE view' = Spoil(disk) /\ clean' = FALSE
  <2>1. Sound(view)' /\ Proven(view)' /\ AckedIn(view)' /\ view' \in ScanStates
    BY <1>1, <1>5, SpoilTyped, SpoilSound DEF IInv, Proven, AckedIn
  <2>2. TailRead' /\ PendingCurrent'
    BY <1>1, <1>5, SpoilTyped DEF TailRead, PendingCurrent
  <2> QED BY <1>1, <1>2, <1>3, <1>5, <2>1, <2>2 DEF IInv, TypeOK
<1>6. CASE clean /\ view' = ScanLine(disk, r) /\ clean' = FALSE
  <2>1. disk.healthy /\ r.seq = disk.next => CheckedOn(disk, r)
    BY <1>1, <1>6, JournalAssumption DEF IInv, PendingCurrent, AppendFails
  <2>2. Sound(view)' /\ Proven(view)' /\ view' \in ScanStates
    BY <1>1, <1>6, <2>1, ScanLineSound, ScanLineProven, ScanLineTyped DEF IInv
  <2>3. AckedIn(view)'
    <3> SUFFICES ASSUME view'.healthy, NEW q \in acked
                 PROVE  Applied(view', q)
      BY <1>1 DEF AckedIn
    <3>1. Applied(disk, q)
      BY <1>1, <1>6, HealthyLine DEF IInv, AckedIn
    <3> QED BY <1>1, <1>6, <3>1, ScanLineApplied DEF IInv
  <2>4. TailRead' /\ PendingCurrent'
    BY <1>1, <1>6, HealthyLine, UnhealthyLine DEF TailRead, PendingCurrent
  <2> QED BY <1>1, <1>2, <1>3, <1>6, <2>2, <2>3, <2>4 DEF IInv, TypeOK
<1> QED BY <1>4, <1>5, <1>6 DEF AppendFails

LEMMA NextIInv == IInv /\ [Next]_journal => IInv'
<1> SUFFICES ASSUME IInv, [Next]_journal PROVE IInv'
  OBVIOUS
<1>1. CASE UNCHANGED journal
  BY <1>1 DEF journal, IInv, TypeOK, TailRead, PendingCurrent, AckedIn, OneWinnerIn
<1>2. ASSUME NEW c \in Clients, Operation(c) PROVE IInv'
  BY <1>2, BeginIInv, BeginRecoveryChildIInv, FinishIInv DEF Operation
<1>3. ASSUME NEW c \in Clients, Decision(c) PROVE IInv'
  BY <1>3, RecoverIInv DEF Decision
<1>4. ASSUME NEW c \in Clients, Append(c) PROVE IInv'
  BY <1>4, AppendIInv
<1>5. ASSUME NEW c \in Clients, AppendFails(c) PROVE IInv'
  BY <1>5, AppendFailsIInv
<1> QED BY <1>1, <1>2, <1>3, <1>4, <1>5 DEF Next

\* The strengthened invariant of the journal: true at first, kept by every
\* scan-and-check and by every append, whole or failed.
THEOREM Invariant == Spec => []IInv
BY InitIInv, NextIInv, PTL DEF Spec

\* The results of scan_journal and the lines built from them keep their types.
THEOREM TypeCorrect == Spec => []TypeOK
<1>1. IInv => TypeOK
  BY DEF IInv
<1> QED BY <1>1, Invariant, PTL

\* A record append_record reported as stored is in effect in every scan that
\* calls the journal healthy.
THEOREM AckedIsDurable == Spec => []AckedDurable
<1>1. IInv => AckedDurable
  BY DEF IInv, AckedDurable
<1> QED BY <1>1, Invariant, PTL

\* Of two operations that raced to one place in the chain, to one session id
\* or to the closing of one session, a healthy journal has acknowledged one.
THEOREM RacesHaveOneWinner == Spec => []OneWinner
<1>1. IInv => OneWinner
  BY DEF IInv, TailRead, OneWinner, OneWinnerIn
<1> QED BY <1>1, Invariant, PTL

\* A reserved correlation was begun by begin_recovery_child with the parent
\* and the authorization of its reservation.
THEOREM ReservationsAreProven == Spec => []StartedWithProof
<1>1. IInv => StartedWithProof
  BY DEF IInv, StartedWithProof
<1> QED BY <1>1, Invariant, PTL

\* The tables scan_journal returns agree with one another.
THEOREM TablesAreSound == Spec => []LineageSound
<1>1. IInv => LineageSound
  BY DEF IInv, LineageSound
<1> QED BY <1>1, Invariant, PTL

\* Once a scan is unhealthy, no append makes a later one healthy or changes
\* what it reads.
THEOREM FailuresAreFinal == Spec => FailureIsFinal
<1> DEFINE Frozen ==
      ~view.healthy =>
        /\ ~view'.healthy
        /\ <<view'.seen, view'.open, view'.lineages>> = <<view.seen, view.open, view.lineages>>
<1>1. IInv /\ [Next]_journal => [Frozen]_journal
  <2> SUFFICES ASSUME IInv, [Next]_journal, ~view.healthy, ~UNCHANGED journal
               PROVE  /\ ~view'.healthy
                      /\ <<view'.seen, view'.open, view'.lineages>>
                            = <<view.seen, view.open, view.lineages>>
    OBVIOUS
  <2>1. disk \in ScanStates /\ view = Spoil(disk)
    BY DEF IInv, TypeOK, TailRead
  <2>2. clean => disk = view /\ ~disk.healthy
    BY DEF IInv, TailRead
  <2>3. CASE view' = view
    BY <2>3
  <2>4. ASSUME NEW c \in Clients, Append(c) \/ AppendFails(c)
        PROVE  view' = view
    <3>1. ASSUME clean PROVE ScanLine(disk, pending[c]) = view
      BY <2>2, <3>1 DEF ScanLine
    <3> QED BY <2>1, <2>4, <3>1 DEF Append, AppendFails
  <2>5. ASSUME NEW c \in Clients, Operation(c) \/ Decision(c)
        PROVE  view' = view
    BY <2>5 DEF Operation, Begin, BeginRecoveryChild, Finish, Decision, Recover, Prepare
  <2> QED BY <2>3, <2>4, <2>5 DEF Next
<1> QED BY <1>1, Invariant, PTL DEF Spec, FailureIsFinal

-----------------------------------------------------------------------------
(* The journal implements the abstract life of the sessions.               *)

LEMMA ReservationUnique ==
    ASSUME NEW s, Sound(s), NEW l \in s.lineages
    PROVE  ReservationOf(s, l.child) = l
BY DEF Sound, ReservationOf

\* An accepted line that is no BEGIN closes its session, and a RETRY adds
\* one promise.
LEMMA CloseMaps ==
    ASSUME NEW s \in ScanStates, NEW r \in Records, Sound(s),
           ScanLine(s, r).healthy, r.kind # "BEGIN"
    PROVE  LET t == ScanLine(s, r) IN
           /\ PhaseIn(s)[r.session] = "open"
           /\ PhaseIn(t) = [PhaseIn(s) EXCEPT ![r.session] = "closed"]
           /\ t.used = s.used
           /\ StartedIn(t) = StartedIn(s)
           /\ r.kind # "RETRY" => PromiseIn(t) = PromiseIn(s)
           /\ r.kind = "RETRY" =>
                /\ r.child \notin s.used
                /\ PromiseIn(s)[r.child] = None
                /\ PromiseIn(t) = [PromiseIn(s) EXCEPT
                                     ![r.child] = [parent |-> r.session, auth |-> r.auth]]
<1> DEFINE t == ScanLine(s, r)
<1>1. t = AfterClose(s, r) /\ Accepts(s, r)
  BY HealthyLine
<1>2. /\ t.seen = s.seen
      /\ t.used = s.used
      /\ t.open = {b \in s.open : b.session # r.session}
      /\ t.lineages = s.lineages \cup (IF r.kind = "RETRY" THEN {Reservation(r)} ELSE {})
  BY <1>1, AfterCloseTyped
<1>3. Sound(t) /\ r.session \in Sessions
  BY ScanLineSound DEF Records
<1>4. (\E b \in s.open : b.session = r.session) /\ r.session \in s.seen
  BY <1>1 DEF Accepts, ClosesOpen, Sound
<1> HIDE DEF t
<1>5. PhaseIn(s)[r.session] = "open"
  BY <1>3, <1>4 DEF PhaseIn
<1>6. PhaseIn(t) = [PhaseIn(s) EXCEPT ![r.session] = "closed"]
  <2>1. ASSUME NEW x \in Sessions
        PROVE  PhaseIn(t)[x] = [PhaseIn(s) EXCEPT ![r.session] = "closed"][x]
    <3>1. CASE x = r.session
      BY <1>2, <1>4, <3>1 DEF PhaseIn
    <3>2. CASE x # r.session
      <4>1. (\E b \in t.open : b.session = x) <=> (\E b \in s.open : b.session = x)
        BY <1>2, <3>2
      <4> QED BY <1>2, <3>2, <4>1 DEF PhaseIn
    <3> QED BY <3>1, <3>2
  <2> QED BY <2>1 DEF PhaseIn
<1>7. CASE r.kind # "RETRY"
  <2>1. t.lineages = s.lineages
    BY <1>2, <1>7
  <2>2. StartedIn(t) = StartedIn(s) /\ PromiseIn(t) = PromiseIn(s)
    BY <2>1 DEF StartedIn, PromiseIn, ReservationOf
  <2> QED BY <1>2, <1>5, <1>6, <1>7, <2>2 DEF t
<1>8. CASE r.kind = "RETRY"
  <2>1. t.lineages = s.lineages \cup {Reservation(r)}
    BY <1>2, <1>8
  <2>2. /\ r.child \notin s.used /\ \A l \in s.lineages : l.child # r.child
        /\ r.child \in Correlations
    BY <1>1, <1>8 DEF Accepts, FreshChild, Records
  <2>3. /\ Reservation(r).parent = r.session /\ Reservation(r).auth = r.auth
        /\ Reservation(r).child = r.child /\ Reservation(r).childSession = None
    BY <1>8, ReservationTyped
  <2>4. ReservationOf(t, r.child) = Reservation(r)
    BY <1>3, <2>1, <2>3, ReservationUnique
  <2>5. ASSUME NEW k \in Correlations, k # r.child
        PROVE  /\ (\E l \in t.lineages : l.child = k) <=> (\E l \in s.lineages : l.child = k)
               /\ (\E l \in s.lineages : l.child = k) =>
                        ReservationOf(t, k) = ReservationOf(s, k)
    <3>1. ASSUME NEW l \in s.lineages, l.child = k
          PROVE  ReservationOf(t, k) = ReservationOf(s, k)
      BY <1>3, <2>1, <3>1, ReservationUnique
    <3> QED BY <2>1, <2>3, <2>5, <3>1
  <2>6. StartedIn(t) = StartedIn(s)
    <3>1. ASSUME NEW k \in Correlations PROVE StartedIn(t)[k] = StartedIn(s)[k]
      <4>1. CASE k = r.child
        BY <2>1, <2>2, <2>3, <2>4, <4>1 DEF StartedIn
      <4>2. CASE k # r.child
        BY <2>5, <4>2 DEF StartedIn
      <4> QED BY <4>1, <4>2
    <3> QED BY <3>1 DEF StartedIn
  <2>7. PromiseIn(s)[r.child] = None
    BY <2>2 DEF PromiseIn
  <2>8. PromiseIn(t) = [PromiseIn(s) EXCEPT
                          ![r.child] = [parent |-> r.session, auth |-> r.auth]]
    <3> DEFINE P == [PromiseIn(s) EXCEPT ![r.child] = [parent |-> r.session, auth |-> r.auth]]
    <3>1. ASSUME NEW k \in Correlations PROVE PromiseIn(t)[k] = P[k]
      <4>1. CASE k = r.child
        BY <2>1, <2>2, <2>3, <2>4, <4>1 DEF PromiseIn
      <4>2. CASE k # r.child
        BY <2>5, <4>2 DEF PromiseIn
      <4> QED BY <4>1, <4>2
    <3> QED BY <3>1 DEF PromiseIn
  <2> QED BY <1>2, <1>5, <1>6, <1>8, <2>2, <2>6, <2>7, <2>8 DEF t
<1> QED BY <1>7, <1>8

\* An accepted BEGIN opens its session, and keeps the promise of its
\* correlation, if one is waiting.
LEMMA BeginMaps ==
    ASSUME NEW s \in ScanStates, NEW r \in Records, Sound(s),
           ScanLine(s, r).healthy, r.kind = "BEGIN"
    PROVE  LET t == ScanLine(s, r) IN
           /\ PhaseIn(s)[r.session] = "absent"
           /\ PhaseIn(t) = [PhaseIn(s) EXCEPT ![r.session] = "open"]
           /\ t.used = s.used \cup {r.corr}
           /\ PromiseIn(t) = PromiseIn(s)
           /\ (\A l \in s.lineages : ~Waiting(l, r.corr)) =>
                /\ StartedIn(t) = StartedIn(s)
                /\ PromiseIn(s)[r.corr] # None => StartedIn(s)[r.corr] # None
           /\ \A l \in s.lineages : Waiting(l, r.corr) =>
                /\ PromiseIn(s)[r.corr] = [parent |-> l.parent, auth |-> l.auth]
                /\ StartedIn(s)[r.corr] = None
                /\ StartedIn(t) = [StartedIn(s) EXCEPT ![r.corr] = r.session]
<1> DEFINE t == ScanLine(s, r)
<1>1. t = AfterBegin(s, r) /\ r.session \notin s.seen
  BY HealthyLine DEF Accepts
<1>2. /\ t.seen = s.seen \cup {r.session}
      /\ t.used = s.used \cup {r.corr}
      /\ t.open = s.open \cup {[session |-> r.session, corr |-> r.corr,
                                request |-> r.request, seq |-> r.seq]}
      /\ t.lineages = {TakenBy(l, r) : l \in s.lineages}
  BY <1>1, AfterBeginTyped
<1>3. /\ Sound(t) /\ r.session \in Sessions /\ r.corr \in Correlations
      /\ s.lineages \subseteq Lineages
  BY ScanLineSound DEF Records, ScanStates
<1> HIDE DEF t
<1>4. PhaseIn(s)[r.session] = "absent"
  BY <1>1, <1>3 DEF PhaseIn
<1>5. PhaseIn(t) = [PhaseIn(s) EXCEPT ![r.session] = "open"]
  <2>1. ASSUME NEW x \in Sessions
        PROVE  PhaseIn(t)[x] = [PhaseIn(s) EXCEPT ![r.session] = "open"][x]
    <3>1. CASE x = r.session
      <4>1. \E b \in t.open : b.session = x
        <5> DEFINE n == [session |-> r.session, corr |-> r.corr,
                         request |-> r.request, seq |-> r.seq]
        <5>1. n \in t.open
          BY <1>2
        <5>2. n.session = x
          BY <3>1
        <5> QED BY <5>1, <5>2
      <4> QED BY <1>2, <3>1, <4>1 DEF PhaseIn
    <3>2. CASE x # r.session
      <4>1. (\E b \in t.open : b.session = x) <=> (\E b \in s.open : b.session = x)
        BY <1>2, <3>2
      <4> QED BY <1>2, <3>2, <4>1 DEF PhaseIn
    <3> QED BY <3>1, <3>2
  <2> QED BY <2>1 DEF PhaseIn
<1>6. ASSUME NEW l \in s.lineages
      PROVE  /\ TakenBy(l, r) \in t.lineages
             /\ TakenBy(l, r).child = l.child
             /\ TakenBy(l, r).parent = l.parent
             /\ TakenBy(l, r).auth = l.auth
             /\ ReservationOf(s, l.child) = l
             /\ ReservationOf(t, l.child) = TakenBy(l, r)
             /\ TakenBy(l, r).childSession =
                    IF Waiting(l, r.corr) THEN r.session ELSE l.childSession
  <2>1. l \in Lineages
    BY <1>3
  <2>2. /\ TakenBy(l, r) \in t.lineages
        /\ TakenBy(l, r).child = l.child
        /\ TakenBy(l, r).parent = l.parent
        /\ TakenBy(l, r).auth = l.auth
    BY <1>2, <2>1, TakenByTyped
  <2>3. TakenBy(l, r).childSession =
            IF Waiting(l, r.corr) THEN r.session ELSE l.childSession
    BY <2>1, TakenByTyped
  <2> QED BY <1>3, <2>2, <2>3, ReservationUnique
<1>7. \A k \in Correlations :
        (\E l \in t.lineages : l.child = k) <=> (\E l \in s.lineages : l.child = k)
  BY <1>2, <1>6
<1>8. PromiseIn(t) = PromiseIn(s)
  <2>1. ASSUME NEW k \in Correlations PROVE PromiseIn(t)[k] = PromiseIn(s)[k]
    <3>1. CASE \E l \in s.lineages : l.child = k
      <4>1. PICK l \in s.lineages : l.child = k
        BY <3>1
      <4>2. /\ ReservationOf(s, k) = l /\ ReservationOf(t, k) = TakenBy(l, r)
            /\ TakenBy(l, r).parent = l.parent /\ TakenBy(l, r).auth = l.auth
        BY <1>6, <4>1
      <4> QED BY <1>7, <3>1, <4>2 DEF PromiseIn
    <3>2. CASE ~\E l \in s.lineages : l.child = k
      BY <1>7, <3>2 DEF PromiseIn
    <3> QED BY <3>1, <3>2
  <2> QED BY <2>1 DEF PromiseIn
<1>9. ASSUME NEW k \in Correlations, NEW l \in s.lineages, l.child = k
      PROVE  /\ PromiseIn(s)[k] = [parent |-> l.parent, auth |-> l.auth]
             /\ StartedIn(s)[k] = l.childSession
             /\ StartedIn(t)[k] = TakenBy(l, r).childSession
  BY <1>6, <1>7, <1>9 DEF PromiseIn, StartedIn
<1>10. ASSUME NEW k \in Correlations, ~\E l \in s.lineages : l.child = k
       PROVE  PromiseIn(s)[k] = None /\ StartedIn(s)[k] = None /\ StartedIn(t)[k] = None
  BY <1>7, <1>10 DEF PromiseIn, StartedIn
<1>11. ASSUME \A l \in s.lineages : ~Waiting(l, r.corr)
       PROVE  /\ StartedIn(t) = StartedIn(s)
              /\ PromiseIn(s)[r.corr] # None => StartedIn(s)[r.corr] # None
  <2>1. ASSUME NEW k \in Correlations PROVE StartedIn(t)[k] = StartedIn(s)[k]
    <3>1. ASSUME NEW l \in s.lineages, l.child = k
          PROVE  StartedIn(t)[k] = StartedIn(s)[k]
      BY <1>6, <1>9, <1>11, <3>1
    <3> QED BY <1>10, <3>1
  <2>2. StartedIn(t) = StartedIn(s)
    BY <2>1 DEF StartedIn
  <2>3. PromiseIn(s)[r.corr] # None => StartedIn(s)[r.corr] # None
    <3>1. ASSUME NEW l \in s.lineages, l.child = r.corr
          PROVE  StartedIn(s)[r.corr] # None
      <4>1. l.childSession # None
        BY <1>11, <3>1 DEF Waiting
      <4> QED BY <1>3, <1>9, <3>1, <4>1
    <3> QED BY <1>3, <1>10, <3>1
  <2> QED BY <2>2, <2>3
<1>12. ASSUME NEW l \in s.lineages, Waiting(l, r.corr)
       PROVE  /\ PromiseIn(s)[r.corr] = [parent |-> l.parent, auth |-> l.auth]
              /\ StartedIn(s)[r.corr] = None
              /\ StartedIn(t) = [StartedIn(s) EXCEPT ![r.corr] = r.session]
  <2>1. l.child = r.corr /\ l.childSession = None
    BY <1>12 DEF Waiting
  <2>2. ASSUME NEW k \in Correlations
        PROVE  StartedIn(t)[k] = [StartedIn(s) EXCEPT ![r.corr] = r.session][k]
    <3>1. CASE k = r.corr
      BY <1>3, <1>6, <1>9, <1>12, <2>1, <3>1 DEF StartedIn
    <3>2. CASE k # r.corr
      <4>1. StartedIn(t)[k] = StartedIn(s)[k]
        BY <1>6, <1>9, <1>10, <3>2 DEF Waiting
      <4> QED BY <3>2, <4>1 DEF StartedIn
    <3> QED BY <3>1, <3>2
  <2>3. StartedIn(t) = [StartedIn(s) EXCEPT ![r.corr] = r.session]
    BY <2>2 DEF StartedIn
  <2> QED BY <1>3, <1>9, <2>1, <2>3
<1> QED BY <1>2, <1>4, <1>5, <1>8, <1>11, <1>12 DEF t

LEMMA SpoilMaps ==
    ASSUME NEW s \in ScanStates
    PROVE  /\ PhaseIn(Spoil(s)) = PhaseIn(s)
           /\ PromiseIn(Spoil(s)) = PromiseIn(s)
           /\ StartedIn(Spoil(s)) = StartedIn(s)
BY SpoilTyped DEF PhaseIn, PromiseIn, StartedIn, ReservationOf

\* Every step of the journal is a step of the abstract life, or none.
THEOREM Refinement == Spec => ImplementsLifecycle
<1>1. Init => Lifecycle!Init
  BY DEF Init, EmptyScan, Lifecycle!Init, PhaseIn, PromiseIn, StartedIn
<1>2. IInv /\ [Next]_journal => [Lifecycle!Next]_(Lifecycle!lifecycle)
  <2> SUFFICES ASSUME IInv, [Next]_journal
               PROVE  Lifecycle!Next \/ UNCHANGED Lifecycle!lifecycle
    OBVIOUS
  <2>0. disk \in ScanStates /\ Sound(disk)
    BY DEF IInv, TypeOK
  <2>1. CASE disk' = disk
    BY <2>1 DEF Lifecycle!lifecycle
  <2>2. CASE disk.healthy /\ disk' = Spoil(disk)
    BY <2>0, <2>2, SpoilMaps, SpoilTyped DEF Lifecycle!Next, Lifecycle!Freeze
  <2>3. ASSUME NEW r \in Records, disk' = ScanLine(disk, r), disk'.healthy, r.kind = "BEGIN",
               CheckedOn(disk, r)
        PROVE  Lifecycle!Next
    <3>1. disk.healthy /\ r.session \in Sessions /\ r.corr \in Correlations
      BY <2>0, <2>3, HealthyLine DEF Records
    <3>2. CASE \A l \in disk.lineages : ~Waiting(l, r.corr)
      <4>1. Lifecycle!Start(r.session, r.corr)
        BY <2>0, <2>3, <3>1, <3>2, BeginMaps DEF Lifecycle!Start
      <4> QED BY <3>1, <4>1 DEF Lifecycle!Next
    <3>3. CASE \E l \in disk.lineages : Waiting(l, r.corr)
      <4>1. PICK l \in disk.lineages :
              Waiting(l, r.corr) /\ l.parent = r.parent /\ l.auth = r.auth
        BY <2>3, <3>3 DEF CheckedOn
      <4>2. l.parent \in Sessions /\ l.auth \in Auths
        BY <2>0 DEF ScanStates, Lineages
      <4>3. Lifecycle!StartChild(r.session, r.corr, l.parent, l.auth)
        BY <2>0, <2>3, <3>1, <4>1, BeginMaps DEF Lifecycle!StartChild
      <4> QED BY <3>1, <4>2, <4>3 DEF Lifecycle!Next
    <3> QED BY <3>2, <3>3
  <2>4. ASSUME NEW r \in Records, disk' = ScanLine(disk, r), disk'.healthy, r.kind # "BEGIN"
        PROVE  Lifecycle!Next
    <3>1. disk.healthy /\ r.session \in Sessions
      BY <2>0, <2>4, HealthyLine DEF Records
    <3>2. CASE r.kind # "RETRY"
      <4>1. Lifecycle!Close(r.session)
        BY <2>0, <2>4, <3>1, <3>2, CloseMaps DEF Lifecycle!Close
      <4> QED BY <3>1, <4>1 DEF Lifecycle!Next
    <3>3. CASE r.kind = "RETRY"
      <4>1. r.child \in Correlations /\ r.auth \in Auths
        BY <3>3 DEF Records
      <4>2. Lifecycle!Retry(r.session, r.child, r.auth)
        BY <2>0, <2>4, <3>1, <3>3, CloseMaps DEF Lifecycle!Retry
      <4> QED BY <3>1, <4>1, <4>2 DEF Lifecycle!Next
    <3> QED BY <3>2, <3>3
  <2>5. ASSUME NEW c \in Clients, Append(c)
        PROVE  Lifecycle!Next \/ UNCHANGED Lifecycle!lifecycle
    <3>1. pending[c] \in Records /\ pending[c] # None
      BY <2>5 DEF Append, IInv, TypeOK
    <3>2. CASE ~clean
      <4>1. disk' = Spoil(disk)
        BY <2>5, <3>2 DEF Append
      <4> QED BY <2>0, <2>1, <2>2, <4>1 DEF Spoil, ScanStates
    <3>3. CASE clean
      <4>1. disk' = ScanLine(disk, pending[c])
        BY <2>5, <3>3 DEF Append
      <4>2. CASE ~disk'.healthy
        <5>1. disk' = Spoil(disk)
          BY <2>0, <3>1, <4>1, <4>2, UnhealthyLine
        <5> QED BY <2>0, <2>1, <2>2, <5>1 DEF Spoil, ScanStates
      <4>3. CASE disk'.healthy
        <5>1. disk.healthy /\ pending[c].seq = disk.next
          BY <2>0, <3>1, <4>1, <4>3, HealthyLine DEF Accepts
        <5>2. CheckedOn(disk, pending[c])
          BY <3>1, <3>3, <5>1 DEF IInv, PendingCurrent
        <5> QED BY <2>3, <2>4, <3>1, <4>1, <4>3, <5>2
      <4> QED BY <4>2, <4>3
    <3> QED BY <3>2, <3>3 DEF IInv, TypeOK
  <2>6. ASSUME NEW c \in Clients, Operation(c) \/ Decision(c) \/ AppendFails(c)
        PROVE  disk' = disk
    BY <2>6 DEF Operation, Begin, BeginRecoveryChild, Finish, Decision, Recover, Prepare,
                AppendFails
  <2> QED BY <2>1, <2>5, <2>6 DEF Next, journal
<1> QED BY <1>1, <1>2, Invariant, PTL DEF Spec, ImplementsLifecycle, Lifecycle!Spec

-----------------------------------------------------------------------------
(* Part 2: the execution sessions and the recovery protocol.               *)

-----------------------------------------------------------------------------
(* The invariant.                                                           *)

Running == {"route", "executed", "finish", "terminal"}

Deciding == {"decided", "recover"}

\* The place a process is in and the line it has prepared belong together.
Fitting(j, l) ==
    /\ j.step \in Running \cup {"begin"} => j.session \in Sessions
    /\ j.step \in {"executed", "finish", "terminal"} => j.status \in Statuses
    /\ j.step \in Deciding => j.decision \in Decisions
    /\ l # None <=> j.step \in {"begin", "terminal", "recover"}
    /\ j.step = "begin" => l.kind = "BEGIN" /\ l.session = j.session
    /\ j.step = "terminal" => l.kind = TerminalKind(j.status) /\ l.session = j.session
    /\ j.step = "recover" => l.kind = j.decision.kind /\ l.auth = j.decision.auth

JobInv == \A c \in Clients : Fitting(job[c], pending[c])

TypedInv == IInv /\ ExecutionTypeOK /\ spent \subseteq Auths /\ JobInv

\* The file.

\* An undisturbed file: what is on it was acknowledged; a pending line is the
\* only one and fits.
Quietly ==
    /\ disk.healthy
    /\ view.healthy => clean
    /\ \A c \in Clients :
        pending[c] # None =>
            /\ clean /\ Accepts(disk, pending[c])
            /\ \A d \in Clients : pending[d] # None => d = c

WasBegun(s) == \E r \in acked : r.kind = "BEGIN" /\ r.session = s

WasDecided(s) == \E r \in DecisionsMade : r.session = s

\* A line nobody overlapped with is the only one, and the first of its kind,
\* even if the tail it was checked against is lost when it is appended.
IsFirst(c) ==
    LET l == pending[c] IN
    l # None =>
        /\ \A d \in Clients : pending[d] # None => d = c
        /\ l.kind = "BEGIN" => ~WasBegun(l.session)
        /\ l.kind \in {"DISMISS", "RETRY"} => ~WasDecided(l.session)

\* Every session the scan shows closed was closed by one of the lines.
ClosedBy(s, lines) ==
    \A x \in s.seen : OpenIn(s, x) \/ \E r \in lines : r.kind # "BEGIN" /\ r.session = x

\* Nobody has retried a session whose COMMIT counts.
CommitsStand(s) ==
    s.healthy =>
        \A r \in acked, l \in s.lineages : r.kind = "COMMIT" => l.parent # r.session

FileInv ==
    /\ ~overlapped => \A c \in Clients : IsFirst(c)
    /\ Undisturbed => Quietly
    /\ ClosedBy(disk, acked) /\ ClosedBy(view, acked \cup left)
    /\ CommitsStand(disk) /\ CommitsStand(view)

\* The work.

\* A run that is to end COMPLETED has been executed, and has its episode.
Earning(c) ==
    LET j == job[c] IN
    /\ j.step \in {"executed", "finish", "terminal"} /\ j.status = "COMPLETED" =>
        effects[j.session] >= 1
    /\ j.step \in {"finish", "terminal"} /\ j.status = "COMPLETED" => j.session \in dojo

EarnInv ==
    /\ \A c \in Clients : Earning(c)
    /\ \A r \in acked \cup left :
        r.kind = "COMMIT" => r.session \in dojo /\ effects[r.session] >= 1
    /\ \A s \in Sessions :
        "COMPLETED" \in returned[s] =>
            s \in dojo /\ \E r \in acked : r.kind = "COMMIT" /\ r.session = s

\* Process c holds the receipt of the decision it is in.
HoldsReceipt(c) ==
    LET a == job[c].decision.auth IN
    job[c].step \in Deciding =>
        /\ a \in spent
        /\ \A r \in DecisionsMade : r.auth # a
        /\ \A d \in Clients : job[d].step \in Deciding /\ job[d].decision.auth = a => d = c

ReceiptInv ==
    /\ \A c \in Clients : HoldsReceipt(c)
    /\ \A r \in acked \cup left : r.kind \in {"DISMISS", "RETRY"} => r.auth \in spent
    /\ \A d1, d2 \in DecisionsMade : d1.auth = d2.auth => d1 = d2

\* Process c runs a session alone.
Owns(c) ==
    LET j == job[c] IN
    /\ j.step \in Running =>
        \A d \in Clients : job[d].step \in Running /\ job[d].session = j.session => d = c
    /\ j.step = "route" => effects[j.session] = 0

\* Unless two operations overlapped and the journal is damaged.
Alone == overlapped => disk.healthy

OnceInv ==
    /\ \A c \in Clients : job[c].step \in Running => WasBegun(job[c].session)
    /\ \A s \in Sessions : effects[s] > 0 => WasBegun(s)
    /\ Alone =>
        /\ \A c \in Clients : Owns(c)
        /\ \A s \in Sessions : effects[s] <= 1
        /\ \A d1, d2 \in DecisionsMade : d1.session = d2.session => d1 = d2

RInv == TypedInv /\ FileInv /\ EarnInv /\ ReceiptInv /\ OnceInv

-----------------------------------------------------------------------------
(* The journal.                                                             *)

LEMMA ContractTyped ==
    ASSUME NEW s \in Sessions
    PROVE  /\ CorrelationOf[s] \in Correlations /\ RequestOf[s] \in Requests
           /\ Contract(s) = [session |-> s, corr |-> CorrelationOf[s], request |-> RequestOf[s]]
BY SessionAssumption DEF Contract

\* The lines the operations prepare.
LEMMA BeginLineTyped ==
    ASSUME IInv, NEW s \in Sessions, NEW p \in Sessions \cup {None}, NEW a \in Auths \cup {None}
    PROVE  LET r == BeginLine(Contract(s), p, a) IN
           /\ r \in Records /\ r.kind = "BEGIN" /\ r.session = s /\ r.seq = view.next
BY ContractTyped DEF IInv, TypeOK, ScanStates, BeginLine, Records, Kinds

LEMMA CloseLineTyped ==
    ASSUME IInv, NEW b, b.session \in Sessions, b.corr \in Correlations, b.request \in Requests,
           NEW kind \in Kinds \ {"BEGIN"}, NEW a \in Auths \cup {None},
           NEW k \in Correlations \cup {None},
           kind = "RETRY" => a \in Auths /\ k \in Correlations
    PROVE  LET r == CloseLine(kind, b, a, k) IN
           /\ r \in Records /\ r.kind = kind /\ r.session = b.session /\ r.seq = view.next
           /\ r.corr = b.corr /\ r.request = b.request /\ r.auth = a /\ r.child = k
BY DEF IInv, TypeOK, ScanStates, CloseLine, Records, Kinds

-----------------------------------------------------------------------------
(* The processes.                                                           *)

LEMMA JobSet ==
    ASSUME job \in [Clients -> Jobs], NEW c \in Clients, NEW j \in Jobs,
           job' = [job EXCEPT ![c] = j]
    PROVE  /\ job' \in [Clients -> Jobs] /\ job'[c] = j
           /\ \A d \in Clients : d # c => job'[d] = job[d]
OBVIOUS

LEMMA IdleTyped ==
    /\ Idle \in Jobs /\ Idle.step = "idle"
    /\ "idle" \notin Running /\ "idle" \notin Deciding
BY DEF Idle, Jobs, Steps, Running, Deciding

LEMMA GotoSets ==
    ASSUME job \in [Clients -> Jobs], NEW c \in Clients, NEW step \in Steps, Goto(c, step)
    PROVE  /\ job' \in [Clients -> Jobs]
           /\ job'[c].step = step /\ job'[c].session = job[c].session
           /\ job'[c].status = job[c].status /\ job'[c].decision = job[c].decision
           /\ \A d \in Clients : d # c => job'[d] = job[d]
<1>. DEFINE j == [job[c] EXCEPT !.step = step]
<1>1. /\ j \in Jobs /\ j.step = step /\ j.session = job[c].session
      /\ j.status = job[c].status /\ j.decision = job[c].decision
  BY DEF Jobs
<1>2. job' = [job EXCEPT ![c] = j]
  BY DEF Goto
<1>. HIDE DEF j
<1>. QED
  BY <1>1, <1>2

LEMMA StatusSets ==
    ASSUME job \in [Clients -> Jobs], NEW c \in Clients, NEW step \in Steps,
           NEW status \in Statuses,
           job' = [job EXCEPT ![c].step = step, ![c].status = status]
    PROVE  /\ job' \in [Clients -> Jobs]
           /\ job'[c].step = step /\ job'[c].session = job[c].session
           /\ job'[c].status = status /\ job'[c].decision = job[c].decision
           /\ \A d \in Clients : d # c => job'[d] = job[d]
<1>. DEFINE j == [job[c] EXCEPT !.step = step, !.status = status]
<1>1. /\ j \in Jobs /\ j.step = step /\ j.session = job[c].session
      /\ j.status = status /\ j.decision = job[c].decision
  BY DEF Jobs
<1>2. job' = [job EXCEPT ![c] = j]
  OBVIOUS
<1>. HIDE DEF j
<1>. QED
  BY <1>1, <1>2

LEMMA TypedFacts ==
    ASSUME TypedInv, NEW c \in Clients
    PROVE  /\ job \in [Clients -> Jobs] /\ job[c] \in Jobs
           /\ pending \in [Clients -> Records \cup {None}]
           /\ Fitting(job[c], pending[c])
           /\ effects \in [Sessions -> Nat] /\ returned \in [Sessions -> SUBSET Statuses]
           /\ dojo \subseteq Sessions /\ spent \subseteq Auths
           /\ disk \in ScanStates /\ view \in ScanStates /\ acked \subseteq Records
BY DEF TypedInv, IInv, ExecutionTypeOK, TypeOK, JobInv

\* What the journal's actions do to the lines that are pending.
LEMMA PendingMoves ==
    ASSUME TypedInv, NEW c \in Clients
    PROVE  /\ \A r \in Records : Prepare(c, r) =>
                /\ pending[c] = None /\ pending'[c] = r
                /\ \A d \in Clients : d # c => pending'[d] = pending[d]
           /\ Append(c) \/ AppendFails(c) =>
                /\ pending[c] # None /\ pending'[c] = None
                /\ \A d \in Clients : d # c => pending'[d] = pending[d]
BY TypedFacts DEF Prepare, Enter, Append, AppendFails

LEMMA Words ==
    /\ \A x : x \in Running <=> x = "route" \/ x = "executed" \/ x = "finish" \/ x = "terminal"
    /\ \A x : x \in Deciding <=> x = "decided" \/ x = "recover"
    /\ \A x : x \in Steps <=> \/ x \in Running \/ x \in Deciding
                              \/ x = "idle" \/ x = "begin"
    /\ \A x : x \in Statuses <=>
            \/ x = "COMPLETED" \/ x = "REJECTED" \/ x = "VERIFICATION_FAILED"
            \/ x = "DOJO_STORE_FAILED" \/ x = "JOURNAL_STORE_FAILED"
BY DEF Running, Deciding, Steps, Statuses

\* A run that fails before its terminal line.
LEMMA FailureSets ==
    ASSUME job \in [Clients -> Jobs], NEW c \in Clients, NEW status \in Statuses,
           job' = [job EXCEPT ![c].step = "finish", ![c].status = status]
    PROVE  /\ job' \in [Clients -> Jobs] /\ job'[c].step = "finish"
           /\ job'[c].session = job[c].session /\ job'[c].status = status
           /\ \A d \in Clients : d # c => job'[d] = job[d]
<1>. DEFINE j == [job[c] EXCEPT !.step = "finish", !.status = status]
<1>1. /\ j \in Jobs /\ j.step = "finish" /\ j.session = job[c].session
      /\ j.status = status
  BY DEF Jobs, Steps
<1>2. job' = [job EXCEPT ![c] = j]
  OBVIOUS
<1>. HIDE DEF j
<1>. QED
  BY <1>1, <1>2

LEMMA RejectSets ==
    ASSUME job \in [Clients -> Jobs], NEW c \in Clients, Reject(c)
    PROVE  /\ job' \in [Clients -> Jobs] /\ job'[c].step = "finish"
           /\ job'[c].session = job[c].session /\ job'[c].status = "REJECTED"
           /\ \A d \in Clients : d # c => job'[d] = job[d]
<1>1. PICK status \in Statuses : status = "REJECTED"
  BY Words
<1>2. job' = [job EXCEPT ![c].step = "finish", ![c].status = status]
  BY <1>1 DEF Reject
<1>. QED
  BY <1>1, <1>2, FailureSets

LEMMA EpisodeFailsSets ==
    ASSUME job \in [Clients -> Jobs], NEW c \in Clients, EpisodeFails(c)
    PROVE  /\ job' \in [Clients -> Jobs] /\ job'[c].step = "finish"
           /\ job'[c].session = job[c].session /\ job'[c].status = "DOJO_STORE_FAILED"
           /\ \A d \in Clients : d # c => job'[d] = job[d]
<1>1. PICK status \in Statuses : status = "DOJO_STORE_FAILED"
  BY Words
<1>2. job' = [job EXCEPT ![c].step = "finish", ![c].status = status]
  BY <1>1 DEF EpisodeFails
<1>. QED
  BY <1>1, <1>2, FailureSets

\* One process has moved; the journal, and what it adds, is typed already.
LEMMA Moved ==
    ASSUME TypedInv, IInv', TypeOK', NEW c \in Clients,
           job' \in [Clients -> Jobs],
           \A d \in Clients : d # c => job'[d] = job[d] /\ pending'[d] = pending[d],
           Fitting(job'[c], pending'[c]),
           dojo' \subseteq Sessions, spent' \subseteq Auths,
           effects' \in [Sessions -> Nat], returned' \in [Sessions -> SUBSET Statuses]
    PROVE  TypedInv'
<1>1. JobInv'
  BY DEF TypedInv, JobInv
<1>. QED
  BY <1>1 DEF TypedInv, ExecutionTypeOK

LEMMA ReturnSets ==
    ASSUME TypedInv, NEW c \in Clients, NEW status \in Statuses, job[c].session \in Sessions,
           Return(c, status)
    PROVE  /\ job' \in [Clients -> Jobs] /\ job'[c] = Idle
           /\ \A d \in Clients : d # c => job'[d] = job[d]
           /\ returned' \in [Sessions -> SUBSET Statuses]
           /\ returned'[job[c].session] = returned[job[c].session] \cup {status}
           /\ \A s \in Sessions : s # job[c].session => returned'[s] = returned[s]
<1>1. job' = [job EXCEPT ![c] = Idle]
  BY DEF Return
<1>2. returned' = [returned EXCEPT ![job[c].session] = @ \cup {status}]
  BY DEF Return
<1>3. job' \in [Clients -> Jobs] /\ job'[c] = Idle
      /\ \A d \in Clients : d # c => job'[d] = job[d]
  BY <1>1, TypedFacts, IdleTyped, JobSet
<1>. QED
  BY <1>2, <1>3, TypedFacts

LEMMA StartSets ==
    ASSUME TypedInv, NEW c \in Clients, NEW s \in Sessions, StartRun(c, s)
    PROVE  /\ job' \in [Clients -> Jobs] /\ job'[c].step = "begin" /\ job'[c].session = s
           /\ \A d \in Clients : d # c => job'[d] = job[d]
           /\ UNCHANGED <<dojo, effects, returned>>
<1>. DEFINE j == [Idle EXCEPT !.step = "begin", !.session = s]
<1>1. j \in Jobs /\ j.step = "begin" /\ j.session = s
  BY DEF Idle, Jobs, Steps
<1>2. job' = [job EXCEPT ![c] = j] /\ UNCHANGED <<dojo, effects, returned>>
  BY DEF StartRun
<1>. HIDE DEF j
<1>. QED
  BY <1>1, <1>2, TypedFacts

LEMMA IdleFits == Fitting(Idle, None)
BY IdleTyped, Words DEF Fitting

-----------------------------------------------------------------------------
(* Every step is one of the journal's, and keeps the types and the places.  *)

\* A decision that may be taken is one of the journal's decisions.
LEMMA RecoverIsDecision ==
    ASSUME TypedInv, NEW c \in Clients, NEW d \in Decisions,
           Recover(c, d.parent, d.kind, d.auth, d.child)
    PROVE  Decision(c)
<1>1. d.parent \in view.open /\ d.auth \in Auths /\ d.child \in Correlations
      /\ d.kind \in {"DISMISS", "RETRY"}
  BY DEF Recover, MayRecover, Decisions
<1>. QED
  BY <1>1 DEF Decision

LEMMA SubmitIsOperation ==
    ASSUME NEW c \in Clients, NEW s \in Sessions
    PROVE  /\ Begin(c, Contract(s)) => Operation(c)
           /\ \A p \in Sessions, a \in Auths :
                BeginRecoveryChild(c, Contract(s), p, a) => Operation(c)
           /\ \A kind \in {"COMMIT", "ABORT"} :
                Finish(c, Contract(s), kind) => Operation(c)
BY ContractTyped DEF Operation

LEMMA JournalNext ==
    ASSUME TypedInv, NEW c \in Clients,
           \/ UNCHANGED journal \/ Operation(c) \/ Decision(c) \/ Append(c) \/ AppendFails(c)
    PROVE  IInv' /\ TypeOK'
<1>1. [Next]_journal
  BY DEF Next
<1>2. IInv'
  BY <1>1, NextIInv DEF TypedInv
<1>. QED
  BY <1>2 DEF IInv

LEMMA SubmitTyped ==
    ASSUME TypedInv, NEW c \in Clients, NEW s \in Sessions, UNCHANGED spent,
           Submit(c, s) \/ \E p \in Sessions, a \in Auths : SubmitChild(c, s, p, a)
    PROVE  /\ TypedInv'
           /\ \E r \in Records :
                /\ Prepare(c, r) /\ view.healthy /\ Accepts(view, r)
           /\ job'[c].step = "begin" /\ \A d \in Clients : d # c => job'[d] = job[d]
           /\ UNCHANGED <<dojo, effects, returned, spent, disk, acked>>
<1>1. StartRun(c, s)
  BY DEF Submit, SubmitChild
<1>2. IInv' /\ TypeOK'
  BY SubmitIsOperation, JournalNext DEF Submit, SubmitChild
<1>3. PICK r \in Records : /\ Prepare(c, r) /\ view.healthy /\ Accepts(view, r)
                           /\ r.kind = "BEGIN" /\ r.session = s
  <2>1. CASE Submit(c, s)
    <3>. DEFINE r == BeginLine(Contract(s), None, None)
    <3>1. r \in Records /\ r.kind = "BEGIN" /\ r.session = s /\ r.seq = view.next
      BY BeginLineTyped DEF TypedInv
    <3>2. Prepare(c, r) /\ view.healthy /\ s \notin view.seen
      BY <2>1, ContractTyped DEF Submit, Begin, MayBegin
    <3>. QED
      BY <3>1, <3>2 DEF Accepts
  <2>2. CASE \E p \in Sessions, a \in Auths : SubmitChild(c, s, p, a)
    <3>1. PICK p \in Sessions, a \in Auths : SubmitChild(c, s, p, a)
      BY <2>2
    <3>. DEFINE r == BeginLine(Contract(s), p, a)
    <3>2. r \in Records /\ r.kind = "BEGIN" /\ r.session = s /\ r.seq = view.next
      BY BeginLineTyped DEF TypedInv
    <3>3. Prepare(c, r) /\ view.healthy /\ s \notin view.seen
      BY <3>1, ContractTyped DEF SubmitChild, BeginRecoveryChild, MayBeginChild
    <3>. QED
      BY <3>2, <3>3 DEF Accepts
  <2>. QED
    BY <2>1, <2>2
<1>4. /\ pending'[c] = r /\ r # None
      /\ \A d \in Clients : d # c => pending'[d] = pending[d]
  BY <1>3, PendingMoves, JournalAssumption
<1>5. Fitting(job'[c], pending'[c])
  BY <1>1, <1>3, <1>4, StartSets, Words DEF Fitting
<1>6. UNCHANGED <<disk, acked>>
  BY <1>3 DEF Prepare
<1>7. TypedInv'
  BY <1>1, <1>2, <1>4, <1>5, StartSets, Moved, TypedFacts
<1>. QED
  BY <1>1, <1>3, <1>6, <1>7, StartSets

\* A step that ends with Return, after or instead of an append.
LEMMA ReturnTyped ==
    ASSUME TypedInv, NEW c \in Clients, NEW status \in Statuses, job[c].session \in Sessions,
           Return(c, status), UNCHANGED <<dojo, effects, spent>>,
           \/ UNCHANGED journal /\ pending[c] = None
           \/ Append(c) \/ AppendFails(c)
    PROVE  TypedInv'
<1>1. IInv' /\ TypeOK'
  BY JournalNext
<1>2. pending'[c] = None /\ \A d \in Clients : d # c => pending'[d] = pending[d]
  BY PendingMoves DEF journal
<1>3. Fitting(job'[c], pending'[c])
  BY <1>2, ReturnSets, IdleFits
<1>. QED
  BY <1>1, <1>2, <1>3, ReturnSets, Moved, TypedFacts

LEMMA BegunTyped ==
    ASSUME TypedInv, NEW c \in Clients, UNCHANGED spent, Begun(c)
    PROVE  TypedInv'
<1>1. IInv' /\ TypeOK'
  BY JournalNext DEF Begun
<1>2. pending'[c] = None /\ \A d \in Clients : d # c => pending'[d] = pending[d]
  BY PendingMoves DEF Begun
<1>3. /\ job[c].step = "begin" /\ Goto(c, "route") /\ "route" \in Steps
      /\ UNCHANGED <<dojo, effects, returned>>
  BY Words DEF Begun, At
<1>4. Fitting(job'[c], pending'[c])
  BY <1>2, <1>3, TypedFacts, GotoSets, Words DEF Fitting
<1>. QED
  BY <1>1, <1>2, <1>3, <1>4, GotoSets, Moved, TypedFacts

\* A step inside a run that does not touch the journal.
LEMMA InsideTyped ==
    ASSUME TypedInv, NEW c \in Clients, UNCHANGED <<journal, spent, returned>>,
           job[c].step \in {"route", "executed"},
           job' \in [Clients -> Jobs], \A d \in Clients : d # c => job'[d] = job[d],
           job'[c].session = job[c].session, job'[c].step \in {"executed", "finish"},
           job'[c].status \in Statuses,
           dojo' \subseteq Sessions, effects' \in [Sessions -> Nat]
    PROVE  TypedInv'
<1>1. IInv' /\ TypeOK'
  BY JournalNext
<1>2. pending' = pending
  BY DEF journal
<1>3. Fitting(job'[c], pending'[c])
  BY <1>2, TypedFacts, Words DEF Fitting
<1>. QED
  BY <1>1, <1>2, <1>3, Moved, TypedFacts

LEMMA RejectTyped ==
    ASSUME TypedInv, NEW c \in Clients, UNCHANGED spent, Reject(c)
    PROVE  TypedInv'
<1>1. job[c].step = "route" /\ UNCHANGED <<journal, dojo, effects, returned>>
  BY DEF Reject, At
<1>2. /\ job' \in [Clients -> Jobs] /\ job'[c].step = "finish"
      /\ job'[c].session = job[c].session /\ job'[c].status = "REJECTED"
      /\ \A d \in Clients : d # c => job'[d] = job[d]
  BY TypedFacts, RejectSets
<1>. QED
  BY <1>1, <1>2, InsideTyped, TypedFacts, Words

LEMMA EpisodeFailsTyped ==
    ASSUME TypedInv, NEW c \in Clients, UNCHANGED spent, EpisodeFails(c)
    PROVE  TypedInv'
<1>1. job[c].step = "executed" /\ UNCHANGED <<journal, dojo, effects, returned>>
  BY DEF EpisodeFails, At
<1>2. /\ job' \in [Clients -> Jobs] /\ job'[c].step = "finish"
      /\ job'[c].session = job[c].session /\ job'[c].status = "DOJO_STORE_FAILED"
      /\ \A d \in Clients : d # c => job'[d] = job[d]
  BY TypedFacts, EpisodeFailsSets
<1>. QED
  BY <1>1, <1>2, InsideTyped, TypedFacts, Words

LEMMA ExecuteTyped ==
    ASSUME TypedInv, NEW c \in Clients, NEW status \in Statuses, UNCHANGED spent,
           Execute(c, status)
    PROVE  TypedInv'
<1>1. /\ job' = [job EXCEPT ![c].step = "executed", ![c].status = status]
      /\ "executed" \in Steps /\ job[c].step = "route" /\ job[c].session \in Sessions
  BY Words, TypedFacts DEF Execute, At, Fitting
<1>2. effects' \in [Sessions -> Nat]
  BY <1>1, TypedFacts DEF Execute
<1>3. /\ job' \in [Clients -> Jobs] /\ job'[c].step = "executed"
      /\ job'[c].session = job[c].session /\ job'[c].status = status
      /\ \A d \in Clients : d # c => job'[d] = job[d]
  BY <1>1, StatusSets, TypedFacts
<1>. QED
  BY <1>1, <1>2, <1>3, InsideTyped, TypedFacts DEF Execute

LEMMA RecordEpisodeTyped ==
    ASSUME TypedInv, NEW c \in Clients, UNCHANGED spent, RecordEpisode(c)
    PROVE  TypedInv'
<1>1. /\ Goto(c, "finish") /\ "finish" \in Steps /\ job[c].step = "executed"
      /\ job[c].session \in Sessions /\ job[c].status \in Statuses
  BY Words, TypedFacts DEF RecordEpisode, At, Fitting
<1>2. dojo' \subseteq Sessions
  BY <1>1, TypedFacts DEF RecordEpisode
<1>. QED
  BY <1>1, <1>2, GotoSets, InsideTyped, TypedFacts DEF RecordEpisode

\* The terminal line of a run.
LEMMA FinalizeTyped ==
    ASSUME TypedInv, NEW c \in Clients, UNCHANGED spent, Finalize(c)
    PROVE  /\ TypedInv'
           /\ \E r \in Records : Prepare(c, r) /\ view.healthy /\ Accepts(view, r)
           /\ job[c].step = "finish" /\ Goto(c, "terminal")
<1>1. /\ job[c].step = "finish" /\ Goto(c, "terminal") /\ "terminal" \in Steps
      /\ job[c].session \in Sessions /\ job[c].status \in Statuses
      /\ UNCHANGED <<dojo, effects, returned>>
  BY Words, TypedFacts DEF Finalize, At, Fitting
<1>. DEFINE s == job[c].session
            kind == TerminalKind(job[c].status)
            r == CloseLine(kind, Contract(s), None, None)
<1>2. kind \in {"COMMIT", "ABORT"}
  BY DEF TerminalKind
<1>3. r \in Records /\ r.kind = kind /\ r.session = s /\ r.seq = view.next
      /\ r.corr = CorrelationOf[s] /\ r.request = RequestOf[s]
  BY <1>1, <1>2, ContractTyped, CloseLineTyped DEF TypedInv, Kinds
<1>4. Finish(c, Contract(s), kind)
  BY DEF Finalize
<1>5. Prepare(c, r) /\ view.healthy /\ ClosesOpen(view, Contract(s))
  BY <1>4 DEF Finish, MayFinish
<1>6. Accepts(view, r)
  BY <1>1, <1>2, <1>3, <1>5, ContractTyped DEF Accepts, ClosesOpen
<1>7. IInv' /\ TypeOK'
  BY <1>1, <1>2, <1>4, SubmitIsOperation, JournalNext
<1>. HIDE DEF r
<1>8. /\ pending'[c] = r /\ r # None
      /\ \A d \in Clients : d # c => pending'[d] = pending[d]
  BY <1>3, <1>5, PendingMoves, JournalAssumption
<1>9. Fitting(job'[c], pending'[c])
  BY <1>1, <1>3, <1>8, TypedFacts, GotoSets, Words DEF Fitting
<1>10. TypedInv'
  BY <1>1, <1>7, <1>8, <1>9, GotoSets, Moved, TypedFacts
<1>. QED
  BY <1>1, <1>3, <1>5, <1>6, <1>10

LEMMA EndTyped ==
    ASSUME TypedInv, NEW c \in Clients, UNCHANGED spent,
           BeginFails(c) \/ FinalizeRefused(c) \/ Finalized(c) \/ FinalizeFails(c)
    PROVE  TypedInv'
<1>1. job[c].session \in Sessions /\ (At(c, "terminal") => job[c].status \in Statuses)
  BY TypedFacts, Words DEF Fitting, BeginFails, FinalizeRefused, Finalized, FinalizeFails, At
<1>2. "JOURNAL_STORE_FAILED" \in Statuses
  BY Words
<1>. QED
  BY <1>1, <1>2, ReturnTyped
     DEF BeginFails, FinalizeRefused, Finalized, FinalizeFails, Enter

LEMMA RunTyped ==
    ASSUME TypedInv, NEW c \in Clients, RunStep(c), UNCHANGED spent
    PROVE  TypedInv'
<1>1. ASSUME NEW s \in Sessions, SubmitRefused(c, s) PROVE TypedInv'
  <2>1. UNCHANGED <<journal, execution>>
    BY <1>1 DEF SubmitRefused
  <2>2. IInv' /\ TypeOK'
    BY <2>1, JournalNext
  <2>. QED
    BY <2>1, <2>2, TypedFacts, Moved DEF journal, execution
<1>. QED
  BY <1>1, SubmitTyped, BegunTyped, RejectTyped, ExecuteTyped, RecordEpisodeTyped,
     EpisodeFailsTyped, FinalizeTyped, EndTyped DEF RunStep

LEMMA AuthorizeSets ==
    ASSUME TypedInv, NEW c \in Clients, NEW d \in Signable, Authorize(c, d)
    PROVE  /\ d \in Decisions /\ job' \in [Clients -> Jobs]
           /\ job'[c].step = "decided" /\ job'[c].decision = d
           /\ \A x \in Clients : x # c => job'[x] = job[x]
<1>1. d \in Decisions
  BY TypedFacts DEF Signable, Decisions, ScanStates
<1>. DEFINE j == [Idle EXCEPT !.step = "decided", !.decision = d]
<1>2. j \in Jobs /\ j.step = "decided" /\ j.decision = d
  BY <1>1 DEF Idle, Jobs, Steps
<1>3. job' = [job EXCEPT ![c] = j]
  BY DEF Authorize
<1>. HIDE DEF j
<1>. QED
  BY <1>1, <1>2, <1>3, TypedFacts

LEMMA AuthorizeTyped ==
    ASSUME TypedInv, NEW c \in Clients, NEW d \in Signable, Authorize(c, d)
    PROVE  TypedInv'
<1>1. /\ pending[c] = None /\ UNCHANGED <<journal, dojo, effects, returned>>
      /\ spent' = spent \cup {d.auth}
  BY DEF Authorize, Enter
<1>2. IInv' /\ TypeOK'
  BY <1>1, JournalNext
<1>3. d.auth \in Auths
  BY AuthorizeSets DEF Decisions
<1>4. Fitting(job'[c], pending'[c])
  BY <1>1, AuthorizeSets, Words DEF Fitting, journal
<1>. QED
  BY <1>1, <1>2, <1>3, <1>4, AuthorizeSets, Moved, TypedFacts DEF journal

\* The recovery line of a decision.
LEMMA DecideTyped ==
    ASSUME TypedInv, NEW c \in Clients, Decide(c)
    PROVE  /\ TypedInv'
           /\ \E r \in Records : Prepare(c, r) /\ view.healthy /\ Accepts(view, r)
           /\ job[c].step = "decided" /\ Goto(c, "recover")
<1>. DEFINE d == job[c].decision
            b == d.parent
            k == IF d.kind = "RETRY" THEN d.child ELSE None
            r == CloseLine(d.kind, b, d.auth, k)
<1>1. /\ job[c].step = "decided" /\ Goto(c, "recover") /\ "recover" \in Steps
      /\ d \in Decisions /\ UNCHANGED <<dojo, effects, returned, spent>>
      /\ Recover(c, b, d.kind, d.auth, d.child)
  BY Words, TypedFacts DEF Decide, At, Fitting
<1>2. /\ d.kind \in {"DISMISS", "RETRY"} /\ b \in Begins /\ d.auth \in Auths
      /\ d.child \in Correlations
  BY <1>1 DEF Decisions
<1>3. /\ Prepare(c, r) /\ view.healthy /\ b \in view.open
      /\ d.kind = "RETRY" => FreshChild(view, d.child)
  BY <1>1 DEF Recover, MayRecover
<1>4. b.session \in Sessions /\ b.corr \in Correlations /\ b.request \in Requests
  BY <1>2 DEF Begins
<1>5. /\ r \in Records /\ r.kind = d.kind /\ r.session = b.session /\ r.seq = view.next
      /\ r.corr = b.corr /\ r.request = b.request /\ r.auth = d.auth /\ r.child = k
  <2>. HIDE DEF b
  <2>1. d.kind \in Kinds \ {"BEGIN"} /\ k \in Correlations \cup {None}
    BY <1>2 DEF Kinds
  <2>. QED
    BY <1>2, <1>4, <2>1, CloseLineTyped DEF TypedInv
<1>6. Accepts(view, r)
  BY <1>2, <1>3, <1>5 DEF Accepts, ClosesOpen
<1>7. IInv' /\ TypeOK'
  BY <1>1, RecoverIsDecision, JournalNext
<1>. HIDE DEF r
<1>8. /\ pending'[c] = r /\ r # None
      /\ \A x \in Clients : x # c => pending'[x] = pending[x]
  BY <1>3, <1>5, PendingMoves, JournalAssumption
<1>9. Fitting(job'[c], pending'[c])
  BY <1>1, <1>5, <1>8, TypedFacts, GotoSets, Words DEF Fitting
<1>10. TypedInv'
  BY <1>1, <1>7, <1>8, <1>9, GotoSets, Moved, TypedFacts
<1>. QED
  BY <1>1, <1>3, <1>5, <1>6, <1>10

\* A process that ends where it is, in an append or not.
LEMMA IdleTypedStep ==
    ASSUME TypedInv, NEW c \in Clients, job' = [job EXCEPT ![c] = Idle],
           UNCHANGED <<dojo, effects, returned, spent>>,
           \/ UNCHANGED journal /\ pending[c] = None
           \/ Append(c) \/ AppendFails(c)
    PROVE  /\ TypedInv' /\ job'[c] = Idle
           /\ \A d \in Clients : d # c => job'[d] = job[d]
<1>1. IInv' /\ TypeOK'
  BY JournalNext
<1>2. pending'[c] = None /\ \A d \in Clients : d # c => pending'[d] = pending[d]
  BY PendingMoves DEF journal
<1>3. /\ job' \in [Clients -> Jobs] /\ job'[c] = Idle
      /\ \A d \in Clients : d # c => job'[d] = job[d]
  BY TypedFacts, IdleTyped, JobSet
<1>4. Fitting(job'[c], pending'[c])
  BY <1>2, <1>3, IdleFits
<1>. QED
  BY <1>1, <1>2, <1>3, <1>4, Moved, TypedFacts

LEMMA NextTyped == TypedInv /\ [RecoveryNext]_vars => TypedInv'
<1>. SUFFICES ASSUME TypedInv, [RecoveryNext]_vars PROVE TypedInv'
  OBVIOUS
<1>1. CASE UNCHANGED vars
  <2>1. IInv'
    BY <1>1, NextIInv DEF vars, TypedInv
  <2>. QED
    BY <1>1, <2>1 DEF vars, journal, execution, TypedInv, ExecutionTypeOK, JobInv
<1>2. ASSUME NEW c \in Clients, RunStep(c), UNCHANGED spent PROVE TypedInv'
  BY <1>2, RunTyped
<1>3. ASSUME NEW c \in Clients, RecoveryStep(c) PROVE TypedInv'
  BY <1>3, AuthorizeTyped, DecideTyped, IdleTypedStep
     DEF RecoveryStep, DecideRefused, Decided, DecideFails, Enter
<1>4. ASSUME NEW c \in Clients, Crash(c), UNCHANGED spent PROVE TypedInv'
  BY <1>4, IdleTypedStep DEF Crash
<1>. QED
  BY <1>1, <1>2, <1>3, <1>4 DEF RecoveryNext

LEMMA InitTyped == RecoveryInit => TypedInv
<1>. SUFFICES ASSUME RecoveryInit PROVE TypedInv
  OBVIOUS
<1>1. IInv /\ TypeOK
  BY InitIInv DEF RecoveryInit, IInv
<1>2. job \in [Clients -> Jobs] /\ \A c \in Clients : job[c] = Idle /\ pending[c] = None
  BY IdleTyped DEF RecoveryInit, InitExecution, Init
<1>3. /\ dojo \subseteq Sessions /\ effects \in [Sessions -> Nat]
      /\ returned \in [Sessions -> SUBSET Statuses] /\ spent \subseteq Auths
  BY DEF RecoveryInit, InitExecution
<1>. QED
  BY <1>1, <1>2, <1>3, IdleFits DEF TypedInv, ExecutionTypeOK, JobInv

-----------------------------------------------------------------------------
(* Every step of a process is quiet or loud.                                *)

\* c prepares a line that the journal it has scanned accepts.
Prepared(c) ==
    \E r \in Records : Prepare(c, r) /\ view.healthy /\ Accepts(view, r)

\* The step acknowledges no line.
QuietStep(c) ==
    /\ UNCHANGED journal \/ Prepared(c) \/ AppendFails(c)
    /\ \A d \in Clients : d # c => job'[d] = job[d]
    /\ dojo \subseteq dojo' /\ spent \subseteq spent'
    /\ \A s \in Sessions :
        \/ effects'[s] = effects[s]
        \/ job[c].step = "route" /\ s = job[c].session /\ effects'[s] = effects[s] + 1
    /\ \A s \in Sessions : "COMPLETED" \in returned'[s] => "COMPLETED" \in returned[s]
    /\ job'[c].step # "route"
    /\ job'[c].step \in Running =>
        job[c].step \in Running /\ job'[c].session = job[c].session
    /\ job'[c].step \in {"executed", "finish", "terminal"} /\ job'[c].status = "COMPLETED" =>
        \/ effects'[job[c].session] = effects[job[c].session] + 1
        \/ job[c].step \in {"executed", "finish", "terminal"} /\ job[c].status = "COMPLETED"
    /\ job'[c].step \in {"finish", "terminal"} /\ job'[c].status = "COMPLETED" =>
        \/ job[c].session \in dojo'
        \/ job[c].step \in {"finish", "terminal"} /\ job[c].status = "COMPLETED"
    /\ job'[c].step \in Deciding =>
        \/ job[c].step \in Deciding /\ job'[c].decision = job[c].decision
        \/ job'[c].decision.auth \in spent' \ spent

\* The step appends the line c has prepared.
LoudStep(c) ==
    /\ Append(c)
    /\ \A d \in Clients : d # c => job'[d] = job[d]
    /\ UNCHANGED <<dojo, effects, spent>>
    /\ \/ job'[c] = Idle
       \/ job[c].step = "begin" /\ job'[c].step = "route" /\ job'[c].session = job[c].session
    /\ \A s \in Sessions :
        "COMPLETED" \in returned'[s] =>
            \/ "COMPLETED" \in returned[s]
            \/ job[c].step = "terminal" /\ job[c].status = "COMPLETED" /\ s = job[c].session

LEMMA SubmitSteps ==
    ASSUME TypedInv, NEW c \in Clients, NEW s \in Sessions, UNCHANGED spent,
           Submit(c, s) \/ \E p \in Sessions, a \in Auths : SubmitChild(c, s, p, a)
    PROVE  QuietStep(c)
<1>1. /\ Prepared(c)
      /\ job'[c].step = "begin" /\ \A d \in Clients : d # c => job'[d] = job[d]
      /\ UNCHANGED <<dojo, effects, returned, spent>>
  BY SubmitTyped DEF Prepared
<1>. QED
  BY <1>1, Words DEF QuietStep

LEMMA RefusedSteps ==
    ASSUME TypedInv, NEW c \in Clients, NEW s \in Sessions, UNCHANGED spent,
           SubmitRefused(c, s)
    PROVE  QuietStep(c)
<1>1. UNCHANGED <<journal, job, dojo, effects, returned>> /\ job[c].step = "idle"
  BY DEF SubmitRefused, At, execution
<1>. QED
  BY <1>1, Words DEF QuietStep

LEMMA InsideSteps ==
    ASSUME TypedInv, NEW c \in Clients, UNCHANGED spent,
           \/ Reject(c) \/ RecordEpisode(c) \/ EpisodeFails(c)
           \/ \E status \in Statuses : Execute(c, status)
    PROVE  QuietStep(c)
<1>0. /\ job \in [Clients -> Jobs]
      /\ "finish" \in Steps /\ "executed" \in Steps
  BY TypedFacts, Words
<1>1. UNCHANGED journal /\ returned' = returned /\ dojo \subseteq dojo'
  BY DEF Reject, RecordEpisode, EpisodeFails, Execute
<1>2. CASE Reject(c)
  <2>1. /\ job'[c].step = "finish" /\ job'[c].session = job[c].session
        /\ job'[c].status = "REJECTED"
        /\ \A d \in Clients : d # c => job'[d] = job[d]
    BY <1>0, <1>2, RejectSets
  <2>2. job[c].step = "route" /\ UNCHANGED <<dojo, effects>>
    BY <1>2 DEF Reject, At
  <2>. QED
    BY <1>1, <2>1, <2>2, Words DEF QuietStep
<1>3. CASE EpisodeFails(c)
  <2>1. /\ job'[c].step = "finish" /\ job'[c].session = job[c].session
        /\ job'[c].status = "DOJO_STORE_FAILED"
        /\ \A d \in Clients : d # c => job'[d] = job[d]
    BY <1>0, <1>3, EpisodeFailsSets
  <2>2. job[c].step = "executed" /\ UNCHANGED <<dojo, effects>>
    BY <1>3 DEF EpisodeFails, At
  <2>. QED
    BY <1>1, <2>1, <2>2, Words DEF QuietStep
<1>4. CASE RecordEpisode(c)
  <2>1. /\ job'[c].step = "finish" /\ job'[c].session = job[c].session
        /\ job'[c].status = job[c].status
        /\ \A d \in Clients : d # c => job'[d] = job[d]
    BY <1>0, <1>4, GotoSets DEF RecordEpisode
  <2>2. /\ job[c].step = "executed" /\ effects' = effects
        /\ dojo' = dojo \cup {job[c].session}
    BY <1>4 DEF RecordEpisode, At
  <2>. QED
    BY <1>1, <2>1, <2>2, Words DEF QuietStep
<1>5. ASSUME NEW status \in Statuses, Execute(c, status) PROVE QuietStep(c)
  <2>1. job' = [job EXCEPT ![c].step = "executed", ![c].status = status]
    BY <1>5 DEF Execute
  <2>2. /\ job'[c].step = "executed" /\ job'[c].session = job[c].session
        /\ \A d \in Clients : d # c => job'[d] = job[d]
    BY <1>0, <2>1, StatusSets
  <2>3. /\ job[c].step = "route" /\ dojo' = dojo /\ job[c].session \in Sessions
        /\ effects' = [effects EXCEPT ![job[c].session] = @ + 1]
    BY <1>5, TypedFacts, Words DEF Execute, At, Fitting
  <2>4. effects \in [Sessions -> Nat]
    BY TypedFacts
  <2>5. /\ effects'[job[c].session] = effects[job[c].session] + 1
        /\ \A s \in Sessions : s # job[c].session => effects'[s] = effects[s]
    BY <2>3, <2>4
  <2>. QED
    BY <1>1, <2>2, <2>3, <2>5, Words DEF QuietStep
<1>. QED
  BY <1>2, <1>3, <1>4, <1>5

LEMMA FinalizeSteps ==
    ASSUME TypedInv, NEW c \in Clients, UNCHANGED spent, Finalize(c)
    PROVE  QuietStep(c)
<1>1. /\ Prepared(c)
      /\ job[c].step = "finish" /\ Goto(c, "terminal") /\ "terminal" \in Steps
      /\ UNCHANGED <<dojo, effects, returned>>
  BY FinalizeTyped, Words DEF Finalize, Prepared
<1>2. /\ job'[c].step = "terminal" /\ job'[c].session = job[c].session
      /\ job'[c].status = job[c].status
      /\ \A d \in Clients : d # c => job'[d] = job[d]
  BY <1>1, TypedFacts, GotoSets
<1>. QED
  BY <1>1, <1>2, Words DEF QuietStep

\* The ways a run ends.
LEMMA EndSteps ==
    ASSUME TypedInv, NEW c \in Clients, UNCHANGED spent,
           BeginFails(c) \/ FinalizeRefused(c) \/ FinalizeFails(c) \/ Finalized(c)
    PROVE  QuietStep(c) \/ LoudStep(c)
<1>1. /\ job[c].session \in Sessions
      /\ At(c, "terminal") => job[c].status \in Statuses
      /\ "JOURNAL_STORE_FAILED" \in Statuses
      /\ UNCHANGED <<dojo, effects>>
  BY TypedFacts, Words
     DEF Fitting, BeginFails, FinalizeRefused, Finalized, FinalizeFails, At
<1>2. CASE BeginFails(c) \/ FinalizeRefused(c) \/ FinalizeFails(c)
  <2>1. Return(c, "JOURNAL_STORE_FAILED") /\ (UNCHANGED journal \/ AppendFails(c))
    BY <1>2 DEF BeginFails, FinalizeRefused, FinalizeFails
  <2>2. /\ job'[c] = Idle /\ \A d \in Clients : d # c => job'[d] = job[d]
        /\ \A s \in Sessions : "COMPLETED" \in returned'[s] => "COMPLETED" \in returned[s]
    BY <1>1, <2>1, ReturnSets
  <2>. QED
    BY <1>1, <2>1, <2>2, IdleTyped, Words DEF QuietStep
<1>3. CASE Finalized(c)
  <2>1. /\ Return(c, job[c].status) /\ Append(c) /\ job[c].step = "terminal"
        /\ job[c].status \in Statuses
    BY <1>1, <1>3 DEF Finalized, At
  <2>2. /\ job'[c] = Idle /\ \A d \in Clients : d # c => job'[d] = job[d]
        /\ \A s \in Sessions : "COMPLETED" \in returned'[s] =>
                \/ "COMPLETED" \in returned[s]
                \/ job[c].status = "COMPLETED" /\ s = job[c].session
    BY <1>1, <2>1, ReturnSets
  <2>. QED
    BY <1>1, <2>1, <2>2 DEF LoudStep
<1>. QED
  BY <1>2, <1>3

LEMMA BegunSteps ==
    ASSUME TypedInv, NEW c \in Clients, UNCHANGED spent, Begun(c)
    PROVE  LoudStep(c)
<1>1. /\ job[c].step = "begin" /\ Append(c) /\ Goto(c, "route") /\ "route" \in Steps
      /\ UNCHANGED <<dojo, effects, returned>>
  BY Words DEF Begun, At
<1>2. /\ job'[c].step = "route" /\ job'[c].session = job[c].session
      /\ \A d \in Clients : d # c => job'[d] = job[d]
  BY <1>1, TypedFacts, GotoSets
<1>. QED
  BY <1>1, <1>2 DEF LoudStep

LEMMA AuthorizeSteps ==
    ASSUME TypedInv, NEW c \in Clients, NEW d \in Signable, Authorize(c, d)
    PROVE  QuietStep(c)
<1>1. /\ UNCHANGED <<journal, dojo, effects, returned>> /\ d.auth \notin spent
      /\ spent' = spent \cup {d.auth}
  BY DEF Authorize, GateAllows
<1>2. /\ job'[c].step = "decided" /\ job'[c].decision = d
      /\ \A x \in Clients : x # c => job'[x] = job[x]
  BY AuthorizeSets
<1>. QED
  BY <1>1, <1>2, Words DEF QuietStep

LEMMA DecideSteps ==
    ASSUME TypedInv, NEW c \in Clients, Decide(c)
    PROVE  QuietStep(c)
<1>1. /\ Prepared(c)
      /\ job[c].step = "decided" /\ Goto(c, "recover") /\ "recover" \in Steps
      /\ UNCHANGED <<dojo, effects, returned, spent>>
  BY DecideTyped, Words DEF Decide, Prepared
<1>2. /\ job'[c].step = "recover" /\ job'[c].decision = job[c].decision
      /\ \A d \in Clients : d # c => job'[d] = job[d]
  BY <1>1, TypedFacts, GotoSets
<1>. QED
  BY <1>1, <1>2, Words DEF QuietStep

\* A decision or a crash that ends where it is, with its line or without it.
LEMMA IdleSteps ==
    ASSUME TypedInv, NEW c \in Clients, job' = [job EXCEPT ![c] = Idle],
           UNCHANGED <<dojo, effects, returned, spent>>,
           UNCHANGED journal \/ Append(c) \/ AppendFails(c)
    PROVE  QuietStep(c) \/ LoudStep(c)
<1>1. job'[c] = Idle /\ \A d \in Clients : d # c => job'[d] = job[d]
  BY TypedFacts, IdleTyped, JobSet
<1>2. CASE UNCHANGED journal \/ AppendFails(c)
  BY <1>1, <1>2, IdleTyped, Words DEF QuietStep
<1>3. CASE Append(c)
  BY <1>1, <1>3 DEF LoudStep
<1>. QED
  BY <1>2, <1>3

LEMMA StepIs ==
    ASSUME TypedInv, RecoveryNext
    PROVE  \E c \in Clients : Observe(c) /\ (QuietStep(c) \/ LoudStep(c))
<1>1. PICK c \in Clients :
        /\ \/ RunStep(c) /\ UNCHANGED spent
           \/ RecoveryStep(c)
           \/ Crash(c) /\ UNCHANGED spent
        /\ Observe(c)
  BY DEF RecoveryNext
<1>2. CASE RunStep(c) /\ UNCHANGED spent
  <2>1. ASSUME NEW s \in Sessions, SubmitRefused(c, s) PROVE QuietStep(c)
    BY <1>2, <2>1, RefusedSteps
  <2>2. ASSUME NEW s \in Sessions,
               Submit(c, s) \/ \E p \in Sessions, a \in Auths : SubmitChild(c, s, p, a)
        PROVE  QuietStep(c)
    BY <1>2, <2>2, SubmitSteps
  <2>3. CASE \/ Reject(c) \/ RecordEpisode(c) \/ EpisodeFails(c)
             \/ \E status \in Statuses : Execute(c, status)
    BY <1>1, <1>2, <2>3, InsideSteps
  <2>4. CASE BeginFails(c) \/ FinalizeRefused(c) \/ FinalizeFails(c) \/ Finalized(c)
    BY <1>1, <1>2, <2>4, EndSteps
  <2>. QED
    BY <1>1, <1>2, <2>1, <2>2, <2>3, <2>4, BegunSteps, FinalizeSteps DEF RunStep
<1>3. CASE RecoveryStep(c)
  BY <1>1, <1>3, AuthorizeSteps, DecideSteps, IdleSteps
     DEF RecoveryStep, DecideRefused, Decided, DecideFails
<1>4. CASE Crash(c) /\ UNCHANGED spent
  BY <1>1, <1>4, IdleSteps DEF Crash
<1>. QED
  BY <1>1, <1>2, <1>3, <1>4

\* What the history records of a step.
LEMMA Observed ==
    ASSUME TypedInv, NEW c \in Clients, Observe(c), QuietStep(c) \/ LoudStep(c)
    PROVE  /\ overlapped' \in BOOLEAN /\ (~overlapped' => ~overlapped)
           /\ left \subseteq left' /\ \A r \in left' : r \in left \/ r = pending[c]
           /\ LoudStep(c) \/ UNCHANGED journal \/ Prepared(c) => left' = left
           /\ AppendFails(c) => pending[c] \in Records
<1>1. /\ overlapped' \in BOOLEAN /\ (~overlapped' => ~overlapped)
      /\ left \subseteq left' /\ \A r \in left' : r \in left \/ r = pending[c]
  BY DEF Observe
<1>2. LoudStep(c) \/ UNCHANGED journal \/ Prepared(c) => clean' \/ (clean' = clean)
  BY DEF LoudStep, Append, Prepared, Prepare, journal
<1>3. AppendFails(c) => pending[c] \in Records
  BY TypedFacts DEF AppendFails
<1>. QED
  BY <1>1, <1>2, <1>3 DEF Observe

\* The journal's scans, the places of the processes, the episodes, the effects
\* and the receipts keep their types, whatever overlaps and fails.
THEOREM RecoveryTypeCorrect == RecoverySpec => []RecoveryTypeOK
<1>. DEFINE Inv == TypedInv /\ overlapped \in BOOLEAN /\ left \subseteq Records
<1>1. RecoveryInit => Inv
  BY InitTyped DEF RecoveryInit
<1>2. Inv /\ [RecoveryNext]_vars => Inv'
  <2>. SUFFICES ASSUME Inv, [RecoveryNext]_vars PROVE Inv'
    OBVIOUS
  <2>1. TypedInv'
    BY NextTyped
  <2>2. CASE UNCHANGED vars
    BY <2>1, <2>2 DEF vars
  <2>3. CASE RecoveryNext
    <3>1. PICK c \in Clients : Observe(c) /\ (QuietStep(c) \/ LoudStep(c))
      BY <2>3, StepIs
    <3>2. CASE AppendFails(c)
      BY <2>1, <3>1, <3>2, Observed
    <3>3. CASE ~AppendFails(c)
      BY <2>1, <3>1, <3>3, Observed DEF QuietStep
    <3>. QED
      BY <3>2, <3>3
  <2>. QED
    BY <2>2, <2>3
<1>3. Inv => RecoveryTypeOK
  BY DEF TypedInv, IInv, RecoveryTypeOK
<1>. QED
  BY <1>1, <1>2, <1>3, PTL DEF RecoverySpec

-----------------------------------------------------------------------------
(* The file.                                                                *)

\* One line, and what it closes.
LEMMA ScanLineClosed ==
    ASSUME NEW s \in ScanStates, NEW r \in Records, NEW lines, ClosedBy(s, lines)
    PROVE  ClosedBy(ScanLine(s, r), lines \cup {r})
<1>1. CASE ~ScanLine(s, r).healthy
  <2>1. ScanLine(s, r).seen = s.seen /\ ScanLine(s, r).open = s.open
    BY <1>1, UnhealthyLine, SpoilTyped
  <2>. QED
    BY <2>1 DEF ClosedBy, OpenIn
<1>2. CASE ScanLine(s, r).healthy /\ r.kind = "BEGIN"
  <2>. DEFINE b == [session |-> r.session, corr |-> r.corr,
                    request |-> r.request, seq |-> r.seq]
  <2>0. b.session = r.session
    OBVIOUS
  <2>1. ScanLine(s, r) = AfterBegin(s, r)
    BY <1>2, HealthyLine
  <2>2. ScanLine(s, r).seen = s.seen \cup {r.session} /\ ScanLine(s, r).open = s.open \cup {b}
    BY <2>1, AfterBeginTyped
  <2>. HIDE DEF b
  <2>. QED
    BY <2>0, <2>2 DEF ClosedBy, OpenIn
<1>3. CASE ScanLine(s, r).healthy /\ r.kind # "BEGIN"
  <2>1. ScanLine(s, r) = AfterClose(s, r)
    BY <1>3, HealthyLine
  <2>2. /\ ScanLine(s, r).seen = s.seen
        /\ ScanLine(s, r).open = {b \in s.open : b.session # r.session}
    BY <2>1, AfterCloseTyped
  <2>. QED
    BY <1>3, <2>2 DEF ClosedBy, OpenIn
<1>. QED
  BY <1>1, <1>2, <1>3

\* A line that is accepted retries no session that a COMMIT has closed.
LEMMA ScanLineStands ==
    ASSUME IInv, CommitsStand(disk), NEW r \in Records, ScanLine(disk, r).healthy,
           NEW q \in acked \cup {r}, q.kind = "COMMIT",
           NEW l \in ScanLine(disk, r).lineages
    PROVE  l.parent # q.session
<1>. DEFINE s == ScanLine(disk, r)
<1>0. disk \in ScanStates /\ s.healthy
  BY DEF IInv, TypeOK
<1>1. disk.healthy /\ Accepts(disk, r)
  BY <1>0, HealthyLine
<1>2. CASE r.kind = "BEGIN"
  <2>1. s.lineages = {TakenBy(m, r) : m \in disk.lineages}
    BY <1>0, <1>2, HealthyLine, AfterBeginTyped
  <2>2. PICK m \in disk.lineages : l = TakenBy(m, r)
    BY <2>1
  <2>3. l.parent = m.parent
    BY <1>0, <2>2, TakenByTyped DEF ScanStates
  <2>. QED
    BY <1>1, <1>2, <2>3 DEF CommitsStand
<1>3. CASE r.kind # "BEGIN"
  <2>1. s.lineages = disk.lineages \cup (IF r.kind = "RETRY" THEN {Reservation(r)} ELSE {})
    BY <1>0, <1>3, HealthyLine, AfterCloseTyped
  <2>2. PICK b \in disk.open : b.session = r.session
    BY <1>1, <1>3 DEF Accepts, ClosesOpen
  <2>3. CASE l \in disk.lineages
    <3>1. l.parent # r.session
      BY <2>2, <2>3 DEF IInv, Sound
    <3>. QED
      BY <1>1, <2>3, <3>1 DEF CommitsStand
  <2>4. CASE l \notin disk.lineages
    <3>1. r.kind = "RETRY" /\ l.parent = r.session
      BY <2>1, <2>4, ReservationTyped
    <3>2. q \in acked
      BY <3>1
    <3>3. q.session # r.session
      BY <1>1, <2>2, <3>2 DEF IInv, AckedIn, Applied
    <3>. QED
      BY <3>1, <3>3
  <2>. QED
    BY <2>3, <2>4
<1>. QED
  BY <1>2, <1>3

LEMMA FileFacts ==
    ASSUME TypedInv, FileInv
    PROVE  /\ disk \in ScanStates /\ view \in ScanStates /\ acked \subseteq Records
           /\ pending \in [Clients -> Records \cup {None}]
           /\ ClosedBy(disk, acked) /\ ClosedBy(view, acked \cup left)
           /\ CommitsStand(disk) /\ CommitsStand(view) /\ IInv
           /\ ~overlapped => \A c \in Clients : IsFirst(c)
           /\ Undisturbed => Quietly
BY DEF TypedInv, FileInv, IInv, TypeOK

\* Nobody else has a line prepared when c has and operations never overlapped.
LEMMA NoOverlap ==
    ASSUME NEW c \in Clients, Observe(c), ~overlapped', pending'[c] # None
    PROVE  \A d \in Clients : d # c => pending'[d] = None
BY DEF Observe

LEMMA PreparedFile ==
    ASSUME TypedInv, FileInv, NEW c \in Clients, Observe(c), Prepared(c), left' = left
    PROVE  FileInv'
<1>1. PICK r \in Records : Prepare(c, r) /\ view.healthy /\ Accepts(view, r)
  BY DEF Prepared
<1>2. /\ UNCHANGED <<disk, view, clean, acked>>
      /\ pending'[c] = r /\ r # None
      /\ \A d \in Clients : d # c => pending'[d] = pending[d]
  BY <1>1, PendingMoves, JournalAssumption DEF Prepare
<1>3. ASSUME ~overlapped'
      PROVE  ~overlapped /\ \A d \in Clients : d # c => pending'[d] = None
  BY <1>2, <1>3, NoOverlap DEF Observe
<1>4. ASSUME ~overlapped' PROVE \A d \in Clients : IsFirst(d)'
  <2>1. \A x \in acked : Applied(view, x)
    BY <1>1 DEF TypedInv, IInv, AckedIn
  <2>2. r.kind = "BEGIN" => \A x \in acked : x.session # r.session
    BY <1>1, <2>1 DEF Accepts, Applied
  <2>3. r.kind # "BEGIN" => \A x \in acked : x.kind # "BEGIN" => x.session # r.session
    BY <1>1, <2>1 DEF Accepts, Applied, ClosesOpen
  <2>. QED
    BY <1>2, <1>3, <1>4, <2>2, <2>3 DEF IsFirst, WasBegun, WasDecided, DecisionsMade
<1>5. ASSUME Undisturbed' PROVE Quietly'
  <2>1. ~overlapped' /\ Undisturbed
    BY <1>3, <1>5 DEF Undisturbed
  <2>2. Quietly
    BY <2>1, FileFacts
  <2>3. clean /\ view = disk
    BY <1>1, <2>2 DEF Quietly, TypedInv, IInv, TailRead
  <2>. QED
    BY <1>1, <1>2, <1>3, <2>1, <2>2, <2>3 DEF Quietly
<1>. QED
  BY <1>2, <1>4, <1>5, FileFacts DEF FileInv, ClosedBy, OpenIn, CommitsStand

LEMMA StayedFile ==
    ASSUME TypedInv, FileInv, NEW c \in Clients, Observe(c), UNCHANGED journal, left' = left
    PROVE  FileInv'
<1>1. UNCHANGED <<disk, view, clean, pending, acked, left>>
  BY DEF journal
<1>2. ~overlapped' => ~overlapped
  BY DEF Observe
<1>3. Undisturbed' => Undisturbed
  BY <1>1, <1>2 DEF Undisturbed
<1>. QED
  BY <1>1, <1>2, <1>3
     DEF FileInv, IsFirst, WasBegun, WasDecided, DecisionsMade, Quietly, ClosedBy, OpenIn,
         CommitsStand

\* The append fails: the tail it leaves is all that a scan reads in addition.
LEMMA FailedFile ==
    ASSUME TypedInv, FileInv, NEW c \in Clients, Observe(c), AppendFails(c)
    PROVE  FileInv'
<1>. DEFINE r == pending[c]
<1>1. /\ r # None /\ r \in Records /\ disk' = disk /\ acked' = acked
      /\ pending'[c] = None /\ \A d \in Clients : d # c => pending'[d] = pending[d]
  BY TypedFacts, PendingMoves DEF AppendFails
<1>2. /\ ~overlapped' => ~overlapped
      /\ left' = left \cup (IF clean /\ ~clean' /\ view'.healthy THEN {r} ELSE {})
  BY DEF Observe
<1>3. \/ view' = view /\ clean' = clean
      \/ view' = Spoil(disk) /\ ~clean'
      \/ clean /\ view' = ScanLine(disk, r) /\ ~clean'
  BY DEF AppendFails
<1>. HIDE DEF r
<1>4. \/ view' = view /\ clean' = clean
      \/ view' = Spoil(disk) /\ ~clean'
      \/ clean /\ view' = ScanLine(disk, r) /\ view'.healthy /\ ~clean' /\ left' = left \cup {r}
  BY <1>1, <1>2, <1>3, UnhealthyLine, FileFacts
<1>5. ASSUME ~overlapped' PROVE \A d \in Clients : IsFirst(d)'
  BY <1>1, <1>2, <1>5, FileFacts DEF IsFirst, WasBegun, WasDecided, DecisionsMade
<1>6. ASSUME Undisturbed' PROVE Quietly'
  <2>1. Undisturbed /\ left' = {}
    BY <1>2, <1>6 DEF Undisturbed
  <2>2. Quietly
    BY <2>1, FileFacts
  <2>3. \A d \in Clients : pending'[d] = None
    BY <1>1, <2>2 DEF Quietly, r
  <2>4. (view' = view /\ clean' = clean) \/ (view' = Spoil(disk) /\ ~clean')
    BY <1>4, <2>1
  <2>5. ~Spoil(disk).healthy
    BY FileFacts, SpoilTyped
  <2>. QED
    BY <1>1, <2>2, <2>3, <2>4, <2>5 DEF Quietly
<1>7. /\ disk.seen = Spoil(disk).seen /\ disk.open = Spoil(disk).open
      /\ disk.lineages = Spoil(disk).lineages /\ ~Spoil(disk).healthy
  BY FileFacts, SpoilTyped
<1>8. ClosedBy(view', acked \cup left')
  <2>1. CASE view' = view
    BY <1>2, <2>1, FileFacts DEF ClosedBy, OpenIn
  <2>2. CASE view' = Spoil(disk)
    BY <1>7, <2>2, FileFacts DEF ClosedBy, OpenIn
  <2>3. CASE view' = ScanLine(disk, r) /\ left' = left \cup {r}
    <3>1. ClosedBy(ScanLine(disk, r), acked \cup {r})
      BY <1>1, FileFacts, ScanLineClosed
    <3>. QED
      BY <2>3, <3>1 DEF ClosedBy
  <2>. QED
    BY <1>4, <2>1, <2>2, <2>3
<1>9. CommitsStand(view)'
  <2>1. CASE view' = view
    BY <1>1, <2>1, FileFacts DEF CommitsStand
  <2>2. CASE view' = Spoil(disk)
    BY <1>7, <2>2 DEF CommitsStand
  <2>3. CASE view' = ScanLine(disk, r) /\ view'.healthy
    BY <1>1, <2>3, FileFacts, ScanLineStands DEF CommitsStand
  <2>. QED
    BY <1>4, <2>1, <2>2, <2>3
<1>10. ClosedBy(disk, acked)' /\ ClosedBy(view, acked \cup left)' /\ CommitsStand(disk)'
  BY <1>1, <1>8, FileFacts DEF ClosedBy, OpenIn, CommitsStand
<1>. QED
  BY <1>5, <1>6, <1>9, <1>10 DEF FileInv

\* The append succeeds: its line is accepted, or the file is damaged by it.
LEMMA AppendedFile ==
    ASSUME TypedInv, FileInv, NEW c \in Clients, Observe(c), Append(c)
    PROVE  FileInv'
<1>. DEFINE r == pending[c]
<1>1. /\ r # None /\ r \in Records /\ view' = disk' /\ clean' /\ acked' = acked \cup {r}
      /\ pending'[c] = None /\ \A d \in Clients : d # c => pending'[d] = pending[d]
      /\ \/ clean /\ disk' = ScanLine(disk, r)
         \/ ~clean /\ disk' = Spoil(disk)
      /\ left' = left
  <2>1. clean' /\ r # None
    BY DEF Append
  <2>2. left' = left
    BY <2>1 DEF Observe
  <2>. QED
    BY <2>1, <2>2, TypedFacts, PendingMoves DEF Append
<1>2. ~overlapped' => ~overlapped
  BY DEF Observe
<1>. HIDE DEF r
<1>3. ASSUME ~overlapped' PROVE \A d \in Clients : IsFirst(d)'
  <2>1. \A d \in Clients : pending'[d] = None
    BY <1>1, <1>2, <1>3, FileFacts DEF IsFirst, r
  <2>. QED
    BY <2>1 DEF IsFirst
<1>4. ASSUME Undisturbed' PROVE Quietly'
  <2>1. Quietly
    BY <1>1, <1>2, <1>4, FileFacts DEF Undisturbed
  <2>2. clean /\ Accepts(disk, r) /\ disk.healthy /\ \A d \in Clients : pending'[d] = None
    BY <1>1, <2>1 DEF Quietly, r
  <2>3. disk' = AfterBegin(disk, r) \/ disk' = AfterClose(disk, r)
    BY <1>1, <2>2 DEF ScanLine
  <2>4. disk'.healthy
    BY <1>1, <2>2, <2>3, FileFacts, AfterBeginTyped, AfterCloseTyped
  <2>. QED
    BY <1>1, <2>2, <2>4 DEF Quietly
<1>5. /\ disk.seen = Spoil(disk).seen /\ disk.open = Spoil(disk).open /\ ~Spoil(disk).healthy
  BY FileFacts, SpoilTyped
<1>6. ClosedBy(disk', acked')
  <2>1. CASE disk' = ScanLine(disk, r)
    BY <1>1, <2>1, FileFacts, ScanLineClosed
  <2>2. CASE disk' = Spoil(disk)
    BY <1>1, <1>5, <2>2, FileFacts DEF ClosedBy, OpenIn
  <2>. QED
    BY <1>1, <2>1, <2>2
<1>7. disk'.healthy =>
        \A q \in acked', l \in disk'.lineages : q.kind = "COMMIT" => l.parent # q.session
  <2>1. CASE disk' = ScanLine(disk, r)
    BY <1>1, <2>1, FileFacts, ScanLineStands
  <2>2. CASE disk' = Spoil(disk)
    BY <1>5, <2>2
  <2>. QED
    BY <1>1, <2>1, <2>2
<1>8. ClosedBy(disk, acked)' /\ ClosedBy(view, acked \cup left)'
  BY <1>1, <1>6 DEF ClosedBy, OpenIn
<1>9. CommitsStand(disk)' /\ CommitsStand(view)'
  BY <1>1, <1>7 DEF CommitsStand
<1>. QED
  BY <1>3, <1>4, <1>8, <1>9 DEF FileInv

LEMMA NextFile ==
    ASSUME TypedInv, FileInv, NEW c \in Clients, Observe(c), QuietStep(c) \/ LoudStep(c)
    PROVE  FileInv'
<1>1. CASE AppendFails(c)
  BY <1>1, FailedFile
<1>2. CASE LoudStep(c)
  BY <1>2, AppendedFile DEF LoudStep
<1>3. CASE UNCHANGED journal \/ Prepared(c)
  <2>1. left' = left
    BY <1>3, Observed
  <2>. QED
    BY <1>3, <2>1, PreparedFile, StayedFile
<1>. QED
  BY <1>1, <1>2, <1>3 DEF QuietStep

-----------------------------------------------------------------------------
(* The work.                                                                *)

\* The line a process has prepared says where the process is.
LEMMA PendingLine ==
    ASSUME TypedInv, NEW c \in Clients, pending[c] # None
    PROVE  LET r == pending[c] IN
           /\ r \in Records /\ job[c].step \in {"begin", "terminal", "recover"}
           /\ job[c].step = "begin" => r.kind = "BEGIN" /\ r.session = job[c].session
           /\ job[c].step = "terminal" =>
                /\ r.kind = (IF job[c].status = "COMPLETED" THEN "COMMIT" ELSE "ABORT")
                /\ r.session = job[c].session
           /\ job[c].step = "recover" =>
                r.kind \in {"DISMISS", "RETRY"} /\ r.auth = job[c].decision.auth
<1>1. Fitting(job[c], pending[c]) /\ pending[c] \in Records
  BY TypedFacts
<1>. QED
  BY <1>1, Words DEF Fitting, TerminalKind, Decisions

\* What a step adds.
LEMMA Adds ==
    ASSUME TypedInv, NEW c \in Clients, Observe(c), QuietStep(c) \/ LoudStep(c)
    PROVE  /\ dojo \subseteq dojo' /\ spent \subseteq spent'
           /\ \A s \in Sessions :
                effects[s] \in Nat /\ (effects'[s] = effects[s] \/ effects'[s] = effects[s] + 1)
           /\ acked \subseteq acked' /\ \A r \in acked' : r \in acked \/ r = pending[c]
           /\ \A r \in left' : r \in left \/ r = pending[c]
           /\ LoudStep(c) => acked' = acked \cup {pending[c]}
           /\ QuietStep(c) /\ ~LoudStep(c) => acked' = acked
           /\ acked' # acked \/ left' # left => pending[c] # None
<1>1. QuietStep(c) => acked' = acked
  BY DEF QuietStep, Prepared, Prepare, AppendFails, journal
<1>2. LoudStep(c) => acked' = acked \cup {pending[c]} /\ pending[c] # None
  BY DEF LoudStep, Append
<1>3. left' # left => pending[c] # None
  BY Observed, JournalAssumption DEF QuietStep
<1>4. dojo \subseteq dojo' /\ spent \subseteq spent'
  BY DEF QuietStep, LoudStep
<1>5. \A s \in Sessions :
        effects[s] \in Nat /\ (effects'[s] = effects[s] \/ effects'[s] = effects[s] + 1)
  BY TypedFacts DEF QuietStep, LoudStep
<1>. QED
  BY <1>1, <1>2, <1>3, <1>4, <1>5, Observed

LEMMA NextEarning ==
    ASSUME TypedInv, EarnInv, TypedInv', NEW c \in Clients, Observe(c), QuietStep(c) \/ LoudStep(c),
           NEW d \in Clients
    PROVE  Earning(d)'
<1>1. \A e \in Clients : Earning(e)
  BY DEF EarnInv
<1>2. CASE job'[d] = job[d]
  <2>1. job[d].step \in {"executed", "finish", "terminal"} => job[d].session \in Sessions
    BY TypedFacts, Words DEF Fitting
  <2>. QED
    BY <1>1, <1>2, <2>1, Adds DEF Earning
<1>3. CASE d = c /\ LoudStep(c)
  BY <1>3, IdleTyped, Words DEF Earning, LoudStep
<1>4. CASE d = c /\ QuietStep(c)
  <2>. DEFINE s == job[c].session
  <2>1. ASSUME job'[c].step \in {"executed", "finish", "terminal"}, job'[c].status = "COMPLETED"
        PROVE  effects'[job'[c].session] >= 1
    <3>1. job[c].step \in Running /\ job'[c].session = s /\ s \in Sessions
      <4>1. job'[c].step \in Running
        BY <2>1, Words
      <4>2. job[c].step \in Running /\ job'[c].session = s
        BY <1>4, <4>1 DEF QuietStep
      <4>. QED
        BY <4>2, TypedFacts DEF Fitting
    <3>2. PICK m \in Nat, n \in Nat : m = effects[s] /\ n = effects'[s] /\ (n = m \/ n = m + 1)
      BY <3>1, Adds
    <3>3. \/ n = m + 1
          \/ job[c].step \in {"executed", "finish", "terminal"} /\ job[c].status = "COMPLETED"
      BY <1>4, <2>1, <3>1, <3>2 DEF QuietStep
    <3>4. n = m + 1 \/ m >= 1
      BY <1>1, <3>2, <3>3 DEF Earning
    <3>5. n >= 1
      BY <3>2, <3>4
    <3>. QED
      BY <3>1, <3>2, <3>5
  <2>2. ASSUME job'[c].step \in {"finish", "terminal"}, job'[c].status = "COMPLETED"
        PROVE  job'[c].session \in dojo'
    <3>1. job'[c].session = s
      <4>1. job'[c].step \in Running
        BY <2>2, Words
      <4>. QED
        BY <1>4, <4>1 DEF QuietStep
    <3>2. \/ s \in dojo'
          \/ job[c].step \in {"finish", "terminal"} /\ job[c].status = "COMPLETED"
      BY <1>4, <2>2 DEF QuietStep
    <3>3. s \in dojo'
      BY <1>1, <3>2, Adds DEF Earning
    <3>. QED
      BY <3>1, <3>3
  <2>. QED
    BY <1>4, <2>1, <2>2 DEF Earning
<1>. QED
  BY <1>2, <1>3, <1>4 DEF QuietStep, LoudStep

LEMMA NextEarn ==
    ASSUME TypedInv, EarnInv, TypedInv', NEW c \in Clients, Observe(c), QuietStep(c) \/ LoudStep(c)
    PROVE  EarnInv'
<1>1. \A d \in Clients : Earning(d)'
  BY NextEarning
<1>2. ASSUME NEW r \in acked' \cup left', r.kind = "COMMIT"
      PROVE  r.session \in dojo' /\ effects'[r.session] >= 1
  <2>1. r.session \in dojo /\ effects[r.session] >= 1
    <3>1. CASE r \in acked \cup left
      BY <1>2, <3>1 DEF EarnInv
    <3>2. CASE r \notin acked \cup left
      <4>1. r = pending[c] /\ pending[c] # None
        BY <3>2, Adds
      <4>2. job[c].step = "terminal" /\ job[c].status = "COMPLETED" /\ r.session = job[c].session
        BY <1>2, <4>1, PendingLine
      <4>. QED
        BY <4>2 DEF EarnInv, Earning
    <3>. QED
      BY <3>1, <3>2
  <2>2. r.session \in Sessions /\ r.session \in dojo'
    BY <2>1, Adds, TypedFacts
  <2>3. PICK m \in Nat, n \in Nat : m = effects[r.session] /\ n = effects'[r.session]
                                   /\ (n = m \/ n = m + 1)
    BY <2>2, Adds
  <2>4. m >= 1
    BY <2>1, <2>3
  <2>5. n >= 1
    BY <2>3, <2>4
  <2>. QED
    BY <2>2, <2>3, <2>5
<1>3. ASSUME NEW s \in Sessions, "COMPLETED" \in returned'[s]
      PROVE  s \in dojo' /\ \E r \in acked' : r.kind = "COMMIT" /\ r.session = s
  <2>1. CASE "COMPLETED" \in returned[s]
    BY <2>1, Adds DEF EarnInv
  <2>2. CASE /\ LoudStep(c) /\ job[c].step = "terminal" /\ job[c].status = "COMPLETED"
             /\ s = job[c].session
    <3>1. pending[c] # None /\ pending[c] \in acked'
      BY <2>2, Adds DEF LoudStep, Append
    <3>2. pending[c].kind = "COMMIT" /\ pending[c].session = s
      BY <2>2, <3>1, PendingLine
    <3>3. s \in dojo
      BY <2>2 DEF EarnInv, Earning
    <3>. QED
      BY <3>1, <3>2, <3>3, Adds
  <2>. QED
    BY <1>3, <2>1, <2>2 DEF QuietStep, LoudStep
<1>. QED
  BY <1>1, <1>2, <1>3 DEF EarnInv

-----------------------------------------------------------------------------
(* The receipts.                                                            *)

LEMMA NextHolds ==
    ASSUME TypedInv, ReceiptInv, NEW c \in Clients, Observe(c), QuietStep(c) \/ LoudStep(c),
           NEW d \in Clients
    PROVE  HoldsReceipt(d)'
<1>. SUFFICES ASSUME job'[d].step \in Deciding PROVE HoldsReceipt(d)'
  BY DEF HoldsReceipt
<1>. DEFINE a == job'[d].decision.auth
<1>1. /\ \A e \in Clients : HoldsReceipt(e)
      /\ \A e \in Clients : e # c => job'[e] = job[e]
      /\ spent \subseteq spent'
      /\ \A r \in DecisionsMade : r.auth \in spent
  BY Adds DEF ReceiptInv, QuietStep, LoudStep, DecisionsMade
<1>2. job'[c].step \in Deciding =>
        /\ QuietStep(c) /\ acked' = acked
        /\ \/ job[c].step \in Deciding /\ job'[c].decision = job[c].decision
           \/ job'[c].decision.auth \in spent' \ spent
  <2>1. LoudStep(c) => job'[c].step \notin Deciding
    BY IdleTyped, Words DEF LoudStep
  <2>. QED
    BY <2>1, Adds DEF QuietStep
<1>3. \A r \in DecisionsMade' :
        \/ r \in DecisionsMade
        \/ r = pending[c] /\ job[c].step = "recover" /\ r.auth = job[c].decision.auth
  BY Adds, PendingLine DEF DecisionsMade
<1>4. CASE d = c
  <2>1. DecisionsMade' = DecisionsMade
    BY <1>2, <1>4 DEF DecisionsMade
  <2>2. CASE job[c].step \in Deciding /\ job'[c].decision = job[c].decision
    BY <1>1, <1>4, <2>1, <2>2 DEF HoldsReceipt
  <2>3. CASE a \in spent' \ spent
    BY <1>1, <1>4, <2>1, <2>3 DEF HoldsReceipt
  <2>. QED
    BY <1>2, <1>4, <2>2, <2>3
<1>5. CASE d # c
  <2>1. /\ job'[d] = job[d] /\ a \in spent
        /\ \A r \in DecisionsMade : r.auth # a
        /\ \A e \in Clients : job[e].step \in Deciding /\ job[e].decision.auth = a => e = d
    BY <1>1, <1>5 DEF HoldsReceipt
  <2>2. \A r \in DecisionsMade' : r.auth # a
    BY <1>3, <1>5, <2>1, Words
  <2>3. ASSUME NEW e \in Clients, job'[e].step \in Deciding, job'[e].decision.auth = a
        PROVE  e = d
    <3>1. CASE e = c
      BY <1>2, <2>1, <2>3, <3>1
    <3>2. CASE e # c
      <4>1. job'[e] = job[e]
        BY <1>1, <3>2
      <4>. QED
        BY <2>1, <2>3, <4>1
    <3>. QED
      BY <3>1, <3>2
  <2>. QED
    BY <1>1, <2>1, <2>2, <2>3 DEF HoldsReceipt
<1>. QED
  BY <1>4, <1>5

LEMMA NextReceipt ==
    ASSUME TypedInv, ReceiptInv, NEW c \in Clients, Observe(c), QuietStep(c) \/ LoudStep(c)
    PROVE  ReceiptInv'
<1>1. \A d \in Clients : HoldsReceipt(d)'
  BY NextHolds
<1>2. HoldsReceipt(c)
  BY DEF ReceiptInv
<1>3. ASSUME NEW r \in acked' \cup left', r.kind \in {"DISMISS", "RETRY"}
      PROVE  r.auth \in spent'
  <2>1. CASE r \in acked \cup left
    BY <1>3, <2>1, Adds DEF ReceiptInv
  <2>2. CASE r \notin acked \cup left
    <3>1. r = pending[c] /\ pending[c] # None
      BY <2>2, Adds
    <3>2. job[c].step = "recover" /\ r.auth = job[c].decision.auth
      BY <1>3, <3>1, PendingLine
    <3>. QED
      BY <1>2, <3>2, Adds, Words DEF HoldsReceipt
  <2>. QED
    BY <2>1, <2>2
<1>4. ASSUME NEW d1 \in DecisionsMade', NEW d2 \in DecisionsMade', d1.auth = d2.auth
      PROVE  d1 = d2
  <2>1. \A r \in DecisionsMade' :
            \/ r \in DecisionsMade
            \/ r = pending[c] /\ job[c].step = "recover" /\ r.auth = job[c].decision.auth
    BY Adds, PendingLine DEF DecisionsMade
  <2>2. job[c].step = "recover" => \A r \in DecisionsMade : r.auth # job[c].decision.auth
    BY <1>2, Words DEF HoldsReceipt
  <2>. QED
    BY <1>4, <2>1, <2>2 DEF ReceiptInv
<1>. QED
  BY <1>1, <1>3, <1>4 DEF ReceiptInv

-----------------------------------------------------------------------------
(* Once.                                                                    *)

\* A file that is healthy after a step was so before it.
LEMMA WasAlone ==
    ASSUME TypedInv, NEW c \in Clients, Observe(c), QuietStep(c) \/ LoudStep(c), Alone'
    PROVE  Alone
<1>1. overlapped => overlapped'
  BY DEF Observe
<1>2. CASE QuietStep(c)
  <2>1. disk' = disk
    BY <1>2 DEF QuietStep, Prepared, Prepare, AppendFails, journal
  <2>. QED
    BY <1>1, <2>1 DEF Alone
<1>3. CASE LoudStep(c)
  <2>1. /\ disk \in ScanStates /\ pending[c] \in Records
        /\ disk' = ScanLine(disk, pending[c]) \/ disk' = Spoil(disk)
    BY <1>3, TypedFacts DEF LoudStep, Append
  <2>2. disk'.healthy => disk.healthy
    BY <2>1, HealthyLine, SpoilTyped
  <2>. QED
    BY <1>1, <2>2 DEF Alone
<1>. QED
  BY <1>2, <1>3

\* The line that is appended is the first of its kind.
LEMMA AppendsFirst ==
    ASSUME TypedInv, FileInv, NEW c \in Clients, Observe(c), Append(c), Alone'
    PROVE  LET r == pending[c] IN
           /\ r.kind = "BEGIN" => ~WasBegun(r.session)
           /\ r.kind \in {"DISMISS", "RETRY"} => ~WasDecided(r.session)
<1>. DEFINE r == pending[c]
<1>1. r # None /\ r \in Records /\ disk \in ScanStates
  BY TypedFacts DEF Append
<1>2. CASE ~overlapped'
  <2>1. ~overlapped
    BY <1>2 DEF Observe
  <2>. QED
    BY <1>1, <2>1, FileFacts DEF IsFirst
<1>3. CASE disk'.healthy
  <2>1. disk' = ScanLine(disk, r)
    BY <1>1, <1>3, SpoilTyped DEF Append
  <2>2. disk.healthy /\ Accepts(disk, r)
    BY <1>1, <1>3, <2>1, HealthyLine
  <2>3. \A x \in acked : Applied(disk, x)
    BY <2>2 DEF TypedInv, IInv, AckedIn
  <2>4. r.kind = "BEGIN" => \A x \in acked : x.session # r.session
    BY <2>2, <2>3 DEF Accepts, Applied
  <2>5. r.kind # "BEGIN" => \A x \in acked : x.kind # "BEGIN" => x.session # r.session
    BY <2>2, <2>3 DEF Accepts, Applied, ClosesOpen
  <2>. QED
    BY <2>4, <2>5 DEF WasBegun, WasDecided, DecisionsMade
<1>. QED
  BY <1>2, <1>3 DEF Alone

LEMMA NextRunning ==
    ASSUME TypedInv, OnceInv, NEW c \in Clients, Observe(c), QuietStep(c) \/ LoudStep(c)
    PROVE  /\ \A d \in Clients : job'[d].step \in Running => WasBegun(job[d].session)'
           /\ \A s \in Sessions : effects'[s] > 0 => WasBegun(s)'
<1>1. \A s : WasBegun(s) => WasBegun(s)'
  BY Adds DEF WasBegun
<1>. DEFINE s == job[c].session
<1>2. ASSUME job'[c].step \in Running PROVE WasBegun(job[c].session)'
  <2>1. CASE job[c].step \in Running /\ job'[c].session = s
    <3>1. WasBegun(s)'
      BY <1>1, <2>1 DEF OnceInv
    <3>. QED
      BY <2>1, <3>1 DEF WasBegun
  <2>2. CASE LoudStep(c) /\ job[c].step = "begin" /\ job'[c].session = s
    <3>1. pending[c] # None /\ pending[c] \in acked'
      BY <2>2, Adds DEF LoudStep, Append
    <3>2. pending[c].kind = "BEGIN" /\ pending[c].session = s
      BY <2>2, <3>1, PendingLine
    <3>. QED
      BY <2>2, <3>1, <3>2 DEF WasBegun
  <2>3. LoudStep(c) => job[c].step = "begin" /\ job'[c].session = s
    BY <1>2, IdleTyped DEF LoudStep
  <2>. QED
    BY <1>2, <2>1, <2>2, <2>3 DEF QuietStep
<1>3. ASSUME NEW d \in Clients, job'[d].step \in Running PROVE WasBegun(job[d].session)'
  <2>1. CASE d = c
    BY <1>2, <1>3, <2>1
  <2>2. CASE d # c
    <3>1. job'[d] = job[d]
      BY <2>2 DEF QuietStep, LoudStep
    <3>2. WasBegun(job[d].session)'
      BY <1>1, <1>3, <3>1 DEF OnceInv
    <3>. QED
      BY <3>1, <3>2 DEF WasBegun
  <2>. QED
    BY <2>1, <2>2
<1>4. ASSUME NEW x \in Sessions, effects'[x] > 0 PROVE WasBegun(x)'
  <2>1. CASE effects'[x] = effects[x]
    BY <1>1, <1>4, <2>1 DEF OnceInv
  <2>2. CASE job[c].step = "route" /\ x = s
    BY <1>1, <2>2, Words DEF OnceInv
  <2>. QED
    BY <2>1, <2>2 DEF QuietStep, LoudStep
<1>. QED
  BY <1>3, <1>4

LEMMA NextOwns ==
    ASSUME TypedInv, FileInv, OnceInv, NEW c \in Clients, Observe(c), QuietStep(c) \/ LoudStep(c),
           Alone', NEW d \in Clients
    PROVE  Owns(d)'
<1>0. /\ \A e \in Clients : Owns(e)
      /\ \A e \in Clients : e # c => job'[e] = job[e]
      /\ \A e \in Clients : job[e].step \in Running => WasBegun(job[e].session)
  BY WasAlone DEF OnceInv, QuietStep, LoudStep
<1>1. job'[c].step \in Running =>
        \/ job[c].step \in Running /\ job'[c].session = job[c].session /\ job'[c].step # "route"
        \/ ~WasBegun(job'[c].session) /\ LoudStep(c)
  <2>1. CASE QuietStep(c)
    BY <2>1 DEF QuietStep
  <2>2. CASE LoudStep(c) /\ job'[c].step \in Running
    <3>1. job[c].step = "begin" /\ job'[c].session = job[c].session /\ Append(c)
      BY <2>2, IdleTyped DEF LoudStep
    <3>2. pending[c].kind = "BEGIN" /\ pending[c].session = job[c].session
      BY <3>1, PendingLine DEF Append
    <3>. QED
      BY <2>2, <3>1, <3>2, AppendsFirst
  <2>. QED
    BY <2>1, <2>2
<1>2. ASSUME NEW e \in Clients, NEW f \in Clients, job'[e].step \in Running,
             job'[f].step \in Running, job'[f].session = job'[e].session
      PROVE  f = e
  <2>1. CASE e # c /\ f # c
    <3>1. job'[e] = job[e] /\ job'[f] = job[f]
      BY <1>0, <2>1
    <3>. QED
      BY <1>0, <1>2, <3>1 DEF Owns
  <2>2. CASE e = c /\ f # c
    <3>1. job'[f] = job[f] /\ job[f].step \in Running /\ WasBegun(job[f].session)
      BY <1>0, <1>2, <2>2
    <3>2. job[c].step \in Running /\ job'[c].session = job[c].session
      BY <1>1, <1>2, <2>2, <3>1
    <3>. QED
      BY <1>0, <1>2, <2>2, <3>1, <3>2 DEF Owns
  <2>3. CASE e # c /\ f = c
    <3>1. job'[e] = job[e] /\ job[e].step \in Running /\ WasBegun(job[e].session)
      BY <1>0, <1>2, <2>3
    <3>2. job[c].step \in Running /\ job'[c].session = job[c].session
      BY <1>1, <1>2, <2>3, <3>1
    <3>. QED
      BY <1>0, <1>2, <2>3, <3>1, <3>2 DEF Owns
  <2>. QED
    BY <2>1, <2>2, <2>3
<1>3. ASSUME job'[d].step = "route" PROVE effects'[job'[d].session] = 0
  <2>0. job'[d].step \in Running
    BY <1>3, Words
  <2>1. CASE d = c
    <3>1. ~WasBegun(job'[c].session) /\ LoudStep(c)
      BY <1>1, <1>3, <2>0, <2>1
    <3>2. job'[c].session = job[c].session /\ job[c].step = "begin"
      BY <1>3, <2>1, <3>1, IdleTyped DEF LoudStep
    <3>3. job[c].session \in Sessions
      BY <3>2, TypedFacts DEF Fitting
    <3>4. PICK n \in Nat : n = effects[job[c].session]
      BY <3>3, TypedFacts
    <3>5. ~(n > 0)
      BY <3>1, <3>2, <3>3, <3>4 DEF OnceInv
    <3>6. n = 0
      BY <3>5
    <3>. QED
      BY <2>1, <3>1, <3>2, <3>4, <3>6 DEF LoudStep
  <2>2. CASE d # c
    <3>1. /\ job'[d] = job[d] /\ job[d].step = "route" /\ job[d].step \in Running
          /\ job[d].session \in Sessions
      BY <1>0, <1>3, <2>0, <2>2, TypedFacts DEF Fitting
    <3>2. ~(job[c].step = "route" /\ job[c].session = job[d].session)
      BY <1>0, <2>2, <3>1, Words DEF Owns
    <3>3. effects'[job[d].session] = effects[job[d].session]
      BY <3>1, <3>2 DEF QuietStep, LoudStep
    <3>. QED
      BY <1>0, <3>1, <3>3 DEF Owns
  <2>. QED
    BY <2>1, <2>2
<1>. QED
  BY <1>2, <1>3 DEF Owns

LEMMA NextOnce ==
    ASSUME TypedInv, FileInv, OnceInv, NEW c \in Clients, Observe(c), QuietStep(c) \/ LoudStep(c)
    PROVE  OnceInv'
<1>1. /\ \A d \in Clients : job'[d].step \in Running => WasBegun(job[d].session)'
      /\ \A s \in Sessions : effects'[s] > 0 => WasBegun(s)'
  BY NextRunning
<1>2. ASSUME Alone' PROVE \A d \in Clients : Owns(d)'
  BY <1>2, NextOwns
<1>3. ASSUME Alone', NEW s \in Sessions PROVE effects'[s] <= 1
  <2>0. Alone
    BY <1>3, WasAlone
  <2>1. CASE effects'[s] = effects[s]
    BY <2>0, <2>1 DEF OnceInv
  <2>2. CASE job[c].step = "route" /\ s = job[c].session /\ effects'[s] = effects[s] + 1
    <3>1. effects[s] = 0
      BY <2>0, <2>2 DEF OnceInv, Owns
    <3>. QED
      BY <2>2, <3>1
  <2>. QED
    BY <2>1, <2>2 DEF QuietStep, LoudStep
<1>4. ASSUME Alone', NEW d1 \in DecisionsMade', NEW d2 \in DecisionsMade',
             d1.session = d2.session
      PROVE  d1 = d2
  <2>0. Alone
    BY <1>4, WasAlone
  <2>1. CASE LoudStep(c)
    <3>1. pending[c].kind \in {"DISMISS", "RETRY"} => ~WasDecided(pending[c].session)
      BY <1>4, <2>1, AppendsFirst DEF LoudStep
    <3>2. \A r \in DecisionsMade' :
            \/ r \in DecisionsMade
            \/ r = pending[c] /\ r.kind \in {"DISMISS", "RETRY"}
      BY Adds DEF DecisionsMade
    <3>. QED
      BY <1>4, <2>0, <3>1, <3>2 DEF OnceInv, WasDecided
  <2>2. CASE ~LoudStep(c)
    <3>1. DecisionsMade' = DecisionsMade
      BY <2>2, Adds DEF DecisionsMade
    <3>. QED
      BY <1>4, <2>0, <3>1 DEF OnceInv
  <2>. QED
    BY <2>1, <2>2
<1>. QED
  BY <1>1, <1>2, <1>3, <1>4 DEF OnceInv

-----------------------------------------------------------------------------
(* The invariant, and what follows from it.                                 *)

LEMMA UnchangedRInv == RInv /\ UNCHANGED vars => RInv'
<1>. SUFFICES ASSUME RInv, UNCHANGED vars PROVE RInv'
  OBVIOUS
<1>0. UNCHANGED <<disk, view, clean, pending, acked, job, dojo, effects, returned, spent,
                  overlapped, left>>
  BY DEF vars, journal, execution
<1>1. TypedInv'
  BY NextTyped DEF RInv
<1>2. FileInv'
  BY <1>0 DEF RInv, FileInv, IsFirst, WasBegun, WasDecided, DecisionsMade, Undisturbed, Quietly,
              ClosedBy, OpenIn, CommitsStand
<1>3. EarnInv' /\ ReceiptInv'
  BY <1>0 DEF RInv, EarnInv, Earning, ReceiptInv, HoldsReceipt, DecisionsMade
<1>4. OnceInv'
  BY <1>0 DEF RInv, OnceInv, Owns, Alone, WasBegun, DecisionsMade
<1>. QED
  BY <1>1, <1>2, <1>3, <1>4 DEF RInv

LEMMA NextRInv == RInv /\ [RecoveryNext]_vars => RInv'
<1>. SUFFICES ASSUME RInv, RecoveryNext PROVE RInv'
  BY UnchangedRInv
<1>1. TypedInv /\ FileInv /\ EarnInv /\ ReceiptInv /\ OnceInv
  BY DEF RInv
<1>2. TypedInv'
  BY <1>1, NextTyped
<1>3. PICK c \in Clients : Observe(c) /\ (QuietStep(c) \/ LoudStep(c))
  BY <1>1, StepIs
<1>. QED
  BY <1>1, <1>2, <1>3, NextFile, NextEarn, NextReceipt, NextOnce DEF RInv

LEMMA InitRInv == RecoveryInit => RInv
<1>. SUFFICES ASSUME RecoveryInit PROVE RInv
  OBVIOUS
<1>1. /\ disk = EmptyScan /\ view = EmptyScan /\ acked = {} /\ left = {} /\ clean
      /\ ~overlapped
      /\ \A c \in Clients : pending[c] = None /\ job[c] = Idle
      /\ \A s \in Sessions : effects[s] = 0 /\ returned[s] = {}
  BY DEF RecoveryInit, Init, InitExecution
<1>2. FileInv
  BY <1>1 DEF FileInv, IsFirst, Quietly, ClosedBy, CommitsStand, EmptyScan
<1>3. DecisionsMade = {}
  BY <1>1 DEF DecisionsMade
<1>4. EarnInv /\ ReceiptInv
  BY <1>1, <1>3, IdleTyped, Words DEF EarnInv, Earning, ReceiptInv, HoldsReceipt
<1>5. OnceInv
  BY <1>1, <1>3, IdleTyped, Words DEF OnceInv, Owns
<1>. QED
  BY <1>2, <1>4, <1>5, InitTyped DEF RInv

\* The invariant of the runs and the decisions, whatever overlaps and fails.
THEOREM RecoveryInvariant == RecoverySpec => []RInv
<1>1. RInv /\ [RecoveryNext]_vars => RInv'
  BY NextRInv
<1>. QED
  BY <1>1, InitRInv, PTL DEF RecoverySpec

\* A journal that can be relied on reads, healthy or not, what is on file; what
\* was acknowledged counts on file, and no two conflicting lines were.
LEMMA ReliableReads ==
    ASSUME RInv, Reliable
    PROVE  /\ disk.healthy
           /\ \A r \in acked : Applied(view, r)
           /\ \A r1, r2 \in acked : Conflict(r1, r2) => r1 = r2
           /\ \A r \in acked, l \in view.lineages : r.kind = "COMMIT" => l.parent # r.session
<1>1. TypedInv /\ FileInv /\ IInv
  BY DEF RInv, TypedInv
<1>2. CASE view.healthy
  <2>1. disk.healthy
    BY <1>1, <1>2 DEF IInv, TailRead
  <2>. QED
    BY <1>1, <1>2, <2>1 DEF IInv, AckedIn, OneWinnerIn, FileInv, CommitsStand
<1>3. CASE Undisturbed
  <2>1. Quietly
    BY <1>1, <1>3, FileFacts
  <2>2. /\ view.seen = disk.seen /\ view.open = disk.open /\ view.lineages = disk.lineages
        /\ view.next = disk.next /\ view.used = disk.used
    BY <1>1, <2>1, SpoilTyped, FileFacts DEF Quietly, IInv, TailRead
  <2>3. /\ disk.healthy /\ \A r \in acked : Applied(disk, r)
        /\ \A r1, r2 \in acked : Conflict(r1, r2) => r1 = r2
        /\ \A r \in acked, l \in disk.lineages : r.kind = "COMMIT" => l.parent # r.session
    BY <1>1, <2>1 DEF Quietly, IInv, AckedIn, OneWinnerIn, FileInv, CommitsStand
  <2>4. \A r \in acked : Applied(view, r)
    BY <2>2, <2>3 DEF Applied
  <2>. QED
    BY <2>2, <2>3, <2>4
<1>. QED
  BY <1>2, <1>3 DEF Reliable

\* What was executed has a BEGIN that a later inspection reads: always of a
\* healthy journal, and of a damaged one unless operations overlapped or an
\* append left a whole line without its newline.
THEOREM IntentIsDurable == RecoverySpec => []DurableIntent
<1>1. RInv => DurableIntent
  <2>. SUFFICES ASSUME RInv, Reliable, NEW s \in Sessions, effects[s] > 0 PROVE s \in view.seen
    BY DEF DurableIntent
  <2>1. PICK r \in acked : r.kind = "BEGIN" /\ r.session = s
    BY DEF RInv, OnceInv, WasBegun
  <2>. QED
    BY <2>1, ReliableReads DEF Applied
<1>. QED
  BY <1>1, RecoveryInvariant, PTL

\* Submissions of one request execute it once, whatever happens between them;
\* twice only if their BEGINs overlapped, and then the journal is damaged.
THEOREM AtMostOnce == RecoverySpec => []ExecutedOnce
<1>1. RInv => ExecutedOnce
  BY DEF RInv, TypedInv, IInv, TailRead, OnceInv, Alone, ExecutedOnce
<1>. QED
  BY <1>1, RecoveryInvariant, PTL

\* A run that returned COMPLETED has its episode and its COMMIT, and as long as
\* the journal can be relied on the COMMIT counts and nobody has decided about
\* its session.
THEOREM OutcomeIsOne == RecoverySpec => []OneOutcome
<1>1. RInv => OneOutcome
  <2>. SUFFICES ASSUME RInv, NEW s \in Sessions, "COMPLETED" \in returned[s]
                PROVE  /\ s \in dojo
                       /\ \E r \in acked : r.kind = "COMMIT" /\ r.session = s
                       /\ Reliable =>
                            /\ s \in view.seen /\ ~OpenIn(view, s)
                            /\ \A d \in DecisionsMade : d.session # s
                            /\ \A l \in view.lineages : l.parent # s
    BY DEF OneOutcome
  <2>1. s \in dojo /\ \E r \in acked : r.kind = "COMMIT" /\ r.session = s
    BY DEF RInv, EarnInv
  <2>2. ASSUME Reliable
        PROVE  /\ s \in view.seen /\ ~OpenIn(view, s)
               /\ \A d \in DecisionsMade : d.session # s
               /\ \A l \in view.lineages : l.parent # s
    <3>1. PICK r \in acked : r.kind = "COMMIT" /\ r.session = s
      BY <2>1
    <3>2. Applied(view, r) /\ \A q \in acked : Conflict(r, q) => r = q
      BY <2>2, ReliableReads
    <3>3. s \in view.seen /\ ~OpenIn(view, s)
      BY <3>1, <3>2 DEF Applied, OpenIn
    <3>4. \A d \in DecisionsMade : d.session # s
      BY <3>1, <3>2 DEF Conflict, DecisionsMade
    <3>5. \A l \in view.lineages : l.parent # s
      BY <2>2, <3>1, ReliableReads
    <3>. QED
      BY <3>3, <3>4, <3>5
  <2>. QED
    BY <2>1, <2>2
<1>. QED
  BY <1>1, RecoveryInvariant, PTL

\* A session the journal shows closed, healthy or not, was closed by a line that
\* was acknowledged or left whole: a COMMIT of a run that stored its episode, an
\* ABORT, or a decision whose receipt was consumed first.
THEOREM ClosureIsEarned == RecoverySpec => []NoInventedClosure
<1>1. RInv => NoInventedClosure
  <2>. SUFFICES ASSUME RInv, NEW s \in view.seen, ~OpenIn(view, s)
                PROVE  \E r \in acked \cup left :
                        /\ r.session = s /\ r.kind # "BEGIN"
                        /\ r.kind = "COMMIT" => s \in dojo /\ effects[s] >= 1
                        /\ r.kind \in {"DISMISS", "RETRY"} => r.auth \in spent
    BY DEF NoInventedClosure
  <2>1. PICK r \in acked \cup left : r.kind # "BEGIN" /\ r.session = s
    BY DEF RInv, FileInv, ClosedBy
  <2>. QED
    BY <2>1 DEF RInv, EarnInv, ReceiptInv
<1>. QED
  BY <1>1, RecoveryInvariant, PTL

\* A receipt decides about one parent, whatever fails; a parent is decided about
\* once, unless the two decisions overlapped and the journal is damaged.
THEOREM DecisionIsOne == RecoverySpec => []OneDecision
<1>1. RInv => OneDecision
  BY DEF RInv, TypedInv, IInv, TailRead, ReceiptInv, OnceInv, Alone, OneDecision
<1>. QED
  BY <1>1, RecoveryInvariant, PTL
=============================================================================
