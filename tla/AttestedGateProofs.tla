------------------------- MODULE AttestedGateProofs -------------------------
(***************************************************************************)
(* Proofs about the attested gate and its identity store, for any          *)
(* identities, measurements, budgets, clocks and faults.  What carries     *)
(* them: a healthy journal never knows less than the running process       *)
(* (Knows), because the process learns only what was appended, and equals  *)
(* it as long as no tail without a newline is left (BooksInv); so what is  *)
(* in the memory a decision is taken from is in every book a later         *)
(* decision can be taken from (HoldInv).                                   *)
(***************************************************************************)
EXTENDS AttestedGate, FiniteSetTheorems, TLAPS

TypeOK ==
    /\ idFile \in Files(Store!Books)
    /\ idMem \in Store!Books \cup {None}
    /\ now \in Times
    /\ call \in Calls \cup {None}
    /\ granted \subseteq [asked : Challenges, got : Attestations]
    /\ struck \subseteq Store!Identities
    /\ failures \in Nat

\* Two measurements of one process are of the same identities.
Consistent(s) ==
    \A x, y \in s : Seen[x].process = Seen[y].process => Store!Parts(x) = Store!Parts(y)

\* What holds of a book, whether it replays or not.
Proper(b) == IsFiniteSet(b.seen) /\ WithinBudget(b) /\ Consistent(b.seen)

\* Book b knows at least what book c knows.
Knows(b, c) == c.seen \subseteq b.seen /\ c.revoked \subseteq b.revoked

\* What was acknowledged is in book b.
Holds(b) ==
    /\ \A g \in granted : g.got \in b.seen
    /\ struck \subseteq b.revoked

BooksInv ==
    /\ idFile.clean => idFile.view = idFile.disk
    /\ Proper(idFile.disk) /\ Proper(idFile.view)
    /\ idMem # None =>
        /\ Proper(idMem)
        /\ idFile.view.healthy => Knows(idFile.view, idMem)
        /\ idFile.clean /\ idFile.view.healthy => idMem = idFile.view
    /\ failures = 0 => idFile.clean /\ idFile.view.healthy

HoldInv ==
    /\ idFile.view.healthy => Holds(idFile.view)
    /\ idMem # None /\ idMem.healthy => Holds(idMem)

CallInv ==
    call # None =>
        /\ idMem # None
        /\ call.at \in {"check", "lease"} => idMem.healthy /\ call.got \in idMem.seen
        /\ call.at = "lease" => Seen[call.got].challenge = call.asked

HistoryInv ==
    /\ \A g \in granted : Seen[g.got].challenge = g.asked
    /\ \A g, h \in granted :
            Seen[h.got].process = Seen[g.got].process =>
                Store!Parts(h.got) = Store!Parts(g.got)

\* The inductive invariant.
IInv == TypeOK /\ BooksInv /\ HoldInv /\ CallInv /\ HistoryInv

-----------------------------------------------------------------------------
(* Books and lines.                                                        *)

\* The store counts as the gate does.
LEMMA SameCount ==
    ASSUME NEW S
    PROVE  Store!Cardinality(S) = Cardinality(S)
BY DEF Store!Cardinality, Cardinality

LEMMA BookFields ==
    ASSUME NEW b \in Store!Books
    PROVE  /\ b.healthy \in BOOLEAN /\ b.next \in Nat
           /\ b.seen \in SUBSET Attestations
           /\ b.revoked \in SUBSET Store!Identities
BY DEF Store!Books

LEMMA SpoilEffect ==
    ASSUME NEW b \in Store!Books
    PROVE  /\ Store!Spoil(b) \in Store!Books
           /\ ~Store!Spoil(b).healthy
           /\ Store!Spoil(b).seen = b.seen
           /\ Store!Spoil(b).revoked = b.revoked
BY DEF Store!Books, Store!Spoil

\* What the operation that writes l has made sure of, said of a book b.
Legit(b, l) ==
    /\ l.seq = b.next
    /\ \/ /\ l.kind = "O"
          /\ l.of \in Attestations \ b.seen
          /\ Store!Fits(b, l.of)
          /\ ~Store!Collides(b, l.of)
       \/ /\ l.kind = "R"
          /\ l.of \in Store!Identities
          /\ l.of \in Store!Recorded(b) \ b.revoked

LEMMA LegitAccepted ==
    ASSUME NEW b, NEW l, Legit(b, l)
    PROVE  Store!Accepts(b, l)
BY DEF Legit, Store!Accepts

LEMMA AfterEffect ==
    ASSUME NEW b \in Store!Books, NEW l, Legit(b, l)
    PROVE  /\ Store!After(b, l) \in Store!Books
           /\ Store!After(b, l).healthy = b.healthy
           /\ Store!After(b, l).seen = IF l.kind = "O" THEN b.seen \cup {l.of} ELSE b.seen
           /\ Store!After(b, l).revoked = IF l.kind = "R" THEN b.revoked \cup {l.of} ELSE b.revoked
<1>n. PICK n \in Nat : n = b.next + 1
  BY BookFields
<1>1. CASE l.kind = "O"
  <2>1. b.seen \cup {l.of} \in SUBSET Attestations
    BY <1>1, BookFields DEF Legit
  <2>2. PICK s \in SUBSET Attestations : s = b.seen \cup {l.of}
    BY <2>1
  <2>3. Store!After(b, l) = [b EXCEPT !.next = n, !.seen = s]
    BY <1>1, <1>n, <2>2 DEF Store!After, Store!Books
  <2>4. /\ Store!After(b, l) \in Store!Books
        /\ Store!After(b, l).healthy = b.healthy
        /\ Store!After(b, l).seen = s
        /\ Store!After(b, l).revoked = b.revoked
    BY <2>3 DEF Store!Books
  <2>. QED
    BY <1>1, <2>2, <2>4
<1>2. CASE l.kind = "R"
  <2>1. b.revoked \cup {l.of} \in SUBSET Store!Identities
    BY <1>2, BookFields DEF Legit
  <2>2. PICK s \in SUBSET Store!Identities : s = b.revoked \cup {l.of}
    BY <2>1
  <2>3. Store!After(b, l) = [b EXCEPT !.next = n, !.revoked = s]
    BY <1>2, <1>n, <2>2 DEF Store!After, Store!Books
  <2>4. /\ Store!After(b, l) \in Store!Books
        /\ Store!After(b, l).healthy = b.healthy
        /\ Store!After(b, l).seen = b.seen
        /\ Store!After(b, l).revoked = s
    BY <2>3 DEF Store!Books
  <2>. QED
    BY <1>2, <2>2, <2>4
<1>. QED
  BY <1>1, <1>2 DEF Legit

\* An accepted observation does not contradict what is recorded, and finds
\* room.
LEMMA AfterProper ==
    ASSUME NEW b \in Store!Books, NEW l, Legit(b, l), Proper(b)
    PROVE  Proper(Store!After(b, l))
<1>. DEFINE c == Store!After(b, l)
<1>0. c \in Store!Books /\ b.seen \in SUBSET Attestations
  BY AfterEffect, BookFields
<1>1. CASE l.kind = "R"
  <2>1. c.seen = b.seen
    BY <1>1, AfterEffect
  <2>. HIDE DEF c
  <2>2. Store!Recorded(c) = Store!Recorded(b)
    BY <2>1 DEF Store!Recorded
  <2>. QED
    BY <2>1, <2>2 DEF Proper, WithinBudget, c
<1>2. CASE l.kind = "O"
  <2>. DEFINE a == l.of
  <2>1. /\ c.seen = b.seen \cup {a} /\ a \in Attestations \ b.seen
        /\ Store!Fits(b, a) /\ ~Store!Collides(b, a)
    BY <1>2, AfterEffect DEF Legit
  <2>. HIDE DEF c, a
  <2>2. Store!Recorded(c) = Store!Recorded(b) \cup Store!Parts(a)
    BY <2>1 DEF Store!Recorded
  <2>3. /\ IsFiniteSet(c.seen) /\ Cardinality(c.seen) = Cardinality(b.seen) + 1
        /\ Cardinality(b.seen) \in Nat
    <3>1. IsFiniteSet(b.seen)
      BY DEF Proper
    <3>2. /\ IsFiniteSet(b.seen \cup {a})
          /\ Cardinality(b.seen \cup {a}) =
                IF a \in b.seen THEN Cardinality(b.seen) ELSE Cardinality(b.seen) + 1
      BY ONLY <3>1, FS_AddElement
    <3>3. Cardinality(b.seen) \in Nat
      BY <3>1, FS_CardinalityType
    <3>. QED
      BY <2>1, <3>2, <3>3
  <2>4. /\ Cardinality(Store!Recorded(c) \cap Devices) <= MaxDevices
        /\ Cardinality(Store!Recorded(c) \cap Executables) <= MaxExecutables
        /\ Cardinality(Store!Recorded(c) \cap Processes) <= MaxProcesses
        /\ Cardinality(b.seen) < MaxAttestations
    BY <2>1, <2>2, SameCount DEF Store!Fits
  <2>5. Cardinality(c.seen) <= MaxAttestations
    <3>1. MaxAttestations \in Nat
      BY GateAssumption
    <3>. QED
      BY <2>3, <2>4, <3>1
  <2>6. Consistent(c.seen)
    <3>1. \A x \in b.seen : Seen[x].process = Seen[a].process => Store!Parts(x) = Store!Parts(a)
      BY <2>1 DEF Store!Collides
    <3>2. \A x, y \in b.seen : Seen[x].process = Seen[y].process => Store!Parts(x) = Store!Parts(y)
      BY DEF Proper, Consistent
    <3>. QED
      BY <2>1, <3>1, <3>2 DEF Consistent
  <2>7. Proper(c)
    BY <2>3, <2>4, <2>5, <2>6 DEF Proper, WithinBudget
  <2>. QED
    BY <2>7 DEF c
<1>. QED
  BY <1>1, <1>2 DEF Legit

LEMMA SpoilProper ==
    ASSUME NEW b \in Store!Books, Proper(b)
    PROVE  Proper(Store!Spoil(b))
<1>1. Store!Spoil(b).seen = b.seen
  BY SpoilEffect
<1>2. Store!Recorded(Store!Spoil(b)) = Store!Recorded(b)
  BY <1>1 DEF Store!Recorded
<1>. QED
  BY <1>1, <1>2 DEF Proper, WithinBudget

\* What a line of an operation makes of a book that replays it, whether the
\* operation knew that book or another.
LEMMA ReplayEffect ==
    ASSUME NEW b \in Store!Books, Proper(b), NEW l, NEW m, Legit(m, l)
    PROVE  LET c == Store!ReplayLine(b, l) IN
           /\ c \in Store!Books
           /\ Proper(c)
           /\ c.healthy => b.healthy /\ Knows(c, b)
<1>. DEFINE c == Store!ReplayLine(b, l)
<1>1. CASE ~b.healthy
  <2>1. c = b
    BY <1>1 DEF Store!ReplayLine
  <2>. QED
    BY <1>1, <2>1
<1>2. CASE b.healthy /\ Store!Accepts(b, l)
  <2>1. c = Store!After(b, l)
    BY <1>2 DEF Store!ReplayLine
  <2>2. Legit(b, l)
    BY <1>2 DEF Store!Accepts, Legit
  <2>3. c \in Store!Books /\ Proper(c)
    BY <2>1, <2>2, AfterEffect, AfterProper
  <2>4. b.seen \subseteq c.seen /\ b.revoked \subseteq c.revoked
    BY <2>1, <2>2, AfterEffect
  <2>. QED
    BY <1>2, <2>3, <2>4 DEF Knows
<1>3. CASE b.healthy /\ ~Store!Accepts(b, l)
  <2>1. c = Store!Spoil(b)
    BY <1>3 DEF Store!ReplayLine
  <2>. QED
    BY <2>1, SpoilEffect, SpoilProper
<1>. QED
  BY <1>1, <1>2, <1>3

-----------------------------------------------------------------------------
(* Appends.                                                                *)

LEMMA FileFields ==
    ASSUME TypeOK
    PROVE  /\ idFile.disk \in Store!Books /\ idFile.view \in Store!Books
           /\ idFile.clean \in BOOLEAN
           /\ idFile = [disk |-> idFile.disk, view |-> idFile.view, clean |-> idFile.clean]
BY DEF TypeOK, Files

\* A successful append leaves a journal that replays to the memory of the
\* process that made it, or does not replay.
LEMMA AppendStep ==
    ASSUME TypeOK, BooksInv, NEW l, Store!Running, Legit(idMem, l), Store!Append(l)
    PROVE  /\ idFile' \in Files(Store!Books)
           /\ idMem' \in Store!Books
           /\ idMem' = Store!After(idMem, l)
           /\ idMem'.healthy
           /\ idFile'.clean /\ idFile'.view = idFile'.disk
           /\ Proper(idFile'.disk) /\ Proper(idMem')
           /\ idFile'.view.healthy => idFile'.view = idMem'
           /\ idFile.clean /\ idFile.view.healthy => idFile'.view.healthy
<1>. DEFINE d == idFile.disk
            c == Store!ReplayLine(d, l)
            w == IF idFile.clean THEN c ELSE Store!Spoil(d)
<1>1. idMem \in Store!Books /\ idMem.healthy /\ Proper(idMem)
  BY DEF TypeOK, BooksInv, Store!Running
<1>2. /\ idMem' = Store!After(idMem, l) /\ idMem' \in Store!Books
      /\ idMem'.healthy /\ Proper(idMem')
  <2>1. idMem' = Store!After(idMem, l)
    BY DEF Store!Append
  <2>. QED
    BY <1>1, <2>1, AfterEffect, AfterProper
<1>3. d \in Store!Books /\ Proper(d)
  BY FileFields DEF BooksInv
<1>4. c \in Store!Books /\ Proper(c)
  BY <1>3, ReplayEffect
<1>5. w \in Store!Books /\ Proper(w)
  BY <1>3, <1>4, SpoilEffect, SpoilProper
<1>6. idFile' = [disk |-> w, view |-> w, clean |-> TRUE]
  BY DEF Store!Append, Store!Appended
<1>7. ASSUME idFile.clean, idFile.view.healthy PROVE w = idMem'
  <2>1. idMem = idFile.view /\ d = idFile.view
    BY <1>7, <1>1 DEF BooksInv, Store!Running
  <2>2. c = Store!After(d, l)
    BY <1>7, <2>1, LegitAccepted DEF Store!ReplayLine
  <2>. QED
    BY <1>2, <1>7, <2>1, <2>2
<1>8. ASSUME w.healthy PROVE idFile.clean /\ idFile.view.healthy
  <2>1. idFile.clean
    BY <1>3, <1>8, SpoilEffect
  <2>2. d = idFile.view /\ c.healthy
    BY <1>8, <2>1 DEF BooksInv
  <2>3. d.healthy
    BY <2>2 DEF Store!ReplayLine
  <2>. QED
    BY <2>1, <2>2, <2>3
<1>. HIDE DEF w
<1>9. /\ idFile' \in Files(Store!Books)
      /\ idFile'.clean /\ idFile'.view = w /\ idFile'.disk = w
  BY <1>5, <1>6 DEF Files
<1>. QED
  BY <1>2, <1>5, <1>7, <1>8, <1>9

\* A failed append tells the journal nothing, or more than the process knows,
\* and then leaves a tail without a newline.
LEMMA FailStep ==
    ASSUME TypeOK, BooksInv, NEW l, Store!Running, Legit(idMem, l), Store!AppendFails(l)
    PROVE  /\ idFile' \in Files(Store!Books)
           /\ idMem' = idMem
           /\ idFile' = idFile \/ ~idFile'.clean
           /\ Proper(idFile'.disk) /\ Proper(idFile'.view)
           /\ idFile'.view.healthy =>
                idFile.view.healthy /\ Knows(idFile'.view, idFile.view)
<1>. DEFINE d == idFile.disk
            c == Store!ReplayLine(d, l)
            w == IF idFile.clean THEN c ELSE Store!Spoil(d)
<1>1. d \in Store!Books /\ Proper(d) /\ Proper(idFile.view)
  BY FileFields DEF BooksInv
<1>2. /\ c \in Store!Books /\ Proper(c)
      /\ c.healthy => d.healthy /\ Knows(c, d)
  BY <1>1, ReplayEffect
<1>3. /\ Store!Spoil(d) \in Store!Books /\ Proper(Store!Spoil(d)) /\ ~Store!Spoil(d).healthy
  BY <1>1, SpoilEffect, SpoilProper
<1>4. /\ w \in Store!Books /\ Proper(w)
      /\ w.healthy => idFile.view.healthy /\ Knows(w, idFile.view)
  <2>1. CASE idFile.clean
    <3>1. d = idFile.view
      BY <2>1 DEF BooksInv
    <3>. HIDE DEF c, d
    <3>. QED
      BY <1>2, <2>1, <3>1
  <2>2. CASE ~idFile.clean
    BY <1>3, <2>2
  <2>. QED
    BY <2>1, <2>2
<1>5. \/ idFile' = idFile
      \/ idFile' = [idFile EXCEPT !.view = Store!Spoil(d), !.clean = FALSE]
      \/ idFile' = [idFile EXCEPT !.view = w, !.clean = FALSE]
  BY DEF Store!AppendFails, Store!Damaged
<1>6. idMem' = idMem
  BY DEF Store!AppendFails
<1>. HIDE DEF w
<1>7. CASE idFile' = idFile
  <2>1. idFile' \in Files(Store!Books) /\ Knows(idFile.view, idFile.view)
    BY <1>7 DEF TypeOK, Knows
  <2>. QED
    BY <1>1, <1>6, <1>7, <2>1
<1>8. ASSUME NEW v \in Store!Books, Proper(v),
             v.healthy => idFile.view.healthy /\ Knows(v, idFile.view),
             idFile' = [idFile EXCEPT !.view = v, !.clean = FALSE]
      PROVE  /\ idFile' \in Files(Store!Books)
             /\ ~idFile'.clean
             /\ Proper(idFile'.disk) /\ Proper(idFile'.view)
             /\ idFile'.view.healthy =>
                    idFile.view.healthy /\ Knows(idFile'.view, idFile.view)
  <2>1. /\ idFile' \in Files(Store!Books)
        /\ ~idFile'.clean /\ idFile'.disk = d /\ idFile'.view = v
    BY <1>8, FileFields DEF TypeOK, Files
  <2>. QED
    BY <1>1, <1>8, <2>1
<1>9. CASE idFile' = [idFile EXCEPT !.view = Store!Spoil(d), !.clean = FALSE]
  BY <1>3, <1>6, <1>8, <1>9
<1>10. CASE idFile' = [idFile EXCEPT !.view = w, !.clean = FALSE]
  BY <1>4, <1>6, <1>8, <1>10
<1>. QED
  BY <1>5, <1>7, <1>9, <1>10

-----------------------------------------------------------------------------
(* The invariant is inductive.                                             *)

LEMMA EmptyProper == Store!EmptyBook \in Store!Books /\ Proper(Store!EmptyBook)
<1>. DEFINE e == Store!EmptyBook
<1>1. e \in Store!Books /\ e.seen = {}
  BY DEF Store!EmptyBook, Store!Books
<1>. HIDE DEF e
<1>2. Store!Recorded(e) = {}
  BY <1>1 DEF Store!Recorded
<1>3. IsFiniteSet({}) /\ Cardinality({}) = 0
  BY FS_EmptySet
<1>4. \A D : {} \cap D = {}
  OBVIOUS
<1>5. WithinBudget(e)
  <2>1. /\ Cardinality(Store!Recorded(e) \cap Devices) = 0
        /\ Cardinality(Store!Recorded(e) \cap Executables) = 0
        /\ Cardinality(Store!Recorded(e) \cap Processes) = 0
        /\ Cardinality(e.seen) = 0
    BY <1>1, <1>2, <1>3, <1>4
  <2>2. {MaxDevices, MaxExecutables, MaxProcesses, MaxAttestations} \subseteq Nat
    BY GateAssumption
  <2>. QED
    BY <2>1, <2>2 DEF WithinBudget
<1>6. Proper(e)
  BY <1>1, <1>3, <1>5 DEF Proper, Consistent
<1>. QED
  BY <1>1, <1>6 DEF e

LEMMA InitInv == Init => IInv
<1>. SUFFICES ASSUME Init PROVE IInv
  OBVIOUS
<1>. DEFINE e == Store!EmptyBook
<1>1. e \in Store!Books /\ Proper(e) /\ e.healthy
  BY EmptyProper DEF Store!EmptyBook
<1>2. idFile = [disk |-> e, view |-> e, clean |-> TRUE] /\ idMem = None
  BY DEF Init, Store!Init, Store!EmptyFile
<1>. HIDE DEF e
<1>3. TypeOK
  BY <1>1, <1>2 DEF Init, TypeOK, Files
<1>. QED
  BY <1>1, <1>2, <1>3 DEF Init, IInv, BooksInv, HoldInv, CallInv, HistoryInv, Holds

LEMMA CallFields ==
    ASSUME TypeOK, call # None
    PROVE  /\ call.at \in {"record", "check", "lease"}
           /\ call.asked \in Challenges /\ call.got \in Attestations
           /\ call = [at |-> call.at, asked |-> call.asked, got |-> call.got]
BY DEF TypeOK, Calls

LEMMA ClockInv == ASSUME IInv, NEW t \in Times, Clock(t) PROVE IInv'
BY DEF Clock, IInv, TypeOK, BooksInv, HoldInv, CallInv, HistoryInv, idVars, Holds

LEMMA OpenInv == ASSUME IInv, Open PROVE IInv'
<1>1. /\ idMem = None /\ idMem' = idFile.view /\ idFile' = idFile
      /\ UNCHANGED <<now, call, granted, struck, failures>>
  BY DEF Open, Store!Open
<1>2. TypeOK'
  BY <1>1, FileFields DEF IInv, TypeOK
<1>3. BooksInv'
  BY <1>1 DEF IInv, BooksInv, Knows
<1>4. HoldInv'
  BY <1>1 DEF IInv, HoldInv, Holds
<1>5. CallInv'
  BY <1>1 DEF IInv, CallInv
<1>6. HistoryInv'
  BY <1>1 DEF IInv, HistoryInv
<1>. QED
  BY <1>2, <1>3, <1>4, <1>5, <1>6 DEF IInv

LEMMA DieInv == ASSUME IInv, Die PROVE IInv'
<1>1. /\ idMem' = None /\ call' = None
      /\ UNCHANGED <<idFile, now, granted, struck, failures>>
  BY DEF Die
<1>. QED
  BY <1>1 DEF IInv, TypeOK, BooksInv, HoldInv, Holds, CallInv, HistoryInv

LEMMA MeasureInv ==
    ASSUME IInv, NEW c \in Challenges, NEW a \in Attestations, Measure(c, a)
    PROVE  IInv'
<1>1. /\ idMem # None
      /\ call' = [at |-> "record", asked |-> c, got |-> a]
      /\ UNCHANGED <<idFile, idMem, now, granted, struck, failures>>
  BY DEF Measure, Idle, idVars
<1>2. TypeOK'
  BY <1>1 DEF IInv, TypeOK, Calls
<1>3. BooksInv' /\ HoldInv' /\ HistoryInv'
  BY <1>1 DEF IInv, BooksInv, HoldInv, Holds, HistoryInv
<1>4. CallInv'
  BY <1>1 DEF CallInv
<1>. QED
  BY <1>2, <1>3, <1>4 DEF IInv

LEMMA AppendBooks ==
    ASSUME IInv, NEW l, Store!Running, Legit(idMem, l), Store!Append(l),
           failures' = failures
    PROVE  BooksInv'
<1>1. /\ idFile'.clean /\ idFile'.view = idFile'.disk
      /\ Proper(idFile'.disk) /\ Proper(idMem')
      /\ idFile'.view.healthy => idFile'.view = idMem'
      /\ idFile.clean /\ idFile.view.healthy => idFile'.view.healthy
  BY AppendStep DEF IInv
<1>2. Proper(idFile'.view)
  BY <1>1
<1>3. idFile'.view.healthy => Knows(idFile'.view, idMem')
  BY <1>1 DEF Knows
<1>4. failures' = 0 => idFile'.view.healthy
  BY <1>1 DEF IInv, BooksInv
<1>. QED
  BY <1>1, <1>2, <1>3, <1>4 DEF BooksInv

\* What was acknowledged before stays, and the line of the append joins it.
LEMMA AppendHolds ==
    ASSUME IInv, NEW l, Store!Running, Legit(idMem, l), Store!Append(l),
           granted' = granted,
           struck' = IF l.kind = "R" THEN struck \cup {l.of} ELSE struck
    PROVE  HoldInv'
<1>1. idMem' = Store!After(idMem, l) /\ (idFile'.view.healthy => idFile'.view = idMem')
  BY AppendStep DEF IInv
<1>2. Holds(idMem) /\ idMem \in Store!Books
  BY DEF IInv, HoldInv, TypeOK, Store!Running
<1>3. /\ idMem'.seen = IF l.kind = "O" THEN idMem.seen \cup {l.of} ELSE idMem.seen
      /\ idMem'.revoked = IF l.kind = "R" THEN idMem.revoked \cup {l.of} ELSE idMem.revoked
  BY <1>1, <1>2, AfterEffect
<1>4. Holds(idMem)'
  BY <1>2, <1>3 DEF Holds
<1>. QED
  BY <1>1, <1>4 DEF HoldInv, Holds

LEMMA FailBooks ==
    ASSUME IInv, NEW l, Store!Running, Legit(idMem, l), Store!AppendFails(l), Fails
    PROVE  BooksInv'
<1>1. /\ idMem' = idMem
      /\ idFile' = idFile \/ ~idFile'.clean
      /\ Proper(idFile'.disk) /\ Proper(idFile'.view)
      /\ idFile'.view.healthy => idFile.view.healthy /\ Knows(idFile'.view, idFile.view)
  BY FailStep DEF IInv
<1>2. failures' # 0
  BY DEF Fails, IInv, TypeOK
<1>3. idFile'.clean => idFile'.view = idFile'.disk
  BY <1>1 DEF IInv, BooksInv
<1>4. ASSUME idMem' # None
      PROVE  /\ Proper(idMem')
             /\ idFile'.view.healthy => Knows(idFile'.view, idMem')
             /\ idFile'.clean /\ idFile'.view.healthy => idMem' = idFile'.view
  <2>1. /\ Proper(idMem)
        /\ idFile.view.healthy => Knows(idFile.view, idMem)
        /\ idFile.clean /\ idFile.view.healthy => idMem = idFile.view
    BY <1>1, <1>4 DEF IInv, BooksInv
  <2>2. idFile'.view.healthy => Knows(idFile'.view, idMem')
    BY <1>1, <2>1 DEF Knows
  <2>. QED
    BY <1>1, <2>1, <2>2
<1>. QED
  BY <1>1, <1>2, <1>3, <1>4 DEF BooksInv

LEMMA FailHolds ==
    ASSUME IInv, NEW l, Store!Running, Legit(idMem, l), Store!AppendFails(l),
           granted' = granted, struck' = struck
    PROVE  HoldInv'
<1>1. /\ idMem' = idMem
      /\ idFile'.view.healthy => idFile.view.healthy /\ Knows(idFile'.view, idFile.view)
  BY FailStep DEF IInv
<1>. QED
  BY <1>1 DEF IInv, HoldInv, Holds, Knows

LEMMA ObservationLegit ==
    ASSUME TypeOK, NEW a \in Attestations, Store!MayRecord(a)
    PROVE  Store!Running /\ Legit(idMem, Store!ObservationLine(a))
BY DEF Store!MayRecord, Store!ObservationLine, Legit

LEMMA RevocationLegit ==
    ASSUME TypeOK, NEW x \in Store!Identities, Store!MayRevoke(x)
    PROVE  Store!Running /\ Legit(idMem, Store!RevocationLine(x))
BY DEF Store!MayRevoke, Store!RevocationLine, Legit

LEMMA RecordInv == ASSUME IInv, Record PROVE IInv'
<1>. DEFINE a == call.got
            l == Store!ObservationLine(a)
            gone == [call EXCEPT !.at = "check"]
<1>0. /\ idMem # None /\ call # None /\ call.at = "record"
      /\ now' = now /\ granted' = granted /\ struck' = struck
  BY DEF Record, At
<1>1. /\ a \in Attestations
      /\ gone \in Calls /\ gone.at = "check" /\ gone.asked = call.asked /\ gone.got = a
  BY <1>0, CallFields DEF IInv, TypeOK, Calls
<1>2. HistoryInv'
  BY <1>0 DEF IInv, HistoryInv
<1>3. l.kind = "O" /\ l.of = a
  BY DEF Store!ObservationLine
<1>. HIDE DEF gone
<1>4. CASE Store!AlreadyRecorded(a) /\ Goto("check") /\ UNCHANGED <<idVars, failures>>
  <2>1. call' = gone /\ idFile' = idFile /\ idMem' = idMem /\ failures' = failures
    BY <1>4 DEF Goto, idVars, gone
  <2>2. TypeOK'
    BY <1>0, <1>1, <2>1 DEF IInv, TypeOK
  <2>3. BooksInv' /\ HoldInv'
    BY <1>0, <2>1 DEF IInv, BooksInv, HoldInv, Holds
  <2>4. idMem.healthy /\ a \in idMem.seen
    BY <1>4 DEF Store!AlreadyRecorded, Store!Running
  <2>5. CallInv'
    BY <1>0, <1>1, <2>1, <2>4 DEF CallInv
  <2>. QED
    BY <1>2, <2>2, <2>3, <2>5 DEF IInv
<1>5. CASE Store!MayRecord(a) /\ Store!Append(l) /\ Goto("check") /\ UNCHANGED failures
  <2>1. call' = gone /\ failures' = failures
    BY <1>5 DEF Goto, gone
  <2>2. Store!Running /\ Legit(idMem, l) /\ Store!Append(l)
    BY <1>1, <1>5, ObservationLegit DEF IInv
  <2>. HIDE DEF l
  <2>3. /\ idFile' \in Files(Store!Books) /\ idMem' \in Store!Books
        /\ idMem' = Store!After(idMem, l) /\ idMem'.healthy
    BY <2>2, AppendStep DEF IInv
  <2>4. TypeOK'
    BY <1>0, <1>1, <2>1, <2>3 DEF IInv, TypeOK
  <2>5. BooksInv'
    BY <2>1, <2>2, AppendBooks
  <2>6. HoldInv'
    BY <1>0, <1>3, <2>2, AppendHolds
  <2>7. idMem \in Store!Books /\ idMem' # None
    BY <1>0, <2>3, GateAssumption DEF IInv, TypeOK
  <2>8. a \in idMem'.seen
    BY <1>3, <2>2, <2>3, <2>7, AfterEffect
  <2>9. CallInv'
    BY <1>1, <2>1, <2>3, <2>7, <2>8 DEF CallInv
  <2>. QED
    BY <1>2, <2>4, <2>5, <2>6, <2>9 DEF IInv
<1>6. CASE Store!MayRecord(a) /\ Store!AppendFails(l) /\ call' = None /\ Fails
  <2>2. Store!Running /\ Legit(idMem, l) /\ Store!AppendFails(l)
    BY <1>1, <1>6, ObservationLegit DEF IInv
  <2>. HIDE DEF l
  <2>3. idFile' \in Files(Store!Books) /\ idMem' = idMem
    BY <2>2, FailStep DEF IInv
  <2>4. TypeOK'
    BY <1>0, <1>6, <2>3 DEF IInv, TypeOK, Fails
  <2>5. BooksInv'
    BY <1>6, <2>2, FailBooks
  <2>6. HoldInv'
    BY <1>0, <2>2, FailHolds
  <2>7. CallInv'
    BY <1>6 DEF CallInv
  <2>. QED
    BY <1>2, <2>4, <2>5, <2>6, <2>7 DEF IInv
<1>7. CASE call' = None /\ UNCHANGED <<idVars, failures>>
  BY <1>0, <1>2, <1>7 DEF IInv, TypeOK, BooksInv, HoldInv, Holds, CallInv, idVars
<1>. QED
  BY <1>4, <1>5, <1>6, <1>7 DEF Record

LEMMA CheckInv == ASSUME IInv, Check PROVE IInv'
<1>. DEFINE gone == [call EXCEPT !.at = "lease"]
<1>0. /\ idMem # None /\ call # None /\ call.at = "check"
      /\ UNCHANGED <<idFile, idMem, now, granted, struck, failures>>
      /\ IF Answers THEN call' = gone ELSE call' = None
  BY DEF Check, At, Goto, idVars
<1>1. gone \in Calls /\ gone.at = "lease" /\ gone.asked = call.asked /\ gone.got = call.got
  BY <1>0, CallFields DEF IInv, TypeOK, Calls
<1>2. idMem.healthy /\ call.got \in idMem.seen
  BY <1>0 DEF IInv, CallInv
<1>3. BooksInv' /\ HoldInv' /\ HistoryInv'
  BY <1>0 DEF IInv, BooksInv, HoldInv, Holds, HistoryInv
<1>. HIDE DEF gone
<1>4. TypeOK'
  BY <1>0, <1>1 DEF IInv, TypeOK
<1>5. CallInv'
  BY <1>0, <1>1, <1>2 DEF CallInv, Answers
<1>. QED
  BY <1>3, <1>4, <1>5 DEF IInv

LEMMA AskInv == ASSUME IInv, AskLeaseGate PROVE IInv'
<1>. DEFINE g == [asked |-> call.asked, got |-> call.got]
<1>0. /\ idMem # None /\ call # None /\ call.at = "lease"
      /\ UNCHANGED <<idFile, idMem, now, struck, failures>>
      /\ granted' = granted \cup {g} /\ call' = None
  BY DEF AskLeaseGate, At, idVars
<1>1. g \in [asked : Challenges, got : Attestations]
  BY <1>0, CallFields DEF IInv
<1>2. /\ idMem.healthy /\ g.got \in idMem.seen
      /\ Seen[g.got].challenge = g.asked
  BY <1>0 DEF IInv, CallInv
<1>. HIDE DEF g
<1>3. TypeOK'
  BY <1>0, <1>1 DEF IInv, TypeOK
<1>4. BooksInv' /\ CallInv'
  BY <1>0 DEF IInv, BooksInv, CallInv
<1>5. HoldInv'
  <2>1. idFile.view.healthy => g.got \in idFile.view.seen
    BY <1>0, <1>2 DEF IInv, BooksInv, Knows
  <2>. QED
    BY <1>0, <1>2, <2>1 DEF IInv, HoldInv, Holds
<1>6. HistoryInv'
  <2>1. \A h \in granted' : h.got \in idMem.seen
    BY <1>0, <1>2 DEF IInv, HoldInv, Holds
  <2>2. Consistent(idMem.seen)
    BY <1>0 DEF IInv, BooksInv, Proper
  <2>3. \A h \in granted' : Seen[h.got].challenge = h.asked
    BY <1>0, <1>2 DEF IInv, HistoryInv
  <2>. QED
    BY <2>1, <2>2, <2>3 DEF HistoryInv, Consistent
<1>. QED
  BY <1>3, <1>4, <1>5, <1>6 DEF IInv

LEMMA RevokeInv == ASSUME IInv, NEW x \in Store!Identities, Revoke(x) PROVE IInv'
<1>. DEFINE l == Store!RevocationLine(x)
<1>0. /\ idMem # None /\ call = None /\ Store!MayRevoke(x)
      /\ now' = now /\ call' = call /\ granted' = granted
  BY DEF Revoke, Idle
<1>1. /\ Store!Running /\ Legit(idMem, l)
      /\ l.kind = "R" /\ l.of = x
  BY <1>0, RevocationLegit DEF IInv, Store!RevocationLine
<1>2. HistoryInv' /\ CallInv'
  BY <1>0 DEF IInv, HistoryInv, CallInv
<1>3. CASE Store!Append(l) /\ struck' = struck \cup {x} /\ UNCHANGED failures
  <2>. HIDE DEF l
  <2>1. idFile' \in Files(Store!Books) /\ idMem' \in Store!Books
    BY <1>1, <1>3, AppendStep DEF IInv
  <2>2. TypeOK'
    BY <1>0, <1>3, <2>1 DEF IInv, TypeOK
  <2>3. BooksInv'
    BY <1>1, <1>3, AppendBooks
  <2>4. HoldInv'
    BY <1>0, <1>1, <1>3, AppendHolds
  <2>. QED
    BY <1>2, <2>2, <2>3, <2>4 DEF IInv
<1>4. CASE Store!AppendFails(l) /\ Fails /\ UNCHANGED struck
  <2>. HIDE DEF l
  <2>1. idFile' \in Files(Store!Books) /\ idMem' = idMem
    BY <1>1, <1>4, FailStep DEF IInv
  <2>2. TypeOK'
    BY <1>0, <1>4, <2>1 DEF IInv, TypeOK, Fails
  <2>3. BooksInv'
    BY <1>1, <1>4, FailBooks
  <2>4. HoldInv'
    BY <1>0, <1>1, <1>4, FailHolds
  <2>. QED
    BY <1>2, <2>2, <2>3, <2>4 DEF IInv
<1>. QED
  BY <1>3, <1>4 DEF Revoke

LEMMA StutterInv == ASSUME IInv, UNCHANGED vars PROVE IInv'
BY DEF IInv, TypeOK, BooksInv, HoldInv, Holds, CallInv, HistoryInv, vars, idVars

\* The inductive invariant of the attested gate.
THEOREM Invariant == Spec => []IInv
<1>1. IInv /\ [Next]_vars => IInv'
  <2>. SUFFICES ASSUME IInv, [Next]_vars PROVE IInv'
    OBVIOUS
  <2>. QED
    BY ClockInv, OpenInv, DieInv, MeasureInv, RecordInv, CheckInv, AskInv, RevokeInv,
       StutterInv DEF Next
<1>. QED
  BY InitInv, <1>1, PTL DEF Spec

-----------------------------------------------------------------------------
(* What follows from it.                                                   *)

\* README law 79, for every execution: evidence the lease gate was asked with
\* is in every book that can be read, answers the challenge that was asked, and
\* agrees with all other evidence of its process that was given privilege.
THEOREM IdentityComesFirst == Spec => []PersistedBeforePrivilege
<1>1. IInv => PersistedBeforePrivilege
  BY DEF IInv, HoldInv, Holds, HistoryInv, PersistedBeforePrivilege, Readable
<1>. QED
  BY Invariant, <1>1, PTL

\* What the operations write, replay accepts: without a failed append the
\* journal replays to the book of the process, and no book that can be read is
\* over the budget, whatever the limits are.
THEOREM ReplayIsMemory == Spec => []ReplayAgrees
<1>1. IInv => ReplayAgrees
  BY DEF IInv, BooksInv, Proper, ReplayAgrees, Readable
<1>. QED
  BY Invariant, <1>1, PTL

\* README laws 74 and 78, as steps: an acknowledged revocation is in every book
\* that can be read, the policy engine is denied its identity, and no evidence
\* of it enters the running book.
THEOREM RevocationIsFinal == Spec => RevokedForGood
<1>. DEFINE Held == /\ \A x \in struck : \A b \in Readable : x \in b.revoked
                    /\ \A a \in Attestations :
                        /\ Store!Parts(a) \cap struck # {} => ~Store!IdentityActive(a)
                        /\ idMem # None /\ idMem' # None /\ a \in idMem'.seen \ idMem.seen =>
                            Store!Parts(a) \cap struck = {}
<1>1. ASSUME IInv, [Next]_vars PROVE Held
  <2>1. \A x \in struck : \A b \in Readable : x \in b.revoked
    BY <1>1 DEF IInv, HoldInv, Holds, Readable
  <2>2. Store!Running => struck \subseteq idMem.revoked
    BY <1>1 DEF IInv, HoldInv, Holds, Store!Running
  <2>3. ASSUME NEW a \in Attestations, Store!Parts(a) \cap struck # {}
        PROVE  ~Store!IdentityActive(a)
    BY <2>2, <2>3 DEF Store!IdentityActive
  <2>4. ASSUME NEW a \in Attestations,
               idMem # None, idMem' # None, a \in idMem'.seen, a \notin idMem.seen
        PROVE  Store!Parts(a) \cap struck = {}
    <3>1. idMem' # idMem
      BY <2>4
    <3>2. Record \/ \E x \in Store!Identities : Revoke(x)
      BY <1>1, <2>4, <3>1 DEF Next, vars, idVars, Clock, Open, Die, Measure, Check, AskLeaseGate
    <3>3. idMem \in Store!Books
      BY <1>1, <2>4 DEF IInv, TypeOK
    <3>4. CASE Record
      <4>. DEFINE got == call.got
                  l == Store!ObservationLine(got)
      <4>1. Store!MayRecord(got) /\ Store!Append(l)
        BY <3>1, <3>4 DEF Record, idVars, Store!AppendFails
      <4>2. got \in Attestations
        BY <1>1, <3>4, CallFields DEF Record, At, IInv
      <4>3. /\ Store!Running /\ Legit(idMem, l) /\ l.kind = "O" /\ l.of = got
            /\ Store!Parts(got) \cap idMem.revoked = {}
        BY <1>1, <4>1, <4>2, ObservationLegit DEF IInv, Store!MayRecord, Store!ObservationLine
      <4>. HIDE DEF l
      <4>4. idMem' = Store!After(idMem, l)
        BY <4>1 DEF Store!Append
      <4>5. a = got
        BY <2>4, <3>3, <4>3, <4>4, AfterEffect
      <4>. QED
        BY <2>2, <4>3, <4>5
    <3>5. ASSUME NEW x \in Store!Identities, Revoke(x) PROVE FALSE
      <4>. DEFINE l == Store!RevocationLine(x)
      <4>1. Store!MayRevoke(x) /\ Store!Append(l)
        BY <3>1, <3>5 DEF Revoke, Store!AppendFails
      <4>2. Legit(idMem, l) /\ l.kind = "R"
        BY <1>1, <4>1, RevocationLegit DEF IInv, Store!RevocationLine
      <4>. HIDE DEF l
      <4>3. idMem' = Store!After(idMem, l)
        BY <4>1 DEF Store!Append
      <4>. QED
        BY <2>4, <3>3, <4>2, <4>3, AfterEffect
    <3>. QED
      BY <3>2, <3>4, <3>5
  <2>. QED
    BY <2>1, <2>3, <2>4
<1>2. IInv /\ [Next]_vars => [Held]_vars
  BY <1>1
<1>. QED
  BY Invariant, <1>2, PTL DEF Spec, RevokedForGood
=============================================================================
