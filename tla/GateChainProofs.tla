--------------------------- MODULE GateChainProofs --------------------------
(***************************************************************************)
(* Proofs about the chain of gates, for any receipts, bundles, leases,     *)
(* faults and number of failures.  There are two invariants.               *)
(*                                                                         *)
(* IInv is about who may act.  OneBranchPerKey speaks of hand-offs that    *)
(* were ISSUED; what protects it is in the journals: every book of keys a  *)
(* decision can be taken from holds the branches that were handed off      *)
(* (KeysHeld), and no book of leases holds a lease of any other branch     *)
(* (LeasesHeld), although a branch whose line failed to be written may be  *)
(* read back later.                                                        *)
(*                                                                         *)
(* JInv is about what was spent and revoked.  It compares the three        *)
(* ledgers book by book, with the use that a running call has taken below  *)
(* and not yet counted above; UsesAreBacked, OnlyFailuresBurn and          *)
(* RevocationsHold follow from it.                                         *)
(***************************************************************************)
EXTENDS GateChain, FoldLemmas

KeyLines ==
    [kind : {"H"}, seq : Nat, branch : Branches]
        \cup [kind : {"U"}, seq : Nat, branch : Branches, index : Nat]
        \cup [kind : {"X"}, seq : Nat, branch : Branches, at : Times]
        \cup [kind : {"R"}, seq : Nat, key : EphemeralKeys, at : Times]

LeaseLines ==
    [kind : {"L", "X"}, seq : Nat, lease : Leases]
        \cup [kind : {"U"}, seq : Nat, lease : Leases, index : Nat]

Types ==
    /\ GateTypeOK
    /\ granted \in [Receipts -> Nat]
    /\ handed \subseteq Branches

\* Whoever may register a branch knows those that were handed off.
KeysHeld ==
    /\ \A b \in {keyFile.disk, keyFile.view} : b.healthy => handed \subseteq b.registered
    /\ keyMem # None /\ keyMem.healthy => handed \subseteq keyMem.registered

\* Only leases of branches that were handed off are ever read.
Backed(b) == \A l \in b.registered : BranchOf(l) \in handed

LeasesHeld ==
    /\ Backed(leaseFile.disk) /\ Backed(leaseFile.view)
    /\ leaseMem # None => Backed(leaseMem)

CallsHeld == call # None /\ call.at \in Steps => BranchOf(call.lease) \in handed

IInv == Types /\ KeysHeld /\ LeasesHeld /\ CallsHeld /\ OneBranchPerKey

-----------------------------------------------------------------------------
(* What a line does to a book of keys and to its file.                      *)

LEMMA Fields ==
    ASSUME NEW c \in SessionKeys!Books
    PROVE  /\ \A v \in SUBSET Branches :
                LET d == [c EXCEPT !.registered = v] IN
                d \in SessionKeys!Books /\ d.healthy = c.healthy /\ d.registered = v
           /\ \A v \in [Branches -> Nat] :
                LET d == [c EXCEPT !.uses = v] IN
                d \in SessionKeys!Books /\ d.healthy = c.healthy /\ d.registered = c.registered
           /\ \A v \in [Branches -> Times \cup {0}] :
                LET d == [c EXCEPT !.revoked = v] IN
                d \in SessionKeys!Books /\ d.healthy = c.healthy /\ d.registered = c.registered
           /\ \A v \in [EphemeralKeys -> Times \cup {0}] :
                LET d == [c EXCEPT !.keyRevoked = v] IN
                d \in SessionKeys!Books /\ d.healthy = c.healthy /\ d.registered = c.registered
PROOF
  <1>1. \A v \in SUBSET Branches :
            LET d == [c EXCEPT !.registered = v] IN
            d \in SessionKeys!Books /\ d.healthy = c.healthy /\ d.registered = v
    BY DEF SessionKeys!Books
  <1>2. \A v \in [Branches -> Nat] :
            LET d == [c EXCEPT !.uses = v] IN
            d \in SessionKeys!Books /\ d.healthy = c.healthy /\ d.registered = c.registered
    BY DEF SessionKeys!Books
  <1>3. \A v \in [Branches -> Times \cup {0}] :
            LET d == [c EXCEPT !.revoked = v] IN
            d \in SessionKeys!Books /\ d.healthy = c.healthy /\ d.registered = c.registered
    BY DEF SessionKeys!Books
  <1>4. \A v \in [EphemeralKeys -> Times \cup {0}] :
            LET d == [c EXCEPT !.keyRevoked = v] IN
            d \in SessionKeys!Books /\ d.healthy = c.healthy /\ d.registered = c.registered
    BY DEF SessionKeys!Books
  <1> QED
    BY <1>1, <1>2, <1>3, <1>4

LEMMA KeyLineRead ==
    ASSUME NEW b \in SessionKeys!Books, NEW l \in KeyLines
    PROVE  /\ SessionKeys!After(b, l) \in SessionKeys!Books
           /\ SessionKeys!After(b, l).healthy = b.healthy
           /\ b.registered \subseteq SessionKeys!After(b, l).registered
           /\ l.kind = "H" => l.branch \in SessionKeys!After(b, l).registered
PROOF
  <1> DEFINE c == [b EXCEPT !.next = @ + 1]
  <1>1. c \in SessionKeys!Books /\ c.healthy = b.healthy /\ c.registered = b.registered
    BY DEF SessionKeys!Books
  <1>2. CASE l.kind = "H"
    <2>1. SessionKeys!After(b, l) = [c EXCEPT !.registered = @ \cup {l.branch}]
      BY <1>2 DEF SessionKeys!After
    <2>2. l.branch \in Branches
      BY <1>2 DEF KeyLines
    <2>3. PICK v \in SUBSET Branches : v = c.registered \cup {l.branch}
      BY <1>1, <2>2 DEF SessionKeys!Books
    <2>4. SessionKeys!After(b, l) = [c EXCEPT !.registered = v]
      BY <2>1, <2>3
    <2> HIDE DEF c
    <2>5. /\ [c EXCEPT !.registered = v] \in SessionKeys!Books
          /\ [c EXCEPT !.registered = v].healthy = c.healthy
          /\ [c EXCEPT !.registered = v].registered = v
      BY <1>1, <2>3, Fields
    <2> QED
      BY <1>1, <2>3, <2>4, <2>5
  <1>3. CASE l.kind = "U"
    <2>1. SessionKeys!After(b, l) = [c EXCEPT !.uses[l.branch] = l.index]
      BY <1>3 DEF SessionKeys!After
    <2>2. l.branch \in Branches /\ l.index \in Nat
      BY <1>3 DEF KeyLines
    <2>3. PICK v \in [Branches -> Nat] : v = [c.uses EXCEPT ![l.branch] = l.index]
      BY <1>1, <2>2 DEF SessionKeys!Books
    <2>4. SessionKeys!After(b, l) = [c EXCEPT !.uses = v]
      BY <2>1, <2>3
    <2> HIDE DEF c
    <2>5. /\ [c EXCEPT !.uses = v] \in SessionKeys!Books
          /\ [c EXCEPT !.uses = v].healthy = c.healthy
          /\ [c EXCEPT !.uses = v].registered = c.registered
      BY <1>1, <2>3, Fields
    <2> QED
      BY <1>1, <1>3, <2>3, <2>4, <2>5
  <1>4. CASE l.kind = "X"
    <2>1. SessionKeys!After(b, l) = [c EXCEPT !.revoked[l.branch] = l.at]
      BY <1>4 DEF SessionKeys!After
    <2>2. l.branch \in Branches /\ l.at \in Times
      BY <1>4 DEF KeyLines
    <2>3. PICK v \in [Branches -> Times \cup {0}] : v = [c.revoked EXCEPT ![l.branch] = l.at]
      BY <1>1, <2>2 DEF SessionKeys!Books
    <2>4. SessionKeys!After(b, l) = [c EXCEPT !.revoked = v]
      BY <2>1, <2>3
    <2> HIDE DEF c
    <2>5. /\ [c EXCEPT !.revoked = v] \in SessionKeys!Books
          /\ [c EXCEPT !.revoked = v].healthy = c.healthy
          /\ [c EXCEPT !.revoked = v].registered = c.registered
      BY <1>1, <2>3, Fields
    <2> QED
      BY <1>1, <1>4, <2>3, <2>4, <2>5
  <1>5. CASE l.kind = "R"
    <2>1. SessionKeys!After(b, l) = [c EXCEPT !.keyRevoked[l.key] = l.at]
      BY <1>5 DEF SessionKeys!After
    <2>2. l.key \in EphemeralKeys /\ l.at \in Times
      BY <1>5 DEF KeyLines
    <2>3. PICK v \in [EphemeralKeys -> Times \cup {0}] : v = [c.keyRevoked EXCEPT ![l.key] = l.at]
      BY <1>1, <2>2 DEF SessionKeys!Books
    <2>4. SessionKeys!After(b, l) = [c EXCEPT !.keyRevoked = v]
      BY <2>1, <2>3
    <2> HIDE DEF c
    <2>5. /\ [c EXCEPT !.keyRevoked = v] \in SessionKeys!Books
          /\ [c EXCEPT !.keyRevoked = v].healthy = c.healthy
          /\ [c EXCEPT !.keyRevoked = v].registered = c.registered
      BY <1>1, <2>3, Fields
    <2> QED
      BY <1>1, <1>5, <2>3, <2>4, <2>5
  <1> QED
    BY <1>2, <1>3, <1>4, <1>5 DEF KeyLines

LEMMA KeyLineReplayed ==
    ASSUME NEW b \in SessionKeys!Books, NEW l \in KeyLines
    PROVE  /\ SessionKeys!ReplayLine(b, l) \in SessionKeys!Books
           /\ SessionKeys!ReplayLine(b, l).healthy => b.healthy
           /\ b.registered \subseteq SessionKeys!ReplayLine(b, l).registered
           /\ SessionKeys!ReplayLine(b, l).healthy /\ l.kind = "H" =>
                l.branch \in SessionKeys!ReplayLine(b, l).registered
PROOF
  <1>1. CASE ~b.healthy
    BY <1>1 DEF SessionKeys!ReplayLine
  <1>2. CASE b.healthy /\ SessionKeys!Accepts(b, l)
    BY <1>2, KeyLineRead DEF SessionKeys!ReplayLine
  <1>3. CASE b.healthy /\ ~SessionKeys!Accepts(b, l)
    <2>1. SessionKeys!ReplayLine(b, l) = [b EXCEPT !.healthy = FALSE]
      BY <1>3 DEF SessionKeys!ReplayLine, SessionKeys!Spoil
    <2> QED
      BY <2>1 DEF SessionKeys!Books
  <1> QED
    BY <1>1, <1>2, <1>3

LEMMA KeyAppend ==
    ASSUME Types, NEW l \in KeyLines, keyMem # None, SessionKeys!Append(l)
    PROVE  /\ keyFile' \in Files(SessionKeys!Books) /\ keyMem' \in SessionKeys!Books
           /\ keyMem'.healthy = keyMem.healthy
           /\ keyMem.registered \subseteq keyMem'.registered
           /\ l.kind = "H" => l.branch \in keyMem'.registered
           /\ keyFile'.view = keyFile'.disk
           /\ keyFile'.disk.healthy =>
                /\ keyFile.disk.healthy /\ keyFile.disk.registered \subseteq keyFile'.disk.registered
                /\ l.kind = "H" => l.branch \in keyFile'.disk.registered
PROOF
  <1>1. keyFile.disk \in SessionKeys!Books /\ keyMem \in SessionKeys!Books
    BY DEF Types, GateTypeOK, Files
  <1> DEFINE book == SessionKeys!ReplayLine(keyFile.disk, l)
             whole == IF keyFile.clean THEN book ELSE SessionKeys!Spoil(keyFile.disk)
  <1>2. keyFile' = [disk |-> whole, view |-> whole, clean |-> TRUE]
    BY DEF SessionKeys!Append, SessionKeys!Appended
  <1>3. SessionKeys!Spoil(keyFile.disk) \in SessionKeys!Books
        /\ ~SessionKeys!Spoil(keyFile.disk).healthy
    BY <1>1 DEF SessionKeys!Spoil, SessionKeys!Books
  <1>4. whole \in SessionKeys!Books
        /\ (whole.healthy => whole = book)
    BY <1>1, <1>3, KeyLineReplayed
  <1>5. keyFile' \in Files(SessionKeys!Books) /\ keyFile'.view = whole /\ keyFile'.disk = whole
    BY <1>2, <1>4 DEF Files
  <1>6. keyMem' = SessionKeys!After(keyMem, l)
    BY DEF SessionKeys!Append
  <1>7. /\ keyMem' \in SessionKeys!Books /\ keyMem'.healthy = keyMem.healthy
        /\ keyMem.registered \subseteq keyMem'.registered
        /\ l.kind = "H" => l.branch \in keyMem'.registered
    BY <1>1, <1>6, KeyLineRead
  <1>8. whole.healthy =>
            /\ keyFile.disk.healthy /\ keyFile.disk.registered \subseteq whole.registered
            /\ l.kind = "H" => l.branch \in whole.registered
    BY <1>1, <1>4, KeyLineReplayed
  <1> HIDE DEF whole
  <1> QED
    BY <1>5, <1>7, <1>8

LEMMA KeyAppendFails ==
    ASSUME Types, NEW l \in KeyLines, SessionKeys!AppendFails(l)
    PROVE  /\ keyFile' \in Files(SessionKeys!Books) /\ keyMem' = keyMem
           /\ keyFile'.disk = keyFile.disk
           /\ keyFile'.view = keyFile.view \/ ~keyFile'.view.healthy
              \/ /\ keyFile.disk.healthy
                 /\ keyFile.disk.registered \subseteq keyFile'.view.registered
PROOF
  <1>1. keyFile.disk \in SessionKeys!Books /\ keyFile \in Files(SessionKeys!Books)
    BY DEF Types, GateTypeOK, Files
  <1> DEFINE book == SessionKeys!ReplayLine(keyFile.disk, l)
             tail == IF keyFile.clean THEN book ELSE SessionKeys!Spoil(keyFile.disk)
  <1>2. \/ keyFile' = keyFile
        \/ keyFile' = [keyFile EXCEPT !.view = SessionKeys!Spoil(keyFile.disk), !.clean = FALSE]
        \/ keyFile' = [keyFile EXCEPT !.view = tail, !.clean = FALSE]
    BY DEF SessionKeys!AppendFails, SessionKeys!Damaged
  <1>3. SessionKeys!Spoil(keyFile.disk) \in SessionKeys!Books
        /\ ~SessionKeys!Spoil(keyFile.disk).healthy
    BY <1>1 DEF SessionKeys!Spoil, SessionKeys!Books
  <1>4. book \in SessionKeys!Books /\ (book.healthy => keyFile.disk.healthy)
        /\ keyFile.disk.registered \subseteq book.registered
    BY <1>1, KeyLineReplayed
  <1>5. tail \in SessionKeys!Books
        /\ (tail.healthy => keyFile.disk.healthy /\ keyFile.disk.registered \subseteq tail.registered)
    BY <1>3, <1>4
  <1>6. keyMem' = keyMem
    BY DEF SessionKeys!AppendFails
  <1> HIDE DEF tail
  <1> QED
    BY <1>1, <1>2, <1>3, <1>5, <1>6 DEF Files

-----------------------------------------------------------------------------
(* What a line does to a book of leases and to its file: only an L line     *)
(* makes a lease known.                                                     *)

Known(l, S) == l.kind = "L" => l.lease \in S

LEMMA LeaseLineRead ==
    ASSUME NEW b \in RuntimeLeases!Books, NEW l \in LeaseLines, NEW S,
           b.registered \subseteq S, Known(l, S)
    PROVE  /\ RuntimeLeases!After(b, l) \in RuntimeLeases!Books
           /\ RuntimeLeases!After(b, l).registered \subseteq S
PROOF
  <1> DEFINE c == [b EXCEPT !.next = @ + 1]
  <1>1. c \in RuntimeLeases!Books /\ c.registered = b.registered
    BY DEF RuntimeLeases!Books
  <1>2. l.lease \in Leases
    BY DEF LeaseLines
  <1>3. CASE l.kind = "L"
    <2>1. PICK v \in SUBSET Leases : v = c.registered \cup {l.lease}
      BY <1>1, <1>2 DEF RuntimeLeases!Books
    <2>2. RuntimeLeases!After(b, l) = [c EXCEPT !.registered = v]
      BY <1>3, <2>1 DEF RuntimeLeases!After
    <2>3. v \subseteq S
      BY <1>1, <1>3, <2>1 DEF Known
    <2> HIDE DEF c
    <2> QED
      BY <1>1, <2>2, <2>3 DEF RuntimeLeases!Books
  <1>4. CASE l.kind = "U"
    <2>1. l.index \in Nat
      BY <1>4 DEF LeaseLines
    <2>2. PICK v \in [Leases -> Nat] : v = [c.uses EXCEPT ![l.lease] = l.index]
      BY <1>1, <1>2, <2>1 DEF RuntimeLeases!Books
    <2>3. RuntimeLeases!After(b, l) = [c EXCEPT !.uses = v]
      BY <1>4, <2>2 DEF RuntimeLeases!After
    <2> HIDE DEF c
    <2> QED
      BY <1>1, <2>3 DEF RuntimeLeases!Books
  <1>5. CASE l.kind = "X"
    <2>1. PICK v \in SUBSET Leases : v = c.revoked \cup {l.lease}
      BY <1>1, <1>2 DEF RuntimeLeases!Books
    <2>2. RuntimeLeases!After(b, l) = [c EXCEPT !.revoked = v]
      BY <1>5, <2>1 DEF RuntimeLeases!After
    <2> HIDE DEF c
    <2> QED
      BY <1>1, <2>2 DEF RuntimeLeases!Books
  <1> QED
    BY <1>3, <1>4, <1>5 DEF LeaseLines

LEMMA LeaseSpoiled ==
    ASSUME NEW b \in RuntimeLeases!Books
    PROVE  /\ RuntimeLeases!Spoil(b) \in RuntimeLeases!Books
           /\ RuntimeLeases!Spoil(b).registered = b.registered
BY DEF RuntimeLeases!Spoil, RuntimeLeases!Books

LEMMA LeaseLineReplayed ==
    ASSUME NEW b \in RuntimeLeases!Books, NEW l \in LeaseLines, NEW S,
           b.registered \subseteq S, Known(l, S)
    PROVE  /\ RuntimeLeases!ReplayLine(b, l) \in RuntimeLeases!Books
           /\ RuntimeLeases!ReplayLine(b, l).registered \subseteq S
BY LeaseLineRead, LeaseSpoiled DEF RuntimeLeases!ReplayLine

LEMMA LeaseAppend ==
    ASSUME GateTypeOK, NEW l \in LeaseLines, leaseMem # None, NEW S,
           leaseFile.disk.registered \subseteq S, leaseMem.registered \subseteq S,
           Known(l, S), RuntimeLeases!Append(l)
    PROVE  /\ leaseFile' \in Files(RuntimeLeases!Books) /\ leaseMem' \in RuntimeLeases!Books
           /\ leaseFile'.disk.registered \subseteq S /\ leaseFile'.view.registered \subseteq S
           /\ leaseMem'.registered \subseteq S
PROOF
  <1>1. leaseFile.disk \in RuntimeLeases!Books /\ leaseMem \in RuntimeLeases!Books
    BY DEF GateTypeOK, Files
  <1> DEFINE whole == IF leaseFile.clean THEN RuntimeLeases!ReplayLine(leaseFile.disk, l)
                      ELSE RuntimeLeases!Spoil(leaseFile.disk)
  <1>2. leaseFile' = [disk |-> whole, view |-> whole, clean |-> TRUE]
    BY DEF RuntimeLeases!Append, RuntimeLeases!Appended
  <1>3. whole \in RuntimeLeases!Books /\ whole.registered \subseteq S
    BY <1>1, LeaseSpoiled, LeaseLineReplayed
  <1>4. leaseMem' \in RuntimeLeases!Books /\ leaseMem'.registered \subseteq S
    BY <1>1, LeaseLineRead DEF RuntimeLeases!Append
  <1> HIDE DEF whole
  <1> QED
    BY <1>2, <1>3, <1>4 DEF Files

LEMMA LeaseAppendFails ==
    ASSUME GateTypeOK, NEW l \in LeaseLines, NEW S,
           leaseFile.disk.registered \subseteq S, leaseFile.view.registered \subseteq S,
           Known(l, S), RuntimeLeases!AppendFails(l)
    PROVE  /\ leaseFile' \in Files(RuntimeLeases!Books) /\ leaseMem' = leaseMem
           /\ leaseFile'.disk.registered \subseteq S /\ leaseFile'.view.registered \subseteq S
PROOF
  <1>1. leaseFile.disk \in RuntimeLeases!Books /\ leaseFile \in Files(RuntimeLeases!Books)
    BY DEF GateTypeOK, Files
  <1> DEFINE torn == RuntimeLeases!Spoil(leaseFile.disk)
             tail == IF leaseFile.clean THEN RuntimeLeases!ReplayLine(leaseFile.disk, l)
                     ELSE RuntimeLeases!Spoil(leaseFile.disk)
  <1>2. \/ leaseFile' = leaseFile
        \/ leaseFile' = [leaseFile EXCEPT !.view = torn, !.clean = FALSE]
        \/ leaseFile' = [leaseFile EXCEPT !.view = tail, !.clean = FALSE]
    BY DEF RuntimeLeases!AppendFails, RuntimeLeases!Damaged
  <1>3. /\ torn \in RuntimeLeases!Books /\ torn.registered \subseteq S
        /\ tail \in RuntimeLeases!Books /\ tail.registered \subseteq S
    BY <1>1, LeaseSpoiled, LeaseLineReplayed
  <1>4. leaseMem' = leaseMem
    BY DEF RuntimeLeases!AppendFails
  <1> HIDE DEF torn, tail
  <1> QED
    BY <1>1, <1>2, <1>3, <1>4 DEF Files

-----------------------------------------------------------------------------
(* The parts of the invariant that a line leaves standing.                  *)

KeyTypes == keyFile \in Files(SessionKeys!Books) /\ keyMem \in SessionKeys!Books \cup {None}
LeaseTypes ==
    leaseFile \in Files(RuntimeLeases!Books) /\ leaseMem \in RuntimeLeases!Books \cup {None}
Authorised ==
    /\ granted \in [Receipts -> Nat]
    /\ OneBranchPerKey

\* The invariant, sorted by the state it is about.
LEMMA Sorted ==
    IInv <=> /\ KeyTypes /\ KeysHeld
             /\ LeaseTypes /\ LeasesHeld
             /\ call \in Calls \cup {None} /\ CallsHeld
             /\ Authorised /\ handed \subseteq Branches
BY DEF IInv, Types, GateTypeOK, KeyTypes, LeaseTypes, Authorised

LEMMA KeyLineWritten ==
    ASSUME IInv, NEW l \in KeyLines, keyMem # None, handed' = handed,
           SessionKeys!Append(l) \/ SessionKeys!AppendFails(l)
    PROVE  KeyTypes' /\ KeysHeld'
PROOF
  <1> USE DEF IInv
  <1>1. CASE SessionKeys!Append(l)
    <2>1. /\ keyFile' \in Files(SessionKeys!Books) /\ keyMem' \in SessionKeys!Books
          /\ keyMem'.healthy = keyMem.healthy
          /\ keyMem.registered \subseteq keyMem'.registered
          /\ keyFile'.view = keyFile'.disk
          /\ keyFile'.disk.healthy =>
                keyFile.disk.healthy /\ keyFile.disk.registered \subseteq keyFile'.disk.registered
      BY <1>1, KeyAppend
    <2> QED
      BY <2>1 DEF KeyTypes, KeysHeld
  <1>2. CASE SessionKeys!AppendFails(l)
    <2>1. /\ keyFile' \in Files(SessionKeys!Books) /\ keyMem' = keyMem
          /\ keyFile'.disk = keyFile.disk
          /\ keyFile'.view = keyFile.view \/ ~keyFile'.view.healthy
             \/ /\ keyFile.disk.healthy
                /\ keyFile.disk.registered \subseteq keyFile'.view.registered
      BY <1>2, KeyAppendFails
    <2> QED
      BY <2>1 DEF KeyTypes, KeysHeld, Types, GateTypeOK
  <1> QED
    BY <1>1, <1>2

LEMMA LeaseLineWritten ==
    ASSUME IInv, NEW l \in LeaseLines, leaseMem # None, handed' = handed,
           l.kind = "L" => BranchOf(l.lease) \in handed,
           RuntimeLeases!Append(l) \/ RuntimeLeases!AppendFails(l)
    PROVE  LeaseTypes' /\ LeasesHeld'
PROOF
  <1> DEFINE S == {x \in Leases : BranchOf(x) \in handed}
  <1>1. /\ GateTypeOK /\ leaseFile.disk \in RuntimeLeases!Books
        /\ leaseFile.view \in RuntimeLeases!Books /\ leaseMem \in RuntimeLeases!Books
    BY DEF IInv, Types, GateTypeOK, Files
  <1>2. \A b \in RuntimeLeases!Books : Backed(b) <=> b.registered \subseteq S
    BY DEF Backed, RuntimeLeases!Books
  <1>3. /\ leaseFile.disk.registered \subseteq S /\ leaseFile.view.registered \subseteq S
        /\ leaseMem.registered \subseteq S
    BY <1>1, <1>2 DEF IInv, LeasesHeld
  <1>4. Known(l, S)
    BY DEF Known, LeaseLines
  <1>5. (\A b \in RuntimeLeases!Books : Backed(b) <=> b.registered \subseteq S)'
    BY DEF Backed, RuntimeLeases!Books
  <1>6. S' = S
    BY DEF BranchOf
  <1>7. /\ leaseFile' \in Files(RuntimeLeases!Books) /\ leaseMem' \in RuntimeLeases!Books
        /\ leaseFile'.disk.registered \subseteq S /\ leaseFile'.view.registered \subseteq S
        /\ leaseMem'.registered \subseteq S
    <2> HIDE DEF S
    <2>1. CASE RuntimeLeases!Append(l)
      BY <1>1, <1>3, <1>4, <2>1, LeaseAppend
    <2>2. CASE RuntimeLeases!AppendFails(l)
      BY <1>1, <1>3, <1>4, <2>2, LeaseAppendFails
    <2> QED
      BY <2>1, <2>2
  <1>8. leaseFile'.disk \in RuntimeLeases!Books /\ leaseFile'.view \in RuntimeLeases!Books
    BY <1>7 DEF Files
  <1> HIDE DEF S
  <1>9. Backed(leaseFile.disk)' /\ Backed(leaseFile.view)' /\ Backed(leaseMem)'
    BY <1>5, <1>6, <1>7, <1>8
  <1> QED
    BY <1>7, <1>9 DEF LeaseTypes, LeasesHeld

LEMMA KeysStand ==
    ASSUME IInv, UNCHANGED keyVars, handed' = handed
    PROVE  KeyTypes' /\ KeysHeld'
BY DEF IInv, Types, GateTypeOK, KeyTypes, KeysHeld, keyVars

LEMMA LeasesStand ==
    ASSUME IInv, UNCHANGED leaseVars, handed \subseteq handed'
    PROVE  LeaseTypes' /\ LeasesHeld'
BY DEF IInv, Types, GateTypeOK, LeaseTypes, LeasesHeld, Backed, leaseVars

LEMMA CallStands ==
    ASSUME IInv, call' \in {call, None}, handed \subseteq handed'
    PROVE  (call \in Calls \cup {None})' /\ CallsHeld'
BY DEF IInv, Types, GateTypeOK, CallsHeld, Calls

LEMMA AuthorityStands ==
    ASSUME IInv, UNCHANGED granted, UNCHANGED handed
    PROVE  Authorised' /\ (handed \subseteq Branches)'
BY DEF IInv, Types, Authorised, OneBranchPerKey, Voucher

-----------------------------------------------------------------------------
(* What each action does to the invariant.                                  *)

LEMMA OpenStep == IInv /\ Open => IInv'
PROOF
  <1> SUFFICES ASSUME IInv, Open PROVE IInv'
    OBVIOUS
  <1>1. KeyTypes' /\ KeysHeld'
    BY DEF IInv, Types, GateTypeOK, KeyTypes, KeysHeld, Open, SessionKeys!Open, histories, Files
  <1>2. LeaseTypes' /\ LeasesHeld'
    BY DEF IInv, Types, GateTypeOK, LeaseTypes, LeasesHeld, Backed, Open, RuntimeLeases!Open,
           histories, Files
  <1>3. (call \in Calls \cup {None})' /\ CallsHeld' /\ Authorised' /\ (handed \subseteq Branches)'
    BY CallStands, AuthorityStands DEF Open, histories, budgetVars
  <1> QED
    BY <1>1, <1>2, <1>3, Sorted, PTL

LEMMA DieStep == IInv /\ Die => IInv'
PROOF
  <1> SUFFICES ASSUME IInv, Die PROVE IInv'
    OBVIOUS
  <1>1. KeyTypes' /\ KeysHeld'
    BY DEF IInv, Types, GateTypeOK, KeyTypes, KeysHeld, Die, histories
  <1>2. LeaseTypes' /\ LeasesHeld'
    BY DEF IInv, Types, GateTypeOK, LeaseTypes, LeasesHeld, Backed, Die, histories
  <1>3. (call \in Calls \cup {None})' /\ CallsHeld' /\ Authorised' /\ (handed \subseteq Branches)'
    BY CallStands, AuthorityStands DEF Die, histories, budgetVars
  <1> QED
    BY <1>1, <1>2, <1>3, Sorted, PTL

LEMMA ClockStep == ASSUME NEW t \in Times PROVE IInv /\ Clock(t) => IInv'
PROOF
  <1> SUFFICES ASSUME IInv, Clock(t) PROVE IInv'
    OBVIOUS
  <1>1. KeyTypes' /\ KeysHeld' /\ LeaseTypes' /\ LeasesHeld'
    BY KeysStand, LeasesStand DEF Clock, histories
  <1>2. (call \in Calls \cup {None})' /\ CallsHeld' /\ Authorised' /\ (handed \subseteq Branches)'
    BY CallStands, AuthorityStands DEF Clock, histories, budgetVars
  <1> QED
    BY <1>1, <1>2, Sorted, PTL

\* A delegation spends nothing.
LEMMA IssueVoucherStep == ASSUME NEW s \in Branches PROVE IInv /\ IssueVoucher(s) => IInv'
PROOF
  <1> SUFFICES ASSUME IInv, IssueVoucher(s) PROVE IInv'
    OBVIOUS
  <1>1. KeyTypes' /\ KeysHeld' /\ LeaseTypes' /\ LeasesHeld'
    BY KeysStand, LeasesStand DEF IssueVoucher, histories
  <1>2. (call \in Calls \cup {None})' /\ CallsHeld'
    BY DEF IssueVoucher, Calls, CallsHeld, Steps
  <1>3. Authorised' /\ (handed \subseteq Branches)'
    BY AuthorityStands DEF IssueVoucher, histories, Authority!Delegate
  <1> QED
    BY <1>1, <1>2, <1>3, Sorted, PTL

\* A new branch has a key of its own, for whoever registers it knows all those
\* that were handed off.
LEMMA RegisterBranchStep == IInv /\ RegisterBranch => IInv'
PROOF
  <1> SUFFICES ASSUME IInv, RegisterBranch PROVE IInv'
    OBVIOUS
  <1> DEFINE s == call.branch
             line == SessionKeys!HandOffLine(s)
  <1>1. s \in Branches
    BY DEF RegisterBranch, Registering, IInv, Types, GateTypeOK, Calls, Steps
  <1>2. ASSUME SessionKeys!MayRegister(s) PROVE line \in KeyLines /\ keyMem # None
    BY <1>1, <1>2 DEF SessionKeys!MayRegister, SessionKeys!Running, SessionKeys!HandOffLine,
           KeyLines, IInv, Types, GateTypeOK, SessionKeys!Books
  <1>3. (call \in Calls \cup {None})' /\ CallsHeld' /\ UNCHANGED leaseVars /\ UNCHANGED granted
    BY DEF RegisterBranch, CallsHeld, budgetVars
  <1>4. CASE /\ SessionKeys!MayRegister(s)
             /\ SessionKeys!Append(line)
             /\ handed' = handed \cup {s}
    <2>1. /\ keyFile' \in Files(SessionKeys!Books) /\ keyMem' \in SessionKeys!Books
          /\ keyMem'.healthy = keyMem.healthy
          /\ keyMem.registered \subseteq keyMem'.registered
          /\ s \in keyMem'.registered
          /\ keyFile'.view = keyFile'.disk
          /\ keyFile'.disk.healthy =>
                /\ keyFile.disk.healthy /\ keyFile.disk.registered \subseteq keyFile'.disk.registered
                /\ s \in keyFile'.disk.registered
      <3>1. line.kind = "H" /\ line.branch = s
        BY DEF SessionKeys!HandOffLine
      <3> HIDE DEF line
      <3> QED
        BY <1>2, <1>4, <3>1, KeyAppend DEF IInv
    <2>2. KeyTypes' /\ KeysHeld'
      BY <1>2, <1>4, <2>1 DEF KeyTypes, KeysHeld, IInv
    <2>3. LeaseTypes' /\ LeasesHeld'
      BY <1>3, <1>4, LeasesStand
    <2>4. \A t \in handed : Bundle[t].key # Bundle[s].key
      BY <1>4 DEF SessionKeys!MayRegister, SessionKeys!Running, SessionKeys!KeyIsFree, IInv,
             KeysHeld, Bundle
    <2>5. Authorised' /\ (handed \subseteq Branches)'
      BY <1>1, <1>3, <1>4, <2>4 DEF Authorised, OneBranchPerKey, IInv, Types, Voucher
    <2> QED
      BY <1>3, <2>2, <2>3, <2>5, Sorted, PTL
  <1>5. CASE UNCHANGED handed /\ KeyTypes' /\ KeysHeld'
    <2>1. LeaseTypes' /\ LeasesHeld' /\ Authorised' /\ (handed \subseteq Branches)'
      BY <1>3, <1>5, LeasesStand, AuthorityStands
    <2> QED
      BY <1>3, <1>5, <2>1, Sorted, PTL
  <1>6. CASE /\ SessionKeys!MayRegister(s)
             /\ SessionKeys!AppendFails(line)
             /\ UNCHANGED handed
    <2> HIDE DEF line
    <2> QED
      BY <1>2, <1>5, <1>6, KeyLineWritten
  <1>7. CASE UNCHANGED <<keyVars, handed>>
    BY <1>5, <1>7, KeysStand
  <1> QED
    BY <1>4, <1>6, <1>7 DEF RegisterBranch

\* A call of the gate is for a branch that was handed off.
LEMMA AtStep ==
    ASSUME IInv, NEW step \in Steps, At(step)
    PROVE  /\ call \in [at : Steps, lease : Leases] /\ call.lease \in Leases
           /\ BranchOf(call.lease) \in Branches /\ BranchOf(call.lease) \in handed
PROOF
  <1>1. call \in [at : Steps, lease : Leases]
    BY DEF At, IInv, Types, GateTypeOK, Calls, Steps
  <1>2. BranchOf(call.lease) \in handed
    BY DEF At, IInv, CallsHeld
  <1> QED
    BY <1>1, <1>2 DEF IInv, Types

\* It goes on to its next step, or ends.
LEMMA CallGoesOn ==
    ASSUME IInv, NEW step \in Steps, At(step), UNCHANGED handed,
           call' = None \/ \E next \in Steps : Goto(next)
    PROVE  (call \in Calls \cup {None})' /\ CallsHeld'
PROOF
  <1>1. CASE call' = None
    BY <1>1 DEF CallsHeld
  <1>2. CASE \E next \in Steps : Goto(next)
    <2>1. PICK next \in Steps : call' = [call EXCEPT !.at = next]
      BY <1>2 DEF Goto
    <2>2. call' \in [at : Steps, lease : Leases] /\ call'.lease = call.lease
      BY <2>1, AtStep
    <2> QED
      BY <2>2, AtStep DEF Calls, CallsHeld, BranchOf
  <1> QED
    BY <1>1, <1>2

LEMMA CheckLeaseStep ==
    ASSUME NEW l \in Leases, NEW r \in Runtimes
    PROVE  IInv /\ CheckLease(l, r) => IInv'
PROOF
  <1> SUFFICES ASSUME IInv, CheckLease(l, r) PROVE IInv'
    OBVIOUS
  <1>1. BranchOf(l) \in handed
    BY DEF CheckLease, RuntimeLeases!Preflight, RuntimeLeases!Spendable, RuntimeLeases!Running,
           IInv, LeasesHeld, Backed
  <1>2. (call \in Calls \cup {None})' /\ CallsHeld'
    BY <1>1 DEF CheckLease, Calls, Steps, CallsHeld, histories, BranchOf
  <1>3. /\ KeyTypes' /\ KeysHeld' /\ LeaseTypes' /\ LeasesHeld'
        /\ Authorised' /\ (handed \subseteq Branches)'
    BY KeysStand, LeasesStand, AuthorityStands DEF CheckLease, histories, budgetVars
  <1> QED
    BY <1>2, <1>3, Sorted, PTL

LEMMA CheckKeyStep == IInv /\ CheckKey => IInv'
PROOF
  <1> SUFFICES ASSUME IInv, CheckKey PROVE IInv'
    OBVIOUS
  <1>1. (call \in Calls \cup {None})' /\ CallsHeld'
    BY CallGoesOn DEF CheckKey, Steps, histories
  <1>2. /\ KeyTypes' /\ KeysHeld' /\ LeaseTypes' /\ LeasesHeld'
        /\ Authorised' /\ (handed \subseteq Branches)'
    BY KeysStand, LeasesStand, AuthorityStands DEF CheckKey, histories, budgetVars
  <1> QED
    BY <1>1, <1>2, Sorted, PTL

\* The voucher that is used is that of the branch, and of no other.
LEMMA UseVoucherStep == IInv /\ UseVoucher => IInv'
PROOF
  <1> SUFFICES ASSUME IInv, UseVoucher PROVE IInv'
    OBVIOUS
  <1>1. (call \in Calls \cup {None})' /\ CallsHeld'
    BY CallGoesOn DEF UseVoucher, Steps, histories
  <1>2. KeyTypes' /\ KeysHeld' /\ LeaseTypes' /\ LeasesHeld' /\ handed' = handed
    BY KeysStand, LeasesStand DEF UseVoucher, histories
  <1>3. ASSUME UNCHANGED granted PROVE Authorised' /\ (handed \subseteq Branches)'
    BY <1>2, <1>3, AuthorityStands
  <1>4. ASSUME Authority!Use(Voucher(BranchOf(call.lease)))
        PROVE  Authorised' /\ (handed \subseteq Branches)'
    <2> DEFINE s == BranchOf(call.lease)
    <2>1. s \in Branches /\ s \in handed
      BY AtStep DEF UseVoucher, Steps
    <2>2. \A t \in Branches : Voucher(t) = BackedBy[t] /\ Voucher(t) \in Receipts
      BY ChainAssumption DEF Voucher, Bundle, SessionKeys!Bundle, SessionKeys!Certificate
    <2>3. granted' = [granted EXCEPT ![Voucher(s)] = @ + 1]
      BY <1>4 DEF Authority!Use
    <2>4. \A t \in Branches : t # s => Voucher(t) # Voucher(s)
      BY <2>1, <2>2, ChainAssumption
    <2> HIDE DEF s
    <2>5. granted \in [Receipts -> Nat]
      BY DEF IInv, Types
    <2>6. granted' \in [Receipts -> Nat]
          /\ \A v \in Receipts : v # Voucher(s) => granted'[v] = granted[v]
      BY <2>1, <2>2, <2>3, <2>5
    <2>7. \A t \in Branches : granted[Voucher(t)] > 0 => t \in handed
      BY DEF IInv, OneBranchPerKey
    <2>8. \A t \in Branches : granted'[Voucher(t)] > 0 => t \in handed
      BY <2>1, <2>2, <2>4, <2>6, <2>7
    <2> QED
      BY <1>2, <2>6, <2>8 DEF Authorised, OneBranchPerKey, IInv, Types, Voucher
  <1>5. Authorised' /\ (handed \subseteq Branches)'
    BY <1>3, <1>4 DEF UseVoucher, budgetVars
  <1> QED
    BY <1>1, <1>2, <1>5, Sorted, PTL

LEMMA UseKeyStep == IInv /\ UseKey => IInv'
PROOF
  <1> SUFFICES ASSUME IInv, UseKey PROVE IInv'
    OBVIOUS
  <1> DEFINE line == SessionKeys!UseLine(BranchOf(call.lease))
  <1>1. (call \in Calls \cup {None})' /\ CallsHeld'
    BY CallGoesOn DEF UseKey, Steps, histories
  <1>2. keyMem # None /\ line \in KeyLines
    BY AtStep DEF UseKey, Steps, SessionKeys!MayConsume, SessionKeys!Running,
           SessionKeys!UseLine, KeyLines, IInv, Types, GateTypeOK, SessionKeys!Books
  <1>3. SessionKeys!Append(line) \/ SessionKeys!AppendFails(line)
    BY DEF UseKey
  <1> HIDE DEF line
  <1>4. KeyTypes' /\ KeysHeld'
    BY <1>2, <1>3, KeyLineWritten DEF UseKey, histories
  <1>5. LeaseTypes' /\ LeasesHeld' /\ Authorised' /\ (handed \subseteq Branches)'
    BY LeasesStand, AuthorityStands DEF UseKey, histories, budgetVars
  <1> QED
    BY <1>1, <1>4, <1>5, Sorted, PTL

LEMMA UseLeaseStep == IInv /\ UseLease => IInv'
PROOF
  <1> SUFFICES ASSUME IInv, UseLease PROVE IInv'
    OBVIOUS
  <1> DEFINE l == call.lease
             line == RuntimeLeases!UseLine(l)
  <1>1. /\ (call \in Calls \cup {None})' /\ CallsHeld' /\ KeyTypes' /\ KeysHeld'
        /\ Authorised' /\ (handed \subseteq Branches)'
    BY CallStands, KeysStand, AuthorityStands DEF UseLease, budgetVars
  <1>2. ASSUME UNCHANGED leaseVars PROVE LeaseTypes' /\ LeasesHeld'
    BY <1>2, LeasesStand DEF UseLease
  <1>3. ASSUME RuntimeLeases!MayConsume(l),
               RuntimeLeases!Append(line) \/ RuntimeLeases!AppendFails(line)
        PROVE  LeaseTypes' /\ LeasesHeld'
    <2>1. leaseMem # None /\ line \in LeaseLines /\ line.kind = "U"
      BY <1>3, AtStep DEF UseLease, Steps, RuntimeLeases!MayConsume, RuntimeLeases!Spendable,
             RuntimeLeases!Running, RuntimeLeases!UseLine, LeaseLines, IInv, Types, GateTypeOK,
             RuntimeLeases!Books
    <2> HIDE DEF line
    <2> QED
      BY <1>3, <2>1, LeaseLineWritten DEF UseLease
  <1>4. LeaseTypes' /\ LeasesHeld'
    BY <1>2, <1>3 DEF UseLease
  <1> QED
    BY <1>1, <1>4, Sorted, PTL

-----------------------------------------------------------------------------
(* The other operations of the ledgers.                                     *)

LEMMA RegisterLeaseStep == ASSUME NEW l \in Leases PROVE IInv /\ RegisterLease(l) => IInv'
PROOF
  <1> SUFFICES ASSUME IInv, RegisterLease(l) PROVE IInv'
    OBVIOUS
  <1> DEFINE line == RuntimeLeases!RegisterLine(l)
  <1>1. leaseMem # None /\ line \in LeaseLines /\ BranchOf(line.lease) \in handed
    BY DEF RegisterLease, RuntimeLeases!MayRegister, RuntimeLeases!Running,
           RuntimeLeases!RegisterLine, LeaseLines, IInv, Types, GateTypeOK, RuntimeLeases!Books
  <1>2. RuntimeLeases!Append(line) \/ RuntimeLeases!AppendFails(line)
    BY DEF RegisterLease
  <1> HIDE DEF line
  <1>3. LeaseTypes' /\ LeasesHeld'
    BY <1>1, <1>2, LeaseLineWritten DEF RegisterLease, histories
  <1>4. /\ (call \in Calls \cup {None})' /\ CallsHeld' /\ KeyTypes' /\ KeysHeld'
        /\ Authorised' /\ (handed \subseteq Branches)'
    BY CallStands, KeysStand, AuthorityStands DEF RegisterLease, budgetVars, histories
  <1> QED
    BY <1>3, <1>4, Sorted, PTL

LEMMA RevokeLeaseStep == ASSUME NEW l \in Leases PROVE IInv /\ RevokeLease(l) => IInv'
PROOF
  <1> SUFFICES ASSUME IInv, RevokeLease(l) PROVE IInv'
    OBVIOUS
  <1> DEFINE line == RuntimeLeases!RevokeLine(l)
  <1>1. leaseMem # None /\ line \in LeaseLines /\ line.kind = "X"
    BY DEF RevokeLease, RuntimeLeases!MayRevoke, RuntimeLeases!Running,
           RuntimeLeases!RevokeLine, LeaseLines, IInv, Types, GateTypeOK, RuntimeLeases!Books
  <1>2. RuntimeLeases!Append(line) \/ RuntimeLeases!AppendFails(line)
    BY DEF RevokeLease
  <1> HIDE DEF line
  <1>3. LeaseTypes' /\ LeasesHeld'
    BY <1>1, <1>2, LeaseLineWritten DEF RevokeLease
  <1>4. /\ (call \in Calls \cup {None})' /\ CallsHeld' /\ KeyTypes' /\ KeysHeld'
        /\ Authorised' /\ (handed \subseteq Branches)'
    BY CallStands, KeysStand, AuthorityStands DEF RevokeLease, budgetVars
  <1> QED
    BY <1>3, <1>4, Sorted, PTL

LEMMA WriteKeyLineStep ==
    ASSUME IInv, NEW l \in KeyLines, NEW x, NEW t, keyMem # None, WriteKeyLine(l, x, t)
    PROVE  IInv'
PROOF
  <1>1. KeyTypes' /\ KeysHeld'
    BY KeyLineWritten DEF WriteKeyLine
  <1>2. /\ (call \in Calls \cup {None})' /\ CallsHeld' /\ LeaseTypes' /\ LeasesHeld'
        /\ Authorised' /\ (handed \subseteq Branches)'
    BY CallStands, LeasesStand, AuthorityStands DEF WriteKeyLine, budgetVars
  <1> QED
    BY <1>1, <1>2, Sorted, PTL

LEMMA RevokeBranchStep ==
    ASSUME NEW s \in Branches, NEW t \in Times PROVE IInv /\ RevokeBranch(s, t) => IInv'
PROOF
  <1> SUFFICES ASSUME IInv, RevokeBranch(s, t) PROVE IInv'
    OBVIOUS
  <1>1. keyMem # None /\ SessionKeys!RevokeBranchLine(s, t) \in KeyLines
    BY DEF RevokeBranch, SessionKeys!MayRevokeBranch, SessionKeys!Running,
           SessionKeys!RevokeBranchLine, KeyLines, IInv, Types, GateTypeOK, SessionKeys!Books
  <1> QED
    BY <1>1, WriteKeyLineStep DEF RevokeBranch

LEMMA RevokeKeyStep ==
    ASSUME NEW k \in EphemeralKeys, NEW t \in Times PROVE IInv /\ RevokeKey(k, t) => IInv'
PROOF
  <1> SUFFICES ASSUME IInv, RevokeKey(k, t) PROVE IInv'
    OBVIOUS
  <1>1. keyMem # None /\ SessionKeys!RevokeKeyLine(k, t) \in KeyLines
    BY DEF RevokeKey, SessionKeys!MayRevokeKey, SessionKeys!Running,
           SessionKeys!RevokeKeyLine, KeyLines, IInv, Types, GateTypeOK, SessionKeys!Books
  <1> QED
    BY <1>1, WriteKeyLineStep DEF RevokeKey

-----------------------------------------------------------------------------
(* The invariant.                                                           *)

LEMMA Initially == Init => IInv
PROOF
  <1> SUFFICES ASSUME Init PROVE IInv
    OBVIOUS
  <1>1. SessionKeys!EmptyBook \in SessionKeys!Books /\ RuntimeLeases!EmptyBook \in RuntimeLeases!Books
        /\ RuntimeLeases!EmptyBook.registered = {}
    BY DEF SessionKeys!EmptyBook, SessionKeys!Books, RuntimeLeases!EmptyBook, RuntimeLeases!Books
  <1>2. keyFile = EmptyFile(SessionKeys!EmptyBook) /\ keyMem = None
        /\ leaseFile = EmptyFile(RuntimeLeases!EmptyBook) /\ leaseMem = None
        /\ handed = {} /\ call = None
    BY DEF Init, SessionKeys!Init, RuntimeLeases!Init, SessionKeys!EmptyFile,
           RuntimeLeases!EmptyFile, EmptyFile
  <1>3. KeyTypes /\ KeysHeld
    BY <1>1, <1>2 DEF KeyTypes, KeysHeld, EmptyFile, Files
  <1>4. LeaseTypes /\ LeasesHeld
    BY <1>1, <1>2 DEF LeaseTypes, LeasesHeld, Backed, EmptyFile, Files
  <1>5. granted = [r \in Receipts |-> 0]
    BY DEF Init, Authority!Init
  <1>6. \A s \in Branches : Voucher(s) \in Receipts
    BY ChainAssumption DEF Voucher, Bundle, SessionKeys!Bundle, SessionKeys!Certificate
  <1>7. Authorised
    BY <1>2, <1>5, <1>6 DEF Authorised, OneBranchPerKey
  <1> QED
    BY <1>2, <1>3, <1>4, <1>7, Sorted DEF CallsHeld

LEMMA StandingStill == IInv /\ UNCHANGED vars => IInv'
PROOF
  <1> SUFFICES ASSUME IInv, UNCHANGED vars PROVE IInv'
    OBVIOUS
  <1>1. KeyTypes' /\ KeysHeld' /\ LeaseTypes' /\ LeasesHeld'
    BY KeysStand, LeasesStand DEF vars, histories
  <1>2. (call \in Calls \cup {None})' /\ CallsHeld' /\ Authorised' /\ (handed \subseteq Branches)'
    BY CallStands, AuthorityStands DEF vars, histories, budgetVars
  <1> QED
    BY <1>1, <1>2, Sorted, PTL

LEMMA EveryStep == IInv /\ [Next]_vars => IInv'
BY ClockStep, OpenStep, DieStep, RegisterBranchStep, CheckKeyStep, UseVoucherStep, UseKeyStep,
   UseLeaseStep, IssueVoucherStep, RevokeBranchStep, RevokeKeyStep, RegisterLeaseStep,
   RevokeLeaseStep, CheckLeaseStep, StandingStill DEF Next

\* The journals and the books of the two ledgers (src/src/session_key.cpp and
\* src/src/runtime_lease.cpp) keep their types, every book a registration can be
\* decided from knows the branches that were handed off, and a lease is only
\* known, or being used, for such a branch: whatever append failed, whenever the
\* process died.
THEOREM Invariant == Spec => []IInv
PROOF
  <1>1. Init => IInv
    BY Initially
  <1>2. IInv /\ [Next]_vars => IInv'
    BY EveryStep
  <1> QED
    BY <1>1, <1>2, PTL DEF Spec

\* README law 59: of the branches whose hand-off was ISSUED no two share an
\* ephemeral key (register_bundle of src/src/session_key.cpp), and the gates
\* spend no voucher but that of such a branch.
THEOREM KeysBackOneBranch == Spec => []OneBranchPerKey
PROOF
  <1>1. IInv => OneBranchPerKey
    BY DEF IInv
  <1> QED
    BY <1>1, Invariant, PTL

-----------------------------------------------------------------------------
(* Uses and revocations.  A healthy journal that ends in a newline replays *)
(* to the book of the process (KeyFileInv, LeaseFileInv); so every healthy *)
(* book after an append is a healthy book of before, or what the line made *)
(* of the one the operation looked at, and each layer can be compared with *)
(* the one below it, book by book (KeysCovered, LeasesCovered).  A call    *)
(* that has spent below and not yet above is Pending.                      *)

\* The books a decision is taken from, now or after a restart.
HealthyKeys == {k \in KeyBooks : k.healthy}
HealthyLeases == {b \in LeaseBooks : b.healthy}
AllLeases == LeaseBooks \cup {leaseFile.disk}

Pending(step, s) ==
    IF call # None /\ call.at = step /\ BranchOf(call.lease) = s THEN 1 ELSE 0

Spent(b, s) == SumFunctionOnSet(b.uses, LeasesOf(s))

KeyFileInv ==
    /\ keyFile.clean => keyFile.view = keyFile.disk
    /\ keyFile.clean /\ keyFile.view.healthy /\ keyMem # None => keyMem = keyFile.view

LeaseFileInv ==
    /\ leaseFile.clean => leaseFile.view = leaseFile.disk
    /\ leaseFile.clean /\ leaseFile.view.healthy /\ leaseMem # None =>
        leaseMem = leaseFile.view

\* The authority ledger counts what the session keys count, and the use that is
\* under way.
KeysCovered ==
    \A k \in HealthyKeys, s \in Branches :
        k.uses[s] + Pending("useKey", s) <= granted[Voucher(s)]

\* The session keys count what the leases count, and the use under way.
LeasesCovered ==
    \A k \in HealthyKeys, b \in AllLeases, s \in Branches :
        Spent(b, s) + Pending("useLease", s) <= k.uses[s]

\* What was acknowledged is in the books.
LeasesCount == \A b \in HealthyLeases, l \in Leases : allowed[l] <= b.uses[l]

KeysStruck ==
    \A k \in HealthyKeys, r \in struck :
        /\ r.of \in Branches => k.revoked[r.of] = r.at
        /\ r.of \in EphemeralKeys => k.keyRevoked[r.of] = r.at

LeasesStruck ==
    \A b \in HealthyLeases, r \in struck : r.of \in Leases => r.of \in b.revoked

Histories ==
    /\ allowed \in [Leases -> Nat]
    /\ mishaps \in Nat
    /\ \A r \in struck : r.at \in Nat \ {0}

JInv ==
    /\ Histories
    /\ KeyFileInv /\ LeaseFileInv
    /\ KeysCovered /\ LeasesCovered /\ LeasesCount
    /\ KeysStruck /\ LeasesStruck
    /\ OnlyFailuresBurn

LEMMA KeyLineEffect ==
    ASSUME NEW b \in SessionKeys!Books, NEW l \in KeyLines
    PROVE  LET a == SessionKeys!After(b, l) IN
           /\ a \in SessionKeys!Books /\ a.healthy = b.healthy
           /\ a.uses = IF l.kind = "U" THEN [b.uses EXCEPT ![l.branch] = l.index] ELSE b.uses
           /\ a.revoked = IF l.kind = "X" THEN [b.revoked EXCEPT ![l.branch] = l.at] ELSE b.revoked
           /\ a.keyRevoked =
                IF l.kind = "R" THEN [b.keyRevoked EXCEPT ![l.key] = l.at] ELSE b.keyRevoked
PROOF
  <1> DEFINE c == [b EXCEPT !.next = @ + 1]
             a == SessionKeys!After(b, l)
  <1>0. a \in SessionKeys!Books /\ a.healthy = b.healthy
    BY KeyLineRead
  <1>1. /\ c \in SessionKeys!Books /\ c.uses = b.uses /\ c.revoked = b.revoked
        /\ c.keyRevoked = b.keyRevoked /\ c.registered = b.registered
    BY DEF SessionKeys!Books
  <1>2. CASE l.kind = "H"
    <2>1. PICK v : v = c.registered \cup {l.branch}
      OBVIOUS
    <2>2. a = [c EXCEPT !.registered = v]
      BY <1>2, <2>1 DEF SessionKeys!After
    <2> HIDE DEF c, a
    <2>3. a.uses = b.uses /\ a.revoked = b.revoked /\ a.keyRevoked = b.keyRevoked
      BY <1>1, <2>2 DEF SessionKeys!Books
    <2> QED
      BY <1>0, <1>2, <2>3 DEF a
  <1>3. CASE l.kind = "U"
    <2>1. PICK v : v = [c.uses EXCEPT ![l.branch] = l.index]
      OBVIOUS
    <2>2. a = [c EXCEPT !.uses = v]
      BY <1>3, <2>1 DEF SessionKeys!After
    <2> HIDE DEF c, a
    <2>3. a.uses = v /\ a.revoked = b.revoked /\ a.keyRevoked = b.keyRevoked
      BY <1>1, <2>2 DEF SessionKeys!Books
    <2> QED
      BY <1>0, <1>1, <1>3, <2>1, <2>3 DEF a
  <1>4. CASE l.kind = "X"
    <2>1. PICK v : v = [c.revoked EXCEPT ![l.branch] = l.at]
      OBVIOUS
    <2>2. a = [c EXCEPT !.revoked = v]
      BY <1>4, <2>1 DEF SessionKeys!After
    <2> HIDE DEF c, a
    <2>3. a.uses = b.uses /\ a.revoked = v /\ a.keyRevoked = b.keyRevoked
      BY <1>1, <2>2 DEF SessionKeys!Books
    <2> QED
      BY <1>0, <1>1, <1>4, <2>1, <2>3 DEF a
  <1>5. CASE l.kind = "R"
    <2>1. PICK v : v = [c.keyRevoked EXCEPT ![l.key] = l.at]
      OBVIOUS
    <2>2. a = [c EXCEPT !.keyRevoked = v]
      BY <1>5, <2>1 DEF SessionKeys!After
    <2> HIDE DEF c, a
    <2>3. a.uses = b.uses /\ a.revoked = b.revoked /\ a.keyRevoked = v
      BY <1>1, <2>2 DEF SessionKeys!Books
    <2> QED
      BY <1>0, <1>1, <1>5, <2>1, <2>3 DEF a
  <1> QED
    BY <1>2, <1>3, <1>4, <1>5 DEF KeyLines

LEMMA LeaseLineEffect ==
    ASSUME NEW b \in RuntimeLeases!Books, NEW l \in LeaseLines
    PROVE  LET a == RuntimeLeases!After(b, l) IN
           /\ a \in RuntimeLeases!Books /\ a.healthy = b.healthy
           /\ a.uses = IF l.kind = "U" THEN [b.uses EXCEPT ![l.lease] = l.index] ELSE b.uses
           /\ a.revoked = IF l.kind = "X" THEN b.revoked \cup {l.lease} ELSE b.revoked
PROOF
  <1> DEFINE c == [b EXCEPT !.next = @ + 1]
             a == RuntimeLeases!After(b, l)
  <1>0. a \in RuntimeLeases!Books
    <2>1. b.registered \subseteq Leases /\ Known(l, Leases)
      BY DEF RuntimeLeases!Books, Known, LeaseLines
    <2> QED
      BY <2>1, LeaseLineRead
  <1>1. /\ c \in RuntimeLeases!Books /\ c.uses = b.uses /\ c.revoked = b.revoked
        /\ c.registered = b.registered /\ c.healthy = b.healthy
    BY DEF RuntimeLeases!Books
  <1>2. CASE l.kind = "L"
    <2>1. PICK v : v = c.registered \cup {l.lease}
      OBVIOUS
    <2>2. a = [c EXCEPT !.registered = v]
      BY <1>2, <2>1 DEF RuntimeLeases!After
    <2> HIDE DEF c, a
    <2>3. a.uses = b.uses /\ a.revoked = b.revoked /\ a.healthy = b.healthy
      BY <1>1, <2>2 DEF RuntimeLeases!Books
    <2> QED
      BY <1>0, <1>2, <2>3 DEF a
  <1>3. CASE l.kind = "U"
    <2>1. PICK v : v = [c.uses EXCEPT ![l.lease] = l.index]
      OBVIOUS
    <2>2. a = [c EXCEPT !.uses = v]
      BY <1>3, <2>1 DEF RuntimeLeases!After
    <2> HIDE DEF c, a
    <2>3. a.uses = v /\ a.revoked = b.revoked /\ a.healthy = b.healthy
      BY <1>1, <2>2 DEF RuntimeLeases!Books
    <2> QED
      BY <1>0, <1>1, <1>3, <2>1, <2>3 DEF a
  <1>4. CASE l.kind = "X"
    <2>1. PICK v : v = c.revoked \cup {l.lease}
      OBVIOUS
    <2>2. a = [c EXCEPT !.revoked = v]
      BY <1>4, <2>1 DEF RuntimeLeases!After
    <2> HIDE DEF c, a
    <2>3. a.uses = b.uses /\ a.revoked = v /\ a.healthy = b.healthy
      BY <1>1, <2>2 DEF RuntimeLeases!Books
    <2> QED
      BY <1>0, <1>1, <1>4, <2>1, <2>3 DEF a
  <1> QED
    BY <1>2, <1>3, <1>4 DEF LeaseLines

LEMMA Spoils ==
    /\ \A b \in SessionKeys!Books : ~SessionKeys!Spoil(b).healthy
    /\ \A b \in RuntimeLeases!Books :
        ~RuntimeLeases!Spoil(b).healthy /\ RuntimeLeases!Spoil(b).uses = b.uses
BY DEF SessionKeys!Spoil, SessionKeys!Books, RuntimeLeases!Spoil, RuntimeLeases!Books

\* What an operation on the session keys leaves behind, whether its append
\* succeeded or not: the books of before, and the one it meant.
LEMMA KeyBooksAfter ==
    ASSUME IInv, JInv, NEW l \in KeyLines, SessionKeys!Running,
           SessionKeys!Accepts(keyMem, l),
           SessionKeys!Append(l) \/ SessionKeys!AppendFails(l)
    PROVE  /\ keyMem \in HealthyKeys /\ keyMem \in SessionKeys!Books
           /\ KeyFileInv'
           /\ \A k \in HealthyKeys' : k \in HealthyKeys \/ k = SessionKeys!After(keyMem, l)
           /\ SessionKeys!Append(l) =>
                \A k \in HealthyKeys' : k = SessionKeys!After(keyMem, l)
PROOF
  <1> DEFINE d == keyFile.disk
             book == SessionKeys!ReplayLine(d, l)
             tail == IF keyFile.clean THEN book ELSE SessionKeys!Spoil(d)
             new == SessionKeys!After(keyMem, l)
  <1>1. /\ d \in SessionKeys!Books /\ keyFile.view \in SessionKeys!Books
        /\ keyMem \in SessionKeys!Books /\ keyMem # None /\ keyMem.healthy
        /\ keyFile \in Files(SessionKeys!Books)
    BY DEF IInv, Types, GateTypeOK, Files, SessionKeys!Running
  <1>2. keyMem \in HealthyKeys
    BY <1>1 DEF HealthyKeys, KeyBooks
  <1>3. /\ tail.healthy => keyFile.clean /\ keyFile.view.healthy /\ tail = new
        /\ keyFile.clean /\ keyFile.view.healthy => tail = new
    <2>1. CASE ~keyFile.clean
      BY <1>1, <2>1, Spoils
    <2>2. CASE keyFile.clean /\ ~keyFile.view.healthy
      <3>1. ~d.healthy
        BY <2>2 DEF JInv, KeyFileInv
      <3>2. tail = d
        BY <2>2, <3>1 DEF SessionKeys!ReplayLine
      <3> QED
        BY <2>2, <3>1, <3>2
    <2>3. CASE keyFile.clean /\ keyFile.view.healthy
      <3>1. d = keyMem
        BY <1>1, <2>3 DEF JInv, KeyFileInv
      <3>2. book = new
        BY <1>1, <3>1 DEF SessionKeys!ReplayLine
      <3> QED
        BY <2>3, <3>2
    <2> QED
      BY <2>1, <2>2, <2>3
  <1>4. CASE SessionKeys!Append(l)
    <2>1. keyFile' = [disk |-> tail, view |-> tail, clean |-> TRUE] /\ keyMem' = new
      BY <1>4 DEF SessionKeys!Append, SessionKeys!Appended
    <2> HIDE DEF tail, new
    <2>2. keyFile'.view = tail /\ keyFile'.disk = tail
      BY <2>1
    <2>3. KeyFileInv'
      BY <1>3, <2>1, <2>2 DEF KeyFileInv
    <2>4. \A k \in HealthyKeys' : k = new
      BY <1>3, <2>1, <2>2 DEF HealthyKeys, KeyBooks
    <2> QED
      BY <1>1, <1>2, <2>3, <2>4 DEF new
  <1>5. CASE SessionKeys!AppendFails(l)
    <2>1. keyMem' = keyMem
      BY <1>5 DEF SessionKeys!AppendFails
    <2>2. \/ keyFile' = keyFile
          \/ keyFile' = [keyFile EXCEPT !.view = SessionKeys!Spoil(d), !.clean = FALSE]
          \/ keyFile' = [keyFile EXCEPT !.view = tail, !.clean = FALSE]
      BY <1>5 DEF SessionKeys!AppendFails, SessionKeys!Damaged
    <2>3. ~SessionKeys!Spoil(d).healthy
      BY <1>1, Spoils
    <2> HIDE DEF tail, new, d
    <2>4. \/ keyFile' = keyFile
          \/ ~keyFile'.clean /\ keyFile'.view = SessionKeys!Spoil(d)
          \/ ~keyFile'.clean /\ keyFile'.view = tail
      BY <1>1, <2>2 DEF Files
    <2>5. \/ keyFile' = keyFile
          \/ ~keyFile'.clean /\ (keyFile'.view.healthy => keyFile'.view = new)
      <3>1. tail.healthy => tail = new
        BY <1>3
      <3> QED
        BY <2>3, <2>4, <3>1
    <2>6. KeyFileInv'
      BY <2>1, <2>5 DEF JInv, KeyFileInv
    <2>7. \A k \in HealthyKeys' : k \in HealthyKeys \/ k = new
      BY <2>1, <2>5 DEF HealthyKeys, KeyBooks
    <2>8. ASSUME SessionKeys!Append(l) PROVE \A k \in HealthyKeys' : k = new
      BY <1>4, <2>8 DEF new
    <2> QED
      BY <1>1, <1>2, <2>6, <2>7, <2>8 DEF new
  <1> QED
    BY <1>4, <1>5

\* The uses of b are those of a, or one more of the lease of l.
Counted(a, b, l) ==
    \/ b.uses = a.uses
    \/ l.kind = "U" /\ b.uses = [a.uses EXCEPT ![l.lease] = a.uses[l.lease] + 1]

LEMMA LeaseReplayCounts ==
    ASSUME NEW b \in RuntimeLeases!Books, NEW l \in LeaseLines
    PROVE  Counted(b, RuntimeLeases!ReplayLine(b, l), l)
PROOF
  <1>1. CASE ~b.healthy
    BY <1>1 DEF RuntimeLeases!ReplayLine, Counted
  <1>2. CASE b.healthy /\ RuntimeLeases!Accepts(b, l)
    <2>1. RuntimeLeases!ReplayLine(b, l) = RuntimeLeases!After(b, l)
      BY <1>2 DEF RuntimeLeases!ReplayLine
    <2>2. l.kind = "U" => l.index = b.uses[l.lease] + 1
      BY <1>2 DEF RuntimeLeases!Accepts
    <2> QED
      BY <2>1, <2>2, LeaseLineEffect DEF Counted
  <1>3. CASE b.healthy /\ ~RuntimeLeases!Accepts(b, l)
    BY <1>3, Spoils DEF RuntimeLeases!ReplayLine, Counted
  <1> QED
    BY <1>1, <1>2, <1>3

LEMMA LeaseBooksAfter ==
    ASSUME IInv, JInv, NEW l \in LeaseLines, RuntimeLeases!Running,
           RuntimeLeases!Accepts(leaseMem, l),
           RuntimeLeases!Append(l) \/ RuntimeLeases!AppendFails(l)
    PROVE  /\ leaseMem \in HealthyLeases /\ leaseMem \in RuntimeLeases!Books
           /\ LeaseFileInv'
           /\ \A b \in HealthyLeases' :
                b \in HealthyLeases \/ b = RuntimeLeases!After(leaseMem, l)
           /\ RuntimeLeases!Append(l) =>
                \A b \in HealthyLeases' : b = RuntimeLeases!After(leaseMem, l)
           /\ \A b \in AllLeases' : \E a \in AllLeases : Counted(a, b, l)
PROOF
  <1> DEFINE d == leaseFile.disk
             book == RuntimeLeases!ReplayLine(d, l)
             spoilt == RuntimeLeases!Spoil(d)
             tail == IF leaseFile.clean THEN book ELSE spoilt
             new == RuntimeLeases!After(leaseMem, l)
  <1>1. /\ d \in RuntimeLeases!Books /\ leaseFile.view \in RuntimeLeases!Books
        /\ leaseMem \in RuntimeLeases!Books /\ leaseMem # None /\ leaseMem.healthy
        /\ leaseFile \in Files(RuntimeLeases!Books)
    BY DEF IInv, Types, GateTypeOK, Files, RuntimeLeases!Running
  <1>2. leaseMem \in HealthyLeases /\ leaseMem \in AllLeases /\ d \in AllLeases
        /\ leaseFile.view \in AllLeases
    BY <1>1 DEF HealthyLeases, LeaseBooks, AllLeases
  <1>3. /\ tail.healthy => leaseFile.clean /\ leaseFile.view.healthy /\ tail = new
        /\ leaseFile.clean /\ leaseFile.view.healthy => tail = new
    <2>1. CASE ~leaseFile.clean
      BY <1>1, <2>1, Spoils
    <2>2. CASE leaseFile.clean /\ ~leaseFile.view.healthy
      <3>1. ~d.healthy
        BY <2>2 DEF JInv, LeaseFileInv
      <3>2. tail = d
        BY <2>2, <3>1 DEF RuntimeLeases!ReplayLine
      <3> QED
        BY <2>2, <3>1, <3>2
    <2>3. CASE leaseFile.clean /\ leaseFile.view.healthy
      <3>1. d = leaseMem
        BY <1>1, <2>3 DEF JInv, LeaseFileInv
      <3>2. book = new
        BY <1>1, <3>1 DEF RuntimeLeases!ReplayLine
      <3> QED
        BY <2>3, <3>2
    <2> QED
      BY <2>1, <2>2, <2>3
  <1>4. Counted(d, tail, l) /\ Counted(d, spoilt, l) /\ ~spoilt.healthy
    BY <1>1, LeaseReplayCounts, Spoils DEF Counted
  <1>5. Counted(leaseMem, new, l)
    <2>1. l.kind = "U" => l.index = leaseMem.uses[l.lease] + 1
      BY DEF RuntimeLeases!Accepts
    <2> QED
      BY <1>1, <2>1, LeaseLineEffect DEF Counted
  <1>6. \A a : Counted(a, a, l)
    BY DEF Counted
  <1>7. CASE RuntimeLeases!Append(l)
    <2>1. leaseFile' = [disk |-> tail, view |-> tail, clean |-> TRUE] /\ leaseMem' = new
      BY <1>7 DEF RuntimeLeases!Append, RuntimeLeases!Appended
    <2> HIDE DEF tail, new, d
    <2>2. leaseFile'.view = tail /\ leaseFile'.disk = tail
      BY <2>1
    <2>3. LeaseFileInv'
      BY <1>3, <2>1, <2>2 DEF LeaseFileInv
    <2>4. \A b \in HealthyLeases' : b = new
      BY <1>3, <2>1, <2>2 DEF HealthyLeases, LeaseBooks
    <2>5. AllLeases' \subseteq {tail, new}
      BY <2>1, <2>2 DEF AllLeases, LeaseBooks
    <2>6. \A b \in AllLeases' : \E a \in AllLeases : Counted(a, b, l)
      BY <1>2, <1>4, <1>5, <2>5
    <2> QED
      BY <1>1, <1>2, <2>3, <2>4, <2>6 DEF new
  <1>8. CASE RuntimeLeases!AppendFails(l)
    <2>1. leaseMem' = leaseMem
      BY <1>8 DEF RuntimeLeases!AppendFails
    <2>2. \/ leaseFile' = leaseFile
          \/ leaseFile' = [leaseFile EXCEPT !.view = spoilt, !.clean = FALSE]
          \/ leaseFile' = [leaseFile EXCEPT !.view = tail, !.clean = FALSE]
      BY <1>8 DEF RuntimeLeases!AppendFails, RuntimeLeases!Damaged
    <2>d. d = leaseFile.disk
      OBVIOUS
    <2> HIDE DEF tail, new, d, spoilt
    <2>4. /\ leaseFile'.disk = d
          /\ \/ leaseFile' = leaseFile
             \/ ~leaseFile'.clean /\ leaseFile'.view = spoilt
             \/ ~leaseFile'.clean /\ leaseFile'.view = tail
      BY <1>1, <2>2, <2>d DEF Files
    <2>5. \/ leaseFile' = leaseFile
          \/ ~leaseFile'.clean /\ (leaseFile'.view.healthy => leaseFile'.view = new)
      <3>1. tail.healthy => tail = new
        BY <1>3
      <3> QED
        BY <1>4, <2>4, <3>1
    <2>6. LeaseFileInv'
      BY <2>1, <2>5 DEF JInv, LeaseFileInv
    <2>7. \A b \in HealthyLeases' : b \in HealthyLeases \/ b = new
      BY <2>1, <2>5 DEF HealthyLeases, LeaseBooks
    <2>8. ASSUME RuntimeLeases!Append(l) PROVE \A b \in HealthyLeases' : b = new
      BY <1>7, <2>8 DEF new
    <2>9. AllLeases' \subseteq AllLeases \cup {tail, spoilt}
      BY <2>1, <2>4, <2>d DEF AllLeases, LeaseBooks
    <2>10. \A b \in AllLeases' : \E a \in AllLeases : Counted(a, b, l)
      BY <1>2, <1>4, <1>6, <2>9
    <2> QED
      BY <1>1, <1>2, <2>6, <2>7, <2>8, <2>10 DEF new
  <1> QED
    BY <1>7, <1>8

-----------------------------------------------------------------------------
(* Types, and the call under way.                                           *)

BookTyping ==
    /\ HealthyKeys \subseteq SessionKeys!Books
    /\ AllLeases \subseteq RuntimeLeases!Books
    /\ HealthyLeases \subseteq AllLeases
    /\ \A k \in HealthyKeys, s \in Branches : k.uses[s] \in Nat
    /\ \A b \in AllLeases, l \in Leases : b.uses[l] \in Nat
    /\ \A s \in Branches : Voucher(s) \in Receipts /\ granted[Voucher(s)] \in Nat

LEMMA BookTypes == IInv => BookTyping
PROOF
  <1> SUFFICES ASSUME IInv PROVE BookTyping
    OBVIOUS
  <1>1. HealthyKeys \subseteq SessionKeys!Books
    BY DEF IInv, Types, GateTypeOK, HealthyKeys, KeyBooks, Files
  <1>2. AllLeases \subseteq RuntimeLeases!Books /\ HealthyLeases \subseteq AllLeases
    BY DEF IInv, Types, GateTypeOK, HealthyLeases, LeaseBooks, AllLeases, Files
  <1>3. \A s \in Branches : Voucher(s) \in Receipts
    BY ChainAssumption DEF Voucher, Bundle, SessionKeys!Bundle, SessionKeys!Certificate
  <1>4. granted \in [Receipts -> Nat]
    BY DEF IInv, Types
  <1> QED
    BY <1>1, <1>2, <1>3, <1>4 DEF BookTyping, SessionKeys!Books, RuntimeLeases!Books

LEMMA LeasesOfFinite ==
    ASSUME NEW s \in Branches
    PROVE  LeasesOf(s) \in SUBSET Leases /\ IsFiniteSet(LeasesOf(s))
PROOF
  <1>1. LeasesOf(s) \in SUBSET Leases
    BY DEF LeasesOf
  <1> QED
    BY <1>1, FS_Subset, ChainAssumption

LEMMA SpentType ==
    ASSUME NEW b \in RuntimeLeases!Books, NEW s \in Branches
    PROVE  Spent(b, s) \in Nat
PROOF
  <1>1. b.uses \in [Leases -> Nat]
    BY DEF RuntimeLeases!Books
  <1> QED
    BY <1>1, LeasesOfFinite, SumLaws DEF Spent

LEMMA SpentCounted ==
    ASSUME NEW a \in RuntimeLeases!Books, NEW b \in RuntimeLeases!Books,
           NEW l \in LeaseLines, Counted(a, b, l), NEW s \in Branches
    PROVE  Spent(b, s) <= Spent(a, s)
                + (IF l.kind = "U" /\ BranchOf(l.lease) = s THEN 1 ELSE 0)
PROOF
  <1>1. a.uses \in [Leases -> Nat] /\ b.uses \in [Leases -> Nat] /\ l.lease \in Leases
    BY DEF RuntimeLeases!Books, LeaseLines
  <1>2. Spent(a, s) \in Nat /\ Spent(b, s) \in Nat
    BY SpentType
  <1>3. CASE b.uses = a.uses
    BY <1>2, <1>3 DEF Spent
  <1>4. CASE l.kind = "U" /\ b.uses = [a.uses EXCEPT ![l.lease] = a.uses[l.lease] + 1]
    <2> DEFINE u == a.uses
               v == b.uses
               x == l.lease
               S == LeasesOf(s)
    <2>1. \A y \in Leases : v[y] = IF y = x THEN u[x] + 1 ELSE u[y]
      BY <1>1, <1>4
    <2>2. S \in SUBSET Leases /\ IsFiniteSet(S) /\ 1 \in Nat
      BY LeasesOfFinite
    <2>3. x \in S <=> BranchOf(x) = s
      BY <1>1 DEF LeasesOf
    <2>4. u \in [Leases -> Nat] /\ v \in [Leases -> Nat] /\ x \in Leases
      BY <1>1
    <2>5. Spent(b, s) = SumFunctionOnSet(v, S) /\ Spent(a, s) = SumFunctionOnSet(u, S)
      BY DEF Spent
    <2> HIDE DEF u, v, x, S
    <2>6. SumFunctionOnSet(v, S) = SumFunctionOnSet(u, S) + (IF x \in S THEN 1 ELSE 0)
      BY <2>1, <2>2, <2>4, SumBump
    <2> QED
      BY <1>2, <1>4, <2>3, <2>5, <2>6 DEF x
  <1> QED
    BY <1>3, <1>4 DEF Counted

LEMMA PendingType == \A step, s : Pending(step, s) \in {0, 1}
BY DEF Pending

LEMMA InFlightType == InFlight \in {0, 1}
BY DEF InFlight

LEMMA GoesTo ==
    ASSUME IInv, NEW step \in Steps, At(step), NEW next \in Steps, Goto(next)
    PROVE  call' # None /\ call'.at = next /\ call'.lease = call.lease
PROOF
  <1>1. call \in [at : Steps, lease : Leases]
    BY AtStep
  <1>2. call' = [call EXCEPT !.at = next]
    BY DEF Goto
  <1>3. /\ call' \in [at : Steps, lease : Leases]
        /\ call'.at = next /\ call'.lease = call.lease
    BY <1>1, <1>2
  <1>4. call' \in Calls
    BY <1>3 DEF Calls
  <1> QED
    BY <1>3, <1>4, ChainAssumption

LEMMA NoneUnderWay ==
    ASSUME call' = None
    PROVE  InFlight' = 0 /\ \A step, s : Pending(step, s)' = 0
BY DEF InFlight, Pending

\* How the comparisons with the layer below survive a step.
LEMMA KeysCoveredStep ==
    ASSUME IInv, KeysCovered, IInv',
           \A k \in HealthyKeys' : \E j \in HealthyKeys : \A s \in Branches :
                k.uses[s] + Pending("useKey", s)' + granted[Voucher(s)]
                    <= j.uses[s] + Pending("useKey", s) + granted'[Voucher(s)]
    PROVE  KeysCovered'
PROOF
  <1>1. ASSUME NEW k \in HealthyKeys', NEW s \in Branches
        PROVE  k.uses[s] + Pending("useKey", s)' <= granted'[Voucher(s)]
    <2>1. PICK j \in HealthyKeys :
                k.uses[s] + Pending("useKey", s)' + granted[Voucher(s)]
                    <= j.uses[s] + Pending("useKey", s) + granted'[Voucher(s)]
      OBVIOUS
    <2>2. j.uses[s] + Pending("useKey", s) <= granted[Voucher(s)]
      BY DEF KeysCovered
    <2>3. j.uses[s] \in Nat /\ granted[Voucher(s)] \in Nat
      BY BookTypes DEF BookTyping
    <2>4. k.uses[s] \in Nat /\ granted'[Voucher(s)] \in Nat
      <3>1. BookTyping'
        BY BookTypes, PTL
      <3>2. (\A x \in HealthyKeys, y \in Branches : x.uses[y] \in Nat)'
        BY <3>1 DEF BookTyping
      <3>3. granted' \in [Receipts -> Nat]
        BY DEF IInv, Types
      <3> QED
        BY <3>2, <3>3, BookTypes DEF BookTyping
    <2>5. Pending("useKey", s) \in {0, 1} /\ Pending("useKey", s)' \in {0, 1}
      BY DEF Pending
    <2> QED
      BY <2>1, <2>2, <2>3, <2>4, <2>5
  <1> QED
    BY <1>1 DEF KeysCovered, Voucher

LEMMA LeasesCoveredStep ==
    ASSUME IInv, LeasesCovered, IInv',
           \A k \in HealthyKeys', b \in AllLeases' :
             \E j \in HealthyKeys, a \in AllLeases : \A s \in Branches :
                Spent(b, s) + Pending("useLease", s)' + j.uses[s]
                    <= Spent(a, s) + Pending("useLease", s) + k.uses[s]
    PROVE  LeasesCovered'
PROOF
  <1>1. ASSUME NEW k \in HealthyKeys', NEW b \in AllLeases', NEW s \in Branches
        PROVE  Spent(b, s) + Pending("useLease", s)' <= k.uses[s]
    <2>1. PICK j \in HealthyKeys, a \in AllLeases :
                Spent(b, s) + Pending("useLease", s)' + j.uses[s]
                    <= Spent(a, s) + Pending("useLease", s) + k.uses[s]
      OBVIOUS
    <2>2. Spent(a, s) + Pending("useLease", s) <= j.uses[s]
      BY DEF LeasesCovered
    <2>3. j.uses[s] \in Nat /\ Spent(a, s) \in Nat
      BY BookTypes, SpentType DEF BookTyping
    <2>4. k.uses[s] \in Nat /\ Spent(b, s) \in Nat
      <3>1. BookTyping'
        BY BookTypes, PTL
      <3> QED
        BY <3>1, SpentType DEF BookTyping
    <2>5. Pending("useLease", s) \in {0, 1} /\ Pending("useLease", s)' \in {0, 1}
      BY DEF Pending
    <2> QED
      BY <2>1, <2>2, <2>3, <2>4, <2>5
  <1> QED
    BY <1>1 DEF LeasesCovered, Spent, LeasesOf, BranchOf

\* Failures and calls under way make up for what is burnt.
LEMMA BurnStep ==
    ASSUME IInv, Histories, OnlyFailuresBurn, Histories',
           UNCHANGED <<granted, allowed>>,
           mishaps + InFlight <= mishaps' + InFlight'
    PROVE  OnlyFailuresBurn'
PROOF
  <1> DEFINE g == SumFunctionOnSet([s \in Branches |-> granted[Voucher(s)]], Branches)
             a == SumFunctionOnSet(allowed, Leases)
  <1>1. g' = g /\ a' = a
    BY DEF Voucher
  <1>2. g \in Nat /\ a \in Nat
    <2>1. [s \in Branches |-> granted[Voucher(s)]] \in [Branches -> Nat]
      BY BookTypes DEF BookTyping
    <2> HIDE DEF g
    <2>2. allowed \in [Leases -> Nat]
      BY DEF Histories
    <2> QED
      BY <2>1, <2>2, SumLaws, ChainAssumption DEF g
  <1>3. g <= a + mishaps + InFlight
    BY DEF OnlyFailuresBurn
  <1>4. mishaps \in Nat /\ mishaps' \in Nat /\ InFlight \in {0, 1} /\ InFlight' \in {0, 1}
    BY DEF Histories, InFlight
  <1>5. PICK n \in Nat, m \in Nat : n = g /\ m = a
    BY <1>2
  <1>6. n = g' /\ m = a'
    BY <1>1, <1>5
  <1>7. n <= m + mishaps + InFlight
    BY <1>3, <1>5
  <1> HIDE DEF g, a
  <1>8. n <= m + mishaps' + InFlight'
    <2>1. PICK p \in Nat, q \in Nat, i \in Nat, j \in Nat :
            p = mishaps /\ q = mishaps' /\ i = InFlight /\ j = InFlight'
      BY <1>4
    <2>2. n <= m + p + i /\ p + i <= q + j
      BY <1>7, <2>1
    <2>3. n <= m + q + j
      BY ONLY <2>2, n \in Nat, m \in Nat, p \in Nat, q \in Nat, i \in Nat, j \in Nat
    <2> QED
      BY <2>1, <2>3
  <1> QED
    BY <1>6, <1>8 DEF OnlyFailuresBurn, g, a

\* A step that writes no line, spends nothing and acknowledges nothing.
LEMMA QuietStep ==
    ASSUME IInv, JInv, IInv',
           HealthyKeys' \subseteq HealthyKeys, HealthyLeases' \subseteq HealthyLeases,
           AllLeases' \subseteq AllLeases, KeyFileInv', LeaseFileInv',
           UNCHANGED <<granted, allowed, struck>>,
           \A s : Pending("useKey", s)' <= Pending("useKey", s),
           \A s : Pending("useLease", s)' <= Pending("useLease", s),
           mishaps' \in Nat, mishaps + InFlight <= mishaps' + InFlight'
    PROVE  JInv'
PROOF
  <1>1. Histories'
    BY DEF JInv, Histories
  <1>2. \A k \in HealthyKeys' : \E j \in HealthyKeys : \A s \in Branches :
                k.uses[s] + Pending("useKey", s)' + granted[Voucher(s)]
                    <= j.uses[s] + Pending("useKey", s) + granted'[Voucher(s)]
    <2> SUFFICES ASSUME NEW k \in HealthyKeys', NEW s \in Branches
                 PROVE  k.uses[s] + Pending("useKey", s)' + granted[Voucher(s)]
                            <= k.uses[s] + Pending("useKey", s) + granted[Voucher(s)]
      OBVIOUS
    <2>1. k.uses[s] \in Nat /\ granted[Voucher(s)] \in Nat
      BY BookTypes DEF BookTyping
    <2>2. Pending("useKey", s) \in {0, 1} /\ Pending("useKey", s)' \in {0, 1}
      BY DEF Pending
    <2> QED
      BY <2>1, <2>2
  <1>3. KeysCovered'
    BY <1>2, KeysCoveredStep DEF JInv
  <1>4. \A k \in HealthyKeys', b \in AllLeases' :
             \E j \in HealthyKeys, a \in AllLeases : \A s \in Branches :
                Spent(b, s) + Pending("useLease", s)' + j.uses[s]
                    <= Spent(a, s) + Pending("useLease", s) + k.uses[s]
    <2> SUFFICES ASSUME NEW k \in HealthyKeys', NEW b \in AllLeases', NEW s \in Branches
                 PROVE  Spent(b, s) + Pending("useLease", s)' + k.uses[s]
                            <= Spent(b, s) + Pending("useLease", s) + k.uses[s]
      OBVIOUS
    <2>1. k.uses[s] \in Nat /\ Spent(b, s) \in Nat
      BY BookTypes, SpentType DEF BookTyping
    <2>2. Pending("useLease", s) \in {0, 1} /\ Pending("useLease", s)' \in {0, 1}
      BY DEF Pending
    <2> QED
      BY <2>1, <2>2
  <1>5. LeasesCovered'
    BY <1>4, LeasesCoveredStep DEF JInv
  <1>6. LeasesCount' /\ KeysStruck' /\ LeasesStruck'
    BY DEF JInv, LeasesCount, KeysStruck, LeasesStruck
  <1>7. OnlyFailuresBurn'
    BY <1>1, BurnStep DEF JInv
  <1> QED
    BY <1>1, <1>3, <1>5, <1>6, <1>7 DEF JInv

-----------------------------------------------------------------------------
(* The actions that write no line.                                          *)

LEMMA BooksStay ==
    ASSUME JInv, UNCHANGED <<keyVars, leaseVars>>
    PROVE  /\ HealthyKeys' \subseteq HealthyKeys /\ HealthyLeases' \subseteq HealthyLeases
           /\ AllLeases' \subseteq AllLeases /\ KeyFileInv' /\ LeaseFileInv'
BY DEF JInv, KeyFileInv, LeaseFileInv, HealthyKeys, HealthyLeases, AllLeases, KeyBooks,
       LeaseBooks, keyVars, leaseVars

\* The call stays where it is, or goes nowhere that spends.
LEMMA CallSpendsNothing ==
    ASSUME call' = call \/ (call' # None /\ call'.at \notin {"useKey", "useLease"})
           \/ call' = None
    PROVE  /\ call' = call => InFlight' = InFlight
           /\ call' # call => InFlight' = 0
           /\ \A s : Pending("useKey", s)' <= Pending("useKey", s)
           /\ \A s : Pending("useLease", s)' <= Pending("useLease", s)
PROOF
  <1>1. CASE call' = call
    <2>1. InFlight' = InFlight
      BY <1>1 DEF InFlight
    <2>2. \A step, s : Pending(step, s)' = Pending(step, s) /\ Pending(step, s) \in {0, 1}
      BY <1>1 DEF Pending, BranchOf
    <2> QED
      BY <1>1, <2>1, <2>2
  <1>2. CASE call' = None \/ (call' # None /\ call'.at \notin {"useKey", "useLease"})
    <2>1. InFlight' = 0
      BY <1>2 DEF InFlight
    <2>2. \A s : Pending("useKey", s)' = 0 /\ Pending("useLease", s)' = 0
      BY <1>2 DEF Pending
    <2>3. \A s : Pending("useKey", s) \in {0, 1} /\ Pending("useLease", s) \in {0, 1}
      BY DEF Pending
    <2>4. call' = call => InFlight' = InFlight
      BY DEF InFlight
    <2> QED
      BY <2>1, <2>2, <2>3, <2>4
  <1> QED
    BY <1>1, <1>2

LEMMA ClockSpends == ASSUME NEW t \in Times, IInv, JInv, IInv', Clock(t) PROVE JInv'
PROOF
  <1>1. /\ UNCHANGED <<keyVars, leaseVars>> /\ call' = call /\ mishaps' = mishaps
        /\ UNCHANGED <<granted, allowed, struck>>
    BY DEF Clock, budgetVars, histories
  <1>2. InFlight' = InFlight /\ InFlight \in {0, 1} /\ mishaps \in Nat
    BY <1>1 DEF InFlight, JInv, Histories
  <1>3. mishaps' \in Nat /\ mishaps + InFlight <= mishaps' + InFlight'
    BY <1>1, <1>2
  <1> QED
    BY <1>1, <1>3, BooksStay, CallSpendsNothing, QuietStep

LEMMA StutterSpends == ASSUME IInv, JInv, IInv', UNCHANGED vars PROVE JInv'
PROOF
  <1>1. /\ UNCHANGED <<keyVars, leaseVars>> /\ call' = call /\ mishaps' = mishaps
        /\ UNCHANGED <<granted, allowed, struck>>
    BY DEF vars, budgetVars, histories
  <1>2. InFlight' = InFlight /\ InFlight \in {0, 1} /\ mishaps \in Nat
    BY <1>1 DEF InFlight, JInv, Histories
  <1>3. mishaps' \in Nat /\ mishaps + InFlight <= mishaps' + InFlight'
    BY <1>1, <1>2
  <1> QED
    BY <1>1, <1>3, BooksStay, CallSpendsNothing, QuietStep

\* What is replayed is the journal.
LEMMA OpenSpends == ASSUME IInv, JInv, IInv', Open PROVE JInv'
PROOF
  <1>1. /\ keyFile' = keyFile /\ keyMem' = keyFile.view
        /\ leaseFile' = leaseFile /\ leaseMem' = leaseFile.view
        /\ call' = call /\ mishaps' = mishaps
        /\ UNCHANGED <<granted, allowed, struck>>
    BY DEF Open, SessionKeys!Open, RuntimeLeases!Open, budgetVars, histories
  <1>2. InFlight' = InFlight /\ InFlight \in {0, 1} /\ mishaps \in Nat
    BY <1>1 DEF InFlight, JInv, Histories
  <1>3. mishaps' \in Nat /\ mishaps + InFlight <= mishaps' + InFlight'
    BY <1>1, <1>2
  <1>4. /\ HealthyKeys' \subseteq HealthyKeys /\ HealthyLeases' \subseteq HealthyLeases
        /\ AllLeases' \subseteq AllLeases
    BY <1>1 DEF HealthyKeys, HealthyLeases, AllLeases, KeyBooks, LeaseBooks
  <1>5. KeyFileInv' /\ LeaseFileInv'
    BY <1>1 DEF JInv, KeyFileInv, LeaseFileInv
  <1> QED
    BY <1>1, <1>3, <1>4, <1>5, CallSpendsNothing, QuietStep

\* A death burns the use that was under way, and counts as a failure.
LEMMA DieSpends == ASSUME IInv, JInv, IInv', Die PROVE JInv'
PROOF
  <1>1. /\ keyFile' = keyFile /\ keyMem' = None
        /\ leaseFile' = leaseFile /\ leaseMem' = None
        /\ call' = None /\ mishaps' = mishaps + 1
        /\ UNCHANGED <<granted, allowed, struck>>
    BY DEF Die, Mishap, budgetVars, histories
  <1>2. InFlight \in {0, 1} /\ InFlight' = 0 /\ mishaps \in Nat
    BY <1>1, NoneUnderWay DEF InFlight, JInv, Histories
  <1>3. mishaps' \in Nat /\ mishaps + InFlight <= mishaps' + InFlight'
    <2>1. CASE InFlight = 0
      BY <1>1, <1>2, <2>1
    <2>2. CASE InFlight = 1
      BY <1>1, <1>2, <2>2
    <2> QED
      BY <1>2, <2>1, <2>2
  <1>4. /\ HealthyKeys' \subseteq HealthyKeys /\ HealthyLeases' \subseteq HealthyLeases
        /\ AllLeases' \subseteq AllLeases
    BY <1>1 DEF HealthyKeys, HealthyLeases, AllLeases, KeyBooks, LeaseBooks
  <1>5. KeyFileInv' /\ LeaseFileInv'
    BY <1>1 DEF JInv, KeyFileInv, LeaseFileInv
  <1> QED
    BY <1>1, <1>3, <1>4, <1>5, CallSpendsNothing, QuietStep

LEMMA IssueVoucherSpends ==
    ASSUME NEW s \in Branches, IInv, JInv, IInv', IssueVoucher(s) PROVE JInv'
PROOF
  <1>1. /\ UNCHANGED <<keyVars, leaseVars>> /\ call = None /\ mishaps' = mishaps
        /\ UNCHANGED <<granted, allowed, struck>>
        /\ call' = [at |-> "register", branch |-> s]
    BY DEF IssueVoucher, Idle, Authority!Delegate, histories
  <1>2. call' # None /\ call'.at = "register"
    BY <1>1, ChainAssumption DEF Calls
  <1>3. InFlight = 0 /\ InFlight' = 0 /\ mishaps \in Nat
    BY <1>1, <1>2 DEF InFlight, JInv, Histories
  <1>4. mishaps' \in Nat /\ mishaps + InFlight <= mishaps' + InFlight'
    BY <1>1, <1>3
  <1> QED
    BY <1>1, <1>2, <1>4, BooksStay, CallSpendsNothing, QuietStep

LEMMA CheckLeaseSpends ==
    ASSUME NEW l \in Leases, NEW r \in Runtimes, IInv, JInv, IInv', CheckLease(l, r)
    PROVE  JInv'
PROOF
  <1>1. /\ UNCHANGED <<keyVars, leaseVars>> /\ call = None /\ mishaps' = mishaps
        /\ UNCHANGED <<granted, allowed, struck>>
        /\ call' = [at |-> "checkKey", lease |-> l]
    BY DEF CheckLease, Idle, histories, budgetVars
  <1>2. call' # None /\ call'.at = "checkKey"
    BY <1>1, ChainAssumption DEF Calls, Steps
  <1>3. InFlight = 0 /\ InFlight' = 0 /\ mishaps \in Nat
    BY <1>1, <1>2 DEF InFlight, JInv, Histories
  <1>4. mishaps' \in Nat /\ mishaps + InFlight <= mishaps' + InFlight'
    BY <1>1, <1>3
  <1> QED
    BY <1>1, <1>2, <1>4, BooksStay, CallSpendsNothing, QuietStep

LEMMA CheckKeySpends == ASSUME IInv, JInv, IInv', CheckKey PROVE JInv'
PROOF
  <1>1. /\ UNCHANGED <<keyVars, leaseVars>> /\ mishaps' = mishaps
        /\ UNCHANGED <<granted, allowed, struck>>
        /\ At("checkKey")
        /\ call' = None \/ Goto("useVoucher")
    BY DEF CheckKey, histories, budgetVars
  <1>2. call' = None \/ (call' # None /\ call'.at = "useVoucher")
    BY <1>1, GoesTo DEF Steps
  <1>3. InFlight = 0 /\ InFlight' = 0 /\ mishaps \in Nat
    BY <1>1, <1>2 DEF InFlight, At, JInv, Histories
  <1>4. mishaps' \in Nat /\ mishaps + InFlight <= mishaps' + InFlight'
    BY <1>1, <1>3
  <1> QED
    BY <1>1, <1>2, <1>4, BooksStay, CallSpendsNothing, QuietStep

\* A voucher's use is under way until the key counts it.
LEMMA UseVoucherSpends == ASSUME IInv, JInv, IInv', UseVoucher PROVE JInv'
PROOF
  <1>1. /\ UNCHANGED <<keyVars, leaseVars>> /\ mishaps' = mishaps
        /\ UNCHANGED <<allowed, struck>>
        /\ At("useVoucher")
    BY DEF UseVoucher, histories
  <1>2. InFlight = 0 /\ mishaps \in Nat
    BY <1>1 DEF InFlight, At, JInv, Histories
  <1>3. CASE UNCHANGED budgetVars /\ call' = None
    <2>1. InFlight' = 0 /\ UNCHANGED granted
      BY <1>3, NoneUnderWay DEF budgetVars
    <2>2. mishaps' \in Nat /\ mishaps + InFlight <= mishaps' + InFlight'
      BY <1>1, <1>2, <2>1
    <2> QED
      BY <1>1, <1>3, <2>1, <2>2, BooksStay, CallSpendsNothing, QuietStep
  <1>4. CASE Authority!Use(Voucher(BranchOf(call.lease))) /\ Goto("useKey")
    <2> DEFINE o == BranchOf(call.lease)
    <2>1. o \in Branches
      BY <1>1, AtStep DEF Steps
    <2>2. call' # None /\ call'.at = "useKey" /\ BranchOf(call'.lease) = o
      BY <1>1, <1>4, GoesTo DEF Steps
    <2>3. granted' = [granted EXCEPT ![Voucher(o)] = @ + 1]
      BY <1>4 DEF Authority!Use
    <2>4. /\ \A s \in Branches : Pending("useKey", s)' = IF s = o THEN 1 ELSE 0
          /\ \A s : Pending("useLease", s)' = 0
          /\ InFlight' = 1
      BY <2>2 DEF Pending, InFlight, BranchOf
    <2>5. \A s \in Branches : Pending("useKey", s) = 0 /\ Pending("useLease", s) = 0
      BY <1>1 DEF Pending, At
    <2> HIDE DEF o
    <2>6. \A s, t \in Branches : Voucher(s) = Voucher(t) => s = t
      BY ChainAssumption DEF Voucher, Bundle, SessionKeys!Bundle, SessionKeys!Certificate
    <2>7. \A s \in Branches :
            granted'[Voucher(s)] = granted[Voucher(s)] + (IF s = o THEN 1 ELSE 0)
      <3>1. granted \in [Receipts -> Nat]
        BY DEF IInv, Types
      <3> QED
        BY <2>1, <2>3, <2>6, <3>1, BookTypes DEF BookTyping
    <2>8. /\ HealthyKeys' \subseteq HealthyKeys /\ HealthyLeases' \subseteq HealthyLeases
          /\ AllLeases' \subseteq AllLeases /\ KeyFileInv' /\ LeaseFileInv'
      BY <1>1, BooksStay
    <2>9. \A k \in HealthyKeys' : \E j \in HealthyKeys : \A s \in Branches :
                k.uses[s] + Pending("useKey", s)' + granted[Voucher(s)]
                    <= j.uses[s] + Pending("useKey", s) + granted'[Voucher(s)]
      <3> SUFFICES ASSUME NEW k \in HealthyKeys', NEW s \in Branches
                   PROVE  k.uses[s] + Pending("useKey", s)' + granted[Voucher(s)]
                            <= k.uses[s] + Pending("useKey", s) + granted'[Voucher(s)]
        BY <2>8
      <3>1. k.uses[s] \in Nat /\ granted[Voucher(s)] \in Nat
        BY <2>8, BookTypes DEF BookTyping
      <3> QED
        BY <2>4, <2>5, <2>7, <3>1
    <2>10. KeysCovered'
      BY <2>9, KeysCoveredStep DEF JInv
    <2>11. \A k \in HealthyKeys', b \in AllLeases' :
             \E j \in HealthyKeys, a \in AllLeases : \A s \in Branches :
                Spent(b, s) + Pending("useLease", s)' + j.uses[s]
                    <= Spent(a, s) + Pending("useLease", s) + k.uses[s]
      <3> SUFFICES ASSUME NEW k \in HealthyKeys', NEW b \in AllLeases', NEW s \in Branches
                   PROVE  Spent(b, s) + Pending("useLease", s)' + k.uses[s]
                            <= Spent(b, s) + Pending("useLease", s) + k.uses[s]
        BY <2>8
      <3>1. k.uses[s] \in Nat /\ Spent(b, s) \in Nat
        BY <2>8, BookTypes, SpentType DEF BookTyping
      <3> QED
        BY <2>4, <2>5, <3>1
    <2>12. LeasesCovered'
      BY <2>11, LeasesCoveredStep DEF JInv
    <2>13. Histories' /\ LeasesCount' /\ KeysStruck' /\ LeasesStruck'
      BY <1>1, <2>8 DEF JInv, Histories, LeasesCount, KeysStruck, LeasesStruck
    <2>14. OnlyFailuresBurn'
      <3> DEFINE w == [s \in Branches |-> granted[Voucher(s)]]
                 v == [s \in Branches |-> granted'[Voucher(s)]]
                 g == SumFunctionOnSet(w, Branches)
                 a == SumFunctionOnSet(allowed, Leases)
      <3>1. w \in [Branches -> Nat] /\ v \in [Branches -> Nat]
        BY <2>7, BookTypes DEF BookTyping
      <3>2. \A y \in Branches : v[y] = IF y = o THEN w[o] + 1 ELSE w[y]
        BY <2>1, <2>7, BookTypes DEF BookTyping
      <3>3. g <= a + mishaps + InFlight
        BY DEF JInv, OnlyFailuresBurn
      <3>4. a \in Nat
        BY SumLaws, ChainAssumption DEF JInv, Histories
      <3>5. OnlyFailuresBurn' <=> SumFunctionOnSet(v, Branches) <= a + mishaps + InFlight'
        BY <1>1 DEF OnlyFailuresBurn, Voucher
      <3> HIDE DEF w, v
      <3>6. g \in Nat
        BY <3>1, SumLaws, ChainAssumption
      <3>7. Branches \in SUBSET Branches /\ 1 \in Nat /\ IsFiniteSet(Branches)
        BY ChainAssumption
      <3>8. SumFunctionOnSet(v, Branches) = g + 1
        BY <2>1, <3>1, <3>2, <3>7, SumBump
      <3> HIDE DEF g, a
      <3>9. g + 1 <= a + mishaps + InFlight'
        BY <1>2, <2>4, <3>3, <3>4, <3>6
      <3> QED
        BY <3>5, <3>8, <3>9
    <2> QED
      BY <2>8, <2>10, <2>12, <2>13, <2>14 DEF JInv
  <1> QED
    BY <1>3, <1>4 DEF UseVoucher

-----------------------------------------------------------------------------
(* The actions that write a line.                                           *)

\* A revocation stays as it was written.
LEMMA StruckStays ==
    ASSUME IInv, JInv, NEW l \in KeyLines, SessionKeys!Accepts(keyMem, l),
           keyMem \in HealthyKeys, NEW r \in struck
    PROVE  /\ r.of \in Branches => SessionKeys!After(keyMem, l).revoked[r.of] = r.at
           /\ r.of \in EphemeralKeys => SessionKeys!After(keyMem, l).keyRevoked[r.of] = r.at
PROOF
  <1> DEFINE new == SessionKeys!After(keyMem, l)
  <1>1. /\ r.of \in Branches => keyMem.revoked[r.of] = r.at
        /\ r.of \in EphemeralKeys => keyMem.keyRevoked[r.of] = r.at
        /\ r.at # 0
    BY DEF JInv, KeysStruck, Histories
  <1>2. keyMem \in SessionKeys!Books
    BY BookTypes DEF BookTyping
  <1>3. /\ new.revoked = IF l.kind = "X" THEN [keyMem.revoked EXCEPT ![l.branch] = l.at]
                         ELSE keyMem.revoked
        /\ new.keyRevoked = IF l.kind = "R" THEN [keyMem.keyRevoked EXCEPT ![l.key] = l.at]
                            ELSE keyMem.keyRevoked
    BY <1>2, KeyLineEffect
  <1>4. /\ l.kind = "X" => keyMem.revoked[l.branch] = 0
        /\ l.kind = "R" => keyMem.keyRevoked[l.key] = 0
    BY DEF SessionKeys!Accepts
  <1>5. keyMem.revoked \in [Branches -> Times \cup {0}]
        /\ keyMem.keyRevoked \in [EphemeralKeys -> Times \cup {0}]
    BY <1>2 DEF SessionKeys!Books
  <1> HIDE DEF new
  <1>6. ASSUME r.of \in Branches PROVE new.revoked[r.of] = r.at
    BY <1>1, <1>3, <1>4, <1>5, <1>6
  <1>7. ASSUME r.of \in EphemeralKeys PROVE new.keyRevoked[r.of] = r.at
    BY <1>1, <1>3, <1>4, <1>5, <1>7
  <1> QED
    BY <1>6, <1>7 DEF new

\* What a line of the session keys leaves of the comparisons with the leases,
\* which it does not touch.
LEMMA LeasesUntouched ==
    ASSUME JInv, UNCHANGED leaseVars
    PROVE  /\ LeaseFileInv' /\ AllLeases' = AllLeases /\ HealthyLeases' = HealthyLeases
           /\ UNCHANGED allowed => LeasesCount'
BY DEF JInv, LeaseFileInv, AllLeases, HealthyLeases, LeaseBooks, LeasesCount, leaseVars

LEMMA KeysUntouched ==
    ASSUME JInv, UNCHANGED keyVars
    PROVE  /\ KeyFileInv' /\ HealthyKeys' = HealthyKeys
           /\ UNCHANGED struck => KeysStruck'
BY DEF JInv, KeyFileInv, HealthyKeys, KeyBooks, KeysStruck, keyVars

\* A line of the session keys that is not a use, and what it revokes.
LEMMA KeyLineSpends ==
    ASSUME IInv, JInv, IInv', NEW l \in KeyLines, l.kind # "U",
           SessionKeys!Running, SessionKeys!Accepts(keyMem, l),
           SessionKeys!Append(l) \/ SessionKeys!AppendFails(l),
           UNCHANGED <<leaseVars, granted, allowed>>,
           call' = None \/ call' = call, InFlight' = InFlight,
           mishaps' = mishaps \/ mishaps' = mishaps + 1,
           \/ UNCHANGED struck
           \/ /\ SessionKeys!Append(l)
              /\ \E x \in Branches \cup EphemeralKeys, t \in Times :
                    /\ struck' = struck \cup {[of |-> x, at |-> t]}
                    /\ x \in Branches => l.kind = "X" /\ l.branch = x /\ l.at = t
                    /\ x \in EphemeralKeys => l.kind = "R" /\ l.key = x /\ l.at = t
    PROVE  JInv'
PROOF
  <1> DEFINE new == SessionKeys!After(keyMem, l)
  <1>1. /\ keyMem \in HealthyKeys /\ keyMem \in SessionKeys!Books /\ KeyFileInv'
        /\ \A k \in HealthyKeys' : k \in HealthyKeys \/ k = new
        /\ SessionKeys!Append(l) => \A k \in HealthyKeys' : k = new
    BY KeyBooksAfter
  <1>2. /\ new.uses = keyMem.uses
        /\ new.revoked = IF l.kind = "X" THEN [keyMem.revoked EXCEPT ![l.branch] = l.at]
                         ELSE keyMem.revoked
        /\ new.keyRevoked = IF l.kind = "R" THEN [keyMem.keyRevoked EXCEPT ![l.key] = l.at]
                            ELSE keyMem.keyRevoked
    BY <1>1, KeyLineEffect
  <1>3. \A r \in struck : /\ r.of \in Branches => new.revoked[r.of] = r.at
                          /\ r.of \in EphemeralKeys => new.keyRevoked[r.of] = r.at
    BY <1>1, StruckStays
  <1>4. /\ LeaseFileInv' /\ AllLeases' = AllLeases /\ HealthyLeases' = HealthyLeases
        /\ LeasesCount'
    BY LeasesUntouched
  <1>5. /\ \A s : Pending("useKey", s)' <= Pending("useKey", s)
        /\ \A s : Pending("useLease", s)' <= Pending("useLease", s)
    BY CallSpendsNothing
  <1> HIDE DEF new
  <1>6. \A k \in HealthyKeys' : \E j \in HealthyKeys : k.uses = j.uses
    BY <1>1, <1>2
  <1>7. \A k \in HealthyKeys' : \E j \in HealthyKeys : \A s \in Branches :
                k.uses[s] + Pending("useKey", s)' + granted[Voucher(s)]
                    <= j.uses[s] + Pending("useKey", s) + granted'[Voucher(s)]
    <2> SUFFICES ASSUME NEW k \in HealthyKeys', NEW j \in HealthyKeys, k.uses = j.uses,
                        NEW s \in Branches
                 PROVE  k.uses[s] + Pending("useKey", s)' + granted[Voucher(s)]
                            <= j.uses[s] + Pending("useKey", s) + granted'[Voucher(s)]
      BY <1>6
    <2>1. j.uses[s] \in Nat /\ granted[Voucher(s)] \in Nat
      BY BookTypes DEF BookTyping
    <2>2. Pending("useKey", s) \in {0, 1} /\ Pending("useKey", s)' \in {0, 1}
      BY DEF Pending
    <2> QED
      BY <1>5, <2>1, <2>2
  <1>8. KeysCovered'
    BY <1>7, KeysCoveredStep DEF JInv
  <1>9. \A k \in HealthyKeys', b \in AllLeases' :
             \E j \in HealthyKeys, a \in AllLeases : \A s \in Branches :
                Spent(b, s) + Pending("useLease", s)' + j.uses[s]
                    <= Spent(a, s) + Pending("useLease", s) + k.uses[s]
    <2> SUFFICES ASSUME NEW k \in HealthyKeys', NEW b \in AllLeases, NEW j \in HealthyKeys,
                        k.uses = j.uses, NEW s \in Branches
                 PROVE  Spent(b, s) + Pending("useLease", s)' + j.uses[s]
                            <= Spent(b, s) + Pending("useLease", s) + k.uses[s]
      BY <1>4, <1>6
    <2>1. j.uses[s] \in Nat /\ Spent(b, s) \in Nat
      BY BookTypes, SpentType DEF BookTyping
    <2>2. Pending("useLease", s) \in {0, 1} /\ Pending("useLease", s)' \in {0, 1}
      BY DEF Pending
    <2> QED
      BY <1>5, <2>1, <2>2
  <1>10. LeasesCovered'
    BY <1>9, LeasesCoveredStep DEF JInv
  <1>11. \A r \in struck' : r \in struck \/
            /\ SessionKeys!Append(l) /\ r.at \in Times /\ r.of \notin Leases
            /\ r.of \in Branches => l.kind = "X" /\ l.branch = r.of /\ l.at = r.at
            /\ r.of \in EphemeralKeys => l.kind = "R" /\ l.key = r.of /\ l.at = r.at
    BY ChainAssumption
  <1>12. KeysStruck'
    <2>1. ASSUME NEW k \in HealthyKeys', NEW r \in struck', r \in struck
          PROVE  /\ r.of \in Branches => k.revoked[r.of] = r.at
                 /\ r.of \in EphemeralKeys => k.keyRevoked[r.of] = r.at
      BY <1>1, <1>3, <2>1 DEF JInv, KeysStruck
    <2>2. ASSUME NEW k \in HealthyKeys', NEW r \in struck', r \notin struck
          PROVE  /\ r.of \in Branches => k.revoked[r.of] = r.at
                 /\ r.of \in EphemeralKeys => k.keyRevoked[r.of] = r.at
      <3>1. k = new
        BY <1>1, <1>11, <2>2
      <3>2. keyMem.revoked \in [Branches -> Times \cup {0}]
            /\ keyMem.keyRevoked \in [EphemeralKeys -> Times \cup {0}]
        BY <1>1 DEF SessionKeys!Books
      <3>3. ASSUME r.of \in Branches PROVE new.revoked[r.of] = r.at
        BY <1>2, <1>11, <2>2, <3>2, <3>3
      <3>4. ASSUME r.of \in EphemeralKeys PROVE new.keyRevoked[r.of] = r.at
        BY <1>2, <1>11, <2>2, <3>2, <3>4
      <3> QED
        BY <3>1, <3>3, <3>4
    <2> QED
      BY <2>1, <2>2 DEF KeysStruck
  <1>13. LeasesStruck'
    BY <1>4, <1>11 DEF JInv, LeasesStruck
  <1>14. Histories'
    <2>1. mishaps' \in Nat
      BY DEF JInv, Histories
    <2>2. \A r \in struck' : r.at \in Nat \ {0}
      BY <1>11, ChainAssumption DEF JInv, Histories
    <2> QED
      BY <2>1, <2>2 DEF JInv, Histories
  <1>15. OnlyFailuresBurn'
    <2>1. mishaps + InFlight <= mishaps' + InFlight'
      <3>1. InFlight \in {0, 1} /\ mishaps \in Nat
        BY DEF InFlight, JInv, Histories
      <3> QED
        BY <3>1
    <2> QED
      BY <1>14, <2>1, BurnStep DEF JInv
  <1> QED
    BY <1>1, <1>4, <1>8, <1>10, <1>12, <1>13, <1>14, <1>15 DEF JInv

LEMMA RegisterBranchSpends == ASSUME IInv, JInv, IInv', RegisterBranch PROVE JInv'
PROOF
  <1> DEFINE s == call.branch
             l == SessionKeys!HandOffLine(s)
  <1>1. /\ Registering /\ call' = None
        /\ UNCHANGED <<leaseVars, granted, allowed, struck>>
    BY DEF RegisterBranch, budgetVars
  <1>2. s \in Branches
    BY <1>1 DEF Registering, IInv, Types, GateTypeOK, Calls, Steps
  <1>3. InFlight = 0 /\ InFlight' = 0
    BY <1>1, NoneUnderWay DEF InFlight, Registering
  <1>4. CASE UNCHANGED <<keyVars, mishaps>>
    <2>1. mishaps' \in Nat /\ mishaps + InFlight <= mishaps' + InFlight'
      BY <1>3, <1>4 DEF JInv, Histories
    <2> QED
      BY <1>1, <1>4, <2>1, BooksStay, CallSpendsNothing, QuietStep
  <1>5. CASE /\ SessionKeys!MayRegister(s)
             /\ SessionKeys!Append(l) \/ SessionKeys!AppendFails(l)
             /\ mishaps' = mishaps \/ mishaps' = mishaps + 1
    <2>1. SessionKeys!Running /\ SessionKeys!Accepts(keyMem, l)
      BY <1>5 DEF SessionKeys!MayRegister, SessionKeys!Accepts, SessionKeys!HandOffLine,
             SessionKeys!KeyIsFree
    <2>2. l \in KeyLines /\ l.kind # "U"
      <3>1. keyMem.next \in Nat
        BY <2>1 DEF SessionKeys!Running, IInv, Types, GateTypeOK, SessionKeys!Books
      <3> QED
        BY <1>2, <3>1 DEF SessionKeys!HandOffLine, KeyLines
    <2> HIDE DEF l
    <2> QED
      BY <1>1, <1>3, <1>5, <2>1, <2>2, KeyLineSpends
  <1> QED
    BY <1>4, <1>5 DEF RegisterBranch, Mishap

LEMMA RevokeBranchSpends ==
    ASSUME NEW s \in Branches, NEW t \in Times, IInv, JInv, IInv', RevokeBranch(s, t)
    PROVE  JInv'
PROOF
  <1> DEFINE l == SessionKeys!RevokeBranchLine(s, t)
  <1>1. /\ call' = call /\ UNCHANGED <<leaseVars, granted, allowed>>
        /\ \/ SessionKeys!Append(l) /\ Strike(s, t) /\ UNCHANGED mishaps
           \/ SessionKeys!AppendFails(l) /\ Mishap /\ UNCHANGED struck
        /\ SessionKeys!MayRevokeBranch(s)
    BY DEF RevokeBranch, WriteKeyLine, budgetVars
  <1>2. InFlight' = InFlight
    BY <1>1 DEF InFlight
  <1>3. SessionKeys!Running /\ SessionKeys!Accepts(keyMem, l)
    BY <1>1 DEF SessionKeys!MayRevokeBranch, SessionKeys!Accepts, SessionKeys!RevokeBranchLine
  <1>4. l \in KeyLines /\ l.kind = "X" /\ l.branch = s /\ l.at = t
    <2>1. keyMem.next \in Nat
      BY <1>3 DEF SessionKeys!Running, IInv, Types, GateTypeOK, SessionKeys!Books
    <2> QED
      BY <2>1 DEF SessionKeys!RevokeBranchLine, KeyLines
  <1> HIDE DEF l
  <1>5. \/ UNCHANGED struck
        \/ /\ SessionKeys!Append(l)
           /\ \E x \in Branches \cup EphemeralKeys, u \in Times :
                    /\ struck' = struck \cup {[of |-> x, at |-> u]}
                    /\ x \in Branches => l.kind = "X" /\ l.branch = x /\ l.at = u
                    /\ x \in EphemeralKeys => l.kind = "R" /\ l.key = x /\ l.at = u
    BY <1>1, <1>4, ChainAssumption DEF Strike
  <1>6. mishaps' = mishaps \/ mishaps' = mishaps + 1
    BY <1>1 DEF Mishap
  <1> QED
    BY <1>1, <1>2, <1>3, <1>4, <1>5, <1>6, KeyLineSpends

LEMMA RevokeKeySpends ==
    ASSUME NEW k \in EphemeralKeys, NEW t \in Times, IInv, JInv, IInv', RevokeKey(k, t)
    PROVE  JInv'
PROOF
  <1> DEFINE l == SessionKeys!RevokeKeyLine(k, t)
  <1>1. /\ call' = call /\ UNCHANGED <<leaseVars, granted, allowed>>
        /\ \/ SessionKeys!Append(l) /\ Strike(k, t) /\ UNCHANGED mishaps
           \/ SessionKeys!AppendFails(l) /\ Mishap /\ UNCHANGED struck
        /\ SessionKeys!MayRevokeKey(k)
    BY DEF RevokeKey, WriteKeyLine, budgetVars
  <1>2. InFlight' = InFlight
    BY <1>1 DEF InFlight
  <1>3. SessionKeys!Running /\ SessionKeys!Accepts(keyMem, l)
    BY <1>1 DEF SessionKeys!MayRevokeKey, SessionKeys!Accepts, SessionKeys!RevokeKeyLine
  <1>4. l \in KeyLines /\ l.kind = "R" /\ l.key = k /\ l.at = t
    <2>1. keyMem.next \in Nat
      BY <1>3 DEF SessionKeys!Running, IInv, Types, GateTypeOK, SessionKeys!Books
    <2> QED
      BY <2>1 DEF SessionKeys!RevokeKeyLine, KeyLines
  <1> HIDE DEF l
  <1>5. \/ UNCHANGED struck
        \/ /\ SessionKeys!Append(l)
           /\ \E x \in Branches \cup EphemeralKeys, u \in Times :
                    /\ struck' = struck \cup {[of |-> x, at |-> u]}
                    /\ x \in Branches => l.kind = "X" /\ l.branch = x /\ l.at = u
                    /\ x \in EphemeralKeys => l.kind = "R" /\ l.key = x /\ l.at = u
    BY <1>1, <1>4, ChainAssumption DEF Strike
  <1>6. mishaps' = mishaps \/ mishaps' = mishaps + 1
    BY <1>1 DEF Mishap
  <1> QED
    BY <1>1, <1>2, <1>3, <1>4, <1>5, <1>6, KeyLineSpends

\* A use of a key: it was under way, and stays so until the lease counts it.
LEMMA UseKeySpends == ASSUME IInv, JInv, IInv', UseKey PROVE JInv'
PROOF
  <1> DEFINE o == BranchOf(call.lease)
             l == SessionKeys!UseLine(o)
             new == SessionKeys!After(keyMem, l)
  <1>1. /\ At("useKey") /\ SessionKeys!MayConsume(o)
        /\ UNCHANGED <<leaseVars, granted, allowed, struck>>
        /\ \/ SessionKeys!Append(l) /\ Goto("useLease") /\ mishaps' = mishaps
           \/ SessionKeys!AppendFails(l) /\ call' = None /\ mishaps' = mishaps + 1
    BY DEF UseKey, Mishap, budgetVars, histories
  <1>2. o \in Branches
    BY <1>1, AtStep DEF Steps
  <1>3. SessionKeys!Running /\ o \in keyMem.registered /\ keyMem.uses[o] < MaxUses[BackedBy[o]]
    BY <1>1, <1>2 DEF SessionKeys!MayConsume, SessionKeys!Bundle, SessionKeys!Certificate
  <1>4. keyMem \in SessionKeys!Books
    BY <1>3 DEF SessionKeys!Running, IInv, Types, GateTypeOK
  <1>5. keyMem.uses \in [Branches -> Nat] /\ keyMem.uses[o] \in Nat /\ keyMem.next \in Nat
    BY <1>2, <1>4 DEF SessionKeys!Books
  <1>6. /\ l \in KeyLines /\ l.kind = "U" /\ l.branch = o /\ l.seq = keyMem.next
        /\ l.index = keyMem.uses[o] + 1
    BY <1>2, <1>5 DEF SessionKeys!UseLine, KeyLines
  <1>7. keyMem.uses[o] + 1 <= MaxUses[BackedBy[o]]
    <2>1. MaxUses[BackedBy[o]] \in Nat
      BY <1>2, ChainAssumption
    <2> QED
      BY <1>3, <1>5, <2>1
  <1>8. SessionKeys!Accepts(keyMem, l)
    <2>1. SessionKeys!Bundle[o].max = MaxUses[BackedBy[o]]
      BY <1>2 DEF SessionKeys!Bundle, SessionKeys!Certificate
    <2> HIDE DEF l, o
    <2> QED
      BY <1>3, <1>6, <1>7, <2>1 DEF SessionKeys!Accepts
  <1> HIDE DEF l
  <1>9. /\ keyMem \in HealthyKeys /\ KeyFileInv'
        /\ \A k \in HealthyKeys' : k \in HealthyKeys \/ k = new
        /\ SessionKeys!Append(l) => \A k \in HealthyKeys' : k = new
    BY <1>1, <1>3, <1>6, <1>8, KeyBooksAfter
  <1>10. new.uses = [keyMem.uses EXCEPT ![o] = keyMem.uses[o] + 1]
    <2>1. new.uses = IF l.kind = "U" THEN [keyMem.uses EXCEPT ![l.branch] = l.index]
                     ELSE keyMem.uses
      BY <1>4, <1>6, KeyLineEffect
    <2> HIDE DEF new
    <2> QED
      BY <1>6, <2>1
  <1>11. \A r \in struck : /\ r.of \in Branches => new.revoked[r.of] = r.at
                           /\ r.of \in EphemeralKeys => new.keyRevoked[r.of] = r.at
    BY <1>6, <1>8, <1>9, StruckStays
  <1>12. /\ LeaseFileInv' /\ AllLeases' = AllLeases /\ HealthyLeases' = HealthyLeases
         /\ LeasesCount'
    BY <1>1, LeasesUntouched
  <1> HIDE DEF new
  <1>13. \A s \in Branches : new.uses[s] = keyMem.uses[s] + (IF s = o THEN 1 ELSE 0)
    BY <1>5, <1>10
  <1>14. InFlight = 1 /\ \A s : Pending("useKey", s) = (IF s = o THEN 1 ELSE 0)
                              /\ Pending("useLease", s) = 0
    BY <1>1 DEF InFlight, Pending, At
  <1>15. \/ /\ SessionKeys!Append(l) /\ mishaps' = mishaps /\ InFlight' = 1
            /\ \A s : Pending("useKey", s)' = 0
                      /\ Pending("useLease", s)' = (IF s = o THEN 1 ELSE 0)
         \/ /\ mishaps' = mishaps + 1 /\ InFlight' = 0
            /\ \A s : Pending("useKey", s)' = 0 /\ Pending("useLease", s)' = 0
    <2>1. CASE SessionKeys!Append(l) /\ Goto("useLease") /\ mishaps' = mishaps
      <3>1. call' # None /\ call'.at = "useLease" /\ call'.lease = call.lease
        BY <1>1, <2>1, GoesTo DEF Steps
      <3> QED
        BY <2>1, <3>1 DEF InFlight, Pending, BranchOf
    <2>2. CASE call' = None /\ mishaps' = mishaps + 1
      BY <2>2, NoneUnderWay
    <2> QED
      BY <1>1, <2>1, <2>2
  <1> HIDE DEF o
  <1>16. KeysCovered'
    <2>1. ASSUME NEW k \in HealthyKeys'
          PROVE  \E j \in HealthyKeys : \A s \in Branches :
                k.uses[s] + Pending("useKey", s)' + granted[Voucher(s)]
                    <= j.uses[s] + Pending("useKey", s) + granted'[Voucher(s)]
      <3>1. PICK j \in HealthyKeys : \A s \in Branches :
                /\ k.uses[s] \in Nat /\ j.uses[s] \in Nat
                /\ k.uses[s] <= j.uses[s] + (IF s = o THEN 1 ELSE 0)
        <4>1. CASE k \in HealthyKeys
          <5>1. \A s \in Branches : k.uses[s] \in Nat
            BY <4>1, BookTypes DEF BookTyping
          <5>2. \A s \in Branches : k.uses[s] <= k.uses[s] + (IF s = o THEN 1 ELSE 0)
            BY <5>1
          <5> QED
            BY <4>1, <5>1, <5>2
        <4>2. CASE k = new
          <5>1. \A s \in Branches : keyMem.uses[s] \in Nat
            BY <1>5
          <5>2. \A s \in Branches :
                    /\ new.uses[s] \in Nat
                    /\ new.uses[s] <= keyMem.uses[s] + (IF s = o THEN 1 ELSE 0)
            BY <1>13, <5>1
          <5> QED
            BY <1>9, <4>2, <5>1, <5>2
        <4> QED
          BY <1>9, <4>1, <4>2
      <3>2. ASSUME NEW s \in Branches
            PROVE  k.uses[s] + Pending("useKey", s)' + granted[Voucher(s)]
                    <= j.uses[s] + Pending("useKey", s) + granted'[Voucher(s)]
        <4>1. granted'[Voucher(s)] = granted[Voucher(s)] /\ granted[Voucher(s)] \in Nat
          BY <1>1, BookTypes DEF BookTyping
        <4>2. Pending("useKey", s)' = 0 /\ Pending("useKey", s) = (IF s = o THEN 1 ELSE 0)
          BY <1>14, <1>15
        <4> QED
          BY <3>1, <4>1, <4>2
      <3> QED
        BY <3>2
    <2> QED
      BY <2>1, KeysCoveredStep DEF JInv
  <1>17. LeasesCovered'
    <2>1. ASSUME NEW k \in HealthyKeys', NEW b \in AllLeases'
          PROVE  \E j \in HealthyKeys, a \in AllLeases : \A s \in Branches :
                Spent(b, s) + Pending("useLease", s)' + j.uses[s]
                    <= Spent(a, s) + Pending("useLease", s) + k.uses[s]
      <3>1. PICK j \in HealthyKeys : \A s \in Branches :
                /\ k.uses[s] \in Nat /\ j.uses[s] \in Nat
                /\ Pending("useLease", s)' \in Nat
                /\ Pending("useLease", s)' + j.uses[s] <= k.uses[s]
        <4>1. CASE k = new
          <5>1. \A s \in Branches : keyMem.uses[s] \in Nat
            BY <1>5
          <5>2. \A s \in Branches : Pending("useLease", s)' \in {0, 1}
                                    /\ Pending("useLease", s)' <= (IF s = o THEN 1 ELSE 0)
            BY <1>15
          <5>3. \A s \in Branches :
                    /\ new.uses[s] \in Nat /\ Pending("useLease", s)' \in Nat
                    /\ Pending("useLease", s)' + keyMem.uses[s] <= new.uses[s]
            BY <1>13, <5>1, <5>2
          <5> QED
            BY <1>9, <4>1, <5>1, <5>3
        <4>2. CASE k \in HealthyKeys /\ k # new
          <5>1. \A s : Pending("useLease", s)' = 0
            BY <1>9, <1>15, <4>2
          <5>2. \A s \in Branches : k.uses[s] \in Nat
            BY <4>2, BookTypes DEF BookTyping
          <5>3. \A s \in Branches : Pending("useLease", s)' + k.uses[s] <= k.uses[s]
            BY <5>1, <5>2
          <5> QED
            BY <4>2, <5>1, <5>2, <5>3
        <4> QED
          BY <1>9, <4>1, <4>2
      <3>2. ASSUME NEW s \in Branches
            PROVE  Spent(b, s) + Pending("useLease", s)' + j.uses[s]
                    <= Spent(b, s) + Pending("useLease", s) + k.uses[s]
        <4>1. Spent(b, s) \in Nat
          BY <1>12, BookTypes, SpentType DEF BookTyping
        <4>2. Pending("useLease", s) = 0
          BY <1>14
        <4> QED
          BY <3>1, <4>1, <4>2
      <3> QED
        BY <1>12, <3>2
    <2> QED
      BY <2>1, LeasesCoveredStep DEF JInv
  <1>18. KeysStruck'
    BY <1>1, <1>9, <1>11 DEF JInv, KeysStruck
  <1>19. LeasesStruck'
    BY <1>1, <1>12 DEF JInv, LeasesStruck
  <1>20. mishaps \in Nat
    BY DEF JInv, Histories
  <1>21. Histories'
    BY <1>1, <1>15, <1>20 DEF JInv, Histories
  <1>22. OnlyFailuresBurn'
    <2>1. mishaps + InFlight <= mishaps' + InFlight'
      BY <1>14, <1>15, <1>20
    <2> QED
      BY <1>1, <1>21, <2>1, BurnStep DEF JInv
  <1> QED
    BY <1>9, <1>12, <1>16, <1>17, <1>18, <1>19, <1>21, <1>22 DEF JInv

\* A line of the leases: it may count one use, of the branch it was under way for.
LEMMA LeaseLineSpends ==
    ASSUME IInv, JInv, IInv', NEW l \in LeaseLines, RuntimeLeases!Running,
           RuntimeLeases!Accepts(leaseMem, l),
           RuntimeLeases!Append(l) \/ RuntimeLeases!AppendFails(l),
           UNCHANGED <<keyVars, granted>>,
           \A s \in Branches : Pending("useKey", s)' <= Pending("useKey", s),
           \A s \in Branches :
                Pending("useLease", s)' + (IF l.kind = "U" /\ BranchOf(l.lease) = s THEN 1 ELSE 0)
                    <= Pending("useLease", s)
    PROVE  /\ KeyFileInv' /\ LeaseFileInv' /\ KeysCovered' /\ LeasesCovered'
           /\ HealthyKeys' = HealthyKeys
           /\ \A b \in HealthyLeases', r \in struck : r.of \in Leases => r.of \in b.revoked
PROOF
  <1> DEFINE new == RuntimeLeases!After(leaseMem, l)
  <1>1. /\ leaseMem \in HealthyLeases /\ leaseMem \in RuntimeLeases!Books
        /\ LeaseFileInv'
        /\ \A b \in HealthyLeases' : b \in HealthyLeases \/ b = new
        /\ \A b \in AllLeases' : \E a \in AllLeases : Counted(a, b, l)
    BY LeaseBooksAfter
  <1>2. KeyFileInv' /\ HealthyKeys' = HealthyKeys
    BY KeysUntouched
  <1>3. KeysCovered'
    <2>1. ASSUME NEW k \in HealthyKeys', NEW s \in Branches
          PROVE  k.uses[s] + Pending("useKey", s)' + granted[Voucher(s)]
                    <= k.uses[s] + Pending("useKey", s) + granted'[Voucher(s)]
      <3>1. k.uses[s] \in Nat /\ granted[Voucher(s)] \in Nat /\ granted' = granted
        BY <1>2, BookTypes DEF BookTyping
      <3>2. Pending("useKey", s) \in {0, 1} /\ Pending("useKey", s)' \in {0, 1}
        BY DEF Pending
      <3>3. Pending("useKey", s)' <= Pending("useKey", s)
        OBVIOUS
      <3> QED
        BY <3>1, <3>2, <3>3
    <2>2. \A k \in HealthyKeys' : \E j \in HealthyKeys : \A s \in Branches :
                k.uses[s] + Pending("useKey", s)' + granted[Voucher(s)]
                    <= j.uses[s] + Pending("useKey", s) + granted'[Voucher(s)]
      BY <1>2, <2>1
    <2> QED
      BY <2>2, KeysCoveredStep DEF JInv
  <1>4. LeasesCovered'
    <2>1. ASSUME NEW k \in HealthyKeys', NEW b \in AllLeases',
                 NEW a \in AllLeases, Counted(a, b, l), NEW s \in Branches
          PROVE  Spent(b, s) + Pending("useLease", s)' + k.uses[s]
                    <= Spent(a, s) + Pending("useLease", s) + k.uses[s]
      <3>1. a \in RuntimeLeases!Books /\ b \in RuntimeLeases!Books
        <4>1. BookTyping /\ BookTyping'
          BY BookTypes, PTL
        <4> QED
          BY <4>1 DEF BookTyping
      <3>2. k.uses[s] \in Nat
        BY <1>2, BookTypes DEF BookTyping
      <3>3. Spent(a, s) \in Nat /\ Spent(b, s) \in Nat
        BY <3>1, SpentType
      <3>4. Spent(b, s) <= Spent(a, s)
                + (IF l.kind = "U" /\ BranchOf(l.lease) = s THEN 1 ELSE 0)
        BY <2>1, <3>1, SpentCounted
      <3>5. Pending("useLease", s) \in {0, 1} /\ Pending("useLease", s)' \in {0, 1}
        BY DEF Pending
      <3>6. Pending("useLease", s)' + (IF l.kind = "U" /\ BranchOf(l.lease) = s THEN 1 ELSE 0)
                    <= Pending("useLease", s)
        OBVIOUS
      <3> QED
        BY <3>2, <3>3, <3>4, <3>5, <3>6
    <2>2. \A k \in HealthyKeys', b \in AllLeases' :
             \E j \in HealthyKeys, a \in AllLeases : \A s \in Branches :
                Spent(b, s) + Pending("useLease", s)' + j.uses[s]
                    <= Spent(a, s) + Pending("useLease", s) + k.uses[s]
      BY <1>1, <1>2, <2>1
    <2> QED
      BY <2>2, LeasesCoveredStep DEF JInv
  <1>5. ASSUME NEW b \in HealthyLeases', NEW r \in struck, r.of \in Leases
        PROVE  r.of \in b.revoked
    <2>1. leaseMem.revoked \subseteq new.revoked
      BY <1>1, LeaseLineEffect
    <2>2. \A a \in HealthyLeases : r.of \in a.revoked
      BY <1>5 DEF JInv, LeasesStruck
    <2> QED
      BY <1>1, <2>1, <2>2
  <1> QED
    BY <1>1, <1>2, <1>3, <1>4, <1>5

\* A line of the leases that is not a use, and what it revokes.
LEMMA LeaseOrderSpends ==
    ASSUME IInv, JInv, IInv', NEW l \in LeaseLines, l.kind # "U", RuntimeLeases!Running,
           RuntimeLeases!Accepts(leaseMem, l),
           RuntimeLeases!Append(l) \/ RuntimeLeases!AppendFails(l),
           UNCHANGED <<keyVars, granted, allowed, call>>,
           mishaps' = mishaps \/ mishaps' = mishaps + 1,
           \/ UNCHANGED struck
           \/ /\ RuntimeLeases!Append(l) /\ l.kind = "X"
              /\ struck' = struck \cup {[of |-> l.lease, at |-> 1]}
    PROVE  JInv'
PROOF
  <1> DEFINE new == RuntimeLeases!After(leaseMem, l)
  <1>1. \A step, s : Pending(step, s)' = Pending(step, s) /\ Pending(step, s) \in {0, 1}
    BY DEF Pending, BranchOf
  <1>2. InFlight' = InFlight /\ InFlight \in {0, 1} /\ mishaps \in Nat
    BY DEF InFlight, JInv, Histories
  <1>3. /\ \A s \in Branches : Pending("useKey", s)' <= Pending("useKey", s)
        /\ \A s \in Branches :
                Pending("useLease", s)' + (IF l.kind = "U" /\ BranchOf(l.lease) = s THEN 1 ELSE 0)
                    <= Pending("useLease", s)
    BY <1>1
  <1>4. /\ KeyFileInv' /\ LeaseFileInv' /\ KeysCovered' /\ LeasesCovered'
        /\ HealthyKeys' = HealthyKeys
        /\ \A b \in HealthyLeases', r \in struck : r.of \in Leases => r.of \in b.revoked
    BY <1>3, LeaseLineSpends
  <1>5. /\ leaseMem \in HealthyLeases /\ leaseMem \in RuntimeLeases!Books
        /\ \A b \in HealthyLeases' : b \in HealthyLeases \/ b = new
        /\ RuntimeLeases!Append(l) => \A b \in HealthyLeases' : b = new
    BY LeaseBooksAfter
  <1>6. new.uses = leaseMem.uses /\ (l.kind = "X" => l.lease \in new.revoked)
    BY <1>5, LeaseLineEffect
  <1>7. l.lease \in Leases
    BY DEF LeaseLines
  <1> HIDE DEF new
  <1>8. LeasesCount'
    BY <1>5, <1>6 DEF JInv, LeasesCount
  <1>9. \A r \in struck' : \/ r \in struck
                           \/ r.of = l.lease /\ r.at = 1 /\ l.kind = "X" /\ RuntimeLeases!Append(l)
    OBVIOUS
  <1>10. KeysStruck'
    <2>1. l.lease \notin Branches /\ l.lease \notin EphemeralKeys
      BY <1>7, ChainAssumption
    <2> QED
      BY <1>4, <1>9, <2>1 DEF JInv, KeysStruck
  <1>11. LeasesStruck'
    BY <1>4, <1>5, <1>6, <1>9 DEF LeasesStruck
  <1>12. Histories'
    <2>1. mishaps' \in Nat
      BY <1>2
    <2>2. \A r \in struck' : r.at \in Nat \ {0}
      BY <1>9 DEF JInv, Histories
    <2> QED
      BY <2>1, <2>2 DEF JInv, Histories
  <1>13. OnlyFailuresBurn'
    <2>1. mishaps + InFlight <= mishaps' + InFlight'
      BY <1>2
    <2> QED
      BY <1>12, <2>1, BurnStep DEF JInv
  <1> QED
    BY <1>4, <1>8, <1>10, <1>11, <1>12, <1>13 DEF JInv

LEMMA RegisterLeaseSpends ==
    ASSUME NEW x \in Leases, IInv, JInv, IInv', RegisterLease(x)
    PROVE  JInv'
PROOF
  <1> DEFINE l == RuntimeLeases!RegisterLine(x)
  <1>1. /\ UNCHANGED <<keyVars, granted, allowed, call, struck>>
        /\ RuntimeLeases!MayRegister(x)
        /\ RuntimeLeases!Append(l) \/ RuntimeLeases!AppendFails(l)
        /\ mishaps' = mishaps \/ mishaps' = mishaps + 1
    BY DEF RegisterLease, Mishap, budgetVars, histories
  <1>2. RuntimeLeases!Running /\ RuntimeLeases!Accepts(leaseMem, l)
    BY <1>1 DEF RuntimeLeases!MayRegister, RuntimeLeases!Accepts, RuntimeLeases!RegisterLine
  <1>3. l \in LeaseLines /\ l.kind = "L"
    <2>1. leaseMem.next \in Nat
      BY <1>2 DEF RuntimeLeases!Running, IInv, Types, GateTypeOK, RuntimeLeases!Books
    <2> QED
      BY <2>1 DEF RuntimeLeases!RegisterLine, LeaseLines
  <1> HIDE DEF l
  <1> QED
    BY <1>1, <1>2, <1>3, LeaseOrderSpends

LEMMA RevokeLeaseSpends ==
    ASSUME NEW x \in Leases, IInv, JInv, IInv', RevokeLease(x)
    PROVE  JInv'
PROOF
  <1> DEFINE l == RuntimeLeases!RevokeLine(x)
  <1>1. /\ UNCHANGED <<keyVars, granted, allowed, call>>
        /\ RuntimeLeases!MayRevoke(x)
        /\ \/ RuntimeLeases!Append(l) /\ Strike(x, 1) /\ mishaps' = mishaps
           \/ RuntimeLeases!AppendFails(l) /\ UNCHANGED struck /\ mishaps' = mishaps + 1
    BY DEF RevokeLease, Mishap, budgetVars
  <1>2. RuntimeLeases!Running /\ RuntimeLeases!Accepts(leaseMem, l)
    BY <1>1 DEF RuntimeLeases!MayRevoke, RuntimeLeases!Accepts, RuntimeLeases!RevokeLine
  <1>3. l \in LeaseLines /\ l.kind = "X" /\ l.lease = x
    <2>1. leaseMem.next \in Nat
      BY <1>2 DEF RuntimeLeases!Running, IInv, Types, GateTypeOK, RuntimeLeases!Books
    <2> QED
      BY <2>1 DEF RuntimeLeases!RevokeLine, LeaseLines
  <1> HIDE DEF l
  <1> QED
    BY <1>1, <1>2, <1>3, LeaseOrderSpends DEF Strike

\* The use that was under way is ALLOWED and counted, or burnt by a failure.
LEMMA UseLeaseSpends == ASSUME IInv, JInv, IInv', UseLease PROVE JInv'
PROOF
  <1> DEFINE x == call.lease
             l == RuntimeLeases!UseLine(x)
             new == RuntimeLeases!After(leaseMem, l)
  <1>1. /\ At("useLease") /\ call' = None
        /\ UNCHANGED <<keyVars, granted, struck>>
        /\ \/ /\ RuntimeLeases!MayConsume(x) /\ RuntimeLeases!Append(l)
              /\ allowed' = [allowed EXCEPT ![x] = @ + 1] /\ mishaps' = mishaps
           \/ /\ RuntimeLeases!MayConsume(x) /\ RuntimeLeases!AppendFails(l)
              /\ allowed' = allowed /\ mishaps' = mishaps + 1
           \/ UNCHANGED <<leaseVars, allowed>> /\ mishaps' = mishaps + 1
    BY DEF UseLease, Mishap, budgetVars
  <1>2. x \in Leases /\ BranchOf(x) \in Branches
    BY <1>1, AtStep DEF Steps
  <1>3. InFlight = 1 /\ \A s \in Branches :
            /\ Pending("useKey", s) = 0
            /\ Pending("useLease", s) = (IF BranchOf(x) = s THEN 1 ELSE 0)
    BY <1>1 DEF InFlight, Pending, At
  <1>4. InFlight' = 0 /\ \A step, s : Pending(step, s)' = 0
    BY <1>1, NoneUnderWay
  <1>5. mishaps \in Nat /\ allowed \in [Leases -> Nat]
    BY DEF JInv, Histories
  <1>6. CASE UNCHANGED <<leaseVars, allowed>> /\ mishaps' = mishaps + 1
    <2>1. mishaps' \in Nat /\ mishaps + InFlight <= mishaps' + InFlight'
      BY <1>3, <1>4, <1>5, <1>6
    <2> QED
      BY <1>1, <1>6, <2>1, BooksStay, CallSpendsNothing, QuietStep
  <1>7. CASE /\ RuntimeLeases!MayConsume(x)
             /\ \/ /\ RuntimeLeases!Append(l)
                   /\ allowed' = [allowed EXCEPT ![x] = @ + 1] /\ mishaps' = mishaps
                \/ /\ RuntimeLeases!AppendFails(l)
                   /\ allowed' = allowed /\ mishaps' = mishaps + 1
    <2>1. RuntimeLeases!Running /\ RuntimeLeases!Accepts(leaseMem, l)
      BY <1>7 DEF RuntimeLeases!MayConsume, RuntimeLeases!Spendable, RuntimeLeases!Accepts,
             RuntimeLeases!UseLine
    <2>2. leaseMem \in RuntimeLeases!Books
      BY <2>1 DEF RuntimeLeases!Running, IInv, Types, GateTypeOK
    <2>3. leaseMem.next \in Nat /\ leaseMem.uses \in [Leases -> Nat]
      BY <2>2 DEF RuntimeLeases!Books
    <2>4. /\ l \in LeaseLines /\ l.kind = "U" /\ l.lease = x
          /\ l.index = leaseMem.uses[x] + 1
      BY <1>2, <2>3 DEF RuntimeLeases!UseLine, LeaseLines
    <2> HIDE DEF l
    <2>5. /\ \A s \in Branches : Pending("useKey", s)' <= Pending("useKey", s)
          /\ \A s \in Branches :
                Pending("useLease", s)' + (IF l.kind = "U" /\ BranchOf(l.lease) = s THEN 1 ELSE 0)
                    <= Pending("useLease", s)
      BY <1>3, <1>4, <2>4
    <2>6. /\ KeyFileInv' /\ LeaseFileInv' /\ KeysCovered' /\ LeasesCovered'
          /\ HealthyKeys' = HealthyKeys
          /\ \A b \in HealthyLeases', r \in struck : r.of \in Leases => r.of \in b.revoked
      BY <1>1, <1>7, <2>1, <2>4, <2>5, LeaseLineSpends
    <2>7. /\ leaseMem \in HealthyLeases
          /\ \A b \in HealthyLeases' : b \in HealthyLeases \/ b = new
          /\ RuntimeLeases!Append(l) => \A b \in HealthyLeases' : b = new
      BY <1>7, <2>1, <2>4, LeaseBooksAfter
    <2>8. new.uses = [leaseMem.uses EXCEPT ![x] = leaseMem.uses[x] + 1]
      <3>1. new.uses = IF l.kind = "U" THEN [leaseMem.uses EXCEPT ![l.lease] = l.index]
                       ELSE leaseMem.uses
        BY <2>2, <2>4, LeaseLineEffect
      <3> HIDE DEF new
      <3> QED
        BY <2>4, <3>1
    <2> HIDE DEF new, x
    <2>9. \A y \in Leases : new.uses[y] = leaseMem.uses[y] + (IF y = x THEN 1 ELSE 0)
      BY <2>3, <2>8
    <2>10. \A y \in Leases : allowed[y] \in Nat /\ leaseMem.uses[y] \in Nat
      BY <1>5, <2>3
    <2>11. \A y \in Leases : allowed[y] <= leaseMem.uses[y]
      BY <2>7 DEF JInv, LeasesCount
    <2>12. LeasesCount'
      <3>1. CASE RuntimeLeases!Append(l) /\ allowed' = [allowed EXCEPT ![x] = @ + 1]
        <4>1. \A y \in Leases : allowed'[y] = allowed[y] + (IF y = x THEN 1 ELSE 0)
          BY <1>5, <3>1
        <4>2. \A y \in Leases : allowed'[y] <= new.uses[y]
          BY <2>9, <2>10, <2>11, <4>1
        <4> QED
          BY <2>7, <3>1, <4>2 DEF LeasesCount
      <3>2. CASE allowed' = allowed
        <4>1. \A y \in Leases : allowed[y] <= new.uses[y]
          BY <2>9, <2>10, <2>11
        <4> QED
          BY <2>7, <3>2, <4>1 DEF JInv, LeasesCount
      <3> QED
        BY <1>7, <3>1, <3>2
    <2>13. KeysStruck' /\ LeasesStruck'
      BY <1>1, <2>6 DEF JInv, KeysStruck, LeasesStruck
    <2>14. Histories'
      <3>1. mishaps' \in Nat /\ allowed' \in [Leases -> Nat]
        BY <1>2, <1>5, <1>7 DEF x
      <3> QED
        BY <1>1, <3>1 DEF JInv, Histories
    <2>15. OnlyFailuresBurn'
      <3>1. CASE allowed' = [allowed EXCEPT ![x] = @ + 1] /\ mishaps' = mishaps
        <4> DEFINE g == SumFunctionOnSet([s \in Branches |-> granted[Voucher(s)]], Branches)
                   a == SumFunctionOnSet(allowed, Leases)
                   n == SumFunctionOnSet(allowed', Leases)
        <4>1. allowed' \in [Leases -> Nat] /\ x \in Leases
              /\ \A y \in Leases : allowed'[y] = IF y = x THEN allowed[x] + 1 ELSE allowed[y]
          BY <1>2, <1>5, <3>1 DEF x
        <4>2. Leases \in SUBSET Leases /\ IsFiniteSet(Leases) /\ 1 \in Nat
          BY ChainAssumption
        <4>3. n = a + 1
          <5>1. PICK v \in [Leases -> Nat] : v = allowed'
            BY <4>1
          <5>2. \A y \in Leases : v[y] = IF y = x THEN allowed[x] + 1 ELSE allowed[y]
            BY <4>1, <5>1
          <5>3. SumFunctionOnSet(v, Leases) = SumFunctionOnSet(allowed, Leases) + 1
            BY <1>5, <4>1, <4>2, <5>2, SumBump
          <5> QED
            BY <5>1, <5>3
        <4>4. a \in Nat
          BY <1>5, <4>2, SumLaws
        <4>5. g <= a + mishaps + InFlight
          BY DEF JInv, OnlyFailuresBurn
        <4>6. OnlyFailuresBurn' <=> g <= n + mishaps' + InFlight'
          BY <1>1 DEF OnlyFailuresBurn, Voucher
        <4> HIDE DEF g, a, n
        <4>7. g <= a + mishaps + 1
          BY <1>3, <4>5
        <4>8. a + mishaps + 1 = n + mishaps' + InFlight'
          <5>1. n + mishaps' + InFlight' = a + 1 + mishaps + 0
            BY <1>4, <3>1, <4>3
          <5> QED
            BY <1>5, <4>4, <5>1
        <4> QED
          BY <4>6, <4>7, <4>8
      <3>2. CASE allowed' = allowed /\ mishaps' = mishaps + 1
        <4>1. mishaps + InFlight <= mishaps' + InFlight'
          BY <1>3, <1>4, <1>5, <3>2
        <4> QED
          BY <1>1, <2>14, <3>2, <4>1, BurnStep DEF JInv
      <3> QED
        BY <1>7, <3>1, <3>2
    <2> QED
      BY <2>6, <2>12, <2>13, <2>14, <2>15 DEF JInv
  <1> QED
    BY <1>1, <1>6, <1>7

-----------------------------------------------------------------------------
(* The second invariant, and what follows from it.                          *)

LEMMA SpentInitially == Init => JInv
PROOF
  <1> SUFFICES ASSUME Init PROVE JInv
    OBVIOUS
  <1> DEFINE K == SessionKeys!EmptyBook
             L == RuntimeLeases!EmptyBook
  <1>1. /\ keyFile = [disk |-> K, view |-> K, clean |-> TRUE] /\ keyMem = None
        /\ leaseFile = [disk |-> L, view |-> L, clean |-> TRUE] /\ leaseMem = None
        /\ call = None /\ struck = {} /\ mishaps = 0
        /\ allowed = [x \in Leases |-> 0]
        /\ granted = [r \in Receipts |-> 0]
    BY DEF Init, SessionKeys!Init, RuntimeLeases!Init, SessionKeys!EmptyFile,
           RuntimeLeases!EmptyFile, Authority!Init
  <1>2. /\ K.uses = [s \in Branches |-> 0]
        /\ L.uses = [x \in Leases |-> 0]
    BY DEF SessionKeys!EmptyBook, RuntimeLeases!EmptyBook
  <1>3. InFlight = 0 /\ \A step, s : Pending(step, s) = 0
    BY <1>1 DEF InFlight, Pending
  <1>4. \A s \in Branches : Voucher(s) \in Receipts
    BY ChainAssumption DEF Voucher, Bundle, SessionKeys!Bundle, SessionKeys!Certificate
  <1> HIDE DEF K, L
  <1>5. HealthyKeys \subseteq {K} /\ AllLeases = {L} /\ HealthyLeases \subseteq {L}
    BY <1>1 DEF HealthyKeys, HealthyLeases, AllLeases, KeyBooks, LeaseBooks
  <1>6. Histories /\ KeyFileInv /\ LeaseFileInv /\ KeysStruck /\ LeasesStruck
    BY <1>1 DEF Histories, KeyFileInv, LeaseFileInv, KeysStruck, LeasesStruck
  <1>7. KeysCovered
    BY <1>1, <1>2, <1>3, <1>4, <1>5 DEF KeysCovered
  <1>8. LeasesCovered
    <2>1. ASSUME NEW s \in Branches PROVE Spent(L, s) = 0
      BY <1>2, LeasesOfFinite, SumZero DEF Spent
    <2> QED
      BY <1>2, <1>3, <1>5, <2>1 DEF LeasesCovered
  <1>9. LeasesCount
    BY <1>1, <1>2, <1>5 DEF LeasesCount
  <1>10. OnlyFailuresBurn
    <2>1. SumFunctionOnSet([s \in Branches |-> granted[Voucher(s)]], Branches) = 0
      <3> DEFINE w == [s \in Branches |-> granted[Voucher(s)]]
      <3>1. w \in [Branches -> Nat] /\ \A s \in Branches : w[s] = 0
        BY <1>1, <1>4
      <3> HIDE DEF w
      <3>2. SumFunctionOnSet(w, Branches) = 0
        BY <3>1, SumZero, ChainAssumption
      <3> QED
        BY <3>2 DEF w
    <2>2. SumFunctionOnSet(allowed, Leases) = 0
      BY <1>1, SumZero, ChainAssumption
    <2> QED
      BY <1>1, <1>3, <2>1, <2>2 DEF OnlyFailuresBurn
  <1> QED
    BY <1>6, <1>7, <1>8, <1>9, <1>10 DEF JInv

LEMMA EveryStepSpends == ASSUME IInv, JInv, IInv', [Next]_vars PROVE JInv'
BY ClockSpends, OpenSpends, DieSpends, RegisterBranchSpends, CheckKeySpends, UseVoucherSpends,
   UseKeySpends, UseLeaseSpends, IssueVoucherSpends, RevokeBranchSpends, RevokeKeySpends,
   RegisterLeaseSpends, RevokeLeaseSpends, CheckLeaseSpends, StutterSpends DEF Next

\* The clock shows a time.
LEMMA ClockShows == Spec => [](now \in Times)
PROOF
  <1>1. Init => now \in Times
    BY DEF Init
  <1>2. now \in Times /\ [Next]_vars => (now \in Times)'
    BY DEF Next, vars, Clock, Open, Die, RegisterBranch, CheckKey, UseVoucher, UseKey, UseLease,
           IssueVoucher, RevokeBranch, RevokeKey, WriteKeyLine, RegisterLease, RevokeLease,
           CheckLease
  <1> QED
    BY <1>1, <1>2, PTL DEF Spec

\* The three ledgers (authority_ledger.cpp, session_key.cpp and
\* runtime_lease.cpp of src/src) stay comparable use by use: every healthy book
\* of keys counts at most the uses the vouchers were ALLOWED, minus the one that
\* is under way, every book of leases at most those of every book of keys, and
\* what was acknowledged, uses and revocations, is in every healthy book.
THEOREM UsesInvariant == Spec => [](IInv /\ JInv)
PROOF
  <1>1. Init => IInv /\ JInv
    BY Initially, SpentInitially
  <1>2. IInv /\ JInv /\ [Next]_vars => (IInv /\ JInv)'
    <2>1. IInv /\ [Next]_vars => IInv'
      BY EveryStep
    <2>2. ASSUME IInv, JInv, [Next]_vars PROVE IInv' /\ JInv'
      BY <2>1, <2>2, EveryStepSpends
    <2> QED
      BY <2>2
  <1> QED
    BY <1>1, <1>2, PTL DEF Spec

\* The journals, the books and the running call of the lease gate and of the
\* session-key gate have the types their headers give them.
THEOREM ChainTypeCorrect == Spec => []GateTypeOK
PROOF
  <1>1. IInv => GateTypeOK
    BY DEF IInv, Types
  <1> QED
    BY <1>1, Invariant, PTL

\* README laws 58 and 65: no layer of authority is ahead of the one below it
\* (the consume of each ledger comes after that of the ledger below it, in
\* RuntimeLeaseAuthorityGate::authorize and SessionKeyAuthorityGate::authorize).
THEOREM LayersAgree == Spec => []UsesAreBacked
PROOF
  <1>1. IInv /\ JInv => UsesAreBacked
    <2> SUFFICES ASSUME IInv, JInv, NEW s \in Branches
                 PROVE  /\ \A k \in KeyBooks : k.healthy =>
                            /\ k.uses[s] <= granted[Voucher(s)]
                            /\ \A b \in LeaseBooks :
                                SumFunctionOnSet(b.uses, LeasesOf(s)) <= k.uses[s]
                        /\ \A b \in LeaseBooks : b.healthy =>
                            \A l \in LeasesOf(s) : allowed[l] <= b.uses[l]
      BY DEF UsesAreBacked
    <2>1. ASSUME NEW k \in KeyBooks, k.healthy
          PROVE  /\ k.uses[s] <= granted[Voucher(s)]
                 /\ \A b \in LeaseBooks :
                        SumFunctionOnSet(b.uses, LeasesOf(s)) <= k.uses[s]
      <3>1. k \in HealthyKeys
        BY <2>1 DEF HealthyKeys
      <3>2. k.uses[s] \in Nat /\ granted[Voucher(s)] \in Nat
        BY <3>1, BookTypes DEF BookTyping
      <3>3. k.uses[s] + Pending("useKey", s) <= granted[Voucher(s)]
        BY <3>1 DEF JInv, KeysCovered
      <3>4. ASSUME NEW b \in LeaseBooks PROVE Spent(b, s) <= k.uses[s]
        <4>1. b \in AllLeases
          BY DEF AllLeases
        <4>2. Spent(b, s) \in Nat
          BY <4>1, BookTypes, SpentType DEF BookTyping
        <4>3. Spent(b, s) + Pending("useLease", s) <= k.uses[s]
          BY <3>1, <4>1 DEF JInv, LeasesCovered
        <4> QED
          BY <3>2, <4>2, <4>3, PendingType
      <3> QED
        BY <3>2, <3>3, <3>4, PendingType DEF Spent
    <2>2. ASSUME NEW b \in LeaseBooks, b.healthy, NEW l \in LeasesOf(s)
          PROVE  allowed[l] <= b.uses[l]
      BY <2>2 DEF JInv, LeasesCount, HealthyLeases, LeasesOf
    <2> QED
      BY <2>1, <2>2
  <1> QED
    BY <1>1, UsesInvariant, PTL

\* README law 63: only a failed append, a death or an expiry in mid-call burns
\* authority; every other use of a voucher is a use ALLOWED for some lease, or
\* still under way.
THEOREM OnlyFailuresCost == Spec => []OnlyFailuresBurn
PROOF
  <1>1. JInv => OnlyFailuresBurn
    BY DEF JInv
  <1> QED
    BY <1>1, UsesInvariant, PTL

\* The first half of RevocationsHold: the check of the key.
LEMMA CheckHeedsRevocations ==
    ASSUME IInv, JInv, now \in Times, [Next]_vars,
           At("checkKey"), call' \notin {None, call},
           NEW r \in struck,
           r.of \in {BranchOf(call.lease), Bundle[BranchOf(call.lease)].key}
    PROVE  now < r.at
PROOF
  <1> DEFINE s == BranchOf(call.lease)
  <1>1. CheckKey
    BY DEF Next, vars, At, Clock, Open, Die, RegisterBranch, Registering, UseVoucher, UseKey,
           UseLease, IssueVoucher, RevokeBranch, RevokeKey, WriteKeyLine, RegisterLease,
           RevokeLease, CheckLease, Idle, histories
  <1>2. SessionKeys!Preflight(s)
    BY <1>1 DEF CheckKey
  <1>3. s \in Branches
    BY AtStep DEF Steps
  <1>4. Bundle[s].key \in EphemeralKeys /\ SessionKeys!Bundle = Bundle
    BY <1>3, ChainAssumption DEF Bundle, SessionKeys!Bundle, SessionKeys!Certificate
  <1>5. keyMem \in HealthyKeys
    BY <1>2 DEF SessionKeys!Preflight, SessionKeys!Running, HealthyKeys, KeyBooks
  <1>6. /\ ~SessionKeys!InEffect(keyMem.revoked[s])
        /\ ~SessionKeys!InEffect(keyMem.keyRevoked[Bundle[s].key])
    BY <1>2, <1>4 DEF SessionKeys!Preflight
  <1>7. keyMem.revoked[s] = r.at \/ keyMem.keyRevoked[Bundle[s].key] = r.at
    BY <1>3, <1>4, <1>5 DEF JInv, KeysStruck
  <1>8. r.at \in Nat \ {0} /\ now \in Nat
    BY ChainAssumption DEF JInv, Histories
  <1>9. ~(now >= r.at)
    BY <1>6, <1>7, <1>8 DEF SessionKeys!InEffect
  <1> QED
    BY <1>8, <1>9

\* The second half: the consumption of the lease.
LEMMA UseHeedsRevocations ==
    ASSUME IInv, JInv, [Next]_vars,
           NEW l \in Leases, allowed'[l] > allowed[l], NEW r \in struck
    PROVE  r.of # l
PROOF
  <1>1. allowed \in [Leases -> Nat]
    BY DEF JInv, Histories
  <1>2. allowed' # allowed
    BY <1>1
  <1>3. UseLease
    BY <1>2 DEF Next, vars, Clock, Open, Die, RegisterBranch, CheckKey, UseVoucher, UseKey,
           IssueVoucher, RevokeBranch, RevokeKey, WriteKeyLine, RegisterLease, RevokeLease,
           CheckLease, histories
  <1>4. /\ RuntimeLeases!MayConsume(call.lease)
        /\ allowed' = [allowed EXCEPT ![call.lease] = @ + 1]
    BY <1>2, <1>3 DEF UseLease
  <1>5. call.lease = l
    BY <1>1, <1>4
  <1>6. l \notin leaseMem.revoked /\ leaseMem \in HealthyLeases
    BY <1>4, <1>5 DEF RuntimeLeases!MayConsume, RuntimeLeases!Spendable, RuntimeLeases!Running,
           HealthyLeases, LeaseBooks
  <1> QED
    BY <1>6 DEF JInv, LeasesStruck

\* README laws 60 and 67: an acknowledged revocation that is in effect is heeded
\* by every later check of the key (preflight of src/src/session_key.cpp) and
\* that of a lease by every later consumption (src/src/runtime_lease.cpp), for
\* any restarts, torn lines and failed appends between.
THEOREM RevocationsLast == Spec => RevocationsHold
PROOF
  <1>1. ASSUME IInv, JInv, now \in Times, [Next]_vars
        PROVE  /\ At("checkKey") /\ call' \notin {None, call} =>
                    \A r \in struck :
                        r.of \in {BranchOf(call.lease), Bundle[BranchOf(call.lease)].key} =>
                            now < r.at
               /\ \A l \in Leases : allowed'[l] > allowed[l] => \A r \in struck : r.of # l
    BY <1>1, CheckHeedsRevocations, UseHeedsRevocations
  <1>2. IInv /\ JInv /\ now \in Times /\ [Next]_vars =>
            [ /\ At("checkKey") /\ call' \notin {None, call} =>
                    \A r \in struck :
                        r.of \in {BranchOf(call.lease), Bundle[BranchOf(call.lease)].key} =>
                            now < r.at
              /\ \A l \in Leases : allowed'[l] > allowed[l] => \A r \in struck : r.of # l ]_vars
    BY <1>1
  <1> QED
    BY <1>2, UsesInvariant, ClockShows, PTL DEF Spec, RevocationsHold
=============================================================================
